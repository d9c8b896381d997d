------------------------------- MODULE UdpBus -------------------------------
(***************************************************************************)
(* usb/udp.go: the bus of the emulators.  Every UDP port has one socket,   *)
(* one goroutine that reads it (listen) and two channels: pongs (1) and    *)
(* data (100).  Whether an emulator is there is asked with a ping each     *)
(* time, by an enumeration and before every read and write of a device;    *)
(* the askers of a port share its channels.                                *)
(*                                                                         *)
(* A datagram is 0 for a ping or pong, and otherwise the number of the     *)
(* device (UDPDevice) whose message it carries or answers.                 *)
(***************************************************************************)
EXTENDS Naturals, Sequences, FiniteSets

CONSTANTS Touples,                \* UDP.ports: [normal, debug], debug 0 if absent
          MaxDevices,             \* bound: devices ever connected
          MaxSends,               \* bound: messages written to a device
          MaxNet,                 \* datagrams a socket keeps; more are lost
          DataCap,                \* capacity of the data channel
          Slow                    \* whether a pong may miss its timeout

Ports == UNION {{t.normal, t.debug} : t \in {Touples[i] : i \in DOMAIN Touples}} \ {0}
Devices == 1 .. MaxDevices

\* a device serves a /call or /read, and a /post beside it
Enum == <<"enumerate", 0>>
Callers == {"call", "post"} \X Devices
Threads == Callers \cup {Enum}

UdpAssumption ==
  /\ Touples \in Seq([normal : Nat \ {0}, debug : Nat]) /\ Touples # << >>
  /\ MaxDevices \in Nat /\ MaxSends \in Nat /\ MaxNet \in Nat
  /\ DataCap \in Nat /\ Slow \in BOOLEAN

VARIABLES up,                     \* the ports with an emulator (environment)
          inbox,                  \* the datagrams an emulator has not read
          refused,                \* a port unreachable the socket will report
          wire,                   \* the datagrams the socket has received
          hand,                   \* the datagram the goroutine is delivering
          ping, data,             \* the channels; ping is how many pongs it has
          port, closed, sends,    \* devices: their port, d.closed, messages asked for
          pc, op,                 \* threads: where, and "write" or "read"
          turn, found,            \* Enumerate: touple and port, infos so far
          listed                  \* the infos of the last Enumerate that succeeded

netVars == <<up, inbox, refused, wire>>
chanVars == <<hand, ping, data>>
devVars == <<port, closed, sends>>
threadVars == <<pc, op>>
enumVars == <<turn, found, listed>>
vars == <<netVars, chanVars, devVars, threadVars, enumVars>>

TypeOK ==
  /\ up \subseteq Ports
  /\ \A p \in Ports :
       /\ inbox[p] \in Seq({0} \cup Devices) /\ Len(inbox[p]) <= MaxNet
       /\ wire[p] \in Seq({0} \cup Devices) /\ Len(wire[p]) <= MaxNet
       /\ hand[p] \in Seq({0} \cup Devices) /\ Len(hand[p]) <= 1
       /\ refused[p] \in BOOLEAN /\ ping[p] \in 0 .. 1
       /\ data[p] \in Seq(Devices) /\ Len(data[p]) <= DataCap
  /\ port \in [Devices -> Ports \cup {0}]
  /\ closed \in [Devices -> BOOLEAN]
  /\ sends \in [Devices -> 0 .. MaxSends]
  /\ pc \in [Threads -> {"idle", "check", "wait", "use"}]
  /\ op \in [Threads -> {"write", "read"}]
  /\ turn \in (DOMAIN Touples) \X Ports
  /\ found \subseteq (DOMAIN Touples) \X BOOLEAN
  /\ listed \subseteq (DOMAIN Touples) \X BOOLEAN

Init ==
  /\ up = {}
  /\ inbox = [p \in Ports |-> << >>] /\ wire = inbox /\ hand = inbox /\ data = inbox
  /\ refused = [p \in Ports |-> FALSE]
  /\ ping = [p \in Ports |-> 0]
  /\ port = [d \in Devices |-> 0]
  /\ closed = [d \in Devices |-> FALSE]
  /\ sends = [d \in Devices |-> 0]
  /\ pc = [t \in Threads |-> "idle"]
  /\ op = [t \in Threads |-> "write"]
  /\ turn = <<1, Touples[1].normal>>
  /\ found = {} /\ listed = {}
-----------------------------------------------------------------------------
(* The emulators and the sockets.                                          *)

Start(p) ==
  /\ p \notin up
  /\ up' = up \cup {p}
  /\ UNCHANGED <<inbox, refused, wire, chanVars, devVars, threadVars, enumVars>>

Stop(p) ==
  /\ p \in up
  /\ up' = up \ {p}
  /\ inbox' = [inbox EXCEPT ![p] = << >>]
  /\ UNCHANGED <<refused, wire, chanVars, devVars, threadVars, enumVars>>

\* an emulator answers in order, a ping with a pong
Answer(p) ==
  /\ inbox[p] # << >>
  /\ inbox' = [inbox EXCEPT ![p] = Tail(@)]
  /\ wire' = [wire EXCEPT ![p] =
                IF Len(@) < MaxNet THEN Append(@, Head(inbox[p])) ELSE @]
  /\ UNCHANGED <<up, refused, chanVars, devVars, threadVars, enumVars>>

\* Write on the socket: to nobody it succeeds, and the error comes later
Send(p, x) ==
  /\ ~refused[p]
  /\ inbox' = [inbox EXCEPT ![p] =
                 IF p \in up /\ Len(@) < MaxNet THEN Append(@, x) ELSE @]
  /\ refused' = [refused EXCEPT ![p] = p \notin up]

SendFails(p) ==
  /\ refused[p]
  /\ refused' = [refused EXCEPT ![p] = FALSE]
  /\ UNCHANGED inbox
-----------------------------------------------------------------------------
(* listen: a goroutine for each port; it ignores errors, and a send on a   *)
(* full channel blocks it.                                                 *)

Receive(p) ==
  /\ hand[p] = << >>
  /\ \/ /\ refused[p]
        /\ refused' = [refused EXCEPT ![p] = FALSE]
        /\ UNCHANGED <<wire, hand>>
     \/ /\ wire[p] # << >>
        /\ hand' = [hand EXCEPT ![p] = <<Head(wire[p])>>]
        /\ wire' = [wire EXCEPT ![p] = Tail(@)]
        /\ UNCHANGED refused
  /\ UNCHANGED <<up, inbox, ping, data, devVars, threadVars, enumVars>>

Deliver(p) ==
  /\ hand[p] # << >>
  /\ IF Head(hand[p]) = 0
     THEN ping[p] < 1 /\ ping' = [ping EXCEPT ![p] = @ + 1] /\ UNCHANGED data
     ELSE /\ Len(data[p]) < DataCap
          /\ data' = [data EXCEPT ![p] = Append(@, Head(hand[p]))]
          /\ UNCHANGED ping
  /\ hand' = [hand EXCEPT ![p] = << >>]
  /\ UNCHANGED <<netVars, devVars, threadVars, enumVars>>
-----------------------------------------------------------------------------
(* checkPort, and the two loops that call it.                              *)

Port(t) == IF t = Enum THEN turn[2] ELSE port[t[2]]

\* what Enumerate does after the last port of a touple
NextTouple(infos) ==
  IF turn[1] = Len(Touples)
  THEN /\ listed' = infos
       /\ found' = {}
       /\ turn' = <<1, Touples[1].normal>>
       /\ pc' = [pc EXCEPT ![Enum] = "idle"]
  ELSE /\ turn' = <<turn[1] + 1, Touples[turn[1] + 1].normal>>
       /\ found' = infos
       /\ pc' = [pc EXCEPT ![Enum] = "check"]
       /\ UNCHANGED listed

\* the slip of keeping the entry of a touple that was listed before
EnumResultKeeping(present) ==
  LET touple == Touples[turn[1]]
      onNormal == turn[2] = touple.normal
  IN  IF onNormal /\ present /\ touple.debug # 0
      THEN /\ turn' = [turn EXCEPT ![2] = touple.debug]
           /\ pc' = [pc EXCEPT ![Enum] = "check"]
           /\ UNCHANGED <<found, listed>>
      ELSE NextTouple(
             IF onNormal /\ ~present
             THEN found \cup {e \in listed : e[1] = turn[1]}
             ELSE found \cup {<<turn[1], ~onNormal /\ present>>})

\* Enumerate: the debug port is checked only if the normal one is present,
\* and only tells the Debug flag
EnumResult(present) ==
  LET touple == Touples[turn[1]]
      onNormal == turn[2] = touple.normal
  IN  IF onNormal /\ present /\ touple.debug # 0
      THEN /\ turn' = [turn EXCEPT ![2] = touple.debug]
           /\ pc' = [pc EXCEPT ![Enum] = "check"]
           /\ UNCHANGED <<found, listed>>
      ELSE NextTouple(IF onNormal /\ ~present THEN found
                      ELSE found \cup {<<turn[1], ~onNormal /\ present>>})

CheckResult(t, present) ==
  IF t = Enum THEN EnumResult(present)
  ELSE /\ pc' = [pc EXCEPT ![t] = IF present THEN "use" ELSE "idle"]
       /\ UNCHANGED enumVars

\* an error ends the thread; Enumerate returns no infos and lastInfos stand
Fail(t) ==
  /\ pc' = [pc EXCEPT ![t] = "idle"]
  /\ IF t = Enum
     THEN turn' = <<1, Touples[1].normal>> /\ found' = {} /\ UNCHANGED listed
     ELSE UNCHANGED enumVars

\* readWrite tests d.closed at the head of its loop
Closed(t) == t # Enum /\ closed[t[2]]

Check(t) ==
  /\ pc[t] = "check"
  /\ \/ Closed(t) /\ Fail(t) /\ UNCHANGED <<inbox, refused>>
     \/ /\ ~Closed(t)
        /\ \/ /\ Send(Port(t), 0)
              /\ pc' = [pc EXCEPT ![t] = "wait"]
              /\ UNCHANGED enumVars
           \/ SendFails(Port(t)) /\ Fail(t)
  /\ UNCHANGED <<up, wire, chanVars, devVars, op>>

Pong(t) ==
  /\ pc[t] = "wait"
  /\ ping[Port(t)] > 0
  /\ ping' = [ping EXCEPT ![Port(t)] = @ - 1]
  /\ CheckResult(t, TRUE)
  /\ UNCHANGED <<netVars, hand, data, devVars, op>>

Blocked(p) == hand[p] # << >> /\ Head(hand[p]) # 0 /\ Len(data[p]) = DataCap

\* no pong can come any more, or none in time
NoPong(p) ==
  /\ ping[p] = 0
  /\ Slow \/ Blocked(p) \/ \A s \in {inbox[p], wire[p], hand[p]} : \A i \in DOMAIN s : s[i] # 0

Timeout(t) ==
  /\ pc[t] = "wait"
  /\ NoPong(Port(t))
  /\ CheckResult(t, FALSE)
  /\ UNCHANGED <<netVars, chanVars, devVars, op>>
-----------------------------------------------------------------------------
(* UDPDevice.  A call writes and then reads, a post only writes.           *)

Quiet == \A t \in Callers : pc[t] = "idle"

\* Core lists the buses only while no call is in progress
Enumerate ==
  /\ pc[Enum] = "idle" /\ Quiet
  /\ pc' = [pc EXCEPT ![Enum] = "check"]
  /\ UNCHANGED <<netVars, chanVars, devVars, op, enumVars>>

\* Connect: a port of a listed touple, the debug port also if nobody answered
\* there; and only once Core has released its session
Connect(d, p) ==
  /\ pc[Enum] = "idle"
  /\ port[d] = 0 /\ \A e \in 1 .. d - 1 : port[e] # 0
  /\ \A e \in Devices : port[e] = p => closed[e]
  /\ p # 0
  /\ \E e \in listed : p = Touples[e[1]].normal \/ p = Touples[e[1]].debug
  /\ port' = [port EXCEPT ![d] = p]
  /\ UNCHANGED <<netVars, chanVars, closed, sends, threadVars, enumVars>>

\* Close only sets the flag
Close(d) ==
  /\ port[d] # 0 /\ ~closed[d]
  /\ closed' = [closed EXCEPT ![d] = TRUE]
  /\ UNCHANGED <<netVars, chanVars, port, sends, threadVars, enumVars>>

Call(t, what) ==
  /\ pc[t] = "idle" /\ pc[Enum] = "idle"
  /\ port[t[2]] # 0 /\ ~closed[t[2]]
  /\ \/ what = "read" /\ t[1] = "call" /\ UNCHANGED sends
     \/ /\ what = "write"
        /\ sends[t[2]] < MaxSends
        /\ sends' = [sends EXCEPT ![t[2]] = @ + 1]
  /\ pc' = [pc EXCEPT ![t] = "check"]
  /\ op' = [op EXCEPT ![t] = what]
  /\ UNCHANGED <<netVars, chanVars, port, closed, enumVars>>

Write(t) ==
  /\ pc[t] = "use" /\ op[t] = "write"
  /\ \/ /\ Send(Port(t), t[2])
        /\ IF t[1] = "call"
           THEN pc' = [pc EXCEPT ![t] = "check"] /\ op' = [op EXCEPT ![t] = "read"]
           ELSE pc' = [pc EXCEPT ![t] = "idle"] /\ UNCHANGED op
     \/ SendFails(Port(t)) /\ pc' = [pc EXCEPT ![t] = "idle"] /\ UNCHANGED op
  /\ UNCHANGED <<up, wire, chanVars, devVars, enumVars>>

Read(t) ==
  /\ pc[t] = "use" /\ op[t] = "read"
  /\ data[Port(t)] # << >>
  /\ data' = [data EXCEPT ![Port(t)] = Tail(@)]
  /\ pc' = [pc EXCEPT ![t] = "idle"]
  /\ UNCHANGED <<netVars, hand, ping, devVars, op, enumVars>>

\* nothing within the timeout: the loop starts again
ReadAgain(t) ==
  /\ pc[t] = "use" /\ op[t] = "read"
  /\ data[Port(t)] = << >>
  /\ pc' = [pc EXCEPT ![t] = "check"]
  /\ UNCHANGED <<netVars, chanVars, devVars, op, enumVars>>
-----------------------------------------------------------------------------
Next ==
  \/ \E p \in Ports :
       Start(p) \/ Stop(p) \/ Answer(p) \/ Receive(p) \/ Deliver(p)
  \/ Enumerate
  \/ \E t \in Threads : Check(t) \/ Pong(t) \/ Timeout(t)
  \/ \E d \in Devices : Close(d) \/ \E p \in Ports : Connect(d, p)
  \/ \E t \in Callers :
       \/ \E what \in {"write", "read"} : Call(t, what)
       \/ Write(t) \/ Read(t) \/ ReadAgain(t)

Spec == Init /\ [][Next]_vars

-----------------------------------------------------------------------------
(***************************************************************************)
(* README, /enumerate: "Lists devices."  Once no call runs and emulators   *)
(* neither start nor stop, the listings become the emulators that are      *)
(* there, with their debug links; late pongs and the errors of ports       *)
(* nobody listens on delay that but never prevent it.                      *)
(***************************************************************************)
Entries(S) ==
  {<<i, Touples[i].debug \in S>> : i \in {j \in DOMAIN Touples : Touples[j].normal \in S}}

Up(S) == up = S /\ Quiet
Listed(S) == listed = Entries(S)

(***************************************************************************)
(* The same if pongs may come after the timeout of emulatorPingTimeout: a  *)
(* stopped emulator is presented a few times more at most.                 *)
(***************************************************************************)
Gone(i) == Touples[i].normal \notin up /\ Quiet
Unlisted(i) == \A e \in listed : e[1] # i

(***************************************************************************)
(* Close cancels nothing, it only sets a flag; no call of the device goes  *)
(* on for ever all the same: the timeout it waits for comes.               *)
(***************************************************************************)
Hanging(d) == closed[d] /\ \E t \in Callers : t[2] = d /\ pc[t] # "idle"

(***************************************************************************)
(* core.go: "Otherwise [...] the second caller would read the first        *)
(* response."  A read returns answers to messages of its own device.  Not  *)
(* what the code does: Close leaves the data channel as it is, and a       *)
(* reader of the closed device takes from it what a later one asked for.   *)
(***************************************************************************)
AnswerIsOwn ==
  [][\A t \in Callers : Read(t) => Head(data[Port(t)]) = t[2]]_vars
=============================================================================
