-------------------------------- MODULE Core --------------------------------
(***************************************************************************)
(* core/core.go: the sessions of the bridge under concurrent requests.     *)
(*                                                                         *)
(* A process is a request (the goroutine net/http runs a handler in), the  *)
(* background enumeration, or the watcher goroutine a call spawns to       *)
(* release its session when the client goes away.  A step is what a        *)
(* process does between two accesses to shared state; unlocking is part of *)
(* the step before it.                                                     *)
(***************************************************************************)
EXTENDS UsbPaths

\* CallMode: /read, /post and /call
Modes == {"read", "write", "readwrite"}

CONSTANTS Requests,               \* request slots: requests being served
          Background,             \* the goroutine of backgroundListen
          None,                   \* no holder of a mutex
          Interfaces,             \* the debug flags clients use
          CallModes,              \* the modes of the calls clients make
          Spellings,              \* the ways clients write a number
          AllowStealing,          \* Core.allowStealing
          Reset,                  \* Core.reset
          MaxTries,               \* tryConnect: failures that are retried
          MaxSessions,            \* bound: sessions ever created
          MaxPaths                \* bound: path numbers ever given

\* the watcher goroutine of the call in slot r
Watcher(r) == <<"watcher", r>>
Watchers == {Watcher(r) : r \in Requests}
Threads == Requests \cup {Background}
Procs == Threads \cup Watchers

ASSUME ProcsAssumption ==
  /\ Background \notin Requests
  /\ Watchers \cap Threads = {}
  /\ None \notin Procs
  /\ IsFiniteSet(Requests)

ASSUME ConfigAssumption ==
  /\ Interfaces \subseteq BOOLEAN
  /\ CallModes \subseteq Modes
  /\ "itoa" \in Spellings
  /\ AllowStealing \in BOOLEAN
  /\ Reset \in BOOLEAN
  /\ MaxTries \in Nat
  /\ MaxSessions \in Nat
  /\ MaxPaths \in Nat

(***************************************************************************)
(* The path of a session is the text its client sent.  A listing has the   *)
(* text strconv.Itoa makes of a number; strconv.Atoi reads others as the   *)
(* same number ("1", "01", "+1").  0, which is never given, stands for the *)
(* texts that name no number given, those Atoi refuses among them.         *)
(***************************************************************************)
TextsOf(numbers) == [number : numbers, spelling : Spellings]

Itoa(n) == [number |-> n, spelling |-> "itoa"]

Atoi(text) == text.number

VARIABLES attached,               \* the ports with a device (environment)
          libusbMutex,            \* holder of Core.libusbMutex
          callMutex,              \* holder of Core.callMutex
          lastInfosMutex,         \* writer of Core.lastInfosMutex
          callsInProgress,        \* Core.callsInProgress
          latestSessionID,        \* Core.latestSessionID
          sess,                   \* every session object made, by number
          table,                  \* normalSessions and debugSessions, by debug
          pc,                     \* where a process is
          arg,                    \* its parameters and locals
          ctx                     \* the context of the request of a call

sessVars == <<latestSessionID, sess, table>>
lockVars == <<libusbMutex, callMutex, lastInfosMutex>>
procVars == <<pc, arg, ctx>>
vars == <<pathVars, attached, lockVars, callsInProgress, sessVars, procVars>>

EnumPCs == {"enumLock", "enumCalls", "enumBus", "reap"}
AcqPCs == {"acqLock", "acqPrepare", "acqConnect"}
RelPCs == {"relLoad", "relDelete", "relClose", "relDrain"}
CallPCs == {"callLoad", "callCAS", "callWrite", "writing", "callRead",
            "reading", "callFinish", "callUnflag", "callEnd"}
PCs == {"idle", "watch", "callBegin"} \cup EnumPCs \cup AcqPCs \cup RelPCs \cup CallPCs

Ops == {"none", "enumerate", "acquire", "release", "call", "watch"}

\* ssid is the session a release works on: prev for an acquire that steals,
\* 0 standing for the empty string
Args == [op : Ops, debug : BOOLEAN, path : TextsOf(Nat), ssid : Nat,
         mode : Modes, reset : BOOLEAN, tries : 0 .. MaxTries]

NoArg == [op |-> "none", debug |-> FALSE, path |-> Itoa(0), ssid |-> 0,
          mode |-> "read", reset |-> FALSE, tries |-> 0]

\* writeMutex and readMutex hold the request inside, None if free; dev is
\* closed once Close has begun, and missed are the requests whose transfer
\* that Close did not cancel
Sessions == [path : TextsOf(Nat), debug : BOOLEAN, call : {0, 1},
             dev : {"open", "closed"}, missed : SUBSET Requests,
             writeMutex : Requests \cup {None}, readMutex : Requests \cup {None}]

NewSession(path, debug) ==
  [path |-> path, debug |-> debug, call |-> 0, dev |-> "open", missed |-> {},
   writeMutex |-> None, readMutex |-> None]

TypeOK ==
  /\ PathsTypeOK
  /\ attached \subseteq Ports
  /\ libusbMutex \in Procs \cup {None}
  /\ callMutex \in Procs \cup {None}
  /\ lastInfosMutex \in Procs \cup {None}
  /\ callsInProgress \in Nat
  /\ latestSessionID \in Nat
  /\ sess \in [1 .. latestSessionID -> Sessions]
  /\ table \in [BOOLEAN -> SUBSET (1 .. latestSessionID)]
  /\ pc \in [Procs -> PCs]
  /\ arg \in [Procs -> Args]
  /\ ctx \in [Requests -> {"none", "live", "closed", "returned"}]

Init ==
  /\ PathsInit
  /\ attached = {}
  /\ libusbMutex = None /\ callMutex = None /\ lastInfosMutex = None
  /\ callsInProgress = 0
  /\ latestSessionID = 0
  /\ sess = << >>
  /\ table = [debug \in BOOLEAN |-> {}]
  /\ pc = [p \in Procs |-> "idle"]
  /\ arg = [p \in Procs |-> NoArg]
  /\ ctx = [r \in Requests |-> "none"]
-----------------------------------------------------------------------------
Goto(p, from, to) ==
  /\ pc[p] = from
  /\ pc' = [pc EXCEPT ![p] = to]

\* the process is done and forgets its locals
Return(p) ==
  /\ pc' = [pc EXCEPT ![p] = "idle"]
  /\ arg' = [arg EXCEPT ![p] = NoArg]

\* the slip of looking a path up among the normal sessions only
SessionsOfNormal(path, debug) == {s \in table[FALSE] : sess[s].path = path}

\* sessions of an interface that have a text for their path: what
\* findPrevSession looks for, and findSession with the text of a listing
SessionsOf(path, debug) == {s \in table[debug] : sess[s].path = path}

Disconnected(debug) ==
  {s \in table[debug] : sess[s].path \notin {Itoa(n) : n \in lastInfos}}
-----------------------------------------------------------------------------
(* The environment: devices come and go, clients send requests and leave.  *)

Plug(port) ==
  /\ port \notin attached
  /\ attached' = attached \cup {port}
  /\ UNCHANGED <<pathVars, lockVars, callsInProgress, sessVars, procVars>>

Unplug(port) ==
  /\ port \in attached
  /\ attached' = attached \ {port}
  /\ UNCHANGED <<pathVars, lockVars, callsInProgress, sessVars, procVars>>

\* a request arrives: its slot is free once its watcher has ended too
Arrive(r, first, a) ==
  /\ pc[r] = "idle" /\ pc[Watcher(r)] = "idle"
  /\ pc' = [pc EXCEPT ![r] = first]
  /\ arg' = [arg EXCEPT ![r] = a]
  /\ UNCHANGED <<pathVars, attached, lockVars, callsInProgress, sessVars>>

StartEnumerate(r) ==
  /\ Arrive(r, "enumLock", [NoArg EXCEPT !.op = "enumerate"])
  /\ UNCHANGED ctx

Acquiring == {p \in Requests : arg[p].op = "acquire"}

\* the paths clients send: any text of a number given so far, or none of them
SentPaths == {Itoa(0)} \cup TextsOf(1 .. biggestID)

StartAcquire(r, path, prev, debug) ==
  /\ latestSessionID + Cardinality(Acquiring) < MaxSessions
  /\ Arrive(r, "acqLock",
       [NoArg EXCEPT !.op = "acquire", !.path = path, !.ssid = prev, !.debug = debug])
  /\ UNCHANGED ctx

StartRelease(r, ssid) ==
  /\ Arrive(r, "relLoad",
       [NoArg EXCEPT !.op = "release", !.ssid = ssid, !.debug = sess[ssid].debug])
  /\ UNCHANGED ctx

StartCall(r, ssid, mode) ==
  /\ Arrive(r, "callBegin",
       [NoArg EXCEPT !.op = "call", !.ssid = ssid, !.debug = sess[ssid].debug,
                     !.mode = mode])
  /\ ctx' = [ctx EXCEPT ![r] = "live"]

\* the client drops the connection: the context of its call is cancelled
ClientClose(r) ==
  /\ ctx[r] = "live"
  /\ ctx' = [ctx EXCEPT ![r] = "closed"]
  /\ UNCHANGED <<pathVars, attached, lockVars, callsInProgress, sessVars, pc,
                 arg>>
-----------------------------------------------------------------------------
(* Enumerate                                                               *)

\* the slip of the inverted test of len(lastInfos)
BackgroundTickInverted ==
  /\ lastInfosMutex = None
  /\ lastInfos = {}
  /\ Goto(Background, "idle", "enumLock")
  /\ arg' = [arg EXCEPT ![Background].op = "enumerate"]
  /\ UNCHANGED <<pathVars, attached, lockVars, callsInProgress, sessVars, ctx>>

\* backgroundListen wakes up; without listed devices it does nothing
BackgroundTick ==
  /\ Goto(Background, "idle", "enumLock")
  /\ lastInfosMutex = None
  /\ lastInfos # {}
  /\ arg' = [arg EXCEPT ![Background].op = "enumerate"]
  /\ UNCHANGED <<pathVars, attached, lockVars, callsInProgress, sessVars, ctx>>

\* the code before issue 221: Enumerate without libusbMutex
EnumLockNone(p) ==
  /\ Goto(p, "enumLock", "enumCalls")
  /\ UNCHANGED <<pathVars, attached, lockVars, callsInProgress, sessVars, arg,
                 ctx>>

EnumLock(p) ==
  /\ Goto(p, "enumLock", "enumCalls")
  /\ libusbMutex = None
  /\ libusbMutex' = p
  /\ UNCHANGED <<pathVars, attached, callMutex, lastInfosMutex,
                 callsInProgress, sessVars, arg, ctx>>

\* the slip of listing the buses whether or not a call is in progress
EnumCallsBlind(p) ==
  /\ Goto(p, "enumCalls", "enumBus")
  /\ callMutex = None /\ lastInfosMutex = None
  /\ callMutex' = p /\ lastInfosMutex' = p
  /\ UNCHANGED <<pathVars, attached, libusbMutex, callsInProgress, sessVars,
                 arg, ctx>>

\* the other two mutexes; with a call in progress the saved lastInfos stand
\* for a listing
EnumCalls(p) ==
  /\ Goto(p, "enumCalls", IF callsInProgress = 0 THEN "enumBus" ELSE "reap")
  /\ callMutex = None /\ lastInfosMutex = None
  /\ callMutex' = p /\ lastInfosMutex' = p
  /\ UNCHANGED <<pathVars, attached, libusbMutex, callsInProgress, sessVars,
                 arg, ctx>>

EnumUnlock ==
  /\ libusbMutex' = None /\ callMutex' = None /\ lastInfosMutex' = None

\* the slip of an error return that keeps the mutexes (no defer)
EnumBusErrorLocked(p) ==
  /\ pc[p] = "enumBus"
  /\ Return(p)
  /\ UNCHANGED <<pathVars, attached, lockVars, callsInProgress, sessVars, ctx>>

EnumBusError(p) ==
  /\ pc[p] = "enumBus"
  /\ EnumUnlock
  /\ Return(p)
  /\ UNCHANGED <<pathVars, attached, callsInProgress, sessVars, ctx>>

\* the buses list some of the attached devices (a device whose descriptor
\* cannot be read, or an emulator that does not answer, is left out)
EnumBusOK(p, devs) ==
  /\ Goto(p, "enumBus", "reap")
  /\ devs \subseteq attached
  /\ biggestID + Cardinality(Fresh(devs)) <= MaxPaths
  /\ SaveUsbPaths(devs)
  /\ UNCHANGED <<attached, lockVars, callsInProgress, sessVars, arg, ctx>>

\* releaseDisconnected, for the normal sessions and then for the debug ones:
\* one more disconnected session is released
Reap(p, s, debug) ==
  /\ Goto(p, "reap", "relLoad")
  /\ s \in Disconnected(debug)
  /\ debug => Disconnected(FALSE) = {}
  /\ arg' = [arg EXCEPT ![p].ssid = s, ![p].debug = debug]
  /\ UNCHANGED <<pathVars, attached, lockVars, callsInProgress, sessVars, ctx>>

\* the slip of calling releaseDisconnected for the normal sessions only
EnumReturnNormal(p) ==
  /\ pc[p] = "reap"
  /\ Disconnected(FALSE) = {}
  /\ EnumUnlock
  /\ Return(p)
  /\ UNCHANGED <<pathVars, attached, callsInProgress, sessVars, ctx>>

EnumReturn(p) ==
  /\ pc[p] = "reap"
  /\ \A debug \in BOOLEAN : Disconnected(debug) = {}
  /\ EnumUnlock
  /\ Return(p)
  /\ UNCHANGED <<pathVars, attached, callsInProgress, sessVars, ctx>>
-----------------------------------------------------------------------------
(* release, called by Release, Acquire, the watcher and releaseDisconnected *)

\* the context of a call is dropped with the last goroutine that holds it
DropCtx(p) ==
  ctx' = [r \in Requests |->
            IF p = Watcher(r) /\ pc[r] = "idle" THEN "none" ELSE ctx[r]]

\* back in the caller
RelReturn(p, ok) ==
  CASE arg[p].op = "enumerate" ->
         /\ pc' = [pc EXCEPT ![p] = "reap"]
         /\ arg' = [arg EXCEPT ![p].ssid = 0, ![p].debug = FALSE]
         /\ UNCHANGED <<libusbMutex, ctx>>
    [] arg[p].op = "acquire" /\ ok ->
         /\ pc' = [pc EXCEPT ![p] = "acqPrepare"]
         /\ UNCHANGED <<arg, libusbMutex, ctx>>
    [] arg[p].op = "acquire" /\ ~ok ->
         /\ libusbMutex' = None
         /\ Return(p)
         /\ UNCHANGED ctx
    [] OTHER ->
         /\ Return(p)
         /\ DropCtx(p)
         /\ UNCHANGED libusbMutex

RelLoad(p) ==
  /\ pc[p] = "relLoad"
  /\ IF arg[p].ssid \in table[arg[p].debug]
     THEN /\ pc' = [pc EXCEPT ![p] = "relDelete"]
          /\ UNCHANGED <<arg, libusbMutex, ctx>>
     ELSE RelReturn(p, FALSE)
  /\ UNCHANGED <<pathVars, attached, callMutex, lastInfosMutex,
                 callsInProgress, sessVars>>

\* the slip of deleting whatever sessions the path has, on both interfaces
RelDeleteByPath(p) ==
  /\ Goto(p, "relDelete", "relClose")
  /\ table' = [debug \in BOOLEAN |->
                 {s \in table[debug] : sess[s].path # sess[arg[p].ssid].path}]
  /\ UNCHANGED <<pathVars, attached, lockVars, callsInProgress,
                 latestSessionID, sess, arg, ctx>>

\* the slip of not closing the handle of a device that is gone
RelDeleteGone(p) ==
  /\ Goto(p, "relDelete", IF arg[p].op = "enumerate" THEN "reap" ELSE "relClose")
  /\ table' = [table EXCEPT ![arg[p].debug] = @ \ {arg[p].ssid}]
  /\ UNCHANGED <<pathVars, attached, lockVars, callsInProgress,
                 latestSessionID, sess, arg, ctx>>

RelDelete(p) ==
  /\ Goto(p, "relDelete", "relClose")
  /\ table' = [table EXCEPT ![arg[p].debug] = @ \ {arg[p].ssid}]
  /\ UNCHANGED <<pathVars, attached, lockVars, callsInProgress,
                 latestSessionID, sess, arg, ctx>>

\* requests with a transfer on the handle of a session
Transferring(s) ==
  {r \in Requests : pc[r] \in {"writing", "reading"} /\ arg[r].ssid = s}

(***************************************************************************)
(* dev.Close: the handle refuses new transfers, and the running ones are   *)
(* cancelled, but Close may miss any of them; a second Close may find one  *)
(* the first has missed.  Close then waits for a read it missed, when it   *)
(* drains the read queue: only if transfers are cancelled at all, and not  *)
(* for a device that is gone.  The handle is gone whether or not Close     *)
(* reports an error.                                                       *)
(***************************************************************************)
RelClose(p) ==
  /\ pc[p] = "relClose"
  /\ LET s == arg[p].ssid
         running == IF sess[s].dev = "open" THEN Transferring(s) ELSE sess[s].missed
     IN  \E missed \in SUBSET running :
           /\ sess' = [sess EXCEPT ![s].dev = "closed", ![s].missed = missed]
           /\ IF /\ sess[s].readMutex \in missed
                 /\ AllowStealing /\ arg[p].op # "enumerate"
              THEN /\ pc' = [pc EXCEPT ![p] = "relDrain"]
                   /\ UNCHANGED <<arg, libusbMutex, ctx>>
              ELSE \E ok \in BOOLEAN : RelReturn(p, ok)
  /\ UNCHANGED <<pathVars, attached, callMutex, lastInfosMutex,
                 callsInProgress, latestSessionID, table>>

\* the read that Close missed holds the mutex of the read queue
WaitsForRead(p) ==
  /\ pc[p] = "relDrain"
  /\ sess[arg[p].ssid].readMutex \in sess[arg[p].ssid].missed

\* finishReadQueue gets the mutex and drains the queue, and Close goes on
RelDrain(p) ==
  /\ pc[p] = "relDrain"
  /\ ~WaitsForRead(p)
  /\ RelReturn(p, TRUE)
  /\ UNCHANGED <<pathVars, attached, callMutex, lastInfosMutex,
                 callsInProgress, sessVars>>
-----------------------------------------------------------------------------
(* Acquire                                                                 *)

AcqFail(p) ==
  /\ libusbMutex' = None
  /\ Return(p)

\* the checks against the session whose client sent the same text
AcqCheck(p) ==
  /\ pc[p] = "acqLock"
  /\ libusbMutex = None
  /\ LET found == SessionsOf(arg[p].path, arg[p].debug)
         prev == arg[p].ssid
     IN  \E prevSession \in IF found = {} THEN {0} ELSE found :
           \/ /\ prevSession # prev \/ (~AllowStealing /\ prevSession # 0)
              /\ Return(p)
              /\ UNCHANGED libusbMutex
           \/ /\ prevSession = prev
              /\ AllowStealing \/ prevSession = 0
              /\ libusbMutex' = p
              /\ pc' = [pc EXCEPT ![p] = IF prev # 0 THEN "relLoad" ELSE "acqPrepare"]
              /\ UNCHANGED arg
  /\ UNCHANGED <<pathVars, attached, callMutex, lastInfosMutex,
                 callsInProgress, sessVars, ctx>>

\* whether to reset, by the text; and which USB path, by the number
AcqPrepare(p) ==
  /\ pc[p] = "acqPrepare"
  /\ IF Atoi(arg[p].path) \in DOMAIN usbPaths
     THEN /\ pc' = [pc EXCEPT ![p] = "acqConnect"]
          /\ arg' = [arg EXCEPT ![p].reset =
                       Reset /\ SessionsOf(arg[p].path, ~arg[p].debug) = {}]
          /\ UNCHANGED libusbMutex
     ELSE AcqFail(p)
  /\ UNCHANGED <<pathVars, attached, callMutex, lastInfosMutex,
                 callsInProgress, sessVars, ctx>>

\* tryConnect: an attempt fails, the last failure is final
AcqRetry(p) ==
  /\ pc[p] = "acqConnect"
  /\ IF arg[p].tries < MaxTries
     THEN /\ arg' = [arg EXCEPT ![p].tries = @ + 1]
          /\ UNCHANGED <<pc, libusbMutex>>
     ELSE AcqFail(p)
  /\ UNCHANGED <<pathVars, attached, callMutex, lastInfosMutex,
                 callsInProgress, sessVars, ctx>>

\* an attempt succeeds: the new session is stored
AcqConnect(p) ==
  /\ pc[p] = "acqConnect"
  /\ usbPaths[Atoi(arg[p].path)] \in attached
  /\ latestSessionID' = latestSessionID + 1
  /\ sess' = [s \in 1 .. latestSessionID' |->
                IF s = latestSessionID' THEN NewSession(arg[p].path, arg[p].debug)
                ELSE sess[s]]
  /\ table' = [table EXCEPT ![arg[p].debug] = @ \cup {latestSessionID'}]
  /\ libusbMutex' = None
  /\ Return(p)
  /\ UNCHANGED <<pathVars, attached, callMutex, lastInfosMutex,
                 callsInProgress, ctx>>
-----------------------------------------------------------------------------
(* Call                                                                    *)

\* the session object the call of r loaded
Acquired(r) == arg[r].ssid

\* the slip of a call that is not counted when it begins
CallBeginUncounted(r) ==
  /\ Goto(r, "callBegin", "callLoad")
  /\ UNCHANGED <<pathVars, attached, lockVars, callsInProgress, sessVars, arg,
                 ctx>>

CallBegin(r) ==
  /\ Goto(r, "callBegin", "callLoad")
  /\ callMutex = None
  /\ callsInProgress' = callsInProgress + 1
  /\ UNCHANGED <<pathVars, attached, lockVars, sessVars, arg, ctx>>

\* the logic of the call starts and the watcher is spawned beside it
Spawn(r) ==
  /\ pc' = [pc EXCEPT ![r] = IF arg[r].mode = "read" THEN "callRead" ELSE "callWrite",
                      ![Watcher(r)] = "watch"]
  /\ arg' = [arg EXCEPT ![Watcher(r)] = [NoArg EXCEPT !.op = "watch",
                                           !.ssid = arg[r].ssid, !.debug = arg[r].debug]]

CallLoad(r) ==
  /\ pc[r] = "callLoad"
  /\ \/ /\ arg[r].ssid \notin table[arg[r].debug]
        /\ pc' = [pc EXCEPT ![r] = "callEnd"]
        /\ UNCHANGED arg
     \/ /\ arg[r].ssid \in table[arg[r].debug]
        /\ arg[r].mode # "write"
        /\ pc' = [pc EXCEPT ![r] = "callCAS"]
        /\ UNCHANGED arg
     \/ /\ arg[r].ssid \in table[arg[r].debug]
        /\ arg[r].mode = "write"
        /\ Spawn(r)
  /\ UNCHANGED <<pathVars, attached, lockVars, callsInProgress, sessVars, ctx>>

\* the slip of a store in place of the compare-and-swap
CallCASStore(r) ==
  /\ pc[r] = "callCAS"
  /\ sess' = [sess EXCEPT ![Acquired(r)].call = 1]
  /\ Spawn(r)
  /\ UNCHANGED <<pathVars, attached, lockVars, callsInProgress,
                 latestSessionID, table, ctx>>

\* CompareAndSwap(call, 0, 1), or ErrOtherCall
CallCAS(r) ==
  /\ pc[r] = "callCAS"
  /\ \/ /\ sess[Acquired(r)].call = 1
        /\ pc' = [pc EXCEPT ![r] = "callEnd"]
        /\ UNCHANGED <<sess, arg>>
     \/ /\ sess[Acquired(r)].call = 0
        /\ sess' = [sess EXCEPT ![Acquired(r)].call = 1]
        /\ Spawn(r)
  /\ UNCHANGED <<pathVars, attached, lockVars, callsInProgress,
                 latestSessionID, table, ctx>>

WriteLock(r) ==
  /\ Goto(r, "callWrite", "writing")
  /\ sess[Acquired(r)].writeMutex = None
  /\ sess' = [sess EXCEPT ![Acquired(r)].writeMutex = r]
  /\ UNCHANGED <<pathVars, attached, lockVars, callsInProgress,
                 latestSessionID, table, arg, ctx>>

\* writeDev ends: a write or an error ends the logic, a call goes on to read
WriteDone(r) ==
  /\ \/ arg[r].mode = "readwrite" /\ Goto(r, "writing", "callRead")
     \/ Goto(r, "writing", "callFinish")
  /\ sess' = [sess EXCEPT ![Acquired(r)].writeMutex = None, ![Acquired(r)].missed = @ \ {r}]
  /\ UNCHANGED <<pathVars, attached, lockVars, callsInProgress,
                 latestSessionID, table, arg, ctx>>

\* a /read with a body is refused before any lock
ReadRefused(r) ==
  /\ Goto(r, "callRead", "callFinish")
  /\ arg[r].mode = "read"
  /\ UNCHANGED <<pathVars, attached, lockVars, callsInProgress, sessVars, arg,
                 ctx>>

ReadLock(r) ==
  /\ Goto(r, "callRead", "reading")
  /\ sess[Acquired(r)].readMutex = None
  /\ sess' = [sess EXCEPT ![Acquired(r)].readMutex = r]
  /\ UNCHANGED <<pathVars, attached, lockVars, callsInProgress,
                 latestSessionID, table, arg, ctx>>

ReadDone(r) ==
  /\ Goto(r, "reading", "callFinish")
  /\ sess' = [sess EXCEPT ![Acquired(r)].readMutex = None, ![Acquired(r)].missed = @ \ {r}]
  /\ UNCHANGED <<pathVars, attached, lockVars, callsInProgress,
                 latestSessionID, table, arg, ctx>>

\* the deferred functions, last one first: finished <- true ...
CallFinish(r) ==
  /\ Goto(r, "callFinish", IF arg[r].mode = "write" THEN "callEnd" ELSE "callUnflag")
  /\ UNCHANGED <<pathVars, attached, lockVars, callsInProgress, sessVars, arg,
                 ctx>>

\* ... call = 0 ...
CallUnflag(r) ==
  /\ Goto(r, "callUnflag", "callEnd")
  /\ sess' = [sess EXCEPT ![Acquired(r)].call = 0]
  /\ UNCHANGED <<pathVars, attached, lockVars, callsInProgress,
                 latestSessionID, table, arg, ctx>>

\* ... callsInProgress--; then the handler returns, and net/http cancels the
\* context of a request whose handler has returned
CallEnd(r) ==
  /\ pc[r] = "callEnd"
  /\ callMutex = None
  /\ callsInProgress' = callsInProgress - 1
  /\ Return(r)
  /\ ctx' = [ctx EXCEPT ![r] = IF pc[Watcher(r)] = "idle" THEN "none"
                               ELSE IF @ = "live" THEN "returned" ELSE @]
  /\ UNCHANGED <<pathVars, attached, lockVars, sessVars>>

\* the deferred send on the channel finished has happened
Finished(r) == pc[r] \in {"callUnflag", "callEnd", "idle"}

\* the select of the watcher; with both channels ready Go picks either
WatchFinished(r) ==
  /\ pc[Watcher(r)] = "watch"
  /\ Finished(r)
  /\ Return(Watcher(r))
  /\ DropCtx(Watcher(r))
  /\ UNCHANGED <<pathVars, attached, lockVars, callsInProgress, sessVars>>

\* the slip of a watcher that only logs the closed request
WatchClosedLogging(r) ==
  /\ pc[Watcher(r)] = "watch"
  /\ ctx[r] \in {"closed", "returned"}
  /\ Return(Watcher(r))
  /\ DropCtx(Watcher(r))
  /\ UNCHANGED <<pathVars, attached, lockVars, callsInProgress, sessVars>>

WatchClosed(r) ==
  /\ Goto(Watcher(r), "watch", "relLoad")
  /\ ctx[r] \in {"closed", "returned"}
  /\ UNCHANGED <<pathVars, attached, lockVars, callsInProgress, sessVars, arg,
                 ctx>>
-----------------------------------------------------------------------------
Environment ==
  \/ \E port \in Ports : Plug(port) \/ Unplug(port)
  \/ \E r \in Requests :
       \/ StartEnumerate(r)
       \/ \E path \in SentPaths, prev \in 0 .. latestSessionID, debug \in Interfaces :
            StartAcquire(r, path, prev, debug)
       \/ \E ssid \in 1 .. latestSessionID :
            \/ StartRelease(r, ssid)
            \/ \E mode \in CallModes : StartCall(r, ssid, mode)
       \/ ClientClose(r)

Enumerating(p) ==
  \/ EnumLock(p) \/ EnumCalls(p)
  \/ EnumBusError(p)
  \/ \E devs \in SUBSET Ports : EnumBusOK(p, devs)
  \/ \E s \in 1 .. latestSessionID, debug \in BOOLEAN : Reap(p, s, debug)
  \/ EnumReturn(p)

Releasing(p) == RelLoad(p) \/ RelDelete(p) \/ RelClose(p) \/ RelDrain(p)

AcquireStep(p) == AcqCheck(p) \/ AcqPrepare(p) \/ AcqRetry(p) \/ AcqConnect(p)

CallStep(r) ==
  \/ CallBegin(r) \/ CallLoad(r) \/ CallCAS(r)
  \/ WriteLock(r) \/ WriteDone(r)
  \/ ReadRefused(r) \/ ReadLock(r) \/ ReadDone(r)
  \/ CallFinish(r) \/ CallUnflag(r) \/ CallEnd(r)

Watching(r) == WatchFinished(r) \/ WatchClosed(r)

Next ==
  \/ Environment
  \/ BackgroundTick
  \/ \E p \in Threads : Enumerating(p)
  \/ \E p \in Procs : Releasing(p)
  \/ \E r \in Requests : AcquireStep(r) \/ CallStep(r) \/ Watching(r)

Spec == Init /\ [][Next]_vars

(***************************************************************************)
(* Scheduling.  A goroutine that can run runs (weak fairness).  A          *)
(* goroutine that keeps finding a mutex taken still gets it in the end: a  *)
(* Go mutex hands itself to a waiter of more than one millisecond (strong  *)
(* fairness).  A transfer may last for ever while its handle is open (the  *)
(* device waits for its user) and if Close missed it; it ends once Close   *)
(* has cancelled it.  A device that is being drained falls silent, so the  *)
(* drain itself ends.                                                      *)
(***************************************************************************)
Running(p) ==
  \/ EnumBusError(p) \/ \E devs \in SUBSET Ports : EnumBusOK(p, devs)
  \/ \E s \in 1 .. latestSessionID, debug \in BOOLEAN : Reap(p, s, debug)
  \/ EnumReturn(p)
  \/ Releasing(p)
  \/ AcqPrepare(p) \/ AcqRetry(p) \/ AcqConnect(p)
  \/ CallLoad(p) \/ CallCAS(p) \/ CallFinish(p) \/ CallUnflag(p)
  \/ /\ pc[p] \in {"writing", "reading"}
     /\ sess[Acquired(p)].dev = "closed"
     /\ p \notin sess[Acquired(p)].missed
     /\ WriteDone(p) \/ ReadDone(p)

Locking(p) ==
  \/ EnumLock(p) \/ EnumCalls(p) \/ AcqCheck(p)
  \/ CallBegin(p) \/ CallEnd(p) \/ WriteLock(p) \/ ReadLock(p)

Fairness ==
  /\ SF_vars(BackgroundTick)
  /\ \A p \in Threads : WF_vars(Running(p)) /\ SF_vars(Locking(p))
  /\ \A r \in Requests : WF_vars(Watching(r) \/ Releasing(Watcher(r)))

(***************************************************************************)
(* The buses answer: an enumeration that goes on trying succeeds.          *)
(***************************************************************************)
BusAnswers ==
  SF_vars(\E devs \in SUBSET Ports : EnumBusOK(Background, devs))

FairSpec == Spec /\ Fairness /\ BusAnswers
-----------------------------------------------------------------------------
(***************************************************************************)
(* README, /acquire: "only one of them succeed".  No two sessions of an    *)
(* interface have the same path, however acquires, steals, releases and    *)
(* reaps interleave; clients that send the paths they were listed get no   *)
(* second session of an interface of a device.                             *)
(***************************************************************************)
OneSessionPerPath ==
  \A debug \in BOOLEAN : \A s, t \in table[debug] :
    sess[s].path = sess[t].path => s = t

(***************************************************************************)
(* Between enumerations every session is for a listed device, whatever the *)
(* text of its path: the one enumeration that drops a number also ends the *)
(* sessions of its texts, and no acquire adds one in the meantime.         *)
(***************************************************************************)
SessionsListed ==
  lastInfosMutex = None =>
    \A debug \in BOOLEAN : \A s \in table[debug] : Atoi(sess[s].path) \in lastInfos

(***************************************************************************)
(* core.go: "We cannot make calls and enumeration at the same time".  The  *)
(* buses are not listed while a call is between the lookup of its session  *)
(* and its last transfer.                                                  *)
(***************************************************************************)
NoEnumerationDuringCall ==
  \A p \in Threads, r \in Requests :
    pc[p] = "enumBus" =>
      pc[r] \notin {"callCAS", "callWrite", "writing", "callRead", "reading"}

(***************************************************************************)
(* core.go: "Two /calls should not run concurrently.  Otherwise [...] the  *)
(* second caller would read the first response."                           *)
(***************************************************************************)
InCall(r) ==
  /\ arg[r].mode # "write"
  /\ pc[r] \in {"callWrite", "writing", "callRead", "reading", "callFinish", "callUnflag"}

OneCallPerSession ==
  \A q, r \in Requests :
    (InCall(q) /\ InCall(r) /\ Acquired(q) = Acquired(r)) => q = r

(***************************************************************************)
(* No handle is lost: a handle nobody began to close belongs to a session  *)
(* of the table or to a release that is about to close it.                 *)
(***************************************************************************)
NoLostHandle ==
  \A s \in 1 .. latestSessionID :
    sess[s].dev = "open" =>
      \/ s \in table[sess[s].debug]
      \/ \E p \in Procs : pc[p] = "relClose" /\ arg[p].ssid = s

(***************************************************************************)
(* What an acquire decided is still so in every attempt to connect, 300 ms *)
(* later at worst: its number is listed, no session has its path on its    *)
(* interface, and it resets the device only while none has its path on the *)
(* other interface.                                                        *)
(***************************************************************************)
AcquireStillRight ==
  \A r \in Requests :
    pc[r] = "acqConnect" =>
      /\ Atoi(arg[r].path) \in lastInfos
      /\ SessionsOf(arg[r].path, arg[r].debug) = {}
      /\ arg[r].reset => SessionsOf(arg[r].path, ~arg[r].debug) = {}

(***************************************************************************)
(* The sessions implement the ownership the README promises, for each text *)
(* a client may send as a path.                                            *)
(***************************************************************************)
Owners ==
  UNION {{[debug |-> debug, path |-> sess[s].path, session |-> s] :
            s \in table[debug]} : debug \in BOOLEAN}

Ownership ==
  INSTANCE SessionOwner WITH
    Paths <- TextsOf(1 .. MaxPaths), owners <- Owners, issued <- latestSessionID

OwnershipSpec == Ownership!Spec
-----------------------------------------------------------------------------
(***************************************************************************)
(* Enumerations, acquires and releases end as long as every read a Close   *)
(* missed and waits for ends: no handler waits for ever on libusbMutex or  *)
(* callMutex, although Enumerate keeps both while it closes handles, and   *)
(* whatever calls the device leaves without an answer beside them.         *)
(***************************************************************************)
RequestsEnd ==
  (\A p \in Procs : []<>~WaitsForRead(p)) =>
    \A p \in Threads :
      arg[p].op \in {"enumerate", "acquire", "release"} ~> pc[p] = "idle"

(***************************************************************************)
(* A client that drops its connection frees the device: its call ends, the *)
(* mutexes of its session with it, unless a Close misses a transfer that   *)
(* the device leaves without an answer for ever.                           *)
(***************************************************************************)
ClosedCallsEnd ==
  (\A r \in Requests : []<>(\A s \in 1 .. latestSessionID : r \notin sess[s].missed)) =>
    \A r \in Requests : ctx[r] = "closed" ~> pc[r] = "idle"

(***************************************************************************)
(* backgroundListen: once every device is gone and no call runs, no        *)
(* session survives, even if no client ever enumerates again.              *)
(***************************************************************************)
GoneSessionsEnd ==
  <>[](attached = {} /\ callsInProgress = 0) =>
    <>[](\A debug \in BOOLEAN : table[debug] = {})
-----------------------------------------------------------------------------
(***************************************************************************)
(* core.go, watcher: "detected request close %s, auto-release".  A watcher *)
(* releases its session only when the client closed the request.  Not what *)
(* the code does: when the call has ended, finished and ctx.Done are both  *)
(* ready and the select may take ctx.Done.                                 *)
(***************************************************************************)
AutoReleaseOnlyOnClose ==
  \A r \in Requests : pc[Watcher(r)] = "relDelete" => ctx[r] = "closed"

(***************************************************************************)
(* CHANGELOG 2.0.30: "Lock mutex when deleting session to avoid concurrent *)
(* read and write".  Looking a session up and deleting it is one step for  *)
(* everybody else, so nobody closes a handle that is already closed.  Not  *)
(* what the code does: Load and Delete are two calls under no mutex.       *)
(***************************************************************************)
CloseOnce ==
  \A p \in Procs : pc[p] = "relClose" => sess[arg[p].ssid].dev = "open"

(***************************************************************************)
(* README, /acquire: "only one of them succeed", said of the device.  Not  *)
(* what the code does: findPrevSession compares texts and the lookup       *)
(* converts them, so the second of two spellings of a number finds nobody, *)
(* is refused nothing, and opens the same interface (and has the device    *)
(* reset, without a look at the sessions under the first spelling).        *)
(***************************************************************************)
OneSessionPerDevice ==
  \A debug \in BOOLEAN : \A s, t \in table[debug] :
    Atoi(sess[s].path) = Atoi(sess[t].path) => s = t

(***************************************************************************)
(* core.go, Acquire: "reset device ONLY if no call on the other port".  No *)
(* session of the device meets a reset.  Not what the code does, for the   *)
(* same reason.                                                            *)
(***************************************************************************)
NoResetBesideSession ==
  \A r \in Requests : pc[r] = "acqConnect" /\ arg[r].reset =>
    \A debug \in BOOLEAN : \A s \in table[debug] :
      Atoi(sess[s].path) # Atoi(arg[r].path)
=============================================================================
