-------------------------------- MODULE Wire --------------------------------
(***************************************************************************)
(* wire/v1.go: messages cut into packets (WriteTo) and put together again  *)
(* (ReadFrom).  A packet starts with the marker; the first one of a        *)
(* message has two magic bytes, the kind and the size after it.  A device  *)
(* writes as WriteTo does; the host may give up reading at any packet (a   *)
(* cancelled call) and reads on with the next packet another time.  Every  *)
(* packet here has the marker, so the error return for one that lacks it   *)
(* (v1.go:111, ErrMalformedMessage) is never taken.                        *)
(*                                                                         *)
(* The byte j of message m is <<m, j>>, padding is <<m, 0>>.               *)
(***************************************************************************)
EXTENDS Naturals, Sequences, FiniteSets, FiniteSetsExt

CONSTANTS PacketLen,              \* packetLen: 64
          Sizes,                  \* the sizes of messages
          MaxMessages,            \* bound: messages written
          Lookalikes              \* whether data after a marker may be "##"

HeaderEnd == 9                    \* marker, magic, kind, size

WireAssumption ==
  /\ PacketLen \in Nat /\ PacketLen > HeaderEnd
  /\ Sizes \subseteq Nat
  /\ MaxMessages \in Nat /\ Lookalikes \in BOOLEAN

VARIABLES sizes,                  \* the size of each message written so far
          written, offset,        \* WriteTo: locals; offset 0 when it is done
          bus,                    \* the packets on their way
          reading,                \* ReadFrom: "no", "first" or "rest"
          size, data,             \* ReadFrom: locals
          got,                    \* what the reads returned, with the message they began in
          cut                     \* the messages a read was given up in

writeVars == <<sizes, written, offset>>
readVars == <<reading, size, data, got, cut>>
vars == <<writeVars, bus, readVars>>

Message == Len(sizes)
Bytes == (1 .. MaxMessages) \X Nat

Packets == [magic : BOOLEAN, size : Sizes, rep : [1 .. PacketLen - 1 -> Bytes]]

TypeOK ==
  /\ sizes \in Seq(Sizes) /\ Message <= MaxMessages
  /\ written \in Nat
  /\ offset \in {0, 1, HeaderEnd}
  /\ bus \in Seq(Packets)
  /\ reading \in {"no", "first", "rest"}
  /\ size \in Sizes \cup {0}
  /\ data \in Seq(Bytes)
  /\ reading # "rest" => data = << >>
  /\ got \in Seq((1 .. MaxMessages) \X Seq(Bytes))
  /\ cut \subseteq 1 .. MaxMessages

Init ==
  /\ sizes = << >> /\ written = 0 /\ offset = 0
  /\ bus = << >>
  /\ reading = "no" /\ size = 0 /\ data = << >> /\ got = << >>
  /\ cut = {}
-----------------------------------------------------------------------------
(* WriteTo                                                                 *)

Begin(n) ==
  /\ offset = 0 /\ Message < MaxMessages
  /\ sizes' = Append(sizes, n)
  /\ written' = 0
  /\ offset' = HeaderEnd
  /\ UNCHANGED <<bus, readVars>>

\* rep after its first byte: n bytes of the message at offset, then zeros
Rep(n) ==
  [i \in 1 .. PacketLen - 1 |->
     <<Message, IF i \in offset .. offset + n - 1 THEN written + i - offset + 1 ELSE 0>>]

\* bytes are left, or the last packet is not full and has to be padded
MorePackets == written < sizes[Message] \/ offset # 1

Write ==
  /\ offset # 0
  /\ MorePackets
  /\ LET n == Min({PacketLen - offset, sizes[Message] - written})
         first == offset = HeaderEnd
     IN  /\ \E magic \in IF first THEN {TRUE} ELSE {FALSE, Lookalikes},
               claimed \in IF first THEN {sizes[Message]} ELSE Sizes :
              bus' = Append(bus, [magic |-> magic, size |-> claimed, rep |-> Rep(n)])
         /\ written' = written + n
         /\ offset' = IF offset + n = PacketLen THEN 1 ELSE 0
  /\ UNCHANGED <<sizes, readVars>>

WriteDone ==
  /\ offset # 0
  /\ ~MorePackets
  /\ offset' = 0
  /\ UNCHANGED <<sizes, written, bus, readVars>>
-----------------------------------------------------------------------------
(* ReadFrom                                                                *)

Start ==
  /\ reading = "no"
  /\ reading' = "first"
  /\ UNCHANGED <<writeVars, bus, size, data, got, cut>>

\* packets of previous messages
Skip ==
  /\ reading = "first"
  /\ bus # << >> /\ ~Head(bus).magic
  /\ bus' = Tail(bus)
  /\ UNCHANGED <<writeVars, readVars>>

\* the slip of returning the padding too
CollectPadded(n, all) ==
  /\ bus' = Tail(bus)
  /\ size' = n
  /\ IF Len(all) < n
     THEN reading' = "rest" /\ data' = all /\ UNCHANGED got
     ELSE reading' = "no" /\ data' = << >> /\ got' = Append(got, <<all[1][1], all>>)

\* data holds `all` now: go on, or cut it to the size and return it
Collect(n, all) ==
  /\ bus' = Tail(bus)
  /\ size' = n
  /\ IF Len(all) < n
     THEN reading' = "rest" /\ data' = all /\ UNCHANGED got
     ELSE reading' = "no" /\ data' = << >> /\ got' = Append(got, <<all[1][1], SubSeq(all, 1, n)>>)

Header ==
  /\ reading = "first"
  /\ bus # << >> /\ Head(bus).magic
  /\ Collect(Head(bus).size, SubSeq(Head(bus).rep, HeaderEnd, PacketLen - 1))
  /\ UNCHANGED <<writeVars, cut>>

Rest ==
  /\ reading = "rest"
  /\ bus # << >>
  /\ Collect(size, data \o SubSeq(Head(bus).rep, 1, PacketLen - 1))
  /\ UNCHANGED <<writeVars, cut>>

\* Read returns an error: the transfer was cancelled
GiveUp ==
  /\ reading # "no"
  /\ cut' = cut \cup {data[i][1] : i \in DOMAIN data}
  /\ reading' = "no" /\ data' = << >>
  /\ UNCHANGED <<writeVars, bus, size, got>>
-----------------------------------------------------------------------------
Next ==
  \/ \E n \in Sizes : Begin(n)
  \/ Write \/ WriteDone
  \/ Start \/ Skip \/ Header \/ Rest \/ GiveUp

Spec == Init /\ [][Next]_vars
-----------------------------------------------------------------------------
(***************************************************************************)
(* A read returns a message as it was written, from its first byte to its  *)
(* last, whatever its size and wherever an earlier read was given up.      *)
(***************************************************************************)
Whole(m) == [j \in 1 .. sizes[m] |-> <<m, j>>]

WholeMessages == \A i \in DOMAIN got : got[i][2] = Whole(got[i][1])

(***************************************************************************)
(* Reader and writer agree on the number of packets of every message, also *)
(* where the data ends with a packet: what ReadFrom skips is left over     *)
(* from a message whose read was given up, never from one that was read.   *)
(***************************************************************************)
SkipsOnlyCut ==
  Skip => Head(bus).rep[1][1] \in cut

(***************************************************************************)
(* A message nobody gave up is returned: the messages without a cut are    *)
(* returned once each.                                                     *)
(***************************************************************************)
Done(m) == m < Message \/ (m = Message /\ offset = 0)

NoneLost ==
  bus = << >> /\ reading = "no" =>
    \A m \in 1 .. Message : Done(m) =>
      \/ m \in cut
      \/ Cardinality({i \in DOMAIN got : got[i][1] = m}) = 1
=============================================================================
