---------------------------- MODULE LibUSBBusProof ----------------------------
(***************************************************************************)
(* Proofs about LibUSBBus, for every list of devices, whichever of them    *)
(* have the same port numbers, and for every set of interfaces.            *)
(***************************************************************************)
EXTENDS LibUSBBus, FiniteSetTheorems, SequenceTheorems, WellFoundedInduction, TLAPS

\* what the acquire in progress relies on: nobody else makes sessions meanwhile
Acquiring ==
  /\ acq.pc # "idle" => table[acq.path][acq.iface] = 0
  /\ acq.pc \in {"list", "open", "reset", "detach", "claim"} /\ acq.reset =>
       table[acq.path][1 - acq.iface] = 0
  /\ \A n \in acq.left : PortsOf(Devices[n]) = acq.path

\* the handle that is being connected
NewHandle ==
  acq.pc \in {"reset", "detach", "claim"} =>
    /\ New # 0
    /\ handle[New].state = "opening" /\ handle[New].iface = acq.iface
    /\ PortsOf(NewDev) = acq.path
    /\ acq.pc # "claim" => ~handle[New].attach

\* the handle of a session is the one that was opened for it
OwnHandle ==
  \A p \in Paths, i \in {0, 1} : table[p][i] # 0 =>
    /\ handle[table[p][i]].state = "open" /\ handle[table[p][i]].iface = i
    /\ PortsOf(handle[table[p][i]].dev) = p

IInv ==
  /\ TypeOK
  /\ Acquiring /\ NewHandle /\ OwnHandle
  /\ SessionHoldsClaim /\ NoHandleLeft

\* a device that was away has no handle that still reaches it
AwayIsGone ==
  \A h \in DOMAIN handle : handle[h].dev \notin attached => handle[h].gone

\* a claim is that of another program, or of a handle that is used or was until now
ClaimsOwned ==
  \A d \in ToSet(Devices), i \in {0, 1} : claim[d][i] \notin {0, OtherProgram} =>
    /\ claim[d][i] \in DOMAIN handle
    /\ handle[claim[d][i]].dev = d /\ handle[claim[d][i]].iface = i
    /\ ~handle[claim[d][i]].gone
    /\ handle[claim[d][i]].state \in {"open", "release"}

ClaimsHeld ==
  ClaimsOwned /\ \A d \in ToSet(Devices), i \in {0, 1} : claim[d][i] # OtherProgram

\* of the handles that still reach their device only the stolen one is being closed
StolenCloses ==
  /\ acq.pc = "steal" =>
       /\ acq.prev \in DOMAIN handle
       /\ handle[acq.prev].iface = acq.iface /\ PortsOf(handle[acq.prev].dev) = acq.path
  /\ \A h \in DOMAIN handle :
       ~handle[h].gone /\ handle[h].state \in {"release", "attach", "close"} =>
         acq.pc = "steal" /\ h = acq.prev

\* a driver that is not bound is one that a handle will attach
DriversKnown ==
  /\ \A d \in attached, i \in {0, 1} :
       i \in driver[d] <=> i \in HasDriver /\ \A h \in DOMAIN handle : ~WillAttach(h, d, i)
  /\ acq.pc = "claim" /\ ~handle[New].gone => acq.iface \notin driver[NewDev]

\* only a driver that was bound is attached again
AttachIsDriver == \A h \in DOMAIN handle : handle[h].attach => handle[h].iface \in HasDriver

DInv == AwayIsGone /\ ClaimsHeld /\ StolenCloses /\ DriversKnown /\ AttachIsDriver

\* what the listing showed, when no two devices have the same port numbers
ShownIsPath ==
  /\ acq.pc # "idle" => acq.path \in DOMAIN shown
  /\ \A p \in DOMAIN shown : shown[p] \in ToSet(Devices) /\ PortsOf(shown[p]) = p
-----------------------------------------------------------------------------
(* The handles: a sequence, and what the steps make of it.                 *)

HandleRec == [dev : ToSet(Devices), iface : {0, 1}, state : States,
              attach : BOOLEAN, gone : BOOLEAN]

LEMMA SeqOfFunction ==
  ASSUME NEW S, NEW n \in Nat, NEW f \in [1 .. n -> S]
  PROVE  /\ f \in Seq(S)
         /\ Len(f) = n
<1>1. DOMAIN f = 1 .. n
  OBVIOUS
<1>2. f \in Seq(S)
  OBVIOUS
<1> QED
  BY <1>1, <1>2, LenProperties

LEMMA HandleFacts ==
  ASSUME TypeOK
  PROVE  /\ Len(handle) \in Nat /\ DOMAIN handle = 1 .. Len(handle)
         /\ handle \in [1 .. Len(handle) -> HandleRec]
         /\ \A h \in DOMAIN handle : handle[h] \in HandleRec
<1>1. handle \in Seq(HandleRec)
  BY DEF TypeOK, HandleRec
<1> QED
  BY <1>1, LenProperties, ElementOfSeq

LEMMA TableFacts ==
  ASSUME TypeOK, BusAssumption
  PROVE  /\ \A p \in Paths, i \in {0, 1} : table[p][i] \in 0 .. Len(handle)
         /\ \A p \in Paths, i \in {0, 1} :
              table[p][i] # 0 => table[p][i] \in DOMAIN handle
         /\ acq.path \in Paths /\ acq.iface \in {0, 1} /\ 1 - acq.iface \in {0, 1}
         /\ acq.left \subseteq DOMAIN Devices
         /\ OtherProgram \notin DOMAIN handle /\ 0 \notin DOMAIN handle
<1>1. \A p \in Paths, i \in {0, 1} : table[p][i] \in 0 .. Len(handle)
  BY DEF TypeOK
<1>2. Len(handle) \in Nat /\ DOMAIN handle = 1 .. Len(handle)
  BY HandleFacts
<1>3. acq.path \in Paths /\ acq.iface \in {0, 1} /\ acq.left \subseteq DOMAIN Devices
  BY DEF TypeOK
<1>4. Len(handle) <= MaxHandles /\ MaxHandles \in Nat
  BY DEF TypeOK, BusAssumption
<1> QED
  BY <1>1, <1>2, <1>3, <1>4 DEF OtherProgram

\* a handle of this list with another state
LEMMA StateSet ==
  ASSUME TypeOK, NEW h \in DOMAIN handle, NEW s \in States,
         handle' = [handle EXCEPT ![h].state = s]
  PROVE  /\ handle' \in Seq(HandleRec) /\ Len(handle') = Len(handle)
         /\ DOMAIN handle' = DOMAIN handle
         /\ handle'[h] = [handle[h] EXCEPT !.state = s]
         /\ handle'[h].state = s
         /\ \A k \in DOMAIN handle : k # h => handle'[k] = handle[k]
         /\ \A k \in DOMAIN handle :
              /\ handle'[k].dev = handle[k].dev /\ handle'[k].iface = handle[k].iface
              /\ handle'[k].attach = handle[k].attach /\ handle'[k].gone = handle[k].gone
<1>1. /\ Len(handle) \in Nat /\ DOMAIN handle = 1 .. Len(handle)
      /\ handle \in [1 .. Len(handle) -> HandleRec] /\ handle[h] \in HandleRec
  BY HandleFacts
<1>2. [handle[h] EXCEPT !.state = s] \in HandleRec
  BY <1>1 DEF HandleRec
<1>3. handle' = [handle EXCEPT ![h] = [handle[h] EXCEPT !.state = s]]
  OBVIOUS
<1>4. handle' \in [1 .. Len(handle) -> HandleRec]
  BY <1>1, <1>2, <1>3
<1>5. handle' \in Seq(HandleRec) /\ Len(handle') = Len(handle)
  BY <1>1, <1>4, SeqOfFunction
<1>6. DOMAIN handle' = DOMAIN handle
  BY <1>1, <1>4
<1>7. handle'[h] = [handle[h] EXCEPT !.state = s]
  BY <1>1, <1>3
<1>8. \A k \in DOMAIN handle : k # h => handle'[k] = handle[k]
  BY <1>1, <1>3
<1>9. /\ handle'[h].state = s
      /\ handle'[h].dev = handle[h].dev /\ handle'[h].iface = handle[h].iface
      /\ handle'[h].attach = handle[h].attach /\ handle'[h].gone = handle[h].gone
  BY <1>1, <1>7 DEF HandleRec
<1> QED
  BY <1>5, <1>6, <1>7, <1>8, <1>9

LEMMA UnplugEffect ==
  ASSUME TypeOK, NEW d \in ToSet(Devices), Unplug(d)
  PROVE  /\ handle' \in Seq(HandleRec) /\ Len(handle') = Len(handle)
         /\ DOMAIN handle' = DOMAIN handle
         /\ \A k \in DOMAIN handle :
              /\ handle'[k].dev = handle[k].dev /\ handle'[k].iface = handle[k].iface
              /\ handle'[k].attach = handle[k].attach /\ handle'[k].state = handle[k].state
              /\ handle'[k].gone <=> handle[k].gone \/ handle[k].dev = d
         /\ \A e \in ToSet(Devices), i \in {0, 1} :
              claim'[e][i] = IF e = d THEN 0 ELSE claim[e][i]
<1>1. /\ Len(handle) \in Nat /\ DOMAIN handle = 1 .. Len(handle)
      /\ \A h \in DOMAIN handle : handle[h] \in HandleRec
  BY HandleFacts
<1>2. handle' = [h \in DOMAIN handle |-> [handle[h] EXCEPT !.gone = @ \/ handle[h].dev = d]]
  BY DEF Unplug
<1>3. DOMAIN handle' = DOMAIN handle
  BY <1>2
<1>4. ASSUME NEW k \in DOMAIN handle
      PROVE  /\ handle'[k] \in HandleRec
             /\ handle'[k].dev = handle[k].dev /\ handle'[k].iface = handle[k].iface
             /\ handle'[k].attach = handle[k].attach /\ handle'[k].state = handle[k].state
             /\ handle'[k].gone <=> handle[k].gone \/ handle[k].dev = d
  <2>1. handle[k] \in HandleRec
    BY <1>1
  <2>2. handle'[k] = [handle[k] EXCEPT !.gone = handle[k].gone \/ handle[k].dev = d]
    BY <1>2
  <2>3. (handle[k].gone \/ handle[k].dev = d) \in BOOLEAN
    OBVIOUS
  <2> QED
    BY <2>1, <2>2, <2>3 DEF HandleRec
<1>5. handle' \in [1 .. Len(handle) -> HandleRec]
  BY <1>1, <1>2, <1>4
<1>6. handle' \in Seq(HandleRec) /\ Len(handle') = Len(handle)
  BY <1>1, <1>5, SeqOfFunction
<1>7. \A e \in ToSet(Devices), i \in {0, 1} :
        claim'[e][i] = IF e = d THEN 0 ELSE claim[e][i]
  BY DEF Unplug, TypeOK
<1> QED
  BY <1>3, <1>4, <1>6, <1>7

\* the sessions whose path is not listed
Lost ==
  {h \in DOMAIN handle :
     \E p \in Paths, i \in {0, 1} : Matching(p) = {} /\ table[p][i] = h}

LEMMA EnumerateEffect ==
  ASSUME TypeOK, Enumerate
  PROVE  /\ handle' \in Seq(HandleRec) /\ Len(handle') = Len(handle)
         /\ DOMAIN handle' = DOMAIN handle
         /\ \A k \in DOMAIN handle :
              /\ handle'[k].dev = handle[k].dev /\ handle'[k].iface = handle[k].iface
              /\ handle'[k].attach = handle[k].attach /\ handle'[k].gone = handle[k].gone
              /\ handle'[k].state = IF k \in Lost THEN "release" ELSE handle[k].state
         /\ \A p \in Paths, i \in {0, 1} :
              table'[p][i] = IF Matching(p) = {} THEN 0 ELSE table[p][i]
         /\ acq.pc = "idle" /\ UNCHANGED <<attached, driver, claim, acq>>
<1>1. /\ Len(handle) \in Nat /\ DOMAIN handle = 1 .. Len(handle)
      /\ \A h \in DOMAIN handle : handle[h] \in HandleRec
  BY HandleFacts
<1> DEFINE listed == {p \in Paths : Matching(p) # {}}
<1>2. handle' = [h \in DOMAIN handle |->
                   IF h \in Lost THEN [handle[h] EXCEPT !.state = "release"] ELSE handle[h]]
  <2>1. {h \in DOMAIN handle : \E p \in Paths \ listed, i \in {0, 1} : table[p][i] = h} = Lost
    BY Zenon DEF Lost
  <2> QED
    BY <2>1 DEF Enumerate
<1>3. DOMAIN handle' = DOMAIN handle
  BY <1>2
<1>4. ASSUME NEW k \in DOMAIN handle
      PROVE  /\ handle'[k] \in HandleRec
             /\ handle'[k].dev = handle[k].dev /\ handle'[k].iface = handle[k].iface
             /\ handle'[k].attach = handle[k].attach /\ handle'[k].gone = handle[k].gone
             /\ handle'[k].state = IF k \in Lost THEN "release" ELSE handle[k].state
  <2>1. handle[k] \in HandleRec
    BY <1>1
  <2>2. handle'[k] = IF k \in Lost THEN [handle[k] EXCEPT !.state = "release"] ELSE handle[k]
    BY <1>2
  <2> QED
    BY <2>1, <2>2 DEF HandleRec, States
<1>5. handle' \in [1 .. Len(handle) -> HandleRec]
  BY <1>1, <1>2, <1>4
<1>6. handle' \in Seq(HandleRec) /\ Len(handle') = Len(handle)
  BY <1>1, <1>5, SeqOfFunction
<1>7. \A p \in Paths, i \in {0, 1} :
        table'[p][i] = IF Matching(p) = {} THEN 0 ELSE table[p][i]
  BY DEF Enumerate
<1>8. acq.pc = "idle" /\ UNCHANGED <<attached, driver, claim, acq>>
  BY DEF Enumerate, deviceVars
<1> QED
  BY <1>3, <1>4, <1>6, <1>7, <1>8

LEMMA ClosingEffect ==
  ASSUME TypeOK, NEW h \in DOMAIN handle, Closing(h)
  PROVE  /\ \/ /\ handle[h].state = "release" /\ ReleaseInterface(h)
               /\ handle' = [handle EXCEPT ![h].state = "attach"]
            \/ /\ handle[h].state = "attach" /\ AttachDriver(h)
               /\ handle' = [handle EXCEPT ![h].state = "close"]
            \/ /\ handle[h].state = "close" /\ CloseHandle(h)
               /\ handle' = [handle EXCEPT ![h].state = "closed"]
         /\ UNCHANGED <<attached, shown, table, acq>>
         /\ handle[h].dev \in ToSet(Devices) /\ handle[h].iface \in {0, 1}
         /\ \A d \in ToSet(Devices), i \in {0, 1} :
              \/ claim'[d][i] = claim[d][i]
              \/ claim[d][i] = h /\ claim'[d][i] = 0
<1>1. \/ /\ handle[h].state = "release" /\ ReleaseInterface(h)
         /\ handle' = [handle EXCEPT ![h].state = "attach"]
      \/ /\ handle[h].state = "attach" /\ AttachDriver(h)
         /\ handle' = [handle EXCEPT ![h].state = "close"]
      \/ /\ handle[h].state = "close" /\ CloseHandle(h)
         /\ handle' = [handle EXCEPT ![h].state = "closed"]
  BY DEF Closing, ReleaseInterface, AttachDriver, CloseHandle, At
<1>2. UNCHANGED <<attached, shown, table, acq>>
  BY DEF Closing, ReleaseInterface, AttachDriver, CloseHandle, At
<1>3. handle[h].dev \in ToSet(Devices) /\ handle[h].iface \in {0, 1}
  BY HandleFacts DEF HandleRec
<1>4. \A d \in ToSet(Devices), i \in {0, 1} :
        \/ Unclaimed(h)[d][i] = claim[d][i]
        \/ claim[d][i] = h /\ Unclaimed(h)[d][i] = 0
  BY <1>3 DEF Unclaimed, TypeOK
<1>5. claim' = claim \/ claim' = Unclaimed(h)
  BY DEF Closing, ReleaseInterface, AttachDriver, CloseHandle
<1>6. \A d \in ToSet(Devices), i \in {0, 1} :
        \/ claim'[d][i] = claim[d][i]
        \/ claim[d][i] = h /\ claim'[d][i] = 0
  BY <1>4, <1>5
<1> QED
  BY <1>1, <1>2, <1>3, <1>6

\* the end of a session
LEMMA EndEffect ==
  ASSUME TypeOK, BusAssumption, NEW p \in Paths, NEW i \in {0, 1}, table[p][i] # 0,
         table' = [table EXCEPT ![p][i] = 0], handle' = Ending(table[p][i])
  PROVE  /\ table[p][i] \in DOMAIN handle
         /\ \A q \in Paths, j \in {0, 1} :
              table'[q][j] = IF q = p /\ j = i THEN 0 ELSE table[q][j]
<1>1. table[p][i] \in DOMAIN handle
  BY TableFacts
<1>2. \A q \in Paths, j \in {0, 1} :
        table'[q][j] = IF q = p /\ j = i THEN 0 ELSE table[q][j]
  BY DEF TypeOK
<1> QED
  BY <1>1, <1>2

LEMMA AcquireEffect ==
  ASSUME TypeOK, BusAssumption, NEW p \in Paths, NEW i \in {0, 1}, Acquire(p, i)
  PROVE  /\ acq.pc = "idle" /\ p \in DOMAIN shown
         /\ UNCHANGED <<attached, driver, claim, shown>>
         /\ acq'.path = p /\ acq'.iface = i /\ acq'.left = {} /\ ~acq'.reset
         /\ acq'.tries = 0
         /\ \/ /\ table[p][i] # 0 /\ table[p][i] \in DOMAIN handle
               /\ handle' = Ending(table[p][i])
               /\ \A q \in Paths, j \in {0, 1} :
                    table'[q][j] = IF q = p /\ j = i THEN 0 ELSE table[q][j]
               /\ acq'.pc = "steal" /\ acq'.prev = table[p][i]
            \/ /\ table[p][i] = 0 /\ UNCHANGED <<table, handle>>
               /\ acq'.pc = "prepare" /\ acq'.prev = 0
<1>1. /\ acq.pc = "idle" /\ p \in DOMAIN shown
      /\ UNCHANGED <<attached, driver, claim, shown>>
  BY DEF Acquire, deviceVars
<1>2. CASE table[p][i] # 0
  <2>1. /\ table' = [table EXCEPT ![p][i] = 0] /\ handle' = Ending(table[p][i])
        /\ acq' = [NoAcquire EXCEPT !.pc = "steal", !.path = p, !.iface = i,
                                    !.prev = table[p][i]]
    BY <1>2 DEF Acquire
  <2>2. /\ acq'.pc = "steal" /\ acq'.prev = table[p][i] /\ acq'.path = p
        /\ acq'.iface = i /\ acq'.left = {} /\ ~acq'.reset /\ acq'.tries = 0
    BY <2>1 DEF NoAcquire
  <2>3. table[p][i] \in DOMAIN handle
    BY <1>2, <2>1, EndEffect
  <2>5. \A q \in Paths, j \in {0, 1} :
          table'[q][j] = IF q = p /\ j = i THEN 0 ELSE table[q][j]
    BY <1>2, <2>1, EndEffect
  <2> QED
    BY <1>1, <1>2, <2>2, <2>1, <2>3, <2>5
<1>3. CASE table[p][i] = 0
  <2>1. /\ acq' = [NoAcquire EXCEPT !.pc = "prepare", !.path = p, !.iface = i]
        /\ UNCHANGED <<table, handle>>
    BY <1>3 DEF Acquire
  <2>2. /\ acq'.pc = "prepare" /\ acq'.prev = 0 /\ acq'.path = p
        /\ acq'.iface = i /\ acq'.left = {} /\ ~acq'.reset /\ acq'.tries = 0
    BY <2>1 DEF NoAcquire
  <2> QED
    BY <1>1, <1>3, <2>1, <2>2
<1> QED
  BY <1>2, <1>3

AcqRec == [pc : {"idle", "steal", "prepare", "list", "open", "reset", "detach", "claim"},
           path : Paths, iface : {0, 1}, reset : BOOLEAN,
           tries : 0 .. MaxTries, left : SUBSET DOMAIN Devices, prev : 0 .. MaxHandles]

\* a step that leaves its request, path and interface alone
SameRequest ==
  acq'.path = acq.path /\ acq'.iface = acq.iface /\ acq'.prev = acq.prev

LEMMA IdleEffect ==
  ASSUME BusAssumption
  PROVE  /\ NoAcquire \in AcqRec
         /\ NoAcquire.pc = "idle" /\ NoAcquire.left = {}
<1>1. Devices[1] \in ToSet(Devices)
  <2>1. Len(Devices) \in Nat \ {0} /\ DOMAIN Devices = 1 .. Len(Devices)
    BY EmptySeq, LenProperties DEF BusAssumption
  <2> QED
    BY <2>1 DEF ToSet
<1>2. \E p : p \in Paths
  BY <1>1 DEF Paths
<1>3. (CHOOSE p \in Paths : TRUE) \in Paths
  BY <1>2
<1>4. 0 \in 0 .. MaxTries /\ 0 \in 0 .. MaxHandles
  BY DEF BusAssumption
<1> QED
  BY <1>3, <1>4 DEF NoAcquire, AcqRec

LEMMA AcquireMoves ==
  ASSUME TypeOK, BusAssumption
  PROVE  /\ Stolen => SameRequest /\ acq'.pc = "prepare" /\ acq'.left = acq.left
                      /\ acq'.reset = acq.reset /\ acq' \in AcqRec
         /\ Prepare => /\ SameRequest /\ acq'.pc = "list" /\ acq'.left = acq.left
                       /\ acq'.reset <=> table[acq.path][1 - acq.iface] = 0
                       /\ acq' \in AcqRec
         /\ ListDevices => SameRequest /\ acq'.pc = "open" /\ acq'.left = Matching(acq.path)
                           /\ acq'.reset = acq.reset /\ acq' \in AcqRec
         /\ ResetDevice => SameRequest /\ acq'.pc = "detach" /\ acq'.left = acq.left
                           /\ acq'.reset = acq.reset /\ acq' \in AcqRec
         /\ NextCandidate => SameRequest /\ acq'.pc = "open" /\ acq'.left = Rest
                             /\ acq'.reset = acq.reset /\ acq' \in AcqRec
<1>1. acq \in AcqRec
  BY DEF TypeOK, AcqRec
<1>2. Stolen => SameRequest /\ acq'.pc = "prepare" /\ acq'.left = acq.left
                /\ acq'.reset = acq.reset /\ acq' \in AcqRec
  BY <1>1 DEF Stolen, AcqRec, SameRequest
<1>3. Prepare => /\ SameRequest /\ acq'.pc = "list" /\ acq'.left = acq.left
                 /\ acq'.reset <=> table[acq.path][1 - acq.iface] = 0
                 /\ acq' \in AcqRec
  BY <1>1 DEF Prepare, AcqRec, SameRequest
<1>4. ListDevices => SameRequest /\ acq'.pc = "open" /\ acq'.left = Matching(acq.path)
                     /\ acq'.reset = acq.reset /\ acq' \in AcqRec
  <2>1. Matching(acq.path) \in SUBSET DOMAIN Devices
    BY DEF Matching
  <2> QED
    BY <1>1, <2>1 DEF ListDevices, AcqRec, SameRequest
<1>5. ResetDevice => SameRequest /\ acq'.pc = "detach" /\ acq'.left = acq.left
                     /\ acq'.reset = acq.reset /\ acq' \in AcqRec
  BY <1>1 DEF ResetDevice, AcqRec, SameRequest
<1>6. NextCandidate => SameRequest /\ acq'.pc = "open" /\ acq'.left = Rest
                       /\ acq'.reset = acq.reset /\ acq' \in AcqRec
  <2>1. Rest \in SUBSET DOMAIN Devices
    BY <1>1 DEF Rest, AcqRec
  <2> QED
    BY <1>1, <2>1 DEF NextCandidate, AcqRec, SameRequest
<1> QED
  BY <1>2, <1>3, <1>4, <1>5, <1>6

(***************************************************************************)
(* A set of numbers has a least one: of the sets of the numbers below one  *)
(* of them, which are finite, one is the smallest.                         *)
(***************************************************************************)
LEMMA LeastNumber ==
  ASSUME NEW S \in SUBSET Nat, S # {}
  PROVE  \E i \in S : \A j \in S : i <= j
<1> DEFINE Below(i) == {j \in S : j < i}
           Belows == {Below(i) : i \in S}
<1>0. \A k \in S : k \in Nat
  OBVIOUS
<1>1. \A i \in S : Below(i) \in FiniteSubsetsOf(Nat)
  <2> SUFFICES ASSUME NEW i \in S PROVE Below(i) \in FiniteSubsetsOf(Nat)
    OBVIOUS
  <2>1. 0 \in Int /\ i \in Int
    BY <1>0
  <2>2. IsFiniteSet(0 .. i)
    BY <2>1, FS_Interval
  <2>3. Below(i) \in SUBSET (0 .. i)
    <3> SUFFICES ASSUME NEW k \in Below(i) PROVE k \in 0 .. i
      OBVIOUS
    <3>1. k \in Nat /\ k < i
      BY <1>0
    <3> QED
      BY <2>1, <3>1
  <2>4. IsFiniteSet(Below(i))
    BY <2>2, <2>3, FS_Subset
  <2> QED
    BY <2>3, <2>4, <1>0 DEF FiniteSubsetsOf
<1>2. PICK B \in Belows : \A C \in Belows : <<C, B>> \notin StrictSubsetOrdering(Nat)
  <2>1. Belows \subseteq FiniteSubsetsOf(Nat) /\ Belows # {}
    BY <1>1
  <2> HIDE DEF Belows
  <2> QED
    BY <2>1, WFMin, FS_StrictSubsetOrderingWellFounded
<1>3. PICK i \in S : B = Below(i)
  BY <1>2
<1>4. \A j \in S : i <= j
  <2> SUFFICES ASSUME NEW j \in S, j < i PROVE FALSE
    OBVIOUS
  <2>1. i \in Nat /\ j \in Nat
    BY <1>0
  <2>2. \A k \in S : k < j => k < i
    BY <1>0, <2>1
  <2>5. Below(j) \subseteq Below(i)
    BY <2>2
  <2>3. j \in Below(i) /\ j \notin Below(j)
    BY <2>1
  <2>4. Below(j) \in SUBSET Nat /\ Below(i) \in SUBSET Nat /\ Below(j) # Below(i)
    BY <2>3
  <2> HIDE DEF Below
  <2>6. <<Below(j), B>> \in StrictSubsetOrdering(Nat)
    BY <1>3, <2>5, <2>4 DEF StrictSubsetOrdering
  <2> QED
    BY <1>2, <2>6
<1> QED
  BY <1>4

LEMMA ForemostIn ==
  ASSUME BusAssumption, NEW places \in SUBSET DOMAIN Devices, places # {}
  PROVE  /\ Foremost(places) \in places
         /\ Devices[Foremost(places)] \in ToSet(Devices)
<1>1. DOMAIN Devices = 1 .. Len(Devices) /\ Len(Devices) \in Nat
  BY LenProperties DEF BusAssumption
<1>2. PICK n \in places : \A m \in places : n <= m
  BY <1>1, LeastNumber
<1>3. Foremost(places) \in places
  BY <1>2 DEF Foremost
<1> QED
  BY <1>3 DEF ToSet

\* the handle a successful open makes
Opened == [dev |-> Candidate, iface |-> acq.iface, state |-> "opening",
           attach |-> FALSE, gone |-> FALSE]

LEMMA OpenEffect ==
  ASSUME TypeOK, BusAssumption, Open
  PROVE  /\ acq.pc = "open" /\ UNCHANGED <<attached, driver, claim, shown, table>>
         /\ acq' \in AcqRec
         /\ \/ /\ UNCHANGED handle
               /\ \/ SameRequest /\ acq'.reset = acq.reset /\ acq'.pc = "list"
                     /\ acq'.left = {}
                  \/ acq'.pc = "idle" /\ acq'.left = {}
                  \/ SameRequest /\ acq'.reset = acq.reset /\ acq'.pc = "open"
                     /\ acq'.left \subseteq acq.left
            \/ /\ SameRequest /\ acq'.reset = acq.reset /\ acq'.pc = "reset"
               /\ acq'.left = acq.left
               /\ Candidate \in attached /\ Foremost(acq.left) \in acq.left
               /\ handle' \in Seq(HandleRec) /\ Len(handle') = Len(handle) + 1
               /\ Len(handle) < MaxHandles
               /\ handle'[Len(handle) + 1] = Opened
               /\ \A k \in DOMAIN handle : handle'[k] = handle[k]
<1>1. acq \in AcqRec
  BY DEF TypeOK, AcqRec
<1>2. acq.pc = "open" /\ UNCHANGED <<attached, driver, claim, shown, table>>
  BY DEF Open, deviceVars
<1>3. CASE acq.left = {}
  <2>1. UNCHANGED handle
    BY <1>3 DEF Open
  <2>2. CASE acq.tries < MaxTries
    <3>1. acq' = [acq EXCEPT !.pc = "list", !.tries = @ + 1]
      BY <1>3, <2>2 DEF Open
    <3>2. acq.tries + 1 \in 0 .. MaxTries
      BY <1>1, <2>2 DEF AcqRec, BusAssumption
    <3> QED
      BY <1>1, <1>2, <1>3, <2>1, <3>1, <3>2 DEF AcqRec, SameRequest
  <2>3. CASE ~ acq.tries < MaxTries
    <3>1. acq' = NoAcquire
      BY <1>3, <2>3 DEF Open
    <3> QED
      BY <1>2, <2>1, <3>1, IdleEffect
  <2> QED
    BY <2>2, <2>3
<1>4. CASE acq.left # {} /\ acq' = [acq EXCEPT !.left = Rest] /\ UNCHANGED handle
  <2>1. Rest \subseteq acq.left
    BY DEF Rest
  <2> QED
    BY <1>1, <1>2, <1>4, <2>1 DEF AcqRec, SameRequest
<1>5. CASE /\ acq.left # {} /\ Candidate \in attached /\ Len(handle) < MaxHandles
           /\ handle' = Append(handle, Opened)
           /\ acq' = [acq EXCEPT !.pc = "reset"]
  <2>1. Foremost(acq.left) \in acq.left /\ Candidate \in ToSet(Devices)
    BY <1>1, <1>5, ForemostIn DEF Candidate, AcqRec
  <2>2. Opened \in HandleRec
    BY <1>1, <2>1 DEF Opened, HandleRec, AcqRec, States
  <2>3. handle \in Seq(HandleRec)
    BY DEF TypeOK, HandleRec
  <2>4. /\ handle' \in Seq(HandleRec) /\ Len(handle') = Len(handle) + 1
        /\ handle'[Len(handle) + 1] = Opened
        /\ \A k \in DOMAIN handle : handle'[k] = handle[k]
    <3> HIDE DEF Opened
    <3> QED
      BY <1>5, <2>2, <2>3, AppendProperties, LenProperties
  <2>5. /\ SameRequest /\ acq'.reset = acq.reset /\ acq'.pc = "reset"
        /\ acq'.left = acq.left /\ acq' \in AcqRec
    BY <1>1, <1>5 DEF AcqRec, SameRequest
  <2> QED
    BY <1>2, <1>5, <2>1, <2>4, <2>5
<1> QED
  BY <1>3, <1>4, <1>5 DEF Open, Opened

LEMMA NewFacts ==
  ASSUME TypeOK, NewHandle, acq.pc \in {"reset", "detach", "claim"}
  PROVE  /\ New \in DOMAIN handle /\ NewDev \in ToSet(Devices)
         /\ handle[New].iface = acq.iface /\ PortsOf(NewDev) = acq.path
         /\ handle[New].state = "opening"
<1>1. Len(handle) \in Nat /\ DOMAIN handle = 1 .. Len(handle)
  BY HandleFacts
<1>2. /\ New # 0 /\ handle[New].state = "opening" /\ handle[New].iface = acq.iface
      /\ PortsOf(NewDev) = acq.path
  BY DEF NewHandle
<1>3. New \in DOMAIN handle
  BY <1>1, <1>2 DEF New
<1>4. NewDev \in ToSet(Devices)
  BY <1>3, HandleFacts DEF NewDev, HandleRec
<1> QED
  BY <1>2, <1>3, <1>4

LEMMA ResetEffect ==
  ASSUME TypeOK, BusAssumption, NewHandle, ResetDevice
  PROVE  /\ acq.pc = "reset" /\ UNCHANGED <<attached, shown, table, handle>>
         /\ \A d \in ToSet(Devices), i \in {0, 1} :
              claim'[d][i] = IF acq.reset /\ ~handle[New].gone /\ d = NewDev
                             THEN 0 ELSE claim[d][i]
         /\ \A d \in ToSet(Devices), i \in {0, 1} :
              i \in driver'[d] <=>
                \/ i \in driver[d]
                \/ /\ acq.reset /\ ~handle[New].gone /\ d = NewDev
                   /\ i \in HasDriver /\ claim[d][i] # 0
         /\ claim' \in [ToSet(Devices) -> [{0, 1} -> 0 .. OtherProgram]]
         /\ driver' \in [ToSet(Devices) -> SUBSET {0, 1}]
<1>1. acq.pc = "reset" /\ UNCHANGED <<attached, shown, table, handle>>
  BY DEF ResetDevice
<1>2. NewDev \in ToSet(Devices)
  BY <1>1, NewFacts
<1>3. /\ claim \in [ToSet(Devices) -> [{0, 1} -> 0 .. OtherProgram]]
      /\ driver \in [ToSet(Devices) -> SUBSET {0, 1}]
  BY DEF TypeOK
<1>4. HasDriver \subseteq {0, 1} /\ 0 \in 0 .. OtherProgram
  BY DEF BusAssumption, OtherProgram
<1>5. CASE acq.reset /\ ~handle[New].gone
  <2>1. /\ claim' = [claim EXCEPT ![NewDev] = [i \in {0, 1} |-> 0]]
        /\ driver' = [driver EXCEPT ![NewDev] =
                        @ \cup {i \in HasDriver : claim[NewDev][i] # 0}]
    BY <1>5 DEF ResetDevice
  <2> HIDE DEF NewDev, New
  <2>2. claim' \in [ToSet(Devices) -> [{0, 1} -> 0 .. OtherProgram]]
    BY <1>2, <1>3, <1>4, <2>1
  <2>3. driver' \in [ToSet(Devices) -> SUBSET {0, 1}]
    BY <1>2, <1>3, <1>4, <2>1
  <2>4. \A d \in ToSet(Devices), i \in {0, 1} :
          claim'[d][i] = IF d = NewDev THEN 0 ELSE claim[d][i]
    BY <1>2, <1>3, <2>1
  <2>5. \A d \in ToSet(Devices), i \in {0, 1} :
          i \in driver'[d] <=>
            i \in driver[d] \/ (d = NewDev /\ i \in HasDriver /\ claim[d][i] # 0)
    BY <1>2, <1>3, <2>1
  <2> QED
    BY <1>1, <1>5, <2>2, <2>3, <2>4, <2>5
<1>6. CASE ~(acq.reset /\ ~handle[New].gone)
  <2>1. UNCHANGED <<claim, driver>>
    BY <1>6 DEF ResetDevice
  <2> QED
    BY <1>1, <1>3, <1>6, <2>1
<1> QED
  BY <1>5, <1>6

LEMMA DetachEffect ==
  ASSUME TypeOK, BusAssumption, NewHandle, Detach
  PROVE  /\ acq.pc = "detach" /\ UNCHANGED <<attached, claim, shown, table>>
         /\ \/ /\ handle[New].gone /\ NextCandidate /\ UNCHANGED driver
            \/ /\ ~handle[New].gone
               /\ SameRequest /\ acq'.pc = "claim" /\ acq'.left = acq.left
               /\ acq'.reset = acq.reset /\ acq' \in AcqRec
               /\ handle' \in Seq(HandleRec) /\ Len(handle') = Len(handle)
               /\ DOMAIN handle' = DOMAIN handle
               /\ \A k \in DOMAIN handle : k # New => handle'[k] = handle[k]
               /\ handle'[New].attach <=> acq.iface \in driver[NewDev]
               /\ \A k \in DOMAIN handle :
                    /\ handle'[k].dev = handle[k].dev /\ handle'[k].iface = handle[k].iface
                    /\ handle'[k].state = handle[k].state /\ handle'[k].gone = handle[k].gone
               /\ \A d \in ToSet(Devices), i \in {0, 1} :
                    i \in driver'[d] <=> i \in driver[d] /\ ~(d = NewDev /\ i = acq.iface)
               /\ driver' \in [ToSet(Devices) -> SUBSET {0, 1}]
<1>1. acq.pc = "detach" /\ UNCHANGED <<attached, claim, shown, table>>
  BY DEF Detach
<1>2. New \in DOMAIN handle /\ NewDev \in ToSet(Devices)
  BY <1>1, NewFacts
<1>3. CASE handle[New].gone
  BY <1>1, <1>3 DEF Detach
<1>4. CASE ~handle[New].gone
  <2>1. /\ handle' = [handle EXCEPT ![New].attach = acq.iface \in driver[NewDev]]
        /\ driver' = [driver EXCEPT ![NewDev] = @ \ {acq.iface}]
        /\ acq' = [acq EXCEPT !.pc = "claim"]
    BY <1>4 DEF Detach
  <2>2. /\ Len(handle) \in Nat /\ DOMAIN handle = 1 .. Len(handle)
        /\ handle \in [1 .. Len(handle) -> HandleRec] /\ handle[New] \in HandleRec
    BY <1>2, HandleFacts
  <2>3. acq \in AcqRec /\ driver \in [ToSet(Devices) -> SUBSET {0, 1}]
    BY DEF TypeOK, AcqRec
  <2> DEFINE b == acq.iface \in driver[NewDev]
             r == [handle[New] EXCEPT !.attach = b]
  <2>4. b \in BOOLEAN
    OBVIOUS
  <2>5. handle' = [handle EXCEPT ![New] = r]
    BY <2>1
  <2>6. /\ r \in HandleRec /\ r.attach = b /\ r.dev = handle[New].dev
        /\ r.iface = handle[New].iface /\ r.state = handle[New].state
        /\ r.gone = handle[New].gone
    <3> HIDE DEF b
    <3> QED
      BY <2>2, <2>4 DEF HandleRec
  <2> HIDE DEF r
  <2>7. handle' \in [1 .. Len(handle) -> HandleRec]
    BY <2>2, <2>5, <2>6
  <2>8. handle' \in Seq(HandleRec) /\ Len(handle') = Len(handle)
    BY <2>2, <2>7, SeqOfFunction
  <2>9. DOMAIN handle' = DOMAIN handle
    BY <2>2, <2>7
  <2>10. handle'[New] = r /\ \A k \in DOMAIN handle : k # New => handle'[k] = handle[k]
    BY <1>2, <2>2, <2>5
  <2>11. \A k \in DOMAIN handle :
           /\ handle'[k].dev = handle[k].dev /\ handle'[k].iface = handle[k].iface
           /\ handle'[k].state = handle[k].state /\ handle'[k].gone = handle[k].gone
    BY <2>6, <2>10
  <2>12. handle'[New].attach <=> acq.iface \in driver[NewDev]
    BY <2>6, <2>10
  <2>13. /\ SameRequest /\ acq'.pc = "claim" /\ acq'.left = acq.left
         /\ acq'.reset = acq.reset /\ acq' \in AcqRec
    BY <2>1, <2>3 DEF AcqRec, SameRequest
  <2>14. /\ driver' \in [ToSet(Devices) -> SUBSET {0, 1}]
         /\ \A d \in ToSet(Devices), i \in {0, 1} :
              i \in driver'[d] <=> i \in driver[d] /\ ~(d = NewDev /\ i = acq.iface)
    <3> HIDE DEF NewDev, New
    <3> QED
      BY <1>2, <2>1, <2>3
  <2> QED
    BY <1>1, <1>4, <2>8, <2>9, <2>10, <2>11, <2>12, <2>13, <2>14
<1> QED
  BY <1>3, <1>4

LEMMA ClaimEffect ==
  ASSUME TypeOK, BusAssumption, NewHandle, Claim
  PROVE  /\ acq.pc = "claim" /\ UNCHANGED <<attached, driver, shown>>
         /\ \/ /\ \/ handle[New].gone \/ acq.iface \in driver[NewDev]
                  \/ claim[NewDev][acq.iface] # 0
               /\ NextCandidate /\ UNCHANGED <<claim, table>>
            \/ /\ ~handle[New].gone /\ claim[NewDev][acq.iface] = 0
               /\ handle' = [handle EXCEPT ![New].state = "open"]
               /\ acq'.pc = "idle" /\ acq'.left = {} /\ acq' \in AcqRec
               /\ \A p \in Paths, i \in {0, 1} :
                    table'[p][i] = IF p = acq.path /\ i = acq.iface THEN New ELSE table[p][i]
               /\ \A d \in ToSet(Devices), i \in {0, 1} :
                    claim'[d][i] = IF d = NewDev /\ i = acq.iface THEN New ELSE claim[d][i]
<1>1. acq.pc = "claim" /\ UNCHANGED <<attached, driver, shown>>
  BY DEF Claim
<1>2. New \in DOMAIN handle /\ NewDev \in ToSet(Devices)
  BY <1>1, NewFacts
<1>3. acq.path \in Paths /\ acq.iface \in {0, 1}
  BY TableFacts
<1>4. CASE handle[New].gone \/ acq.iface \in driver[NewDev] \/ claim[NewDev][acq.iface] # 0
  BY <1>1, <1>4 DEF Claim
<1>5. CASE ~(handle[New].gone \/ acq.iface \in driver[NewDev] \/ claim[NewDev][acq.iface] # 0)
  <2>1. /\ claim' = [claim EXCEPT ![NewDev][acq.iface] = New]
        /\ handle' = [handle EXCEPT ![New].state = "open"]
        /\ table' = [table EXCEPT ![acq.path][acq.iface] = New]
        /\ acq' = NoAcquire
    BY <1>5 DEF Claim
  <2>2. acq'.pc = "idle" /\ acq'.left = {} /\ acq' \in AcqRec
    BY <2>1, IdleEffect
  <2> HIDE DEF New, NewDev
  <2>3. \A p \in Paths, i \in {0, 1} :
          table'[p][i] = IF p = acq.path /\ i = acq.iface THEN New ELSE table[p][i]
    BY <1>3, <2>1 DEF TypeOK
  <2>4. \A d \in ToSet(Devices), i \in {0, 1} :
          claim'[d][i] = IF d = NewDev /\ i = acq.iface THEN New ELSE claim[d][i]
    BY <1>2, <1>3, <2>1 DEF TypeOK
  <2> QED
    BY <1>1, <1>5, <2>1, <2>2, <2>3, <2>4
<1> QED
  BY <1>4, <1>5

\* the handle of a failed attempt is closed
LEMMA NextEffect ==
  ASSUME TypeOK, BusAssumption, NewHandle, acq.pc \in {"reset", "detach", "claim"},
         NextCandidate
  PROVE  /\ New \in DOMAIN handle
         /\ handle' = [handle EXCEPT ![New].state = "closed"]
         /\ SameRequest /\ acq'.pc = "open" /\ acq'.reset = acq.reset
         /\ acq'.left \subseteq acq.left /\ acq' \in AcqRec
<1>1. New \in DOMAIN handle
  BY NewFacts
<1>2. handle' = [handle EXCEPT ![New].state = "closed"]
  BY DEF NextCandidate
<1>3. /\ SameRequest /\ acq'.pc = "open" /\ acq'.left = Rest
      /\ acq'.reset = acq.reset /\ acq' \in AcqRec
  BY AcquireMoves
<1> QED
  BY <1>1, <1>2, <1>3 DEF Rest

\* which step it was
LEMMA Actions ==
  ASSUME [Next]_vars
  PROVE  \/ UNCHANGED vars
         \/ \E d \in ToSet(Devices) : Plug(d)
         \/ \E d \in ToSet(Devices) : Unplug(d)
         \/ \E d \in ToSet(Devices), i \in {0, 1} : OtherClaims(d, i)
         \/ Enumerate
         \/ \E p \in Paths, i \in Interfaces : Acquire(p, i)
         \/ \E p \in Paths, i \in Interfaces : Release(p, i)
         \/ Stolen \/ Prepare \/ ListDevices \/ Open \/ ResetDevice \/ Detach \/ Claim
         \/ \E h \in DOMAIN handle : Closing(h)
BY DEF Next, Connecting

LEMMA TypeStep ==
  ASSUME BusAssumption, IInv, [Next]_vars
  PROVE  TypeOK'
<1>0. TypeOK /\ NewHandle
  BY DEF IInv
<1> DEFINE DriverType == driver \in [ToSet(Devices) -> SUBSET {0, 1}]
           ClaimType == claim \in [ToSet(Devices) -> [{0, 1} -> 0 .. OtherProgram]]
           TableType == table \in [Paths -> [{0, 1} -> 0 .. Len(handle)]]
<1>t. /\ attached \subseteq ToSet(Devices) /\ DOMAIN shown \subseteq Paths
      /\ DriverType /\ ClaimType /\ TableType
      /\ handle \in Seq(HandleRec) /\ Len(handle) <= MaxHandles /\ Len(handle) \in Nat
      /\ acq \in AcqRec
  BY <1>0, LenProperties DEF TypeOK, HandleRec, AcqRec
<1>c. 0 \in 0 .. OtherProgram /\ OtherProgram \in 0 .. OtherProgram /\ HasDriver \subseteq {0, 1}
  BY DEF BusAssumption, OtherProgram
<1>n. \A k \in DOMAIN handle : k \in 0 .. OtherProgram /\ k \in 0 .. Len(handle) /\ k \in 0 .. MaxHandles
  BY <1>0, <1>t, HandleFacts DEF BusAssumption, OtherProgram
<1>i. \A i \in Interfaces : i \in {0, 1}
  BY DEF BusAssumption
<1>1. attached' \subseteq ToSet(Devices)
  BY <1>t, Actions, ClosingEffect, <1>0
     DEF vars, deviceVars, Plug, Unplug, OtherClaims, Enumerate, Acquire, Release, Stolen,
         Prepare, ListDevices, Open, ResetDevice, Detach, Claim
<1>2. DOMAIN shown' \subseteq Paths
  <2>1. CASE Enumerate
    BY <2>1 DEF Enumerate
  <2>2. CASE UNCHANGED shown
    BY <1>t, <2>2
  <2> QED
    BY <2>1, <2>2, Actions, ClosingEffect, <1>0
       DEF vars, deviceVars, Plug, Unplug, OtherClaims, Acquire, Release, Stolen,
           Prepare, ListDevices, Open, ResetDevice, Detach, Claim
<1>3. DriverType'
  <2>1. CASE ResetDevice
    BY <1>0, <2>1, ResetEffect
  <2>2. CASE Detach
    <3>1. UNCHANGED driver \/ driver' \in [ToSet(Devices) -> SUBSET {0, 1}]
      BY <1>0, <2>2, DetachEffect
    <3> QED
      BY <1>t, <3>1
  <2>3. ASSUME NEW h \in DOMAIN handle, Closing(h) PROVE DriverType'
    <3>1. handle[h].dev \in ToSet(Devices) /\ handle[h].iface \in {0, 1}
      BY <1>0, <2>3, ClosingEffect
    <3> QED
      BY <1>t, <2>3, <3>1 DEF Closing, ReleaseInterface, AttachDriver, CloseHandle
  <2>4. ASSUME NEW d \in ToSet(Devices), Plug(d) \/ Unplug(d) PROVE DriverType'
    BY <1>t, <1>c, <2>4 DEF Plug, Unplug
  <2>5. CASE UNCHANGED driver
    BY <1>t, <2>5
  <2> HIDE DEF DriverType
  <2> QED
    BY <2>1, <2>2, <2>3, <2>4, <2>5, Actions
       DEF vars, deviceVars, OtherClaims, Enumerate, Acquire, Release, Stolen,
           Prepare, ListDevices, Open, Claim
<1>4. ClaimType'
  <2>1. CASE ResetDevice
    BY <1>0, <2>1, ResetEffect
  <2>2. CASE Claim
    <3>1. acq.pc = "claim"
      BY <2>2 DEF Claim
    <3>2. NewDev \in ToSet(Devices) /\ New \in DOMAIN handle
      BY <1>0, <3>1, NewFacts
    <3>3. acq.iface \in {0, 1} /\ New \in 0 .. OtherProgram
      BY <1>0, <1>n, <3>2, TableFacts
    <3>4. UNCHANGED claim \/ claim' = [claim EXCEPT ![NewDev][acq.iface] = New]
      BY <2>2 DEF Claim
    <3> HIDE DEF New, NewDev
    <3> QED
      <4> DEFINE row == [claim[NewDev] EXCEPT ![acq.iface] = New]
      <4>a. row \in [{0, 1} -> 0 .. OtherProgram]
        BY <1>t, <3>2, <3>3
      <4>b. [claim EXCEPT ![NewDev][acq.iface] = New] = [claim EXCEPT ![NewDev] = row]
        OBVIOUS
      <4> HIDE DEF row
      <4> QED
        BY <1>t, <3>2, <3>4, <4>a, <4>b
  <2>3. ASSUME NEW h \in DOMAIN handle, Closing(h) PROVE ClaimType'
    <3>1. handle[h].dev \in ToSet(Devices) /\ handle[h].iface \in {0, 1}
      BY <1>0, <2>3, ClosingEffect
    <3>2. UNCHANGED claim \/ claim' = Unclaimed(h)
      BY <2>3 DEF Closing, ReleaseInterface, AttachDriver, CloseHandle
    <3> DEFINE d == handle[h].dev
               row == [i \in {0, 1} |-> IF claim[d][i] = h THEN 0 ELSE claim[d][i]]
    <3>3. row \in [{0, 1} -> 0 .. OtherProgram]
      BY <1>t, <1>c, <3>1
    <3>4. Unclaimed(h) = [claim EXCEPT ![d] = row]
      BY DEF Unclaimed
    <3>5. [claim EXCEPT ![d] = row] \in [ToSet(Devices) -> [{0, 1} -> 0 .. OtherProgram]]
      <4> HIDE DEF d, row
      <4> QED
        BY <1>t, <3>1, <3>3 DEF d
    <3> QED
      BY <1>t, <3>2, <3>4, <3>5
  <2>4. ASSUME NEW d \in ToSet(Devices), Unplug(d) PROVE ClaimType'
    BY <1>t, <1>c, <2>4 DEF Unplug
  <2>5. ASSUME NEW d \in ToSet(Devices), NEW i \in {0, 1}, OtherClaims(d, i) PROVE ClaimType'
    <3>1. PICK v \in 0 .. OtherProgram : claim' = [claim EXCEPT ![d][i] = v]
      BY <1>c, <2>5 DEF OtherClaims
    <3> QED
      <4> DEFINE row == [claim[d] EXCEPT ![i] = v]
      <4>a. row \in [{0, 1} -> 0 .. OtherProgram]
        BY <1>t
      <4>b. [claim EXCEPT ![d][i] = v] = [claim EXCEPT ![d] = row]
        OBVIOUS
      <4> HIDE DEF row
      <4> QED
        BY <1>t, <3>1, <4>a, <4>b
  <2>6. CASE UNCHANGED claim
    BY <1>t, <2>6
  <2> HIDE DEF ClaimType
  <2> QED
    BY <2>1, <2>2, <2>3, <2>4, <2>5, <2>6, Actions
       DEF vars, deviceVars, Plug, Enumerate, Acquire, Release, Stolen,
           Prepare, ListDevices, Open, Detach
<1>5. /\ handle' \in Seq(HandleRec) /\ Len(handle') <= MaxHandles
      /\ Len(handle) <= Len(handle') /\ Len(handle') \in Nat
  <2> DEFINE Goal == /\ handle' \in Seq(HandleRec) /\ Len(handle') <= MaxHandles
                     /\ Len(handle) <= Len(handle') /\ Len(handle') \in Nat
  <2>1. ASSUME NEW h \in DOMAIN handle, NEW s \in States,
               handle' = [handle EXCEPT ![h].state = s]
        PROVE  Goal
    <3>1. handle' \in Seq(HandleRec)
      BY <1>0, <2>1, StateSet
    <3>2. Len(handle') = Len(handle)
      BY <1>0, <2>1, StateSet
    <3> QED
      BY <1>t, <3>1, <3>2
  <2>2. ASSUME NEW d \in ToSet(Devices), Unplug(d) PROVE Goal
    BY <1>0, <1>t, <2>2, UnplugEffect
  <2>3. ASSUME Enumerate PROVE Goal
    BY <1>0, <1>t, <2>3, EnumerateEffect
  <2>4. ASSUME UNCHANGED handle PROVE Goal
    BY <1>t, <2>4
  <2>5. ASSUME Open PROVE Goal
    <3>1. \/ UNCHANGED handle
          \/ /\ handle' \in Seq(HandleRec) /\ Len(handle') = Len(handle) + 1
             /\ Len(handle) < MaxHandles
      BY <1>0, <2>5, OpenEffect
    <3> QED
      BY <1>t, <3>1 DEF BusAssumption
  <2>6. ASSUME Detach PROVE Goal
    <3>1. \/ handle[New].gone /\ acq.pc = "detach" /\ NextCandidate
          \/ handle' \in Seq(HandleRec) /\ Len(handle') = Len(handle)
      BY <1>0, <2>6, DetachEffect
    <3>2. CASE acq.pc = "detach" /\ NextCandidate
      <4>1. New \in DOMAIN handle /\ handle' = [handle EXCEPT ![New].state = "closed"]
        BY <1>0, <3>2, NextEffect
      <4> QED
        BY <2>1, <4>1 DEF States
    <3> QED
      BY <1>t, <3>1, <3>2
  <2>7. ASSUME Claim PROVE Goal
    <3>1. acq.pc = "claim"
      BY <2>7 DEF Claim
    <3>2. \/ NextCandidate \/ handle' = [handle EXCEPT ![New].state = "open"]
      BY <1>0, <2>7, ClaimEffect
    <3>3. NextCandidate => handle' = [handle EXCEPT ![New].state = "closed"]
      BY <1>0, <3>1, NextEffect
    <3>4. New \in DOMAIN handle
      BY <1>0, <3>1, NewFacts
    <3> QED
      BY <2>1, <3>2, <3>3, <3>4 DEF States
  <2>8. ASSUME NEW h \in DOMAIN handle, Closing(h) PROVE Goal
    <3>1. \E s \in {"attach", "close", "closed"} : handle' = [handle EXCEPT ![h].state = s]
      BY <1>0, <2>8, ClosingEffect
    <3> QED
      BY <2>1, <3>1 DEF States
  <2>9. ASSUME NEW p \in Paths, NEW i \in Interfaces, Release(p, i) PROVE Goal
    <3>1. table[p][i] \in DOMAIN handle
      BY <1>0, <1>i, <2>9, TableFacts DEF Release
    <3>2. handle' = [handle EXCEPT ![table[p][i]].state = "release"]
      BY <2>9 DEF Release, Ending
    <3> QED
      BY <2>1, <3>1, <3>2 DEF States
  <2>10. ASSUME NEW p \in Paths, NEW i \in Interfaces, Acquire(p, i) PROVE Goal
    <3>1. i \in {0, 1}
      BY <1>i
    <3>2. \/ table[p][i] \in DOMAIN handle /\ handle' = Ending(table[p][i])
          \/ UNCHANGED handle
      BY <1>0, <2>10, <3>1, AcquireEffect
    <3>3. CASE handle' = Ending(table[p][i]) /\ table[p][i] \in DOMAIN handle
      BY <2>1, <3>3 DEF States, Ending
    <3> QED
      BY <2>4, <3>2, <3>3
  <2> HIDE DEF Goal
  <2>11. \/ UNCHANGED vars \/ \E d \in ToSet(Devices) : Plug(d)
         \/ \E d \in ToSet(Devices), i \in {0, 1} : OtherClaims(d, i)
         \/ Stolen \/ Prepare \/ ListDevices \/ ResetDevice
         => UNCHANGED handle
    BY DEF vars, Plug, OtherClaims, Stolen, Prepare, ListDevices, ResetDevice
  <2>12. (\E d \in ToSet(Devices) : Unplug(d)) \/ (\E h \in DOMAIN handle : Closing(h)) => Goal
    BY <2>2, <2>8
  <2>13. (\E p \in Paths, i \in Interfaces : Acquire(p, i) \/ Release(p, i)) => Goal
    BY <2>9, <2>10
  <2>14. Enumerate \/ Open \/ Detach \/ Claim => Goal
    BY <2>3, <2>5, <2>6, <2>7
  <2>15. Goal
    BY <2>4, <2>11, <2>12, <2>13, <2>14, Actions
  <2> QED
    BY <2>15 DEF Goal
<1>6. TableType'
  <2>0. \A n \in 0 .. Len(handle) : n \in 0 .. Len(handle')
    BY <1>t, <1>5
  <2>1. ASSUME NEW p \in Paths, NEW i \in Interfaces, Acquire(p, i) \/ Release(p, i)
        PROVE  TableType'
    <3>1. table' = table \/ table' = [table EXCEPT ![p][i] = 0]
      BY <2>1 DEF Acquire, Release
    <3> QED
      <4>1. table \in [Paths -> [{0, 1} -> 0 .. Len(handle')]] /\ 0 \in 0 .. Len(handle')
        BY <1>t, <1>5, <2>0
      <4>2. i \in {0, 1}
        BY <1>i
      <4> DEFINE row == [table[p] EXCEPT ![i] = 0]
      <4>a. row \in [{0, 1} -> 0 .. Len(handle')]
        BY <4>1, <4>2
      <4>b. [table EXCEPT ![p][i] = 0] = [table EXCEPT ![p] = row]
        OBVIOUS
      <4> HIDE DEF row
      <4> QED
        BY <3>1, <4>1, <4>a, <4>b
  <2>2. CASE Enumerate
    BY <1>t, <1>5, <2>0, <2>2 DEF Enumerate
  <2>3. CASE Claim
    <3>1. acq.pc = "claim"
      BY <2>3 DEF Claim
    <3>2. New \in 0 .. Len(handle) /\ acq.path \in Paths /\ acq.iface \in {0, 1}
      BY <1>0, <1>n, <3>1, NewFacts, TableFacts
    <3>3. table' = table \/ table' = [table EXCEPT ![acq.path][acq.iface] = New]
      BY <2>3 DEF Claim
    <3> HIDE DEF New
    <3> QED
      <4>1. table \in [Paths -> [{0, 1} -> 0 .. Len(handle')]] /\ New \in 0 .. Len(handle')
        BY <1>t, <1>5, <2>0, <3>2
      <4> DEFINE row == [table[acq.path] EXCEPT ![acq.iface] = New]
      <4>a. row \in [{0, 1} -> 0 .. Len(handle')]
        BY <3>2, <4>1
      <4>b. [table EXCEPT ![acq.path][acq.iface] = New] = [table EXCEPT ![acq.path] = row]
        OBVIOUS
      <4> HIDE DEF row
      <4> QED
        BY <3>2, <3>3, <4>1, <4>a, <4>b
  <2>4. CASE UNCHANGED table
    BY <1>t, <1>5, <2>0, <2>4
  <2> HIDE DEF TableType
  <2> QED
    BY <2>1, <2>2, <2>3, <2>4, Actions, ClosingEffect, <1>0
       DEF vars, deviceVars, Plug, Unplug, OtherClaims, Stolen, Prepare, ListDevices, Open,
           ResetDevice, Detach
<1>7. acq' \in AcqRec
  <2>1. CASE Stolen \/ Prepare \/ ListDevices \/ ResetDevice
    BY <1>0, <2>1, AcquireMoves
  <2>2. CASE Open
    BY <1>0, <2>2, OpenEffect
  <2>3. CASE Detach
    <3>1. acq' \in AcqRec \/ (acq.pc = "detach" /\ NextCandidate)
      BY <1>0, <2>3, DetachEffect
    <3> QED
      BY <1>0, <3>1, AcquireMoves
  <2>4. CASE Claim
    <3>1. acq' \in AcqRec \/ NextCandidate
      BY <1>0, <2>4, ClaimEffect
    <3> QED
      BY <1>0, <3>1, AcquireMoves
  <2>5. ASSUME NEW p \in Paths, NEW i \in Interfaces, Acquire(p, i) PROVE acq' \in AcqRec
    <3>1. NoAcquire \in AcqRec
      BY IdleEffect
    <3>2. table[p][i] \in 0 .. MaxHandles
      BY <1>0, <1>i, <1>t, TableFacts DEF BusAssumption
    <3> HIDE DEF NoAcquire
    <3> QED
      BY <1>i, <2>5, <3>1, <3>2, ZenonT(60) DEF Acquire, AcqRec
  <2>6. CASE UNCHANGED acq
    BY <1>t, <2>6
  <2> QED
    BY <2>1, <2>2, <2>3, <2>4, <2>5, <2>6, Actions, ClosingEffect, <1>0
       DEF vars, deviceVars, Plug, Unplug, OtherClaims, Enumerate, Release
<1> QED
  BY <1>1, <1>2, <1>3, <1>4, <1>5, <1>6, <1>7 DEF TypeOK, HandleRec, AcqRec

-----------------------------------------------------------------------------
(* A step makes a handle, makes a session, or only ends some.              *)

Opening ==
  /\ acq.pc = "open" /\ acq'.pc = "reset"
  /\ SameRequest /\ acq'.reset = acq.reset /\ acq'.left = acq.left
  /\ UNCHANGED <<attached, driver, claim, shown, table>>
  /\ Candidate \in attached /\ Foremost(acq.left) \in acq.left
  /\ handle' \in Seq(HandleRec) /\ Len(handle') = Len(handle) + 1
  /\ handle'[Len(handle) + 1] = Opened
  /\ \A k \in DOMAIN handle : handle'[k] = handle[k]

Storing ==
  /\ acq.pc = "claim" /\ acq'.pc = "idle" /\ acq'.left = {}
  /\ UNCHANGED <<attached, driver, shown>>
  /\ ~handle[New].gone /\ claim[NewDev][acq.iface] = 0
  /\ handle' = [handle EXCEPT ![New].state = "open"]
  /\ \A p \in Paths, i \in {0, 1} :
       table'[p][i] = IF p = acq.path /\ i = acq.iface THEN New ELSE table[p][i]
  /\ \A d \in ToSet(Devices), i \in {0, 1} :
       claim'[d][i] = IF d = NewDev /\ i = acq.iface THEN New ELSE claim[d][i]

FieldsKept ==
  /\ Len(handle') = Len(handle) /\ DOMAIN handle' = DOMAIN handle
  /\ \A k \in DOMAIN handle :
       /\ handle'[k].dev = handle[k].dev /\ handle'[k].iface = handle[k].iface
       /\ handle[k].gone => handle'[k].gone

TableLess == \A p \in Paths, i \in {0, 1} : table'[p][i] \in {0, table[p][i]}

NoSession(k) == \A p \in Paths, i \in {0, 1} : table'[p][i] # k

StateMoves ==
  \A k \in DOMAIN handle :
    \/ handle'[k].state = handle[k].state
    \/ /\ handle[k].state = "opening" /\ k = New /\ handle'[k].state = "closed"
       /\ acq.pc \in {"detach", "claim"} /\ acq'.pc = "open"
    \/ /\ handle[k].state = "open" /\ handle'[k].state = "release" /\ NoSession(k)
       /\ \/ Enumerate /\ k \in Lost
          \/ \E p \in Paths, i \in {0, 1} :
               table[p][i] = k /\ (Acquire(p, i) \/ (i \in Interfaces /\ Release(p, i)))
    \/ /\ Closing(k) /\ handle[k].state \in {"release", "attach", "close"}
       /\ handle'[k].state \in {"attach", "close", "closed"}

\* a session that ends gets its handle closed
Ended ==
  \A p \in Paths, i \in {0, 1} :
    table[p][i] # 0 /\ table'[p][i] = 0 => handle'[table[p][i]].state = "release"

Calm == FieldsKept /\ TableLess /\ StateMoves /\ Ended

\* the handle k gets the state s and nothing else happens to handles and sessions
LEMMA CalmMove ==
  ASSUME TypeOK, BusAssumption, NEW k \in DOMAIN handle, NEW s \in States,
         handle' = [handle EXCEPT ![k].state = s], UNCHANGED table,
         \/ /\ handle[k].state = "opening" /\ k = New /\ s = "closed"
            /\ acq.pc \in {"detach", "claim"} /\ acq'.pc = "open"
         \/ /\ Closing(k) /\ handle[k].state \in {"release", "attach", "close"}
            /\ s \in {"attach", "close", "closed"}
  PROVE  Calm
<1>1. Len(handle') = Len(handle) /\ DOMAIN handle' = DOMAIN handle
  BY StateSet
<1>2. handle'[k].state = s
  BY StateSet
<1>3. \A j \in DOMAIN handle : j # k => handle'[j] = handle[j]
  BY StateSet
<1>4. \A j \in DOMAIN handle :
        /\ handle'[j].dev = handle[j].dev /\ handle'[j].iface = handle[j].iface
        /\ handle'[j].gone = handle[j].gone
  BY StateSet
<1>5. FieldsKept
  BY <1>1, <1>4 DEF FieldsKept
<1>6. TableLess /\ Ended
  BY DEF TableLess, Ended
<1>7. StateMoves
  BY <1>2, <1>3 DEF StateMoves
<1> QED
  BY <1>5, <1>6, <1>7 DEF Calm

\* a session ends
LEMMA CalmEnd ==
  ASSUME TypeOK, BusAssumption, OwnHandle, NEW p \in Paths, NEW i \in {0, 1},
         table[p][i] # 0, handle' = Ending(table[p][i]),
         Acquire(p, i) \/ (i \in Interfaces /\ Release(p, i)),
         \A q \in Paths, j \in {0, 1} :
           table'[q][j] = IF q = p /\ j = i THEN 0 ELSE table[q][j]
  PROVE  Calm
<1> DEFINE k == table[p][i]
<1>0. k \in DOMAIN handle /\ handle[k].state = "open"
  BY TableFacts DEF OwnHandle
<1>h. handle' = [handle EXCEPT ![k].state = "release"]
  BY DEF Ending
<1>s. "release" \in States
  BY DEF States
<1> HIDE DEF k
<1>1. Len(handle') = Len(handle) /\ DOMAIN handle' = DOMAIN handle
  BY <1>0, <1>h, <1>s, StateSet
<1>2. handle'[k].state = "release"
  BY <1>0, <1>h, <1>s, StateSet
<1>3. \A j \in DOMAIN handle : j # k => handle'[j] = handle[j]
  BY <1>0, <1>h, <1>s, StateSet
<1>4. \A j \in DOMAIN handle :
        /\ handle'[j].dev = handle[j].dev /\ handle'[j].iface = handle[j].iface
        /\ handle'[j].gone = handle[j].gone
  BY <1>0, <1>h, <1>s, StateSet
<1>5. FieldsKept
  BY <1>1, <1>4 DEF FieldsKept
<1>6. TableLess
  BY DEF TableLess
<1>7. NoSession(k)
  <2>1. k # 0
    BY DEF k
  <2>2. ASSUME NEW q \in Paths, NEW j \in {0, 1}, table[q][j] = k PROVE q = p /\ j = i
    BY <2>1, <2>2 DEF OwnHandle, k
  <2> QED
    BY <2>1, <2>2 DEF NoSession
<1>8. StateMoves
  <2>1. table[p][i] = k
    BY DEF k
  <2> QED
    BY <1>0, <1>2, <1>3, <1>7, <2>1 DEF StateMoves
<1>9. Ended
  BY <1>2 DEF Ended, k
<1> QED
  BY <1>5, <1>6, <1>8, <1>9 DEF Calm

LEMMA CalmStep ==
  ASSUME BusAssumption, IInv, [Next]_vars
  PROVE  Opening \/ Storing \/ Calm
<1>0. TypeOK /\ NewHandle /\ OwnHandle
  BY DEF IInv
<1>i. \A i \in Interfaces : i \in {0, 1}
  BY DEF BusAssumption
<1>1. ASSUME UNCHANGED <<handle, table>> PROVE Calm
  <2>1. FieldsKept
    BY <1>1 DEF FieldsKept
  <2>2. TableLess /\ StateMoves /\ Ended
    BY <1>1 DEF TableLess, StateMoves, Ended
  <2> QED
    BY <2>1, <2>2 DEF Calm
<1>2. ASSUME NEW d \in ToSet(Devices), Unplug(d) PROVE Calm
  <2>1. UNCHANGED table
    BY <1>2 DEF Unplug
  <2>2. Len(handle') = Len(handle) /\ DOMAIN handle' = DOMAIN handle
    BY <1>0, <1>2, UnplugEffect
  <2>3. \A k \in DOMAIN handle :
          /\ handle'[k].dev = handle[k].dev /\ handle'[k].iface = handle[k].iface
          /\ handle'[k].state = handle[k].state
          /\ handle[k].gone => handle'[k].gone
    BY <1>0, <1>2, UnplugEffect
  <2>4. FieldsKept
    BY <2>2, <2>3 DEF FieldsKept
  <2>5. TableLess /\ StateMoves /\ Ended
    BY <2>1, <2>3 DEF TableLess, StateMoves, Ended
  <2> QED
    BY <2>4, <2>5 DEF Calm
<1>3. ASSUME Enumerate PROVE Calm
  <2>1. Len(handle') = Len(handle) /\ DOMAIN handle' = DOMAIN handle
    BY <1>0, <1>3, EnumerateEffect
  <2>2. \A k \in DOMAIN handle :
          /\ handle'[k].dev = handle[k].dev /\ handle'[k].iface = handle[k].iface
          /\ handle'[k].gone = handle[k].gone
          /\ handle'[k].state = IF k \in Lost THEN "release" ELSE handle[k].state
    BY <1>0, <1>3, EnumerateEffect
  <2>3. \A p \in Paths, i \in {0, 1} :
          table'[p][i] = IF Matching(p) = {} THEN 0 ELSE table[p][i]
    BY <1>0, <1>3, EnumerateEffect
  <2>4. FieldsKept
    BY <2>1, <2>2 DEF FieldsKept
  <2>5. TableLess
    BY <2>3 DEF TableLess
  <2>6. ASSUME NEW k \in Lost PROVE k \in DOMAIN handle /\ handle[k].state = "open" /\ NoSession(k)
    <3>1. PICK p \in Paths, i \in {0, 1} : Matching(p) = {} /\ table[p][i] = k
      BY DEF Lost
    <3>2. k \in DOMAIN handle /\ k # 0
      BY <1>0, TableFacts DEF Lost
    <3>3. handle[k].state = "open" /\ handle[k].iface = i /\ PortsOf(handle[k].dev) = p
      BY <1>0, <3>1, <3>2 DEF OwnHandle
    <3>4. ASSUME NEW q \in Paths, NEW j \in {0, 1}, table[q][j] = k PROVE q = p /\ j = i
      BY <1>0, <3>2, <3>3, <3>4 DEF OwnHandle
    <3> QED
      BY <2>3, <3>1, <3>2, <3>3, <3>4 DEF NoSession
  <2>7. StateMoves
    BY <1>3, <2>2, <2>6 DEF StateMoves
  <2>8. ASSUME NEW p \in Paths, NEW i \in {0, 1}, table[p][i] # 0, table'[p][i] = 0
        PROVE  handle'[table[p][i]].state = "release"
    <3>1. table[p][i] \in DOMAIN handle
      BY <1>0, <2>8, TableFacts
    <3>2. table[p][i] \in Lost
      BY <2>3, <2>8, <3>1 DEF Lost
    <3> QED
      BY <2>2, <3>1, <3>2
  <2> QED
    BY <2>4, <2>5, <2>7, <2>8 DEF Calm, Ended
<1>4. ASSUME NEW p \in Paths, NEW i \in Interfaces, Acquire(p, i) PROVE Calm
  <2>1. i \in {0, 1}
    BY <1>i
  <2>2. \/ /\ table[p][i] # 0 /\ handle' = Ending(table[p][i])
           /\ \A q \in Paths, j \in {0, 1} :
                table'[q][j] = IF q = p /\ j = i THEN 0 ELSE table[q][j]
        \/ UNCHANGED <<table, handle>>
    BY <1>0, <1>4, <2>1, AcquireEffect
  <2> QED
    BY <1>0, <1>1, <1>4, <2>1, <2>2, CalmEnd
<1>5. ASSUME NEW p \in Paths, NEW i \in Interfaces, Release(p, i) PROVE Calm
  <2>1. i \in {0, 1}
    BY <1>i
  <2>2. /\ table[p][i] # 0 /\ handle' = Ending(table[p][i])
        /\ table' = [table EXCEPT ![p][i] = 0]
    BY <1>5 DEF Release
  <2>3. \A q \in Paths, j \in {0, 1} :
          table'[q][j] = IF q = p /\ j = i THEN 0 ELSE table[q][j]
    BY <1>0, <2>1, <2>2 DEF TypeOK
  <2> QED
    BY <1>0, <1>5, <2>1, <2>2, <2>3, CalmEnd
<1>6. ASSUME NEW h \in DOMAIN handle, Closing(h) PROVE Calm
  <2>1. UNCHANGED table /\ handle[h].state \in {"release", "attach", "close"}
    BY <1>0, <1>6, ClosingEffect
  <2>2. \E s \in {"attach", "close", "closed"} : handle' = [handle EXCEPT ![h].state = s]
    BY <1>0, <1>6, ClosingEffect
  <2> QED
    BY <1>0, <1>6, <2>1, <2>2, CalmMove DEF States
<1>7. ASSUME NextCandidate, acq.pc \in {"detach", "claim"}, UNCHANGED table PROVE Calm
  <2>1. New \in DOMAIN handle /\ handle' = [handle EXCEPT ![New].state = "closed"]
    BY <1>0, <1>7, NextEffect
  <2>2. acq'.pc = "open"
    BY <1>0, <1>7, NextEffect
  <2>3. handle[New].state = "opening"
    BY <1>0, <1>7, NewFacts
  <2> QED
    BY <1>0, <1>7, <2>1, <2>2, <2>3, CalmMove DEF States
<1>8. ASSUME Detach PROVE Calm
  <2>1. acq.pc = "detach" /\ UNCHANGED table
    BY <1>8 DEF Detach
  <2>2. CASE NextCandidate
    BY <1>7, <2>1, <2>2
  <2>3. CASE ~handle[New].gone
    <3>1. Len(handle') = Len(handle) /\ DOMAIN handle' = DOMAIN handle
      BY <1>0, <1>8, <2>3, DetachEffect
    <3>2. \A k \in DOMAIN handle :
            /\ handle'[k].dev = handle[k].dev /\ handle'[k].iface = handle[k].iface
            /\ handle'[k].state = handle[k].state /\ handle'[k].gone = handle[k].gone
      BY <1>0, <1>8, <2>3, DetachEffect
    <3>3. FieldsKept
      BY <3>1, <3>2 DEF FieldsKept
    <3>4. TableLess /\ StateMoves /\ Ended
      BY <2>1, <3>2 DEF TableLess, StateMoves, Ended
    <3> QED
      BY <3>3, <3>4 DEF Calm
  <2> QED
    BY <1>0, <1>8, <2>2, <2>3, DetachEffect
<1>9. ASSUME Claim PROVE Storing \/ Calm
  <2>1. acq.pc = "claim" /\ UNCHANGED <<attached, driver, shown>>
    BY <1>9 DEF Claim
  <2>2. CASE NextCandidate /\ UNCHANGED table
    BY <1>7, <2>1, <2>2
  <2>3. CASE ~(NextCandidate /\ UNCHANGED table)
    <3>1. /\ ~handle[New].gone /\ claim[NewDev][acq.iface] = 0
          /\ handle' = [handle EXCEPT ![New].state = "open"]
          /\ acq'.pc = "idle" /\ acq'.left = {}
      BY <1>0, <1>9, <2>3, ClaimEffect
    <3>2. \A p \in Paths, i \in {0, 1} :
            table'[p][i] = IF p = acq.path /\ i = acq.iface THEN New ELSE table[p][i]
      BY <1>0, <1>9, <2>3, ClaimEffect
    <3>3. \A d \in ToSet(Devices), i \in {0, 1} :
            claim'[d][i] = IF d = NewDev /\ i = acq.iface THEN New ELSE claim[d][i]
      BY <1>0, <1>9, <2>3, ClaimEffect
    <3> QED
      BY <2>1, <3>1, <3>2, <3>3 DEF Storing
  <2> QED
    BY <2>2, <2>3
<1>10. ASSUME Open PROVE Opening \/ Calm
  <2>1. acq.pc = "open" /\ UNCHANGED <<attached, driver, claim, shown, table>>
    BY <1>0, <1>10, OpenEffect
  <2>2. CASE UNCHANGED handle
    BY <1>1, <2>1, <2>2
  <2>3. CASE ~ UNCHANGED handle
    <3>1. /\ SameRequest /\ acq'.reset = acq.reset /\ acq'.pc = "reset"
          /\ acq'.left = acq.left
          /\ Candidate \in attached /\ Foremost(acq.left) \in acq.left
          /\ handle' \in Seq(HandleRec) /\ Len(handle') = Len(handle) + 1
          /\ handle'[Len(handle) + 1] = Opened
      BY <1>0, <1>10, <2>3, OpenEffect
    <3>2. \A k \in DOMAIN handle : handle'[k] = handle[k]
      BY <1>0, <1>10, <2>3, OpenEffect
    <3> QED
      BY <2>1, <3>1, <3>2 DEF Opening
  <2> QED
    BY <2>2, <2>3
<1>11. \/ UNCHANGED vars \/ \E d \in ToSet(Devices) : Plug(d)
       \/ \E d \in ToSet(Devices), i \in {0, 1} : OtherClaims(d, i)
       \/ Stolen \/ Prepare \/ ListDevices \/ ResetDevice
       => UNCHANGED <<handle, table>>
  BY DEF vars, Plug, OtherClaims, Stolen, Prepare, ListDevices, ResetDevice
<1>12. (\E d \in ToSet(Devices) : Unplug(d)) \/ (\E h \in DOMAIN handle : Closing(h)) => Calm
  BY <1>2, <1>6
<1>13. (\E p \in Paths, i \in Interfaces : Acquire(p, i) \/ Release(p, i)) => Calm
  BY <1>4, <1>5
<1> QED
  BY <1>1, <1>3, <1>8, <1>9, <1>10, <1>11, <1>12, <1>13, Actions

\* what a step makes of the acquire in progress
Asked ==
  /\ acq.pc = "idle" /\ acq'.pc \in {"steal", "prepare"}
  /\ acq'.left = {} /\ acq'.path \in Paths /\ acq'.iface \in {0, 1}
  /\ table'[acq'.path][acq'.iface] = 0

GoesOn ==
  /\ SameRequest /\ acq.pc # "idle"
  /\ acq'.left = {} \/ acq'.left \subseteq acq.left \/ acq'.left = Matching(acq.path)
  /\ \/ acq'.pc = "prepare"
     \/ acq'.reset <=> table[acq.path][1 - acq.iface] = 0
     \/ acq.pc \in {"list", "open", "reset", "detach", "claim"} /\ acq'.reset = acq.reset
  /\ acq'.pc \in {"reset", "detach", "claim"} => acq.pc \in {"reset", "detach", "claim"}
  /\ acq.pc \in {"reset", "detach", "claim"} =>
       \/ acq'.pc \in {"reset", "detach", "claim"} /\ Len(handle') = Len(handle)
       \/ New \in DOMAIN handle /\ handle' = [handle EXCEPT ![New].state = "closed"]

LEMMA RequestMoves ==
  ASSUME BusAssumption, IInv, [Next]_vars
  PROVE  \/ UNCHANGED acq
         \/ acq.pc = "open" /\ acq'.pc = "idle" /\ acq'.left = {} /\ UNCHANGED handle
         \/ Opening
         \/ Storing
         \/ Asked
         \/ GoesOn
<1>0. TypeOK /\ NewHandle
  BY DEF IInv
<1>i. \A i \in Interfaces : i \in {0, 1}
  BY DEF BusAssumption
<1>1. ASSUME NEW p \in Paths, NEW i \in Interfaces, Acquire(p, i) PROVE Asked
  <2>1. i \in {0, 1}
    BY <1>i
  <2>2. /\ acq.pc = "idle" /\ acq'.path = p /\ acq'.iface = i /\ acq'.left = {}
        /\ acq'.pc \in {"steal", "prepare"}
    BY <1>0, <1>1, <2>1, AcquireEffect
  <2>3. table'[p][i] = 0
    BY <1>0, <1>1, <2>1, AcquireEffect
  <2> QED
    BY <2>1, <2>2, <2>3 DEF Asked
<1>2. ASSUME Stolen PROVE GoesOn
  <2>1. acq.pc = "steal"
    BY <1>2 DEF Stolen
  <2>2. SameRequest /\ acq'.pc = "prepare" /\ acq'.left = acq.left
    BY <1>0, <1>2, AcquireMoves
  <2> QED
    BY <2>1, <2>2 DEF GoesOn
<1>3. ASSUME Prepare PROVE GoesOn
  <2>1. acq.pc = "prepare"
    BY <1>3 DEF Prepare
  <2>2. SameRequest /\ acq'.left = acq.left /\ acq'.pc = "list"
    BY <1>0, <1>3, AcquireMoves
  <2>3. acq'.reset <=> table[acq.path][1 - acq.iface] = 0
    BY <1>0, <1>3, AcquireMoves
  <2> QED
    BY <2>1, <2>2, <2>3 DEF GoesOn
<1>4. ASSUME ListDevices PROVE GoesOn
  <2>1. acq.pc = "list"
    BY <1>4 DEF ListDevices
  <2>2. /\ SameRequest /\ acq'.left = Matching(acq.path) /\ acq'.reset = acq.reset
        /\ acq'.pc = "open"
    BY <1>0, <1>4, AcquireMoves
  <2> QED
    BY <2>1, <2>2 DEF GoesOn
<1>5. ASSUME ResetDevice PROVE GoesOn
  <2>1. acq.pc = "reset" /\ UNCHANGED handle
    BY <1>5 DEF ResetDevice
  <2>2. /\ SameRequest /\ acq'.left = acq.left /\ acq'.reset = acq.reset
        /\ acq'.pc = "detach"
    BY <1>0, <1>5, AcquireMoves
  <2> QED
    BY <2>1, <2>2 DEF GoesOn
<1>6. ASSUME Open
      PROVE  \/ GoesOn \/ Opening
             \/ acq.pc = "open" /\ acq'.pc = "idle" /\ acq'.left = {} /\ UNCHANGED handle
  <2>1. acq.pc = "open" /\ UNCHANGED <<attached, driver, claim, shown, table>>
    BY <1>0, <1>6, OpenEffect
  <2>2. CASE UNCHANGED handle
    <3>1. \/ acq'.pc = "idle" /\ acq'.left = {}
          \/ /\ SameRequest /\ acq'.reset = acq.reset /\ acq'.pc \in {"list", "open"}
             /\ acq'.left = {} \/ acq'.left \subseteq acq.left
          \/ Len(handle') = Len(handle) + 1
      BY <1>0, <1>6, OpenEffect
    <3>2. Len(handle) \in Nat
      BY <1>0, HandleFacts
    <3> QED
      BY <2>1, <2>2, <3>1, <3>2 DEF GoesOn
  <2>3. CASE ~ UNCHANGED handle
    <3>1. /\ SameRequest /\ acq'.reset = acq.reset /\ acq'.pc = "reset"
          /\ acq'.left = acq.left
          /\ Candidate \in attached /\ Foremost(acq.left) \in acq.left
          /\ handle' \in Seq(HandleRec) /\ Len(handle') = Len(handle) + 1
          /\ handle'[Len(handle) + 1] = Opened
      BY <1>0, <1>6, <2>3, OpenEffect
    <3>2. \A k \in DOMAIN handle : handle'[k] = handle[k]
      BY <1>0, <1>6, <2>3, OpenEffect
    <3> QED
      BY <2>1, <3>1, <3>2 DEF Opening
  <2> QED
    BY <2>2, <2>3
<1>7. ASSUME NextCandidate, acq.pc \in {"detach", "claim"} PROVE GoesOn
  <2>1. New \in DOMAIN handle /\ handle' = [handle EXCEPT ![New].state = "closed"]
    BY <1>0, <1>7, NextEffect
  <2>2. SameRequest /\ acq'.reset = acq.reset /\ acq'.left \subseteq acq.left
    BY <1>0, <1>7, NextEffect
  <2> QED
    BY <1>7, <2>1, <2>2 DEF GoesOn
<1>8. ASSUME Detach PROVE GoesOn
  <2>1. acq.pc = "detach"
    BY <1>8 DEF Detach
  <2>2. \/ NextCandidate
        \/ /\ SameRequest /\ acq'.pc = "claim" /\ acq'.left = acq.left
           /\ acq'.reset = acq.reset /\ Len(handle') = Len(handle)
    BY <1>0, <1>8, DetachEffect
  <2>3. CASE NextCandidate
    BY <1>7, <2>1, <2>3
  <2>4. CASE /\ SameRequest /\ acq'.pc = "claim" /\ acq'.left = acq.left
             /\ acq'.reset = acq.reset /\ Len(handle') = Len(handle)
    BY <2>1, <2>4 DEF GoesOn
  <2> QED
    BY <2>2, <2>3, <2>4
<1>9. ASSUME Claim PROVE Storing \/ GoesOn
  <2>1. acq.pc = "claim" /\ UNCHANGED <<attached, driver, shown>>
    BY <1>9 DEF Claim
  <2>2. CASE NextCandidate
    BY <1>7, <2>1, <2>2
  <2>3. CASE ~NextCandidate
    <3>1. /\ ~handle[New].gone /\ claim[NewDev][acq.iface] = 0
          /\ handle' = [handle EXCEPT ![New].state = "open"]
          /\ acq'.pc = "idle" /\ acq'.left = {}
      BY <1>0, <1>9, <2>3, ClaimEffect
    <3>2. \A p \in Paths, i \in {0, 1} :
            table'[p][i] = IF p = acq.path /\ i = acq.iface THEN New ELSE table[p][i]
      BY <1>0, <1>9, <2>3, ClaimEffect
    <3>3. \A d \in ToSet(Devices), i \in {0, 1} :
            claim'[d][i] = IF d = NewDev /\ i = acq.iface THEN New ELSE claim[d][i]
      BY <1>0, <1>9, <2>3, ClaimEffect
    <3> QED
      BY <2>1, <3>1, <3>2, <3>3 DEF Storing
  <2> QED
    BY <2>2, <2>3
<1>10. \/ UNCHANGED vars \/ (\E d \in ToSet(Devices) : Plug(d))
       \/ (\E d \in ToSet(Devices) : Unplug(d))
       \/ (\E d \in ToSet(Devices), i \in {0, 1} : OtherClaims(d, i))
       \/ Enumerate \/ (\E p \in Paths, i \in Interfaces : Release(p, i))
       \/ (\E h \in DOMAIN handle : Closing(h))
       => UNCHANGED acq
  BY <1>0, ClosingEffect DEF vars, Plug, Unplug, OtherClaims, Enumerate, Release
<1>11. (\E p \in Paths, i \in Interfaces : Acquire(p, i)) => Asked
  BY <1>1
<1> HIDE DEF Asked, GoesOn, Storing, Opening
<1> QED
  BY <1>2, <1>3, <1>4, <1>5, <1>6, <1>8, <1>9, <1>10, <1>11, Actions

LEMMA OwnStep ==
  ASSUME BusAssumption, IInv, [Next]_vars
  PROVE  OwnHandle'
<1>0. TypeOK /\ NewHandle /\ OwnHandle
  BY DEF IInv
<1> SUFFICES ASSUME NEW p \in Paths, NEW i \in {0, 1}, table'[p][i] # 0
             PROVE  /\ handle'[table'[p][i]].state = "open"
                    /\ handle'[table'[p][i]].iface = i
                    /\ PortsOf(handle'[table'[p][i]].dev) = p
  BY DEF OwnHandle
<1>1. table[p][i] # 0 =>
        /\ table[p][i] \in DOMAIN handle
        /\ handle[table[p][i]].state = "open" /\ handle[table[p][i]].iface = i
        /\ PortsOf(handle[table[p][i]].dev) = p
  BY <1>0, TableFacts DEF OwnHandle
<1>2. CASE Opening
  <2>1. table' = table /\ \A k \in DOMAIN handle : handle'[k] = handle[k]
    BY <1>2 DEF Opening
  <2> QED
    BY <1>1, <2>1
<1>3. CASE Storing
  <2>1. /\ New \in DOMAIN handle /\ handle[New].iface = acq.iface
        /\ PortsOf(NewDev) = acq.path /\ handle[New].state = "opening"
    BY <1>0, <1>3, NewFacts DEF Storing
  <2>2. handle' = [handle EXCEPT ![New].state = "open"]
    BY <1>3 DEF Storing
  <2>3. /\ handle'[New].state = "open"
        /\ \A k \in DOMAIN handle : k # New => handle'[k] = handle[k]
    BY <1>0, <2>1, <2>2, StateSet DEF States
  <2>4. handle'[New].dev = NewDev /\ handle'[New].iface = acq.iface
    BY <1>0, <2>1, <2>2, StateSet DEF States, NewDev
  <2>5. table'[p][i] = IF p = acq.path /\ i = acq.iface THEN New ELSE table[p][i]
    BY <1>3 DEF Storing
  <2>6. CASE p = acq.path /\ i = acq.iface
    BY <2>1, <2>3, <2>4, <2>5, <2>6
  <2>7. CASE ~(p = acq.path /\ i = acq.iface)
    <3>1. table'[p][i] = table[p][i]
      BY <2>5, <2>7
    <3>2. table[p][i] # New
      BY <1>1, <2>1, <3>1
    <3> QED
      BY <1>1, <2>3, <3>1, <3>2
  <2> QED
    BY <2>6, <2>7
<1>4. CASE Calm
  <2>1. table'[p][i] = table[p][i]
    BY <1>4 DEF Calm, TableLess
  <2>2. handle'[table[p][i]].state = "open"
    <3>1. ~NoSession(table[p][i])
      BY <2>1 DEF NoSession
    <3> QED
      BY <1>1, <1>4, <2>1, <3>1 DEF Calm, StateMoves
  <2> QED
    BY <1>1, <1>4, <2>1, <2>2 DEF Calm, FieldsKept
<1> QED
  BY <1>2, <1>3, <1>4, CalmStep

\* only a detach notes that the driver is to be attached again, only an unplug
\* takes the device away from a handle
LEMMA FlagsKept ==
  ASSUME BusAssumption, IInv, [Next]_vars
  PROVE  /\ Detach \/ \A k \in DOMAIN handle : handle'[k].attach = handle[k].attach
         /\ \/ \E d \in ToSet(Devices) : Unplug(d)
            \/ \A k \in DOMAIN handle : handle'[k].gone = handle[k].gone
<1> DEFINE AttachKept == \A k \in DOMAIN handle : handle'[k].attach = handle[k].attach
           GoneKept == \A k \in DOMAIN handle : handle'[k].gone = handle[k].gone
           Kept == AttachKept /\ GoneKept
<1>0. TypeOK /\ NewHandle
  BY DEF IInv
<1>i. \A i \in Interfaces : i \in {0, 1}
  BY DEF BusAssumption
<1>1. ASSUME NEW h \in DOMAIN handle, NEW s \in States,
             handle' = [handle EXCEPT ![h].state = s]
      PROVE  Kept
  BY <1>0, <1>1, StateSet
<1>2. ASSUME NEW d \in ToSet(Devices), Unplug(d) PROVE AttachKept
  BY <1>0, <1>2, UnplugEffect
<1>3. ASSUME Enumerate PROVE Kept
  BY <1>0, <1>3, EnumerateEffect
<1>4. ASSUME UNCHANGED handle PROVE Kept
  BY <1>4
<1>5. ASSUME Open PROVE Kept
  <2>1. UNCHANGED handle \/ \A k \in DOMAIN handle : handle'[k] = handle[k]
    BY <1>0, <1>5, OpenEffect
  <2> QED
    BY <2>1
<1>6. ASSUME Claim PROVE Kept
  <2>1. acq.pc = "claim"
    BY <1>6 DEF Claim
  <2>2. \/ NextCandidate \/ handle' = [handle EXCEPT ![New].state = "open"]
    BY <1>0, <1>6, ClaimEffect
  <2>3. NextCandidate => handle' = [handle EXCEPT ![New].state = "closed"]
    BY <1>0, <2>1, NextEffect
  <2>4. New \in DOMAIN handle
    BY <1>0, <2>1, NewFacts
  <2> HIDE DEF Kept
  <2> QED
    BY <1>1, <2>2, <2>3, <2>4 DEF States
<1>7. ASSUME NEW h \in DOMAIN handle, Closing(h) PROVE Kept
  <2>1. \E s \in {"attach", "close", "closed"} : handle' = [handle EXCEPT ![h].state = s]
    BY <1>0, <1>7, ClosingEffect
  <2> HIDE DEF Kept
  <2> QED
    BY <1>1, <2>1 DEF States
<1>8. ASSUME NEW p \in Paths, NEW i \in Interfaces, Release(p, i) PROVE Kept
  <2>1. table[p][i] \in DOMAIN handle
    BY <1>0, <1>i, <1>8, TableFacts DEF Release
  <2>2. handle' = [handle EXCEPT ![table[p][i]].state = "release"]
    BY <1>8 DEF Release, Ending
  <2> HIDE DEF Kept
  <2> QED
    BY <1>1, <2>1, <2>2 DEF States
<1>9. ASSUME NEW p \in Paths, NEW i \in Interfaces, Acquire(p, i) PROVE Kept
  <2>1. i \in {0, 1}
    BY <1>i
  <2>2. \/ table[p][i] \in DOMAIN handle /\ handle' = Ending(table[p][i])
        \/ UNCHANGED handle
    BY <1>0, <1>9, <2>1, AcquireEffect
  <2>3. CASE handle' = Ending(table[p][i]) /\ table[p][i] \in DOMAIN handle
    <3> HIDE DEF Kept
    <3> QED
      BY <1>1, <2>3 DEF States, Ending
  <2> QED
    BY <1>4, <2>2, <2>3
<1>10. \/ UNCHANGED vars \/ (\E d \in ToSet(Devices) : Plug(d))
       \/ (\E d \in ToSet(Devices), i \in {0, 1} : OtherClaims(d, i))
       \/ Stolen \/ Prepare \/ ListDevices \/ ResetDevice
       => UNCHANGED handle
  BY DEF vars, Plug, OtherClaims, Stolen, Prepare, ListDevices, ResetDevice
<1>11. /\ (\E d \in ToSet(Devices) : Unplug(d)) => AttachKept
       /\ (\E h \in DOMAIN handle : Closing(h)) => Kept
  BY <1>2, <1>7
<1>12. (\E p \in Paths, i \in Interfaces : Acquire(p, i) \/ Release(p, i)) => Kept
  BY <1>8, <1>9
<1>13. Detach => GoneKept
  <2> SUFFICES ASSUME Detach PROVE GoneKept
    OBVIOUS
  <2>1. acq.pc = "detach"
    BY DEF Detach
  <2>2. NextCandidate \/ GoneKept
    BY <1>0, DetachEffect
  <2>3. ASSUME NextCandidate PROVE Kept
    <3>1. New \in DOMAIN handle /\ handle' = [handle EXCEPT ![New].state = "closed"]
      BY <1>0, <2>1, <2>3, NextEffect
    <3> HIDE DEF Kept
    <3> QED
      BY <1>1, <3>1 DEF States
  <2> HIDE DEF GoneKept
  <2> QED
    BY <2>2, <2>3
<1> HIDE DEF AttachKept, GoneKept
<1>14. Detach \/ AttachKept
  BY <1>3, <1>4, <1>5, <1>6, <1>10, <1>11, <1>12, Actions
<1>15. (\E d \in ToSet(Devices) : Unplug(d)) \/ GoneKept
  BY <1>3, <1>4, <1>5, <1>6, <1>10, <1>11, <1>12, <1>13, Actions
<1> QED
  BY <1>14, <1>15 DEF AttachKept, GoneKept

LEMMA AcquiringStep ==
  ASSUME BusAssumption, IInv, [Next]_vars
  PROVE  Acquiring'
<1>0. TypeOK /\ Acquiring
  BY DEF IInv
<1>1. acq.path \in Paths /\ acq.iface \in {0, 1} /\ 1 - acq.iface \in {0, 1}
  BY <1>0, TableFacts
<1>2. Storing \/ \A p \in Paths, i \in {0, 1} : table[p][i] = 0 => table'[p][i] = 0
  BY CalmStep DEF Opening, Calm, TableLess
<1>3. CASE UNCHANGED acq
  <2>1. ~Storing
    BY <1>3 DEF Storing
  <2> QED
    BY <1>0, <1>1, <1>2, <1>3, <2>1 DEF Acquiring
<1>4. CASE acq'.pc = "idle" /\ acq'.left = {}
  BY <1>4 DEF Acquiring
<1>5. CASE Opening
  BY <1>0, <1>5 DEF Acquiring, Opening, SameRequest
<1>6. CASE Asked
  BY <1>6 DEF Acquiring, Asked
<1>7. CASE GoesOn
  <2>1. CASE Storing
    BY <1>4, <2>1 DEF Storing
  <2>2. CASE ~Storing
    <3>1. table'[acq.path][acq.iface] = 0
      BY <1>0, <1>1, <1>2, <1>7, <2>2 DEF Acquiring, GoesOn
    <3>2. acq'.pc \in {"list", "open", "reset", "detach", "claim"} /\ acq'.reset =>
            table'[acq.path][1 - acq.iface] = 0
      BY <1>0, <1>1, <1>2, <1>7, <2>2 DEF Acquiring, GoesOn
    <3>3. \A n \in acq'.left : PortsOf(Devices[n]) = acq.path
      BY <1>0, <1>7 DEF Acquiring, GoesOn, Matching
    <3> QED
      BY <1>7, <3>1, <3>2, <3>3 DEF Acquiring, GoesOn, SameRequest
  <2> QED
    BY <2>1, <2>2
<1> QED
  BY <1>3, <1>4, <1>5, <1>6, <1>7, RequestMoves DEF Storing

LEMMA NewStep ==
  ASSUME BusAssumption, IInv, [Next]_vars
  PROVE  NewHandle'
<1>0. TypeOK /\ NewHandle /\ Acquiring
  BY DEF IInv
<1> SUFFICES ASSUME acq'.pc \in {"reset", "detach", "claim"}
             PROVE  /\ New' # 0
                    /\ handle'[New'].state = "opening" /\ handle'[New'].iface = acq'.iface
                    /\ PortsOf(handle'[New'].dev) = acq'.path
                    /\ acq'.pc # "claim" => ~handle'[New'].attach
  BY DEF NewHandle, NewDev
<1>1. CASE Opening
  <2>1. New' = Len(handle) + 1 /\ Len(handle) \in Nat
    BY <1>0, <1>1, HandleFacts DEF Opening, New
  <2>2. handle'[New'] = Opened
    BY <1>1, <2>1 DEF Opening
  <2>3. acq'.path = acq.path /\ acq'.iface = acq.iface
    BY <1>1 DEF Opening, SameRequest
  <2>4. PortsOf(Candidate) = acq.path
    BY <1>0, <1>1 DEF Opening, Acquiring, Candidate
  <2> QED
    BY <2>1, <2>2, <2>3, <2>4 DEF Opened
<1>2. CASE ~Opening
  <2>1. ~Storing
    BY DEF Storing
  <2>2. /\ acq.pc \in {"reset", "detach", "claim"}
        /\ acq'.path = acq.path /\ acq'.iface = acq.iface
    BY <1>2, <2>1, RequestMoves DEF Asked, GoesOn, SameRequest
  <2>3. Calm
    BY <1>2, <2>1, CalmStep
  <2>4. New' = New
    BY <2>3 DEF Calm, FieldsKept, New
  <2>5. /\ New \in DOMAIN handle /\ New # 0 /\ handle[New].iface = acq.iface
        /\ PortsOf(handle[New].dev) = acq.path /\ handle[New].state = "opening"
    BY <1>0, <2>2, NewFacts DEF NewHandle, NewDev
  <2>6. handle'[New].state = "opening"
    BY <2>3, <2>5 DEF Calm, StateMoves
  <2>7. acq'.pc # "claim" => ~handle'[New].attach
    <3> SUFFICES ASSUME acq'.pc # "claim" PROVE ~handle'[New].attach
      OBVIOUS
    <3>1. CASE Detach
      <4>1. acq.pc = "detach" /\ NextCandidate
        BY <1>0, <3>1, DetachEffect
      <4>2. acq'.pc = "open"
        BY <1>0, <4>1, NextEffect
      <4> QED
        BY <4>2
    <3>2. CASE ~Detach
      <4>1. handle'[New].attach = handle[New].attach
        BY <2>5, <3>2, FlagsKept
      <4>2. acq.pc # "claim"
        <5> SUFFICES ASSUME acq.pc = "claim" PROVE FALSE
          OBVIOUS
        <5>1. Claim \/ UNCHANGED acq
          BY <1>0, Actions, ClosingEffect
             DEF vars, Plug, Unplug, OtherClaims, Enumerate, Acquire, Release, Stolen, Prepare,
                 ListDevices, Open, ResetDevice, Detach
        <5>2. CASE Claim
          <6>1. acq'.pc = "idle" \/ NextCandidate
            BY <1>0, <5>2, ClaimEffect
          <6> QED
            BY <1>0, <6>1, NextEffect
        <5> QED
          BY <5>1, <5>2
      <4> QED
        BY <1>0, <2>2, <4>1, <4>2 DEF NewHandle
    <3> QED
      BY <3>1, <3>2
  <2>8. handle'[New].dev = handle[New].dev /\ handle'[New].iface = handle[New].iface
    BY <2>3, <2>5 DEF Calm, FieldsKept
  <2> QED
    BY <2>2, <2>4, <2>5, <2>6, <2>7, <2>8
<1> QED
  BY <1>1, <1>2

LEMMA LeftStep ==
  ASSUME BusAssumption, IInv, [Next]_vars
  PROVE  NoHandleLeft'
<1>0. TypeOK /\ NewHandle /\ Acquiring /\ OwnHandle /\ NoHandleLeft
  BY DEF IInv
<1> SUFFICES ASSUME NEW k \in DOMAIN handle'
             PROVE  /\ handle'[k].state = "open" =>
                         \E p \in Paths, i \in {0, 1} : table'[p][i] = k
                    /\ handle'[k].state = "opening" =>
                         k = New' /\ acq'.pc \in {"reset", "detach", "claim"}
  BY DEF NoHandleLeft, Session
<1>h. Len(handle) \in Nat /\ DOMAIN handle = 1 .. Len(handle)
  BY <1>0, HandleFacts
<1>a. acq.path \in Paths /\ acq.iface \in {0, 1}
  BY <1>0, TableFacts
<1>1. CASE Opening
  <2>1. handle' \in Seq(HandleRec) /\ Len(handle') = Len(handle) + 1
    BY <1>1 DEF Opening
  <2>2. k \in DOMAIN handle \/ k = Len(handle) + 1
    BY <1>h, <2>1, LenProperties
  <2>3. CASE k = Len(handle) + 1
    <3>1. k = New' /\ acq'.pc = "reset" /\ handle'[k] = Opened
      BY <1>1, <2>1, <2>3 DEF Opening, New
    <3> QED
      BY <3>1 DEF Opened
  <2>4. CASE k \in DOMAIN handle
    <3>1. handle'[k] = handle[k] /\ table' = table /\ acq.pc = "open"
      BY <1>1, <2>4 DEF Opening
    <3> QED
      BY <1>0, <2>4, <3>1 DEF NoHandleLeft, Session
  <2> QED
    BY <2>2, <2>3, <2>4
<1>2. CASE Storing
  <2>1. New \in DOMAIN handle /\ handle[New].state = "opening" /\ acq.pc = "claim"
    BY <1>0, <1>2, NewFacts DEF Storing
  <2>2. handle' = [handle EXCEPT ![New].state = "open"]
    BY <1>2 DEF Storing
  <2>3. DOMAIN handle' = DOMAIN handle
    BY <1>0, <2>1, <2>2, StateSet DEF States
  <2>4. /\ handle'[New].state = "open"
        /\ \A j \in DOMAIN handle : j # New => handle'[j] = handle[j]
    BY <1>0, <2>1, <2>2, StateSet DEF States
  <2>5. \A p \in Paths, i \in {0, 1} :
          table'[p][i] = IF p = acq.path /\ i = acq.iface THEN New ELSE table[p][i]
    BY <1>2 DEF Storing
  <2>6. CASE k = New
    BY <1>a, <2>4, <2>5, <2>6
  <2>7. CASE k # New
    <3>1. handle'[k] = handle[k] /\ k \in DOMAIN handle /\ k # 0
      BY <1>h, <2>3, <2>4, <2>7
    <3>2. handle[k].state # "opening"
      BY <1>0, <2>7, <3>1 DEF NoHandleLeft
    <3>3. ASSUME handle[k].state = "open"
          PROVE  \E p \in Paths, i \in {0, 1} : table'[p][i] = k
      <4>1. PICK p \in Paths, i \in {0, 1} : table[p][i] = k
        BY <1>0, <3>1, <3>3 DEF NoHandleLeft, Session
      <4>2. table[acq.path][acq.iface] = 0
        BY <1>0, <2>1 DEF Acquiring
      <4>3. table'[p][i] = k
        BY <2>5, <3>1, <4>1, <4>2
      <4> QED
        BY <4>3
    <3> QED
      BY <3>1, <3>2, <3>3
  <2> QED
    BY <2>6, <2>7
<1>3. CASE Calm /\ ~Opening /\ ~Storing
  <2>1. k \in DOMAIN handle /\ Len(handle') = Len(handle)
    BY <1>3 DEF Calm, FieldsKept
  <2>2. ASSUME handle'[k].state = "open"
        PROVE  \E p \in Paths, i \in {0, 1} : table'[p][i] = k
    <3>1. handle[k].state = "open"
      BY <1>3, <2>1, <2>2 DEF Calm, StateMoves
    <3>2. PICK p \in Paths, i \in {0, 1} : table[p][i] = k
      BY <1>0, <2>1, <3>1 DEF NoHandleLeft, Session
    <3>3. k # 0
      BY <1>h, <2>1
    <3>4. table'[p][i] \in {0, k}
      BY <1>3, <3>2 DEF Calm, TableLess
    <3>5. table'[p][i] # 0
      BY <1>3, <2>2, <3>2, <3>3 DEF Calm, Ended
    <3> QED
      BY <3>4, <3>5
  <2>3. ASSUME handle'[k].state = "opening"
        PROVE  k = New' /\ acq'.pc \in {"reset", "detach", "claim"}
    <3>1. handle[k].state = "opening"
      BY <1>3, <2>1, <2>3 DEF Calm, StateMoves
    <3>2. k = New /\ acq.pc \in {"reset", "detach", "claim"}
      BY <1>0, <2>1, <3>1 DEF NoHandleLeft
    <3>3. New' = New
      BY <2>1 DEF New
    <3>4. ~(handle' = [handle EXCEPT ![New].state = "closed"])
      <4> SUFFICES ASSUME handle' = [handle EXCEPT ![New].state = "closed"] PROVE FALSE
        OBVIOUS
      <4>1. handle'[New].state = "closed"
        BY <1>0, <2>1, <3>2, StateSet DEF States
      <4> QED
        BY <2>3, <3>2, <4>1
    <3>5. acq'.pc \in {"reset", "detach", "claim"}
      BY <1>3, <3>2, <3>4, RequestMoves DEF Asked, GoesOn
    <3> QED
      BY <3>2, <3>3, <3>5
  <2> QED
    BY <2>2, <2>3
<1> QED
  BY <1>1, <1>2, <1>3, CalmStep

\* the claim of a session stays while the device is there
LEMMA ClaimKept ==
  ASSUME BusAssumption, IInv, [Next]_vars,
         NEW p \in Paths, NEW i \in {0, 1}, table[p][i] # 0,
         NEW d, d = handle[table[p][i]].dev,
         ~handle'[table[p][i]].gone, claim[d][i] = table[p][i]
  PROVE  claim'[d][i] = table[p][i]
<1>0. TypeOK /\ NewHandle /\ OwnHandle /\ Acquiring
  BY DEF IInv
<1> DEFINE k == table[p][i]
<1>1. /\ k \in DOMAIN handle /\ k # 0 /\ k # OtherProgram
      /\ handle[k].state = "open" /\ handle[k].iface = i /\ PortsOf(d) = p
  BY <1>0, TableFacts DEF OwnHandle
<1>2. d \in ToSet(Devices)
  BY <1>0, <1>1, HandleFacts DEF HandleRec
<1> HIDE DEF k
<1>k. claim[d][i] = k
  BY DEF k
<1>3. ASSUME NEW e \in ToSet(Devices), Unplug(e) PROVE claim'[d][i] = k
  <2>1. e # d
    BY <1>0, <1>1, <1>3, UnplugEffect DEF k
  <2> QED
    BY <1>0, <1>2, <1>3, <1>k, <2>1, UnplugEffect
<1>4. ASSUME NEW e \in ToSet(Devices), NEW j \in {0, 1}, OtherClaims(e, j)
      PROVE  claim'[d][i] = k
  <2>1. claim[e][j] # k
    BY <1>1, <1>4 DEF OtherClaims
  <2>2. PICK v : claim' = [claim EXCEPT ![e][j] = v]
    BY <1>4 DEF OtherClaims
  <2>3. ~(d = e /\ i = j)
    BY <1>k, <2>1
  <2>4. claim \in [ToSet(Devices) -> [{0, 1} -> 0 .. OtherProgram]]
    BY <1>0 DEF TypeOK
  <2>5. claim'[d][i] = claim[d][i]
    BY <1>2, <2>2, <2>3, <2>4
  <2> QED
    BY <1>k, <2>5
<1>5. ASSUME NEW h \in DOMAIN handle, Closing(h) PROVE claim'[d][i] = k
  <2>1. h # k
    BY <1>0, <1>1, <1>5, ClosingEffect
  <2> QED
    BY <1>0, <1>2, <1>5, <1>k, <2>1, ClosingEffect
<1>6. ASSUME ResetDevice PROVE claim'[d][i] = k
  <2>1. acq.pc = "reset"
    BY <1>6 DEF ResetDevice
  <2>2. ASSUME acq.reset, d = NewDev PROVE FALSE
    <3>1. p = acq.path
      BY <1>0, <1>1, <2>1, <2>2, NewFacts
    <3>2. table[p][acq.iface] = 0 /\ table[p][1 - acq.iface] = 0
      BY <1>0, <2>1, <2>2, <3>1 DEF Acquiring
    <3>3. i = acq.iface \/ i = 1 - acq.iface
      BY <1>0, TableFacts
    <3> QED
      BY <1>1, <3>2, <3>3 DEF k
  <2> QED
    BY <1>0, <1>2, <1>6, <1>k, <2>2, ResetEffect
<1>7. ASSUME Claim PROVE claim'[d][i] = k
  <2>1. \/ UNCHANGED claim
        \/ /\ claim[NewDev][acq.iface] = 0
           /\ \A e \in ToSet(Devices), j \in {0, 1} :
                claim'[e][j] = IF e = NewDev /\ j = acq.iface THEN New ELSE claim[e][j]
    BY <1>0, <1>7, ClaimEffect
  <2> QED
    BY <1>1, <1>2, <1>k, <2>1
<1>8. \/ UNCHANGED vars \/ Enumerate
      \/ Stolen \/ Prepare \/ ListDevices \/ Open \/ Detach
      => UNCHANGED claim
  BY DEF vars, deviceVars, Enumerate, Stolen, Prepare, ListDevices, Open, Detach
<1>10. \/ \E e \in ToSet(Devices) : Plug(e)
       \/ \E q \in Paths, j \in Interfaces : Acquire(q, j)
       \/ \E q \in Paths, j \in Interfaces : Release(q, j)
       => UNCHANGED claim
  <2>1. ASSUME NEW q \in Paths, NEW j \in Interfaces, Acquire(q, j) \/ Release(q, j)
        PROVE  UNCHANGED claim
    BY <2>1 DEF deviceVars, Acquire, Release
  <2>2. ASSUME NEW e \in ToSet(Devices), Plug(e) PROVE UNCHANGED claim
    BY <2>2 DEF Plug
  <2> QED
    BY <2>1, <2>2
<1>9. claim'[d][i] = k
  BY <1>3, <1>4, <1>5, <1>6, <1>7, <1>8, <1>10, <1>k, Actions
<1> QED
  BY <1>9 DEF k

LEMMA HoldStep ==
  ASSUME BusAssumption, IInv, [Next]_vars
  PROVE  SessionHoldsClaim'
<1>0. TypeOK /\ NewHandle /\ Acquiring /\ OwnHandle /\ SessionHoldsClaim
  BY DEF IInv
<1> SUFFICES ASSUME NEW p \in Paths, NEW i \in {0, 1}, table'[p][i] \in DOMAIN handle',
                    ~handle'[table'[p][i]].gone
             PROVE  claim'[handle'[table'[p][i]].dev][handle'[table'[p][i]].iface] = table'[p][i]
  BY DEF SessionHoldsClaim, Session
<1>a. acq.path \in Paths /\ acq.iface \in {0, 1}
  BY <1>0, TableFacts
<1>b. TypeOK'
  BY TypeStep
<1>c. table'[p][i] # 0
  <2>1. \A k \in DOMAIN handle' : k # 0
    BY <1>b, LenProperties DEF TypeOK
  <2> QED
    BY <2>1
<1>1. ASSUME table'[p][i] = table[p][i], table[p][i] \in DOMAIN handle,
             handle'[table[p][i]].dev = handle[table[p][i]].dev,
             handle'[table[p][i]].iface = handle[table[p][i]].iface,
             handle[table[p][i]].gone => handle'[table[p][i]].gone
      PROVE  claim'[handle'[table'[p][i]].dev][handle'[table'[p][i]].iface] = table'[p][i]
  <2>1. handle[table[p][i]].iface = i
    BY <1>0, <1>1, <1>c DEF OwnHandle
  <2>2. claim[handle[table[p][i]].dev][i] = table[p][i]
    BY <1>0, <1>1, <2>1 DEF SessionHoldsClaim, Session
  <2>3. claim'[handle[table[p][i]].dev][i] = table[p][i]
    BY <1>1, <1>c, <2>2, ClaimKept
  <2> QED
    BY <1>1, <2>1, <2>3
<1>2. CASE Opening
  <2>1. table' = table /\ table[p][i] # 0
    BY <1>2, <1>c DEF Opening
  <2>2. table[p][i] \in DOMAIN handle
    BY <1>0, <2>1, TableFacts
  <2>3. handle'[table[p][i]] = handle[table[p][i]]
    BY <1>2, <2>2 DEF Opening
  <2> QED
    BY <1>1, <2>1, <2>2, <2>3
<1>3. CASE Storing
  <2>1. New \in DOMAIN handle /\ handle[New].iface = acq.iface /\ NewDev \in ToSet(Devices)
    BY <1>0, <1>3, NewFacts DEF Storing
  <2>2. handle' = [handle EXCEPT ![New].state = "open"]
    BY <1>3 DEF Storing
  <2>3. handle'[New].dev = NewDev /\ handle'[New].iface = acq.iface
    BY <1>0, <2>1, <2>2, StateSet DEF States, NewDev
  <2>4. \A j \in DOMAIN handle : j # New => handle'[j] = handle[j]
    BY <1>0, <2>1, <2>2, StateSet DEF States
  <2>5. table'[p][i] = IF p = acq.path /\ i = acq.iface THEN New ELSE table[p][i]
    BY <1>3 DEF Storing
  <2>6. CASE p = acq.path /\ i = acq.iface
    <3>1. claim'[NewDev][acq.iface] = New
      BY <1>3, <1>a, <2>1 DEF Storing
    <3> QED
      BY <2>3, <2>5, <2>6, <3>1
  <2>7. CASE ~(p = acq.path /\ i = acq.iface)
    <3>1. table'[p][i] = table[p][i] /\ table[p][i] # 0
      BY <1>c, <2>5, <2>7
    <3>2. table[p][i] \in DOMAIN handle
      BY <1>0, <3>1, TableFacts
    <3>3. /\ handle'[table[p][i]].dev = handle[table[p][i]].dev
          /\ handle'[table[p][i]].iface = handle[table[p][i]].iface
          /\ handle'[table[p][i]].gone = handle[table[p][i]].gone
      BY <1>0, <2>1, <2>2, <3>2, StateSet DEF States
    <3> QED
      BY <1>1, <3>1, <3>2, <3>3
  <2> QED
    BY <2>6, <2>7
<1>4. CASE Calm
  <2>1. table'[p][i] = table[p][i] /\ table[p][i] # 0
    BY <1>4, <1>c DEF Calm, TableLess
  <2>2. table[p][i] \in DOMAIN handle
    BY <1>0, <2>1, TableFacts
  <2> QED
    BY <1>1, <1>4, <2>1, <2>2 DEF Calm, FieldsKept
<1> QED
  BY <1>2, <1>3, <1>4, CalmStep

LEMMA InitIInv ==
  ASSUME BusAssumption, Init
  PROVE  IInv
<1>0. NoAcquire \in AcqRec /\ NoAcquire.pc = "idle" /\ NoAcquire.left = {}
  BY IdleEffect
<1>1. handle = << >> /\ Len(handle) = 0 /\ DOMAIN handle = {}
  BY DEF Init
<1>2. acq \in AcqRec /\ acq.pc = "idle" /\ acq.left = {}
  BY <1>0 DEF Init
<1>3. TypeOK
  <2>1. attached \subseteq ToSet(Devices) /\ DOMAIN shown \subseteq Paths
    BY DEF Init
  <2>2. driver \in [ToSet(Devices) -> SUBSET {0, 1}]
    BY DEF Init
  <2>3. claim \in [ToSet(Devices) -> [{0, 1} -> 0 .. OtherProgram]]
    BY DEF Init, BusAssumption, OtherProgram
  <2>4. table \in [Paths -> [{0, 1} -> 0 .. Len(handle)]]
    BY <1>1 DEF Init
  <2>5. handle \in Seq(HandleRec) /\ Len(handle) <= MaxHandles
    BY <1>1 DEF BusAssumption
  <2> QED
    BY <1>2, <2>1, <2>2, <2>3, <2>4, <2>5 DEF TypeOK, HandleRec, AcqRec
<1>4. Acquiring /\ NewHandle
  BY <1>2 DEF Acquiring, NewHandle
<1>5. OwnHandle
  BY DEF OwnHandle, Init
<1>6. SessionHoldsClaim /\ NoHandleLeft
  BY <1>1 DEF SessionHoldsClaim, NoHandleLeft
<1> QED
  BY <1>3, <1>4, <1>5, <1>6 DEF IInv

LEMMA StepIInv ==
  ASSUME BusAssumption, IInv, [Next]_vars
  PROVE  IInv'
BY TypeStep, AcquiringStep, NewStep, OwnStep, HoldStep, LeftStep DEF IInv

(***************************************************************************)
(* The invariant of LibUSB.Connect and Close below the sessions of Core:   *)
(* what an acquire in progress, the handle it is connecting and the        *)
(* handles of the sessions rely on.                                        *)
(***************************************************************************)
THEOREM Invariant ==
  ASSUME BusAssumption
  PROVE  Spec => []IInv
<1>1. Init => IInv
  BY InitIInv
<1>2. IInv /\ [Next]_vars => IInv'
  BY StepIInv
<1> QED
  BY <1>1, <1>2, PTL DEF Spec

(***************************************************************************)
(* The drivers, the claims, the table of sessions and the handles stay     *)
(* what LibUSB.Connect and Close take them for.                            *)
(***************************************************************************)
THEOREM TypeCorrect ==
  ASSUME BusAssumption
  PROVE  Spec => []TypeOK
<1>1. IInv => TypeOK
  BY DEF IInv
<1> QED
  BY <1>1, Invariant, PTL

(***************************************************************************)
(* The handle of a session claims its interface as long as the device      *)
(* stays plugged in: neither the reset of a later Connect nor a handle     *)
(* that is still being closed takes the claim away.                        *)
(***************************************************************************)
THEOREM SessionsHoldClaims ==
  ASSUME BusAssumption
  PROVE  Spec => []SessionHoldsClaim
<1>1. IInv => SessionHoldsClaim
  BY DEF IInv
<1> QED
  BY <1>1, Invariant, PTL

(***************************************************************************)
(* Whatever becomes of the attempts of Connect, none leaves an open handle *)
(* behind that no session closes.                                          *)
(***************************************************************************)
THEOREM NoHandleIsLeft ==
  ASSUME BusAssumption
  PROVE  Spec => []NoHandleLeft
<1>1. IInv => NoHandleLeft
  BY DEF IInv
<1> QED
  BY <1>1, Invariant, PTL
-----------------------------------------------------------------------------
(* Nobody but this program claims interfaces, and clients only steal.      *)

LEMMA HandlesKept ==
  ASSUME BusAssumption, IInv, [Next]_vars
  PROVE  /\ \A k \in DOMAIN handle :
              /\ k \in DOMAIN handle'
              /\ handle'[k].dev = handle[k].dev /\ handle'[k].iface = handle[k].iface
              /\ handle[k].gone => handle'[k].gone
         /\ \A k \in DOMAIN handle' : k \notin DOMAIN handle =>
              Opening /\ handle'[k] = Opened
<1>0. TypeOK /\ NewHandle
  BY DEF IInv
<1>h. Len(handle) \in Nat /\ DOMAIN handle = 1 .. Len(handle)
  BY <1>0, HandleFacts
<1>1. CASE Opening
  <2>1. /\ Len(handle') = Len(handle) + 1 /\ handle' \in Seq(HandleRec)
        /\ handle'[Len(handle) + 1] = Opened
        /\ \A k \in DOMAIN handle : handle'[k] = handle[k]
    BY <1>1 DEF Opening
  <2>2. DOMAIN handle' = 1 .. Len(handle) + 1
    BY <2>1, LenProperties
  <2> QED
    BY <1>h, <1>1, <2>1, <2>2
<1>2. CASE Storing
  <2>1. New \in DOMAIN handle /\ handle' = [handle EXCEPT ![New].state = "open"]
    BY <1>0, <1>2, NewFacts DEF Storing
  <2>2. /\ DOMAIN handle' = DOMAIN handle
        /\ \A k \in DOMAIN handle :
             /\ handle'[k].dev = handle[k].dev /\ handle'[k].iface = handle[k].iface
             /\ handle'[k].gone = handle[k].gone
    BY <1>0, <2>1, StateSet DEF States
  <2> QED
    BY <2>2
<1>3. CASE Calm
  BY <1>3 DEF Calm, FieldsKept
<1> QED
  BY <1>1, <1>2, <1>3, CalmStep

LEMMA AttachedMoves ==
  ASSUME TypeOK, [Next]_vars
  PROVE  \/ \E d \in ToSet(Devices) : Plug(d) \/ Unplug(d)
         \/ UNCHANGED attached
<1>1. ASSUME NEW p \in Paths, NEW i \in Interfaces, Acquire(p, i) \/ Release(p, i)
      PROVE  UNCHANGED attached
  BY <1>1 DEF deviceVars, Acquire, Release
<1>2. ASSUME NEW d \in ToSet(Devices), NEW i \in {0, 1}, OtherClaims(d, i)
      PROVE  UNCHANGED attached
  BY <1>2 DEF OtherClaims
<1>3. ASSUME NEW h \in DOMAIN handle, Closing(h) PROVE UNCHANGED attached
  BY <1>3, ClosingEffect
<1>4. UNCHANGED vars \/ Enumerate \/ Stolen \/ Prepare \/ ListDevices \/ Open => UNCHANGED attached
  BY DEF vars, deviceVars, Enumerate, Stolen, Prepare, ListDevices, Open
<1>5. ResetDevice \/ Detach \/ Claim => UNCHANGED attached
  BY DEF ResetDevice, Detach, Claim
<1> QED
  BY <1>1, <1>2, <1>3, <1>4, <1>5, Actions

LEMMA AwayStep ==
  ASSUME BusAssumption, IInv, AwayIsGone, [Next]_vars
  PROVE  AwayIsGone'
<1>0. TypeOK
  BY DEF IInv
<1>1. (\E d \in ToSet(Devices) : Unplug(d)) \/ attached \subseteq attached'
  BY <1>0, AttachedMoves DEF Plug
<1> SUFFICES ASSUME NEW h \in DOMAIN handle', handle'[h].dev \notin attached'
             PROVE  handle'[h].gone
  BY DEF AwayIsGone
<1>2. h \in DOMAIN handle
  <2> SUFFICES ASSUME h \notin DOMAIN handle PROVE FALSE
    OBVIOUS
  <2>1. Opening /\ handle'[h] = Opened
    BY HandlesKept
  <2> QED
    BY <2>1 DEF Opening, Opened
<1>3. handle'[h].dev = handle[h].dev /\ (handle[h].gone => handle'[h].gone)
  BY <1>2, HandlesKept
<1>4. CASE attached \subseteq attached'
  BY <1>2, <1>3, <1>4 DEF AwayIsGone
<1>5. ASSUME NEW d \in ToSet(Devices), Unplug(d) PROVE handle'[h].gone
  <2>1. handle[h].dev = d \/ handle[h].dev \notin attached
    BY <1>3, <1>5 DEF Unplug
  <2>2. handle'[h].gone <=> handle[h].gone \/ handle[h].dev = d
    BY <1>0, <1>2, <1>5, UnplugEffect
  <2> QED
    BY <1>2, <2>1, <2>2 DEF AwayIsGone
<1> QED
  BY <1>1, <1>4, <1>5

\* claims are made for sessions only
LEMMA ClaimMoves ==
  ASSUME BusAssumption, IInv, [Next]_vars,
         NEW d \in ToSet(Devices), NEW i \in {0, 1}
  PROVE  \/ claim'[d][i] \in {0, claim[d][i]}
         \/ Storing /\ d = NewDev /\ i = acq.iface /\ claim'[d][i] = New
         \/ Foreign /\ claim'[d][i] = OtherProgram
<1>0. TypeOK /\ NewHandle
  BY DEF IInv
<1>1. ASSUME NEW e \in ToSet(Devices), Unplug(e) PROVE claim'[d][i] \in {0, claim[d][i]}
  BY <1>0, <1>1, UnplugEffect
<1>2. ASSUME NEW e \in ToSet(Devices), NEW j \in {0, 1}, OtherClaims(e, j)
      PROVE  \/ claim'[d][i] \in {0, claim[d][i]}
             \/ Foreign /\ claim'[d][i] = OtherProgram
  <2>1. /\ Foreign
        /\ \/ claim' = [claim EXCEPT ![e][j] = OtherProgram]
           \/ claim' = [claim EXCEPT ![e][j] = 0]
    BY <1>2 DEF OtherClaims
  <2>2. claim[e] \in [{0, 1} -> 0 .. OtherProgram] /\ claim \in [ToSet(Devices) -> [{0, 1} -> 0 .. OtherProgram]]
    BY <1>0 DEF TypeOK
  <2>3. ASSUME NEW v, claim' = [claim EXCEPT ![e][j] = v]
        PROVE  claim'[d][i] = IF d = e /\ i = j THEN v ELSE claim[d][i]
    BY <2>2, <2>3
  <2> QED
    BY <2>1, <2>3
<1>3. ASSUME NEW h \in DOMAIN handle, Closing(h) PROVE claim'[d][i] \in {0, claim[d][i]}
  BY <1>0, <1>3, ClosingEffect
<1>4. ASSUME ResetDevice PROVE claim'[d][i] \in {0, claim[d][i]}
  BY <1>0, <1>4, ResetEffect
<1>5. ASSUME NEW p \in Paths, NEW j \in Interfaces, Acquire(p, j) \/ Release(p, j)
      PROVE  UNCHANGED claim
  BY <1>5 DEF deviceVars, Acquire, Release
<1>6. ASSUME NEW e \in ToSet(Devices), Plug(e) PROVE UNCHANGED claim
  BY <1>6 DEF Plug
<1>7. \/ UNCHANGED vars \/ Enumerate
      \/ Stolen \/ Prepare \/ ListDevices \/ Open \/ Detach
      => UNCHANGED claim
  BY DEF vars, deviceVars, Enumerate, Stolen, Prepare, ListDevices, Open, Detach
<1>8. Claim => UNCHANGED claim \/ Storing
  <2> SUFFICES ASSUME Claim, ~ UNCHANGED claim PROVE Storing
    OBVIOUS
  <2>1. acq.pc = "claim" /\ UNCHANGED <<attached, driver, shown>>
    BY DEF Claim
  <2>2. /\ ~handle[New].gone /\ claim[NewDev][acq.iface] = 0
        /\ handle' = [handle EXCEPT ![New].state = "open"]
        /\ acq'.pc = "idle" /\ acq'.left = {}
    BY <1>0, ClaimEffect
  <2>3. \A p \in Paths, j \in {0, 1} :
          table'[p][j] = IF p = acq.path /\ j = acq.iface THEN New ELSE table[p][j]
    BY <1>0, ClaimEffect
  <2>4. \A e \in ToSet(Devices), j \in {0, 1} :
          claim'[e][j] = IF e = NewDev /\ j = acq.iface THEN New ELSE claim[e][j]
    BY <1>0, ClaimEffect
  <2> QED
    BY <2>1, <2>2, <2>3, <2>4 DEF Storing
<1>9. Storing => \/ claim'[d][i] \in {0, claim[d][i]}
                 \/ Storing /\ d = NewDev /\ i = acq.iface /\ claim'[d][i] = New
  BY DEF Storing
<1>10. (\E h \in DOMAIN handle : Closing(h)) \/ (\E e \in ToSet(Devices) : Unplug(e)) \/ ResetDevice
       => claim'[d][i] \in {0, claim[d][i]}
  BY <1>1, <1>3, <1>4
<1> HIDE DEF Storing
<1> QED
  BY <1>2, <1>5, <1>6, <1>7, <1>8, <1>9, <1>10, Actions

LEMMA ClaimsOwnedStep ==
  ASSUME BusAssumption, IInv, ClaimsOwned, [Next]_vars
  PROVE  ClaimsOwned'
<1>0. TypeOK /\ NewHandle /\ NoHandleLeft
  BY DEF IInv
<1> SUFFICES ASSUME NEW d \in ToSet(Devices), NEW i \in {0, 1},
                    claim'[d][i] \notin {0, OtherProgram}
             PROVE  /\ claim'[d][i] \in DOMAIN handle'
                    /\ handle'[claim'[d][i]].dev = d /\ handle'[claim'[d][i]].iface = i
                    /\ ~handle'[claim'[d][i]].gone
                    /\ handle'[claim'[d][i]].state \in {"open", "release"}
  BY DEF ClaimsOwned, OtherProgram
<1>1. CASE Storing /\ d = NewDev /\ i = acq.iface /\ claim'[d][i] = New
  <2>1. New \in DOMAIN handle /\ handle[New].iface = acq.iface
    BY <1>0, <1>1, NewFacts DEF Storing
  <2>2. handle' = [handle EXCEPT ![New].state = "open"] /\ ~handle[New].gone
    BY <1>1 DEF Storing
  <2>3. /\ DOMAIN handle' = DOMAIN handle
        /\ handle'[New].state = "open" /\ handle'[New].dev = NewDev
        /\ handle'[New].iface = handle[New].iface /\ handle'[New].gone = handle[New].gone
    BY <1>0, <2>1, <2>2, StateSet DEF States, NewDev
  <2> QED
    BY <1>1, <2>1, <2>2, <2>3
<1>2. CASE claim'[d][i] \in {0, claim[d][i]}
  <2> DEFINE k == claim[d][i]
  <2>1. claim'[d][i] = k /\ k \notin {0, OtherProgram}
    BY <1>2
  <2>2. /\ k \in DOMAIN handle /\ handle[k].dev = d /\ handle[k].iface = i
        /\ ~handle[k].gone /\ handle[k].state \in {"open", "release"}
    BY <2>1 DEF ClaimsOwned
  <2> HIDE DEF k
  <2>3. k \in DOMAIN handle' /\ handle'[k].dev = d /\ handle'[k].iface = i
    BY <2>2, HandlesKept
  <2>4. ~handle'[k].gone
    <3>1. ASSUME NEW e \in ToSet(Devices), Unplug(e) PROVE ~handle'[k].gone
      <4>1. e # d
        BY <1>0, <2>1, <3>1, UnplugEffect
      <4> QED
        BY <1>0, <2>2, <3>1, <4>1, UnplugEffect
    <3>2. (\E e \in ToSet(Devices) : Unplug(e)) \/ handle'[k].gone = handle[k].gone
      BY <2>2, FlagsKept
    <3> QED
      BY <2>2, <3>1, <3>2
  <2>5. handle'[k].state \in {"open", "release"}
    <3>1. CASE Opening
      BY <2>2, <3>1 DEF Opening
    <3>2. CASE Storing
      <4>1. New \in DOMAIN handle /\ handle' = [handle EXCEPT ![New].state = "open"]
        BY <1>0, <3>2, NewFacts DEF Storing
      <4>2. /\ handle'[New].state = "open"
            /\ \A j \in DOMAIN handle : j # New => handle'[j] = handle[j]
        BY <1>0, <4>1, StateSet DEF States
      <4> QED
        BY <2>2, <4>2
    <3>3. CASE Calm
      <4>1. ASSUME Closing(k) PROVE handle[k].state # "release"
        <5> SUFFICES ASSUME handle[k].state = "release" PROVE FALSE
          OBVIOUS
        <5>1. claim' = Unclaimed(k)
          BY <1>0, <2>2, <4>1, ClosingEffect DEF ReleaseInterface
        <5>2. Unclaimed(k)[d][i] = 0
          <6>1. claim[d][i] = k
            BY DEF k
          <6> QED
            BY <1>0, <2>2, <6>1 DEF Unclaimed, TypeOK
        <5> QED
          BY <2>1, <5>1, <5>2
      <4> QED
        BY <2>2, <3>3, <4>1 DEF Calm, StateMoves
    <3> QED
      BY <3>1, <3>2, <3>3, CalmStep
  <2> QED
    BY <2>1, <2>3, <2>4, <2>5
<1> QED
  BY <1>1, <1>2, ClaimMoves

LEMMA ClaimsStep ==
  ASSUME BusAssumption, ~Foreign, IInv, ClaimsHeld, [Next]_vars
  PROVE  ClaimsHeld'
<1>1. ClaimsOwned'
  BY ClaimsOwnedStep DEF ClaimsHeld
<1>2. TypeOK /\ NewHandle
  BY DEF IInv
<1>3. ASSUME NEW d \in ToSet(Devices), NEW i \in {0, 1}
      PROVE  claim'[d][i] # OtherProgram
  <2>1. OtherProgram # 0 /\ claim[d][i] # OtherProgram
    BY DEF ClaimsHeld, BusAssumption, OtherProgram
  <2>2. Storing => New # OtherProgram
    BY <1>2, NewFacts, TableFacts DEF Storing
  <2> QED
    BY <2>1, <2>2, ClaimMoves
<1> QED
  BY <1>1, <1>3 DEF ClaimsHeld, OtherProgram

\* a steal is begun by an acquire and ended when the handle is closed
LEMMA StealMoves ==
  ASSUME BusAssumption, IInv, [Next]_vars
  PROVE  /\ acq.pc = "steal" => UNCHANGED acq \/ Stolen
         /\ acq'.pc = "steal" =>
              UNCHANGED acq \/ \E p \in Paths, i \in Interfaces : Acquire(p, i)
         /\ acq'.pc = "claim" => UNCHANGED acq \/ Detach
<1>0. TypeOK /\ NewHandle
  BY DEF IInv
<1>1. \/ UNCHANGED acq \/ \E p \in Paths, i \in Interfaces : Acquire(p, i)
      \/ Stolen \/ Prepare \/ ListDevices \/ Open \/ ResetDevice \/ Detach \/ Claim
  BY <1>0, Actions, ClosingEffect
     DEF vars, Plug, Unplug, OtherClaims, Enumerate, Release
<1>2. ASSUME NEW p \in Paths, NEW i \in Interfaces, Acquire(p, i)
      PROVE  acq.pc = "idle" /\ acq'.pc \in {"steal", "prepare"}
  <2>1. i \in {0, 1}
    BY DEF BusAssumption
  <2> QED
    BY <1>0, <1>2, <2>1, AcquireEffect
<1>3. Stolen => acq'.pc = "prepare"
  BY <1>0, AcquireMoves
<1>4. Prepare => acq.pc = "prepare" /\ acq'.pc = "list"
  BY <1>0, AcquireMoves DEF Prepare
<1>5. ListDevices => acq.pc = "list" /\ acq'.pc = "open"
  BY <1>0, AcquireMoves DEF ListDevices
<1>6. Open => acq.pc = "open" /\ acq'.pc \in {"list", "idle", "open", "reset"}
  BY <1>0, OpenEffect
<1>7. ResetDevice => acq.pc = "reset" /\ acq'.pc = "detach"
  BY <1>0, AcquireMoves DEF ResetDevice
<1>8. Detach => acq.pc = "detach" /\ acq'.pc \in {"claim", "open"}
  <2> SUFFICES ASSUME Detach PROVE acq.pc = "detach" /\ acq'.pc \in {"claim", "open"}
    OBVIOUS
  <2>1. acq.pc = "detach"
    BY DEF Detach
  <2>2. acq'.pc = "claim" \/ NextCandidate
    BY <1>0, DetachEffect
  <2> QED
    BY <1>0, <2>1, <2>2, AcquireMoves
<1>9. Claim => acq.pc = "claim" /\ acq'.pc \in {"idle", "open"}
  <2> SUFFICES ASSUME Claim PROVE acq.pc = "claim" /\ acq'.pc \in {"idle", "open"}
    OBVIOUS
  <2>1. acq.pc = "claim"
    BY DEF Claim
  <2>2. acq'.pc = "idle" \/ NextCandidate
    BY <1>0, ClaimEffect
  <2> QED
    BY <1>0, <2>1, <2>2, AcquireMoves
<1> QED
  BY <1>1, <1>2, <1>3, <1>4, <1>5, <1>6, <1>7, <1>8, <1>9

LEMMA StolenStep ==
  ASSUME BusAssumption, ~Releases, IInv, AwayIsGone, StolenCloses, [Next]_vars
  PROVE  StolenCloses'
<1>0. TypeOK /\ NewHandle /\ OwnHandle
  BY DEF IInv
<1>i. \A i \in Interfaces : i \in {0, 1}
  BY DEF BusAssumption
<1>1. ASSUME acq'.pc = "steal"
      PROVE  /\ acq'.prev \in DOMAIN handle'
             /\ handle'[acq'.prev].iface = acq'.iface
             /\ PortsOf(handle'[acq'.prev].dev) = acq'.path
  <2>1. CASE UNCHANGED acq
    BY <1>1, <2>1, HandlesKept DEF StolenCloses
  <2>2. ASSUME NEW p \in Paths, NEW i \in Interfaces, Acquire(p, i)
        PROVE  /\ acq'.prev \in DOMAIN handle'
               /\ handle'[acq'.prev].iface = acq'.iface
               /\ PortsOf(handle'[acq'.prev].dev) = acq'.path
    <3>1. i \in {0, 1}
      BY <1>i
    <3>2. /\ table[p][i] # 0 /\ table[p][i] \in DOMAIN handle
          /\ acq'.prev = table[p][i] /\ acq'.path = p /\ acq'.iface = i
      BY <1>0, <1>1, <2>2, <3>1, AcquireEffect
    <3>3. handle[table[p][i]].iface = i /\ PortsOf(handle[table[p][i]].dev) = p
      BY <1>0, <3>1, <3>2 DEF OwnHandle
    <3> QED
      BY <3>2, <3>3, HandlesKept
  <2> QED
    BY <1>1, <2>1, <2>2, StealMoves
<1>2. ASSUME NEW h \in DOMAIN handle', ~handle'[h].gone,
             handle'[h].state \in {"release", "attach", "close"}
      PROVE  acq'.pc = "steal" /\ h = acq'.prev
  <2>1. h \in DOMAIN handle /\ ~handle[h].gone
    <3>1. h \in DOMAIN handle
      BY <1>2, HandlesKept DEF Opened
    <3> QED
      BY <1>2, <3>1, HandlesKept
  <2>2. ASSUME handle[h].state \in {"release", "attach", "close"}
        PROVE  acq'.pc = "steal" /\ h = acq'.prev
    <3>1. acq.pc = "steal" /\ h = acq.prev
      BY <2>1, <2>2 DEF StolenCloses
    <3>2. ~Stolen
      BY <2>2, <3>1 DEF Stolen
    <3> QED
      BY <3>1, <3>2, StealMoves
  <2>3. CASE Opening
    BY <1>2, <2>1, <2>2, <2>3 DEF Opening
  <2>4. CASE Storing
    <3>1. New \in DOMAIN handle /\ handle' = [handle EXCEPT ![New].state = "open"]
      BY <1>0, <2>4, NewFacts DEF Storing
    <3>2. /\ handle'[New].state = "open"
          /\ \A j \in DOMAIN handle : j # New => handle'[j] = handle[j]
      BY <1>0, <3>1, StateSet DEF States
    <3> QED
      BY <1>2, <2>1, <2>2, <3>2
  <2>5. ASSUME Enumerate, h \in Lost PROVE FALSE
    <3>1. PICK p \in Paths, i \in {0, 1} : Matching(p) = {} /\ table[p][i] = h
      BY <2>5 DEF Lost
    <3>2. h # 0
      BY <1>0, <2>1, TableFacts
    <3>3. PortsOf(handle[h].dev) = p
      BY <1>0, <3>1, <3>2 DEF OwnHandle
    <3>4. handle[h].dev \in attached /\ handle[h].dev \in ToSet(Devices)
      BY <1>0, <2>1, HandleFacts DEF AwayIsGone, HandleRec
    <3>5. PICK n \in DOMAIN Devices : Devices[n] = handle[h].dev
      BY <3>4 DEF ToSet
    <3> QED
      BY <3>1, <3>3, <3>4, <3>5 DEF Matching
  <2>6. ASSUME NEW p \in Paths, NEW i \in {0, 1}, table[p][i] = h, Acquire(p, i)
        PROVE  acq'.pc = "steal" /\ h = acq'.prev
    <3>1. h # 0
      BY <1>0, <2>1, TableFacts
    <3> QED
      BY <1>0, <2>6, <3>1, AcquireEffect
  <2>7. ASSUME NEW p \in Paths, NEW i \in {0, 1}, Release(p, i) PROVE FALSE
    BY <2>7 DEF Release
  <2>8. CASE Calm
    <3>1. \/ handle[h].state \in {"release", "attach", "close"}
          \/ Enumerate /\ h \in Lost
          \/ \E p \in Paths, i \in {0, 1} :
               table[p][i] = h /\ (Acquire(p, i) \/ (i \in Interfaces /\ Release(p, i)))
      BY <1>2, <2>1, <2>8 DEF Calm, StateMoves
    <3> QED
      BY <2>2, <2>5, <2>6, <2>7, <3>1
  <2> QED
    BY <2>3, <2>4, <2>8, CalmStep
<1> QED
  BY <1>1, <1>2 DEF StolenCloses

\* an interface without a session and without a handle being closed is not claimed
LEMMA FreeOfSessions ==
  ASSUME BusAssumption, IInv, ClaimsHeld, StolenCloses,
         NEW d \in ToSet(Devices), NEW i \in {0, 1},
         table[PortsOf(d)][i] = 0,
         acq.pc = "steal" => handle[acq.prev].state # "release"
  PROVE  claim[d][i] = 0
<1>0. TypeOK /\ OwnHandle /\ NoHandleLeft
  BY DEF IInv
<1> SUFFICES ASSUME claim[d][i] # 0 PROVE FALSE
  OBVIOUS
<1> DEFINE k == claim[d][i]
<1>1. /\ k \in DOMAIN handle /\ k # 0 /\ handle[k].dev = d /\ handle[k].iface = i
      /\ ~handle[k].gone /\ handle[k].state \in {"open", "release"}
  BY DEF ClaimsHeld, ClaimsOwned
<1> HIDE DEF k
<1>2. handle[k].state # "release"
  BY <1>1 DEF StolenCloses
<1>3. PICK p \in Paths, j \in {0, 1} : table[p][j] = k
  BY <1>0, <1>1, <1>2 DEF NoHandleLeft, Session
<1>4. p = PortsOf(d) /\ j = i
  BY <1>0, <1>1, <1>3 DEF OwnHandle
<1> QED
  BY <1>1, <1>3, <1>4

LEMMA NewIsFree ==
  ASSUME BusAssumption, IInv, ClaimsHeld, StolenCloses,
         acq.pc \in {"reset", "detach", "claim"}
  PROVE  /\ claim[NewDev][acq.iface] = 0
         /\ acq.reset => \A i \in {0, 1} : claim[NewDev][i] = 0
<1>0. TypeOK /\ NewHandle /\ Acquiring
  BY DEF IInv
<1>1. NewDev \in ToSet(Devices) /\ PortsOf(NewDev) = acq.path
  BY <1>0, NewFacts
<1>2. acq.iface \in {0, 1} /\ \A i \in {0, 1} : i = acq.iface \/ i = 1 - acq.iface
  BY <1>0, TableFacts
<1>3. table[acq.path][acq.iface] = 0
  BY <1>0 DEF Acquiring
<1>4. acq.reset => table[acq.path][1 - acq.iface] = 0
  BY <1>0 DEF Acquiring
<1>5. claim[NewDev][acq.iface] = 0
  BY <1>1, <1>2, <1>3, FreeOfSessions
<1>6. ASSUME acq.reset, NEW i \in {0, 1} PROVE claim[NewDev][i] = 0
  <2>1. table[PortsOf(NewDev)][i] = 0
    BY <1>1, <1>2, <1>3, <1>4, <1>6
  <2> QED
    BY <1>1, <2>1, FreeOfSessions
<1> QED
  BY <1>5, <1>6

\* nobody else attaches the driver that the handle being closed attaches
LEMMA OnlyStolen ==
  ASSUME BusAssumption, IInv, StolenCloses,
         NEW h \in DOMAIN handle, ~handle[h].gone,
         handle[h].state \in {"release", "attach", "close"},
         NEW k \in DOMAIN handle, k # h
  PROVE  ~WillAttach(k, handle[h].dev, handle[h].iface)
<1>0. TypeOK /\ OwnHandle /\ NoHandleLeft /\ Acquiring
  BY DEF IInv
<1> SUFFICES ASSUME WillAttach(k, handle[h].dev, handle[h].iface) PROVE FALSE
  OBVIOUS
<1>1. acq.pc = "steal" /\ h = acq.prev
  BY DEF StolenCloses
<1>2. handle[h].iface = acq.iface /\ PortsOf(handle[h].dev) = acq.path
  BY <1>1 DEF StolenCloses
<1>3. table[acq.path][acq.iface] = 0
  BY <1>0, <1>1 DEF Acquiring
<1>4. /\ handle[k].dev = handle[h].dev /\ handle[k].iface = handle[h].iface
      /\ ~handle[k].gone /\ handle[k].state \in {"opening", "open", "release", "attach"}
  BY DEF WillAttach
<1>5. handle[k].state \notin {"release", "attach"}
  BY <1>1, <1>4 DEF StolenCloses
<1>6. handle[k].state # "opening"
  BY <1>0, <1>1 DEF NoHandleLeft
<1>7. handle[k].state = "open"
  BY <1>4, <1>5, <1>6
<1>8. PICK p \in Paths, j \in {0, 1} : table[p][j] = k
  BY <1>0, <1>7 DEF NoHandleLeft, Session
<1>9. k # 0
  BY <1>0, TableFacts
<1>10. p = acq.path /\ j = acq.iface
  BY <1>0, <1>2, <1>4, <1>8, <1>9 DEF OwnHandle
<1> QED
  BY <1>3, <1>8, <1>9, <1>10

\* a handle that does not do it now will attach the same drivers as before
LEMMA WillSame ==
  ASSUME BusAssumption, IInv, DInv, [Next]_vars,
         NEW k \in DOMAIN handle, NEW d, NEW i,
         handle'[k].attach = handle[k].attach, handle'[k].gone = handle[k].gone,
         ~(Closing(k) /\ handle[k].state = "attach")
  PROVE  WillAttach(k, d, i)' <=> WillAttach(k, d, i)
<1>0. TypeOK /\ NewHandle /\ ClaimsHeld /\ StolenCloses /\ DriversKnown
  BY DEF IInv, DInv
<1> DEFINE Ready(s) == s \in {"opening", "open", "release", "attach"}
<1>1. ASSUME Ready(handle'[k].state) <=> Ready(handle[k].state)
      PROVE  WillAttach(k, d, i)' <=> WillAttach(k, d, i)
  BY <1>1, HandlesKept DEF WillAttach
<1>2. CASE Opening
  BY <1>1, <1>2 DEF Opening
<1>3. CASE Storing
  <2>1. /\ New \in DOMAIN handle /\ handle' = [handle EXCEPT ![New].state = "open"]
        /\ handle[New].state = "opening"
    BY <1>0, <1>3, NewFacts DEF Storing
  <2>2. /\ handle'[New].state = "open"
        /\ \A j \in DOMAIN handle : j # New => handle'[j] = handle[j]
    BY <1>0, <2>1, StateSet DEF States
  <2> QED
    BY <1>1, <2>1, <2>2
<1>4. CASE Calm
  <2>1. ASSUME handle[k].state = "opening", k = New, handle'[k].state = "closed",
               acq.pc \in {"detach", "claim"}, acq'.pc = "open"
        PROVE  WillAttach(k, d, i)' <=> WillAttach(k, d, i)
    <3>1. ~WillAttach(k, d, i)'
      BY <2>1 DEF WillAttach
    <3>2. CASE acq.pc = "detach"
      BY <1>0, <2>1, <3>1, <3>2 DEF NewHandle, WillAttach
    <3>3. CASE acq.pc = "claim"
      <4>1. Claim
        BY <1>0, <2>1, <3>3, Actions, ClosingEffect
           DEF vars, Plug, Unplug, OtherClaims, Enumerate, Acquire, Release, Stolen, Prepare,
               ListDevices, Open, ResetDevice, Detach
      <4>2. \/ handle[New].gone \/ acq.iface \in driver[NewDev]
            \/ claim[NewDev][acq.iface] # 0
        BY <1>0, <2>1, <4>1, ClaimEffect
      <4>3. claim[NewDev][acq.iface] = 0
        BY <1>0, <3>3, NewIsFree
      <4>4. handle[k].gone
        BY <1>0, <2>1, <3>3, <4>2, <4>3 DEF DriversKnown
      <4> QED
        BY <3>1, <4>4 DEF WillAttach
    <3> QED
      BY <2>1, <3>2, <3>3
  <2>2. ASSUME Closing(k), handle[k].state \in {"release", "close"}
        PROVE  Ready(handle'[k].state) <=> Ready(handle[k].state)
    <3>1. \/ handle[k].state = "release" /\ handle' = [handle EXCEPT ![k].state = "attach"]
          \/ handle[k].state = "close" /\ handle' = [handle EXCEPT ![k].state = "closed"]
      BY <1>0, <2>2, ClosingEffect
    <3>2. \/ handle[k].state = "release" /\ handle'[k].state = "attach"
          \/ handle[k].state = "close" /\ handle'[k].state = "closed"
      BY <1>0, <3>1, StateSet DEF States
    <3> QED
      BY <3>2
  <2>3. \/ handle'[k].state = handle[k].state
        \/ /\ handle[k].state = "opening" /\ k = New /\ handle'[k].state = "closed"
           /\ acq.pc \in {"detach", "claim"} /\ acq'.pc = "open"
        \/ handle[k].state = "open" /\ handle'[k].state = "release"
        \/ Closing(k) /\ handle[k].state \in {"release", "close"}
    BY <1>4 DEF Calm, StateMoves
  <2> HIDE DEF Ready
  <2>4. Ready("open") /\ Ready("release")
    BY DEF Ready
  <2> QED
    BY <1>1, <2>1, <2>2, <2>3, <2>4
<1> QED
  BY <1>2, <1>3, <1>4, CalmStep

\* the drivers of an interface are known as before
LEMMA DriverKeeps ==
  ASSUME BusAssumption, IInv, DInv, [Next]_vars,
         NEW d \in attached, NEW i \in {0, 1},
         i \in driver'[d] <=> i \in driver[d],
         \A k \in DOMAIN handle : WillAttach(k, d, i)' <=> WillAttach(k, d, i)
  PROVE  i \in driver'[d] <=> i \in HasDriver /\ \A h \in DOMAIN handle' : ~WillAttach(h, d, i)'
<1>1. i \in driver[d] <=> i \in HasDriver /\ \A h \in DOMAIN handle : ~WillAttach(h, d, i)
  BY DEF DInv, DriversKnown
<1>2. \A h \in DOMAIN handle : h \in DOMAIN handle'
  BY HandlesKept
<1>3. ASSUME NEW h \in DOMAIN handle', h \notin DOMAIN handle
      PROVE  ~WillAttach(h, d, i)'
  <2>1. handle'[h] = Opened
    BY <1>3, HandlesKept
  <2>2. ~handle'[h].attach
    BY <2>1 DEF Opened
  <2> QED
    BY <2>2 DEF WillAttach
<1> QED
  BY <1>1, <1>2, <1>3

LEMMA AttachIsStep ==
  ASSUME BusAssumption, IInv, DInv, [Next]_vars
  PROVE  AttachIsDriver'
<1>0. TypeOK /\ NewHandle
  BY DEF IInv
<1> SUFFICES ASSUME NEW h \in DOMAIN handle', handle'[h].attach
             PROVE  handle'[h].iface \in HasDriver
  BY DEF AttachIsDriver
<1>1. h \in DOMAIN handle
  <2> SUFFICES ASSUME h \notin DOMAIN handle PROVE FALSE
    OBVIOUS
  <2>1. handle'[h] = Opened
    BY HandlesKept
  <2> QED
    BY <2>1 DEF Opened
<1>2. handle'[h].iface = handle[h].iface
  BY <1>1, HandlesKept
<1>3. handle[h].attach => handle[h].iface \in HasDriver
  BY <1>1 DEF DInv, AttachIsDriver
<1>4. CASE ~Detach
  BY <1>1, <1>2, <1>3, <1>4, FlagsKept
<1>5. CASE Detach
  <2>1. acq.pc = "detach"
    BY <1>5 DEF Detach
  <2>2. New \in DOMAIN handle /\ NewDev \in ToSet(Devices) /\ handle[New].iface = acq.iface
    BY <1>0, <2>1, NewFacts
  <2>3. CASE NextCandidate
    <3>1. handle' = [handle EXCEPT ![New].state = "closed"]
      BY <1>0, <2>1, <2>3, NextEffect
    <3>2. handle'[h].attach = handle[h].attach
      BY <1>0, <1>1, <2>2, <3>1, StateSet DEF States
    <3> QED
      BY <1>2, <1>3, <3>2
  <2>4. CASE ~NextCandidate
    <3>1. ~handle[New].gone
      BY <1>0, <1>5, <2>4, DetachEffect
    <3>2. handle'[New].attach <=> acq.iface \in driver[NewDev]
      BY <1>0, <1>5, <2>4, DetachEffect
    <3>3. \A k \in DOMAIN handle : k # New => handle'[k] = handle[k]
      BY <1>0, <1>5, <2>4, DetachEffect
    <3>4. NewDev \in attached
      BY <2>2, <3>1 DEF DInv, AwayIsGone, NewDev
    <3>5. acq.iface \in {0, 1}
      BY <1>0, TableFacts
    <3>6. acq.iface \in driver[NewDev] => acq.iface \in HasDriver
      BY <3>4, <3>5 DEF DInv, DriversKnown
    <3>7. CASE h = New
      BY <1>2, <2>2, <3>2, <3>6, <3>7
    <3>8. CASE h # New
      BY <1>1, <1>3, <3>3, <3>8
    <3> QED
      BY <3>7, <3>8
  <2> QED
    BY <2>3, <2>4
<1> QED
  BY <1>4, <1>5

\* who changes the drivers of devices that are there
LEMMA DriverMoves ==
  ASSUME BusAssumption, IInv, DInv, [Next]_vars
  PROVE  \/ UNCHANGED <<attached, driver>>
         \/ \E d \in ToSet(Devices) : Plug(d) \/ Unplug(d)
         \/ UNCHANGED <<attached, handle>> /\ ResetDevice
            /\ \A d \in ToSet(Devices), i \in {0, 1} : i \in driver'[d] <=> i \in driver[d]
         \/ Detach /\ ~handle[New].gone
         \/ \E h \in DOMAIN handle : Closing(h) /\ handle[h].state = "attach" /\ AttachDriver(h)
<1>0. TypeOK /\ NewHandle
  BY DEF IInv
<1>1. ASSUME ResetDevice
      PROVE  /\ UNCHANGED <<attached, handle>>
             /\ \A d \in ToSet(Devices), i \in {0, 1} : i \in driver'[d] <=> i \in driver[d]
  <2>1. acq.pc = "reset" /\ UNCHANGED <<attached, shown, table, handle>>
    BY <1>1 DEF ResetDevice
  <2>2. acq.reset => \A i \in {0, 1} : claim[NewDev][i] = 0
    BY <2>1, NewIsFree DEF DInv
  <2>3. \A d \in ToSet(Devices), i \in {0, 1} :
          i \in driver'[d] <=>
            \/ i \in driver[d]
            \/ /\ acq.reset /\ ~handle[New].gone /\ d = NewDev
               /\ i \in HasDriver /\ claim[d][i] # 0
    BY <1>0, <1>1, ResetEffect
  <2>4. \A d \in ToSet(Devices), i \in {0, 1} : i \in driver'[d] <=> i \in driver[d]
    BY <2>2, <2>3
  <2> QED
    BY <2>1, <2>4
<1>2. Detach => UNCHANGED <<attached, driver>> \/ (Detach /\ ~handle[New].gone)
  BY DEF Detach
<1>3. ASSUME NEW h \in DOMAIN handle, Closing(h)
      PROVE  \/ UNCHANGED <<attached, driver>>
             \/ Closing(h) /\ handle[h].state = "attach" /\ AttachDriver(h)
  BY <1>0, <1>3, ClosingEffect DEF ReleaseInterface, CloseHandle
<1>4. ASSUME NEW p \in Paths, NEW i \in Interfaces, Acquire(p, i) \/ Release(p, i)
      PROVE  UNCHANGED <<attached, driver>>
  BY <1>4 DEF deviceVars, Acquire, Release
<1>5. ASSUME NEW d \in ToSet(Devices), NEW i \in {0, 1}, OtherClaims(d, i)
      PROVE  UNCHANGED <<attached, driver>>
  BY <1>5 DEF OtherClaims
<1>6. UNCHANGED vars \/ Enumerate \/ Stolen \/ Prepare \/ ListDevices \/ Open \/ Claim
      => UNCHANGED <<attached, driver>>
  BY DEF vars, deviceVars, Enumerate, Stolen, Prepare, ListDevices, Open, Claim
<1>7. (\E h \in DOMAIN handle : Closing(h)) =>
        \/ UNCHANGED <<attached, driver>>
        \/ \E h \in DOMAIN handle : Closing(h) /\ handle[h].state = "attach" /\ AttachDriver(h)
  BY <1>3
<1>8. \/ \E p \in Paths, i \in Interfaces : Acquire(p, i)
      \/ \E p \in Paths, i \in Interfaces : Release(p, i)
      \/ \E d \in ToSet(Devices), i \in {0, 1} : OtherClaims(d, i)
      => UNCHANGED <<attached, driver>>
  BY <1>4, <1>5
<1> QED
  BY <1>1, <1>2, <1>6, <1>7, <1>8, Actions

\* a handle does what it did, except in these steps
LEMMA FlagsStay ==
  ASSUME BusAssumption, IInv, DInv, [Next]_vars, NEW k \in DOMAIN handle, NEW d, NEW i,
         ~Detach, ~\E e \in ToSet(Devices) : Unplug(e),
         ~(Closing(k) /\ handle[k].state = "attach")
  PROVE  WillAttach(k, d, i)' <=> WillAttach(k, d, i)
BY FlagsKept, WillSame

LEMMA DriversKnownStep ==
  ASSUME BusAssumption, IInv, DInv, [Next]_vars, NEW d \in attached', NEW i \in {0, 1}
  PROVE  i \in driver'[d] <=> i \in HasDriver /\ \A h \in DOMAIN handle' : ~WillAttach(h, d, i)'
<1> DEFINE Goal == i \in driver'[d] <=>
                     i \in HasDriver /\ \A h \in DOMAIN handle' : ~WillAttach(h, d, i)'
<1>0. TypeOK /\ NewHandle
  BY DEF IInv
<1>k. /\ driver \in [ToSet(Devices) -> SUBSET {0, 1}] /\ attached \subseteq ToSet(Devices)
      /\ HasDriver \subseteq {0, 1}
  BY <1>0 DEF TypeOK, BusAssumption
<1>1. ASSUME NEW e \in ToSet(Devices), Plug(e) PROVE Goal
  <2>1. /\ handle' = handle /\ e \notin attached /\ attached' = attached \cup {e}
        /\ driver' = [driver EXCEPT ![e] = HasDriver]
    BY <1>1 DEF Plug
  <2>2. CASE d = e
    <3>1. driver'[d] = HasDriver
      BY <1>k, <2>1, <2>2
    <3>2. \A h \in DOMAIN handle : ~WillAttach(h, d, i)'
      BY <2>1, <2>2 DEF DInv, AwayIsGone, WillAttach
    <3> QED
      BY <2>1, <3>1, <3>2
  <2>3. CASE d # e
    <3>1. d \in attached /\ driver'[d] = driver[d]
      BY <1>k, <2>1, <2>3
    <3>2. \A h \in DOMAIN handle : WillAttach(h, d, i)' <=> WillAttach(h, d, i)
      BY <2>1 DEF WillAttach
    <3> QED
      BY <3>1, <3>2, DriverKeeps
  <2> QED
    BY <2>2, <2>3
<1>2. ASSUME NEW e \in ToSet(Devices), Unplug(e) PROVE Goal
  <2>1. d # e /\ d \in attached /\ driver'[d] = driver[d]
    BY <1>k, <1>2 DEF Unplug
  <2>2. ASSUME NEW h \in DOMAIN handle PROVE WillAttach(h, d, i)' <=> WillAttach(h, d, i)
    <3>1. /\ handle'[h].dev = handle[h].dev /\ handle'[h].iface = handle[h].iface
          /\ handle'[h].attach = handle[h].attach /\ handle'[h].state = handle[h].state
          /\ handle'[h].gone <=> handle[h].gone \/ handle[h].dev = e
      BY <1>0, <1>2, UnplugEffect
    <3> QED
      BY <2>1, <3>1 DEF WillAttach
  <2> QED
    BY <2>1, <2>2, DriverKeeps
<1>3. ASSUME UNCHANGED <<attached, handle>>,
             \A e \in ToSet(Devices), j \in {0, 1} : j \in driver'[e] <=> j \in driver[e]
      PROVE  Goal
  <2>1. d \in attached /\ (i \in driver'[d] <=> i \in driver[d])
    BY <1>k, <1>3
  <2>2. \A h \in DOMAIN handle : WillAttach(h, d, i)' <=> WillAttach(h, d, i)
    BY <1>3 DEF WillAttach
  <2> QED
    BY <2>1, <2>2, DriverKeeps
<1>4. ASSUME Detach, ~handle[New].gone PROVE Goal
  <2>1. acq.pc = "detach" /\ attached' = attached
    BY <1>4 DEF Detach
  <2>2. /\ New \in DOMAIN handle /\ handle[New].iface = acq.iface
        /\ handle[New].state = "opening" /\ ~handle[New].attach
    BY <1>0, <2>1, NewFacts DEF NewHandle
  <2>3. DOMAIN handle' = DOMAIN handle
    BY <1>0, <1>4, DetachEffect
  <2>4. \A k \in DOMAIN handle : k # New => handle'[k] = handle[k]
    BY <1>0, <1>4, DetachEffect
  <2>5. handle'[New].attach <=> acq.iface \in driver[NewDev]
    BY <1>0, <1>4, DetachEffect
  <2>6. /\ handle'[New].dev = NewDev /\ handle'[New].iface = acq.iface
        /\ handle'[New].state = "opening" /\ ~handle'[New].gone
    BY <1>0, <1>4, <2>2, DetachEffect DEF NewDev
  <2>7. i \in driver'[d] <=> i \in driver[d] /\ ~(d = NewDev /\ i = acq.iface)
    BY <1>0, <1>4, <1>k, <2>1, DetachEffect
  <2>8. \A k \in DOMAIN handle : k # New => (WillAttach(k, d, i)' <=> WillAttach(k, d, i))
    BY <2>4 DEF WillAttach
  <2>9. ~WillAttach(New, d, i)
    BY <2>2 DEF WillAttach
  <2>10. i \in driver[d] <=> i \in HasDriver /\ \A h \in DOMAIN handle : ~WillAttach(h, d, i)
    BY <2>1 DEF DInv, DriversKnown
  <2>n. PICK n : n = New
    OBVIOUS
  <2>11. WillAttach(n, d, i)' <=> d = NewDev /\ i = acq.iface /\ handle'[n].attach
    BY <2>6, <2>n DEF WillAttach
  <2>12. n \in DOMAIN handle /\ ~WillAttach(n, d, i)
    BY <2>2, <2>9, <2>n
  <2>13. \A k \in DOMAIN handle : k # n => (WillAttach(k, d, i)' <=> WillAttach(k, d, i))
    BY <2>8, <2>n
  <2>14. handle'[n].attach <=> acq.iface \in driver[NewDev]
    BY <2>5, <2>n
  <2>15. CASE d = NewDev /\ i = acq.iface
    <3>1. i \notin driver'[d]
      BY <2>7, <2>15
    <3>2. CASE i \in driver[d]
      <4>1. WillAttach(n, d, i)'
        BY <2>11, <2>14, <2>15, <3>2
      <4> QED
        BY <2>3, <2>12, <3>1, <4>1
    <3>3. CASE i \notin driver[d]
      <4>1. i \notin HasDriver \/ \E h \in DOMAIN handle : h # n /\ WillAttach(h, d, i)
        BY <2>10, <2>12, <3>3
      <4> QED
        BY <2>3, <2>13, <3>1, <4>1
    <3> QED
      BY <3>2, <3>3
  <2>16. CASE ~(d = NewDev /\ i = acq.iface)
    <3>1. \A h \in DOMAIN handle : WillAttach(h, d, i)' <=> WillAttach(h, d, i)
      BY <2>11, <2>12, <2>13, <2>16
    <3>2. i \in driver'[d] <=> i \in driver[d]
      BY <2>7, <2>16
    <3> QED
      BY <2>1, <3>1, <3>2, DriverKeeps
  <2> QED
    BY <2>15, <2>16
<1>5. ASSUME NEW h \in DOMAIN handle, Closing(h), handle[h].state = "attach", AttachDriver(h)
      PROVE  Goal
  <2>1. /\ attached' = attached /\ handle[h].dev \in ToSet(Devices) /\ handle[h].iface \in {0, 1}
        /\ handle' = [handle EXCEPT ![h].state = "close"]
    BY <1>0, <1>5, ClosingEffect
  <2>2. /\ DOMAIN handle' = DOMAIN handle /\ handle'[h].state = "close"
        /\ \A k \in DOMAIN handle : k # h => handle'[k] = handle[k]
    BY <1>0, <2>1, StateSet DEF States
  <2>3. ~WillAttach(h, d, i)'
    BY <2>2 DEF WillAttach
  <2>4. \A k \in DOMAIN handle : k # h => (WillAttach(k, d, i)' <=> WillAttach(k, d, i))
    BY <2>2 DEF WillAttach
  <2>5. ASSUME ~handle[h].gone PROVE claim[handle[h].dev][handle[h].iface] = 0
    <3>1. acq.pc = "steal" /\ h = acq.prev
      BY <1>5, <2>5 DEF DInv, StolenCloses
    <3>2. handle[h].iface = acq.iface /\ PortsOf(handle[h].dev) = acq.path
      BY <3>1 DEF DInv, StolenCloses
    <3>3. table[acq.path][acq.iface] = 0
      BY <3>1 DEF IInv, Acquiring
    <3> QED
      BY <1>5, <2>1, <3>1, <3>2, <3>3, FreeOfSessions DEF DInv
  <2>6. CASE handle[h].attach /\ ~handle[h].gone
    <3>1. driver' = [driver EXCEPT ![handle[h].dev] = @ \cup {handle[h].iface}]
      BY <1>5, <2>5, <2>6 DEF AttachDriver
    <3>2. CASE d = handle[h].dev /\ i = handle[h].iface
      <4>1. i \in driver'[d]
        BY <1>k, <2>1, <3>1, <3>2
      <4>2. i \in HasDriver
        BY <2>6, <3>2 DEF DInv, AttachIsDriver
      <4>3. \A k \in DOMAIN handle : k # h => ~WillAttach(k, d, i)
        BY <1>5, <2>6, <3>2, OnlyStolen DEF DInv
      <4> QED
        BY <2>2, <2>3, <2>4, <4>1, <4>2, <4>3
    <3>3. CASE ~(d = handle[h].dev /\ i = handle[h].iface)
      <4>1. i \in driver'[d] <=> i \in driver[d]
        BY <1>k, <2>1, <3>1, <3>3
      <4>2. ~WillAttach(h, d, i)
        BY <3>3 DEF WillAttach
      <4> QED
        BY <2>1, <2>3, <2>4, <4>1, <4>2, DriverKeeps
    <3> QED
      BY <3>2, <3>3
  <2>7. CASE ~(handle[h].attach /\ ~handle[h].gone)
    <3>1. driver' = driver
      BY <1>5, <2>7 DEF AttachDriver
    <3>2. ~WillAttach(h, d, i)
      BY <2>7 DEF WillAttach
    <3> QED
      BY <2>1, <2>3, <2>4, <3>1, <3>2, DriverKeeps
  <2> QED
    BY <2>6, <2>7
<1>6. ASSUME UNCHANGED <<attached, driver>>, ~\E e \in ToSet(Devices) : Unplug(e),
             ~(Detach /\ ~handle[New].gone),
             ~\E h \in DOMAIN handle :
                Closing(h) /\ handle[h].state = "attach" /\ AttachDriver(h)
      PROVE  Goal
  <2>1. ASSUME NEW k \in DOMAIN handle PROVE WillAttach(k, d, i)' <=> WillAttach(k, d, i)
    <3>1. ~(Closing(k) /\ handle[k].state = "attach")
      BY <1>0, <1>6, ClosingEffect
    <3>2. CASE ~Detach
      BY <1>6, <3>1, <3>2, FlagsStay
    <3>3. CASE Detach
      <4>1. acq.pc = "detach" /\ NextCandidate
        BY <1>6, <3>3 DEF Detach
      <4>2. New \in DOMAIN handle /\ handle' = [handle EXCEPT ![New].state = "closed"]
        BY <1>0, <4>1, NextEffect
      <4>3. handle'[k].attach = handle[k].attach /\ handle'[k].gone = handle[k].gone
        BY <1>0, <4>2, StateSet DEF States
      <4> QED
        BY <3>1, <4>3, WillSame
    <3> QED
      BY <3>2, <3>3
  <2> QED
    BY <1>6, <2>1, DriverKeeps
<1> HIDE DEF Goal
<1>7. Goal
  BY <1>1, <1>2, <1>3, <1>4, <1>5, <1>6, DriverMoves
<1> QED
  BY <1>7 DEF Goal

\* nobody binds the driver again between a detach and the claim
LEMMA DetachedStep ==
  ASSUME BusAssumption, IInv, DInv, [Next]_vars
  PROVE  (acq.pc = "claim" /\ ~handle[New].gone => acq.iface \notin driver[NewDev])'
<1>0. TypeOK /\ NewHandle
  BY DEF IInv
<1>k. /\ driver \in [ToSet(Devices) -> SUBSET {0, 1}] /\ attached \subseteq ToSet(Devices)
      /\ acq.iface \in {0, 1}
  BY <1>0 DEF TypeOK
<1> SUFFICES ASSUME acq'.pc = "claim", ~handle'[New'].gone
             PROVE  acq'.iface \notin driver'[handle'[New'].dev]
  BY DEF NewDev
<1>1. CASE Detach
  <2>1. acq.pc = "detach"
    BY <1>1 DEF Detach
  <2>2. New \in DOMAIN handle /\ NewDev \in ToSet(Devices)
    BY <1>0, <2>1, NewFacts
  <2>3. ~NextCandidate
    BY <1>0, <2>1, NextEffect
  <2>4. Len(handle') = Len(handle) /\ acq'.iface = acq.iface
    BY <1>0, <1>1, <2>3, DetachEffect DEF SameRequest
  <2>5. handle'[New].dev = NewDev
    BY <1>0, <1>1, <2>2, <2>3, DetachEffect DEF NewDev
  <2>6. acq.iface \notin driver'[NewDev]
    BY <1>0, <1>1, <1>k, <2>2, <2>3, DetachEffect
  <2>7. New' = New
    BY <2>4 DEF New
  <2> QED
    BY <2>4, <2>5, <2>6, <2>7
<1>2. CASE ~Detach
  <2>1. acq' = acq /\ acq.pc = "claim"
    BY <1>2, StealMoves
  <2>2. New \in DOMAIN handle /\ NewDev \in ToSet(Devices)
    BY <1>0, <2>1, NewFacts
  <2>3. Calm
    BY <2>1, CalmStep DEF Opening, Storing
  <2>4. New' = New /\ handle'[New].dev = NewDev
    BY <2>2, <2>3 DEF Calm, FieldsKept, New, NewDev
  <2>5. ~handle[New].gone
    BY <2>2, <2>4, HandlesKept
  <2>6. acq.iface \notin driver[NewDev]
    BY <2>1, <2>5 DEF DInv, DriversKnown
  <2>7. NewDev \in attached
    BY <2>2, <2>5 DEF DInv, AwayIsGone, NewDev
  <2>8. acq.iface \notin driver'[NewDev]
    <3>1. ASSUME NEW d \in ToSet(Devices), Plug(d) \/ Unplug(d)
          PROVE  acq.iface \notin driver'[NewDev]
      <4>1. \/ d # NewDev /\ driver' = [driver EXCEPT ![d] = HasDriver]
            \/ driver' = [driver EXCEPT ![d] = {}]
        BY <2>7, <3>1 DEF Plug, Unplug
      <4> QED
        BY <1>k, <2>2, <2>6, <4>1
    <3>2. ASSUME NEW h \in DOMAIN handle, AttachDriver(h), handle[h].state = "attach"
          PROVE  acq.iface \notin driver'[NewDev]
      <4>1. handle[h].gone
        BY <2>1, <3>2 DEF DInv, StolenCloses
      <4> QED
        BY <2>6, <3>2, <4>1 DEF AttachDriver
    <3> QED
      BY <1>2, <1>k, <2>2, <2>6, <3>1, <3>2, DriverMoves
  <2> QED
    BY <2>1, <2>4, <2>8
<1> QED
  BY <1>1, <1>2

LEMMA InitDInv ==
  ASSUME BusAssumption, Init
  PROVE  DInv
<1>1. DOMAIN handle = {} /\ attached = {}
  BY DEF Init
<1>2. acq.pc = "idle"
  BY IdleEffect DEF Init
<1>3. AwayIsGone /\ AttachIsDriver
  BY <1>1 DEF AwayIsGone, AttachIsDriver
<1>4. ClaimsHeld
  BY DEF Init, ClaimsHeld, ClaimsOwned, BusAssumption, OtherProgram
<1>5. StolenCloses /\ DriversKnown
  BY <1>1, <1>2 DEF StolenCloses, DriversKnown
<1> QED
  BY <1>3, <1>4, <1>5 DEF DInv

LEMMA StepDInv ==
  ASSUME BusAssumption, ~Foreign, ~Releases, IInv, DInv, [Next]_vars
  PROVE  DInv'
<1>1. AwayIsGone'
  BY AwayStep DEF DInv
<1>2. ClaimsHeld'
  BY ClaimsStep DEF DInv
<1>3. StolenCloses'
  BY StolenStep DEF DInv
<1>4. AttachIsDriver'
  BY AttachIsStep
<1>5. DriversKnown'
  BY DriversKnownStep, DetachedStep DEF DriversKnown
<1> QED
  BY <1>1, <1>2, <1>3, <1>4, <1>5 DEF DInv

(***************************************************************************)
(* libusb.go: "it is just re-attach anyway".  As long as nobody else       *)
(* claims interfaces and clients only steal sessions, the kernel drivers a *)
(* device came with are bound again whenever nobody uses it.               *)
(***************************************************************************)
THEOREM DriversRestored ==
  ASSUME BusAssumption, ~Foreign, ~Releases
  PROVE  Spec => []DriverRestored
<1>1. Init => IInv /\ DInv
  BY InitIInv, InitDInv
<1>2. (IInv /\ DInv) /\ [Next]_vars => (IInv /\ DInv)'
  BY StepIInv, StepDInv
<1>3. IInv /\ DInv => DriverRestored
  <2> SUFFICES ASSUME IInv, DInv, \A h \in DOMAIN handle : handle[h].state = "closed",
                      NEW d \in attached
               PROVE  driver[d] = HasDriver
    BY DEF DriverRestored
  <2>1. driver[d] \subseteq {0, 1} /\ HasDriver \subseteq {0, 1}
    BY DEF IInv, TypeOK, BusAssumption
  <2>2. \A h \in DOMAIN handle, i \in {0, 1} : ~WillAttach(h, d, i)
    BY DEF WillAttach
  <2>3. \A i \in {0, 1} : i \in driver[d] <=> i \in HasDriver
    BY <2>2 DEF DInv, DriversKnown
  <2> QED
    BY <2>1, <2>3
<1> QED
  BY <1>1, <1>2, <1>3, PTL DEF Spec
-----------------------------------------------------------------------------
(* Drivers, whatever clients and other programs do.                        *)

\* a handle that was to attach the driver is done with it, or could not claim
LEMMA AttachEnds ==
  ASSUME BusAssumption, IInv, [Next]_vars,
         NEW d \in attached', NEW i \in {0, 1}, NEW k \in DOMAIN handle,
         WillAttach(k, d, i), ~WillAttach(k, d, i)'
  PROVE  \/ AttachDriver(k) /\ handle' = [handle EXCEPT ![k].state = "close"]
         \/ /\ Claim /\ k = New /\ acq.iface = i
            /\ acq.iface \in driver[NewDev] \/ claim[NewDev][acq.iface] # 0
            /\ handle' = [handle EXCEPT ![k].state = "closed"]
<1>0. TypeOK /\ NewHandle
  BY DEF IInv
<1>1. /\ handle[k].dev = d /\ handle[k].iface = i /\ handle[k].attach /\ ~handle[k].gone
      /\ handle[k].state \in {"opening", "open", "release", "attach"}
  BY DEF WillAttach
<1>2. handle'[k].dev = d /\ handle'[k].iface = i
  BY <1>1, HandlesKept
<1>3. handle'[k].attach
  <2>1. CASE Detach
    <3>1. acq.pc = "detach" /\ ~handle[New].attach
      BY <1>0, <2>1 DEF Detach, NewHandle
    <3>2. k # New
      BY <1>1, <3>1
    <3>3. CASE NextCandidate
      BY <1>0, <1>1, <3>1, <3>2, <3>3, NextEffect, StateSet DEF States
    <3>4. CASE ~NextCandidate
      BY <1>0, <1>1, <2>1, <3>2, <3>4, DetachEffect
    <3> QED
      BY <3>3, <3>4
  <2> QED
    BY <1>1, <2>1, FlagsKept
<1>4. ~handle'[k].gone
  <2>1. ASSUME NEW e \in ToSet(Devices), Unplug(e) PROVE ~handle'[k].gone
    <3>1. e # d
      BY <2>1 DEF Unplug
    <3> QED
      BY <1>0, <1>1, <2>1, <3>1, UnplugEffect
  <2> QED
    BY <1>1, <2>1, FlagsKept
<1>5. handle'[k].state \notin {"opening", "open", "release", "attach"}
  BY <1>2, <1>3, <1>4 DEF WillAttach
<1>6. Calm
  <2>1. CASE Opening
    BY <1>1, <1>5, <2>1 DEF Opening
  <2>2. CASE Storing
    <3>1. New \in DOMAIN handle /\ handle' = [handle EXCEPT ![New].state = "open"]
      BY <1>0, <2>2, NewFacts DEF Storing
    <3>2. handle'[New].state = "open" /\ \A j \in DOMAIN handle : j # New => handle'[j] = handle[j]
      BY <1>0, <3>1, StateSet DEF States
    <3> QED
      BY <1>1, <1>5, <3>2
  <2> QED
    BY <2>1, <2>2, CalmStep
<1>7. \/ /\ handle[k].state = "opening" /\ k = New
         /\ acq.pc \in {"detach", "claim"} /\ acq'.pc = "open"
      \/ Closing(k) /\ handle[k].state \in {"release", "attach"}
  BY <1>1, <1>5, <1>6 DEF Calm, StateMoves
<1>8. CASE Closing(k) /\ handle[k].state \in {"release", "attach"}
  <2>1. \/ /\ handle[k].state = "release"
           /\ handle' = [handle EXCEPT ![k].state = "attach"]
        \/ AttachDriver(k) /\ handle' = [handle EXCEPT ![k].state = "close"]
    BY <1>0, <1>8, ClosingEffect
  <2>2. handle' = [handle EXCEPT ![k].state = "attach"] => handle'[k].state = "attach"
    BY <1>0, StateSet DEF States
  <2> QED
    BY <1>5, <2>1, <2>2
<1>9. CASE /\ handle[k].state = "opening" /\ k = New
           /\ acq.pc \in {"detach", "claim"} /\ acq'.pc = "open"
  <2>1. acq.pc = "claim"
    BY <1>0, <1>1, <1>9 DEF NewHandle
  <2>2. Claim
    BY <1>0, <1>9, <2>1, Actions, ClosingEffect
       DEF vars, Plug, Unplug, OtherClaims, Enumerate, Acquire, Release, Stolen, Prepare,
           ListDevices, Open, ResetDevice, Detach
  <2>3. NextCandidate /\ (acq.iface \in driver[NewDev] \/ claim[NewDev][acq.iface] # 0)
    BY <1>0, <1>1, <1>9, <2>2, ClaimEffect
  <2>4. handle' = [handle EXCEPT ![k].state = "closed"]
    BY <1>0, <1>9, <2>1, <2>3, NextEffect
  <2>5. acq.iface = i
    BY <1>0, <1>1, <1>9, <2>1, NewFacts
  <2> QED
    BY <1>9, <2>2, <2>3, <2>4, <2>5
<1> QED
  BY <1>7, <1>8, <1>9

\* only a detach takes a driver off a device that stays
LEMMA DriverTaken ==
  ASSUME BusAssumption, IInv, [Next]_vars,
         NEW d \in attached, d \in attached', NEW i \in {0, 1},
         i \in driver[d], i \notin driver'[d]
  PROVE  Detach /\ ~handle[New].gone /\ d = NewDev /\ i = acq.iface
<1>0. TypeOK /\ NewHandle
  BY DEF IInv
<1>k. driver \in [ToSet(Devices) -> SUBSET {0, 1}] /\ d \in ToSet(Devices)
  BY <1>0 DEF TypeOK
<1>1. ASSUME NEW e \in ToSet(Devices), Plug(e) \/ Unplug(e) PROVE FALSE
  <2>1. e # d
    BY <1>1 DEF Plug, Unplug
  <2>2. driver'[d] = driver[d]
    BY <1>k, <1>1, <2>1 DEF Plug, Unplug
  <2> QED
    BY <2>2
<1>2. ASSUME NEW h \in DOMAIN handle, Closing(h) PROVE FALSE
  <2>1. handle[h].dev \in ToSet(Devices)
    BY <1>0, <1>2, ClosingEffect
  <2>2. driver' = driver \/ driver' = [driver EXCEPT ![handle[h].dev] = @ \cup {handle[h].iface}]
    BY <1>0, <1>2, ClosingEffect DEF ReleaseInterface, AttachDriver, CloseHandle
  <2> QED
    BY <1>k, <2>1, <2>2
<1>3. ~ResetDevice
  BY <1>0, <1>k, ResetEffect
<1>4. ~UNCHANGED driver
  OBVIOUS
<1>5. \/ UNCHANGED vars \/ Enumerate \/ Stolen \/ Prepare \/ ListDevices \/ Open \/ Claim
      \/ \E e \in ToSet(Devices), j \in {0, 1} : OtherClaims(e, j)
      \/ \E p \in Paths, j \in Interfaces : Acquire(p, j)
      \/ \E p \in Paths, j \in Interfaces : Release(p, j)
      => UNCHANGED driver
  BY DEF vars, deviceVars, Enumerate, Stolen, Prepare, ListDevices, Open, Claim, OtherClaims,
         Acquire, Release
<1>6. Detach
  BY <1>1, <1>2, <1>3, <1>4, <1>5, Actions
<1> QED
  BY <1>0, <1>4, <1>6, <1>k, DetachEffect

(***************************************************************************)
(* libusb.go: "it is just re-attach anyway".  Whatever clients, resets and *)
(* other programs do, no step leaves an interface without its driver and   *)
(* without a handle that will attach it, unless somebody who has not       *)
(* detached it claims the interface.                                       *)
(***************************************************************************)
THEOREM DriversLostToClaims ==
  ASSUME BusAssumption
  PROVE  Spec => [][DriverLostToClaim]_vars
<1>1. Init => IInv /\ ClaimsOwned
  BY InitIInv, InitDInv DEF DInv, ClaimsHeld
<1>2. (IInv /\ ClaimsOwned) /\ [Next]_vars => (IInv /\ ClaimsOwned)'
  BY StepIInv, ClaimsOwnedStep
<1>3. (IInv /\ ClaimsOwned) /\ [Next]_vars => [DriverLostToClaim]_vars
  <2> SUFFICES ASSUME IInv, ClaimsOwned, [Next]_vars,
                      NEW d \in attached, d \in attached', NEW i \in {0, 1},
                      DriverKept(d, i), ~DriverKept(d, i)'
               PROVE  /\ claim[d][i] # 0
                      /\ \A h \in DOMAIN handle : claim[d][i] = h => ~WillAttach(h, d, i)
    BY DEF DriverLostToClaim
  <2>0. TypeOK /\ NewHandle /\ d \in ToSet(Devices)
    BY DEF IInv, TypeOK
  <2>1. i \notin driver[d]
    <3> SUFFICES ASSUME i \in driver[d] PROVE FALSE
      OBVIOUS
    <3>1. Detach /\ ~handle[New].gone /\ d = NewDev /\ i = acq.iface
      BY DriverTaken DEF DriverKept
    <3>2. New \in DOMAIN handle /\ handle[New].iface = i /\ handle[New].state = "opening"
      BY <2>0, <3>1, NewFacts DEF Detach
    <3>3. /\ handle'[New].attach /\ handle'[New].dev = d /\ handle'[New].iface = i
          /\ handle'[New].state = "opening" /\ ~handle'[New].gone
          /\ DOMAIN handle' = DOMAIN handle
      BY <2>0, <3>1, <3>2, DetachEffect DEF NewDev
    <3>n. PICK n : n = New
      OBVIOUS
    <3>4. n \in DOMAIN handle' /\ WillAttach(n, d, i)'
      BY <3>2, <3>3, <3>n DEF WillAttach
    <3> QED
      BY <3>4 DEF DriverKept
  <2>2. PICK k \in DOMAIN handle : WillAttach(k, d, i)
    BY <2>1 DEF DriverKept
  <2>3. \A h \in DOMAIN handle : ~WillAttach(h, d, i)'
    BY HandlesKept DEF DriverKept
  <2>4. \/ AttachDriver(k) /\ handle' = [handle EXCEPT ![k].state = "close"]
        \/ /\ Claim /\ k = New /\ acq.iface = i
           /\ acq.iface \in driver[NewDev] \/ claim[NewDev][acq.iface] # 0
           /\ handle' = [handle EXCEPT ![k].state = "closed"]
    BY <2>2, <2>3, AttachEnds
  <2>5. handle[k].dev = d /\ handle[k].iface = i /\ handle[k].attach /\ ~handle[k].gone
    BY <2>2 DEF WillAttach
  <2>6. handle[k].state \in {"opening", "attach"}
    BY <2>0, <2>4, NewFacts DEF AttachDriver, At, Claim
  <2>7. claim[d][i] # 0
    <3>1. CASE AttachDriver(k)
      <4> SUFFICES ASSUME claim[d][i] = 0 PROVE FALSE
        OBVIOUS
      <4>1. driver' = [driver EXCEPT ![d] = @ \cup {i}]
        BY <2>5, <3>1 DEF AttachDriver
      <4>2. i \in driver'[d]
        BY <2>0, <4>1 DEF TypeOK
      <4> QED
        BY <4>2 DEF DriverKept
    <3> QED
      BY <2>1, <2>4, <2>5, <3>1 DEF NewDev
  <2>8. ASSUME NEW h \in DOMAIN handle, claim[d][i] = h PROVE ~WillAttach(h, d, i)
    <3>1. h \notin {0, OtherProgram}
      BY <2>0, TableFacts
    <3>2. handle[h].state \in {"open", "release"}
      BY <2>0, <2>8, <3>1 DEF ClaimsOwned
    <3>3. h # k
      BY <2>6, <3>2
    <3>4. handle'[h] = handle[h]
      BY <2>0, <2>4, <3>3, StateSet DEF States
    <3> QED
      BY <2>3, <3>4 DEF WillAttach
  <2> QED
    BY <2>7, <2>8
<1> QED
  BY <1>1, <1>2, <1>3, PTL DEF Spec
-----------------------------------------------------------------------------
(* No two devices have the same port numbers.                              *)

LEMMA ShownStep ==
  ASSUME BusAssumption, IInv, ShownIsPath, [Next]_vars
  PROVE  ShownIsPath'
<1>0. TypeOK /\ NewHandle
  BY DEF IInv
<1>1. (acq'.pc # "idle" => acq.pc # "idle" /\ acq'.path = acq.path) \/ UNCHANGED acq \/ Asked
  BY RequestMoves DEF Opening, Storing, GoesOn, SameRequest
<1>2. Asked => \E p \in Paths, i \in Interfaces : Acquire(p, i)
  <2> SUFFICES ASSUME Asked PROVE \E p \in Paths, i \in Interfaces : Acquire(p, i)
    OBVIOUS
  <2>1. acq.pc = "idle" /\ acq'.pc # "idle"
    BY DEF Asked
  <2>2. \A h \in DOMAIN handle : Closing(h) => UNCHANGED acq
    BY <1>0, ClosingEffect
  <2> QED
    BY <2>1, <2>2, Actions
       DEF vars, Plug, Unplug, OtherClaims, Enumerate, Release, Stolen, Prepare,
           ListDevices, Open, ResetDevice, Detach, Claim
<1>3. ASSUME NEW p \in Paths, NEW i \in Interfaces, Acquire(p, i)
      PROVE  acq'.path \in DOMAIN shown /\ UNCHANGED shown
  <2>1. i \in {0, 1}
    BY DEF BusAssumption
  <2> QED
    BY <1>0, <1>3, <2>1, AcquireEffect
<1>4. Enumerate \/ UNCHANGED shown
  <2>1. ASSUME NEW p \in Paths, NEW i \in Interfaces, Release(p, i) PROVE UNCHANGED shown
    BY <2>1 DEF Release
  <2>2. ASSUME NEW h \in DOMAIN handle, Closing(h) PROVE UNCHANGED shown
    BY <1>0, <2>2, ClosingEffect
  <2>3. UNCHANGED vars \/ Stolen \/ Prepare \/ ListDevices \/ Open => UNCHANGED shown
    BY DEF vars, Stolen, Prepare, ListDevices, Open
  <2>4. ResetDevice \/ Detach \/ Claim => UNCHANGED shown
    BY DEF ResetDevice, Detach, Claim
  <2>5. ASSUME NEW d \in ToSet(Devices), NEW i \in {0, 1}, Plug(d) \/ Unplug(d) \/ OtherClaims(d, i)
        PROVE  UNCHANGED shown
    BY <2>5 DEF Plug, Unplug, OtherClaims
  <2>6. (\E d \in ToSet(Devices) : Plug(d) \/ Unplug(d)) => UNCHANGED shown
    BY DEF Plug, Unplug
  <2> QED
    BY <1>3, <2>1, <2>2, <2>3, <2>4, <2>5, <2>6, Actions
<1>5. CASE UNCHANGED shown
  <2>1. acq'.pc # "idle" => acq'.path \in DOMAIN shown
    BY <1>1, <1>2, <1>3 DEF ShownIsPath
  <2> QED
    BY <1>5, <2>1 DEF ShownIsPath
<1>6. CASE Enumerate
  <2>1. acq' = acq /\ acq.pc = "idle"
    BY <1>6 DEF Enumerate
  <2> DEFINE listed == {p \in Paths : Matching(p) # {}}
  <2>2. shown' = [p \in listed |-> Devices[Foremost(Matching(p))]]
    BY <1>6 DEF Enumerate
  <2>3. ASSUME NEW p \in listed
        PROVE  shown'[p] \in ToSet(Devices) /\ PortsOf(shown'[p]) = p
    <3>1. Matching(p) \in SUBSET DOMAIN Devices /\ Matching(p) # {}
      BY DEF Matching
    <3>2. Foremost(Matching(p)) \in Matching(p)
      BY <3>1, ForemostIn
    <3>3. Devices[Foremost(Matching(p))] \in ToSet(Devices)
      BY <3>1, ForemostIn
    <3>4. \A n \in Matching(p) : PortsOf(Devices[n]) = p
      BY DEF Matching
    <3> QED
      BY <2>2, <3>2, <3>3, <3>4
  <2>4. DOMAIN shown' = listed
    BY <2>2
  <2> HIDE DEF listed
  <2> QED
    BY <2>1, <2>3, <2>4 DEF ShownIsPath
<1> QED
  BY <1>4, <1>5, <1>6

(***************************************************************************)
(* README: "path uniquely defines device between more connected devices".  *)
(* It does when no two devices have the same port numbers: Connect then    *)
(* makes the session of a path on the device the path was listed for.      *)
(***************************************************************************)
THEOREM SessionsOnShown ==
  ASSUME BusAssumption,
         \A c, d \in ToSet(Devices) : PortsOf(c) = PortsOf(d) => c = d
  PROVE  Spec => [][SessionOnShown]_vars
<1>1. Init => IInv /\ ShownIsPath
  BY InitIInv, IdleEffect DEF Init, ShownIsPath
<1>2. (IInv /\ ShownIsPath) /\ [Next]_vars => (IInv /\ ShownIsPath)'
  BY StepIInv, ShownStep
<1>3. (IInv /\ ShownIsPath) /\ [Next]_vars => [SessionOnShown]_vars
  <2> SUFFICES ASSUME IInv, ShownIsPath, [Next]_vars, NEW p \in Paths, NEW i \in {0, 1},
                      table'[p][i] # 0, table'[p][i] # table[p][i]
               PROVE  handle[table'[p][i]].dev = shown[p]
    BY DEF SessionOnShown
  <2>1. Storing
    BY CalmStep DEF Opening, Calm, TableLess
  <2>2. table'[p][i] = New /\ p = acq.path
    BY <2>1 DEF Storing
  <2>3. NewDev \in ToSet(Devices) /\ PortsOf(NewDev) = acq.path
    BY <2>1, NewFacts DEF IInv, Storing
  <2>4. shown[p] \in ToSet(Devices) /\ PortsOf(shown[p]) = p
    BY <2>1, <2>2 DEF ShownIsPath, Storing
  <2>5. NewDev = shown[p]
    BY <2>2, <2>3, <2>4
  <2> QED
    BY <2>2, <2>5 DEF NewDev
<1> QED
  BY <1>1, <1>2, <1>3, PTL DEF Spec
===============================================================================
