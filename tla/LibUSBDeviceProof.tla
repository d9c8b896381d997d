-------------------------- MODULE LibUSBDeviceProof --------------------------
(***************************************************************************)
(* Proofs about LibUSBDevice, for every set of handles and every number of *)
(* slots: the table of running transfers is shared by all of them.         *)
(*                                                                         *)
(* Two transfers of one endpoint exclude each other because whoever has    *)
(* one holds the mutex of the endpoint (Holders).  NoSlotLeak is inductive *)
(* with the types: an entry comes with a process that begins to wait, and  *)
(* a process that ends its wait takes one out if the handle has any.       *)
(***************************************************************************)
EXTENDS LibUSBDevice, FiniteSetTheorems, WellFoundedInduction, TLAPS

\* from the lock of the endpoint's mutex to its unlock
Locked == {"submit", "save", "wait", "remove", "free"}

Holders == \A p \in Procs : pc[p] \in Locked => mutex[p[1]][Endpoint(p)] = p

\* a process has a transfer only between its submission and its end
Allocated == \A p \in Procs : transfer[p] # "none" => pc[p] \in Locked \ {"submit"}

IInv == TypeOK /\ Holders /\ Allocated /\ NoSlotLeak
-----------------------------------------------------------------------------
LEMMA ProcParts ==
  /\ \A p \in Procs : /\ p[1] \in Handles /\ p[2] \in Roles /\ p = <<p[1], p[2]>>
                      /\ Endpoint(p) \in {"in", "out"} /\ p # None
  /\ \A h \in Handles, r \in Roles : /\ <<h, r>> \in Procs
                                     /\ <<h, r>>[1] = h /\ <<h, r>>[2] = r
BY DeviceAssumption DEF Procs, Roles, Endpoint

(***************************************************************************)
(* The entries and the waiting processes of a handle.                      *)
(***************************************************************************)
Waiting(h) == {p \in {h} \X Roles : pc[p] \in {"wait", "remove"}}

LEMMA CountsAreFinite ==
  ASSUME NEW h \in Handles
  PROVE  /\ IsFiniteSet(SlotsOf(h)) /\ Cardinality(SlotsOf(h)) \in Nat
         /\ IsFiniteSet(Waiting(h)) /\ Cardinality(Waiting(h)) \in Nat
<1>1. IsFiniteSet(1 .. Slots)
  BY DeviceAssumption, FS_Interval
<1>2. IsFiniteSet(SlotsOf(h))
  BY <1>1, FS_Subset DEF SlotsOf
<1>3. IsFiniteSet(Roles)
  <2>1. Roles = ({"read"} \cup {"write"}) \cup {"close"}
    BY DEF Roles
  <2> QED
    BY <2>1, FS_Singleton, FS_Union
<1>4. IsFiniteSet({h} \X Roles)
  BY <1>3, FS_Singleton, FS_Product
<1>5. IsFiniteSet(Waiting(h))
  BY <1>4, FS_Subset DEF Waiting
<1> QED
  BY <1>2, <1>5, FS_CardinalityType

(***************************************************************************)
(* A set of numbers has a least one: of the sets of the numbers below one  *)
(* of them, which are finite, one is the smallest.                         *)
(***************************************************************************)
LEMMA LeastNumber ==
  ASSUME NEW S \in SUBSET Nat, S # {}
  PROVE  \E i \in S : \A j \in S : i <= j
<1> DEFINE Below(i) == {j \in S : j < i}
           Belows == {Below(i) : i \in S}
<1>0. \A k \in S : k \in Nat
  OBVIOUS
<1>1. \A i \in S : Below(i) \in FiniteSubsetsOf(Nat)
  <2> SUFFICES ASSUME NEW i \in S PROVE Below(i) \in FiniteSubsetsOf(Nat)
    OBVIOUS
  <2>1. 0 \in Int /\ i \in Int
    BY <1>0
  <2>2. IsFiniteSet(0 .. i)
    BY <2>1, FS_Interval
  <2>3. Below(i) \in SUBSET (0 .. i)
    <3> SUFFICES ASSUME NEW k \in Below(i) PROVE k \in 0 .. i
      OBVIOUS
    <3>1. k \in Nat /\ k < i
      BY <1>0
    <3> QED
      BY <2>1, <3>1
  <2>4. IsFiniteSet(Below(i))
    BY <2>2, <2>3, FS_Subset
  <2> QED
    BY <2>3, <2>4, <1>0 DEF FiniteSubsetsOf
<1>2. PICK B \in Belows : \A C \in Belows : <<C, B>> \notin StrictSubsetOrdering(Nat)
  <2>1. Belows \subseteq FiniteSubsetsOf(Nat) /\ Belows # {}
    BY <1>1
  <2> HIDE DEF Belows
  <2> QED
    BY <2>1, WFMin, FS_StrictSubsetOrderingWellFounded
<1>3. PICK i \in S : B = Below(i)
  BY <1>2
<1>4. \A j \in S : i <= j
  <2> SUFFICES ASSUME NEW j \in S, j < i PROVE FALSE
    OBVIOUS
  <2>1. i \in Nat /\ j \in Nat
    BY <1>0
  <2>2. \A k \in S : k < j => k < i
    BY <1>0, <2>1
  <2>5. Below(j) \subseteq Below(i)
    BY <2>2
  <2>3. j \in Below(i) /\ j \notin Below(j)
    BY <2>1
  <2>4. Below(j) \in SUBSET Nat /\ Below(i) \in SUBSET Nat /\ Below(j) # Below(i)
    BY <2>3
  <2> HIDE DEF Below
  <2>6. <<Below(j), B>> \in StrictSubsetOrdering(Nat)
    BY <1>3, <2>5, <2>4 DEF StrictSubsetOrdering
  <2> QED
    BY <1>2, <2>6
<1> QED
  BY <1>4

LEMMA FirstIsIn ==
  ASSUME NEW S \in SUBSET (1 .. Slots), S # {}
  PROVE  First(S) \in S
<1>1. S \in SUBSET Nat
  BY DeviceAssumption
<1>2. PICK i \in S : \A j \in S : i <= j
  BY <1>1, LeastNumber
<1> QED
  BY <1>2 DEF First

(***************************************************************************)
(* What the two operations on the table do to it.                          *)
(***************************************************************************)
LEMMA EntrySaved ==
  ASSUME TypeOK, NEW p \in Procs, Save(p)
  PROVE  \/ running' = running
         \/ \E i \in 1 .. Slots :
              running[i] = None /\ running' = [running EXCEPT ![i] = p]
<1>1. CASE EmptySlots = {}
  BY <1>1 DEF Save
<1>2. CASE EmptySlots # {}
  <2>1. EmptySlots \in SUBSET (1 .. Slots)
    BY DEF EmptySlots
  <2>2. First(EmptySlots) \in EmptySlots
    BY <1>2, <2>1, FirstIsIn
  <2> QED
    BY <1>2, <2>2 DEF Save, EmptySlots
<1> QED
  BY <1>1, <1>2

LEMMA EntryRemoved ==
  ASSUME TypeOK, NEW h \in Handles, RemoveEntry(h)
  PROVE  \/ SlotsOf(h) = {} /\ running' = running
         \/ \E i \in SlotsOf(h) : running' = [running EXCEPT ![i] = None]
<1>1. CASE SlotsOf(h) = {}
  BY <1>1 DEF RemoveEntry
<1>2. CASE SlotsOf(h) # {}
  <2>1. SlotsOf(h) \in SUBSET (1 .. Slots)
    BY DEF SlotsOf
  <2>2. First(SlotsOf(h)) \in SlotsOf(h)
    BY <1>2, <2>1, FirstIsIn
  <2> QED
    BY <1>2, <2>2 DEF RemoveEntry
<1> QED
  BY <1>1, <1>2

\* the entry that is taken out to be cancelled is a process
LEMMA EntryIsProcess ==
  ASSUME TypeOK, NEW h \in Handles, SlotsOf(h) # {}
  PROVE  running[First(SlotsOf(h))] \in Procs \cup {None}
<1>1. SlotsOf(h) \in SUBSET (1 .. Slots)
  BY DEF SlotsOf
<1>2. First(SlotsOf(h)) \in 1 .. Slots
  BY <1>1, FirstIsIn
<1> QED
  BY <1>2 DEF TypeOK
-----------------------------------------------------------------------------
(***************************************************************************)
(* Types.                                                                  *)
(***************************************************************************)
LEMMA LocksKeepType ==
  ASSUME TypeOK, NEW p \in Procs
  PROVE  /\ [mutex EXCEPT ![p[1]][Endpoint(p)] = p]
              \in [Handles -> [{"in", "out"} -> Procs \cup {None}]]
         /\ [mutex EXCEPT ![p[1]][Endpoint(p)] = None]
              \in [Handles -> [{"in", "out"} -> Procs \cup {None}]]
BY ProcParts DEF TypeOK

LEMMA TypeStep ==
  ASSUME TypeOK, [Next]_vars
  PROVE  TypeOK'
<1> USE DEF TypeOK
<1>1. ASSUME NEW p \in Procs, Check(p) PROVE TypeOK'
  BY <1>1 DEF Check, Goto, PCs
<1>2. ASSUME NEW p \in Procs, LockEndpoint(p) PROVE TypeOK'
  BY <1>2, LocksKeepType DEF LockEndpoint, Goto, PCs, Lock
<1>3. ASSUME NEW p \in Procs, Submit(p) PROVE TypeOK'
  BY <1>3 DEF Submit, Goto, PCs
<1>4. ASSUME NEW p \in Procs, SubmitError(p) PROVE TypeOK'
  BY <1>4, LocksKeepType DEF SubmitError, Failed, Unlock, PCs
<1>5. ASSUME NEW p \in Procs, Save(p) PROVE TypeOK'
  BY <1>5, EntrySaved DEF Save, Goto, PCs
<1>6. ASSUME NEW p \in Procs, Wake(p) PROVE TypeOK'
  BY <1>6 DEF Wake, Goto, PCs
<1>7. ASSUME NEW p \in Procs, Remove(p) PROVE TypeOK'
  <2>1. running' \in [1 .. Slots -> Procs \cup {None}]
    BY <1>7, ProcParts, EntryRemoved DEF Remove
  <2> QED
    BY <1>7, <2>1 DEF Remove, Goto, PCs
<1>8. ASSUME NEW p \in Procs, Free(p) PROVE TypeOK'
  <2>1. /\ pc' \in [Procs -> PCs]
        /\ transfer' \in [Procs -> {"none", "pending", "ended"}]
    BY <1>8 DEF Free, Failed, Succeeded, Goto, PCs
  <2>2. mutex' \in [Handles -> [{"in", "out"} -> Procs \cup {None}]]
    BY <1>8, LocksKeepType, ZenonT(60) DEF Free, Failed, Succeeded, Unlock
  <2> QED
    BY <1>8, <2>1, <2>2 DEF Free
<1>9. ASSUME NEW p \in Procs, Complete(p) PROVE TypeOK'
  BY <1>9 DEF Complete
<1>10. ASSUME NEW h \in Handles, Open(h) PROVE TypeOK'
  BY <1>10 DEF Open
<1>11. ASSUME NEW h \in Handles, CloseStart(h) PROVE TypeOK'
  BY <1>11, ProcParts DEF CloseStart, Goto, PCs, Roles
<1>12. ASSUME NEW h \in Handles, CancelGet(h) PROVE TypeOK'
  <2>1. running' \in [1 .. Slots -> Procs \cup {None}]
    BY <1>12, EntryRemoved DEF CancelGet
  <2>2. target' \in [Handles -> Procs \cup {None}]
    BY <1>12, EntryIsProcess DEF CancelGet
  <2> QED
    BY <1>12, <2>1, <2>2, ProcParts DEF CancelGet, Goto, PCs, Roles
<1>13. ASSUME NEW h \in Handles, Cancel(h) PROVE TypeOK'
  <2>1. pc' \in [Procs -> PCs]
    BY <1>13 DEF Cancel, Goto, PCs
  <2>2. transfer' \in [Procs -> {"none", "pending", "ended"}]
    BY <1>13 DEF Cancel
  <2> QED
    BY <1>13, <2>1, <2>2 DEF Cancel
<1>14. ASSUME NEW h \in Handles, Release(h) PROVE TypeOK'
  BY <1>14, ProcParts DEF Release, Goto, PCs, Roles
<1>15. CASE UNCHANGED vars
  BY <1>15 DEF vars
<1> QED
  BY <1>1, <1>2, <1>3, <1>4, <1>5, <1>6, <1>7, <1>8, <1>9, <1>10, <1>11, <1>12,
     <1>13, <1>14, <1>15 DEF Next, Transferring, Closing
-----------------------------------------------------------------------------
(***************************************************************************)
(* Who has a transfer holds the mutex of its endpoint.                     *)
(***************************************************************************)
\* the steps of Close that are not of its drain
LEMMA CloserStep ==
  ASSUME TypeOK, Holders, Allocated, NEW h \in Handles,
         NEW from \in PCs \ Locked, NEW to \in PCs \ Locked,
         Goto(<<h, "close">>, from, to), UNCHANGED mutex,
         \A p \in Procs : transfer'[p] # "none" => transfer[p] # "none"
  PROVE  Holders' /\ Allocated'
<1> DEFINE c == <<h, "close">>
<1>1. c \in Procs /\ pc[c] \notin Locked
  BY ProcParts DEF Roles, Goto
<1>2. pc' = [pc EXCEPT ![c] = to] /\ pc'[c] \notin Locked
  BY <1>1 DEF Goto, TypeOK
<1>3. \A p \in Procs : pc'[p] \in Locked => pc[p] \in Locked /\ pc'[p] = pc[p]
  BY <1>1, <1>2 DEF TypeOK
<1>4. \A p \in Procs : pc[p] \in Locked => pc'[p] = pc[p]
  BY <1>1, <1>2 DEF TypeOK
<1> QED
  BY <1>3, <1>4 DEF Holders, Allocated

LEMMA HoldersStep ==
  ASSUME TypeOK, Holders, Allocated, [Next]_vars
  PROVE  Holders' /\ Allocated'
<1> USE ProcParts DEF TypeOK, Holders, Allocated, Locked
<1>1. ASSUME NEW p \in Procs, Check(p) PROVE Holders' /\ Allocated'
  BY <1>1 DEF Check, Goto
<1>2. ASSUME NEW p \in Procs, LockEndpoint(p) PROVE Holders' /\ Allocated'
  BY <1>2 DEF LockEndpoint, Goto, Lock
<1>3. ASSUME NEW p \in Procs, Submit(p) PROVE Holders' /\ Allocated'
  BY <1>3 DEF Submit, Goto
<1>4. ASSUME NEW p \in Procs, SubmitError(p) PROVE Holders' /\ Allocated'
  BY <1>4 DEF SubmitError, Failed, Unlock
<1>5. ASSUME NEW p \in Procs, Save(p) PROVE Holders' /\ Allocated'
  BY <1>5 DEF Save, Goto
<1>6. ASSUME NEW p \in Procs, Wake(p) PROVE Holders' /\ Allocated'
  BY <1>6 DEF Wake, Goto
<1>7. ASSUME NEW p \in Procs, Remove(p) PROVE Holders' /\ Allocated'
  BY <1>7 DEF Remove, Goto
<1>8. ASSUME NEW p \in Procs, Free(p) PROVE Holders' /\ Allocated'
  <2>1. pc[p] = "free" /\ transfer' = [transfer EXCEPT ![p] = "none"]
    BY <1>8 DEF Free
  <2>2. /\ pc'[p] \in {"release", "idle", "submit"}
        /\ \A q \in Procs : q # p => pc'[q] = pc[q]
    BY <1>8 DEF Free, Failed, Succeeded
  <2>3. \/ pc'[p] = "submit" /\ UNCHANGED mutex
        \/ pc'[p] # "submit" /\ Unlock(p)
    BY <1>8 DEF Free, Failed, Succeeded
  <2>4. Allocated'
    BY <2>1, <2>2
  <2>5. CASE pc'[p] = "submit" /\ UNCHANGED mutex
    BY <2>1, <2>2, <2>4, <2>5
  <2>6. CASE pc'[p] # "submit" /\ Unlock(p)
    <3>1. \A q \in Procs : pc'[q] \in Locked =>
             mutex[q[1]][Endpoint(q)] = q /\ mutex[p[1]][Endpoint(p)] = p /\ q # p
      BY <2>1, <2>2, <2>6
    <3> QED
      BY <2>4, <2>6, <3>1 DEF Unlock
  <2> QED
    BY <2>3, <2>5, <2>6
<1>9. ASSUME NEW p \in Procs, Complete(p) PROVE Holders' /\ Allocated'
  BY <1>9 DEF Complete
<1>10. ASSUME NEW h \in Handles, Open(h) PROVE Holders' /\ Allocated'
  BY <1>10 DEF Open
<1>11. ASSUME NEW h \in Handles, CloseStart(h) PROVE Holders' /\ Allocated'
  <2>1. /\ Goto(<<h, "close">>, "idle", "cancelGet")
        /\ UNCHANGED <<mutex, transfer>>
    BY <1>11 DEF CloseStart
  <2>2. "idle" \in PCs \ Locked /\ "cancelGet" \in PCs \ Locked
    BY DEF PCs
  <2> HIDE DEF TypeOK, Holders, Allocated, Locked
  <2> QED
    BY <2>1, <2>2, CloserStep
<1>12. ASSUME NEW h \in Handles, CancelGet(h) PROVE Holders' /\ Allocated'
  <2>1. Goto(<<h, "close">>, "cancelGet", "cancel") /\ UNCHANGED <<mutex, transfer>>
    BY <1>12 DEF CancelGet
  <2>2. "cancelGet" \in PCs \ Locked /\ "cancel" \in PCs \ Locked
    BY DEF PCs
  <2> HIDE DEF TypeOK, Holders, Allocated, Locked
  <2> QED
    BY <2>1, <2>2, CloserStep
<1>13. ASSUME NEW h \in Handles, Cancel(h) PROVE Holders' /\ Allocated'
  <2>1. \A p \in Procs : transfer'[p] # "none" => transfer[p] # "none"
    BY <1>13 DEF Cancel
  <2>2. PICK next \in {"lock", "release"} : Goto(<<h, "close">>, "cancel", next)
    BY <1>13 DEF Cancel
  <2>3. "cancel" \in PCs \ Locked /\ next \in PCs \ Locked
    BY DEF PCs
  <2> QED
    <3>1. UNCHANGED mutex
      BY <1>13 DEF Cancel
    <3> HIDE DEF TypeOK, Holders, Allocated, Locked
    <3> QED
      BY <2>1, <2>2, <2>3, <3>1, CloserStep
<1>14. ASSUME NEW h \in Handles, Release(h) PROVE Holders' /\ Allocated'
  <2>1. Goto(<<h, "close">>, "release", "idle") /\ UNCHANGED <<mutex, transfer>>
    BY <1>14 DEF Release
  <2>2. "release" \in PCs \ Locked /\ "idle" \in PCs \ Locked
    BY DEF PCs
  <2> HIDE DEF TypeOK, Holders, Allocated, Locked
  <2> QED
    BY <2>1, <2>2, CloserStep
<1>15. CASE UNCHANGED vars
  BY <1>15 DEF vars
<1> QED
  BY <1>1, <1>2, <1>3, <1>4, <1>5, <1>6, <1>7, <1>8, <1>9, <1>10, <1>11, <1>12,
     <1>13, <1>14, <1>15 DEF Next, Transferring, Closing
-----------------------------------------------------------------------------
(***************************************************************************)
(* Entries and waiting processes are counted together.                     *)
(***************************************************************************)
LEMMA CountsKept ==
  ASSUME TypeOK, NoSlotLeak, NEW h \in Handles,
         SlotsOf(h)' \subseteq SlotsOf(h), Waiting(h)' = Waiting(h)
  PROVE  Cardinality(SlotsOf(h)') <= Cardinality(Waiting(h)')
<1>1. Cardinality(SlotsOf(h)') <= Cardinality(SlotsOf(h))
  BY CountsAreFinite, FS_Subset
<1>2. Cardinality(SlotsOf(h)') \in Nat
  BY CountsAreFinite, FS_Subset, FS_CardinalityType
<1>3. Cardinality(SlotsOf(h)) <= Cardinality(Waiting(h))
  BY DEF NoSlotLeak, Waiting
<1> QED
  BY <1>1, <1>2, <1>3, CountsAreFinite

\* the steps that begin or end no wait
LEMMA NoWaitStep ==
  ASSUME TypeOK, NoSlotLeak,
         \A h \in Handles : SlotsOf(h)' \subseteq SlotsOf(h),
         \A p \in Procs : pc'[p] \in {"wait", "remove"} <=> pc[p] \in {"wait", "remove"}
  PROVE  NoSlotLeak'
<1> SUFFICES ASSUME NEW h \in Handles
             PROVE  Cardinality(SlotsOf(h)') <= Cardinality(Waiting(h)')
  BY DEF NoSlotLeak, Waiting
<1>1. Waiting(h)' = Waiting(h)
  BY DEF Waiting, Procs
<1> QED
  BY <1>1, CountsKept

\* a handle that neither a table step nor a wait is about
LEMMA OtherHandle ==
  ASSUME TypeOK, NoSlotLeak, NEW h \in Handles, NEW p \in Procs, p[1] # h,
         \A q \in Procs : q # p => pc'[q] = pc[q],
         SlotsOf(h)' \subseteq SlotsOf(h)
  PROVE  Cardinality(SlotsOf(h)') <= Cardinality(Waiting(h)')
<1>1. \A q \in {h} \X Roles : q \in Procs /\ q # p
  BY DEF Procs
<1>2. Waiting(h)' = Waiting(h)
  BY <1>1 DEF Waiting
<1> QED
  BY <1>2, CountsKept

LEMMA SaveCounted ==
  ASSUME TypeOK, NoSlotLeak, NEW p \in Procs, Save(p)
  PROVE  NoSlotLeak'
<1> DEFINE o == p[1]
<1>1. /\ pc[p] = "save" /\ pc' = [pc EXCEPT ![p] = "wait"]
      /\ o \in Handles /\ p \in {o} \X Roles /\ p # None
  BY ProcParts DEF Save, Goto, Procs
<1>2. \A h \in Handles : h # o => SlotsOf(h)' \subseteq SlotsOf(h)
  BY <1>1, EntrySaved DEF SlotsOf, TypeOK
<1>3. \E i \in Nat : SlotsOf(o)' \subseteq SlotsOf(o) \cup {i}
  <2>1. CASE running' = running
    BY <2>1 DEF SlotsOf
  <2>2. ASSUME NEW i \in 1 .. Slots, running' = [running EXCEPT ![i] = p]
        PROVE  SlotsOf(o)' \subseteq SlotsOf(o) \cup {i}
    BY <2>2 DEF SlotsOf, TypeOK
  <2> QED
    BY <2>1, <2>2, EntrySaved, DeviceAssumption
<1>4. Waiting(o)' = Waiting(o) \cup {p} /\ p \notin Waiting(o)
  BY <1>1 DEF Waiting, Procs, TypeOK
<1>5. Cardinality(SlotsOf(o)') <= Cardinality(Waiting(o)')
  <2>1. PICK i \in Nat : SlotsOf(o)' \subseteq SlotsOf(o) \cup {i}
    BY <1>3
  <2>2. /\ IsFiniteSet(SlotsOf(o) \cup {i})
        /\ Cardinality(SlotsOf(o) \cup {i}) <= Cardinality(SlotsOf(o)) + 1
    <3>1. IsFiniteSet(SlotsOf(o)) /\ Cardinality(SlotsOf(o)) \in Nat
      BY <1>1, CountsAreFinite
    <3>2. /\ IsFiniteSet(SlotsOf(o) \cup {i})
          /\ Cardinality(SlotsOf(o) \cup {i}) =
               IF i \in SlotsOf(o) THEN Cardinality(SlotsOf(o)) ELSE Cardinality(SlotsOf(o)) + 1
      BY <3>1, FS_AddElement
    <3> QED
      BY <3>1, <3>2
  <2>3. /\ Cardinality(SlotsOf(o)') <= Cardinality(SlotsOf(o) \cup {i})
        /\ Cardinality(SlotsOf(o)') \in Nat
        /\ Cardinality(SlotsOf(o) \cup {i}) \in Nat
    BY <2>1, <2>2, FS_Subset, FS_CardinalityType
  <2>4. Cardinality(Waiting(o)') = Cardinality(Waiting(o)) + 1
    BY <1>1, <1>4, CountsAreFinite, FS_AddElement
  <2>5. Cardinality(SlotsOf(o)) <= Cardinality(Waiting(o))
    BY <1>1 DEF NoSlotLeak, Waiting
  <2> QED
    BY <1>1, <2>2, <2>3, <2>4, <2>5, CountsAreFinite
<1>6. \A q \in Procs : q # p => pc'[q] = pc[q]
  BY <1>1 DEF TypeOK
<1>7. \A h \in Handles : Cardinality(SlotsOf(h)') <= Cardinality(Waiting(h)')
  BY <1>2, <1>5, <1>6, OtherHandle
<1> QED
  BY <1>7 DEF NoSlotLeak, Waiting

\* what ends its wait takes an entry with it, if there is any
LEMMA RemoveCounted ==
  ASSUME TypeOK, NoSlotLeak, NEW p \in Procs, Remove(p)
  PROVE  NoSlotLeak'
<1> DEFINE o == p[1]
<1>1. /\ pc[p] = "remove" /\ pc' = [pc EXCEPT ![p] = "free"]
      /\ o \in Handles /\ p \in {o} \X Roles /\ RemoveEntry(o)
  BY ProcParts DEF Remove, Goto, Procs
<1>2. \A h \in Handles : h # o => SlotsOf(h)' \subseteq SlotsOf(h)
  BY <1>1, EntryRemoved DEF SlotsOf, TypeOK
<1>3. \/ SlotsOf(o)' = {}
      \/ \E i \in SlotsOf(o) : SlotsOf(o)' = SlotsOf(o) \ {i}
  <2>1. CASE SlotsOf(o) = {} /\ running' = running
    BY <2>1 DEF SlotsOf
  <2>2. ASSUME NEW i \in SlotsOf(o), running' = [running EXCEPT ![i] = None]
        PROVE  SlotsOf(o)' = SlotsOf(o) \ {i}
    BY <2>2 DEF SlotsOf, TypeOK
  <2> QED
    BY <1>1, <2>1, <2>2, EntryRemoved
<1>4. Waiting(o)' = Waiting(o) \ {p} /\ p \in Waiting(o)
  BY <1>1 DEF Waiting, Procs, TypeOK
<1>5. /\ Cardinality(Waiting(o)') = Cardinality(Waiting(o)) - 1
      /\ Cardinality(Waiting(o)') \in Nat
  BY <1>1, <1>4, CountsAreFinite, FS_RemoveElement, FS_CardinalityType
<1>6. Cardinality(SlotsOf(o)') <= Cardinality(Waiting(o)')
  <2>1. CASE SlotsOf(o)' = {}
    BY <1>5, <2>1, FS_EmptySet
  <2>2. CASE \E i \in SlotsOf(o) : SlotsOf(o)' = SlotsOf(o) \ {i}
    <3>1. Cardinality(SlotsOf(o)') = Cardinality(SlotsOf(o)) - 1
      <4>1. PICK i \in SlotsOf(o) : SlotsOf(o)' = SlotsOf(o) \ {i}
        BY <2>2
      <4>2. IsFiniteSet(SlotsOf(o))
        BY <1>1, CountsAreFinite
      <4>3. Cardinality(SlotsOf(o) \ {i}) = Cardinality(SlotsOf(o)) - 1
        BY <4>2, FS_RemoveElement
      <4> QED
        BY <4>1, <4>3
    <3>2. Cardinality(SlotsOf(o)) <= Cardinality(Waiting(o))
      BY <1>1 DEF NoSlotLeak, Waiting
    <3> QED
      BY <1>1, <1>5, <3>1, <3>2, CountsAreFinite
  <2> QED
    BY <1>3, <2>1, <2>2
<1>7. \A q \in Procs : q # p => pc'[q] = pc[q]
  BY <1>1 DEF TypeOK
<1>8. \A h \in Handles : Cardinality(SlotsOf(h)') <= Cardinality(Waiting(h)')
  BY <1>2, <1>6, <1>7, OtherHandle
<1> QED
  BY <1>8 DEF NoSlotLeak, Waiting

LEMMA SlotsStep ==
  ASSUME TypeOK, NoSlotLeak, [Next]_vars
  PROVE  NoSlotLeak'
<1>1. ASSUME NEW p \in Procs, \/ Check(p) \/ LockEndpoint(p) \/ Submit(p)
                              \/ SubmitError(p) \/ Wake(p) \/ Free(p)
                              \/ Complete(p)
      PROVE  NoSlotLeak'
  <2>1. running' = running
    BY <1>1 DEF Check, LockEndpoint, Submit, SubmitError, Wake, Free, Complete
  <2>2. \A q \in Procs :
           pc'[q] \in {"wait", "remove"} <=> pc[q] \in {"wait", "remove"}
    BY <1>1 DEF Check, LockEndpoint, Submit, SubmitError, Wake, Free, Complete,
                Goto, Failed, Succeeded, TypeOK
  <2> QED
    BY <2>1, <2>2, NoWaitStep DEF SlotsOf
<1>2. ASSUME NEW p \in Procs, Save(p) PROVE NoSlotLeak'
  BY <1>2, SaveCounted
<1>3. ASSUME NEW p \in Procs, Remove(p) PROVE NoSlotLeak'
  BY <1>3, RemoveCounted
<1>4. ASSUME NEW h \in Handles, \/ Open(h) \/ CloseStart(h) \/ Cancel(h) \/ Release(h)
      PROVE  NoSlotLeak'
  <2>1. running' = running
    BY <1>4 DEF Open, CloseStart, Cancel, Release
  <2>2. \A q \in Procs :
           pc'[q] \in {"wait", "remove"} <=> pc[q] \in {"wait", "remove"}
    BY <1>4 DEF Open, CloseStart, Cancel, Release, Goto, TypeOK
  <2> QED
    BY <2>1, <2>2, NoWaitStep DEF SlotsOf
<1>5. ASSUME NEW h \in Handles, CancelGet(h) PROVE NoSlotLeak'
  <2>1. \A k \in Handles : SlotsOf(k)' \subseteq SlotsOf(k)
    BY <1>5, EntryRemoved DEF CancelGet, SlotsOf, TypeOK
  <2>2. \A q \in Procs :
           pc'[q] \in {"wait", "remove"} <=> pc[q] \in {"wait", "remove"}
    BY <1>5 DEF CancelGet, Goto, TypeOK
  <2> QED
    BY <2>1, <2>2, NoWaitStep
<1>6. CASE UNCHANGED vars
  BY <1>6, NoWaitStep DEF vars, SlotsOf
<1> QED
  BY <1>1, <1>2, <1>3, <1>4, <1>5, <1>6 DEF Next, Transferring, Closing
-----------------------------------------------------------------------------
LEMMA InitIInv == Init => IInv
<1> SUFFICES ASSUME Init PROVE IInv
  OBVIOUS
<1>1. TypeOK
  BY DEF Init, TypeOK, PCs
<1>2. Holders /\ Allocated
  BY DEF Init, Holders, Allocated, Locked
<1>3. ASSUME NEW h \in Handles
      PROVE  Cardinality(SlotsOf(h)) <= Cardinality(Waiting(h))
  <2>1. SlotsOf(h) = {}
    BY DEF Init, SlotsOf
  <2> QED
    BY <2>1, FS_EmptySet, CountsAreFinite
<1> QED
  BY <1>1, <1>2, <1>3 DEF IInv, NoSlotLeak, Waiting

(***************************************************************************)
(* Every reachable state of the handles and of the table of sync.c has the *)
(* invariant.                                                              *)
(***************************************************************************)
THEOREM Invariant == Spec => []IInv
<1>1. IInv /\ [Next]_vars => IInv'
  BY TypeStep, HoldersStep, SlotsStep DEF IInv
<1> QED
  BY <1>1, InitIInv, PTL DEF Spec

(***************************************************************************)
(* The handle, its mutexes, the table and the transfers keep their types;  *)
(* a slot names a transfer that exists (usb/libusb.go, sync.c).            *)
(***************************************************************************)
THEOREM TypeCorrect == Spec => []TypeOK
BY Invariant, PTL DEF IInv

(***************************************************************************)
(* For every number of handles: two transfers never run at the same time   *)
(* on an endpoint of a handle, the drain of Close included                 *)
(* (usb/libusb.go, readWrite and finishReadQueue).                         *)
(***************************************************************************)
THEOREM EndpointsHaveOneTransfer == Spec => []OneTransferPerEndpoint
<1>1. IInv => OneTransferPerEndpoint
  BY DEF IInv, Holders, Allocated, OneTransferPerEndpoint
<1> QED
  BY <1>1, Invariant, PTL

(***************************************************************************)
(* For every size of the table and any number of handles that share it:    *)
(* no entry is left of a handle none of whose transfers waits, also when   *)
(* the table was full (sync.c, get_and_remove_running_transfer).           *)
(***************************************************************************)
THEOREM SlotsDoNotLeak == Spec => []NoSlotLeak
BY Invariant, PTL DEF IInv
=============================================================================
