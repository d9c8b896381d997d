------------------------------ MODULE HidProof -------------------------------
(***************************************************************************)
(* Proofs about Hid, for every set of threads, every bound on the handles, *)
(* with and without the prepended report number, for both firmwares.       *)
(***************************************************************************)
EXTENDS Hid, FiniteSetTheorems, WellFoundedInduction, TLAPS

\* between Lock and Unlock
InMutex == {"copy", "transfer", "again", "close", "unlock"}

\* the steps of an operation, and what is known of its handle
Operations ==
  \A t \in Threads :
    /\ thread[t].pc \in {"store", "close"} => thread[t].op = "close"
    /\ thread[t].pc \in {"check", "copy", "transfer", "again"} => thread[t].op # "close"
    /\ thread[t].pc = "idle" => thread[t].op = "read"
    /\ thread[t].pc # "idle" => prepend[thread[t].h] # "none"

\* who holds the mutexes
MutexHeld ==
  /\ \A h \in Handles : mutex[h] = {} \/ \E t \in Threads : mutex[h] = {t}
  /\ \A t \in Threads, h \in Handles :
       t \in mutex[h] <=> thread[t].h = h /\ thread[t].pc \in InMutex

\* what a handle has gone through
Opened ==
  /\ \A h \in Handles : prepend[h] # "none" => device[h] # "none"
  /\ conn.pc = "open" => device[conn.h] = "none"
  /\ conn.pc \in {"newer", "older"} => device[conn.h] # "none" /\ prepend[conn.h] = "none"

\* the stages of a close
Closes ==
  /\ \A h \in Handles : device[h] \in {"closing", "nil"} => closed[h]
  /\ \A h \in Handles : device[h] = "closing" =>
       \E t \in Threads : thread[t].h = h /\ thread[t].pc = "close"
  /\ \A t \in Threads : thread[t].op = "close" /\ thread[t].pc # "store" =>
       closed[thread[t].h]
  /\ \A t \in Threads : thread[t].op = "close" /\ thread[t].pc = "unlock" =>
       device[thread[t].h] = "nil"

IInv ==
  /\ TypeOK
  /\ Operations /\ MutexHeld /\ Opened /\ Closes
  /\ NoUseAfterClose /\ PrependIsRight /\ ClosedIsGivenBack
-----------------------------------------------------------------------------
(***************************************************************************)
(* A set of numbers has a least one: of the sets of the numbers below one  *)
(* of them, which are finite, one is the smallest.                         *)
(***************************************************************************)
LEMMA LeastNumber ==
  ASSUME NEW S \in SUBSET Nat, S # {}
  PROVE  \E i \in S : \A j \in S : i <= j
<1> DEFINE Below(i) == {j \in S : j < i}
           Belows == {Below(i) : i \in S}
<1>0. \A k \in S : k \in Nat
  OBVIOUS
<1>1. \A i \in S : Below(i) \in FiniteSubsetsOf(Nat)
  <2> SUFFICES ASSUME NEW i \in S PROVE Below(i) \in FiniteSubsetsOf(Nat)
    OBVIOUS
  <2>1. 0 \in Int /\ i \in Int
    BY <1>0
  <2>2. IsFiniteSet(0 .. i)
    BY <2>1, FS_Interval
  <2>3. Below(i) \in SUBSET (0 .. i)
    <3> SUFFICES ASSUME NEW k \in Below(i) PROVE k \in 0 .. i
      OBVIOUS
    <3>1. k \in Nat /\ k < i
      BY <1>0
    <3> QED
      BY <2>1, <3>1
  <2>4. IsFiniteSet(Below(i))
    BY <2>2, <2>3, FS_Subset
  <2> QED
    BY <2>3, <2>4, <1>0 DEF FiniteSubsetsOf
<1>2. PICK B \in Belows : \A C \in Belows : <<C, B>> \notin StrictSubsetOrdering(Nat)
  <2>1. Belows \subseteq FiniteSubsetsOf(Nat) /\ Belows # {}
    BY <1>1
  <2> HIDE DEF Belows
  <2> QED
    BY <2>1, WFMin, FS_StrictSubsetOrderingWellFounded
<1>3. PICK i \in S : B = Below(i)
  BY <1>2
<1>4. \A j \in S : i <= j
  <2> SUFFICES ASSUME NEW j \in S, j < i PROVE FALSE
    OBVIOUS
  <2>1. i \in Nat /\ j \in Nat
    BY <1>0
  <2>2. \A k \in S : k < j => k < i
    BY <1>0, <2>1
  <2>5. Below(j) \subseteq Below(i)
    BY <2>2
  <2>3. j \in Below(i) /\ j \notin Below(j)
    BY <2>1
  <2>4. Below(j) \in SUBSET Nat /\ Below(i) \in SUBSET Nat /\ Below(j) # Below(i)
    BY <2>3
  <2> HIDE DEF Below
  <2>6. <<Below(j), B>> \in StrictSubsetOrdering(Nat)
    BY <1>3, <2>5, <2>4 DEF StrictSubsetOrdering
  <2> QED
    BY <1>2, <2>6
<1> QED
  BY <1>4

\* one thread moves: what becomes of its record, the others keep theirs
Moved(t, to) ==
  /\ thread' \in [Threads -> [pc : Steps, op : {"read", "write", "close"}, h : Handles]]
  /\ \A u \in Threads : u # t => thread'[u] = thread[u]
  /\ thread'[t].pc = to
  /\ \/ to = "idle" /\ thread'[t].op = "read"
     \/ to # "idle" /\ thread'[t].op = thread[t].op /\ thread'[t].h = thread[t].h

LEMMA GotoEffect ==
  ASSUME HidAssumption, TypeOK, NEW t \in Threads, NEW to \in Steps, Goto(t, to)
  PROVE  Moved(t, to)
<1>1. 1 \in Handles
  BY DEF Handles, HidAssumption
<1>2. NoThread \in [pc : Steps, op : {"read", "write", "close"}, h : Handles]
  BY <1>1 DEF NoThread, Steps
<1>3. thread \in [Threads -> [pc : Steps, op : {"read", "write", "close"}, h : Handles]]
  BY DEF TypeOK
<1> QED
  BY <1>2, <1>3 DEF Goto, NoThread, Moved

LEMMA ThreadSteps ==
  ASSUME HidAssumption, TypeOK, NEW t \in Threads
  PROVE  /\ CheckClosed(t) => \E to \in {"idle", "lock"} : Moved(t, to)
         /\ StoreClosed(t) => Moved(t, "lock")
         /\ Lock(t) => Moved(t, IF thread[t].op = "close" THEN "close" ELSE "copy")
         /\ CopyDevice(t) =>
              Moved(t, IF device[thread[t].h] = "nil" THEN "unlock" ELSE "transfer")
         /\ Transfer(t) => \/ Moved(t, "unlock")
                           \/ thread[t].op = "read" /\ Moved(t, "again")
         /\ Again(t) => Moved(t, "check")
         /\ CloseDevice(t) => IF device[thread[t].h] = "open"
                              THEN UNCHANGED thread ELSE Moved(t, "unlock")
         /\ Unlock(t) => Moved(t, "idle")
<1>1. \A to \in Steps : Goto(t, to) => Moved(t, to)
  BY GotoEffect
<1>2. CheckClosed(t) => \E to \in {"idle", "lock"} : Moved(t, to)
  BY <1>1 DEF CheckClosed, Steps
<1>3. StoreClosed(t) => Moved(t, "lock")
  BY <1>1 DEF StoreClosed, Steps
<1>4. Lock(t) => Moved(t, IF thread[t].op = "close" THEN "close" ELSE "copy")
  BY <1>1 DEF Lock, Steps
<1>5. CopyDevice(t) =>
        Moved(t, IF device[thread[t].h] = "nil" THEN "unlock" ELSE "transfer")
  BY <1>1 DEF CopyDevice, Steps
<1>6. Transfer(t) => Moved(t, "unlock") \/ (thread[t].op = "read" /\ Moved(t, "again"))
  BY <1>1 DEF Transfer, Steps
<1>7. Again(t) => Moved(t, "check")
  BY <1>1 DEF Again, Steps
<1>8. CloseDevice(t) => IF device[thread[t].h] = "open"
                        THEN UNCHANGED thread ELSE Moved(t, "unlock")
  BY <1>1 DEF CloseDevice, Steps
<1>9. Unlock(t) => Moved(t, "idle")
  BY <1>1 DEF Unlock, Steps
<1> QED
  BY <1>2, <1>3, <1>4, <1>5, <1>6, <1>7, <1>8, <1>9

LEMMA BeginEffect ==
  ASSUME HidAssumption, TypeOK, NEW t \in Threads, Begin(t)
  PROVE  /\ thread' \in [Threads -> [pc : Steps, op : {"read", "write", "close"}, h : Handles]]
         /\ \A u \in Threads : u # t => thread'[u] = thread[u]
         /\ prepend[thread'[t].h] # "none"
         /\ \/ thread'[t].pc = "store" /\ thread'[t].op = "close"
            \/ thread'[t].pc = "check" /\ thread'[t].op # "close"
<1>1. PICK op \in {"read", "write", "close"}, h \in Handles :
        /\ prepend[h] # "none"
        /\ thread' = [thread EXCEPT ![t] =
             [pc |-> IF op = "close" THEN "store" ELSE "check", op |-> op, h |-> h]]
  BY DEF Begin
<1> QED
  BY <1>1 DEF TypeOK, Steps

\* a mutex has one holder
LEMMA OneHolder ==
  ASSUME TypeOK, MutexHeld, NEW t \in Threads, NEW u \in Threads,
         thread[t].h = thread[u].h, thread[t].pc \in InMutex, thread[u].pc \in InMutex
  PROVE  t = u
<1>1. thread[t].h \in Handles
  BY DEF TypeOK
<1>2. t \in mutex[thread[t].h] /\ u \in mutex[thread[t].h]
  BY <1>1 DEF MutexHeld
<1> QED
  BY <1>1, <1>2 DEF MutexHeld
-----------------------------------------------------------------------------

\* handles are numbers, and Connect takes the least that is free
LEMMA ConnectEffect ==
  ASSUME TypeOK, Connect
  PROVE  conn'.pc = "open" /\ conn'.h \in Handles /\ device[conn'.h] = "none"
         /\ conn' \in [pc : {"idle", "open", "newer", "older"}, h : Handles]
<1>1. Unopened \in SUBSET Nat /\ Unopened # {} /\ Unopened \subseteq Handles
  BY DEF Connect, Unopened, Handles
<1>2. PICK n \in Unopened : \A k \in Unopened : n <= k
  BY <1>1, LeastNumber
<1>3. (CHOOSE h \in Unopened : \A k \in Unopened : h <= k) \in Unopened
  BY <1>2
<1> QED
  BY <1>1, <1>3 DEF Connect, Unopened

\* where a thread may go with its operation
LEMMA OperationMoves ==
  ASSUME TypeOK, Operations, NEW t \in Threads, NEW to \in Steps, Moved(t, to),
         UNCHANGED prepend, thread[t].pc # "idle",
         to \in {"store", "close"} => thread[t].op = "close",
         to \in {"check", "copy", "transfer", "again"} => thread[t].op # "close"
  PROVE  Operations'
<1>1. ASSUME NEW u \in Threads, u # t
      PROVE  thread'[u] = thread[u]
  BY <1>1 DEF Moved
<1>2. thread'[t].pc = to
  BY DEF Moved
<1>3. to = "idle" => thread'[t].op = "read"
  BY DEF Moved
<1>4. to # "idle" => thread'[t].op = thread[t].op /\ thread'[t].h = thread[t].h
  BY DEF Moved
<1> QED
  BY <1>1, <1>2, <1>3, <1>4 DEF Operations

LEMMA OperationsStep ==
  ASSUME HidAssumption, IInv, [Next]_vars
  PROVE  Operations'
<1>0. TypeOK /\ Operations
  BY DEF IInv
<1>1. CASE DetectNewer
  BY <1>0, <1>1 DEF Operations, DetectNewer, TypeOK
<1>2. CASE DetectOlder
  BY <1>0, <1>2 DEF Operations, DetectOlder, TypeOK
<1>3. ASSUME NEW t \in Threads, Begin(t) PROVE Operations'
  <2>1. \A u \in Threads : u # t => thread'[u] = thread[u]
    BY <1>0, <1>3, BeginEffect
  <2>2. prepend[thread'[t].h] # "none"
    BY <1>0, <1>3, BeginEffect
  <2>3. \/ thread'[t].pc = "store" /\ thread'[t].op = "close"
        \/ thread'[t].pc = "check" /\ thread'[t].op # "close"
    BY <1>0, <1>3, BeginEffect
  <2>4. UNCHANGED prepend
    BY <1>3 DEF Begin
  <2> QED
    BY <1>0, <2>1, <2>2, <2>3, <2>4 DEF Operations
<1>4. ASSUME NEW t \in Threads, Lock(t) PROVE Operations'
  <2>1. thread[t].pc = "lock" /\ UNCHANGED prepend
    BY <1>4 DEF Lock
  <2>2. Moved(t, IF thread[t].op = "close" THEN "close" ELSE "copy")
    BY <1>0, <1>4, ThreadSteps
  <2> QED
    BY <1>0, <2>1, <2>2, OperationMoves DEF Steps
<1>5. ASSUME NEW t \in Threads, CheckClosed(t) PROVE Operations'
  <2>1. thread[t].pc = "check" /\ UNCHANGED prepend
    BY <1>5 DEF CheckClosed
  <2>2. \E to \in {"idle", "lock"} : Moved(t, to)
    BY <1>0, <1>5, ThreadSteps
  <2> QED
    BY <1>0, <2>1, <2>2, OperationMoves DEF Steps
<1>6. ASSUME NEW t \in Threads, StoreClosed(t) PROVE Operations'
  <2>1. thread[t].pc = "store" /\ UNCHANGED prepend
    BY <1>6 DEF StoreClosed
  <2>2. Moved(t, "lock")
    BY <1>0, <1>6, ThreadSteps
  <2> QED
    BY <1>0, <2>1, <2>2, OperationMoves DEF Steps
<1>7. ASSUME NEW t \in Threads, CopyDevice(t) PROVE Operations'
  <2>1. thread[t].pc = "copy" /\ UNCHANGED prepend
    BY <1>7 DEF CopyDevice
  <2>2. Moved(t, "unlock") \/ Moved(t, "transfer")
    BY <1>0, <1>7, ThreadSteps
  <2>3. thread[t].op # "close"
    BY <1>0, <2>1 DEF Operations
  <2> QED
    BY <1>0, <2>1, <2>2, <2>3, OperationMoves DEF Steps
<1>8. ASSUME NEW t \in Threads, Transfer(t) PROVE Operations'
  <2>1. thread[t].pc = "transfer" /\ UNCHANGED prepend
    BY <1>8 DEF Transfer
  <2>2. Moved(t, "unlock") \/ Moved(t, "again")
    BY <1>0, <1>8, ThreadSteps
  <2>3. thread[t].op # "close"
    BY <1>0, <2>1 DEF Operations
  <2> QED
    BY <1>0, <2>1, <2>2, <2>3, OperationMoves DEF Steps
<1>9. ASSUME NEW t \in Threads, Again(t) PROVE Operations'
  <2>1. thread[t].pc = "again" /\ UNCHANGED prepend
    BY <1>9 DEF Again
  <2>2. Moved(t, "check")
    BY <1>0, <1>9, ThreadSteps
  <2>3. thread[t].op # "close"
    BY <1>0, <2>1 DEF Operations
  <2> QED
    BY <1>0, <2>1, <2>2, <2>3, OperationMoves DEF Steps
<1>10. ASSUME NEW t \in Threads, CloseDevice(t) PROVE Operations'
  <2>1. thread[t].pc = "close" /\ UNCHANGED prepend
    BY <1>10 DEF CloseDevice
  <2>2. UNCHANGED thread \/ Moved(t, "unlock")
    BY <1>0, <1>10, ThreadSteps
  <2>3. CASE UNCHANGED thread
    BY <1>0, <2>1, <2>3 DEF Operations
  <2> QED
    BY <1>0, <2>1, <2>2, <2>3, OperationMoves DEF Steps
<1>11. ASSUME NEW t \in Threads, Unlock(t) PROVE Operations'
  <2>1. thread[t].pc = "unlock" /\ UNCHANGED prepend
    BY <1>11 DEF Unlock
  <2>2. Moved(t, "idle")
    BY <1>0, <1>11, ThreadSteps
  <2> QED
    BY <1>0, <2>1, <2>2, OperationMoves DEF Steps
<1>12. CASE PlugOrPull \/ Connect \/ OpenPath \/ UNCHANGED vars
  BY <1>0, <1>12 DEF Operations, PlugOrPull, Connect, OpenPath, vars
<1> QED
  BY <1>1, <1>2, <1>3, <1>4, <1>5, <1>6, <1>7, <1>8, <1>9, <1>10, <1>11, <1>12
     DEF Next, Work

\* a step of a thread that takes no mutex and lets none go
LEMMA MutexesKept ==
  ASSUME MutexHeld, NEW t \in Threads, UNCHANGED mutex,
         \A u \in Threads : u # t => thread'[u] = thread[u],
         thread[t].pc \in InMutex <=> thread'[t].pc \in InMutex,
         thread[t].pc \in InMutex => thread'[t].h = thread[t].h
  PROVE  MutexHeld'
<1>1. \A u \in Threads : thread[u].pc \in InMutex <=> thread'[u].pc \in InMutex
  OBVIOUS
<1>2. \A u \in Threads : thread[u].pc \in InMutex => thread'[u].h = thread[u].h
  OBVIOUS
<1> QED
  BY <1>1, <1>2 DEF MutexHeld

\* a step of a thread that takes the mutex of its handle
LEMMA MutexTaken ==
  ASSUME TypeOK, MutexHeld, NEW t \in Threads, NEW to \in InMutex, Moved(t, to),
         thread[t].pc = "lock", mutex[thread[t].h] = {},
         mutex' = [mutex EXCEPT ![thread[t].h] = {t}]
  PROVE  MutexHeld'
<1> DEFINE k == thread[t].h
<1>1. k \in Handles
  BY DEF TypeOK
<1>2. mutex'[k] = {t} /\ \A h \in Handles : h # k => mutex'[h] = mutex[h]
  BY <1>1 DEF TypeOK
<1>3. thread'[t].pc \in InMutex /\ thread'[t].h = k
  BY DEF Moved, InMutex
<1>4. \A u \in Threads : u # t => thread'[u] = thread[u]
  BY DEF Moved
<1>5. thread[t].pc \notin InMutex
  BY DEF InMutex
<1>6. mutex[k] = {}
  OBVIOUS
<1>7. \A h \in Handles : mutex'[h] = {} \/ \E u \in Threads : mutex'[h] = {u}
  BY <1>2 DEF MutexHeld
<1> HIDE DEF k
<1>8. ASSUME NEW u \in Threads, NEW h \in Handles
      PROVE  u \in mutex'[h] <=> thread'[u].h = h /\ thread'[u].pc \in InMutex
  <2>1. CASE u = t /\ h = k
    BY <1>2, <1>3, <2>1
  <2>2. CASE u = t /\ h # k
    BY <1>2, <1>3, <1>5, <2>2 DEF MutexHeld
  <2>3. CASE u # t /\ h = k
    BY <1>1, <1>2, <1>4, <1>6, <2>3 DEF MutexHeld
  <2>4. CASE u # t /\ h # k
    BY <1>2, <1>4, <2>4 DEF MutexHeld
  <2> QED
    BY <2>1, <2>2, <2>3, <2>4
<1> QED
  BY <1>7, <1>8 DEF MutexHeld

\* a step of a thread that lets the mutex of its handle go
LEMMA MutexLetGo ==
  ASSUME TypeOK, MutexHeld, NEW t \in Threads, NEW to \in Steps \ InMutex, Moved(t, to),
         thread[t].pc \in InMutex,
         mutex' = [mutex EXCEPT ![thread[t].h] = @ \ {t}]
  PROVE  MutexHeld'
<1> DEFINE k == thread[t].h
<1>1. k \in Handles
  BY DEF TypeOK
<1>2. mutex'[k] = mutex[k] \ {t} /\ \A h \in Handles : h # k => mutex'[h] = mutex[h]
  BY <1>1 DEF TypeOK
<1>3. thread'[t].pc \notin InMutex
  BY DEF Moved
<1>4. \A u \in Threads : u # t => thread'[u] = thread[u]
  BY DEF Moved
<1>5. t \in mutex[k]
  BY <1>1 DEF MutexHeld
<1>6. mutex[k] = {t}
  BY <1>1, <1>5 DEF MutexHeld
<1> HIDE DEF k
<1>7. \A h \in Handles : mutex'[h] = {} \/ \E u \in Threads : mutex'[h] = {u}
  BY <1>1, <1>2, <1>6 DEF MutexHeld
<1>8. ASSUME NEW u \in Threads, NEW h \in Handles
      PROVE  u \in mutex'[h] <=> thread'[u].h = h /\ thread'[u].pc \in InMutex
  <2>1. CASE u = t /\ h = k
    BY <1>2, <1>3, <2>1
  <2>2. CASE u = t /\ h # k
    <3>1. t \notin mutex[h]
      BY <2>2, <1>5 DEF MutexHeld, k
    <3> QED
      BY <1>2, <1>3, <2>2, <3>1
  <2>3. CASE u # t
    BY <1>2, <1>4, <2>3 DEF MutexHeld
  <2> QED
    BY <2>1, <2>2, <2>3
<1> QED
  BY <1>7, <1>8 DEF MutexHeld

LEMMA MutexStep ==
  ASSUME HidAssumption, IInv, [Next]_vars
  PROVE  MutexHeld'
<1>0. TypeOK /\ MutexHeld
  BY DEF IInv
<1>1. ASSUME NEW t \in Threads, Begin(t) PROVE MutexHeld'
  <2>1. \A u \in Threads : u # t => thread'[u] = thread[u]
    BY <1>0, <1>1, BeginEffect
  <2>2. thread'[t].pc \in {"store", "check"}
    BY <1>0, <1>1, BeginEffect
  <2>3. thread[t].pc = "idle" /\ UNCHANGED mutex
    BY <1>1 DEF Begin
  <2>4. thread[t].pc \notin InMutex /\ thread'[t].pc \notin InMutex
    BY <2>2, <2>3 DEF InMutex
  <2> QED
    BY <1>0, <2>1, <2>3, <2>4, MutexesKept
<1>2. ASSUME NEW t \in Threads, Lock(t) PROVE MutexHeld'
  <2>1. /\ thread[t].pc = "lock" /\ mutex[thread[t].h] = {}
        /\ mutex' = [mutex EXCEPT ![thread[t].h] = {t}]
    BY <1>2 DEF Lock
  <2>2. Moved(t, IF thread[t].op = "close" THEN "close" ELSE "copy")
    BY <1>0, <1>2, ThreadSteps
  <2> QED
    BY <1>0, <2>1, <2>2, MutexTaken DEF InMutex
<1>3. ASSUME NEW t \in Threads, NEW to \in Steps, Moved(t, to), UNCHANGED mutex,
             thread[t].pc \in InMutex <=> to \in InMutex
      PROVE  MutexHeld'
  <2>1. \A u \in Threads : u # t => thread'[u] = thread[u]
    BY <1>3 DEF Moved
  <2>2. thread'[t].pc = to
    BY <1>3 DEF Moved
  <2>3. to \in InMutex => thread'[t].h = thread[t].h
    BY <1>3 DEF Moved, InMutex
  <2> QED
    BY <1>0, <1>3, <2>1, <2>2, <2>3, MutexesKept
<1>4. ASSUME NEW t \in Threads, CheckClosed(t) PROVE MutexHeld'
  <2>1. thread[t].pc = "check" /\ UNCHANGED mutex
    BY <1>4 DEF CheckClosed
  <2>2. \E to \in {"idle", "lock"} : Moved(t, to)
    BY <1>0, <1>4, ThreadSteps
  <2> QED
    BY <1>3, <2>1, <2>2 DEF InMutex, Steps
<1>5. ASSUME NEW t \in Threads, StoreClosed(t) PROVE MutexHeld'
  <2>1. thread[t].pc = "store" /\ UNCHANGED mutex
    BY <1>5 DEF StoreClosed
  <2>2. Moved(t, "lock")
    BY <1>0, <1>5, ThreadSteps
  <2> QED
    BY <1>3, <2>1, <2>2 DEF InMutex, Steps
<1>6. ASSUME NEW t \in Threads, CopyDevice(t) PROVE MutexHeld'
  <2>1. thread[t].pc = "copy" /\ UNCHANGED mutex
    BY <1>6 DEF CopyDevice
  <2>2. Moved(t, "unlock") \/ Moved(t, "transfer")
    BY <1>0, <1>6, ThreadSteps
  <2> QED
    BY <1>3, <2>1, <2>2 DEF InMutex, Steps
<1>7. ASSUME NEW t \in Threads, Transfer(t) PROVE MutexHeld'
  <2>1. thread[t].pc = "transfer" /\ UNCHANGED mutex
    BY <1>7 DEF Transfer
  <2>2. Moved(t, "unlock") \/ Moved(t, "again")
    BY <1>0, <1>7, ThreadSteps
  <2> QED
    BY <1>3, <2>1, <2>2 DEF InMutex, Steps
<1>8. ASSUME NEW t \in Threads, Again(t) PROVE MutexHeld'
  <2>1. /\ thread[t].pc = "again"
        /\ mutex' = [mutex EXCEPT ![thread[t].h] = @ \ {t}]
    BY <1>8 DEF Again
  <2>2. Moved(t, "check")
    BY <1>0, <1>8, ThreadSteps
  <2> QED
    BY <1>0, <2>1, <2>2, MutexLetGo DEF InMutex, Steps
<1>9. ASSUME NEW t \in Threads, CloseDevice(t) PROVE MutexHeld'
  <2>1. thread[t].pc = "close" /\ UNCHANGED mutex
    BY <1>9 DEF CloseDevice
  <2>2. UNCHANGED thread \/ Moved(t, "unlock")
    BY <1>0, <1>9, ThreadSteps
  <2>3. CASE UNCHANGED thread
    BY <1>0, <2>1, <2>3 DEF MutexHeld
  <2> QED
    BY <1>3, <2>1, <2>2, <2>3 DEF InMutex, Steps
<1>10. ASSUME NEW t \in Threads, Unlock(t) PROVE MutexHeld'
  <2>1. /\ thread[t].pc = "unlock"
        /\ mutex' = [mutex EXCEPT ![thread[t].h] = @ \ {t}]
    BY <1>10 DEF Unlock
  <2>2. Moved(t, "idle")
    BY <1>0, <1>10, ThreadSteps
  <2> QED
    BY <1>0, <2>1, <2>2, MutexLetGo DEF InMutex, Steps
<1>11. CASE \/ PlugOrPull \/ Connect \/ OpenPath \/ DetectNewer \/ DetectOlder
            \/ UNCHANGED vars
  BY <1>0, <1>11
     DEF MutexHeld, PlugOrPull, Connect, OpenPath, DetectNewer, DetectOlder,
         vars
<1> QED
  BY <1>1, <1>2, <1>4, <1>5, <1>6, <1>7, <1>8, <1>9, <1>10, <1>11
     DEF Next, Work

LEMMA OpenedStep ==
  ASSUME HidAssumption, IInv, [Next]_vars
  PROVE  Opened'
<1>0. TypeOK /\ Operations /\ MutexHeld /\ Opened /\ Closes
  BY DEF IInv
<1>h. \A t \in Threads : thread[t].h \in Handles
  BY <1>0 DEF TypeOK
<1>1. CASE Connect
  BY <1>0, <1>1, ConnectEffect DEF Opened, Connect
<1>2. CASE OpenPath
  BY <1>0, <1>2 DEF Opened, OpenPath, TypeOK
<1>3. CASE DetectNewer
  BY <1>0, <1>3 DEF Opened, DetectNewer, TypeOK
<1>4. CASE DetectOlder
  BY <1>0, <1>4 DEF Opened, DetectOlder, TypeOK
<1>5. ASSUME NEW t \in Threads, CloseDevice(t) PROVE Opened'
  <2>1. /\ UNCHANGED <<prepend, conn>> /\ \A h \in Handles : device'[h] = "none" <=> device[h] = "none"
    BY <1>0, <1>h, <1>5 DEF TypeOK, CloseDevice
  <2>2. conn.h \in Handles
    BY <1>0 DEF TypeOK
  <2> QED
    BY <1>0, <2>1, <2>2 DEF Opened
<1>6. ASSUME NEW t \in Threads,
             \/ Begin(t) \/ Lock(t) \/ CheckClosed(t) \/ StoreClosed(t)
             \/ CopyDevice(t) \/ Transfer(t) \/ Again(t) \/ Unlock(t)
      PROVE  Opened'
  BY <1>0, <1>6
     DEF Opened, Begin, Lock, CheckClosed, StoreClosed, CopyDevice, Transfer,
         Again, Unlock
<1>7. CASE PlugOrPull \/ UNCHANGED vars
  BY <1>0, <1>7
     DEF Opened, PlugOrPull, vars
<1> QED
  BY <1>1, <1>2, <1>3, <1>4, <1>5, <1>6, <1>7
     DEF Next, Work

\* HidDevice.Close in its two steps; a thread has only handles that were opened
LEMMA CloseEffect ==
  ASSUME HidAssumption, TypeOK, Operations, Opened, NEW t \in Threads, CloseDevice(t)
  PROVE  /\ thread[t].pc = "close" /\ thread[t].op = "close" /\ thread[t].h \in Handles
         /\ \A h \in Handles : h # thread[t].h => device'[h] = device[h]
         /\ \/ /\ device[thread[t].h] = "open" /\ device'[thread[t].h] = "closing"
               /\ UNCHANGED thread
            \/ /\ device[thread[t].h] # "open" /\ device'[thread[t].h] = "nil"
               /\ Moved(t, "unlock")
         /\ UNCHANGED <<closed, prepend, conn>>
<1> DEFINE k == thread[t].h
<1>1. thread[t].pc = "close" /\ UNCHANGED <<closed, prepend, conn>>
  BY DEF CloseDevice
<1>2. thread[t].op = "close" /\ device[k] # "none"
  BY <1>1 DEF Operations, Opened, TypeOK
<1>3. k \in Handles /\ device[k] \in {"open", "closing", "nil"}
  BY <1>2 DEF TypeOK
<1>4. device \in [Handles -> {"none", "open", "closing", "nil"}]
  BY DEF TypeOK
<1>5. IF device[k] = "open" THEN UNCHANGED thread ELSE Moved(t, "unlock")
  BY ThreadSteps
<1>6. CASE device[k] = "open"
  <2>1. device' = [device EXCEPT ![k] = "closing"]
    BY <1>6 DEF CloseDevice
  <2> QED
    BY <1>1, <1>2, <1>3, <1>4, <1>5, <1>6, <2>1
<1>7. CASE device[k] = "closing"
  <2>1. device' = [device EXCEPT ![k] = "nil"]
    BY <1>7 DEF CloseDevice
  <2> QED
    BY <1>1, <1>2, <1>3, <1>4, <1>5, <1>7, <2>1
<1>8. CASE device[k] = "nil"
  <2>1. device' = device
    BY <1>8 DEF CloseDevice
  <2> QED
    BY <1>1, <1>2, <1>3, <1>4, <1>5, <1>8, <2>1
<1> QED
  BY <1>3, <1>6, <1>7, <1>8

\* a handle that is opened was not there before
LEMMA OpenEffect ==
  ASSUME TypeOK, Opened, OpenPath
  PROVE  /\ UNCHANGED <<thread, closed, prepend>>
         /\ conn.h \in Handles /\ device[conn.h] = "none"
         /\ \A h \in Handles : h # conn.h => device'[h] = device[h]
         /\ device'[conn.h] \in {"none", "open"}
<1>1. conn.h \in Handles /\ device[conn.h] = "none"
  BY DEF OpenPath, Opened, TypeOK
<1> QED
  BY <1>1 DEF OpenPath, TypeOK

LEMMA ClosesStep ==
  ASSUME HidAssumption, IInv, [Next]_vars
  PROVE  Closes'
<1>0. TypeOK /\ Operations /\ Opened /\ Closes /\ MutexHeld
  BY DEF IInv
<1>h. \A t \in Threads : thread[t].h \in Handles
  BY <1>0 DEF TypeOK
<1>1. CASE OpenPath
  <2>1. UNCHANGED <<thread, closed, prepend>>
    BY <1>0, <1>1, OpenEffect
  <2>2. conn.h \in Handles /\ device[conn.h] = "none"
    BY <1>0, <1>1, OpenEffect
  <2>3. \A h \in Handles : h # conn.h => device'[h] = device[h]
    BY <1>0, <1>1, OpenEffect
  <2>4. device'[conn.h] \in {"none", "open"}
    BY <1>0, <1>1, OpenEffect
  <2>5. \A t \in Threads : device[thread[t].h] = "nil" => device'[thread[t].h] = "nil"
    BY <1>h, <2>2, <2>3
  <2> QED
    BY <1>0, <2>1, <2>2, <2>3, <2>4, <2>5 DEF Closes
<1>2. ASSUME NEW t \in Threads, NEW to \in Steps, Moved(t, to), UNCHANGED device,
             \A h \in Handles : closed[h] => closed'[h],
             thread[t].pc = "store" => closed'[thread[t].h],
             thread[t].pc # "close",
             to = "unlock" => thread[t].op # "close"
      PROVE  Closes'
  <2>1. \A u \in Threads : u # t => thread'[u] = thread[u]
    BY <1>2 DEF Moved
  <2>2. thread'[t].pc = to
    BY <1>2 DEF Moved
  <2>3. \/ thread'[t].op = "read"
        \/ thread'[t].op = thread[t].op /\ thread'[t].h = thread[t].h
    BY <1>2 DEF Moved
  <2>4. \A h \in Handles : device'[h] \in {"closing", "nil"} => closed'[h]
    BY <1>0, <1>2 DEF Closes
  <2>5. \A h \in Handles : device'[h] = "closing" =>
          \E u \in Threads : thread'[u].h = h /\ thread'[u].pc = "close"
    BY <1>0, <1>2, <2>1 DEF Closes
  <2>6. \A u \in Threads : thread'[u].op = "close" /\ thread'[u].pc # "store" =>
          closed'[thread'[u].h]
    BY <1>0, <1>h, <1>2, <2>1, <2>3 DEF Closes
  <2>7. \A u \in Threads : thread'[u].op = "close" /\ thread'[u].pc = "unlock" =>
          device'[thread'[u].h] = "nil"
    BY <1>0, <1>2, <2>1, <2>2, <2>3 DEF Closes
  <2> QED
    BY <2>4, <2>5, <2>6, <2>7 DEF Closes
<1>3. ASSUME NEW t \in Threads, Begin(t) PROVE Closes'
  <2>1. \A u \in Threads : u # t => thread'[u] = thread[u]
    BY <1>0, <1>3, BeginEffect
  <2>2. \/ thread'[t].pc = "store" /\ thread'[t].op = "close"
        \/ thread'[t].pc = "check" /\ thread'[t].op # "close"
    BY <1>0, <1>3, BeginEffect
  <2>3. thread[t].pc = "idle" /\ UNCHANGED <<device, closed>>
    BY <1>3 DEF Begin
  <2> QED
    BY <1>0, <2>1, <2>2, <2>3 DEF Closes
<1>4. ASSUME NEW t \in Threads, CheckClosed(t) PROVE Closes'
  <2>1. thread[t].pc = "check" /\ UNCHANGED <<device, closed>>
    BY <1>4 DEF CheckClosed
  <2>2. \E to \in {"idle", "lock"} : Moved(t, to)
    BY <1>0, <1>4, ThreadSteps
  <2> QED
    BY <1>2, <2>1, <2>2 DEF Steps
<1>5. ASSUME NEW t \in Threads, StoreClosed(t) PROVE Closes'
  <2>1. /\ thread[t].pc = "store" /\ UNCHANGED device
        /\ closed' = [closed EXCEPT ![thread[t].h] = TRUE]
    BY <1>5 DEF StoreClosed
  <2>2. Moved(t, "lock")
    BY <1>0, <1>5, ThreadSteps
  <2>3. closed'[thread[t].h] /\ \A h \in Handles : closed[h] => closed'[h]
    BY <1>0, <1>h, <2>1 DEF TypeOK
  <2> QED
    BY <1>2, <2>1, <2>2, <2>3 DEF Steps
<1>6. ASSUME NEW t \in Threads, Lock(t) PROVE Closes'
  <2>1. thread[t].pc = "lock" /\ UNCHANGED <<device, closed>>
    BY <1>6 DEF Lock
  <2>2. Moved(t, IF thread[t].op = "close" THEN "close" ELSE "copy")
    BY <1>0, <1>6, ThreadSteps
  <2> QED
    BY <1>2, <2>1, <2>2 DEF Steps
<1>7. ASSUME NEW t \in Threads, CopyDevice(t) PROVE Closes'
  <2>1. thread[t].pc = "copy" /\ UNCHANGED <<device, closed>>
    BY <1>7 DEF CopyDevice
  <2>2. Moved(t, "unlock") \/ Moved(t, "transfer")
    BY <1>0, <1>7, ThreadSteps
  <2>3. thread[t].op # "close"
    BY <1>0, <2>1 DEF Operations
  <2> QED
    BY <1>2, <2>1, <2>2, <2>3 DEF Steps
<1>8. ASSUME NEW t \in Threads, Transfer(t) PROVE Closes'
  <2>1. thread[t].pc = "transfer" /\ UNCHANGED <<device, closed>>
    BY <1>8 DEF Transfer
  <2>2. Moved(t, "unlock") \/ Moved(t, "again")
    BY <1>0, <1>8, ThreadSteps
  <2>3. thread[t].op # "close"
    BY <1>0, <2>1 DEF Operations
  <2> QED
    BY <1>2, <2>1, <2>2, <2>3 DEF Steps
<1>9. ASSUME NEW t \in Threads, Again(t) PROVE Closes'
  <2>1. thread[t].pc = "again" /\ UNCHANGED <<device, closed>>
    BY <1>9 DEF Again
  <2>2. Moved(t, "check")
    BY <1>0, <1>9, ThreadSteps
  <2> QED
    BY <1>2, <2>1, <2>2 DEF Steps
<1>10. ASSUME NEW t \in Threads, Unlock(t) PROVE Closes'
  <2>1. thread[t].pc = "unlock" /\ UNCHANGED <<device, closed>>
    BY <1>10 DEF Unlock
  <2>2. Moved(t, "idle")
    BY <1>0, <1>10, ThreadSteps
  <2> QED
    BY <1>2, <2>1, <2>2 DEF Steps
<1>11. ASSUME NEW t \in Threads, CloseDevice(t) PROVE Closes'
  <2> DEFINE k == thread[t].h
  <2>1. thread[t].pc = "close" /\ thread[t].op = "close" /\ k \in Handles
    BY <1>0, <1>11, CloseEffect
  <2>2. \A h \in Handles : h # k => device'[h] = device[h]
    BY <1>0, <1>11, CloseEffect
  <2>3. UNCHANGED closed
    BY <1>0, <1>11, CloseEffect
  <2>4. closed[k]
    BY <1>0, <2>1 DEF Closes
  <2>5. \/ device[k] = "open" /\ device'[k] = "closing" /\ UNCHANGED thread
        \/ device[k] # "open" /\ device'[k] = "nil" /\ Moved(t, "unlock")
    BY <1>0, <1>11, CloseEffect
  <2>k. \A u \in Threads : thread[u].h = k => u = t \/ thread[u].pc \notin InMutex
    BY <1>0, <2>1, OneHolder DEF InMutex
  <2>6. CASE device[k] = "open" /\ device'[k] = "closing" /\ UNCHANGED thread
    <3>1. \A u \in Threads : device[thread[u].h] = "nil" => device'[thread[u].h] = "nil"
      BY <1>h, <2>2, <2>6
    <3> HIDE DEF k
    <3>2. thread'[t].h = k /\ thread'[t].pc = "close"
      BY <2>1, <2>6 DEF k
    <3>3. \A h \in Handles : device'[h] \in {"closing", "nil"} => closed'[h]
      BY <1>0, <2>2, <2>3, <2>4 DEF Closes
    <3>4. \A h \in Handles : device'[h] = "closing" =>
            \E u \in Threads : thread'[u].h = h /\ thread'[u].pc = "close"
      BY <1>0, <2>2, <2>6, <3>2 DEF Closes
    <3> QED
      BY <1>0, <2>3, <2>6, <3>1, <3>3, <3>4 DEF Closes
  <2>7. CASE device[k] # "open" /\ device'[k] = "nil" /\ Moved(t, "unlock")
    <3>1. \A u \in Threads : u # t => thread'[u] = thread[u]
      BY <2>7 DEF Moved
    <3>2. thread'[t].pc = "unlock" /\ thread'[t].op = "close" /\ thread'[t].h = k
      BY <2>1, <2>7 DEF Moved
    <3>3. \A u \in Threads : device[thread[u].h] = "nil" => device'[thread[u].h] = "nil"
      BY <1>h, <2>2, <2>7
    <3> HIDE DEF k
    <3>4. \A h \in Handles : device'[h] \in {"closing", "nil"} => closed'[h]
      BY <1>0, <2>2, <2>3, <2>4 DEF Closes
    <3>5. \A h \in Handles : device'[h] = "closing" =>
            \E u \in Threads : thread'[u].h = h /\ thread'[u].pc = "close"
      <4> SUFFICES ASSUME NEW h \in Handles, device'[h] = "closing"
                   PROVE  \E u \in Threads : thread'[u].h = h /\ thread'[u].pc = "close"
        OBVIOUS
      <4>1. h # k /\ device[h] = "closing"
        BY <2>2, <2>7
      <4>2. PICK u \in Threads : thread[u].h = h /\ thread[u].pc = "close"
        BY <1>0, <4>1 DEF Closes
      <4> QED
        BY <3>1, <4>1, <4>2 DEF k
    <3>6. \A u \in Threads : thread'[u].op = "close" /\ thread'[u].pc # "store" =>
            closed'[thread'[u].h]
      BY <1>0, <2>3, <2>4, <3>1, <3>2 DEF Closes
    <3>7. \A u \in Threads : thread'[u].op = "close" /\ thread'[u].pc = "unlock" =>
            device'[thread'[u].h] = "nil"
      BY <1>0, <2>7, <3>1, <3>2, <3>3 DEF Closes
    <3> QED
      BY <3>4, <3>5, <3>6, <3>7 DEF Closes
  <2> QED
    BY <2>5, <2>6, <2>7
<1>12. CASE PlugOrPull \/ Connect \/ DetectNewer \/ DetectOlder \/ UNCHANGED vars
  <2>1. UNCHANGED <<device, closed, thread>>
    BY <1>12 DEF PlugOrPull, Connect, DetectNewer, DetectOlder, vars
  <2> QED
    BY <1>0, <2>1 DEF Closes
<1>13. CASE \E t \in Threads : Begin(t) \/ Lock(t) \/ Work(t)
  BY <1>3, <1>4, <1>5, <1>6, <1>7, <1>8, <1>9, <1>10, <1>11, <1>13 DEF Work
<1> QED
  BY <1>1, <1>12, <1>13 DEF Next

LEMMA NoUseStep ==
  ASSUME HidAssumption, IInv, [Next]_vars
  PROVE  NoUseAfterClose'
<1>0. TypeOK /\ Operations /\ Opened /\ MutexHeld /\ NoUseAfterClose
  BY DEF IInv
<1>h. \A t \in Threads : thread[t].h \in Handles
  BY <1>0 DEF TypeOK
<1>1. CASE OpenPath
  <2>1. UNCHANGED thread /\ conn.h \in Handles /\ device[conn.h] = "none"
    BY <1>0, <1>1, OpenEffect
  <2>2. \A h \in Handles : h # conn.h => device'[h] = device[h]
    BY <1>0, <1>1, OpenEffect
  <2> QED
    BY <1>0, <1>h, <2>1, <2>2 DEF NoUseAfterClose
<1>2. ASSUME NEW t \in Threads, NEW to \in Steps, Moved(t, to), UNCHANGED device,
             to \in {"transfer", "again"} => device[thread[t].h] = "open"
      PROVE  NoUseAfterClose'
  <2>1. \A u \in Threads : u # t => thread'[u] = thread[u]
    BY <1>2 DEF Moved
  <2>2. thread'[t].pc = to /\ (to # "idle" => thread'[t].h = thread[t].h)
    BY <1>2 DEF Moved
  <2> QED
    BY <1>0, <1>2, <2>1, <2>2 DEF NoUseAfterClose
<1>3. ASSUME NEW t \in Threads, Begin(t) PROVE NoUseAfterClose'
  <2>1. \A u \in Threads : u # t => thread'[u] = thread[u]
    BY <1>0, <1>3, BeginEffect
  <2>2. thread'[t].pc \in {"store", "check"}
    BY <1>0, <1>3, BeginEffect
  <2>3. UNCHANGED device
    BY <1>3 DEF Begin
  <2> QED
    BY <1>0, <2>1, <2>2, <2>3 DEF NoUseAfterClose
<1>4. ASSUME NEW t \in Threads, CheckClosed(t) \/ StoreClosed(t) \/ Lock(t) \/ Again(t) \/ Unlock(t)
      PROVE  NoUseAfterClose'
  <2>1. UNCHANGED device
    BY <1>4 DEF CheckClosed, StoreClosed, Lock, Again, Unlock
  <2>2. \E to \in {"idle", "lock", "close", "copy", "check"} : Moved(t, to)
    BY <1>0, <1>4, ThreadSteps
  <2> QED
    BY <1>2, <2>1, <2>2 DEF Steps
<1>5. ASSUME NEW t \in Threads, CopyDevice(t) PROVE NoUseAfterClose'
  <2>1. thread[t].pc = "copy" /\ device[thread[t].h] # "closing" /\ UNCHANGED device
    BY <1>5 DEF CopyDevice
  <2>2. Moved(t, IF device[thread[t].h] = "nil" THEN "unlock" ELSE "transfer")
    BY <1>0, <1>5, ThreadSteps
  <2>3. device[thread[t].h] # "none"
    BY <1>0, <1>h, <2>1 DEF Operations, Opened
  <2>4. device[thread[t].h] \in {"none", "open", "closing", "nil"}
    BY <1>0, <1>h DEF TypeOK
  <2> QED
    BY <1>2, <2>1, <2>2, <2>3, <2>4 DEF Steps
<1>6. ASSUME NEW t \in Threads, Transfer(t) PROVE NoUseAfterClose'
  <2>1. thread[t].pc = "transfer" /\ UNCHANGED device
    BY <1>6 DEF Transfer
  <2>2. Moved(t, "unlock") \/ Moved(t, "again")
    BY <1>0, <1>6, ThreadSteps
  <2>3. device[thread[t].h] = "open"
    BY <1>0, <2>1 DEF NoUseAfterClose
  <2> QED
    BY <1>2, <2>1, <2>2, <2>3 DEF Steps
<1>7. ASSUME NEW t \in Threads, CloseDevice(t) PROVE NoUseAfterClose'
  <2> DEFINE k == thread[t].h
  <2>1. thread[t].pc = "close" /\ k \in Handles
    BY <1>0, <1>7, CloseEffect
  <2>2. \A h \in Handles : h # k => device'[h] = device[h]
    BY <1>0, <1>7, CloseEffect
  <2>3. UNCHANGED thread \/ Moved(t, "unlock")
    BY <1>0, <1>7, CloseEffect
  <2>4. thread'[t].pc \in {"close", "unlock"} /\ \A u \in Threads : u # t => thread'[u] = thread[u]
    BY <2>1, <2>3 DEF Moved
  <2>5. \A u \in Threads : u # t /\ thread[u].pc \in {"transfer", "again"} => thread[u].h # k
    BY <1>0, <2>1, OneHolder DEF InMutex
  <2> HIDE DEF k
  <2> QED
    BY <1>0, <1>h, <2>2, <2>4, <2>5 DEF NoUseAfterClose
<1>8. CASE PlugOrPull \/ Connect \/ DetectNewer \/ DetectOlder \/ UNCHANGED vars
  BY <1>0, <1>8
     DEF NoUseAfterClose, PlugOrPull, Connect, DetectNewer, DetectOlder, vars
<1> QED
  BY <1>1, <1>3, <1>4, <1>5, <1>6, <1>7, <1>8 DEF Next, Work

\* a device takes a prepended report only if it is on Windows and newer
LEMMA WhatIsWritten ==
  ASSUME HidAssumption
  PROVE  /\ 65 \in Written(TRUE) => Windows /\ Newer
         /\ 64 \in Written(FALSE) => ~(Windows /\ Newer)
<1>1. ASSUME NEW a, NEW n \in Nat \ {0}, n \in {0} \cup (IF present THEN {a} ELSE {})
      PROVE  a = n
  BY <1>1
<1>2. Written(TRUE) = {0} \cup (IF present THEN {Accepted(TRUE)} ELSE {})
  BY Zenon DEF Written
<1>3. Written(FALSE) = {0} \cup (IF present THEN {Accepted(FALSE)} ELSE {})
  BY Zenon DEF Written
<1>w. 65 \in Nat \ {0} /\ 64 \in Nat \ {0}
  OBVIOUS
<1>4. 65 \in Written(TRUE) => Accepted(TRUE) = 65
  BY <1>w, <1>1, <1>2, Zenon
<1>5. 64 \in Written(FALSE) => Accepted(FALSE) = 64
  BY <1>w, <1>1, <1>3, Zenon
<1>6. ~Windows => Accepted(TRUE) = 64
  BY Zenon DEF Accepted
<1>7. Windows /\ ~Newer => Accepted(TRUE) = 0
  BY Zenon DEF Accepted
<1>8. Windows /\ Newer => Accepted(FALSE) = 0
  BY Zenon DEF Accepted
<1>9. 64 # 65 /\ 0 # 65 /\ 0 # 64
  OBVIOUS
<1> QED
  BY <1>4, <1>5, <1>6, <1>7, <1>8, <1>9

LEMMA PrependStep ==
  ASSUME HidAssumption, IInv, [Next]_vars
  PROVE  PrependIsRight'
<1>0. TypeOK /\ PrependIsRight
  BY DEF IInv
<1>1. CASE DetectNewer
  <2>1. CASE UNCHANGED prepend
    BY <1>0, <2>1 DEF PrependIsRight
  <2>2. CASE prepend' = [prepend EXCEPT ![conn.h] = "yes"] /\ 65 \in Written(TRUE)
    <3>1. Windows /\ Newer
      BY <2>2, WhatIsWritten
    <3>2. \A h \in Handles : prepend'[h] = prepend[h] \/ prepend'[h] = "yes"
      BY <1>0, <2>2 DEF TypeOK
    <3> QED
      BY <1>0, <3>1, <3>2 DEF PrependIsRight
  <2> QED
    BY <1>1, <2>1, <2>2 DEF DetectNewer
<1>2. CASE DetectOlder
  <2>1. CASE prepend' = [prepend EXCEPT ![conn.h] = @]
    <3>1. \A h \in Handles : prepend'[h] = prepend[h]
      BY <1>0, <2>1 DEF TypeOK
    <3> QED
      BY <1>0, <3>1 DEF PrependIsRight
  <2>2. CASE prepend' = [prepend EXCEPT ![conn.h] = "no"] /\ 64 \in Written(FALSE)
    <3>1. ~(Windows /\ Newer)
      BY <2>2, WhatIsWritten
    <3>2. \A h \in Handles : prepend'[h] = prepend[h] \/ prepend'[h] = "no"
      BY <1>0, <2>2 DEF TypeOK
    <3> QED
      BY <1>0, <3>1, <3>2 DEF PrependIsRight
  <2> QED
    BY <1>2, <2>1, <2>2, ZenonT(60) DEF DetectOlder
<1>3. ASSUME NEW t \in Threads,
             \/ Begin(t) \/ Lock(t) \/ CheckClosed(t) \/ StoreClosed(t)
             \/ CopyDevice(t) \/ Transfer(t) \/ Again(t) \/ CloseDevice(t) \/ Unlock(t)
      PROVE  UNCHANGED prepend
  BY <1>3 DEF Begin, Lock, CheckClosed, StoreClosed, CopyDevice, Transfer, Again,
              CloseDevice, Unlock
<1>4. CASE PlugOrPull \/ Connect \/ OpenPath \/ UNCHANGED vars \/ UNCHANGED prepend
  BY <1>0, <1>4 DEF PrependIsRight, PlugOrPull, Connect, OpenPath, vars
<1> QED
  BY <1>1, <1>2, <1>3, <1>4 DEF Next, Work

LEMMA GivenBackStep ==
  ASSUME HidAssumption, IInv, [Next]_vars
  PROVE  ClosedIsGivenBack'
<1>0. TypeOK /\ Operations /\ Opened /\ Closes /\ ClosedIsGivenBack
  BY DEF IInv
<1>h. \A t \in Threads : thread[t].h \in Handles
  BY <1>0 DEF TypeOK
<1>1. CASE OpenPath
  <2>1. UNCHANGED <<thread, closed>> /\ conn.h \in Handles /\ device[conn.h] = "none"
    BY <1>0, <1>1, OpenEffect
  <2>2. \A h \in Handles : h # conn.h => device'[h] = device[h]
    BY <1>0, <1>1, OpenEffect
  <2> QED
    BY <1>0, <2>1, <2>2 DEF ClosedIsGivenBack
<1>2. ASSUME NEW t \in Threads, NEW to \in Steps, Moved(t, to), UNCHANGED <<device, closed>>,
             to = "idle" /\ thread[t].op = "close" => device[thread[t].h] = "nil"
      PROVE  ClosedIsGivenBack'
  <2> SUFFICES ASSUME NEW h \in Handles, closed[h], device[h] # "nil",
                      \A u \in Threads : thread'[u].h = h => thread'[u].op # "close"
               PROVE  FALSE
    BY <1>2 DEF ClosedIsGivenBack
  <2>1. PICK u \in Threads : thread[u].h = h /\ thread[u].op = "close"
    BY <1>0 DEF ClosedIsGivenBack
  <2>2. u = t
    BY <1>2, <2>1 DEF Moved
  <2> QED
    BY <1>2, <2>1, <2>2 DEF Moved
<1>3. ASSUME NEW t \in Threads, Begin(t) PROVE ClosedIsGivenBack'
  <2>1. \A u \in Threads : u # t => thread'[u] = thread[u]
    BY <1>0, <1>3, BeginEffect
  <2>2. thread[t].pc = "idle" /\ UNCHANGED <<device, closed>>
    BY <1>3 DEF Begin
  <2>3. thread[t].op # "close"
    BY <1>0, <2>2 DEF Operations
  <2> QED
    BY <1>0, <2>1, <2>2, <2>3 DEF ClosedIsGivenBack
<1>4. ASSUME NEW t \in Threads, StoreClosed(t) PROVE ClosedIsGivenBack'
  <2> DEFINE k == thread[t].h
  <2>1. /\ thread[t].pc = "store" /\ UNCHANGED device
        /\ closed' = [closed EXCEPT ![k] = TRUE]
    BY <1>4 DEF StoreClosed
  <2>2. Moved(t, "lock")
    BY <1>0, <1>4, ThreadSteps
  <2>3. thread'[t].op = "close" /\ thread'[t].h = k
    BY <1>0, <2>1, <2>2 DEF Moved, Operations
  <2>4. \A u \in Threads : u # t => thread'[u] = thread[u]
    BY <2>2 DEF Moved
  <2>5. \A h \in Handles : h # k => closed'[h] = closed[h]
    BY <1>0, <2>1 DEF TypeOK
  <2> QED
    BY <1>0, <2>1, <2>3, <2>4, <2>5 DEF ClosedIsGivenBack
<1>5. ASSUME NEW t \in Threads, CheckClosed(t) PROVE ClosedIsGivenBack'
  <2>1. thread[t].pc = "check" /\ UNCHANGED <<device, closed>>
    BY <1>5 DEF CheckClosed
  <2>2. \E to \in {"idle", "lock"} : Moved(t, to)
    BY <1>0, <1>5, ThreadSteps
  <2>3. thread[t].op # "close"
    BY <1>0, <2>1 DEF Operations
  <2> QED
    BY <1>2, <2>1, <2>2, <2>3 DEF Steps
<1>6. ASSUME NEW t \in Threads, Lock(t) \/ CopyDevice(t) \/ Transfer(t) \/ Again(t)
      PROVE  ClosedIsGivenBack'
  <2>1. UNCHANGED <<device, closed>>
    BY <1>6 DEF Lock, CopyDevice, Transfer, Again
  <2>2. \E to \in {"close", "copy", "unlock", "transfer", "again", "check"} : Moved(t, to)
    BY <1>0, <1>6, ThreadSteps
  <2> QED
    BY <1>2, <2>1, <2>2 DEF Steps
<1>7. ASSUME NEW t \in Threads, Unlock(t) PROVE ClosedIsGivenBack'
  <2>1. thread[t].pc = "unlock" /\ UNCHANGED <<device, closed>>
    BY <1>7 DEF Unlock
  <2>2. Moved(t, "idle")
    BY <1>0, <1>7, ThreadSteps
  <2>3. thread[t].op = "close" => device[thread[t].h] = "nil"
    BY <1>0, <2>1 DEF Closes
  <2> QED
    BY <1>2, <2>1, <2>2, <2>3 DEF Steps
<1>8. ASSUME NEW t \in Threads, CloseDevice(t) PROVE ClosedIsGivenBack'
  <2> DEFINE k == thread[t].h
  <2>1. thread[t].op = "close" /\ k \in Handles
    BY <1>0, <1>8, CloseEffect
  <2>2. \A h \in Handles : h # k => device'[h] = device[h]
    BY <1>0, <1>8, CloseEffect
  <2>3. UNCHANGED closed
    BY <1>0, <1>8, CloseEffect
  <2>4. UNCHANGED thread \/ Moved(t, "unlock")
    BY <1>0, <1>8, CloseEffect
  <2>5. thread'[t].op = "close" /\ thread'[t].h = k
    BY <2>1, <2>4 DEF Moved
  <2>6. \A u \in Threads : u # t => thread'[u] = thread[u]
    BY <2>4 DEF Moved
  <2>7. thread[t].h = k
    OBVIOUS
  <2> HIDE DEF k
  <2> SUFFICES ASSUME NEW h \in Handles, closed'[h],
                      \A u \in Threads : thread'[u].h = h => thread'[u].op # "close"
               PROVE  device'[h] = "nil"
    BY DEF ClosedIsGivenBack
  <2>8. h # k
    BY <2>5
  <2>9. \A u \in Threads : thread[u].h = h => thread[u].op # "close"
    BY <2>6, <2>7, <2>8
  <2> QED
    BY <1>0, <2>2, <2>3, <2>8, <2>9 DEF ClosedIsGivenBack
<1>9. CASE PlugOrPull \/ Connect \/ DetectNewer \/ DetectOlder \/ UNCHANGED vars
  BY <1>0, <1>9
     DEF ClosedIsGivenBack, PlugOrPull, Connect, DetectNewer, DetectOlder, vars
<1> QED
  BY <1>1, <1>3, <1>4, <1>5, <1>6, <1>7, <1>8, <1>9 DEF Next, Work

LEMMA TypeStep ==
  ASSUME HidAssumption, IInv, MutexHeld', [Next]_vars
  PROVE  TypeOK'
<1>0. TypeOK /\ Operations /\ MutexHeld /\ Opened /\ Closes
  BY DEF IInv
<1>h. conn.h \in Handles /\ \A t \in Threads : thread[t].h \in Handles
  BY <1>0 DEF TypeOK
<1>1. /\ present \in BOOLEAN
      /\ device \in [Handles -> {"none", "open", "closing", "nil"}]
      /\ closed \in [Handles -> BOOLEAN]
      /\ prepend \in [Handles -> {"none", "yes", "no"}]
      /\ conn \in [pc : {"idle", "open", "newer", "older"}, h : Handles]
      /\ thread \in [Threads -> [pc : Steps, op : {"read", "write", "close"}, h : Handles]]
  BY <1>0 DEF TypeOK
<1>2. \E M : mutex \in [Handles -> M]
  BY <1>0 DEF TypeOK
<1>3. \E M : mutex' \in [Handles -> M]
  <2>1. mutex' \in [Handles -> {mutex'[h] : h \in Handles}]
    <3>1. ASSUME NEW t \in Threads, Begin(t) \/ Lock(t) \/ Work(t)
          PROVE  \/ mutex' = mutex
                 \/ \E v : mutex' = [mutex EXCEPT ![thread[t].h] = v]
      BY <3>1 DEF Begin, Lock, Work, CheckClosed, StoreClosed, CopyDevice, Transfer,
                  Again, CloseDevice, Unlock
    <3>2. mutex' = mutex \/ \E h, v : mutex' = [mutex EXCEPT ![h] = v]
      BY <3>1 DEF Next, vars, PlugOrPull, Connect, OpenPath, DetectNewer, DetectOlder
    <3> QED
      BY <1>2, <3>2
  <2> QED
    BY <2>1
<1>4. mutex' \in [Handles -> {T \in SUBSET Threads : Cardinality(T) <= 1}]
  <2>1. ASSUME NEW h \in Handles
        PROVE  mutex'[h] \in SUBSET Threads /\ Cardinality(mutex'[h]) <= 1
    <3>1. CASE mutex'[h] = {}
      BY <3>1, FS_EmptySet
    <3>2. CASE \E t \in Threads : mutex'[h] = {t}
      BY <3>2, FS_Singleton
    <3> QED
      BY <3>1, <3>2 DEF MutexHeld
  <2> QED
    BY <1>3, <2>1
<1>5. /\ present' \in BOOLEAN
      /\ device' \in [Handles -> {"none", "open", "closing", "nil"}]
  BY <1>h, <1>1 DEF Next, Work, vars, PlugOrPull, Connect, OpenPath, DetectNewer, DetectOlder,
       Begin, Lock, CheckClosed, StoreClosed, CopyDevice, Transfer, Again, CloseDevice, Unlock
<1>6. closed' \in [Handles -> BOOLEAN]
  BY <1>h, <1>1 DEF Next, Work, vars, PlugOrPull, Connect, OpenPath, DetectNewer, DetectOlder,
       Begin, Lock, CheckClosed, StoreClosed, CopyDevice, Transfer, Again, CloseDevice, Unlock
<1>7. prepend' \in [Handles -> {"none", "yes", "no"}]
  <2>1. CASE DetectNewer
    BY <1>h, <1>1, <2>1 DEF DetectNewer
  <2>2. CASE DetectOlder
    <3>1. prepend[conn.h] \in {"none", "yes", "no"}
      BY <1>h, <1>1
    <3>2. prepend' = [prepend EXCEPT ![conn.h] = "no"]
          \/ prepend' = [prepend EXCEPT ![conn.h] = @]
      BY <2>2 DEF DetectOlder
    <3> QED
      BY <1>h, <1>1, <3>1, <3>2
  <2>3. CASE UNCHANGED prepend
    BY <1>1, <2>3
  <2> QED
    BY <2>1, <2>2, <2>3
       DEF Next, Work, vars, PlugOrPull, Connect, OpenPath, Begin, Lock, CheckClosed,
           StoreClosed, CopyDevice, Transfer, Again, CloseDevice, Unlock
<1>8. conn' \in [pc : {"idle", "open", "newer", "older"}, h : Handles]
  <2>1. CASE Connect
    BY <1>0, <2>1, ConnectEffect
  <2>2. CASE OpenPath
    BY <1>h, <1>1, <2>2 DEF OpenPath
  <2>3. CASE DetectNewer
    BY <1>h, <1>1, <2>3 DEF DetectNewer
  <2>4. CASE DetectOlder
    BY <1>h, <1>1, <2>4 DEF DetectOlder
  <2>5. CASE UNCHANGED conn
    BY <1>1, <2>5
  <2> QED
    BY <2>1, <2>2, <2>3, <2>4, <2>5
       DEF Next, Work, vars, PlugOrPull, Begin, Lock, CheckClosed, StoreClosed, CopyDevice,
           Transfer, Again, CloseDevice, Unlock
<1>9. thread' \in [Threads -> [pc : Steps, op : {"read", "write", "close"}, h : Handles]]
  <2>1. ASSUME NEW t \in Threads, Begin(t)
        PROVE  thread' \in [Threads -> [pc : Steps, op : {"read", "write", "close"}, h : Handles]]
    BY <1>0, <2>1, BeginEffect
  <2>2. ASSUME NEW t \in Threads, Lock(t) \/ Work(t)
        PROVE  thread' \in [Threads -> [pc : Steps, op : {"read", "write", "close"}, h : Handles]]
    <3>1. UNCHANGED thread \/ \E to \in Steps : Moved(t, to)
      BY <1>0, <2>2, ThreadSteps DEF Steps, Work
    <3> QED
      BY <1>1, <3>1 DEF Moved
  <2>3. CASE UNCHANGED thread
    BY <1>1, <2>3
  <2> QED
    BY <2>1, <2>2, <2>3
       DEF Next, vars, PlugOrPull, Connect, OpenPath, DetectNewer, DetectOlder
<1> QED
  BY <1>4, <1>5, <1>6, <1>7, <1>8, <1>9 DEF TypeOK
-----------------------------------------------------------------------------
LEMMA InitIInv ==
  ASSUME HidAssumption, Init
  PROVE  IInv
<1>1. 1 \in Handles
  BY DEF Handles, HidAssumption
<1>2. mutex \in [Handles -> {T \in SUBSET Threads : Cardinality(T) <= 1}]
  <2>1. Cardinality({}) = 0
    BY FS_EmptySet
  <2> QED
    BY <2>1 DEF Init
<1>3. TypeOK
  BY <1>1, <1>2 DEF Init, TypeOK, Steps, NoThread
<1>4. Operations
  BY DEF Init, Operations, NoThread
<1>5. MutexHeld
  BY DEF Init, MutexHeld, NoThread, InMutex
<1>6. Opened /\ Closes
  BY DEF Init, Opened, Closes, NoThread
<1>7. NoUseAfterClose /\ PrependIsRight /\ ClosedIsGivenBack
  BY DEF Init, NoUseAfterClose, PrependIsRight, ClosedIsGivenBack, NoThread
<1> QED
  BY <1>3, <1>4, <1>5, <1>6, <1>7 DEF IInv

LEMMA StepIInv ==
  ASSUME HidAssumption, IInv, [Next]_vars
  PROVE  IInv'
<1>1. MutexHeld'
  BY MutexStep
<1>2. TypeOK'
  BY <1>1, TypeStep
<1>3. Operations' /\ Opened' /\ Closes'
  BY OperationsStep, OpenedStep, ClosesStep
<1>4. NoUseAfterClose' /\ PrependIsRight' /\ ClosedIsGivenBack'
  BY NoUseStep, PrependStep, GivenBackStep
<1> QED
  BY <1>1, <1>2, <1>3, <1>4 DEF IInv

LEMMA SpecIInv ==
  ASSUME HidAssumption
  PROVE  Spec => []IInv
<1>1. Init => IInv
  BY InitIInv
<1>2. IInv /\ [Next]_vars => IInv'
  BY StepIInv
<1> QED
  BY <1>1, <1>2, PTL DEF Spec

(***************************************************************************)
(* The fields of usb/lowlevel/hidapi/hid.go and usb/hidapi.go have the     *)
(* values the model gives them; transferMutex has at most one holder.      *)
(***************************************************************************)
THEOREM TypeCorrect ==
  ASSUME HidAssumption
  PROVE  Spec => []TypeOK
<1>1. IInv => TypeOK
  BY DEF IInv
<1> QED
  BY <1>1, SpecIInv, PTL

(***************************************************************************)
(* "closing cannot happen while read/write is hapenning"                   *)
(* (usb/hidapi.go:132): with any number of goroutines on a handle, hidapi  *)
(* never reads or writes a C device that is being closed or was.           *)
(***************************************************************************)
THEOREM DeviceNotUsedAfterClose ==
  ASSUME HidAssumption
  PROVE  Spec => []NoUseAfterClose
<1>1. IInv => NoUseAfterClose
  BY DEF IInv
<1> QED
  BY <1>1, SpecIInv, PTL

(***************************************************************************)
(* detectPrepend never settles on the wrong answer about the report        *)
(* number, whichever of its writes fails.                                  *)
(***************************************************************************)
THEOREM PrependRight ==
  ASSUME HidAssumption
  PROVE  Spec => []PrependIsRight
<1>1. IInv => PrependIsRight
  BY DEF IInv
<1> QED
  BY <1>1, SpecIInv, PTL

(***************************************************************************)
(* Close gives the C device back: whoever closes first, once no close of   *)
(* the handle goes on its device is nil.                                   *)
(***************************************************************************)
THEOREM ClosedGivenBack ==
  ASSUME HidAssumption
  PROVE  Spec => []ClosedIsGivenBack
<1>1. IInv => ClosedIsGivenBack
  BY DEF IInv
<1> QED
  BY <1>1, SpecIInv, PTL
=============================================================================
