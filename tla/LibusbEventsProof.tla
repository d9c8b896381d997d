-------------------------- MODULE LibusbEventsProof --------------------------
(***************************************************************************)
(* Proofs about LibusbEvents, for every finite set of threads, with and    *)
(* without timeouts and closes under a transfer.                           *)
(***************************************************************************)
EXTENDS LibusbEvents, FiniteSetTheorems, SequenceTheorems, TLAPS

\* where a thread holds the events lock
Handling == {"alloc", "poll", "filter", "trigger", "complete", "triggerEnd",
             "backend", "unlock"}

LockHeld ==
  /\ \A t \in Threads : pc[t] \in Handling => events_lock = Waiter(t)
  /\ \A t \in Threads :
       closing[t] \in {"close", "end", "unlock"} => events_lock = Closer(t)

\* the closes that device_close counts
Counted == {t \in Threads : closing[t] \in {"lock", "close", "end"}}
CloseCounted == device_close = Cardinality(Counted)

\* a flag stays raised until the holder of the events lock takes it back
FlagsKept ==
  /\ device_close > 0 => "DEVICE_CLOSE" \in event_flags
  /\ \A t \in Threads : pc[t] = "trigger" => event_flags # {}
  /\ \A t \in Threads :
       pc[t] \in {"complete", "triggerEnd"} => "TRANSFER_COMPLETED" \in event_flags
  /\ Backend = "poll" => "TRANSFER_COMPLETED" \notin event_flags

\* a transfer the kernel has is in the list, its handle open, its thread waits
InFlight ==
  \A t \in Threads :
    /\ t \in flying <=> urb[t] # "none"
    /\ t \in flying => handle[t] = "open" /\ pc[t] # "idle" /\ ~completed[t]

IdleClose ==
  ~CloseBusy => \A t \in Threads : closing[t] \in {"lock", "close"} => pc[t] = "idle"

\* while something is reported, a thread handles events
Reported ==
  /\ batch # {} =>
       Backend = "poll" /\ \E t \in Threads : pc[t] \in {"filter", "trigger", "backend"}
  /\ \A t \in batch : urb[t] = "done"
  /\ Backend = "poll" => cut = << >> /\ completed_transfers = << >>
  /\ cut # << >> => \E t \in Threads : pc[t] \in {"complete", "triggerEnd"}

\* a transfer is signalled once, and not forgotten by the kernel's side before
\* its callback; a close under a transfer would leave it in the list
Distinct(s) == \A i, j \in 1 .. Len(s) : i # j => s[i] # s[j]
Signalled(s) == \A i \in 1 .. Len(s) : urb[s[i]] = "signalled"
SignalledOnce ==
  Backend = "poll" \/ ~CloseBusy =>
    /\ Distinct(cut) /\ Distinct(completed_transfers)
    /\ Signalled(cut) /\ Signalled(completed_transfers)
    /\ \A i \in 1 .. Len(cut), j \in 1 .. Len(completed_transfers) :
         cut[i] # completed_transfers[j]

IInv ==
  /\ TypeOK /\ LockHeld /\ CloseCounted /\ FlagsKept /\ PipeMatchesFlags
  /\ InFlight /\ IdleClose /\ Reported /\ SignalledOnce
-----------------------------------------------------------------------------
(***************************************************************************)
(* Threads are finitely many, so the closes can be counted.                *)
(***************************************************************************)
LEMMA CountedIsFinite ==
  ASSUME EventsAssumption
  PROVE  IsFiniteSet(Counted) /\ Cardinality(Counted) \in 0 .. Cardinality(Threads)
BY FS_Subset, FS_CardinalityType DEF EventsAssumption, Counted

LEMMA InitIInv == ASSUME EventsAssumption, Init PROVE IInv
<1> USE DEF Init, EventsAssumption
<1>1. << >> \in Seq(Threads) /\ Len(<< >>) = 0
  OBVIOUS
<1>2. Cardinality(Threads) \in Nat
  BY FS_CardinalityType
<1>3. TypeOK
  <2>1. event_flags \subseteq Flags /\ device_close \in 0 .. Cardinality(Threads)
    BY <1>2 DEF Flags
  <2>2. /\ pc \in [Threads -> PCs]
        /\ closing \in [Threads -> {"none", "lock", "close", "end", "unlock", "broadcast"}]
    BY DEF PCs
  <2>3. /\ events_lock \in Holders \cup {None} /\ event_handler_active \in BOOLEAN
        /\ event_waiters_lock \in Threads \cup {None}
    OBVIOUS
  <2>4. /\ urb \in [Threads -> {"none", "pending", "cancelling", "done", "signalled"}]
        /\ timer \in [Threads -> {"infinite", "running", "expired", "handled"}]
    OBVIOUS
  <2>5. /\ completed \in [Threads -> BOOLEAN]
        /\ handle \in [Threads -> {"closed", "open", "null"}]
        /\ until \in [Threads -> SUBSET Threads]
    OBVIOUS
  <2>6. /\ flying \subseteq Threads /\ batch \subseteq Threads
        /\ event_sources \subseteq Threads /\ event_data \subseteq Threads
        /\ pipe \in Nat
    OBVIOUS
  <2>7. completed_transfers \in Seq(Threads) /\ cut \in Seq(Threads)
    BY <1>1
  <2> QED
    BY <2>1, <2>2, <2>3, <2>4, <2>5, <2>6, <2>7 DEF TypeOK
<1>4. Counted = {} /\ Cardinality({}) = 0
  BY FS_EmptySet DEF Counted
<1>5. CloseCounted /\ LockHeld /\ FlagsKept /\ PipeMatchesFlags
  BY <1>4, SMTT(30) DEF CloseCounted, LockHeld, FlagsKept, PipeMatchesFlags, Handling
<1>6. InFlight /\ IdleClose /\ Reported
  BY SMTT(30) DEF InFlight, IdleClose, Reported
<1>7. SignalledOnce
  BY <1>1 DEF SignalledOnce, Distinct, Signalled
<1> QED
  BY <1>3, <1>5, <1>6, <1>7 DEF IInv

(***************************************************************************)
(* The count of the closes changes when one begins and when it ends.       *)
(***************************************************************************)
LEMMA OthersCloseNothing ==
  ASSUME [Next]_vars
  PROVE  \/ UNCHANGED <<closing, device_close>>
         \/ \E t \in Threads : CloseBegin(t) \/ CloseStep(t)
BY ZenonT(60) DEF Next, Step, vars, events, Interrupt, Open, Submit, Answer,
   Discarded, Expire, SignalCompletion, Done, AlreadyExpired, NextTimeout,
   TryClosing, TryLock, TryLockFailed, AllocEventData, Poll, FilterRemoved,
   PollTimeout, EventTrigger, CompleteOne, CompletedAll, TriggerEnd, Reap,
   Reaped, Unlock, Broadcast, LockWaiters, CheckCompleted, CheckActive, Woken,
   WaitTimeout, AfterWait, Back

LEMMA StepCloseCounted ==
  ASSUME EventsAssumption, IInv, [Next]_vars
  PROVE  CloseCounted'
<1> USE DEF IInv
<1>1. ASSUME NEW t \in Threads, CloseBegin(t) PROVE CloseCounted'
  <2>1. Counted' = Counted \cup {t} /\ t \notin Counted
    BY <1>1 DEF CloseBegin, CloserGoto, TypeOK, Counted
  <2> QED
    BY <1>1, <2>1, CountedIsFinite, FS_AddElement DEF CloseBegin, CloseCounted
<1>2. ASSUME NEW t \in Threads, CloseEnd(t) PROVE CloseCounted'
  <2>1. Counted' = Counted \ {t} /\ t \in Counted
    BY <1>2 DEF CloseEnd, CloserGoto, TypeOK, Counted
  <2> QED
    BY <1>2, <2>1, CountedIsFinite, FS_RemoveElement DEF CloseEnd, CloseCounted
<1>3. ASSUME NEW t \in Threads,
             CloseLock(t) \/ DoClose(t) \/ CloseUnlock(t) \/ CloseBroadcast(t)
      PROVE  CloseCounted'
  <2>1. Counted' = Counted /\ device_close' = device_close
    BY <1>3 DEF CloseLock, DoClose, CloseUnlock, CloseBroadcast, CloserGoto, TypeOK,
                Counted, events
  <2> QED
    BY <2>1 DEF CloseCounted
<1>4. CASE UNCHANGED <<closing, device_close>>
  BY <1>4 DEF CloseCounted, Counted
<1> QED
  BY <1>1, <1>2, <1>3, <1>4, OthersCloseNothing DEF CloseStep

(***************************************************************************)
(* The holder of the events lock is the thread that handles events, or the *)
(* closer: each takes the lock when it is free, and only its holder gives  *)
(* it back.                                                                *)
(***************************************************************************)
LEMMA StepLockHeld ==
  ASSUME EventsAssumption, IInv, [Next]_vars
  PROVE  LockHeld'
<1> USE DEF EventsAssumption, IInv, LockHeld, Waiter, Closer, Holders,
   Handling, TypeOK, PCs
<1>1. ASSUME NEW t \in Threads, Open(t) PROVE LockHeld'
  BY <1>1, SMTT(30) DEF Open, Raise, locks, lists
<1>2. ASSUME NEW t \in Threads, Submit(t) PROVE LockHeld'
  BY <1>2, SMTT(30) DEF Submit, Goto, locks, events, lists
<1>3. ASSUME NEW t \in Threads, Answer(t) PROVE LockHeld'
  BY <1>3, SMTT(30) DEF Answer, locks, events, lists
<1>4. ASSUME NEW t \in Threads, Discarded(t) PROVE LockHeld'
  BY <1>4, SMTT(30) DEF Discarded, locks, events, lists
<1>5. ASSUME NEW t \in Threads, Expire(t) PROVE LockHeld'
  BY <1>5, SMTT(30) DEF Expire, locks, events, lists
<1>6. ASSUME NEW t \in Threads, SignalCompletion(t) PROVE LockHeld'
  BY <1>6, SMTT(30) DEF SignalCompletion, Raise, locks
<1>7. ASSUME NEW t \in Threads, Done(t) PROVE LockHeld'
  BY <1>7, SMTT(30) DEF Done, Goto, locks, events, lists
<1>8. ASSUME NEW t \in Threads, AlreadyExpired(t) PROVE LockHeld'
  BY <1>8, SMTT(30) DEF AlreadyExpired, Goto, locks, events, lists, transfers
<1>9. ASSUME NEW t \in Threads, NextTimeout(t) PROVE LockHeld'
  BY <1>9, SMTT(30) DEF NextTimeout, Goto, locks, events, lists, transfers
<1>10. ASSUME NEW t \in Threads, TryClosing(t) PROVE LockHeld'
  BY <1>10, SMTT(30) DEF TryClosing, Goto, locks, events, lists, transfers
<1>11. ASSUME NEW t \in Threads, TryLock(t) PROVE LockHeld'
  BY <1>11, SMTT(30) DEF TryLock, Goto, events, lists, transfers
<1>12. ASSUME NEW t \in Threads, TryLockFailed(t) PROVE LockHeld'
  BY <1>12, SMTT(30) DEF TryLockFailed, Goto, locks, events, lists, transfers
<1>13. ASSUME NEW t \in Threads, AllocEventData(t) PROVE LockHeld'
  BY <1>13, SMTT(30) DEF AllocEventData, Goto, Lower, locks, lists, transfers
<1>14. ASSUME NEW t \in Threads, Poll(t) PROVE LockHeld'
  BY <1>14, SMTT(30) DEF Poll, Ready, Goto, locks, events, transfers
<1>15. ASSUME NEW t \in Threads, FilterRemoved(t) PROVE LockHeld'
  BY <1>15, SMTT(30) DEF FilterRemoved, Goto, locks, events, transfers
<1>16. ASSUME NEW t \in Threads, PollTimeout(t) PROVE LockHeld'
  BY <1>16, SMTT(30) DEF PollTimeout, Ready, HandleTimeouts, locks, events,
     lists
<1>17. ASSUME NEW t \in Threads, EventTrigger(t) PROVE LockHeld'
  BY <1>17, SMTT(30) DEF EventTrigger, Lower, lists, locks, transfers
<1>18. ASSUME NEW t \in Threads, CompleteOne(t) PROVE LockHeld'
  BY <1>18, SMTT(30) DEF CompleteOne, Goto, Completion, locks, events
<1>19. ASSUME NEW t \in Threads, CompletedAll(t) PROVE LockHeld'
  BY <1>19, SMTT(30) DEF CompletedAll, Goto, locks, events, lists, transfers
<1>20. ASSUME NEW t \in Threads, TriggerEnd(t) PROVE LockHeld'
  BY <1>20, SMTT(30) DEF TriggerEnd, Goto, Lower, locks, transfers
<1>21. ASSUME NEW t \in Threads, Reap(t) PROVE LockHeld'
  BY <1>21, SMTT(30) DEF Reap, Completion, locks, events
<1>22. ASSUME NEW t \in Threads, Reaped(t) PROVE LockHeld'
  BY <1>22, SMTT(30) DEF Reaped, Goto, locks, events, lists, transfers
<1>23. ASSUME NEW t \in Threads, Unlock(t) PROVE LockHeld'
  BY <1>23, SMTT(30) DEF Unlock, Goto, events, lists, transfers
<1>24. ASSUME NEW t \in Threads, Broadcast(t) PROVE LockHeld'
  BY <1>24, SMTT(30) DEF Broadcast, WakeAll, locks, events, lists, transfers
<1>25. ASSUME NEW t \in Threads, LockWaiters(t) PROVE LockHeld'
  BY <1>25, SMTT(30) DEF LockWaiters, Goto, events, lists, transfers
<1>26. ASSUME NEW t \in Threads, CheckCompleted(t) PROVE LockHeld'
  BY <1>26, SMTT(30) DEF CheckCompleted, Goto, events, lists, transfers
<1>27. ASSUME NEW t \in Threads, CheckActive(t) PROVE LockHeld'
  BY <1>27, SMTT(30) DEF CheckActive, Goto, events, lists, transfers
<1>28. ASSUME NEW t \in Threads, Woken(t) PROVE LockHeld'
  BY <1>28, SMTT(30) DEF Woken, Goto, locks, events, lists, transfers
<1>29. ASSUME NEW t \in Threads, WaitTimeout(t) PROVE LockHeld'
  BY <1>29, SMTT(30) DEF WaitTimeout, Goto, locks, events, lists, transfers
<1>30. ASSUME NEW t \in Threads, AfterWait(t) PROVE LockHeld'
  BY <1>30, SMTT(30) DEF AfterWait, Goto, HandleTimeouts, locks, events, lists
<1>31. ASSUME NEW t \in Threads, Back(t) PROVE LockHeld'
  BY <1>31, SMTT(30) DEF Back, Goto, locks, events, lists
<1>32. ASSUME NEW t \in Threads, CloseBegin(t) PROVE LockHeld'
  BY <1>32, SMTT(30) DEF CloseBegin, CloserGoto, Raise, locks, lists,
     transfers
<1>33. ASSUME NEW t \in Threads, CloseLock(t) PROVE LockHeld'
  BY <1>33, SMTT(30) DEF CloseLock, CloserGoto, events, lists, transfers
<1>34. ASSUME NEW t \in Threads, DoClose(t) PROVE LockHeld'
  BY <1>34, SMTT(30) DEF DoClose, CloserGoto, Raise, locks, lists
<1>35. ASSUME NEW t \in Threads, CloseEnd(t) PROVE LockHeld'
  BY <1>35, SMTT(30) DEF CloseEnd, CloserGoto, Lower, locks, lists, transfers
<1>36. ASSUME NEW t \in Threads, CloseUnlock(t) PROVE LockHeld'
  BY <1>36, SMTT(30) DEF CloseUnlock, CloserGoto, events, lists, transfers
<1>37. ASSUME NEW t \in Threads, CloseBroadcast(t) PROVE LockHeld'
  BY <1>37, SMTT(30) DEF CloseBroadcast, CloserGoto, WakeAll, locks, events,
     lists, transfers
<1>38. CASE Interrupt
  BY <1>38, SMTT(30) DEF Interrupt, Raise, locks, lists, transfers
<1>39. CASE UNCHANGED vars
  BY <1>39, SMTT(30) DEF vars, locks, events, lists, transfers
<1> QED
  BY <1>1, <1>2, <1>3, <1>4, <1>5, <1>6, <1>7, <1>8, <1>9, <1>10, <1>11,
     <1>12, <1>13, <1>14, <1>15, <1>16, <1>17, <1>18, <1>19, <1>20, <1>21,
     <1>22, <1>23, <1>24, <1>25, <1>26, <1>27, <1>28, <1>29, <1>30, <1>31,
     <1>32, <1>33, <1>34, <1>35, <1>36, <1>37, <1>38, <1>39
  DEF Next, Step, CloseStep

(***************************************************************************)
(* A flag raised is one more, and the pipe is then not empty.              *)
(***************************************************************************)
LEMMA RaiseFlag ==
  ASSUME PipeMatchesFlags, NEW f \in Flags, Raise(f)
  PROVE  PipeMatchesFlags' /\ event_flags' # {} /\ f \in event_flags'
BY SMTT(30) DEF Raise, PipeMatchesFlags

LEMMA KeepFlags ==
  ASSUME FlagsKept, NEW f \in Flags, f # "TRANSFER_COMPLETED",
         event_flags' \in {event_flags, event_flags \cup {f}},
         UNCHANGED <<pc, device_close>>
  PROVE  FlagsKept'
<1>1. \A x \in Flags : x # f => (x \in event_flags' <=> x \in event_flags)
  OBVIOUS
<1>2. event_flags \subseteq event_flags'
  OBVIOUS
<1> QED
  BY <1>1, <1>2, SMTT(30) DEF FlagsKept, Flags

(***************************************************************************)
(* The pipe holds a message exactly while a flag is raised: only the       *)
(* holder of the events lock takes flags back, so those that a handler has *)
(* seen are still there.                                                   *)
(***************************************************************************)
LEMMA StepFlags ==
  ASSUME EventsAssumption, IInv, [Next]_vars
  PROVE  FlagsKept' /\ PipeMatchesFlags'
<1> USE DEF EventsAssumption, IInv, FlagsKept, PipeMatchesFlags, LockHeld,
   Waiter, Closer, Handling, TypeOK, PCs
<1>1. ASSUME NEW t \in Threads, Open(t) PROVE FlagsKept' /\ PipeMatchesFlags'
  <2>1. PipeMatchesFlags'
    BY <1>1, RaiseFlag DEF Open, Flags
  <2>2. FlagsKept'
    BY <1>1, KeepFlags DEF Open, Raise, Flags
  <2> QED
    BY <2>1, <2>2
<1>2. ASSUME NEW t \in Threads, Submit(t) PROVE FlagsKept' /\ PipeMatchesFlags'
  BY <1>2, SMTT(30) DEF Submit, Goto, locks, events, lists
<1>3. ASSUME NEW t \in Threads, Answer(t) PROVE FlagsKept' /\ PipeMatchesFlags'
  BY <1>3, SMTT(30) DEF Answer, locks, events, lists
<1>4. ASSUME NEW t \in Threads, Discarded(t) PROVE FlagsKept' /\ PipeMatchesFlags'
  BY <1>4, SMTT(30) DEF Discarded, locks, events, lists
<1>5. ASSUME NEW t \in Threads, Expire(t) PROVE FlagsKept' /\ PipeMatchesFlags'
  BY <1>5, SMTT(30) DEF Expire, locks, events, lists
<1>6. ASSUME NEW t \in Threads, SignalCompletion(t) PROVE FlagsKept' /\ PipeMatchesFlags'
  BY <1>6, SMTT(30) DEF SignalCompletion, Raise, locks
<1>7. ASSUME NEW t \in Threads, Done(t) PROVE FlagsKept' /\ PipeMatchesFlags'
  BY <1>7, SMTT(30) DEF Done, Goto, locks, events, lists
<1>8. ASSUME NEW t \in Threads, AlreadyExpired(t) PROVE FlagsKept' /\ PipeMatchesFlags'
  BY <1>8, SMTT(30) DEF AlreadyExpired, Goto, locks, events, lists, transfers
<1>9. ASSUME NEW t \in Threads, NextTimeout(t) PROVE FlagsKept' /\ PipeMatchesFlags'
  BY <1>9, SMTT(30) DEF NextTimeout, Goto, locks, events, lists, transfers
<1>10. ASSUME NEW t \in Threads, TryClosing(t) PROVE FlagsKept' /\ PipeMatchesFlags'
  BY <1>10, SMTT(30) DEF TryClosing, Goto, locks, events, lists, transfers
<1>11. ASSUME NEW t \in Threads, TryLock(t) PROVE FlagsKept' /\ PipeMatchesFlags'
  BY <1>11, SMTT(30) DEF TryLock, Goto, events, lists, transfers
<1>12. ASSUME NEW t \in Threads, TryLockFailed(t) PROVE FlagsKept' /\ PipeMatchesFlags'
  BY <1>12, SMTT(30) DEF TryLockFailed, Goto, locks, events, lists, transfers
<1>13. ASSUME NEW t \in Threads, AllocEventData(t) PROVE FlagsKept' /\ PipeMatchesFlags'
  BY <1>13, SMTT(30) DEF AllocEventData, Goto, Lower, locks, lists, transfers
<1>14. ASSUME NEW t \in Threads, Poll(t) PROVE FlagsKept' /\ PipeMatchesFlags'
  BY <1>14, SMTT(30) DEF Poll, Ready, Goto, locks, events, transfers
<1>15. ASSUME NEW t \in Threads, FilterRemoved(t) PROVE FlagsKept' /\ PipeMatchesFlags'
  BY <1>15, SMTT(30) DEF FilterRemoved, Goto, locks, events, transfers
<1>16. ASSUME NEW t \in Threads, PollTimeout(t) PROVE FlagsKept' /\ PipeMatchesFlags'
  BY <1>16, SMTT(30) DEF PollTimeout, Ready, HandleTimeouts, locks, events,
     lists
<1>17. ASSUME NEW t \in Threads, EventTrigger(t) PROVE FlagsKept' /\ PipeMatchesFlags'
  BY <1>17, SMTT(30) DEF EventTrigger, Lower, lists, locks, transfers
<1>18. ASSUME NEW t \in Threads, CompleteOne(t) PROVE FlagsKept' /\ PipeMatchesFlags'
  BY <1>18, SMTT(30) DEF CompleteOne, Goto, Completion, locks, events
<1>19. ASSUME NEW t \in Threads, CompletedAll(t) PROVE FlagsKept' /\ PipeMatchesFlags'
  BY <1>19, SMTT(30) DEF CompletedAll, Goto, locks, events, lists, transfers
<1>20. ASSUME NEW t \in Threads, TriggerEnd(t) PROVE FlagsKept' /\ PipeMatchesFlags'
  BY <1>20, SMTT(30) DEF TriggerEnd, Goto, Lower, locks, transfers
<1>21. ASSUME NEW t \in Threads, Reap(t) PROVE FlagsKept' /\ PipeMatchesFlags'
  BY <1>21, SMTT(30) DEF Reap, Completion, locks, events
<1>22. ASSUME NEW t \in Threads, Reaped(t) PROVE FlagsKept' /\ PipeMatchesFlags'
  BY <1>22, SMTT(30) DEF Reaped, Goto, locks, events, lists, transfers
<1>23. ASSUME NEW t \in Threads, Unlock(t) PROVE FlagsKept' /\ PipeMatchesFlags'
  BY <1>23, SMTT(30) DEF Unlock, Goto, events, lists, transfers
<1>24. ASSUME NEW t \in Threads, Broadcast(t) PROVE FlagsKept' /\ PipeMatchesFlags'
  BY <1>24, SMTT(30) DEF Broadcast, WakeAll, locks, events, lists, transfers
<1>25. ASSUME NEW t \in Threads, LockWaiters(t) PROVE FlagsKept' /\ PipeMatchesFlags'
  BY <1>25, SMTT(30) DEF LockWaiters, Goto, events, lists, transfers
<1>26. ASSUME NEW t \in Threads, CheckCompleted(t) PROVE FlagsKept' /\ PipeMatchesFlags'
  BY <1>26, SMTT(30) DEF CheckCompleted, Goto, events, lists, transfers
<1>27. ASSUME NEW t \in Threads, CheckActive(t) PROVE FlagsKept' /\ PipeMatchesFlags'
  BY <1>27, SMTT(30) DEF CheckActive, Goto, events, lists, transfers
<1>28. ASSUME NEW t \in Threads, Woken(t) PROVE FlagsKept' /\ PipeMatchesFlags'
  BY <1>28, SMTT(30) DEF Woken, Goto, locks, events, lists, transfers
<1>29. ASSUME NEW t \in Threads, WaitTimeout(t) PROVE FlagsKept' /\ PipeMatchesFlags'
  BY <1>29, SMTT(30) DEF WaitTimeout, Goto, locks, events, lists, transfers
<1>30. ASSUME NEW t \in Threads, AfterWait(t) PROVE FlagsKept' /\ PipeMatchesFlags'
  BY <1>30, SMTT(30) DEF AfterWait, Goto, HandleTimeouts, locks, events, lists
<1>31. ASSUME NEW t \in Threads, Back(t) PROVE FlagsKept' /\ PipeMatchesFlags'
  BY <1>31, SMTT(30) DEF Back, Goto, locks, events, lists
<1>32. ASSUME NEW t \in Threads, CloseBegin(t) PROVE FlagsKept' /\ PipeMatchesFlags'
  BY <1>32, SMTT(30) DEF CloseBegin, CloserGoto, Raise, locks, lists,
     transfers
<1>33. ASSUME NEW t \in Threads, CloseLock(t) PROVE FlagsKept' /\ PipeMatchesFlags'
  BY <1>33, SMTT(30) DEF CloseLock, CloserGoto, events, lists, transfers
<1>34. ASSUME NEW t \in Threads, DoClose(t) PROVE FlagsKept' /\ PipeMatchesFlags'
  <2>1. PipeMatchesFlags'
    BY <1>34, RaiseFlag DEF DoClose, Flags
  <2>2. FlagsKept'
    BY <1>34, KeepFlags DEF DoClose, Raise, Flags
  <2> QED
    BY <2>1, <2>2
<1>35. ASSUME NEW t \in Threads, CloseEnd(t) PROVE FlagsKept' /\ PipeMatchesFlags'
  <2>1. \A u \in Threads : pc[u] \notin {"trigger", "complete", "triggerEnd"}
    BY <1>35, SMTT(30) DEF CloseEnd, CloserGoto
  <2>2. /\ event_flags' = event_flags \ (IF device_close = 1 THEN {"DEVICE_CLOSE"} ELSE {})
        /\ pipe' = IF event_flags' = {} THEN pipe - 1 ELSE pipe
        /\ pc' = pc /\ device_close' = device_close - 1
    BY <1>35 DEF CloseEnd, Lower
  <2>3. device_close \in Nat /\ device_close # 0
    <3>1. t \in Counted
      BY <1>35 DEF CloseEnd, CloserGoto, Counted
    <3> QED
      BY <3>1, CountedIsFinite, FS_EmptySet DEF CloseCounted
  <2>4. "DEVICE_CLOSE" \in event_flags
    BY <2>3
  <2>5. PipeMatchesFlags'
    BY <2>2, <2>4
  <2>6. FlagsKept'
    BY <2>1, <2>2, <2>3, <2>4
  <2> QED
    BY <2>5, <2>6
<1>36. ASSUME NEW t \in Threads, CloseUnlock(t) PROVE FlagsKept' /\ PipeMatchesFlags'
  BY <1>36, SMTT(30) DEF CloseUnlock, CloserGoto, events, lists, transfers
<1>37. ASSUME NEW t \in Threads, CloseBroadcast(t) PROVE FlagsKept' /\ PipeMatchesFlags'
  BY <1>37, SMTT(30) DEF CloseBroadcast, CloserGoto, WakeAll, locks, events,
     lists, transfers
<1>38. CASE Interrupt
  BY <1>38, SMTT(30) DEF Interrupt, Raise, locks, lists, transfers
<1>39. CASE UNCHANGED vars
  BY <1>39, SMTT(30) DEF vars, locks, events, lists, transfers
<1> QED
  BY <1>1, <1>2, <1>3, <1>4, <1>5, <1>6, <1>7, <1>8, <1>9, <1>10, <1>11,
     <1>12, <1>13, <1>14, <1>15, <1>16, <1>17, <1>18, <1>19, <1>20, <1>21,
     <1>22, <1>23, <1>24, <1>25, <1>26, <1>27, <1>28, <1>29, <1>30, <1>31,
     <1>32, <1>33, <1>34, <1>35, <1>36, <1>37, <1>38, <1>39
  DEF Next, Step, CloseStep

(***************************************************************************)
(* A transfer leaves the list when its callback runs or its handle is      *)
(* closed; the kernel's side leaves with it.                               *)
(***************************************************************************)
LEMMA StepInFlight ==
  ASSUME EventsAssumption, IInv, [Next]_vars
  PROVE  InFlight'
<1> USE DEF EventsAssumption, IInv, InFlight, TypeOK, Reported, SignalledOnce,
   Distinct, Signalled
<1>1. ASSUME NEW t \in Threads, Open(t) PROVE InFlight'
  BY <1>1, SMTT(30) DEF Open, Raise, locks, lists
<1>2. ASSUME NEW t \in Threads, Submit(t) PROVE InFlight'
  BY <1>2, SMTT(30) DEF Submit, Goto, locks, events, lists
<1>3. ASSUME NEW t \in Threads, Answer(t) PROVE InFlight'
  BY <1>3, SMTT(30) DEF Answer, locks, events, lists
<1>4. ASSUME NEW t \in Threads, Discarded(t) PROVE InFlight'
  BY <1>4, SMTT(30) DEF Discarded, locks, events, lists
<1>5. ASSUME NEW t \in Threads, Expire(t) PROVE InFlight'
  BY <1>5, SMTT(30) DEF Expire, locks, events, lists
<1>6. ASSUME NEW t \in Threads, SignalCompletion(t) PROVE InFlight'
  BY <1>6, SMTT(30) DEF SignalCompletion, Raise, locks
<1>7. ASSUME NEW t \in Threads, Done(t) PROVE InFlight'
  BY <1>7, SMTT(30) DEF Done, Goto, locks, events, lists
<1>8. ASSUME NEW t \in Threads, AlreadyExpired(t) PROVE InFlight'
  BY <1>8, SMTT(30) DEF AlreadyExpired, Goto, locks, events, lists, transfers
<1>9. ASSUME NEW t \in Threads, NextTimeout(t) PROVE InFlight'
  BY <1>9, SMTT(30) DEF NextTimeout, Goto, locks, events, lists, transfers
<1>10. ASSUME NEW t \in Threads, TryClosing(t) PROVE InFlight'
  BY <1>10, SMTT(30) DEF TryClosing, Goto, locks, events, lists, transfers
<1>11. ASSUME NEW t \in Threads, TryLock(t) PROVE InFlight'
  BY <1>11, SMTT(30) DEF TryLock, Goto, Waiter, events, lists, transfers
<1>12. ASSUME NEW t \in Threads, TryLockFailed(t) PROVE InFlight'
  BY <1>12, SMTT(30) DEF TryLockFailed, Goto, locks, events, lists, transfers
<1>13. ASSUME NEW t \in Threads, AllocEventData(t) PROVE InFlight'
  BY <1>13, SMTT(30) DEF AllocEventData, Goto, Lower, locks, lists, transfers
<1>14. ASSUME NEW t \in Threads, Poll(t) PROVE InFlight'
  BY <1>14, SMTT(30) DEF Poll, Ready, Goto, locks, events, transfers
<1>15. ASSUME NEW t \in Threads, FilterRemoved(t) PROVE InFlight'
  BY <1>15, SMTT(30) DEF FilterRemoved, Goto, locks, events, transfers
<1>16. ASSUME NEW t \in Threads, PollTimeout(t) PROVE InFlight'
  BY <1>16, SMTT(30) DEF PollTimeout, Ready, HandleTimeouts, locks, events,
     lists
<1>17. ASSUME NEW t \in Threads, EventTrigger(t) PROVE InFlight'
  BY <1>17, SMTT(30) DEF EventTrigger, Lower, lists, locks, transfers
<1>18. ASSUME NEW t \in Threads, CompleteOne(t) PROVE InFlight'
  BY <1>18, SMTT(30) DEF CompleteOne, Goto, Completion, locks, events
<1>19. ASSUME NEW t \in Threads, CompletedAll(t) PROVE InFlight'
  BY <1>19, SMTT(30) DEF CompletedAll, Goto, locks, events, lists, transfers
<1>20. ASSUME NEW t \in Threads, TriggerEnd(t) PROVE InFlight'
  BY <1>20, SMTT(30) DEF TriggerEnd, Goto, Lower, locks, transfers
<1>21. ASSUME NEW t \in Threads, Reap(t) PROVE InFlight'
  BY <1>21, SMTT(30) DEF Reap, Completion, locks, events
<1>22. ASSUME NEW t \in Threads, Reaped(t) PROVE InFlight'
  BY <1>22, SMTT(30) DEF Reaped, Goto, locks, events, lists, transfers
<1>23. ASSUME NEW t \in Threads, Unlock(t) PROVE InFlight'
  BY <1>23, SMTT(30) DEF Unlock, Goto, events, lists, transfers
<1>24. ASSUME NEW t \in Threads, Broadcast(t) PROVE InFlight'
  BY <1>24, SMTT(30) DEF Broadcast, WakeAll, locks, events, lists, transfers
<1>25. ASSUME NEW t \in Threads, LockWaiters(t) PROVE InFlight'
  BY <1>25, SMTT(30) DEF LockWaiters, Goto, events, lists, transfers
<1>26. ASSUME NEW t \in Threads, CheckCompleted(t) PROVE InFlight'
  BY <1>26, SMTT(30) DEF CheckCompleted, Goto, events, lists, transfers
<1>27. ASSUME NEW t \in Threads, CheckActive(t) PROVE InFlight'
  BY <1>27, SMTT(30) DEF CheckActive, Goto, events, lists, transfers
<1>28. ASSUME NEW t \in Threads, Woken(t) PROVE InFlight'
  BY <1>28, SMTT(30) DEF Woken, Goto, locks, events, lists, transfers
<1>29. ASSUME NEW t \in Threads, WaitTimeout(t) PROVE InFlight'
  BY <1>29, SMTT(30) DEF WaitTimeout, Goto, locks, events, lists, transfers
<1>30. ASSUME NEW t \in Threads, AfterWait(t) PROVE InFlight'
  BY <1>30, SMTT(30) DEF AfterWait, Goto, HandleTimeouts, locks, events, lists
<1>31. ASSUME NEW t \in Threads, Back(t) PROVE InFlight'
  BY <1>31, SMTT(30) DEF Back, Goto, locks, events, lists
<1>32. ASSUME NEW t \in Threads, CloseBegin(t) PROVE InFlight'
  BY <1>32, SMTT(30) DEF CloseBegin, CloserGoto, Raise, locks, lists,
     transfers
<1>33. ASSUME NEW t \in Threads, CloseLock(t) PROVE InFlight'
  BY <1>33, SMTT(30) DEF CloseLock, CloserGoto, Closer, events, lists,
     transfers
<1>34. ASSUME NEW t \in Threads, DoClose(t) PROVE InFlight'
  BY <1>34, SMTT(30) DEF DoClose, CloserGoto, Raise, locks, lists
<1>35. ASSUME NEW t \in Threads, CloseEnd(t) PROVE InFlight'
  BY <1>35, SMTT(30) DEF CloseEnd, CloserGoto, Lower, locks, lists, transfers
<1>36. ASSUME NEW t \in Threads, CloseUnlock(t) PROVE InFlight'
  BY <1>36, SMTT(30) DEF CloseUnlock, CloserGoto, events, lists, transfers
<1>37. ASSUME NEW t \in Threads, CloseBroadcast(t) PROVE InFlight'
  BY <1>37, SMTT(30) DEF CloseBroadcast, CloserGoto, WakeAll, locks, events,
     lists, transfers
<1>38. CASE Interrupt
  BY <1>38, SMTT(30) DEF Interrupt, Raise, locks, lists, transfers
<1>39. CASE UNCHANGED vars
  BY <1>39, SMTT(30) DEF vars, locks, events, lists, transfers
<1> QED
  BY <1>1, <1>2, <1>3, <1>4, <1>5, <1>6, <1>7, <1>8, <1>9, <1>10, <1>11,
     <1>12, <1>13, <1>14, <1>15, <1>16, <1>17, <1>18, <1>19, <1>20, <1>21,
     <1>22, <1>23, <1>24, <1>25, <1>26, <1>27, <1>28, <1>29, <1>30, <1>31,
     <1>32, <1>33, <1>34, <1>35, <1>36, <1>37, <1>38, <1>39
  DEF Next, Step, CloseStep

(***************************************************************************)
(* Unless handles are closed under a transfer, their threads stay idle     *)
(* until they are closed.                                                  *)
(***************************************************************************)
LEMMA StepIdleClose ==
  ASSUME EventsAssumption, IInv, [Next]_vars
  PROVE  IdleClose'
<1> USE DEF EventsAssumption, IInv, IdleClose, TypeOK
<1>1. ASSUME NEW t \in Threads, Open(t) PROVE IdleClose'
  BY <1>1, SMTT(30) DEF Open, Raise, locks, lists
<1>2. ASSUME NEW t \in Threads, Submit(t) PROVE IdleClose'
  BY <1>2, SMTT(30) DEF Submit, Goto, locks, events, lists
<1>3. ASSUME NEW t \in Threads, Answer(t) PROVE IdleClose'
  BY <1>3, SMTT(30) DEF Answer, locks, events, lists
<1>4. ASSUME NEW t \in Threads, Discarded(t) PROVE IdleClose'
  BY <1>4, SMTT(30) DEF Discarded, locks, events, lists
<1>5. ASSUME NEW t \in Threads, Expire(t) PROVE IdleClose'
  BY <1>5, SMTT(30) DEF Expire, locks, events, lists
<1>6. ASSUME NEW t \in Threads, SignalCompletion(t) PROVE IdleClose'
  BY <1>6, SMTT(30) DEF SignalCompletion, Raise, locks
<1>7. ASSUME NEW t \in Threads, Done(t) PROVE IdleClose'
  BY <1>7, SMTT(30) DEF Done, Goto, locks, events, lists
<1>8. ASSUME NEW t \in Threads, AlreadyExpired(t) PROVE IdleClose'
  BY <1>8, SMTT(30) DEF AlreadyExpired, Goto, locks, events, lists, transfers
<1>9. ASSUME NEW t \in Threads, NextTimeout(t) PROVE IdleClose'
  BY <1>9, SMTT(30) DEF NextTimeout, Goto, locks, events, lists, transfers
<1>10. ASSUME NEW t \in Threads, TryClosing(t) PROVE IdleClose'
  BY <1>10, SMTT(30) DEF TryClosing, Goto, locks, events, lists, transfers
<1>11. ASSUME NEW t \in Threads, TryLock(t) PROVE IdleClose'
  BY <1>11, SMTT(30) DEF TryLock, Goto, Waiter, events, lists, transfers
<1>12. ASSUME NEW t \in Threads, TryLockFailed(t) PROVE IdleClose'
  BY <1>12, SMTT(30) DEF TryLockFailed, Goto, locks, events, lists, transfers
<1>13. ASSUME NEW t \in Threads, AllocEventData(t) PROVE IdleClose'
  BY <1>13, SMTT(30) DEF AllocEventData, Goto, Lower, locks, lists, transfers
<1>14. ASSUME NEW t \in Threads, Poll(t) PROVE IdleClose'
  BY <1>14, SMTT(30) DEF Poll, Ready, Goto, locks, events, transfers
<1>15. ASSUME NEW t \in Threads, FilterRemoved(t) PROVE IdleClose'
  BY <1>15, SMTT(30) DEF FilterRemoved, Goto, locks, events, transfers
<1>16. ASSUME NEW t \in Threads, PollTimeout(t) PROVE IdleClose'
  BY <1>16, SMTT(30) DEF PollTimeout, Ready, HandleTimeouts, locks, events,
     lists
<1>17. ASSUME NEW t \in Threads, EventTrigger(t) PROVE IdleClose'
  BY <1>17, SMTT(30) DEF EventTrigger, Lower, lists, locks, transfers
<1>18. ASSUME NEW t \in Threads, CompleteOne(t) PROVE IdleClose'
  BY <1>18, SMTT(30) DEF CompleteOne, Goto, Completion, locks, events
<1>19. ASSUME NEW t \in Threads, CompletedAll(t) PROVE IdleClose'
  BY <1>19, SMTT(30) DEF CompletedAll, Goto, locks, events, lists, transfers
<1>20. ASSUME NEW t \in Threads, TriggerEnd(t) PROVE IdleClose'
  BY <1>20, SMTT(30) DEF TriggerEnd, Goto, Lower, locks, transfers
<1>21. ASSUME NEW t \in Threads, Reap(t) PROVE IdleClose'
  BY <1>21, SMTT(30) DEF Reap, Completion, locks, events
<1>22. ASSUME NEW t \in Threads, Reaped(t) PROVE IdleClose'
  BY <1>22, SMTT(30) DEF Reaped, Goto, locks, events, lists, transfers
<1>23. ASSUME NEW t \in Threads, Unlock(t) PROVE IdleClose'
  BY <1>23, SMTT(30) DEF Unlock, Goto, events, lists, transfers
<1>24. ASSUME NEW t \in Threads, Broadcast(t) PROVE IdleClose'
  BY <1>24, SMTT(30) DEF Broadcast, WakeAll, locks, events, lists, transfers
<1>25. ASSUME NEW t \in Threads, LockWaiters(t) PROVE IdleClose'
  BY <1>25, SMTT(30) DEF LockWaiters, Goto, events, lists, transfers
<1>26. ASSUME NEW t \in Threads, CheckCompleted(t) PROVE IdleClose'
  BY <1>26, SMTT(30) DEF CheckCompleted, Goto, events, lists, transfers
<1>27. ASSUME NEW t \in Threads, CheckActive(t) PROVE IdleClose'
  BY <1>27, SMTT(30) DEF CheckActive, Goto, events, lists, transfers
<1>28. ASSUME NEW t \in Threads, Woken(t) PROVE IdleClose'
  BY <1>28, SMTT(30) DEF Woken, Goto, locks, events, lists, transfers
<1>29. ASSUME NEW t \in Threads, WaitTimeout(t) PROVE IdleClose'
  BY <1>29, SMTT(30) DEF WaitTimeout, Goto, locks, events, lists, transfers
<1>30. ASSUME NEW t \in Threads, AfterWait(t) PROVE IdleClose'
  BY <1>30, SMTT(30) DEF AfterWait, Goto, HandleTimeouts, locks, events, lists
<1>31. ASSUME NEW t \in Threads, Back(t) PROVE IdleClose'
  BY <1>31, SMTT(30) DEF Back, Goto, locks, events, lists
<1>32. ASSUME NEW t \in Threads, CloseBegin(t) PROVE IdleClose'
  BY <1>32, SMTT(30) DEF CloseBegin, CloserGoto, Raise, locks, lists,
     transfers
<1>33. ASSUME NEW t \in Threads, CloseLock(t) PROVE IdleClose'
  BY <1>33, SMTT(30) DEF CloseLock, CloserGoto, Closer, events, lists,
     transfers
<1>34. ASSUME NEW t \in Threads, DoClose(t) PROVE IdleClose'
  BY <1>34, SMTT(30) DEF DoClose, CloserGoto, Raise, locks, lists
<1>35. ASSUME NEW t \in Threads, CloseEnd(t) PROVE IdleClose'
  BY <1>35, SMTT(30) DEF CloseEnd, CloserGoto, Lower, locks, lists, transfers
<1>36. ASSUME NEW t \in Threads, CloseUnlock(t) PROVE IdleClose'
  BY <1>36, SMTT(30) DEF CloseUnlock, CloserGoto, events, lists, transfers
<1>37. ASSUME NEW t \in Threads, CloseBroadcast(t) PROVE IdleClose'
  BY <1>37, SMTT(30) DEF CloseBroadcast, CloserGoto, WakeAll, locks, events,
     lists, transfers
<1>38. CASE Interrupt
  BY <1>38, SMTT(30) DEF Interrupt, Raise, locks, lists, transfers
<1>39. CASE UNCHANGED vars
  BY <1>39, SMTT(30) DEF vars, locks, events, lists, transfers
<1> QED
  BY <1>1, <1>2, <1>3, <1>4, <1>5, <1>6, <1>7, <1>8, <1>9, <1>10, <1>11,
     <1>12, <1>13, <1>14, <1>15, <1>16, <1>17, <1>18, <1>19, <1>20, <1>21,
     <1>22, <1>23, <1>24, <1>25, <1>26, <1>27, <1>28, <1>29, <1>30, <1>31,
     <1>32, <1>33, <1>34, <1>35, <1>36, <1>37, <1>38, <1>39
  DEF Next, Step, CloseStep

(***************************************************************************)
(* What is reported is with the one thread that holds the events lock, so  *)
(* no close comes in between.                                              *)
(***************************************************************************)
LEMMA StepReported ==
  ASSUME EventsAssumption, IInv, [Next]_vars
  PROVE  Reported'
<1> USE DEF EventsAssumption, IInv, Reported, LockHeld, Waiter, Closer,
   Handling, TypeOK, PCs, InFlight, FlagsKept
<1>1. ASSUME NEW t \in Threads, Open(t) PROVE Reported'
  BY <1>1, SMTT(30) DEF Open, Raise, locks, lists
<1>2. ASSUME NEW t \in Threads, Submit(t) PROVE Reported'
  BY <1>2, SMTT(30) DEF Submit, Goto, locks, events, lists
<1>3. ASSUME NEW t \in Threads, Answer(t) PROVE Reported'
  BY <1>3, SMTT(30) DEF Answer, locks, events, lists
<1>4. ASSUME NEW t \in Threads, Discarded(t) PROVE Reported'
  BY <1>4, SMTT(30) DEF Discarded, locks, events, lists
<1>5. ASSUME NEW t \in Threads, Expire(t) PROVE Reported'
  BY <1>5, SMTT(30) DEF Expire, locks, events, lists
<1>6. ASSUME NEW t \in Threads, SignalCompletion(t) PROVE Reported'
  BY <1>6, SMTT(30) DEF SignalCompletion, Raise, locks
<1>7. ASSUME NEW t \in Threads, Done(t) PROVE Reported'
  BY <1>7, SMTT(30) DEF Done, Goto, locks, events, lists
<1>8. ASSUME NEW t \in Threads, AlreadyExpired(t) PROVE Reported'
  BY <1>8, SMTT(30) DEF AlreadyExpired, Goto, locks, events, lists, transfers
<1>9. ASSUME NEW t \in Threads, NextTimeout(t) PROVE Reported'
  BY <1>9, SMTT(30) DEF NextTimeout, Goto, locks, events, lists, transfers
<1>10. ASSUME NEW t \in Threads, TryClosing(t) PROVE Reported'
  BY <1>10, SMTT(30) DEF TryClosing, Goto, locks, events, lists, transfers
<1>11. ASSUME NEW t \in Threads, TryLock(t) PROVE Reported'
  BY <1>11, SMTT(30) DEF TryLock, Goto, events, lists, transfers
<1>12. ASSUME NEW t \in Threads, TryLockFailed(t) PROVE Reported'
  BY <1>12, SMTT(30) DEF TryLockFailed, Goto, locks, events, lists, transfers
<1>13. ASSUME NEW t \in Threads, AllocEventData(t) PROVE Reported'
  BY <1>13, SMTT(30) DEF AllocEventData, Goto, Lower, locks, lists, transfers
<1>14. ASSUME NEW t \in Threads, Poll(t) PROVE Reported'
  BY <1>14, SMTT(30) DEF Poll, Ready, Goto, locks, events, transfers
<1>15. ASSUME NEW t \in Threads, FilterRemoved(t) PROVE Reported'
  BY <1>15, SMTT(30) DEF FilterRemoved, Goto, locks, events, transfers
<1>16. ASSUME NEW t \in Threads, PollTimeout(t) PROVE Reported'
  BY <1>16, SMTT(30) DEF PollTimeout, Ready, HandleTimeouts, locks, events,
     lists
<1>17. ASSUME NEW t \in Threads, EventTrigger(t) PROVE Reported'
  BY <1>17, SMTT(30) DEF EventTrigger, Lower, lists, locks, transfers
<1>18. ASSUME NEW t \in Threads, CompleteOne(t) PROVE Reported'
  BY <1>18, SMTT(30) DEF CompleteOne, Goto, Completion, locks, events
<1>19. ASSUME NEW t \in Threads, CompletedAll(t) PROVE Reported'
  BY <1>19, SMTT(30) DEF CompletedAll, Goto, locks, events, lists, transfers
<1>20. ASSUME NEW t \in Threads, TriggerEnd(t) PROVE Reported'
  BY <1>20, SMTT(30) DEF TriggerEnd, Goto, Lower, locks, transfers
<1>21. ASSUME NEW t \in Threads, Reap(t) PROVE Reported'
  BY <1>21, SMTT(30) DEF Reap, Completion, locks, events
<1>22. ASSUME NEW t \in Threads, Reaped(t) PROVE Reported'
  BY <1>22, SMTT(30) DEF Reaped, Goto, locks, events, lists, transfers
<1>23. ASSUME NEW t \in Threads, Unlock(t) PROVE Reported'
  BY <1>23, SMTT(30) DEF Unlock, Goto, events, lists, transfers
<1>24. ASSUME NEW t \in Threads, Broadcast(t) PROVE Reported'
  <2>1. \A u \in Threads : pc[u] \in Handling => pc'[u] = pc[u]
    BY <1>24 DEF Broadcast, WakeAll
  <2>2. UNCHANGED <<batch, urb, completed_transfers, cut>>
    BY <1>24 DEF Broadcast, lists, transfers
  <2> QED
    BY <2>1, <2>2
<1>25. ASSUME NEW t \in Threads, LockWaiters(t) PROVE Reported'
  BY <1>25, SMTT(30) DEF LockWaiters, Goto, events, lists, transfers
<1>26. ASSUME NEW t \in Threads, CheckCompleted(t) PROVE Reported'
  BY <1>26, SMTT(30) DEF CheckCompleted, Goto, events, lists, transfers
<1>27. ASSUME NEW t \in Threads, CheckActive(t) PROVE Reported'
  BY <1>27, SMTT(30) DEF CheckActive, Goto, events, lists, transfers
<1>28. ASSUME NEW t \in Threads, Woken(t) PROVE Reported'
  BY <1>28, SMTT(30) DEF Woken, Goto, locks, events, lists, transfers
<1>29. ASSUME NEW t \in Threads, WaitTimeout(t) PROVE Reported'
  BY <1>29, SMTT(30) DEF WaitTimeout, Goto, locks, events, lists, transfers
<1>30. ASSUME NEW t \in Threads, AfterWait(t) PROVE Reported'
  BY <1>30, SMTT(30) DEF AfterWait, Goto, HandleTimeouts, locks, events, lists
<1>31. ASSUME NEW t \in Threads, Back(t) PROVE Reported'
  BY <1>31, SMTT(30) DEF Back, Goto, locks, events, lists
<1>32. ASSUME NEW t \in Threads, CloseBegin(t) PROVE Reported'
  BY <1>32, SMTT(30) DEF CloseBegin, CloserGoto, Raise, locks, lists,
     transfers
<1>33. ASSUME NEW t \in Threads, CloseLock(t) PROVE Reported'
  BY <1>33, SMTT(30) DEF CloseLock, CloserGoto, events, lists, transfers
<1>34. ASSUME NEW t \in Threads, DoClose(t) PROVE Reported'
  BY <1>34, SMTT(30) DEF DoClose, CloserGoto, Raise, locks, lists
<1>35. ASSUME NEW t \in Threads, CloseEnd(t) PROVE Reported'
  BY <1>35, SMTT(30) DEF CloseEnd, CloserGoto, Lower, locks, lists, transfers
<1>36. ASSUME NEW t \in Threads, CloseUnlock(t) PROVE Reported'
  BY <1>36, SMTT(30) DEF CloseUnlock, CloserGoto, events, lists, transfers
<1>37. ASSUME NEW t \in Threads, CloseBroadcast(t) PROVE Reported'
  BY <1>37, SMTT(30) DEF CloseBroadcast, CloserGoto, WakeAll, locks, events,
     lists, transfers
<1>38. CASE Interrupt
  BY <1>38, SMTT(30) DEF Interrupt, Raise, locks, lists, transfers
<1>39. CASE UNCHANGED vars
  BY <1>39, SMTT(30) DEF vars, locks, events, lists, transfers
<1> QED
  BY <1>1, <1>2, <1>3, <1>4, <1>5, <1>6, <1>7, <1>8, <1>9, <1>10, <1>11,
     <1>12, <1>13, <1>14, <1>15, <1>16, <1>17, <1>18, <1>19, <1>20, <1>21,
     <1>22, <1>23, <1>24, <1>25, <1>26, <1>27, <1>28, <1>29, <1>30, <1>31,
     <1>32, <1>33, <1>34, <1>35, <1>36, <1>37, <1>38, <1>39
  DEF Next, Step, CloseStep

(***************************************************************************)
(* A transfer is put on the completed ones once, and stays signalled until *)
(* its callback.                                                           *)
(***************************************************************************)
LEMMA StepSignalledOnce ==
  ASSUME EventsAssumption, IInv, [Next]_vars
  PROVE  SignalledOnce'
<1> USE DEF EventsAssumption, IInv, SignalledOnce, Distinct, Signalled,
   TypeOK, InFlight, IdleClose, Reported, LockHeld, Waiter, Closer, Handling
<1>1. ASSUME NEW t \in Threads, Open(t) PROVE SignalledOnce'
  BY <1>1, SMTT(30) DEF Open, Raise, locks, lists
<1>2. ASSUME NEW t \in Threads, Submit(t) PROVE SignalledOnce'
  BY <1>2, SMTT(30) DEF Submit, Goto, locks, events, lists
<1>3. ASSUME NEW t \in Threads, Answer(t) PROVE SignalledOnce'
  BY <1>3, SMTT(30) DEF Answer, locks, events, lists
<1>4. ASSUME NEW t \in Threads, Discarded(t) PROVE SignalledOnce'
  BY <1>4, SMTT(30) DEF Discarded, locks, events, lists
<1>5. ASSUME NEW t \in Threads, Expire(t) PROVE SignalledOnce'
  BY <1>5, SMTT(30) DEF Expire, locks, events, lists
<1>6. ASSUME NEW t \in Threads, SignalCompletion(t) PROVE SignalledOnce'
  BY <1>6, SMTT(30) DEF SignalCompletion, Raise, locks
<1>7. ASSUME NEW t \in Threads, Done(t) PROVE SignalledOnce'
  BY <1>7, SMTT(30) DEF Done, Goto, locks, events, lists
<1>8. ASSUME NEW t \in Threads, AlreadyExpired(t) PROVE SignalledOnce'
  BY <1>8, SMTT(30) DEF AlreadyExpired, Goto, locks, events, lists, transfers
<1>9. ASSUME NEW t \in Threads, NextTimeout(t) PROVE SignalledOnce'
  BY <1>9, SMTT(30) DEF NextTimeout, Goto, locks, events, lists, transfers
<1>10. ASSUME NEW t \in Threads, TryClosing(t) PROVE SignalledOnce'
  BY <1>10, SMTT(30) DEF TryClosing, Goto, locks, events, lists, transfers
<1>11. ASSUME NEW t \in Threads, TryLock(t) PROVE SignalledOnce'
  BY <1>11, SMTT(30) DEF TryLock, Goto, events, lists, transfers
<1>12. ASSUME NEW t \in Threads, TryLockFailed(t) PROVE SignalledOnce'
  BY <1>12, SMTT(30) DEF TryLockFailed, Goto, locks, events, lists, transfers
<1>13. ASSUME NEW t \in Threads, AllocEventData(t) PROVE SignalledOnce'
  BY <1>13, SMTT(30) DEF AllocEventData, Goto, Lower, locks, lists, transfers
<1>14. ASSUME NEW t \in Threads, Poll(t) PROVE SignalledOnce'
  BY <1>14, SMTT(30) DEF Poll, Ready, Goto, locks, events, transfers
<1>15. ASSUME NEW t \in Threads, FilterRemoved(t) PROVE SignalledOnce'
  BY <1>15, SMTT(30) DEF FilterRemoved, Goto, locks, events, transfers
<1>16. ASSUME NEW t \in Threads, PollTimeout(t) PROVE SignalledOnce'
  BY <1>16, SMTT(30) DEF PollTimeout, Ready, HandleTimeouts, locks, events,
     lists
<1>17. ASSUME NEW t \in Threads, EventTrigger(t) PROVE SignalledOnce'
  BY <1>17, SMTT(30) DEF EventTrigger, Lower, lists, locks, transfers
<1>18. ASSUME NEW t \in Threads, CompleteOne(t) PROVE SignalledOnce'
  BY <1>18, SMTT(30) DEF CompleteOne, Goto, Completion, locks, events
<1>19. ASSUME NEW t \in Threads, CompletedAll(t) PROVE SignalledOnce'
  BY <1>19, SMTT(30) DEF CompletedAll, Goto, locks, events, lists, transfers
<1>20. ASSUME NEW t \in Threads, TriggerEnd(t) PROVE SignalledOnce'
  BY <1>20, SMTT(30) DEF TriggerEnd, Goto, Lower, locks, transfers
<1>21. ASSUME NEW t \in Threads, Reap(t) PROVE SignalledOnce'
  BY <1>21, SMTT(30) DEF Reap, Completion, locks, events
<1>22. ASSUME NEW t \in Threads, Reaped(t) PROVE SignalledOnce'
  BY <1>22, SMTT(30) DEF Reaped, Goto, locks, events, lists, transfers
<1>23. ASSUME NEW t \in Threads, Unlock(t) PROVE SignalledOnce'
  BY <1>23, SMTT(30) DEF Unlock, Goto, events, lists, transfers
<1>24. ASSUME NEW t \in Threads, Broadcast(t) PROVE SignalledOnce'
  BY <1>24, SMTT(30) DEF Broadcast, WakeAll, locks, events, lists, transfers
<1>25. ASSUME NEW t \in Threads, LockWaiters(t) PROVE SignalledOnce'
  BY <1>25, SMTT(30) DEF LockWaiters, Goto, events, lists, transfers
<1>26. ASSUME NEW t \in Threads, CheckCompleted(t) PROVE SignalledOnce'
  BY <1>26, SMTT(30) DEF CheckCompleted, Goto, events, lists, transfers
<1>27. ASSUME NEW t \in Threads, CheckActive(t) PROVE SignalledOnce'
  BY <1>27, SMTT(30) DEF CheckActive, Goto, events, lists, transfers
<1>28. ASSUME NEW t \in Threads, Woken(t) PROVE SignalledOnce'
  BY <1>28, SMTT(30) DEF Woken, Goto, locks, events, lists, transfers
<1>29. ASSUME NEW t \in Threads, WaitTimeout(t) PROVE SignalledOnce'
  BY <1>29, SMTT(30) DEF WaitTimeout, Goto, locks, events, lists, transfers
<1>30. ASSUME NEW t \in Threads, AfterWait(t) PROVE SignalledOnce'
  BY <1>30, SMTT(30) DEF AfterWait, Goto, HandleTimeouts, locks, events, lists
<1>31. ASSUME NEW t \in Threads, Back(t) PROVE SignalledOnce'
  BY <1>31, SMTT(30) DEF Back, Goto, locks, events, lists
<1>32. ASSUME NEW t \in Threads, CloseBegin(t) PROVE SignalledOnce'
  BY <1>32, SMTT(30) DEF CloseBegin, CloserGoto, Raise, locks, lists,
     transfers
<1>33. ASSUME NEW t \in Threads, CloseLock(t) PROVE SignalledOnce'
  BY <1>33, SMTT(30) DEF CloseLock, CloserGoto, events, lists, transfers
<1>34. ASSUME NEW t \in Threads, DoClose(t) PROVE SignalledOnce'
  BY <1>34, SMTT(30) DEF DoClose, CloserGoto, Raise, locks, lists
<1>35. ASSUME NEW t \in Threads, CloseEnd(t) PROVE SignalledOnce'
  BY <1>35, SMTT(30) DEF CloseEnd, CloserGoto, Lower, locks, lists, transfers
<1>36. ASSUME NEW t \in Threads, CloseUnlock(t) PROVE SignalledOnce'
  BY <1>36, SMTT(30) DEF CloseUnlock, CloserGoto, events, lists, transfers
<1>37. ASSUME NEW t \in Threads, CloseBroadcast(t) PROVE SignalledOnce'
  BY <1>37, SMTT(30) DEF CloseBroadcast, CloserGoto, WakeAll, locks, events,
     lists, transfers
<1>38. CASE Interrupt
  BY <1>38, SMTT(30) DEF Interrupt, Raise, locks, lists, transfers
<1>39. CASE UNCHANGED vars
  BY <1>39, SMTT(30) DEF vars, locks, events, lists, transfers
<1> QED
  BY <1>1, <1>2, <1>3, <1>4, <1>5, <1>6, <1>7, <1>8, <1>9, <1>10, <1>11,
     <1>12, <1>13, <1>14, <1>15, <1>16, <1>17, <1>18, <1>19, <1>20, <1>21,
     <1>22, <1>23, <1>24, <1>25, <1>26, <1>27, <1>28, <1>29, <1>30, <1>31,
     <1>32, <1>33, <1>34, <1>35, <1>36, <1>37, <1>38, <1>39
  DEF Next, Step, CloseStep

(***************************************************************************)
(* The variables keep their types, the pipe and the count of the closes    *)
(* given.                                                                  *)
(***************************************************************************)
LEMMA StepTypeOK ==
  ASSUME EventsAssumption, IInv,
         pipe' \in Nat, device_close' \in 0 .. Cardinality(Threads), [Next]_vars
  PROVE  TypeOK'
<1> USE DEF EventsAssumption, IInv, TypeOK, PCs
<1>1. ASSUME NEW t \in Threads, Open(t) PROVE TypeOK'
  <2>1. event_flags' \subseteq Flags
    BY <1>1 DEF Open, Raise, Flags
  <2> QED
    BY <1>1, <2>1, SMTT(30) DEF Open, Raise, locks, lists
<1>2. ASSUME NEW t \in Threads, Submit(t) PROVE TypeOK'
  BY <1>2, SMTT(30) DEF Submit, Goto, locks, events, lists
<1>3. ASSUME NEW t \in Threads, Answer(t) PROVE TypeOK'
  BY <1>3, SMTT(30) DEF Answer, locks, events, lists
<1>4. ASSUME NEW t \in Threads, Discarded(t) PROVE TypeOK'
  BY <1>4, SMTT(30) DEF Discarded, locks, events, lists
<1>5. ASSUME NEW t \in Threads, Expire(t) PROVE TypeOK'
  BY <1>5, SMTT(30) DEF Expire, locks, events, lists
<1>6. ASSUME NEW t \in Threads, SignalCompletion(t) PROVE TypeOK'
  <2>1. event_flags' \subseteq Flags
    BY <1>6 DEF SignalCompletion, Raise, Flags
  <2> QED
    BY <1>6, <2>1, SMTT(30) DEF SignalCompletion, Raise, locks
<1>7. ASSUME NEW t \in Threads, Done(t) PROVE TypeOK'
  BY <1>7, SMTT(30) DEF Done, Goto, locks, events, lists
<1>8. ASSUME NEW t \in Threads, AlreadyExpired(t) PROVE TypeOK'
  BY <1>8, SMTT(30) DEF AlreadyExpired, Goto, locks, events, lists, transfers
<1>9. ASSUME NEW t \in Threads, NextTimeout(t) PROVE TypeOK'
  BY <1>9, SMTT(30) DEF NextTimeout, Timed, Goto, locks, events, lists, transfers
<1>10. ASSUME NEW t \in Threads, TryClosing(t) PROVE TypeOK'
  BY <1>10, SMTT(30) DEF TryClosing, Goto, locks, events, lists, transfers
<1>11. ASSUME NEW t \in Threads, TryLock(t) PROVE TypeOK'
  BY <1>11, SMTT(30) DEF Holders, TryLock, Goto, Waiter, events, lists, transfers
<1>12. ASSUME NEW t \in Threads, TryLockFailed(t) PROVE TypeOK'
  BY <1>12, SMTT(30) DEF TryLockFailed, Goto, locks, events, lists, transfers
<1>13. ASSUME NEW t \in Threads, AllocEventData(t) PROVE TypeOK'
  <2>1. event_flags' \subseteq Flags
    BY <1>13 DEF AllocEventData, Lower, Flags
  <2> QED
    BY <1>13, <2>1, SMTT(30) DEF AllocEventData, Goto, Lower, locks, lists, transfers
<1>14. ASSUME NEW t \in Threads, Poll(t) PROVE TypeOK'
  BY <1>14, SMTT(30) DEF Poll, Ready, Goto, locks, events, transfers
<1>15. ASSUME NEW t \in Threads, FilterRemoved(t) PROVE TypeOK'
  BY <1>15, SMTT(30) DEF FilterRemoved, Goto, locks, events, transfers
<1>16. ASSUME NEW t \in Threads, PollTimeout(t) PROVE TypeOK'
  BY <1>16, SMTT(30) DEF PollTimeout, Ready, HandleTimeouts, locks, events,
     lists
<1>17. ASSUME NEW t \in Threads, EventTrigger(t) PROVE TypeOK'
  <2>1. event_flags' \subseteq Flags
    BY <1>17 DEF EventTrigger, Lower, Flags
  <2>2. pc' \in [Threads -> PCs]
    BY <1>17 DEF EventTrigger
  <2>3. << >> \in Seq(Threads)
    OBVIOUS
  <2>4. completed_transfers' \in Seq(Threads) /\ cut' \in Seq(Threads) /\ batch' = batch
    BY <1>17, <2>3 DEF EventTrigger, lists
  <2>5. UNCHANGED <<closing, locks, event_sources, event_data, transfers, until>>
    BY <1>17 DEF EventTrigger
  <2> QED
    BY <2>1, <2>2, <2>4, <2>5, SMTT(30) DEF locks, transfers
<1>18. ASSUME NEW t \in Threads, CompleteOne(t) PROVE TypeOK'
  BY <1>18, SMTT(30) DEF CompleteOne, Goto, Completion, locks, events
<1>19. ASSUME NEW t \in Threads, CompletedAll(t) PROVE TypeOK'
  BY <1>19, SMTT(30) DEF CompletedAll, Goto, locks, events, lists, transfers
<1>20. ASSUME NEW t \in Threads, TriggerEnd(t) PROVE TypeOK'
  <2>1. event_flags' \subseteq Flags
    BY <1>20 DEF TriggerEnd, Lower, Flags
  <2> QED
    BY <1>20, <2>1, SMTT(30) DEF TriggerEnd, Goto, Lower, locks, transfers
<1>21. ASSUME NEW t \in Threads, Reap(t) PROVE TypeOK'
  BY <1>21, SMTT(30) DEF Reap, Completion, locks, events
<1>22. ASSUME NEW t \in Threads, Reaped(t) PROVE TypeOK'
  BY <1>22, SMTT(30) DEF Reaped, Goto, locks, events, lists, transfers
<1>23. ASSUME NEW t \in Threads, Unlock(t) PROVE TypeOK'
  <2>1. UNCHANGED <<closing, event_waiters_lock, events, lists, transfers, until>>
    BY <1>23 DEF Unlock
  <2>2. pc' \in [Threads -> PCs] /\ event_handler_active' \in BOOLEAN
    BY <1>23 DEF Unlock, Goto
  <2>3. events_lock' \in Holders \cup {None}
    BY <1>23 DEF Unlock
  <2> QED
    BY <2>1, <2>2, <2>3, SMTT(30) DEF events, lists, transfers
<1>24. ASSUME NEW t \in Threads, Broadcast(t) PROVE TypeOK'
  BY <1>24, SMTT(30) DEF Broadcast, WakeAll, locks, events, lists, transfers
<1>25. ASSUME NEW t \in Threads, LockWaiters(t) PROVE TypeOK'
  BY <1>25, SMTT(30) DEF LockWaiters, Goto, events, lists, transfers
<1>26. ASSUME NEW t \in Threads, CheckCompleted(t) PROVE TypeOK'
  BY <1>26, SMTT(30) DEF CheckCompleted, Goto, events, lists, transfers
<1>27. ASSUME NEW t \in Threads, CheckActive(t) PROVE TypeOK'
  BY <1>27, SMTT(30) DEF CheckActive, Goto, events, lists, transfers
<1>28. ASSUME NEW t \in Threads, Woken(t) PROVE TypeOK'
  BY <1>28, SMTT(30) DEF Woken, Goto, locks, events, lists, transfers
<1>29. ASSUME NEW t \in Threads, WaitTimeout(t) PROVE TypeOK'
  BY <1>29, SMTT(30) DEF WaitTimeout, Goto, locks, events, lists, transfers
<1>30. ASSUME NEW t \in Threads, AfterWait(t) PROVE TypeOK'
  BY <1>30, SMTT(30) DEF AfterWait, Goto, HandleTimeouts, locks, events, lists
<1>31. ASSUME NEW t \in Threads, Back(t) PROVE TypeOK'
  BY <1>31, SMTT(30) DEF Back, Goto, locks, events, lists
<1>32. ASSUME NEW t \in Threads, CloseBegin(t) PROVE TypeOK'
  <2>1. event_flags' \subseteq Flags
    BY <1>32 DEF CloseBegin, Raise, Flags
  <2> QED
    BY <1>32, <2>1, SMTT(30) DEF CloseBegin, CloserGoto, Raise, locks, lists, transfers
<1>33. ASSUME NEW t \in Threads, CloseLock(t) PROVE TypeOK'
  BY <1>33, SMTT(30) DEF Holders, CloseLock, CloserGoto, Closer, events, lists,
     transfers
<1>34. ASSUME NEW t \in Threads, DoClose(t) PROVE TypeOK'
  <2>1. event_flags' \subseteq Flags
    BY <1>34 DEF DoClose, Raise, Flags
  <2> QED
    BY <1>34, <2>1, SMTT(30) DEF DoClose, CloserGoto, Raise, locks, lists
<1>35. ASSUME NEW t \in Threads, CloseEnd(t) PROVE TypeOK'
  <2>1. event_flags' \subseteq Flags
    BY <1>35 DEF CloseEnd, Lower, Flags
  <2> QED
    BY <1>35, <2>1, SMTT(30) DEF CloseEnd, CloserGoto, Lower, locks, lists, transfers
<1>36. ASSUME NEW t \in Threads, CloseUnlock(t) PROVE TypeOK'
  <2>1. UNCHANGED <<pc, event_waiters_lock, events, lists, transfers, until>>
    BY <1>36 DEF CloseUnlock
  <2>2. /\ closing' \in [Threads -> {"none", "lock", "close", "end", "unlock", "broadcast"}]
        /\ event_handler_active' \in BOOLEAN
    BY <1>36 DEF CloseUnlock, CloserGoto
  <2>3. events_lock' \in Holders \cup {None}
    BY <1>36 DEF CloseUnlock
  <2> QED
    BY <2>1, <2>2, <2>3, SMTT(30) DEF events, lists, transfers
<1>37. ASSUME NEW t \in Threads, CloseBroadcast(t) PROVE TypeOK'
  BY <1>37, SMTT(30) DEF CloseBroadcast, CloserGoto, WakeAll, locks, events,
     lists, transfers
<1>38. CASE Interrupt
  <2>1. event_flags' \subseteq Flags
    BY <1>38 DEF Interrupt, Raise, Flags
  <2> QED
    BY <1>38, <2>1, SMTT(30) DEF Interrupt, Raise, locks, lists, transfers
<1>39. CASE UNCHANGED vars
  BY <1>39, SMTT(30) DEF vars, locks, events, lists, transfers
<1> QED
  BY <1>1, <1>2, <1>3, <1>4, <1>5, <1>6, <1>7, <1>8, <1>9, <1>10, <1>11,
     <1>12, <1>13, <1>14, <1>15, <1>16, <1>17, <1>18, <1>19, <1>20, <1>21,
     <1>22, <1>23, <1>24, <1>25, <1>26, <1>27, <1>28, <1>29, <1>30, <1>31,
     <1>32, <1>33, <1>34, <1>35, <1>36, <1>37, <1>38, <1>39
  DEF Next, Step, CloseStep

LEMMA StepIInv == ASSUME EventsAssumption, IInv, [Next]_vars PROVE IInv'
<1>1. LockHeld' /\ CloseCounted' /\ FlagsKept' /\ PipeMatchesFlags'
  BY StepLockHeld, StepCloseCounted, StepFlags
<1>2. InFlight' /\ IdleClose' /\ Reported' /\ SignalledOnce'
  BY StepInFlight, StepIdleClose, StepReported, StepSignalledOnce
<1>3. pipe' \in Nat
  BY <1>1 DEF PipeMatchesFlags
<1>4. device_close' \in 0 .. Cardinality(Threads)
  <2>1. Counted' \subseteq Threads
    BY DEF Counted
  <2> QED
    BY <1>1, <2>1, FS_Subset, FS_CardinalityType DEF CloseCounted, EventsAssumption
<1>5. TypeOK'
  BY <1>3, <1>4, StepTypeOK
<1> QED
  BY <1>1, <1>2, <1>5 DEF IInv

(***************************************************************************)
(* The invariant holds in every state.                                     *)
(***************************************************************************)
THEOREM Inductive == ASSUME EventsAssumption PROVE Spec => []IInv
<1>1. Init => IInv
  BY InitIInv
<1>2. IInv /\ [Next]_vars => IInv'
  BY StepIInv
<1> QED
  BY <1>1, <1>2, PTL DEF Spec
-----------------------------------------------------------------------------
(***************************************************************************)
(* Every variable keeps its type.                                          *)
(***************************************************************************)
THEOREM TypeCorrect == ASSUME EventsAssumption PROVE Spec => []TypeOK
<1>1. IInv => TypeOK
  BY DEF IInv
<1> QED
  BY <1>1, Inductive, PTL

(***************************************************************************)
(* The pipe that wakes poll() holds one message exactly while an event is  *)
(* pending: a flag is neither unseen nor read twice (events_posix.c).      *)
(***************************************************************************)
THEOREM PipeIsRight == ASSUME EventsAssumption PROVE Spec => []PipeMatchesFlags
<1>1. IInv => PipeMatchesFlags
  BY DEF IInv
<1> QED
  BY <1>1, Inductive, PTL

(***************************************************************************)
(* What is reported is handled while its handle is open.  On Linux always; *)
(* with completed_transfers if no handle is closed under a transfer, as a  *)
(* closed one would stay in that list.                                     *)
(***************************************************************************)
THEOREM ReportedStaysOpen ==
  ASSUME EventsAssumption, Backend = "poll" \/ ~CloseBusy
  PROVE  Spec => []ReportedIsOpen
<1>1. IInv => ReportedIsOpen
  <2> SUFFICES ASSUME IInv, NEW t \in batch \cup {cut[i] : i \in 1 .. Len(cut)}
               PROVE  handle[t] = "open" /\ t \in flying
    BY DEF ReportedIsOpen
  <2>1. t \in Threads /\ urb[t] # "none"
    <3>1. CASE t \in batch
      BY <3>1 DEF IInv, TypeOK, Reported
    <3>2. ASSUME NEW i \in 1 .. Len(cut), t = cut[i]
          PROVE  t \in Threads /\ urb[t] # "none"
      BY <3>2, SMTT(30) DEF IInv, TypeOK, SignalledOnce, Signalled
    <3> QED
      BY <3>1, <3>2
  <2> QED
    BY <2>1 DEF IInv, InFlight
<1> QED
  BY <1>1, Inductive, PTL

\* No other thread handles events, and no device is being closed.
OneHandler ==
  \A t \in Threads : pc[t] \in Handling =>
    \A u \in Threads :
      /\ u # t => pc[u] \notin Handling
      /\ closing[u] \notin {"close", "end", "unlock"}

(***************************************************************************)
(* One thread handles the events: nobody else does, and no device is       *)
(* closed meanwhile (libusb_lock_events).                                  *)
(***************************************************************************)
THEOREM HandledByOne == ASSUME EventsAssumption PROVE Spec => []OneHandler
<1>1. IInv => OneHandler
  BY SMTT(30) DEF IInv, LockHeld, OneHandler, Waiter, Closer
<1> QED
  BY <1>1, Inductive, PTL
=============================================================================
