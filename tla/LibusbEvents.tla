---------------------------- MODULE LibusbEvents ----------------------------
(***************************************************************************)
(* libusb/c/io.c, event handling: one of the threads that wait for a       *)
(* transfer (sync.c) handles the events of all, the others sleep until it  *)
(* stops.  libusb_close interrupts whoever handles events and takes the    *)
(* events lock itself.  events_posix.c gives the pipe that wakes poll().   *)
(*                                                                         *)
(* Every thread has one device handle and one transfer at a time, so the   *)
(* handle, its file descriptor and its transfer go by the thread's name;   *)
(* so does the thread that closes the handle.                              *)
(*                                                                         *)
(* Backend "poll" is Linux: a finished transfer makes its descriptor       *)
(* ready.  Backend "signal" is Darwin and Windows: it is put on            *)
(* completed_transfers and the pipe is written.                            *)
(***************************************************************************)
EXTENDS Naturals, FiniteSets, Sequences

CONSTANTS Threads, None,
          Closable,               \* whose handles may be closed
          TimedThreads,           \* who uses timeouts
          Backend,                \* "poll" or "signal"
          CloseBusy,              \* may a handle be closed under a transfer?
          LongWait                \* may the 60 s of sync.c expire?

\* holders of the events lock: a thread that waits, or the closer of a handle
Waiter(t) == <<t, "waiter">>
Closer(t) == <<t, "closer">>
Holders == Threads \X {"waiter", "closer"}

EventsAssumption ==
  /\ IsFiniteSet(Threads) /\ None \notin Threads \cup Holders /\ Closable \subseteq Threads
  /\ TimedThreads \subseteq Threads
  /\ Backend \in {"poll", "signal"}
  /\ CloseBusy \in BOOLEAN /\ LongWait \in BOOLEAN

\* USER_INTERRUPT stands for the flags an event handler only takes back: it,
\* HOTPLUG_CB_DEREGISTERED and HOTPLUG_MSG_PENDING
Flags == {"SOURCES_MODIFIED", "USER_INTERRUPT", "DEVICE_CLOSE",
          "TRANSFER_COMPLETED"}

VARIABLES
  pc, closing,                    \* where a thread, the closer of a handle is
  events_lock, event_handler_active,
  event_waiters_lock,
  device_close, event_flags,
  pipe,                           \* messages in ctx->event
  event_sources, event_data,      \* what should be polled, what is polled
  batch,                          \* the descriptors poll() found ready
  completed_transfers,            \* the list of the context ...
  cut,                            \* ... and what the handler took off it
  flying,                         \* flying_transfers
  urb,                            \* the transfer in the kernel
  timer,                          \* its timeout
  completed,                      \* the flag of the callback
  handle,                         \* "open", "closed"; transfer->dev_handle
  until                           \* the timeouts that bound the wait

vars == <<pc, closing, events_lock, event_handler_active, event_waiters_lock,
          device_close, event_flags, pipe, event_sources, event_data, batch,
          completed_transfers, cut, flying, urb, timer, completed, handle, until>>

locks == <<events_lock, event_handler_active, event_waiters_lock>>
events == <<device_close, event_flags, pipe, event_sources, event_data>>
lists == <<batch, completed_transfers, cut>>
transfers == <<flying, urb, timer, completed, handle>>

PCs == {"idle", "loop", "try", "trylock", "alloc", "poll", "filter",
        "trigger", "complete", "triggerEnd", "backend", "unlock",
        "broadcast", "waiters", "check", "isActive", "sleep",
        "woken", "timeouts", "back"}

TypeOK ==
  /\ pc \in [Threads -> PCs]
  /\ closing \in [Threads -> {"none", "lock", "close", "end", "unlock",
                              "broadcast"}]
  /\ events_lock \in Holders \cup {None}
  /\ event_handler_active \in BOOLEAN
  /\ event_waiters_lock \in Threads \cup {None}
  /\ device_close \in 0 .. Cardinality(Threads)
  /\ event_flags \subseteq Flags
  /\ pipe \in Nat
  /\ event_sources \subseteq Threads /\ event_data \subseteq Threads
  /\ batch \subseteq Threads
  /\ completed_transfers \in Seq(Threads) /\ cut \in Seq(Threads)
  /\ flying \subseteq Threads
  /\ urb \in [Threads -> {"none", "pending", "cancelling", "done", "signalled"}]
  /\ timer \in [Threads -> {"infinite", "running", "expired", "handled"}]
  /\ completed \in [Threads -> BOOLEAN]
  /\ handle \in [Threads -> {"closed", "open", "null"}]
  /\ until \in [Threads -> SUBSET Threads]

Init ==
  /\ pc = [t \in Threads |-> "idle"]
  /\ closing = [t \in Threads |-> "none"]
  /\ events_lock = None /\ event_handler_active = FALSE
  /\ event_waiters_lock = None
  /\ device_close = 0
  /\ event_flags = {"SOURCES_MODIFIED"}   \* usbi_io_init added the pipe itself
  /\ pipe = 1
  /\ event_sources = {} /\ event_data = {}
  /\ batch = {} /\ completed_transfers = <<>> /\ cut = <<>>
  /\ flying = {}
  /\ urb = [t \in Threads |-> "none"]
  /\ timer = [t \in Threads |-> "infinite"]
  /\ completed = [t \in Threads |-> FALSE]
  /\ handle = [t \in Threads |-> "closed"]
  /\ until = [t \in Threads |-> {}]
-----------------------------------------------------------------------------
Goto(t, from, to) == pc[t] = from /\ pc' = [pc EXCEPT ![t] = to]

CloserGoto(t, from, to) ==
  closing[t] = from /\ closing' = [closing EXCEPT ![t] = to]

\* the pattern of every writer of event_flags: the pipe is written only if
\* nothing was pending
Raise(f) ==
  /\ event_flags' = event_flags \cup {f}
  /\ pipe' = IF event_flags = {} THEN pipe + 1 ELSE pipe

\* ... and of every reader: the pipe is emptied when nothing is pending
Lower(fs) ==
  /\ event_flags' = event_flags \ fs
  /\ pipe' = IF event_flags' = {} THEN pipe - 1 ELSE pipe

\* handle_timeouts_locked: the transfers whose time is over are cancelled
HandleTimeouts ==
  LET expired == {t \in flying : timer[t] = "expired"} IN
  /\ timer' = [t \in Threads |-> IF t \in expired THEN "handled" ELSE timer[t]]
  /\ urb' = [t \in Threads |-> IF t \in expired /\ urb[t] = "pending"
                               THEN "cancelling" ELSE urb[t]]
  /\ UNCHANGED <<flying, completed, handle>>

\* the slip of adding a descriptor without waking poll()
OpenSilently(t) ==
  /\ pc[t] = "idle" /\ closing[t] = "none" /\ handle[t] # "open"
  /\ handle' = [handle EXCEPT ![t] = "open"]
  /\ event_sources' = event_sources \cup {t}
  /\ UNCHANGED <<pc, closing, locks, device_close, event_flags, pipe, event_data,
                 lists, flying, urb, timer, completed, until>>

\* usbi_handle_transfer_completion with sync_transfer_cb as the callback
Completion(t) ==
  /\ flying' = flying \ {t}
  /\ urb' = [urb EXCEPT ![t] = "none"]
  /\ completed' = [completed EXCEPT ![t] = TRUE]
  /\ UNCHANGED <<timer, handle>>
-----------------------------------------------------------------------------
(***************************************************************************)
(* The environment.                                                        *)
(***************************************************************************)
\* libusb_open; on Linux its descriptor becomes an event source
Open(t) ==
  /\ pc[t] = "idle" /\ closing[t] = "none" /\ handle[t] # "open"
  /\ handle' = [handle EXCEPT ![t] = "open"]
  /\ IF Backend = "poll"
     THEN event_sources' = event_sources \cup {t} /\ Raise("SOURCES_MODIFIED")
     ELSE UNCHANGED <<event_sources, event_flags, pipe>>
  /\ UNCHANGED <<pc, closing, locks, device_close, event_data, lists,
                 flying, urb, timer, completed, until>>

\* do_sync_bulk_transfer: submit, with a timeout or without
Submit(t) ==
  /\ handle[t] = "open" /\ closing[t] = "none"
  /\ Goto(t, "idle", "loop")
  /\ flying' = flying \cup {t}
  /\ urb' = [urb EXCEPT ![t] = "pending"]
  /\ \E time \in {"infinite"} \cup {"running" : u \in {t} \cap TimedThreads} :
       timer' = [timer EXCEPT ![t] = time]
  /\ completed' = [completed EXCEPT ![t] = FALSE]
  /\ UNCHANGED <<closing, locks, events, lists, handle, until>>

\* the kernel is done with the transfer, by the device or by a cancellation
Answer(t) ==
  /\ urb[t] = "pending"
  /\ urb' = [urb EXCEPT ![t] = "done"]
  /\ UNCHANGED <<pc, closing, locks, events, lists, flying, timer, completed,
                 handle, until>>

Discarded(t) ==
  /\ urb[t] = "cancelling"
  /\ urb' = [urb EXCEPT ![t] = "done"]
  /\ UNCHANGED <<pc, closing, locks, events, lists, flying, timer, completed,
                 handle, until>>

Expire(t) ==
  /\ t \in flying /\ timer[t] = "running"
  /\ timer' = [timer EXCEPT ![t] = "expired"]
  /\ UNCHANGED <<pc, closing, locks, events, lists, flying, urb, completed,
                 handle, until>>

\* usbi_signal_transfer_completion, in the thread of the operating system
SignalCompletion(t) ==
  /\ Backend = "signal" /\ urb[t] = "done"
  /\ urb' = [urb EXCEPT ![t] = "signalled"]
  /\ completed_transfers' = Append(completed_transfers, t)
  /\ Raise("TRANSFER_COMPLETED")
  /\ UNCHANGED <<pc, closing, locks, device_close, event_sources, event_data,
                 batch, cut, flying, timer, completed, handle, until>>

\* libusb_interrupt_event_handler, or a message of the hotplug thread
Interrupt ==
  /\ Raise("USER_INTERRUPT")
  /\ UNCHANGED <<pc, closing, locks, device_close, event_sources, event_data,
                 lists, transfers, until>>
-----------------------------------------------------------------------------
(***************************************************************************)
(* sync_transfer_wait_for_completion and the function it calls again and   *)
(* again, libusb_handle_events_timeout_completed.                          *)
(***************************************************************************)
Timed == {t \in flying : timer[t] \in {"running", "expired"}}

\* the loop is left and the transfer freed
Done(t) ==
  /\ completed[t]
  /\ Goto(t, "loop", "idle")
  /\ completed' = [completed EXCEPT ![t] = FALSE]
  /\ timer' = [timer EXCEPT ![t] = "infinite"]
  /\ handle' = [handle EXCEPT ![t] = IF @ = "null" THEN "closed" ELSE @]
  /\ until' = [until EXCEPT ![t] = {}]
  /\ UNCHANGED <<closing, locks, events, lists, flying, urb>>

\* get_next_timeout: a timeout is over already ...
AlreadyExpired(t) ==
  /\ ~completed[t]
  /\ \E u \in flying : timer[u] = "expired"
  /\ Goto(t, "loop", "timeouts")
  /\ UNCHANGED <<closing, locks, events, lists, transfers, until>>

\* ... or the wait that follows is bounded by the next one
NextTimeout(t) ==
  /\ ~completed[t]
  /\ ~ \E u \in flying : timer[u] = "expired"
  /\ Goto(t, "loop", "try")
  /\ until' = [until EXCEPT ![t] = Timed]
  /\ UNCHANGED <<closing, locks, events, lists, transfers>>

\* libusb_try_lock_events: nobody starts to handle events while a device is
\* being closed
TryClosing(t) ==
  /\ Goto(t, "try", IF device_close > 0 THEN "waiters" ELSE "trylock")
  /\ UNCHANGED <<closing, locks, events, lists, transfers, until>>

\* a thread that sees event_handler_active cleared between the lock and the
\* assignment tries again, so the two are one step here and in Unlock;
\* completed is looked at again under the lock
TryLock(t) ==
  /\ events_lock = None
  /\ Goto(t, "trylock", IF completed[t] THEN "unlock" ELSE "alloc")
  /\ events_lock' = Waiter(t)
  /\ event_handler_active' = TRUE
  /\ UNCHANGED <<closing, event_waiters_lock, events, lists, transfers, until>>

TryLockFailed(t) ==
  /\ events_lock # None
  /\ Goto(t, "trylock", "waiters")
  /\ UNCHANGED <<closing, locks, events, lists, transfers, until>>

\* handle_events: the descriptors to poll, if they changed
AllocEventData(t) ==
  /\ Goto(t, "alloc", "poll")
  /\ IF "SOURCES_MODIFIED" \in event_flags
     THEN event_data' = event_sources /\ Lower({"SOURCES_MODIFIED"})
     ELSE UNCHANGED <<event_data, event_flags, pipe>>
  /\ UNCHANGED <<closing, locks, device_close, event_sources, lists, transfers, until>>

Ready == {t \in event_data : Backend = "poll" /\ urb[t] = "done"}

\* poll() returns: the pipe, descriptors, or both
Poll(t) ==
  /\ pipe > 0 \/ Ready # {}
  /\ Goto(t, "poll", IF Ready # {} THEN "filter" ELSE "trigger")
  /\ batch' = Ready
  /\ UNCHANGED <<closing, locks, events, completed_transfers, cut, transfers, until>>

\* descriptors removed in the meantime are left out
FilterRemoved(t) ==
  /\ Goto(t, "filter", IF pipe > 0 THEN "trigger" ELSE "backend")
  /\ batch' = IF "SOURCES_MODIFIED" \in event_flags THEN batch \cap event_sources
              ELSE batch
  /\ UNCHANGED <<closing, locks, events, completed_transfers, cut, transfers, until>>

\* the bound of a wait is over: the next timeout, or 60 seconds
WaitOver(t) == LongWait \/ \E u \in until[t] : timer[u] # "running"

PollTimeout(t) ==
  /\ pc[t] = "poll" /\ pipe = 0 /\ Ready = {} /\ WaitOver(t)
  /\ pc' = [pc EXCEPT ![t] = "unlock"]
  /\ HandleTimeouts
  /\ UNCHANGED <<closing, locks, events, lists, until>>

\* handle_event_trigger: flags are taken back, the finished transfers taken
EventTrigger(t) ==
  /\ pc[t] = "trigger"
  /\ IF "TRANSFER_COMPLETED" \in event_flags
     THEN /\ pc' = [pc EXCEPT ![t] = "complete"]
          /\ cut' = completed_transfers
          /\ completed_transfers' = <<>>
          /\ event_flags' = event_flags \ {"USER_INTERRUPT"}
          /\ UNCHANGED <<batch, pipe>>
     ELSE /\ pc' = [pc EXCEPT ![t] = "backend"]
          /\ Lower({"USER_INTERRUPT"})
          /\ UNCHANGED lists
  /\ UNCHANGED <<closing, locks, device_close, event_sources, event_data,
                 transfers, until>>

\* the backend completes one of them; an error ends the loop
CompleteOne(t) ==
  /\ cut # <<>>
  /\ \E next \in {"complete", "triggerEnd"} : Goto(t, "complete", next)
  /\ Completion(Head(cut))
  /\ cut' = Tail(cut)
  /\ UNCHANGED <<closing, locks, events, batch, completed_transfers, until>>

CompletedAll(t) ==
  /\ cut = <<>>
  /\ Goto(t, "complete", "triggerEnd")
  /\ UNCHANGED <<closing, locks, events, lists, transfers, until>>

\* the rest goes back to the front of the list; the flag stays while the
\* list has any
TriggerEnd(t) ==
  /\ Goto(t, "triggerEnd", "unlock")
  /\ cut' = <<>>
  /\ completed_transfers' = cut \o completed_transfers
  /\ Lower(IF completed_transfers' = <<>> THEN {"TRANSFER_COMPLETED"} ELSE {})
  /\ UNCHANGED <<closing, locks, device_close, event_sources, event_data, batch,
                 transfers, until>>

\* usbi_backend.handle_events: a ready descriptor is reaped
Reap(t) ==
  /\ pc[t] = "backend"
  /\ \E u \in batch : Completion(u) /\ batch' = batch \ {u}
  /\ UNCHANGED <<pc, closing, locks, events, completed_transfers, cut, until>>

Reaped(t) ==
  /\ batch = {}
  /\ Goto(t, "backend", "unlock")
  /\ UNCHANGED <<closing, locks, events, lists, transfers, until>>

\* libusb_unlock_events: unlock, then wake those who wait
Unlock(t) ==
  /\ Goto(t, "unlock", "broadcast")
  /\ event_handler_active' = FALSE
  /\ events_lock' = None
  /\ UNCHANGED <<closing, event_waiters_lock, events, lists, transfers, until>>

WakeAll(u) == [t \in Threads |-> IF u[t] = "sleep" THEN "woken" ELSE u[t]]

Broadcast(t) ==
  /\ pc[t] = "broadcast" /\ event_waiters_lock = None
  /\ pc' = [WakeAll(pc) EXCEPT ![t] = "back"]
  /\ UNCHANGED <<closing, locks, events, lists, transfers, until>>

\* another thread handles events: libusb_lock_event_waiters ...
LockWaiters(t) ==
  /\ event_waiters_lock = None
  /\ Goto(t, "waiters", "check")
  /\ event_waiters_lock' = t
  /\ UNCHANGED <<closing, events_lock, event_handler_active, events, lists,
                 transfers, until>>

\* ... and under that lock completed, device_close and the handler
CheckCompleted(t) ==
  /\ Goto(t, "check", IF completed[t] THEN "back" ELSE "isActive")
  /\ event_waiters_lock' = IF completed[t] THEN None ELSE t
  /\ UNCHANGED <<closing, events_lock, event_handler_active, events, lists,
                 transfers, until>>

\* libusb_event_handler_active, and libusb_wait_for_event, which releases the
\* lock as it goes to sleep
CheckActive(t) ==
  /\ Goto(t, "isActive", IF device_close > 0 \/ event_handler_active
                          THEN "sleep" ELSE "try")
  /\ event_waiters_lock' = None
  /\ UNCHANGED <<closing, events_lock, event_handler_active, events, lists,
                 transfers, until>>

\* it takes the lock again as it wakes up, to release it at once
Woken(t) ==
  /\ event_waiters_lock = None
  /\ Goto(t, "woken", "back")
  /\ UNCHANGED <<closing, locks, events, lists, transfers, until>>

WaitTimeout(t) ==
  /\ WaitOver(t) /\ event_waiters_lock = None
  /\ Goto(t, "sleep", "timeouts")
  /\ UNCHANGED <<closing, locks, events, lists, transfers, until>>

AfterWait(t) ==
  /\ Goto(t, "timeouts", "back")
  /\ HandleTimeouts
  /\ UNCHANGED <<closing, locks, events, lists, until>>

\* back in sync.c: a transfer whose handle was closed is over
Back(t) ==
  /\ Goto(t, "back", "loop")
  /\ completed' = [completed EXCEPT ![t] = @ \/ handle[t] = "null"]
  /\ UNCHANGED <<closing, locks, events, lists, flying, urb, timer, handle, until>>

Step(t) ==
  \/ Done(t) \/ AlreadyExpired(t) \/ NextTimeout(t) \/ TryClosing(t) \/ TryLock(t)
  \/ TryLockFailed(t) \/ AllocEventData(t) \/ Poll(t) \/ FilterRemoved(t)
  \/ PollTimeout(t) \/ EventTrigger(t) \/ CompleteOne(t) \/ CompletedAll(t)
  \/ TriggerEnd(t) \/ Reap(t) \/ Reaped(t) \/ Unlock(t) \/ Broadcast(t)
  \/ LockWaiters(t) \/ CheckCompleted(t) \/ CheckActive(t) \/ Woken(t)
  \/ WaitTimeout(t) \/ AfterWait(t) \/ Back(t)
-----------------------------------------------------------------------------
(***************************************************************************)
(* libusb_close.                                                           *)
(***************************************************************************)
CloseBegin(t) ==
  /\ t \in Closable /\ handle[t] = "open"
  /\ CloseBusy \/ pc[t] = "idle"
  /\ CloserGoto(t, "none", "lock")
  /\ device_close' = device_close + 1
  /\ IF device_close = 0 THEN Raise("DEVICE_CLOSE") ELSE UNCHANGED <<event_flags, pipe>>
  /\ UNCHANGED <<pc, locks, event_sources, event_data, lists, transfers, until>>

\* the slip of closing without the events lock
CloseNoLock(t) ==
  /\ CloserGoto(t, "lock", "close")
  /\ UNCHANGED <<pc, locks, events, lists, transfers, until>>

\* libusb_lock_events
CloseLock(t) ==
  /\ events_lock = None
  /\ CloserGoto(t, "lock", "close")
  /\ events_lock' = Closer(t)
  /\ event_handler_active' = TRUE
  /\ UNCHANGED <<pc, event_waiters_lock, events, lists, transfers, until>>

\* do_close: transfers leave the list, the descriptor is no source any more
DoClose(t) ==
  /\ CloserGoto(t, "close", "end")
  /\ flying' = flying \ {t}
  /\ handle' = [handle EXCEPT ![t] = IF t \in flying THEN "null" ELSE "closed"]
  /\ urb' = [urb EXCEPT ![t] = "none"]
  /\ IF Backend = "poll"
     THEN event_sources' = event_sources \ {t} /\ Raise("SOURCES_MODIFIED")
     ELSE UNCHANGED <<event_sources, event_flags, pipe>>
  /\ UNCHANGED <<pc, locks, device_close, event_data, lists, timer, completed, until>>

CloseEnd(t) ==
  /\ CloserGoto(t, "end", "unlock")
  /\ device_close' = device_close - 1
  /\ Lower(IF device_close = 1 THEN {"DEVICE_CLOSE"} ELSE {})
  /\ UNCHANGED <<pc, locks, event_sources, event_data, lists, transfers, until>>

CloseUnlock(t) ==
  /\ CloserGoto(t, "unlock", "broadcast")
  /\ event_handler_active' = FALSE
  /\ events_lock' = None
  /\ UNCHANGED <<pc, event_waiters_lock, events, lists, transfers, until>>

CloseBroadcast(t) ==
  /\ event_waiters_lock = None
  /\ CloserGoto(t, "broadcast", "none")
  /\ pc' = WakeAll(pc)
  /\ UNCHANGED <<locks, events, lists, transfers, until>>

CloseStep(t) ==
  \/ CloseLock(t) \/ DoClose(t) \/ CloseEnd(t) \/ CloseUnlock(t)
  \/ CloseBroadcast(t)

Next ==
  \/ \E t \in Threads :
       \/ Open(t) \/ Submit(t) \/ Answer(t) \/ Discarded(t) \/ Expire(t)
       \/ SignalCompletion(t) \/ Step(t) \/ CloseBegin(t) \/ CloseStep(t)
  \/ Interrupt

Spec == Init /\ [][Next]_vars

-----------------------------------------------------------------------------
(***************************************************************************)
(* The pipe holds one message exactly while an event is pending.  None     *)
(* would leave the event unseen; a second would make poll() return for     *)
(* ever; and usbi_clear_event, whose read blocks, would stop the thread    *)
(* with event_data_lock held if there were none to read.                   *)
(***************************************************************************)
PipeMatchesFlags == pipe = IF event_flags = {} THEN 0 ELSE 1

(***************************************************************************)
(* What poll() reported is handled while it is still there: no handle is   *)
(* closed, and no transfer of a closed handle is completed, between the    *)
(* poll and the callback (libusb_close: "we want to perform the actual     *)
(* close of the device while holding the event handling lock").            *)
(***************************************************************************)
ReportedIsOpen ==
  \A t \in batch \cup {cut[i] : i \in 1 .. Len(cut)} :
    handle[t] = "open" /\ t \in flying

(***************************************************************************)
(* A transfer that has left the list of its context is noticed by its      *)
(* thread, and one that has a timeout ends: nobody sleeps while the event  *)
(* he waits for goes by (io.c, "race free waiting for the completion of a  *)
(* specific transfer").  Handles that are opened and closed for ever can   *)
(* keep everybody from handling events, so at some time that must stop.    *)
(***************************************************************************)
Noticeable(t) ==
  pc[t] # "idle" /\ (urb[t] = "done" \/ timer[t] = "running" \/ completed[t])

Overslept(t) == Noticeable(t) /\ \A u \in Threads : closing[u] = "none"

(***************************************************************************)
(* libusb_close gets the events lock although the threads that wait take   *)
(* it again and again: device_close keeps them off.  (Unless other handles   *)
(* are closed for ever; the mutex of the events lock is not fair.)         *)
(***************************************************************************)
CloseStarves(t) ==
  closing[t] # "none" /\ \A u \in Threads \ {t} : closing[u] # "unlock"

(***************************************************************************)
(* A transfer that waits on a handle that is closed ends (sync.c:           *)
(* "transfer completion after libusb_close()").  A thread that goes to     *)
(* sleep after the close has woken everybody finds out when its 60 seconds *)
(* are over, or when another thread stops handling events.                 *)
(***************************************************************************)
LeftWaiting(t) ==
  /\ handle[t] = "null" /\ pc[t] # "idle"
  /\ \A u \in Threads \ {t} : pc[u] = "idle" /\ closing[u] = "none"
=============================================================================
