-------------------------- MODULE LibusbTransfers ---------------------------
(***************************************************************************)
(* libusb/c/io.c: the life of a transfer.  It is submitted, put on the     *)
(* list of flying transfers that is sorted by timeout, cancelled by its    *)
(* user or by its timeout, completed by whoever handles events, or ended   *)
(* because its device is gone; its callback may submit it again or free    *)
(* it.  sync.c is one kind of user.  Two kinds of lock are held together:  *)
(* flying_transfers_lock and the lock of a transfer.                       *)
(*                                                                         *)
(* All transfers are on one device handle, of usbfs.  A section of code    *)
(* under locks that reads and writes only what these locks protect is one  *)
(* step.  A user cancels a transfer only while it is allocated, as         *)
(* libusb_cancel_transfer demands.                                         *)
(***************************************************************************)
EXTENDS Naturals, Sequences, SequencesExt

CONSTANTS SyncTransfers,          \* each of a thread in do_sync_bulk_transfer
          AsyncTransfers,         \* their callbacks submit or free them
          Timeouts,               \* the finite timeouts
          Infinite,               \* timeout 0: a number above the others
          None

Transfers == SyncTransfers \cup AsyncTransfers

\* a thread per transfer that submits it, the thread that handles events,
\* and one that handles timeouts after a wait (or the same, between events)
Procs == Transfers \cup {"events", "timer"}

TransfersAssumption ==
  /\ SyncTransfers \cap AsyncTransfers = {}
  /\ Transfers \cap {"events", "timer"} = {}
  /\ None \notin Procs
  /\ Timeouts \subseteq Nat /\ Infinite \in Nat
  /\ \A d \in Timeouts : 0 < d /\ d < Infinite

VARIABLES
  pc, cur,                        \* where a thread is, and on which transfer
  flying_transfers_lock, lock,
  flying,                         \* ctx->flying_transfers
  left,                           \* the time to each transfer's timeout
  state_flags, timeout_flags,
  alloc,                          \* is the transfer allocated?
  urb,                            \* in the kernel, or back from it
  gone,                           \* the device was disconnected ...
  removed,                        \* ... and its descriptor is polled no more
  scan,                           \* usbi_handle_disconnect: left to look at
  verdict,                        \* how the transfer being completed ended
  status,                         \* of the last callback
  owed,                           \* submitted, and no callback since
  cause                           \* whose cancellation succeeded

vars == <<pc, cur, flying_transfers_lock, lock, flying, left, state_flags,
          timeout_flags, alloc, urb, gone, removed, scan, verdict, status, owed, cause>>

locks == <<flying_transfers_lock, lock>>
list == <<flying, left>>
flags == <<state_flags, timeout_flags>>
device == <<gone, removed, scan>>
ghosts == <<owed, cause>>

States == {"idle", "submit", "fill", "backend", "inFlight", "remove", "wait",
           "timeouts", "timedOut", "cancellation", "completion", "landed",
           "callback", "scan", "clear"}

Statuses == {"COMPLETED", "CANCELLED", "TIMED_OUT", "NO_DEVICE"}

TypeOK ==
  /\ pc \in [Procs -> States]
  /\ cur \in [Procs -> Transfers \cup {None}]
  /\ flying_transfers_lock \in Procs \cup {None}
  /\ lock \in [Transfers -> Procs \cup {None}]
  /\ flying \in Seq(Transfers)
  /\ left \in [Transfers -> 0 .. Infinite]
  /\ state_flags \in [Transfers -> SUBSET {"IN_FLIGHT", "CANCELLING"}]
  /\ timeout_flags \in [Transfers -> {{}, {"HANDLED"}, {"HANDLED", "TIMED_OUT"}}]
  /\ alloc \in [Transfers -> BOOLEAN]
  /\ urb \in [Transfers -> {"none", "pending", "done", "discarded", "lost"}]
  /\ gone \in BOOLEAN /\ removed \in BOOLEAN
  /\ scan \in Seq(Transfers)
  /\ verdict \in Statuses
  /\ status \in [Transfers -> Statuses \cup {None}]
  /\ owed \in [Transfers -> BOOLEAN]
  /\ cause \in [Transfers -> {"none", "user", "timeout"}]

Init ==
  /\ pc = [p \in Procs |-> "idle"] /\ cur = [p \in Procs |-> None]
  /\ flying_transfers_lock = None /\ lock = [x \in Transfers |-> None]
  /\ flying = <<>> /\ left = [x \in Transfers |-> Infinite]
  /\ state_flags = [x \in Transfers |-> {}]
  /\ timeout_flags = [x \in Transfers |-> {}]
  /\ alloc = [x \in Transfers |-> FALSE]
  /\ urb = [x \in Transfers |-> "none"]
  /\ gone = FALSE /\ removed = FALSE /\ scan = <<>>
  /\ verdict = "COMPLETED" /\ status = [x \in Transfers |-> None]
  /\ owed = [x \in Transfers |-> FALSE] /\ cause = [x \in Transfers |-> "none"]
-----------------------------------------------------------------------------
Goto(p, from, to) == pc[p] = from /\ pc' = [pc EXCEPT ![p] = to]

Flying == {flying[i] : i \in 1 .. Len(flying)}

\* off the list its timeout means nothing
RemoveFromFlyingList(x) ==
  /\ flying' = RemoveFirst(flying, x)
  /\ left' = [left EXCEPT ![x] = Infinite]

\* list_add_tail before the first later timeout; an infinite one goes last
Later(d) == {i \in 1 .. Len(flying) : left[flying[i]] > d}
Position(d) == IF Later(d) = {} THEN Len(flying) + 1
               ELSE CHOOSE i \in Later(d) : \A j \in Later(d) : i <= j

AddToFlyingList(x, d) ==
  /\ left' = [left EXCEPT ![x] = d]
  /\ flying' = InsertAt(flying, Position(d), x)

\* libusb_cancel_transfer succeeds if the kernel still has the URB
Cancellable(x) ==
  "IN_FLIGHT" \in state_flags[x] /\ "CANCELLING" \notin state_flags[x]
CancelSucceeds(x) == Cancellable(x) /\ urb[x] = "pending"

CancelTransfer(x) ==
  /\ lock[x] = None
  /\ state_flags' = [state_flags EXCEPT ![x] =
                       @ \cup {f \in {"CANCELLING"} : Cancellable(x)}]
  /\ urb' = [urb EXCEPT ![x] = IF CancelSucceeds(x) THEN "discarded" ELSE @]
-----------------------------------------------------------------------------
(***************************************************************************)
(* Users.                                                                  *)
(***************************************************************************)
\* libusb_alloc_transfer: by do_sync_bulk_transfer, libusb_control_transfer
\* or a user of the asynchronous functions
Alloc(x) ==
  /\ ~alloc[x]
  /\ Goto(x, "idle", "submit")
  /\ cur' = [cur EXCEPT ![x] = x]
  /\ alloc' = [alloc EXCEPT ![x] = TRUE]
  /\ state_flags' = [state_flags EXCEPT ![x] = {}]
  /\ timeout_flags' = [timeout_flags EXCEPT ![x] = {}]
  /\ status' = [status EXCEPT ![x] = None]
  /\ UNCHANGED <<locks, list, urb, device, verdict, ghosts>>

\* a transfer whose callback is over is submitted again
Again(x) ==
  /\ x \in AsyncTransfers /\ alloc[x] /\ ~owed[x]
  /\ ~ (pc["events"] # "idle" /\ cur["events"] = x)
  /\ Goto(x, "idle", "submit")
  /\ UNCHANGED <<cur, locks, list, flags, alloc, urb, device, verdict, status, ghosts>>

\* libusb_submit_transfer: first the lock of the list ...
SubmitLock(p) ==
  /\ flying_transfers_lock = None
  /\ Goto(p, "submit", "fill")
  /\ flying_transfers_lock' = p
  /\ UNCHANGED <<cur, lock, list, flags, alloc, urb, device, verdict, status, ghosts>>

\* ... then the one of the transfer (that is not in flight: its users wait
\* for the callback)
SubmitFill(p) ==
  LET x == cur[p] IN
  /\ Goto(p, "fill", "backend")
  /\ lock[x] = None /\ "IN_FLIGHT" \notin state_flags[x]
  /\ lock' = [lock EXCEPT ![x] = p]
  /\ state_flags' = [state_flags EXCEPT ![x] = {}]
  /\ timeout_flags' = [timeout_flags EXCEPT ![x] = {}]
  /\ \E d \in Timeouts \cup {Infinite} : AddToFlyingList(x, d)
  /\ flying_transfers_lock' = None
  /\ UNCHANGED <<cur, alloc, urb, device, verdict, status, ghosts>>

\* usbi_backend.submit_transfer: the device may answer at once
SubmitBackend(p) ==
  LET x == cur[p] IN
  /\ ~gone
  /\ Goto(p, "backend", "inFlight")
  /\ urb' = [urb EXCEPT ![x] = "pending"]
  /\ owed' = [owed EXCEPT ![x] = TRUE]
  /\ UNCHANGED <<cur, locks, list, flags, alloc, device, verdict, status, cause>>

SubmitInFlight(p) ==
  LET x == cur[p] IN
  /\ Goto(p, "inFlight", IF p \in SyncTransfers THEN "wait" ELSE "idle")
  /\ state_flags' = [state_flags EXCEPT ![x] = @ \cup {"IN_FLIGHT"}]
  /\ lock' = [lock EXCEPT ![x] = None]
  /\ UNCHANGED <<cur, flying_transfers_lock, list, timeout_flags, alloc, urb, device,
                 verdict, status, ghosts>>

\* the backend refuses: unlock first, then take the transfer off the list
SubmitFailed(p) ==
  /\ Goto(p, "backend", "remove")
  /\ lock' = [lock EXCEPT ![cur[p]] = None]
  /\ UNCHANGED <<cur, flying_transfers_lock, list, flags, alloc, urb, device, verdict,
                 status, ghosts>>

\* remove_from_flying_list; do_sync_bulk_transfer frees what was not submitted
SubmitRemove(p) ==
  LET x == cur[p] IN
  /\ flying_transfers_lock = None
  /\ Goto(p, "remove", "idle")
  /\ RemoveFromFlyingList(x)
  /\ alloc' = [alloc EXCEPT ![x] = p \notin SyncTransfers]
  /\ UNCHANGED <<cur, locks, flags, urb, device, verdict, status, ghosts>>

\* the wait is over: the status is the result of the call, the transfer freed
SyncReturn(x) ==
  /\ x \in SyncTransfers /\ status[x] # None
  /\ Goto(x, "wait", "idle")
  /\ alloc' = [alloc EXCEPT ![x] = FALSE]
  /\ UNCHANGED <<cur, locks, list, flags, urb, device, verdict, status, ghosts>>

\* libusb_cancel_transfer by a user
Cancel(x) ==
  /\ alloc[x] /\ Cancellable(x)
  /\ CancelTransfer(x)
  /\ cause' = [cause EXCEPT ![x] = IF CancelSucceeds(x) THEN "user" ELSE @]
  /\ UNCHANGED <<pc, cur, locks, list, timeout_flags, alloc, device, verdict, status, owed>>
-----------------------------------------------------------------------------
(***************************************************************************)
(* handle_timeouts, with the lock of the list held over all of it.         *)
(***************************************************************************)
\* the list is sorted: the walk ends at the first timeout to come
ExpiredPrefix == {i \in 1 .. Len(flying) : \A j \in 1 .. i : left[flying[j]] = 0}
Unhandled == {i \in ExpiredPrefix : "HANDLED" \notin timeout_flags[flying[i]]}
FirstUnhandled == flying[CHOOSE i \in Unhandled : \A j \in Unhandled : i <= j]

TimeoutsBegin ==
  /\ flying_transfers_lock = None /\ Unhandled # {}
  /\ Goto("timer", "idle", "timeouts")
  /\ flying_transfers_lock' = "timer"
  /\ UNCHANGED <<cur, lock, list, flags, alloc, urb, device, verdict, status, ghosts>>

\* handle_timeout: cancel ...
HandleTimeout ==
  LET x == FirstUnhandled IN
  /\ pc["timer"] = "timeouts" /\ Unhandled # {}
  /\ Goto("timer", "timeouts", IF CancelSucceeds(x) THEN "timedOut" ELSE "timeouts")
  /\ cur' = [cur EXCEPT !["timer"] = x]
  /\ timeout_flags' = [timeout_flags EXCEPT ![x] = @ \cup {"HANDLED"}]
  /\ CancelTransfer(x)
  /\ cause' = [cause EXCEPT ![x] = IF CancelSucceeds(x) THEN "timeout" ELSE @]
  /\ UNCHANGED <<locks, list, alloc, device, verdict, status, owed>>

\* ... and if that succeeded say why
SetTimedOut ==
  /\ Goto("timer", "timedOut", "timeouts")
  /\ timeout_flags' = [timeout_flags EXCEPT ![cur["timer"]] = @ \cup {"TIMED_OUT"}]
  /\ UNCHANGED <<cur, locks, list, state_flags, alloc, urb, device, verdict, status, ghosts>>

TimeoutsEnd ==
  /\ Unhandled = {}
  /\ Goto("timer", "timeouts", "idle")
  /\ flying_transfers_lock' = None
  /\ UNCHANGED <<cur, lock, list, flags, alloc, urb, device, verdict, status, ghosts>>
-----------------------------------------------------------------------------
(***************************************************************************)
(* The thread that handles events.                                         *)
(***************************************************************************)
\* op_handle_events: the backend forgets the URB, under the transfer's lock
Reap(x) ==
  /\ urb[x] \in {"done", "discarded", "lost"} /\ lock[x] = None /\ ~removed
  /\ Goto("events", "idle", IF urb[x] = "discarded" THEN "cancellation" ELSE "completion")
  /\ cur' = [cur EXCEPT !["events"] = x]
  /\ verdict' = IF urb[x] = "lost" THEN "NO_DEVICE" ELSE "COMPLETED"
  /\ urb' = [urb EXCEPT ![x] = "none"]
  /\ UNCHANGED <<locks, list, flags, alloc, device, status, ghosts>>

\* the slip of looking at timeout_flags without the lock of the list
CancellationUnlocked ==
  /\ Goto("events", "cancellation", "completion")
  /\ verdict' = IF "TIMED_OUT" \in timeout_flags[cur["events"]] THEN "TIMED_OUT"
                ELSE "CANCELLED"
  /\ UNCHANGED <<cur, locks, list, flags, alloc, urb, device, status, ghosts>>

\* usbi_handle_transfer_cancellation: by the user or by the timeout?
Cancellation ==
  /\ flying_transfers_lock = None
  /\ Goto("events", "cancellation", "completion")
  /\ verdict' = IF "TIMED_OUT" \in timeout_flags[cur["events"]] THEN "TIMED_OUT"
                ELSE "CANCELLED"
  /\ UNCHANGED <<cur, locks, list, flags, alloc, urb, device, status, ghosts>>

\* usbi_handle_transfer_completion: off the list ...
Completion ==
  /\ flying_transfers_lock = None
  /\ Goto("events", "completion", "landed")
  /\ RemoveFromFlyingList(cur["events"])
  /\ UNCHANGED <<cur, locks, flags, alloc, urb, device, verdict, status, ghosts>>

\* ... in flight no more ...
Landed ==
  LET x == cur["events"] IN
  /\ Goto("events", "landed", "callback")
  /\ lock[x] = None
  /\ state_flags' = [state_flags EXCEPT ![x] = @ \ {"IN_FLIGHT"}]
  /\ UNCHANGED <<cur, locks, list, timeout_flags, alloc, urb, device, verdict, status, ghosts>>

\* ... and the callback.  It may submit the transfer again, still in this
\* thread; LIBUSB_TRANSFER_FREE_TRANSFER frees it after the callback
Callback ==
  LET x == cur["events"] IN
  /\ pc["events"] = "callback"
  /\ status' = [status EXCEPT ![x] = verdict]
  /\ owed' = [owed EXCEPT ![x] = FALSE]
  /\ cause' = [cause EXCEPT ![x] = "none"]
  /\ verdict' = "COMPLETED"
  /\ \/ Goto("events", "callback", "idle") /\ UNCHANGED alloc
     \/ /\ x \in AsyncTransfers
        /\ Goto("events", "callback", "idle")
        /\ alloc' = [alloc EXCEPT ![x] = FALSE]
     \/ /\ x \in AsyncTransfers
        /\ Goto("events", "callback", "submit") /\ UNCHANGED alloc
  /\ UNCHANGED <<cur, locks, list, flags, urb, device>>

\* usbi_handle_disconnect: with the lock of the list, walk it ...
DisconnectBegin ==
  /\ gone /\ flying_transfers_lock = None
  /\ ~removed \/ scan # <<>>
  /\ Goto("events", "idle", "scan")
  /\ removed' = TRUE
  /\ scan' = flying
  /\ flying_transfers_lock' = "events"
  /\ UNCHANGED <<cur, lock, list, flags, alloc, urb, gone, verdict, status, ghosts>>

\* ... to the first transfer in flight; one being submitted is waited for
DisconnectLook ==
  LET x == Head(scan) IN
  /\ scan # <<>> /\ lock[x] = None
  /\ IF "IN_FLIGHT" \in state_flags[x]
     THEN /\ Goto("events", "scan", "clear")
          /\ cur' = [cur EXCEPT !["events"] = x]
          /\ flying_transfers_lock' = None
          /\ UNCHANGED scan
     ELSE /\ pc["events"] = "scan"
          /\ scan' = Tail(scan)
          /\ UNCHANGED <<pc, cur, flying_transfers_lock>>
  /\ UNCHANGED <<lock, list, flags, alloc, urb, gone, removed, verdict, status, ghosts>>

\* clear_transfer_priv, then its completion; the walk starts again
DisconnectClear ==
  LET x == cur["events"] IN
  /\ Goto("events", "clear", "completion")
  /\ lock[x] = None
  /\ urb' = [urb EXCEPT ![x] = "none"]
  /\ verdict' = "NO_DEVICE"
  /\ UNCHANGED <<cur, locks, list, flags, alloc, device, status, ghosts>>

DisconnectEnd ==
  /\ scan = <<>>
  /\ Goto("events", "scan", "idle")
  /\ flying_transfers_lock' = None
  /\ UNCHANGED <<cur, lock, list, flags, alloc, urb, device, verdict, status, ghosts>>
-----------------------------------------------------------------------------
(***************************************************************************)
(* The device and the clock.                                               *)
(***************************************************************************)
Answer(x) ==
  /\ urb[x] = "pending"
  /\ urb' = [urb EXCEPT ![x] = "done"]
  /\ UNCHANGED <<pc, cur, locks, list, flags, alloc, device, verdict, status, ghosts>>

Unplug ==
  /\ ~gone
  /\ gone' = TRUE
  /\ urb' = [x \in Transfers |-> IF urb[x] = "pending" THEN "lost" ELSE urb[x]]
  /\ UNCHANGED <<pc, cur, locks, list, flags, alloc, removed, scan, verdict, status, ghosts>>

Tick ==
  /\ \E x \in Flying : left[x] \in 1 .. Infinite - 1
  /\ left' = [x \in Transfers |->
                IF x \in Flying /\ left[x] \in 1 .. Infinite - 1 THEN left[x] - 1 ELSE left[x]]
  /\ UNCHANGED <<pc, cur, locks, flying, flags, alloc, urb, device, verdict, status, ghosts>>

Submitting(p) ==
  \/ SubmitLock(p) \/ SubmitFill(p) \/ SubmitBackend(p) \/ SubmitInFlight(p)
  \/ SubmitFailed(p) \/ SubmitRemove(p)

Events ==
  \/ Cancellation \/ Completion \/ Landed \/ Callback \/ DisconnectBegin
  \/ DisconnectLook \/ DisconnectClear \/ DisconnectEnd \/ \E x \in Transfers : Reap(x)

Timer == TimeoutsBegin \/ HandleTimeout \/ SetTimedOut \/ TimeoutsEnd

Next ==
  \/ \E x \in Transfers : Alloc(x) \/ Again(x) \/ SyncReturn(x) \/ Cancel(x) \/ Answer(x)
  \/ \E p \in Procs : Submitting(p)
  \/ Events \/ Timer \/ Unplug \/ Tick

Spec == Init /\ [][Next]_vars

-----------------------------------------------------------------------------
(***************************************************************************)
(* Every transfer that was submitted gets one callback, and a transfer     *)
(* that is completed is one that is owed it: never twice (by a timeout or  *)
(* the disconnect and the backend), never one whose submission failed.     *)
(***************************************************************************)
CallbackIsOwed ==
  pc["events"] \in {"clear", "cancellation", "completion", "landed", "callback"}
    => owed[cur["events"]]

(***************************************************************************)
(* The list of flying transfers holds each transfer at most once: from     *)
(* before its submission until its completion or the failure.              *)
(***************************************************************************)
BeingSubmitted(x) ==
  \E p \in Procs : cur[p] = x /\ pc[p] \in {"backend", "inFlight", "remove"}
BeingCompleted(x) == cur["events"] = x /\ pc["events"] \in {"landed", "callback"}

ListedWhileOwed ==
  /\ \A i, j \in 1 .. Len(flying) : flying[i] = flying[j] => i = j
  /\ \A x \in Transfers :
       x \in Flying <=> BeingSubmitted(x) \/ (owed[x] /\ ~BeingCompleted(x))

(***************************************************************************)
(* handle_timeouts_locked stops at the first timeout that is not over, and *)
(* libusb_get_next_timeout takes the first one: the list is sorted.        *)
(***************************************************************************)
SortedByTimeout ==
  \A i, j \in 1 .. Len(flying) : i < j => left[flying[i]] <= left[flying[j]]

(***************************************************************************)
(* A user learns why his transfer ended: CANCELLED only if he cancelled it *)
(* himself, TIMED_OUT only if its timeout did, whoever came first, and     *)
(* though the flag is set after the cancellation.                          *)
(***************************************************************************)
StatusIsTrue ==
  \A x \in Transfers :
    pc["events"] \in {"landed", "callback"} /\ cur["events"] = x =>
      /\ verdict = "CANCELLED" => cause[x] = "user"
      /\ verdict = "TIMED_OUT" => cause[x] = "timeout"
      /\ verdict = "COMPLETED" => cause[x] = "none"

(***************************************************************************)
(* A transfer that was freed is on no list, in no thread and not in the    *)
(* kernel (io.c: "It is not legal to free an active transfer").            *)
(***************************************************************************)
FreedIsUntouched ==
  \A x \in Transfers : ~alloc[x] =>
    /\ x \notin Flying /\ lock[x] = None /\ urb[x] = "none"
    /\ \A p \in Procs : pc[p] \notin {"idle", "timeouts", "scan"} => cur[p] # x

(***************************************************************************)
(* Once the disconnect was handled no transfer is in flight, whatever was  *)
(* being submitted in the meantime: there will be no more events for it.   *)
(***************************************************************************)
DisconnectedIsEmpty ==
  removed /\ scan = <<>> /\ pc["events"] = "idle" => \A x \in Transfers : ~owed[x]

(***************************************************************************)
(* A transfer ends if its timeout passes, its user cancels it or the       *)
(* device goes, once nobody submits any more: the mutex of the list is not *)
(* fair, and submissions that go on for ever could keep the others off it. *)
(***************************************************************************)
Ending(x) == owed[x] /\ (left[x] < Infinite \/ cause[x] # "none" \/ gone)

NeverEnds(x) == Ending(x) /\ \A p \in Procs : pc[p] # "fill"
=============================================================================
