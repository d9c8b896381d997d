--------------------------- MODULE UsbfsTransfers ---------------------------
(***************************************************************************)
(* libusb/c/os/linux_usbfs.c: one transfer as URBs of usbfs.  A bulk       *)
(* transfer is split into URBs that are submitted together; it may be cut  *)
(* short by the device, by an error, by a failed submission or by a        *)
(* cancellation, and is reported when all its URBs are back.  An URB that  *)
(* is in the kernel can end between any two system calls of the library,   *)
(* so submission and discarding go URB by URB, under the transfer's lock.  *)
(*                                                                         *)
(* The kernel works on the URBs of an endpoint in their order and gives    *)
(* them back in the order they ended.                                      *)
(***************************************************************************)
EXTENDS Integers, Sequences, SequencesExt

CONSTANTS MaxUrbs,                \* URBs of a transfer
          Size,                   \* data units, or packets, of an URB
          Kinds                   \* "split", "continuation", "iso", "control"

UsbfsAssumption ==
  /\ MaxUrbs \in Nat \ {0} /\ Size \in Nat \ {0}
  /\ Kinds \subseteq {"split", "continuation", "iso", "control"}

VARIABLES
  kind, num_urbs,                 \* what is submitted
  pc, at, first,                  \* the threads: where, at which URB, down to
  lock,
  urb,                            \* what the kernel did with each URB
  done,                           \* what can be reaped, in this order
  urbs,                           \* tpriv->urbs is allocated
  num_retired, reap_action, reap_status,
  transferred, buffer,            \* data units, each known by its origin
  packets,                        \* iso_packet_desc: whose result is where
  gone,                           \* the device was unplugged
  ret, cut,                       \* op_cancel_transfer: result, URBs discarded
  outcome                         \* the status of the callback

vars == <<kind, num_urbs, pc, at, first, lock, urb, done, urbs, num_retired, reap_action,
          reap_status, transferred, buffer, packets, gone, ret, cut, outcome>>

what == <<kind, num_urbs>>
threads == <<pc, at, first, lock>>
kernel == <<urb, done, gone>>
tpriv == <<urbs, num_retired, reap_action, reap_status>>
results == <<transferred, buffer, packets>>
cancel == <<ret, cut>>

Urbs == 1 .. num_urbs
Bulk == {"split", "continuation"}
Offset(i) == (i - 1) * Size

\* how an URB ended; "killed" is ENOENT
Failures == {"stall", "overflow", "error", "nodev"}
Ends == {"ok", "short", "killed"} \cup Failures

NoUrb == [state |-> "none", end |-> "ok", len |-> 0]

TypeOK ==
  /\ kind \in Kinds /\ num_urbs \in 1 .. MaxUrbs
  /\ pc \in [{"user", "events"} ->
               {"idle", "submit", "unsubmit", "flying", "cancel", "discard", "report"}]
  /\ at \in [{"user", "events"} -> 0 .. MaxUrbs]
  /\ first \in 1 .. MaxUrbs + 1
  /\ lock \in {"user", "events", "free"}
  /\ urb \in [1 .. MaxUrbs -> [state : {"none", "pending", "done", "reaped"},
                               end : Ends, len : 0 .. Size]]
  /\ done \in Seq(1 .. MaxUrbs)
  /\ urbs \in BOOLEAN
  /\ num_retired \in 0 .. num_urbs
  /\ reap_action \in {"NORMAL", "SUBMIT_FAILED", "CANCELLED", "COMPLETED_EARLY", "ERROR"}
  /\ reap_status \in {"COMPLETED", "STALL", "OVERFLOW", "ERROR", "NO_DEVICE"}
  /\ transferred \in 0 .. MaxUrbs * Size
  /\ buffer \in Seq((1 .. MaxUrbs) \X (1 .. Size) \cup {<<>>})
  /\ packets \in Seq((1 .. MaxUrbs) \X (1 .. Size))
  /\ gone \in BOOLEAN
  /\ ret \in {"none", "SUCCESS", "NOT_FOUND", "NO_DEVICE"}
  /\ cut \subseteq 1 .. MaxUrbs
  /\ outcome \in {"none", "refused", "COMPLETED", "STALL", "OVERFLOW", "ERROR",
                  "NO_DEVICE", "CANCELLED"}

Init ==
  /\ kind \in Kinds
  /\ num_urbs \in IF kind = "control" THEN {1} ELSE 1 .. MaxUrbs
  /\ pc = [user |-> "submit", events |-> "idle"]
  /\ at = [user |-> 1, events |-> 0]
  /\ first = 1 /\ lock = "user"
  /\ urb = [i \in 1 .. MaxUrbs |-> NoUrb] /\ done = <<>>
  /\ urbs = TRUE /\ num_retired = 0
  /\ reap_action = "NORMAL" /\ reap_status = "COMPLETED"
  /\ transferred = 0 /\ buffer = [j \in 1 .. MaxUrbs * Size |-> <<>>]
  /\ packets = <<>>
  /\ gone = FALSE
  /\ ret = "none" /\ cut = {}
  /\ outcome = "none"
-----------------------------------------------------------------------------
(***************************************************************************)
(* The kernel and the device.                                              *)
(***************************************************************************)
Pending == {i \in Urbs : urb[i].state = "pending"}
Halted == kind # "iso" /\ \E i \in Urbs : urb[i].state # "none" /\ urb[i].end \in Failures
Stopped == Halted \/ \E i \in Urbs : urb[i].state # "none" /\ urb[i].end = "short"

\* an overflow ends the last URB (linux_usbfs.c: "overflow can only ever
\* occur in the last urb")
LenOf(end) == IF end \in {"ok", "overflow"} THEN {Size}
              ELSE IF end = "nodev" THEN {0} ELSE 0 .. Size - 1

Ended(i, end, len) == [state |-> "done", end |-> end, len |-> len]

Filled(i, len) == [j \in 1 .. MaxUrbs * Size |->
  IF j \in Offset(i) + 1 .. Offset(i) + len THEN <<i, j - Offset(i)>> ELSE buffer[j]]

\* the first of the URBs ends.  With bulk continuation the kernel then takes
\* back the others, unless it was full
Device(i) ==
  /\ i \in Pending /\ \A j \in Pending : i <= j
  /\ ~gone /\ ~Halted
  /\ \E end \in {"ok", "short", "stall", "overflow", "error"} : \E len \in LenOf(end) :
       /\ kind = "iso" => end \in {"ok", "error"}
       /\ end = "overflow" => i = num_urbs
       /\ IF kind = "continuation" /\ end \in {"short", "stall", "error"}
          THEN /\ urb' = [j \in 1 .. MaxUrbs |->
                            IF j = i THEN Ended(j, end, len)
                            ELSE IF j \in Pending THEN Ended(j, "killed", 0) ELSE urb[j]]
               /\ done' = done \o SetToSortSeq(Pending, <)
          ELSE /\ urb' = [urb EXCEPT ![i] = Ended(i, end, len)]
               /\ done' = Append(done, i)
       /\ buffer' = Filled(i, len)
  /\ UNCHANGED <<what, threads, gone, tpriv, transferred, packets, cancel, outcome>>

Unplug ==
  /\ ~gone
  /\ gone' = TRUE
  /\ urb' = [i \in 1 .. MaxUrbs |-> IF i \in Pending THEN Ended(i, "nodev", 0) ELSE urb[i]]
  /\ done' = done \o SetToSortSeq(Pending, <)
  /\ UNCHANGED <<what, threads, tpriv, results, cancel, outcome>>

-----------------------------------------------------------------------------
(***************************************************************************)
(* Submission, under the lock that libusb_submit_transfer holds.           *)
(***************************************************************************)
UrbSubmitted ==
  LET i == at["user"] IN
  /\ pc["user"] = "submit" /\ ~gone
  /\ urb' = [urb EXCEPT ![i].state = "pending"]
  /\ IF i < num_urbs
     THEN at' = [at EXCEPT !["user"] = i + 1] /\ UNCHANGED <<pc, lock>>
     ELSE pc' = [pc EXCEPT !["user"] = "flying"] /\ lock' = "free" /\ UNCHANGED at
  /\ UNCHANGED <<what, first, done, gone, tpriv, results, cancel, outcome>>

SubmitBulkUrb ==
  kind \in Bulk /\ ~ (kind = "continuation" /\ Stopped) /\ UrbSubmitted

SubmitIsoUrb == kind = "iso" /\ UrbSubmitted

SubmitControlUrb == kind = "control" /\ UrbSubmitted

\* "first URB failed, easy peasy"
SubmitRefused ==
  /\ pc["user"] = "submit" /\ at["user"] = 1
  /\ pc' = [pc EXCEPT !["user"] = "idle"] /\ lock' = "free"
  /\ urbs' = FALSE /\ outcome' = "refused"
  /\ UNCHANGED <<what, at, first, kernel, num_retired, reap_action, reap_status,
                 results, cancel>>

\* EREMOTEIO: the kernel wants no more URBs of this transfer
SubmitEnough ==
  /\ pc["user"] = "submit" /\ at["user"] > 1
  /\ kind = "continuation" /\ Stopped /\ ~gone
  /\ pc' = [pc EXCEPT !["user"] = "flying"] /\ lock' = "free"
  /\ reap_action' = "COMPLETED_EARLY"
  /\ num_retired' = num_retired + num_urbs - (at["user"] - 1)
  /\ UNCHANGED <<what, at, first, kernel, urbs, reap_status, results, cancel, outcome>>

\* another error: "the URBs we haven't submitted yet we count as already
\* retired", and the earlier ones are taken back
Failed(n) ==
  /\ pc["user"] = "submit" /\ at["user"] > 1
  /\ pc' = [pc EXCEPT !["user"] = "unsubmit"]
  /\ at' = [at EXCEPT !["user"] = @ - 1]
  /\ reap_action' = "SUBMIT_FAILED"
  /\ num_retired' = n
  /\ UNCHANGED <<what, first, lock, kernel, urbs, reap_status, results, cancel, outcome>>

SubmitFailed ==
  kind \in Bulk /\ Failed(num_retired + num_urbs - (at["user"] - 1))

SubmitIsoFailed == kind = "iso" /\ Failed(num_urbs - (at["user"] - 1))
-----------------------------------------------------------------------------
(***************************************************************************)
(* discard_urbs: from the last to the first, each by a system call.  An    *)
(* URB that is killed may have got data if it was the first one.           *)
(***************************************************************************)
Kill(i) ==
  \E len \in IF Halted \/ \E j \in Pending : j < i THEN {0} ELSE 0 .. Size - 1 :
    /\ urb' = [urb EXCEPT ![i] = Ended(i, "killed", len)]
    /\ buffer' = Filled(i, len)
    /\ done' = Append(done, i)

Discards(p) == pc[p] \in {"unsubmit", "cancel", "discard"}
Bottom(p) == IF p = "user" THEN 1 ELSE first

DiscardUrb(p) ==
  LET i == at[p] IN
  /\ Discards(p) /\ i >= Bottom(p)
  /\ at' = [at EXCEPT ![p] = i - 1]
  /\ IF i \in Pending
     THEN /\ Kill(i)
          /\ cut' = IF pc[p] = "cancel" THEN cut \cup {i} ELSE cut
          /\ UNCHANGED ret
     ELSE /\ ret' = IF pc[p] # "cancel" THEN ret
                    ELSE IF gone THEN "NO_DEVICE"
                    ELSE IF i = num_urbs THEN "NOT_FOUND" ELSE ret
          /\ UNCHANGED <<urb, buffer, done, cut>>
  /\ UNCHANGED <<what, pc, first, lock, gone, tpriv, transferred, packets, outcome>>

\* the transfer counts as submitted, or the handler of events goes on
Discarded(p) ==
  /\ pc[p] \in {"unsubmit", "discard"} /\ at[p] < Bottom(p)
  /\ pc' = [pc EXCEPT ![p] = IF p = "user" THEN "flying" ELSE "idle"]
  /\ lock' = "free"
  /\ UNCHANGED <<what, at, first, kernel, tpriv, results, cancel, outcome>>

\* op_cancel_transfer, once (libusb_cancel_transfer sees to that)
CancelBegin ==
  /\ pc["user"] = "flying" /\ lock = "free" /\ ret = "none" /\ outcome = "none"
  /\ IF urbs
     THEN /\ pc' = [pc EXCEPT !["user"] = "cancel"] /\ lock' = "user"
          /\ at' = [at EXCEPT !["user"] = num_urbs]
          /\ ret' = "SUCCESS"
     ELSE /\ ret' = "NOT_FOUND"
          /\ UNCHANGED <<pc, at, lock>>
  /\ UNCHANGED <<what, first, kernel, tpriv, results, cut, outcome>>

CancelEnd ==
  /\ pc["user"] = "cancel" /\ at["user"] = 0
  /\ pc' = [pc EXCEPT !["user"] = "flying"] /\ lock' = "free"
  /\ reap_action' = IF ret = "SUCCESS" /\ ~ (kind \in Bulk
                                             /\ reap_action = "ERROR")
                    THEN "CANCELLED" ELSE reap_action
  /\ UNCHANGED <<what, at, first, kernel, urbs, num_retired, reap_status, results,
                 cancel, outcome>>
-----------------------------------------------------------------------------
(***************************************************************************)
(* The handler of events: reap_for_handle takes the first URB that is      *)
(* done, and the rest is under the transfer's lock.                        *)
(***************************************************************************)
Reap(i) ==
  /\ pc["events"] = "idle" /\ urbs /\ lock = "free" /\ done # <<>> /\ i = Head(done)
  /\ done' = Tail(done)
  /\ urb' = [urb EXCEPT ![i].state = "reaped"]

\* report now, or discard the rest first, or wait for it
Next3(i, report, discard) ==
  /\ pc' = [pc EXCEPT !["events"] = IF report THEN "report"
                                    ELSE IF discard THEN "discard" ELSE "idle"]
  /\ urbs' = ~report
  /\ at' = [at EXCEPT !["events"] = num_urbs] /\ first' = i + 1
  /\ lock' = IF discard /\ ~report THEN "events" ELSE "free"

\* the slip of handling a stall like a short transfer
StatusOfStall(end) ==
  CASE end = "overflow" -> "OVERFLOW" [] end = "error" -> "ERROR"
    [] end = "nodev" -> "NO_DEVICE" [] OTHER -> "COMPLETED"

StatusOf(end) ==
  CASE end = "stall" -> "STALL" [] end = "overflow" -> "OVERFLOW"
    [] end = "error" -> "ERROR" [] end = "nodev" -> "NO_DEVICE"
    [] OTHER -> "COMPLETED"

\* surplus data is moved to the end of what was transferred
Moved(i) ==
  [j \in DOMAIN buffer |-> IF j \in transferred + 1 .. transferred + urb[i].len
                           THEN buffer[j - transferred + Offset(i)] ELSE buffer[j]]

\* handle_bulk_completion, when all goes well so far
BulkNormal(i) ==
  LET last == num_retired + 1 = num_urbs
      end == urb[i].end
      rest == end \in Failures \/ urb[i].len < Size IN
  /\ kind \in Bulk /\ reap_action = "NORMAL"
  /\ Reap(i)
  /\ num_retired' = num_retired + 1
  /\ transferred' = transferred + urb[i].len
  /\ reap_status' = IF end = "nodev" \/ (end \in Failures /\ reap_status = "COMPLETED")
                    THEN StatusOf(end) ELSE reap_status
  /\ reap_action' = IF end = "error" THEN "ERROR"
                    ELSE IF rest /\ end \notin Failures /\ ~last THEN "COMPLETED_EARLY"
                    ELSE "NORMAL"
  /\ Next3(i, last \/ end = "overflow", rest)
  /\ UNCHANGED <<what, gone, buffer, packets, cancel, outcome>>

\* ... and after a cancellation, an error or a short URB
BulkAbnormal(i) ==
  LET last == num_retired + 1 = num_urbs IN
  /\ kind \in Bulk /\ reap_action # "NORMAL"
  /\ Reap(i)
  /\ num_retired' = num_retired + 1
  /\ transferred' = transferred + urb[i].len
  /\ buffer' = Moved(i)
  /\ reap_status' = IF last /\ reap_action # "COMPLETED_EARLY" /\ reap_status = "COMPLETED"
                    THEN "ERROR" ELSE reap_status
  /\ Next3(i, last, FALSE)
  /\ UNCHANGED <<what, gone, reap_action, packets, cancel, outcome>>

\* handle_iso_completion: the results of the packets of this URB come next
Iso(i) ==
  LET last == num_retired + 1 = num_urbs IN
  /\ kind = "iso"
  /\ Reap(i)
  /\ packets' = packets \o [k \in 1 .. Size |-> <<i, k>>]
  /\ num_retired' = num_retired + 1
  /\ reap_status' = IF ~last THEN reap_status
                    ELSE IF reap_action # "NORMAL" THEN "ERROR" ELSE StatusOf(urb[i].end)
  /\ Next3(i, last, FALSE)
  /\ UNCHANGED <<what, gone, reap_action, transferred, buffer, cancel, outcome>>

\* handle_control_completion
Control(i) ==
  /\ kind = "control"
  /\ Reap(i)
  /\ transferred' = transferred + urb[i].len
  /\ reap_status' = StatusOf(urb[i].end)
  /\ Next3(i, TRUE, FALSE)
  /\ UNCHANGED <<what, gone, num_retired, reap_action, buffer, packets, cancel, outcome>>

\* after the lock: completion or cancellation?
Report ==
  /\ pc["events"] = "report"
  /\ pc' = [pc EXCEPT !["events"] = "idle"]
  /\ outcome' = IF reap_action = "CANCELLED" THEN "CANCELLED" ELSE reap_status
  /\ UNCHANGED <<what, at, first, lock, kernel, tpriv, results, cancel>>

\* POLLERR, and usbi_handle_disconnect: perhaps after all were reaped
Disconnect ==
  /\ gone /\ pc["events"] = "idle" /\ lock = "free"
  /\ pc["user"] = "flying" /\ urbs
  /\ urbs' = FALSE
  /\ outcome' = "NO_DEVICE"
  /\ UNCHANGED <<what, threads, kernel, num_retired, reap_action, reap_status, results, cancel>>

User == SubmitBulkUrb \/ SubmitIsoUrb \/ SubmitControlUrb \/ SubmitRefused
        \/ SubmitEnough \/ SubmitFailed \/ SubmitIsoFailed
        \/ DiscardUrb("user") \/ Discarded("user") \/ CancelEnd

Events ==
  \/ \E i \in Urbs : BulkNormal(i) \/ BulkAbnormal(i) \/ Iso(i) \/ Control(i)
  \/ DiscardUrb("events") \/ Discarded("events") \/ Report \/ Disconnect

Next == User \/ CancelBegin \/ Events \/ Unplug \/ \E i \in Urbs : Device(i)

Spec == Init /\ [][Next]_vars

-----------------------------------------------------------------------------
Over == outcome \notin {"none", "refused"}
Reaped == \A i \in Urbs : urb[i].state \in {"none", "reaped"}

(***************************************************************************)
(* The URBs are freed when none is left in the kernel ("the user must not  *)
(* have freed the transfer when the discarded URBs are reaped, otherwise   *)
(* libusb will be using freed memory"), unless the descriptor of a device  *)
(* that is gone is polled no more.                                         *)
(***************************************************************************)
FreedWhenReaped == ~urbs => Reaped \/ (gone /\ outcome = "NO_DEVICE")

(***************************************************************************)
(* "Our objectives are not to lose any surplus data": what is reported are *)
(* the data of all URBs, in order and without holes.                       *)
(***************************************************************************)
RECURSIVE DataUpTo(_)
DataUpTo(i) == IF i = 0 THEN <<>>
               ELSE DataUpTo(i - 1) \o [k \in 1 .. urb[i].len |-> <<i, k>>]

DataInOrder ==
  Over /\ Reaped /\ kind # "iso" => SubSeq(buffer, 1, transferred) = DataUpTo(num_urbs)

(***************************************************************************)
(* A cancellation that succeeded is reported as such, and only that one    *)
(* (libusb_cancel_transfer: the callback gets LIBUSB_TRANSFER_CANCELLED).  *)
(***************************************************************************)
CancelIsTrue ==
  /\ Over /\ ret = "SUCCESS" => outcome = "CANCELLED" \/ gone
  /\ outcome = "CANCELLED" => ret = "SUCCESS" \/ gone

(***************************************************************************)
(* A cancellation that failed ("not in progress, already complete") took   *)
(* nothing from the transfer: "URBs are discarded in reverse order of      *)
(* submission to avoid races".                                             *)
(***************************************************************************)
NotFoundCutsNothing == ret = "NOT_FOUND" => cut = {}

(***************************************************************************)
(* The first URB that was not full decides: a transfer is COMPLETED only   *)
(* if that one was short.  EREMOTEIO while it is being submitted is the    *)
(* exception (FailureIsReported).                                          *)
(***************************************************************************)
Partial == {i \in Urbs : urb[i].state # "none" /\ (urb[i].end # "ok" \/ urb[i].len < Size)}
FirstFails ==
  \E i \in Partial : (\A j \in Partial : i <= j) /\ urb[i].end \in Failures
Enough == kind = "continuation" /\ \E i \in Urbs : urb[i].state = "none"

FirstDecides == outcome = "COMPLETED" /\ kind # "iso" /\ ~gone /\ ~Enough => ~FirstFails

(***************************************************************************)
(* The results of the packets of an isochronous transfer that completed    *)
(* are where its user looks for them, though handle_iso_completion only    *)
(* counts URBs.  (A device unplugged while they are discarded is another   *)
(* matter: the URB discarded first may then be the first to be reaped.)    *)
(***************************************************************************)
PacketsInPlace ==
  kind = "iso" /\ outcome = "COMPLETED" /\ ~gone =>
    \A i \in Urbs, k \in 1 .. Size : packets[Offset(i) + k] = <<i, k>>

(***************************************************************************)
(* A transfer that was cut short in any way does not stay unreported for   *)
(* ever, though the device does nothing more.                              *)
(***************************************************************************)
Unreported ==
  outcome = "none" /\ (ret # "none" \/ gone \/ Halted \/ reap_action # "NORMAL")
-----------------------------------------------------------------------------
(***************************************************************************)
(* submit_bulk_transfer, of URBs that could not be submitted: "later when  *)
(* the final reap completes we can report error to the user, or success if *)
(* an earlier URB was completed successfully".  Not what the code does: if *)
(* the first URB stalls while the next is about to be submitted, the       *)
(* kernel refuses it with EREMOTEIO, which counts as a short transfer, and *)
(* the stall is never reported.                                            *)
(***************************************************************************)
FailureIsReported == outcome = "COMPLETED" /\ kind # "iso" /\ ~gone => ~FirstFails
=============================================================================
