-------------------------- MODULE DarwinTransfers ---------------------------
(***************************************************************************)
(* libusb/c/os/darwin_usb.c: the transfers of one handle with one claimed  *)
(* interface.  IOKit keeps the requests of a pipe in order; an answer goes *)
(* through the run loop of the library's own thread to                     *)
(* darwin_async_io_callback, which signals the completion, and through the *)
(* context's list of completed transfers to the thread that handles        *)
(* events, which reports it.  A transfer is cancelled by aborting its      *)
(* pipe, and so is one whose timeout the library counts.                   *)
(***************************************************************************)
EXTENDS Integers, SequencesExt

CONSTANTS Control, Interrupt, Bulk, Stream, Iso,   \* the transfers, by type
          Counts,                 \* num_iso_packets
          FullSpeed,
          Ops,                    \* what the program does besides submitting
          Results,                \* what a device may answer
          MaxSubmits, MaxFrame

Transfers == UNION {Control, Interrupt, Bulk, Stream, Iso}

DarwinTransfersAssumption ==
  /\ Counts \subseteq Nat \ {0} /\ FullSpeed \in BOOLEAN /\ {MaxSubmits, MaxFrame} \subseteq Nat
  /\ Ops \subseteq {"cancel", "free", "flag"}
  /\ Results \subseteq {"success", "underrun", "stalled", "overrun", "timeout", "error"}

VARIABLES
  where,                          \* of a transfer: idle, pipe, loop (the run loop), signalled
  pipe,                           \* the requests IOKit has, oldest first
  loop, completed,                \* answers in the run loop; ctx->completed_transfers
  os, timed_out, expired,         \* timeout_flags; its timeout has passed
  result, size, transferred,      \* tpriv->result, tpriv->size, itransfer->transferred
  status,                         \* what the callback of the program was told
  flag, asked,                    \* ADD_ZERO_PACKET in transfer->flags; as the program set it
  whole, zeros,                   \* the length fills its packets; a zero packet was sent
  list, num,                      \* entries in isoc_framelist, 0 for none; tpriv->num_iso_packets
  packets, desc,                  \* frStatus of each frame; status of each iso_packet_desc
  frame, next_frame, start,       \* the bus; cInterface->frames; where a transfer starts
  lost,                           \* frame lists nobody can free
  cause, received, log, submits   \* history

flags == <<os, timed_out, expired>>
answer == <<result, size>>
zero == <<flag, asked, whole, zeros>>
iso == <<list, num, packets, desc, frame, next_frame, start, lost>>
history == <<cause, received, log, submits>>
vars == <<where, pipe, loop, completed, flags, answer, transferred, status, zero, iso, history>>

Bulky == Interrupt \cup Bulk
Pipe(t) == CHOOSE S \in {Control, Interrupt, Bulk, Stream, Iso} : t \in S
OnPipe(t, seq) == SelectSeq(seq, LAMBDA u : u \in Pipe(t))
Statuses == {"COMPLETED", "CANCELLED", "STALL", "OVERFLOW", "TIMED_OUT", "ERROR"}

TypeOK ==
  /\ where \in [Transfers -> {"idle", "pipe", "loop", "signalled"}]
  /\ {ToSet(pipe), ToSet(loop), ToSet(completed)} \subseteq SUBSET Transfers
  /\ {os, timed_out, expired, flag, asked, whole, zeros} \subseteq [Transfers -> BOOLEAN]
  /\ result \in [Transfers -> {"success", "underrun", "stalled", "overrun", "timeout", "error", "aborted"}]
  /\ {size, transferred, received, start} \subseteq [Transfers -> Nat]
  /\ status \in [Transfers -> Statuses \cup {"none"}]
  /\ {list, num} \subseteq [Transfers -> Counts \cup {0}]
  /\ \A t \in Transfers : Len(packets[t]) <= num[t] /\ ToSet(desc[t]) \subseteq Statuses
  /\ frame \in Nat /\ next_frame \in Nat /\ lost \in Nat /\ submits \in 0 .. MaxSubmits
  /\ cause \in [Transfers -> {"none", "cancel", "expiry", "refused"}] /\ ToSet(log) \subseteq Transfers

(***************************************************************************)
(* Submitting.  darwin_submit_transfer goes by the type; libusb_submit_    *)
(* transfer has cleared transferred and the timeout flags.                 *)
(***************************************************************************)
Clear(t) ==
  /\ transferred' = [transferred EXCEPT ![t] = 0] /\ timed_out' = [timed_out EXCEPT ![t] = FALSE]
  /\ expired' = [expired EXCEPT ![t] = FALSE] /\ zeros' = [zeros EXCEPT ![t] = FALSE]
  /\ status' = [status EXCEPT ![t] = "none"] /\ cause' = [cause EXCEPT ![t] = "none"]
  /\ received' = [received EXCEPT ![t] = 0]

Queue(t) ==
  /\ where' = [where EXCEPT ![t] = "pipe"] /\ pipe' = Append(pipe, t)
  /\ os' = [os EXCEPT ![t] = t \in Control \cup Bulk \cup Stream]

(***************************************************************************)
(* "do not need a zero packet": the flag goes from the transfer itself.    *)
(***************************************************************************)
submit_bulk_transfer(t) ==
  /\ t \in Bulky
  /\ \E fills \in BOOLEAN :
       /\ whole' = [whole EXCEPT ![t] = fills]
       /\ flag' = [flag EXCEPT ![t] = @ /\ fills]
  /\ UNCHANGED iso

submit_control_transfer(t) == t \in Control /\ UNCHANGED <<flag, whole, iso>>
submit_stream_transfer(t) == t \in Stream /\ UNCHANGED <<flag, whole, iso>>

(***************************************************************************)
(* The frame list is kept for the next submission of as many packets, and  *)
(* a transfer starts where the last one of its endpoint ends.              *)
(***************************************************************************)
Later(a, b) == IF a < b THEN b ELSE a
Frames(n) == IF FullSpeed THEN n ELSE n \div 8

FrameList(t, n) == list' = [list EXCEPT ![t] = IF @ # 0 /\ num[t] = n THEN @ ELSE n]

Schedule(t, n) ==
  /\ start' = [start EXCEPT ![t] = Later(frame + 4, next_frame)]
  /\ next_frame' = start'[t] + Frames(n)

submit_iso_transfer(t) ==
  /\ t \in Iso
  /\ \E n \in Counts :
       /\ num' = [num EXCEPT ![t] = n]
       /\ FrameList(t, n)
       /\ Schedule(t, n)
  /\ packets' = [packets EXCEPT ![t] = <<>>] /\ desc' = [desc EXCEPT ![t] = <<>>]
  /\ UNCHANGED <<flag, whole, frame, lost>>

Submit(t) ==
  /\ where[t] = "idle" /\ submits < MaxSubmits /\ submits' = submits + 1
  /\ Clear(t) /\ Queue(t)
  /\ \/ submit_bulk_transfer(t) \/ submit_control_transfer(t)
     \/ submit_stream_transfer(t) \/ submit_iso_transfer(t)
  /\ log' = Append(log, t)
  /\ UNCHANGED <<loop, completed, result, size, asked>>

(***************************************************************************)
(* An isochronous request that IOKit refuses frees the list, after the     *)
(* frames were taken.                                                      *)
(***************************************************************************)
SubmitFails(t) ==
  /\ t \in Iso /\ where[t] = "idle" /\ submits < MaxSubmits /\ submits' = submits + 1
  /\ \E n \in Counts : num' = [num EXCEPT ![t] = n] /\ Schedule(t, n)
  /\ list' = [list EXCEPT ![t] = 0]
  /\ packets' = [packets EXCEPT ![t] = <<>>] /\ desc' = [desc EXCEPT ![t] = <<>>]
  /\ UNCHANGED <<where, pipe, loop, completed, flags, answer, transferred, status, zero,
                 frame, lost, cause, received, log>>

(***************************************************************************)
(* Aborting a pipe ends every request on it, with what it has received.    *)
(***************************************************************************)
AbortPipe(t, why) ==
  LET gone == OnPipe(t, pipe)
      G == ToSet(gone)
  IN /\ pipe' = SelectSeq(pipe, LAMBDA u : u \notin Pipe(t))
     /\ loop' = loop \o gone
     /\ where' = [u \in Transfers |-> IF u \in G THEN "loop" ELSE where[u]]
     /\ result' = [u \in Transfers |-> IF u \in G THEN "aborted" ELSE result[u]]
     /\ size' = [u \in Transfers |-> IF u \in G THEN received[u] ELSE size[u]]
     /\ cause' = [u \in Transfers |-> IF u \in G THEN why ELSE cause[u]]

(***************************************************************************)
(* darwin_cancel_transfer: the types it does not name are refused, though  *)
(* darwin_abort_transfers knows what to do with one of them.               *)
(***************************************************************************)
darwin_cancel_transfer(t, why) ==
  IF t \in Stream
  THEN UNCHANGED <<pipe, loop, where, result, size>> /\ cause' = [cause EXCEPT ![t] = "refused"]
  ELSE AbortPipe(t, why)

Cancel(t) ==
  /\ "cancel" \in Ops /\ where[t] # "idle" /\ cause[t] = "none"
  /\ darwin_cancel_transfer(t, "cancel")
  /\ UNCHANGED <<completed, flags, transferred, status, zero, iso, received, log, submits>>

(***************************************************************************)
(* handle_timeout of the library, for a request IOKit was given no timeout *)
(* for: it cancels, and marks the transfer.                                *)
(***************************************************************************)
Expire(t) ==
  /\ where[t] # "idle" /\ ~os[t] /\ ~expired[t] /\ t \notin Iso /\ cause[t] # "cancel"
  /\ expired' = [expired EXCEPT ![t] = TRUE] /\ timed_out' = [timed_out EXCEPT ![t] = TRUE]
  /\ darwin_cancel_transfer(t, "expiry")
  /\ UNCHANGED <<completed, os, transferred, status, zero, iso, received, log, submits>>

(***************************************************************************)
(* IOKit and the device: data arrives for the request at the head of a     *)
(* pipe, and it is answered.  Only a request with a timeout can run out of *)
(* it; the frames of an isochronous one have results of their own.         *)
(***************************************************************************)
Head1(t) == where[t] = "pipe" /\ Head(OnPipe(t, pipe)) = t

Receive(t) ==
  /\ t \in Bulky /\ Head1(t) /\ received[t] = 0
  /\ received' = [received EXCEPT ![t] = 1]
  /\ UNCHANGED <<where, pipe, loop, completed, flags, answer, transferred, status, zero, iso, cause, log, submits>>

Answer(t) ==
  /\ Head1(t)
  /\ \E r \in Results \ (IF t \in Iso \/ ~os[t] THEN {"timeout"} ELSE {}) :
       result' = [result EXCEPT ![t] = r]
  /\ size' = [size EXCEPT ![t] = received[t]]
  /\ pipe' = Remove(pipe, t) /\ loop' = Append(loop, t) /\ where' = [where EXCEPT ![t] = "loop"]
  /\ IF t \in Iso THEN \E p \in [1 .. num[t] -> Results] : packets' = [packets EXCEPT ![t] = p]
     ELSE UNCHANGED packets
  /\ UNCHANGED <<completed, flags, transferred, status, zero, list, num, desc, frame, next_frame, start, lost, history>>

Tick == /\ frame < MaxFrame /\ frame' = frame + 1
        /\ UNCHANGED <<where, pipe, loop, completed, flags, answer, transferred, status, zero,
                       list, num, packets, desc, next_frame, start, lost, history>>

(***************************************************************************)
(* The run loop calls back; usbi_signal_transfer_completion appends to the *)
(* context's list.                                                         *)
(***************************************************************************)
ZeroPacket(t) == zeros' = [zeros EXCEPT ![t] = result[t] = "success" /\ t \in Bulky /\ flag[t]]

\* the slip of a list_add for list_add_tail
SignalFirst(t) ==
  /\ completed' = <<t>> \o completed /\ where' = [where EXCEPT ![t] = "signalled"]

usbi_signal_transfer_completion(t) ==
  /\ completed' = Append(completed, t) /\ where' = [where EXCEPT ![t] = "signalled"]

darwin_async_io_callback ==
  /\ loop # <<>> /\ loop' = Tail(loop)
  /\ LET t == Head(loop) IN ZeroPacket(t) /\ usbi_signal_transfer_completion(t)
  /\ UNCHANGED <<pipe, flags, answer, transferred, status, flag, asked, whole, iso, history>>

(***************************************************************************)
(* darwin_transfer_status both reads the mark of a timeout and sets it, so *)
(* it is applied to the packets in order and then to the transfer.         *)
(***************************************************************************)
Told(r, late) ==
  CASE late -> "TIMED_OUT"
    [] ~late /\ r \in {"success", "underrun"} -> "COMPLETED"
    [] ~late /\ r = "aborted" -> "CANCELLED"
    [] ~late /\ r = "stalled" -> "STALL"
    [] ~late /\ r = "overrun" -> "OVERFLOW"
    [] ~late /\ r = "timeout" -> "TIMED_OUT"
    [] ~late /\ r = "error" -> "ERROR"

Late(t, k) == timed_out[t] \/ \E j \in 1 .. k : packets[t][j] = "timeout"
Good(r) == r \in {"success", "underrun", "timeout"}

Packets(t) ==
  desc' = IF t \in Iso /\ list[t] # 0 /\ Good(result[t])
          THEN [desc EXCEPT ![t] = [k \in 1 .. Len(packets[t]) |-> Told(packets[t][k], Late(t, k - 1))]]
          ELSE desc

Counted(t) == IF t \notin Iso /\ Good(result[t]) THEN transferred[t] + size[t] ELSE transferred[t]

darwin_handle_transfer_completion ==
  /\ completed # <<>> /\ completed' = Tail(completed)
  /\ LET t == Head(completed)
         late == Late(t, IF Good(result[t]) THEN Len(packets[t]) ELSE 0)
     IN /\ Packets(t)
        /\ transferred' = [transferred EXCEPT ![t] = Counted(t)]
        /\ status' = [status EXCEPT ![t] = Told(result[t], late)]
        /\ timed_out' = [timed_out EXCEPT ![t] = late \/ result[t] = "timeout"]
        /\ where' = [where EXCEPT ![t] = "idle"]
        /\ log' = Remove(log, t)
  /\ UNCHANGED <<pipe, loop, os, expired, answer, zero, list, num, packets, frame, next_frame, start, lost,
                 cause, received, submits>>

(***************************************************************************)
(* The program sets a flag, and frees a transfer: the memory of the        *)
(* transfer and what precedes it, not what the backend's part points to.   *)
(***************************************************************************)
SetFlag(t) ==
  /\ "flag" \in Ops /\ t \in Bulk /\ where[t] = "idle" /\ ~asked[t]
  /\ flag' = [flag EXCEPT ![t] = TRUE] /\ asked' = [asked EXCEPT ![t] = TRUE]
  /\ UNCHANGED <<where, pipe, loop, completed, flags, answer, transferred, status, whole, zeros, iso, history>>

libusb_free_transfer(t) ==
  /\ "free" \in Ops /\ where[t] = "idle" /\ t \in Iso
  /\ lost' = lost + (IF list[t] # 0 THEN 1 ELSE 0)
  /\ list' = [list EXCEPT ![t] = 0] /\ num' = [num EXCEPT ![t] = 0]
  /\ packets' = [packets EXCEPT ![t] = <<>>] /\ desc' = [desc EXCEPT ![t] = <<>>]
  /\ UNCHANGED <<where, pipe, loop, completed, flags, answer, transferred, status, zero,
                 frame, next_frame, start, history>>

Init ==
  /\ where = [t \in Transfers |-> "idle"] /\ pipe = <<>> /\ loop = <<>> /\ completed = <<>>
  /\ LET no == [t \in Transfers |-> FALSE]
         zero0 == [t \in Transfers |-> 0]
     IN /\ os = no /\ timed_out = no /\ expired = no /\ flag = no /\ asked = no /\ whole = no /\ zeros = no
        /\ size = zero0 /\ transferred = zero0 /\ received = zero0 /\ list = zero0 /\ num = zero0 /\ start = zero0
  /\ result = [t \in Transfers |-> "success"] /\ status = [t \in Transfers |-> "none"]
  /\ packets = [t \in Transfers |-> <<>>] /\ desc = packets
  /\ frame = 0 /\ next_frame = 0 /\ lost = 0 /\ submits = 0
  /\ cause = [t \in Transfers |-> "none"] /\ log = <<>>

Next ==
  \/ \E t \in Transfers : \/ Submit(t) \/ SubmitFails(t) \/ Cancel(t) \/ Expire(t)
                          \/ Receive(t) \/ Answer(t) \/ SetFlag(t) \/ libusb_free_transfer(t)
  \/ darwin_async_io_callback \/ darwin_handle_transfer_completion \/ Tick

(***************************************************************************)
(* The thread of the run loop runs, and a thread handles events.           *)
(***************************************************************************)
Spec == Init /\ [][Next]_vars

(***************************************************************************)
(* Requests of a pipe are reported in the order they were submitted,       *)
(* through the run loop, the list of the context and an abort of them all: *)
(* usbi_signal_transfer_completion appends (io.c:1763).                    *)
(***************************************************************************)
ReportsInOrder ==
  \A t \in Transfers : where[t] # "idle" /\ where'[t] = "idle" => Head(OnPipe(t, log)) = t

(***************************************************************************)
(* "reuse the old one if the sizes are the same" (darwin_usb.c:2078): IOKit*)
(* is given a list of as many frames as the request has packets.           *)
(***************************************************************************)
ListFits == \A t \in Iso : where[t] = "pipe" => list[t] = num[t]

(***************************************************************************)
(* "schedule for a frame a little in the future" (darwin_usb.c:2131): no   *)
(* two isochronous requests of an endpoint take the same frame, however    *)
(* late the second is submitted and whatever came between them.            *)
(***************************************************************************)
NoOverlap ==
  \A t, u \in Iso : t # u /\ where[t] = "pipe" /\ where[u] = "pipe" =>
    start[t] + Frames(num[t]) <= start[u] \/ start[u] + Frames(num[u]) <= start[t]

(***************************************************************************)
(* "it is ok to handle cancelled transfers without calling                 *)
(* usbi_handle_transfer_cancellation (we catch timeout transfers)"         *)
(* (darwin_usb.c:2388): a transfer is CANCELLED only if its pipe was       *)
(* aborted while it was on it, TIMED_OUT only if a timeout of its own      *)
(* passed, and one that was aborted for its own timeout is not CANCELLED.  *)
(***************************************************************************)
StatusIsTrue ==
  \A t \in Transfers \ Iso : where[t] = "idle" =>
    /\ status[t] = "CANCELLED" => cause[t] # "none" /\ ~expired[t]
    /\ status[t] = "TIMED_OUT" => expired[t] \/ os[t]

(***************************************************************************)
(* A transfer that is COMPLETED tells how much came, and so does one the   *)
(* system timed out, however its pipe was aborted in between:              *)
(* "itransfer->transferred += tpriv->size" (darwin_usb.c:2384).            *)
(***************************************************************************)
DataIsCounted ==
  \A t \in Bulk : where[t] = "idle" /\ status[t] \in {"COMPLETED", "TIMED_OUT"} => transferred[t] = received[t]

(***************************************************************************)
(* What is cancelled, or aborted with what was, is not on its way for ever.*)
(***************************************************************************)
Aborting(t) == where[t] # "idle" /\ cause[t] \in {"cancel", "expiry"}

(***************************************************************************)
(* "libusb is careful not to lose any data that may have been transferred; *)
(* do not assume that timeout conditions indicate a complete lack of I/O"  *)
(* (sync.c:374): a timed out transfer tells how much came.                 *)
(***************************************************************************)
TimeoutKeepsData ==
  \A t \in Bulky : where[t] = "idle" /\ status[t] = "TIMED_OUT" => transferred[t] = received[t]

(***************************************************************************)
(* "Status code for this packet" (libusb.h:1206): the status of a packet   *)
(* is that of its own frame.                                               *)
(***************************************************************************)
PacketStatusIsOwn ==
  \A t \in Iso : where[t] = "idle" =>
    \A k \in DOMAIN desc[t] : desc[t][k] = Told(packets[t][k], FALSE)

(***************************************************************************)
(* "you do not have to worry about only setting it on transfers that end   *)
(* on the boundary" (libusb.h:1185): a transfer with the flag that fills   *)
(* its packets is followed by an empty one.                                *)
(***************************************************************************)
ZeroPacketSent ==
  \A t \in Bulk : where[t] = "signalled" /\ result[t] = "success" /\ asked[t] /\ whole[t] => zeros[t]

(***************************************************************************)
(* "Asynchronously cancel a previously submitted transfer" (io.c:1572).    *)
(***************************************************************************)
CancelAborts == \A t \in Transfers : cause[t] # "refused"

(***************************************************************************)
(* "This should be called for all transfers" (io.c:1316):   *)
(* freeing a transfer frees what the backend allocated for it.             *)
(***************************************************************************)
NoListLost == lost = 0
=============================================================================
