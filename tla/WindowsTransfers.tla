------------------------- MODULE WindowsTransfers ---------------------------
(***************************************************************************)
(* A transfer of libusb on Windows from its submission to its callback     *)
(* (os/windows_common.c, with the WinUSB, HID and composite parts of       *)
(* os/windows_winusb.c and the frame of io.c).                             *)
(*                                                                         *)
(* The system completes an overlapped I/O by a packet on the completion    *)
(* port of the context.  A thread of the library takes the packets, finds  *)
(* the transfer in the list of its handle and hands it to the thread that  *)
(* handles events, which copies the data, clears what the transfer has and *)
(* calls the application.  Submitting and cancelling come from other       *)
(* threads, under the lock of the transfer; the handling of a completion   *)
(* takes that lock only at its end.                                        *)
(*                                                                         *)
(* One handle is open and its interfaces are claimed (WindowsClaims).      *)
(* Data are counted in units, Length of which fit a transfer; the packets  *)
(* of an isochronous transfer are abstracted to whether one has failed.    *)
(* The drivers answer a request they accept with ERROR_IO_PENDING.         *)
(***************************************************************************)
EXTENDS Naturals, Sequences, FiniteSets, SequencesExt

CONSTANTS
  Transfers,
  What,        \* of each: pipe, kind, api of its interface, prefix, zero
  Length,      \* units asked for
  MaxSubmits,  \* bound: submissions by the application
  MaxPulls,    \* bound: 1 if the device may be pulled
  Refuses      \* the driver may refuse to start a request

Kinds == {"in", "out", "control", "setconf", "iso"}
Pipes == {What[t].pipe : t \in Transfers}

WindowsTransfersAssumption ==
  /\ \A t \in Transfers :
       /\ What[t].kind \in Kinds
       /\ What[t].api \in {"winusb", "hid"}
       /\ What[t].api = "hid" => What[t].kind \in {"in", "out"}
       /\ {What[t].prefix, What[t].zero} \subseteq BOOLEAN
  /\ {Length, MaxSubmits} \subseteq Nat /\ MaxPulls \in 0 .. 1
  /\ Refuses \in BOOLEAN

VARIABLES
  phase,      \* submission: idle, added, started; resubmitted by a callback
  byCallback, \* the submission comes from the callback of a stream
  listed,     \* active_transfers of the handle
  file,       \* transfer_priv->handle is set
  buffer,     \* hid_buffer is allocated, isoch_buffer_handle stored
  flying, cancelling, timedOut,   \* state_flags and timeout_flags
  transferred,
  io,         \* the OVERLAPPED: state, result and bytes
  port,       \* packets on the completion port
  completed,  \* completed_transfers
  handler,    \* the event thread: what it does, with what and which status
  zlp, policy,                    \* WINUSB_ZLP_*, and what the driver does
  callback, saved, break,         \* of an isochronous stream
  gone, submits,
  owed, asked, told               \* history: see below

priv == <<listed, file, buffer>>
flags == <<flying, cancelling, timedOut>>
pipe == <<zlp, policy>>
stream == <<callback, saved, break>>
history == <<owed, asked, told>>
vars == <<phase, byCallback, priv, flags, transferred, io, port, completed,
          handler, pipe, stream, gone, submits, history>>

NoIo == [state |-> "none", result |-> "none", bytes |-> 0, aborting |-> FALSE,
         packets |-> TRUE]
Free == [doing |-> "nothing", t |-> CHOOSE t \in Transfers : TRUE,
         status |-> "none"]
Results == {"ok", "stall", "semaphore", "aborted", "removed", "failure"}
Statuses == {"completed", "stall", "timed_out", "cancelled", "no_device",
             "error", "overflow"}

TypeOK ==
  /\ phase \in [Transfers -> {"idle", "added", "started"}]
  /\ \A f \in {byCallback, listed, file, buffer, flying, cancelling, timedOut,
               break, owed} : f \in [Transfers -> BOOLEAN]
  /\ asked \in [Transfers -> SUBSET {"cancel", "time"}]
  /\ transferred \in [Transfers -> 0 .. Length + 2]
  /\ \A t \in Transfers : /\ io[t].state \in {"none", "pending", "done"}
                          /\ io[t].result \in Results \cup {"none"}
  /\ ToSet(port) \cup ToSet(completed) \subseteq Transfers
  /\ handler.doing \in {"nothing", "clear", "complete", "callback"}
  /\ handler.status \in Statuses \cup {"none"}
  /\ zlp \in [Pipes -> {"unset", "on", "off"}] /\ policy \in [Pipes -> BOOLEAN]
  /\ callback \in [Transfers -> {"user", "continue"}]
  /\ saved \in [Transfers -> {"none", "user", "continue"}]
  /\ told \in [Transfers -> Statuses \cup {"none"}]
  /\ gone \in 0 .. MaxPulls /\ submits \in 0 .. MaxSubmits

IsIn(t) == What[t].kind = "in"
IsHid(t) == What[t].api = "hid"
IsIso(t) == What[t].kind = "iso"

(* itransfer->lock is held from the start of a submission to its end *)
Unlocked(t) == phase[t] = "idle"
-----------------------------------------------------------------------------
(* Submission *)

(* libusb_submit_transfer up to the backend, and windows_submit_transfer:  *)
(* the transfer is on the handle's list before its I/O can complete        *)
Adds(t) ==
  /\ phase' = [phase EXCEPT ![t] = "added"]
  /\ listed' = [listed EXCEPT ![t] = TRUE]
  /\ transferred' = [transferred EXCEPT ![t] = 0]
  /\ cancelling' = [cancelling EXCEPT ![t] = FALSE]
  /\ timedOut' = [timedOut EXCEPT ![t] = FALSE]

Submit(t) ==
  /\ ~owed[t] /\ Unlocked(t) /\ ~flying[t] /\ submits < MaxSubmits
  /\ handler.doing = "nothing" \/ handler.t # t
  /\ Adds(t)
  /\ submits' = submits + 1
  /\ byCallback' = [byCallback EXCEPT ![t] = FALSE]
  /\ owed' = [owed EXCEPT ![t] = TRUE]
  /\ asked' = [asked EXCEPT ![t] = {}]
  /\ told' = [told EXCEPT ![t] = "none"]
  /\ UNCHANGED <<file, buffer, flying, io, port, completed, handler, pipe,
                 stream, gone>>

(* WINUSB_ZLP_*: the first OUT transfer of a pipe decides whether it ends  *)
(* short transfers with a zero packet, and later ones have to agree        *)
ZeroAgrees(t) ==
  LET p == What[t].pipe
  IN  zlp[p] = "unset" \/ (zlp[p] = "on") = What[t].zero

SetsZero(t) ==
  LET p == What[t].pipe
  IN  /\ zlp' = [zlp EXCEPT ![p] = IF What[t].zero THEN "on" ELSE "off"]
      /\ policy' = [policy EXCEPT ![p] = @ \/ (zlp[p] = "unset" /\
                                               What[t].zero)]

(* What the backend refuses before it asks the driver: a zero packet that  *)
(* does not fit the pipe, or one on HID; another configuration.            *)
Refused(t) ==
  \/ What[t].kind = "out" /\ ~IsHid(t) /\ ~ZeroAgrees(t)
  \/ What[t].kind = "out" /\ IsHid(t) /\ What[t].zero

Pending == [NoIo EXCEPT !.state = "pending"]

(* The backend starts the I/O: winusbx_submit_bulk_transfer,               *)
(* hid_submit_bulk_transfer and the rest of submit_control_transfer        *)
Start(t) ==
  /\ phase[t] = "added" /\ ~Refused(t) /\ gone = 0
  /\ What[t].kind \in {"in", "out", "control"}
  /\ file' = [file EXCEPT ![t] = TRUE]
  /\ buffer' = [buffer EXCEPT ![t] = IsHid(t)]
  /\ IF What[t].kind = "out" /\ ~IsHid(t) THEN SetsZero(t)
     ELSE UNCHANGED pipe
  /\ io' = [io EXCEPT ![t] = Pending]
  /\ phase' = [phase EXCEPT ![t] = "started"]
  /\ UNCHANGED <<byCallback, listed, flags, transferred, port, completed,
                 handler, stream, gone, submits, history>>

(* windows_force_sync_completion: SET_CONFIGURATION of the configuration   *)
(* that is active already needs no driver; the packet is posted at once    *)
StartDone(t) ==
  /\ phase[t] = "added" /\ What[t].kind = "setconf"
  /\ file' = [file EXCEPT ![t] = TRUE]
  /\ io' = [io EXCEPT ![t] = [NoIo EXCEPT !.state = "done", !.result = "ok"]]
  /\ port' = Append(port, t)
  /\ phase' = [phase EXCEPT ![t] = "started"]
  /\ UNCHANGED <<byCallback, listed, buffer, flags, transferred, completed,
                 handler, pipe, stream, gone, submits, history>>

(* winusbx_submit_iso_transfer: unless the stream has just been broken,    *)
(* the transfer asks to continue it and gets a callback of the library.  A *)
(* buffer of an earlier request that is still registered is given up       *)
StartIso(t) ==
  /\ phase[t] = "added" /\ IsIso(t) /\ gone = 0
  /\ file' = [file EXCEPT ![t] = TRUE]
  /\ IF break[t] THEN UNCHANGED <<callback, saved>>
     ELSE /\ saved' = [saved EXCEPT ![t] = callback[t]]
          /\ callback' = [callback EXCEPT ![t] = "continue"]
  /\ buffer' = [buffer EXCEPT ![t] = FALSE]
  /\ io' = [io EXCEPT ![t] = Pending]
  /\ phase' = [phase EXCEPT ![t] = "started"]
  /\ UNCHANGED <<byCallback, listed, flags, transferred, port, completed,
                 handler, pipe, break, gone, submits, history>>

(* The driver took it.  The handle of the isochronous buffer is stored only *)
(* now; libusb_submit_transfer sets IN_FLIGHT under the lock it took before *)
Submitted(t) ==
  /\ phase[t] = "started"
  /\ buffer' = [buffer EXCEPT ![t] = @ \/ IsIso(t)]
  /\ flying' = [flying EXCEPT ![t] = TRUE]
  /\ break' = [break EXCEPT ![t] = FALSE]
  /\ phase' = [phase EXCEPT ![t] = "idle"]
  /\ handler' = IF byCallback[t] THEN Free ELSE handler
  /\ UNCHANGED <<byCallback, listed, file, cancelling, timedOut, transferred,
                 io, port, completed, pipe, callback, saved, gone, submits,
                 history>>

(* A failed submission is taken off the list and cleared, all under the    *)
(* lock.  The application is told by the result; libusb_submit_transfer    *)
(* in the callback of a stream tells nobody.  An isochronous transfer that *)
(* the driver refuses keeps the callback of the stream; a write it refuses *)
(* has set the policy of its pipe, unless that is what failed.             *)
SubmitFails(t) ==
  /\ phase[t] = "added"
  /\ Refused(t) \/ gone = 1 \/ Refuses
  /\ What[t].kind = "setconf" => Refuses
  /\ listed' = [listed EXCEPT ![t] = FALSE]
  /\ file' = [file EXCEPT ![t] = FALSE]
  /\ buffer' = [buffer EXCEPT ![t] = FALSE]
  /\ phase' = [phase EXCEPT ![t] = "idle"]
  /\ handler' = IF byCallback[t] THEN Free ELSE handler
  /\ owed' = [owed EXCEPT ![t] = byCallback[t]]
  /\ IF IsIso(t) /\ ~break[t]
       THEN /\ saved' = [saved EXCEPT ![t] = callback[t]]
            /\ callback' = [callback EXCEPT ![t] = "continue"]
       ELSE UNCHANGED <<callback, saved>>
  /\ \/ UNCHANGED pipe
     \/ What[t].kind = "out" /\ ~IsHid(t) /\ ~Refused(t) /\ SetsZero(t)
  /\ UNCHANGED <<byCallback, flags, transferred, io, port, completed, break,
                 gone, submits, asked, told>>
-----------------------------------------------------------------------------
(* The system *)

Bytes(t) ==
  IF IsHid(t) /\ What[t].prefix
    THEN IF IsIn(t) THEN {0} \cup 2 .. Length + 2 ELSE {Length + 1}
    ELSE IF IsHid(t) /\ IsIn(t) THEN 0 .. Length + 1 ELSE 0 .. Length

(* the I/O ends and its packet goes to the port *)
EndsWith(t, r, n, ok) ==
  /\ io[t].state = "pending"
  /\ io' = [io EXCEPT ![t] = [@ EXCEPT !.state = "done", !.result = r,
                                       !.bytes = n, !.packets = ok]]
  /\ port' = Append(port, t)
  /\ UNCHANGED <<phase, byCallback, priv, flags, transferred, completed,
                 handler, pipe, stream, gone, submits, history>>

Complete(t) ==
  \/ \E n \in Bytes(t), ok \in BOOLEAN :
       (ok \/ IsIso(t)) /\ EndsWith(t, "ok", n, ok)
  \/ io[t].aborting /\ ~IsHid(t) /\ \E n \in Bytes(t) :
       EndsWith(t, "aborted", n, TRUE)
  \/ io[t].aborting /\ IsHid(t) /\ EndsWith(t, "aborted", 0, TRUE)
  \/ \E r \in {"stall", "semaphore", "failure"} : EndsWith(t, r, 0, TRUE)
  \/ gone = 1 /\ EndsWith(t, "removed", 0, TRUE)

Pull ==
  /\ gone < MaxPulls /\ gone' = 1
  /\ UNCHANGED <<phase, byCallback, priv, flags, transferred, io, port,
                 completed, handler, pipe, stream, submits, history>>

(* windows_iocp_thread: a packet whose OVERLAPPED is on the list of its    *)
(* handle takes the transfer off it and signals it; others are ignored     *)
windows_iocp_thread ==
  /\ port # <<>>
  /\ LET t == Head(port)
     IN  IF listed[t]
           THEN /\ listed' = [listed EXCEPT ![t] = FALSE]
                /\ completed' = Append(completed, t)
           ELSE UNCHANGED <<listed, completed>>
  /\ port' = Tail(port)
  /\ UNCHANGED <<phase, byCallback, file, buffer, flags, transferred, io,
                 handler, pipe, stream, gone, submits, history>>
-----------------------------------------------------------------------------
(* The event thread *)

(* copy_transfer_data of the interface's driver: HID checks that the       *)
(* report fits (with its prefix) and counts all of it                      *)
Expected(t) == IF What[t].prefix THEN Length + 1 ELSE Length
Copied(t) == IF IsHid(t) /\ IsIn(t) /\ io[t].bytes > Expected(t)
             THEN Expected(t) ELSE io[t].bytes
CopyStatus(t) == IF Copied(t) < io[t].bytes THEN "overflow" ELSE "completed"

(* what windows_handle_transfer_completion makes of the result *)
Status(t) ==
  CASE io[t].result = "ok" -> [status |-> CopyStatus(t), bytes |-> Copied(t)]
    [] io[t].result = "stall" -> [status |-> "stall", bytes |-> 0]
    [] io[t].result = "semaphore" -> [status |-> "timed_out", bytes |-> 0]
    [] io[t].result = "aborted" -> [status |-> "cancelled",
                                    bytes |-> Copied(t)]
    [] io[t].result = "removed" -> [status |-> "no_device", bytes |-> 0]
    [] OTHER -> [status |-> "error", bytes |-> 0]

windows_handle_transfer_completion ==
  /\ handler.doing = "nothing" /\ completed # <<>>
  /\ LET t == Head(completed)
     IN  /\ handler' = [doing |-> "clear", t |-> t, status |-> Status(t).status]
         /\ transferred' = [transferred EXCEPT ![t] = @ + Status(t).bytes]
  /\ completed' = Tail(completed)
  /\ UNCHANGED <<phase, byCallback, priv, flags, io, port, pipe, stream, gone,
                 submits, history>>

(* transfer_priv->handle = NULL and winusb_clear_transfer_priv, without    *)
(* the lock of the transfer                                                *)
Clear ==
  /\ handler.doing = "clear"
  /\ file' = [file EXCEPT ![handler.t] = FALSE]
  /\ buffer' = [buffer EXCEPT ![handler.t] = FALSE]
  /\ handler' = [handler EXCEPT !.doing = "complete"]
  /\ UNCHANGED <<phase, byCallback, listed, flags, transferred, io, port,
                 completed, pipe, stream, gone, submits, history>>

(* the status of usbi_handle_transfer_cancellation *)
Final(t, s) == IF s = "cancelled" /\ timedOut[t] THEN "timed_out" ELSE s

(* winusbx_native_iso_transfer_continue_stream_callback: a stream that was *)
(* not continued is tried again, not continuing                            *)
Breaks(t) == \/ Final(t, handler.status) # "completed"
             \/ ~io[t].packets

(* usbi_handle_transfer_completion takes the lock, clears IN_FLIGHT and    *)
(* calls back: the application, or the callback of the stream              *)
Callback ==
  LET t == handler.t
      s == Final(t, handler.status)
  IN  /\ handler.doing = "complete" /\ Unlocked(t)
      /\ flying' = [flying EXCEPT ![t] = FALSE]
      /\ \/ callback[t] = "user" /\ UNCHANGED stream
            /\ told' = [told EXCEPT ![t] = s]
            /\ owed' = [owed EXCEPT ![t] = FALSE] /\ handler' = Free
         \/ callback[t] = "continue" /\ ~Breaks(t) /\ saved[t] = "user"
            /\ callback' = [callback EXCEPT ![t] = "user"]
            /\ told' = [told EXCEPT ![t] = s]
            /\ owed' = [owed EXCEPT ![t] = FALSE] /\ handler' = Free
            /\ UNCHANGED <<saved, break>>
         \/ callback[t] = "continue" /\ Breaks(t)
            /\ callback' = [callback EXCEPT ![t] = saved[t]]
            /\ break' = [break EXCEPT ![t] = TRUE]
            /\ handler' = [handler EXCEPT !.doing = "callback"]
            /\ UNCHANGED <<saved, told, owed>>
  /\ UNCHANGED <<phase, byCallback, priv, cancelling, timedOut, transferred,
                 io, port, completed, pipe, gone, submits, asked>>

(* libusb_submit_transfer in the callback of the stream *)
Resubmit ==
  LET t == handler.t
  IN  /\ handler.doing = "callback" /\ Unlocked(t) /\ ~byCallback[t]
      /\ Adds(t)
      /\ byCallback' = [byCallback EXCEPT ![t] = TRUE]
  /\ UNCHANGED <<file, buffer, flying, io, port, completed, handler, pipe,
                 stream, gone, submits, history>>
-----------------------------------------------------------------------------
(* Cancelling *)

(* AbortPipe: all that is pending on the pipe *)
OnPipe(p) == {u \in Transfers : What[u].pipe = p /\ io[u].state = "pending"}
Aborts(S) == io' = [u \in Transfers |->
                      IF u \in S THEN [io[u] EXCEPT !.aborting = TRUE]
                      ELSE io[u]]

(* windows_cancel_transfer: CancelIoEx for this request alone; if there is *)
(* no file any more it fails otherwise than with ERROR_NOT_FOUND, and      *)
(* WinUSB aborts the pipe                                                  *)
Cancels(t) ==
  IF file[t] THEN {t} \cap {u \in Transfers : io[u].state = "pending"}
  ELSE IF ~IsHid(t) THEN OnPipe(What[t].pipe) ELSE {}

Succeeds(t) == IF file[t] THEN io[t].state = "pending" ELSE ~IsHid(t)

Cancel(t) ==
  /\ Unlocked(t) /\ flying[t] /\ ~cancelling[t]
  /\ cancelling' = [cancelling EXCEPT ![t] = TRUE]
  /\ asked' = [asked EXCEPT ![t] = @ \cup {"cancel"}]
  /\ Aborts(Cancels(t))
  /\ UNCHANGED <<phase, byCallback, priv, flying, timedOut, transferred, port,
                 completed, handler, pipe, stream, gone, submits, owed, told>>

(* handle_timeouts in the event thread cancels, and remembers it *)
Expire(t) ==
  /\ handler.doing = "nothing"
  /\ Unlocked(t) /\ flying[t] /\ ~cancelling[t]
  /\ cancelling' = [cancelling EXCEPT ![t] = TRUE]
  /\ timedOut' = [timedOut EXCEPT ![t] = Succeeds(t)]
  /\ asked' = [asked EXCEPT ![t] = @ \cup {"time"}]
  /\ Aborts(Cancels(t))
  /\ UNCHANGED <<phase, byCallback, priv, flying, transferred, port,
                 completed, handler, pipe, stream, gone, submits, owed, told>>

(* winusbx_reset_device aborts all pipes of the WinUSB interfaces, also of *)
(* a composite device; HID only flushes what it has read                   *)
ResetDevice ==
  LET S == {u \in Transfers : io[u].state = "pending" /\ ~IsHid(u)}
  IN  /\ S # {} /\ \E u \in S : ~io[u].aborting
      /\ Aborts(S)
      /\ asked' = [u \in Transfers |->
                   IF u \in S THEN asked[u] \cup {"cancel"} ELSE asked[u]]
  /\ UNCHANGED <<phase, byCallback, priv, flags, transferred, port, completed,
                 handler, pipe, stream, gone, submits, owed, told>>

Init ==
  /\ phase = [t \in Transfers |-> "idle"]
  /\ io = [t \in Transfers |-> NoIo]
  /\ \E none \in {[t \in Transfers |-> FALSE]} :
       /\ byCallback = none /\ listed = none /\ file = none /\ buffer = none
       /\ flying = none /\ cancelling = none /\ timedOut = none
       /\ break = none /\ owed = none
  /\ asked = [t \in Transfers |-> {}]
  /\ transferred = [t \in Transfers |-> 0]
  /\ port = <<>> /\ completed = <<>> /\ handler = Free
  /\ zlp = [p \in Pipes |-> "unset"] /\ policy = [p \in Pipes |-> FALSE]
  /\ callback = [t \in Transfers |-> "user"]
  /\ saved = [t \in Transfers |-> "none"]
  /\ told = [t \in Transfers |-> "none"]
  /\ gone = 0 /\ submits = 0

Next ==
  \/ \E t \in Transfers :
       \/ Submit(t) \/ Start(t) \/ StartDone(t) \/ StartIso(t)
       \/ Submitted(t) \/ SubmitFails(t)
       \/ Complete(t)
       \/ Cancel(t) \/ Expire(t)
  \/ windows_iocp_thread
  \/ windows_handle_transfer_completion \/ Clear \/ Callback \/ Resubmit
  \/ ResetDevice \/ Pull

Spec == Init /\ [][Next]_vars
-----------------------------------------------------------------------------
(***************************************************************************)
(* owed: the application has submitted the transfer and not heard of it.   *)
(* While that is so somebody still has it: it is being submitted, its I/O  *)
(* is under way and on the list the completion thread searches, its packet *)
(* is on the port, or the event thread has it or will.  Nothing else is on *)
(* the list, and no transfer is in two of these places.                    *)
(***************************************************************************)
Places(t) ==
  Len(SelectSeq(port \o completed, LAMBDA u : u = t))
  + (IF io[t].state = "pending" THEN 1 ELSE 0)
  + (IF handler.doing \in {"clear", "complete"} /\ handler.t = t THEN 1 ELSE 0)

CallbackIsOwed ==
  \A t \in Transfers :
    /\ Places(t) <= 1
    /\ owed[t] => \/ Places(t) = 1 \/ phase[t] = "added"
                  \/ handler.doing = "callback" /\ handler.t = t
    /\ listed[t] <=> \/ phase[t] = "added" \/ io[t].state = "pending"
                     \/ Contains(port, t)

(***************************************************************************)
(* The driver works on memory and on a file that are still there: a HID or *)
(* isochronous request keeps its buffer, and every request its file, until *)
(* it has ended (the isochronous one from the end of its submission).      *)
(***************************************************************************)
BufferIsKept ==
  \A t \in Transfers :
    io[t].state = "pending" =>
      file[t] /\ (IsHid(t) \/ (IsIso(t) /\ Unlocked(t)) => buffer[t])

(***************************************************************************)
(* When the application hears of a transfer, its buffer has been given     *)
(* back: the memory of a HID report, the registration of an isochronous    *)
(* buffer.                                                                 *)
(***************************************************************************)
BufferIsReturned ==
  \A t \in Transfers : ~owed[t] /\ Unlocked(t) => ~buffer[t]

(***************************************************************************)
(* What the application is told is what happened: a transfer is reported   *)
(* cancelled only if it or its pipe was asked to end, timed out only if    *)
(* its time was up or the driver said so, and otherwise what the driver    *)
(* said of it.                                                             *)
(***************************************************************************)
StatusIsTrue ==
  \A t \in Transfers :
    LET r == io[t].result
    IN  /\ told[t] = "cancelled" => "cancel" \in asked[t] /\ r = "aborted"
        /\ told[t] = "timed_out" => r = "semaphore" \/ "time" \in asked[t]
        /\ told[t] = "completed" => r = "ok"
        /\ told[t] = "no_device" => r = "removed" /\ gone = 1
        /\ told[t] = "overflow" => io[t].bytes > Length

(***************************************************************************)
(* The application is told of all the data, also of a transfer that was    *)
(* cut short, and never of more than it asked for.                         *)
(***************************************************************************)
Data(t) == IF IsHid(t) /\ What[t].prefix /\ io[t].bytes > 0
           THEN io[t].bytes - 1 ELSE io[t].bytes
Lesser(a, b) == IF a < b THEN a ELSE b
DataIsCounted ==
  \A t \in Transfers :
    told[t] \notin {"none"} => transferred[t] = Lesser(Data(t), Length)

(***************************************************************************)
(* A write runs with the zero packet its flag asks for, and without one if *)
(* it does not, whatever other writes of that pipe have asked for.         *)
(***************************************************************************)
ZeroIsAsked ==
  \A t \in Transfers :
    io[t].state = "pending" /\ What[t].kind = "out" /\ ~IsHid(t)
      => policy[What[t].pipe] = What[t].zero

(***************************************************************************)
(* When the application has its transfer back, its callback is its own.    *)
(***************************************************************************)
CallbackIsItsOwn ==
  \A t \in Transfers : ~owed[t] /\ Unlocked(t) => callback[t] = "user"

(***************************************************************************)
(* What is asked to end is not begun again.                                *)
(***************************************************************************)
AskedIsNotStarted ==
  [][\A t \in Transfers : asked[t] # {} /\ owed[t] /\ phase[t] = "added"
                          => io'[t].state # "pending"]_vars
=============================================================================
