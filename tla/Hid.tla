--------------------------------- MODULE Hid ---------------------------------
(***************************************************************************)
(* usb/hidapi.go and usb/lowlevel/hidapi/hid.go: connecting to a Trezor    *)
(* One over hidapi, and the reads, writes and closes of its handles.       *)
(*                                                                         *)
(* A read asks hidapi for 50 ms at a time and lets the mutex of the handle *)
(* go in between, so that a close can come in; hid_close frees the C       *)
(* device, so no call of hidapi may have it then or later.                 *)
(***************************************************************************)
EXTENDS Naturals, FiniteSets

CONSTANTS Threads,                \* goroutines that use handles
          Windows,                \* GOOS = windows: report numbers are prepended
          Newer,                  \* the newer HID firmware (report id 0)
          Quiet,                  \* whether the device may have nothing to say for ever
          MaxHandles              \* bound: handles ever opened

HidAssumption ==
  /\ Windows \in BOOLEAN /\ Newer \in BOOLEAN /\ Quiet \in BOOLEAN
  /\ MaxHandles \in Nat \ {0}

Handles == 1 .. MaxHandles

VARIABLES present,                \* the device is there
          device,                 \* HidDevice.device: "none", "open", "closing", "nil"
          closed,                 \* HID.closed
          mutex,                  \* HID.transferMutex: the threads that hold it
          prepend,                \* HID.prepend; "none": no HID was made of the handle
          conn,                   \* the connect in progress: its step and handle
          thread                  \* [pc, op, h] for each thread

vars == <<present, device, closed, mutex, prepend, conn, thread>>

Steps == {"idle", "check", "lock", "copy", "transfer", "unlock", "store", "close", "again"}
NoThread == [pc |-> "idle", op |-> "read", h |-> 1]

TypeOK ==
  /\ present \in BOOLEAN
  /\ device \in [Handles -> {"none", "open", "closing", "nil"}]
  /\ closed \in [Handles -> BOOLEAN]
  /\ mutex \in [Handles -> {T \in SUBSET Threads : Cardinality(T) <= 1}]
  /\ prepend \in [Handles -> {"none", "yes", "no"}]
  /\ conn \in [pc : {"idle", "open", "newer", "older"}, h : Handles]
  /\ thread \in [Threads -> [pc : Steps, op : {"read", "write", "close"}, h : Handles]]

Init ==
  /\ present \in BOOLEAN
  /\ device = [h \in Handles |-> "none"]
  /\ closed = [h \in Handles |-> FALSE]
  /\ mutex = [h \in Handles |-> {}]
  /\ prepend = [h \in Handles |-> "none"]
  /\ conn = [pc |-> "idle", h |-> 1]
  /\ thread = [t \in Threads |-> NoThread]

PlugOrPull ==
  /\ present' = ~present
  /\ UNCHANGED <<device, closed, mutex, prepend, conn, thread>>
-----------------------------------------------------------------------------
(* Connect.  Acquires come one at a time.                                  *)

Unopened == {h \in Handles : device[h] = "none"}

Connect ==
  /\ conn.pc = "idle" /\ Unopened # {}
  /\ present
  /\ conn' = [pc |-> "open", h |-> CHOOSE h \in Unopened : \A k \in Unopened : h <= k]
  /\ UNCHANGED <<present, device, closed, mutex, prepend, thread>>

OpenPath ==
  /\ conn.pc = "open"
  /\ \/ /\ present
        /\ device' = [device EXCEPT ![conn.h] = "open"]
        /\ conn' = [conn EXCEPT !.pc = "newer"]
     \/ conn' = [conn EXCEPT !.pc = "idle"] /\ UNCHANGED device
  /\ UNCHANGED <<present, closed, mutex, prepend, thread>>

\* what the device takes: Windows wants the report number it knows
Accepted(prepended) ==
  CASE ~Windows                       -> 64
    [] Windows /\ prepended /\ Newer   -> 65
    [] Windows /\ ~prepended /\ ~Newer -> 64
    [] OTHER                          -> 0

\* the bytes hid_write reports; 0 for its failure, which may always come
Written(prepended) == {0} \cup (IF present THEN {Accepted(prepended)} ELSE {})

DetectNewer ==
  /\ conn.pc = "newer"
  /\ \E w \in Written(TRUE) :
       IF w = 65 THEN /\ prepend' = [prepend EXCEPT ![conn.h] = "yes"]
                      /\ conn' = [conn EXCEPT !.pc = "idle"]
       ELSE conn' = [conn EXCEPT !.pc = "older"] /\ UNCHANGED prepend
  /\ UNCHANGED <<present, device, closed, mutex, thread>>

\* when this fails as well, Connect returns the error and leaves the handle open
DetectOlder ==
  /\ conn.pc = "older"
  /\ \E w \in Written(FALSE) :
       prepend' = [prepend EXCEPT ![conn.h] = IF w = 64 THEN "no" ELSE @]
  /\ conn' = [conn EXCEPT !.pc = "idle"]
  /\ UNCHANGED <<present, device, closed, mutex, thread>>
-----------------------------------------------------------------------------
(* Read, Write and Close.  A goroutine may be about to use a handle that   *)
(* another one has closed: nothing in Core keeps it from that.             *)

Begin(t) ==
  /\ thread[t].pc = "idle"
  /\ \E op \in {"read", "write", "close"}, h \in Handles :
       /\ prepend[h] # "none"
       /\ thread' = [thread EXCEPT ![t] =
            [pc |-> IF op = "close" THEN "store" ELSE "check", op |-> op, h |-> h]]
  /\ UNCHANGED <<present, device, closed, mutex, prepend, conn>>

Goto(t, pc) ==
  thread' = [thread EXCEPT ![t] = IF pc = "idle" THEN NoThread ELSE [@ EXCEPT !.pc = pc]]

CheckClosed(t) ==
  /\ thread[t].pc = "check"
  /\ Goto(t, IF closed[thread[t].h] THEN "idle" ELSE "lock")
  /\ UNCHANGED <<present, device, closed, mutex, prepend, conn>>

StoreClosed(t) ==
  /\ thread[t].pc = "store"
  /\ closed' = [closed EXCEPT ![thread[t].h] = TRUE]
  /\ Goto(t, "lock")
  /\ UNCHANGED <<present, device, mutex, prepend, conn>>

Lock(t) ==
  /\ thread[t].pc = "lock"
  /\ mutex[thread[t].h] = {}
  /\ mutex' = [mutex EXCEPT ![thread[t].h] = {t}]
  /\ Goto(t, IF thread[t].op = "close" THEN "close" ELSE "copy")
  /\ UNCHANGED <<present, device, closed, prepend, conn>>

\* the slip of not looking for a closed device
CopyDeviceAny(t) ==
  /\ thread[t].pc = "copy"
  /\ device[thread[t].h] # "closing"
  /\ Goto(t, "transfer")
  /\ UNCHANGED <<present, device, closed, mutex, prepend, conn>>

\* under HidDevice.lock, which Close holds as long as hid_close takes
CopyDevice(t) ==
  /\ thread[t].pc = "copy"
  /\ device[thread[t].h] # "closing"
  /\ Goto(t, IF device[thread[t].h] = "nil" THEN "unlock" ELSE "transfer")
  /\ UNCHANGED <<present, device, closed, mutex, prepend, conn>>

\* hid_write, or hid_read_timeout: a report, an error, or nothing for 50 ms
Transfer(t) ==
  /\ thread[t].pc = "transfer"
  /\ \/ Goto(t, "unlock")
     \/ Quiet /\ present /\ thread[t].op = "read" /\ Goto(t, "again")
  /\ UNCHANGED <<present, device, closed, mutex, prepend, conn>>

\* nothing was read: the mutex is let go and the loop goes on
Again(t) ==
  /\ thread[t].pc = "again"
  /\ mutex' = [mutex EXCEPT ![thread[t].h] = @ \ {t}]
  /\ Goto(t, "check")
  /\ UNCHANGED <<present, device, closed, prepend, conn>>

\* HidDevice.Close: hid_close starts only if the device is not nil
CloseDevice(t) ==
  /\ thread[t].pc = "close"
  /\ LET h == thread[t].h
     IN  CASE device[h] = "open"    -> /\ device' = [device EXCEPT ![h] = "closing"]
                                       /\ UNCHANGED thread
           [] device[h] = "closing" -> /\ device' = [device EXCEPT ![h] = "nil"]
                                       /\ Goto(t, "unlock")
           [] OTHER                 -> Goto(t, "unlock") /\ UNCHANGED device
  /\ UNCHANGED <<present, closed, mutex, prepend, conn>>

Unlock(t) ==
  /\ thread[t].pc = "unlock"
  /\ mutex' = [mutex EXCEPT ![thread[t].h] = @ \ {t}]
  /\ Goto(t, "idle")
  /\ UNCHANGED <<present, device, closed, prepend, conn>>
-----------------------------------------------------------------------------
Work(t) ==
  \/ CheckClosed(t) \/ StoreClosed(t) \/ CopyDevice(t) \/ Transfer(t)
  \/ Again(t) \/ CloseDevice(t) \/ Unlock(t)

Next ==
  \/ PlugOrPull
  \/ Connect \/ OpenPath \/ DetectNewer \/ DetectOlder
  \/ \E t \in Threads : Begin(t) \/ Lock(t) \/ Work(t)

Spec == Init /\ [][Next]_vars
-----------------------------------------------------------------------------
(***************************************************************************)
(* "closing cannot happen while read/write is hapenning"                   *)
(* (usb/hidapi.go:132): the C device a transfer was given is neither being *)
(* closed nor closed while hidapi has it, whoever found HID.closed unset   *)
(* before the close and came to the mutex after it.                        *)
(***************************************************************************)
NoUseAfterClose ==
  \A t \in Threads : thread[t].pc \in {"transfer", "again"} => device[thread[t].h] = "open"

(***************************************************************************)
(* detectPrepend: a handle prepends a report number only on Windows and    *)
(* only to the newer firmware, whatever write of the detection failed.     *)
(***************************************************************************)
PrependIsRight ==
  \A h \in Handles :
    /\ prepend[h] = "yes" => Windows /\ Newer
    /\ prepend[h] = "no" => ~(Windows /\ Newer)

(***************************************************************************)
(* Close: a handle that is closed and nobody is closing any more has given *)
(* its C device back, once; only a failed detection leaves one.            *)
(***************************************************************************)
ClosedIsGivenBack ==
  \A h \in Handles :
    closed[h] /\ (\A t \in Threads : thread[t].h = h => thread[t].op # "close")
      => device[h] = "nil"

(***************************************************************************)
(* No close goes on for ever although a read polls for ever, and no read   *)
(* or write of a closed handle does (the 50 ms of hidTimeout,              *)
(* usb/hidapi.go:25, are for this).                                        *)
(***************************************************************************)
Hanging(t) == thread[t].pc # "idle" /\ closed[thread[t].h]
=============================================================================
