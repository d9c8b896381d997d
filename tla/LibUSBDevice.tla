---------------------------- MODULE LibUSBDevice ----------------------------
(***************************************************************************)
(* usb/libusb.go, LibUSBDevice: transfers and Close on a device handle,    *)
(* with the table of running transfers that sync.c adds to libusb so that  *)
(* Close can cancel a transfer that has no timeout.                        *)
(*                                                                         *)
(* Core lets at most one request read from a handle and one write to it    *)
(* (Core: OneCallPerSession, writeMutex), so a handle has three processes: *)
(* its reader, its writer and Close.  Close reads too, when it drains the  *)
(* read queue.  A process has at most one transfer, an object that is      *)
(* reused when it is allocated again; so is a handle.                      *)
(***************************************************************************)
EXTENDS Naturals, FiniteSets

CONSTANTS Handles,                \* device handles
          Slots,                  \* MAX_SAVED_TRANSFERS
          None                    \* NULL, and no holder of a mutex

Roles == {"read", "write", "close"}
Procs == Handles \X Roles

ASSUME DeviceAssumption ==
  /\ IsFiniteSet(Handles)
  /\ Slots \in Nat
  /\ None \notin Procs

VARIABLES closed,                 \* d.closed
          freed,                  \* the handle was closed in libusb
          mutex,                  \* read and write mutex of each handle
          running,                \* sync.c: running_transfers
          transfer,               \* the transfer of a process
          target,                 \* the transfer Close is about to cancel
          pc                      \* where a process is

vars == <<closed, freed, mutex, running, transfer, target, pc>>

Users == {"read", "write"}

\* the endpoint a process transfers on
Endpoint(p) == IF p[2] = "write" THEN "out" ELSE "in"

PCs == {"idle", "lock", "submit", "save", "wait", "remove", "free",
        "cancelGet", "cancel", "release"}

TypeOK ==
  /\ closed \in [Handles -> BOOLEAN]
  /\ freed \in [Handles -> BOOLEAN]
  /\ mutex \in [Handles -> [{"in", "out"} -> Procs \cup {None}]]
  /\ running \in [1 .. Slots -> Procs \cup {None}]
  /\ transfer \in [Procs -> {"none", "pending", "ended"}]
  /\ target \in [Handles -> Procs \cup {None}]
  /\ pc \in [Procs -> PCs]

Init ==
  /\ closed = [h \in Handles |-> FALSE]
  /\ freed = [h \in Handles |-> FALSE]
  /\ mutex = [h \in Handles |-> [e \in {"in", "out"} |-> None]]
  /\ running = [i \in 1 .. Slots |-> None]
  /\ transfer = [p \in Procs |-> "none"]
  /\ target = [h \in Handles |-> None]
  /\ pc = [p \in Procs |-> "idle"]
-----------------------------------------------------------------------------
Goto(p, from, to) ==
  /\ pc[p] = from
  /\ pc' = [pc EXCEPT ![p] = to]

Lock(p) == mutex' = [mutex EXCEPT ![p[1]][Endpoint(p)] = p]
Unlock(p) == mutex' = [mutex EXCEPT ![p[1]][Endpoint(p)] = None]

First(S) == CHOOSE i \in S : \A j \in S : i <= j

EmptySlots == {i \in 1 .. Slots : running[i] = None}
SlotsOf(h) == {i \in 1 .. Slots : running[i] # None /\ running[i][1] = h}

\* take out the first entry of the handle, whichever transfer it is for
RemoveEntry(h) ==
  running' = IF SlotsOf(h) = {} THEN running
             ELSE [running EXCEPT ![First(SlotsOf(h))] = None]
-----------------------------------------------------------------------------
\* a new handle takes the place of one nobody uses any more
Open(h) ==
  /\ freed[h]
  /\ \A role \in Roles : pc[<<h, role>>] = "idle"
  /\ closed' = [closed EXCEPT ![h] = FALSE]
  /\ freed' = [freed EXCEPT ![h] = FALSE]
  /\ UNCHANGED <<mutex, running, transfer, target, pc>>

\* readWrite: a closed handle is refused
Check(p) ==
  /\ p[2] \in Users
  /\ ~closed[p[1]]
  /\ Goto(p, "idle", "lock")
  /\ UNCHANGED <<closed, freed, mutex, running, transfer, target>>

\* the mutex of the endpoint; Close takes the one of the read queue
LockEndpoint(p) ==
  /\ mutex[p[1]][Endpoint(p)] = None
  /\ Goto(p, "lock", "submit")
  /\ Lock(p)
  /\ UNCHANGED <<closed, freed, running, transfer, target>>

\* Interrupt_Transfer: the transfer is allocated and submitted
Submit(p) ==
  /\ ~freed[p[1]]
  /\ Goto(p, "submit", "save")
  /\ transfer' = [transfer EXCEPT ![p] = "pending"]
  /\ UNCHANGED <<closed, freed, mutex, running, target>>

\* the slip of draining again after the error that ends the drain
FailedRetry(p) ==
  /\ pc' = [pc EXCEPT ![p] = IF p[2] = "close" THEN "submit" ELSE "idle"]
  /\ IF p[2] = "close" THEN UNCHANGED mutex ELSE Unlock(p)

\* the end of an interrupt transfer for its caller: readWrite returns, and
\* finishReadQueue goes on until the first error
Failed(p) ==
  /\ pc' = [pc EXCEPT ![p] = IF p[2] = "close" THEN "release" ELSE "idle"]
  /\ Unlock(p)

Succeeded(p) ==
  /\ pc' = [pc EXCEPT ![p] = IF p[2] = "close" THEN "submit" ELSE "idle"]
  /\ IF p[2] = "close" THEN UNCHANGED mutex ELSE Unlock(p)

SubmitError(p) ==
  /\ pc[p] = "submit"
  /\ Failed(p)
  /\ UNCHANGED <<closed, freed, running, transfer, target>>

\* save_running_transfer: with a full table the transfer is not saved
Save(p) ==
  /\ Goto(p, "save", "wait")
  /\ running' = IF EmptySlots = {} THEN running
                ELSE [running EXCEPT ![First(EmptySlots)] = p]
  /\ UNCHANGED <<closed, freed, mutex, transfer, target>>

\* the device answers, an error ends the transfer, or its time is over
Complete(p) ==
  /\ transfer[p] = "pending"
  /\ transfer' = [transfer EXCEPT ![p] = "ended"]
  /\ UNCHANGED <<closed, freed, mutex, running, target, pc>>

\* the slip of a return that leaves the entry in the table
WakeUnremoved(p) ==
  /\ transfer[p] = "ended"
  /\ Goto(p, "wait", "free")
  /\ UNCHANGED <<closed, freed, mutex, running, transfer, target>>

Wake(p) ==
  /\ transfer[p] = "ended"
  /\ Goto(p, "wait", "remove")
  /\ UNCHANGED <<closed, freed, mutex, running, transfer, target>>

\* get_and_remove_running_transfer after the wait
Remove(p) ==
  /\ Goto(p, "remove", "free")
  /\ RemoveEntry(p[1])
  /\ UNCHANGED <<closed, freed, mutex, transfer, target>>

\* libusb_free_transfer, and back in the caller with data or an error
Free(p) ==
  /\ pc[p] = "free"
  /\ transfer' = [transfer EXCEPT ![p] = "none"]
  /\ Failed(p) \/ Succeeded(p)
  /\ UNCHANGED <<closed, freed, running, target>>

\* Close: from here on readWrite refuses
CloseStart(h) ==
  /\ ~freed[h]
  /\ Goto(<<h, "close">>, "idle", "cancelGet")
  /\ closed' = [closed EXCEPT ![h] = TRUE]
  /\ UNCHANGED <<freed, mutex, running, transfer, target>>

\* the slip of handing back the handle of the entry instead of its transfer
CancelGetHandle(h) ==
  /\ Goto(<<h, "close">>, "cancelGet", "cancel")
  /\ target' = [target EXCEPT ![h] = IF SlotsOf(h) = {} THEN None ELSE h]
  /\ RemoveEntry(h)
  /\ UNCHANGED <<closed, freed, mutex, transfer>>

\* Cancel_Sync_Transfers_On_Device: take an entry of the handle ...
CancelGet(h) ==
  /\ Goto(<<h, "close">>, "cancelGet", "cancel")
  /\ target' = [target EXCEPT ![h] =
                  IF SlotsOf(h) = {} THEN None ELSE running[First(SlotsOf(h))]]
  /\ RemoveEntry(h)
  /\ UNCHANGED <<closed, freed, mutex, transfer>>

\* the slip of a finishReadQueue that does not take the read mutex
CancelUnlocked(h) ==
  /\ \E next \in {"submit", "release"} : Goto(<<h, "close">>, "cancel", next)
  /\ target' = [target EXCEPT ![h] = None]
  /\ UNCHANGED <<closed, freed, mutex, running, transfer>>

\* ... and cancel its transfer; the read queue of a device that is known to
\* be gone is not drained
Cancel(h) ==
  /\ \E next \in {"lock", "release"} : Goto(<<h, "close">>, "cancel", next)
  /\ transfer' = [p \in Procs |-> IF p = target[h] /\ transfer[p] = "pending"
                                  THEN "ended" ELSE transfer[p]]
  /\ target' = [target EXCEPT ![h] = None]
  /\ UNCHANGED <<closed, freed, mutex, running>>

\* the interface is released and the handle closed
Release(h) ==
  /\ Goto(<<h, "close">>, "release", "idle")
  /\ freed' = [freed EXCEPT ![h] = TRUE]
  /\ UNCHANGED <<closed, mutex, running, transfer, target>>

Transferring(p) ==
  LockEndpoint(p) \/ Submit(p) \/ SubmitError(p) \/ Save(p) \/ Wake(p) \/ Remove(p) \/ Free(p)

Closing(h) == CancelGet(h) \/ Cancel(h) \/ Release(h)

Next ==
  \/ \E p \in Procs : Check(p) \/ Transferring(p) \/ Complete(p)
  \/ \E h \in Handles : Open(h) \/ CloseStart(h) \/ Closing(h)

Spec == Init /\ [][Next]_vars

(***************************************************************************)
(* A device that answers: every transfer ends, and a device that is being  *)
(* drained falls silent, so that a drain transfer fails by timeout.  Go    *)
(* hands a mutex to a goroutine that waits for it.                         *)
(***************************************************************************)
Answering ==
  /\ \A p \in Procs :
       /\ WF_vars(Transferring(p)) /\ SF_vars(LockEndpoint(p))
       /\ WF_vars(Complete(p))
  /\ \A h \in Handles :
       /\ WF_vars(Closing(h))
       /\ SF_vars(pc[<<h, "close">>] = "free" /\ Free(<<h, "close">>)
                    /\ Failed(<<h, "close">>))

AnsweringSpec == Spec /\ Answering

\* a device that says nothing: only the drain, which has a timeout, goes on
Silent ==
  /\ \A p \in Procs :
       /\ WF_vars(Transferring(p)) /\ SF_vars(LockEndpoint(p))
       /\ p[2] = "close" => WF_vars(Complete(p))
  /\ \A h \in Handles :
       /\ WF_vars(Closing(h))
       /\ SF_vars(pc[<<h, "close">>] = "free" /\ Free(<<h, "close">>)
                    /\ Failed(<<h, "close">>))

SilentSpec == Spec /\ Silent
-----------------------------------------------------------------------------
(***************************************************************************)
(* libusb.go: "two interrupt_transfers should not happen at the same time  *)
(* on the same endpoint", the drain of Close included.                     *)
(***************************************************************************)
OneTransferPerEndpoint ==
  \A p, q \in Procs :
    (/\ transfer[p] # "none" /\ transfer[q] # "none"
     /\ p[1] = q[1] /\ Endpoint(p) = Endpoint(q)) => p = q

(***************************************************************************)
(* No slot of the table leaks.  An entry may outlive its own transfer (the *)
(* end of a transfer takes out the first entry of the handle, perhaps the  *)
(* one of the other direction), but a handle never has more entries than   *)
(* transfers that wait, so none is left when the last transfer ends.       *)
(***************************************************************************)
NoSlotLeak ==
  \A h \in Handles :
    Cardinality(SlotsOf(h)) <=
      Cardinality({p \in {h} \X Roles : pc[p] \in {"wait", "remove"}})

(***************************************************************************)
(* With a device that answers, Close ends.                                 *)
(***************************************************************************)
CloseEnds ==
  \A h \in Handles : pc[<<h, "close">>] # "idle" ~> pc[<<h, "close">>] = "idle"
-----------------------------------------------------------------------------
(***************************************************************************)
(* libusb.go, readWrite: "This has no timeout, but is stopped by           *)
(* Cancel_Sync_Transfers_On_Device".  A read or write that waits for the   *)
(* device is in the table, where Close would find it.  Not what the code   *)
(* does: when a write ends while a read waits, the first entry of the      *)
(* handle is taken out, and it is the one of the read.                     *)
(***************************************************************************)
WaitingIsCancellable ==
  \A p \in Procs :
    (/\ p[2] \in Users /\ ~closed[p[1]]
     /\ pc[p] = "wait" /\ transfer[p] = "pending")
      => \E i \in 1 .. Slots : running[i] = p

(***************************************************************************)
(* libusb.go:444, Close: 'this "unblocks" Interrupt_Transfer in            *)
(* readWrite'.  With nobody writing, a read that is on its way when its    *)
(* handle is closed ends, even if the device stays silent.  Not what the   *)
(* code does: Close may come between the test of d.closed, or the          *)
(* submission, and the save in the table; it finds nothing to cancel.      *)
(***************************************************************************)
CloseUnblocks ==
  \A h \in Handles :
    [](pc[<<h, "write">>] = "idle")
      => (closed[h] /\ pc[<<h, "read">>] # "idle" ~> pc[<<h, "read">>] = "idle")
=============================================================================
