------------------------------ MODULE LibUSBBus ------------------------------
(***************************************************************************)
(* usb/libusb.go, LibUSB, below the sessions of core/core.go, on Linux:    *)
(* which device a path stands for, and what connecting and closing do to   *)
(* the device: its interface claims and the kernel drivers that are        *)
(* detached for them.                                                      *)
(*                                                                         *)
(* An acquire holds libusbMutex, so there is one at a time; the release of *)
(* a session holds nothing, so the handle of a released session may be     *)
(* closed, step by step, while the next one connects.                      *)
(***************************************************************************)
EXTENDS Naturals, Sequences, FiniteSets, SequencesExt

CONSTANTS Devices,                \* devices, a sequence: the order of libusb's list
          PortsOf(_),             \* their port numbers, without the bus number
          HasDriver,              \* the interfaces the kernel has a driver for
          Interfaces,             \* the interfaces clients use: 0, 1 (debug)
          Foreign,                \* whether another program claims interfaces
          Releases,               \* whether clients release (they may only steal)
          MaxTries,               \* tryConnect: failures that are retried
          MaxHandles              \* bound: handles ever opened

BusAssumption ==
  /\ Devices \in Seq(ToSet(Devices)) /\ Devices # << >>
  /\ Interfaces \subseteq {0, 1} /\ HasDriver \subseteq {0, 1}
  /\ Foreign \in BOOLEAN /\ Releases \in BOOLEAN
  /\ MaxTries \in Nat /\ MaxHandles \in Nat

Paths == {PortsOf(d) : d \in ToSet(Devices)}
Handles == 1 .. MaxHandles
OtherProgram == MaxHandles + 1

VARIABLES attached,               \* the devices that are there
          driver,                 \* the interfaces a kernel driver is bound to
          claim,                  \* the handle that claims an interface, or 0
          shown,                  \* the device the last listing presented a path for
          table,                  \* Core: the session of a path and interface, or 0
          handle,                 \* the handles opened, in order
          acq                     \* the acquire in progress

deviceVars == <<attached, driver, claim>>
vars == <<deviceVars, shown, table, handle, acq>>

States == {"opening", "open", "release", "attach", "close", "closed"}
NoAcquire == [pc |-> "idle", path |-> CHOOSE p \in Paths : TRUE, iface |-> 0,
              reset |-> FALSE, tries |-> 0, left |-> {}, prev |-> 0]

TypeOK ==
  /\ attached \subseteq ToSet(Devices)
  /\ driver \in [ToSet(Devices) -> SUBSET {0, 1}]
  /\ claim \in [ToSet(Devices) -> [{0, 1} -> 0 .. OtherProgram]]
  /\ DOMAIN shown \subseteq Paths
  /\ table \in [Paths -> [{0, 1} -> 0 .. Len(handle)]]
  /\ handle \in Seq([dev : ToSet(Devices), iface : {0, 1}, state : States,
                     attach : BOOLEAN, gone : BOOLEAN])
  /\ Len(handle) <= MaxHandles
  /\ acq \in [pc : {"idle", "steal", "prepare", "list", "open", "reset", "detach", "claim"},
              path : Paths, iface : {0, 1}, reset : BOOLEAN,
              tries : 0 .. MaxTries, left : SUBSET DOMAIN Devices, prev : 0 .. MaxHandles]

Init ==
  /\ attached = {}
  /\ driver = [d \in ToSet(Devices) |-> {}]
  /\ claim = [d \in ToSet(Devices) |-> [i \in {0, 1} |-> 0]]
  /\ shown = << >>
  /\ table = [p \in Paths |-> [i \in {0, 1} |-> 0]]
  /\ handle = << >>
  /\ acq = NoAcquire
-----------------------------------------------------------------------------
Plug(d) ==
  /\ d \notin attached
  /\ attached' = attached \cup {d}
  /\ driver' = [driver EXCEPT ![d] = HasDriver]
  /\ UNCHANGED <<claim, shown, table, handle, acq>>

Unplug(d) ==
  /\ d \in attached
  /\ attached' = attached \ {d}
  /\ driver' = [driver EXCEPT ![d] = {}]
  /\ claim' = [claim EXCEPT ![d] = [i \in {0, 1} |-> 0]]
  /\ handle' = [h \in DOMAIN handle |->
                  [handle[h] EXCEPT !.gone = @ \/ handle[h].dev = d]]
  /\ UNCHANGED <<shown, table, acq>>

\* another program has the interface for a while
OtherClaims(d, i) ==
  /\ Foreign
  /\ d \in attached /\ i \notin driver[d]
  /\ \/ claim[d][i] = 0 /\ claim' = [claim EXCEPT ![d][i] = OtherProgram]
     \/ claim[d][i] = OtherProgram /\ claim' = [claim EXCEPT ![d][i] = 0]
  /\ UNCHANGED <<attached, driver, shown, table, handle, acq>>
-----------------------------------------------------------------------------
(* LibUSBDevice.Close                                                      *)

Ending(h) == [handle EXCEPT ![h].state = "release"]

At(h, state, next) ==
  /\ handle[h].state = state
  /\ handle' = [handle EXCEPT ![h].state = next]
  /\ UNCHANGED <<attached, shown, table, acq>>

Unclaimed(h) ==
  [claim EXCEPT ![handle[h].dev] = [i \in {0, 1} |-> IF @[i] = h THEN 0 ELSE @[i]]]

ReleaseInterface(h) ==
  /\ At(h, "release", "attach")
  /\ claim' = Unclaimed(h)
  /\ UNCHANGED driver

\* errors are logged: the device is gone, or somebody claims the interface
AttachDriver(h) ==
  LET d == handle[h].dev
      i == handle[h].iface
  IN  /\ At(h, "attach", "close")
      /\ driver' = IF handle[h].attach /\ ~handle[h].gone /\ claim[d][i] = 0
                   THEN [driver EXCEPT ![d] = @ \cup {i}] ELSE driver
      /\ UNCHANGED claim

CloseHandle(h) ==
  /\ At(h, "close", "closed")
  /\ claim' = Unclaimed(h)
  /\ UNCHANGED driver
-----------------------------------------------------------------------------
(* Enumerate.  Of the devices with equal port numbers the first is listed; *)
(* Core releases the sessions whose path is not listed any more.           *)

\* the places of the list with a device of the path, and the first of some places
Matching(path) ==
  {n \in DOMAIN Devices : Devices[n] \in attached /\ PortsOf(Devices[n]) = path}

Foremost(places) == CHOOSE n \in places : \A m \in places : n <= m

Enumerate ==
  /\ acq.pc = "idle"
  /\ LET listed == {p \in Paths : Matching(p) # {}}
         lost == {h \in DOMAIN handle :
                    \E p \in Paths \ listed, i \in {0, 1} : table[p][i] = h}
     IN  /\ shown' = [p \in listed |-> Devices[Foremost(Matching(p))]]
         /\ table' = [p \in Paths |-> IF p \in listed THEN table[p]
                                      ELSE [i \in {0, 1} |-> 0]]
         /\ handle' = [h \in DOMAIN handle |->
                         IF h \in lost THEN [handle[h] EXCEPT !.state = "release"]
                         ELSE handle[h]]
  /\ UNCHANGED <<deviceVars, acq>>

\* the session is looked up and deleted in one step, so nobody releases it
\* again; Core has the two steps, and releases that race
Release(p, i) ==
  /\ Releases
  /\ table[p][i] # 0
  /\ table' = [table EXCEPT ![p][i] = 0]
  /\ handle' = Ending(table[p][i])
  /\ UNCHANGED <<deviceVars, shown, acq>>
-----------------------------------------------------------------------------
(* Acquire and Connect                                                     *)

Acquire(p, i) ==
  /\ acq.pc = "idle"
  /\ p \in DOMAIN shown
  /\ IF table[p][i] # 0
     THEN /\ table' = [table EXCEPT ![p][i] = 0]
          /\ handle' = Ending(table[p][i])
          /\ acq' = [NoAcquire EXCEPT !.pc = "steal", !.path = p, !.iface = i,
                                      !.prev = table[p][i]]
     ELSE /\ acq' = [NoAcquire EXCEPT !.pc = "prepare", !.path = p, !.iface = i]
          /\ UNCHANGED <<table, handle>>
  /\ UNCHANGED <<deviceVars, shown>>

\* the slip of going on before the handle of the previous session is closed
StolenEarly ==
  /\ acq.pc = "steal"
  /\ acq' = [acq EXCEPT !.pc = "prepare"]
  /\ UNCHANGED <<deviceVars, shown, table, handle>>

\* release returns once the handle of the previous session is closed
Stolen ==
  /\ acq.pc = "steal"
  /\ handle[acq.prev].state = "closed"
  /\ acq' = [acq EXCEPT !.pc = "prepare"]
  /\ UNCHANGED <<deviceVars, shown, table, handle>>

\* reset only if the other interface of the path has no session; clients send
\* the text of the path as it was listed (Core has the others)
Prepare ==
  /\ acq.pc = "prepare"
  /\ acq' = [acq EXCEPT !.pc = "list", !.reset = table[acq.path][1 - acq.iface] = 0]
  /\ UNCHANGED <<deviceVars, shown, table, handle>>

\* the slip of not comparing the path
ListDevicesAll ==
  /\ acq.pc = "list"
  /\ acq' = [acq EXCEPT !.pc = "open",
                        !.left = {n \in DOMAIN Devices : Devices[n] \in attached}]
  /\ UNCHANGED <<deviceVars, shown, table, handle>>

\* every matching device of the list is a candidate
ListDevices ==
  /\ acq.pc = "list"
  /\ acq' = [acq EXCEPT !.pc = "open", !.left = Matching(acq.path)]
  /\ UNCHANGED <<deviceVars, shown, table, handle>>

\* the candidate of the attempt, and the candidates after it
Candidate == Devices[Foremost(acq.left)]
Rest == acq.left \ {Foremost(acq.left)}

\* open the next candidate; with none left the attempt has failed
Open ==
  /\ acq.pc = "open"
  /\ IF acq.left = {}
     THEN /\ acq' = IF acq.tries < MaxTries
                    THEN [acq EXCEPT !.pc = "list", !.tries = @ + 1] ELSE NoAcquire
          /\ UNCHANGED handle
     ELSE \/ /\ Candidate \in attached /\ Len(handle) < MaxHandles
             /\ handle' = Append(handle,
                  [dev |-> Candidate, iface |-> acq.iface, state |-> "opening",
                   attach |-> FALSE, gone |-> FALSE])
             /\ acq' = [acq EXCEPT !.pc = "reset"]
          \/ /\ Candidate \notin attached \/ Len(handle) = MaxHandles
             /\ acq' = [acq EXCEPT !.left = Rest]
             /\ UNCHANGED handle
  /\ UNCHANGED <<deviceVars, shown, table>>

New == Len(handle)
NewDev == handle[New].dev

\* a reset ends every claim, and drivers are bound to the interfaces it frees;
\* its error is logged
ResetDevice ==
  /\ acq.pc = "reset"
  /\ IF acq.reset /\ ~handle[New].gone
     THEN /\ claim' = [claim EXCEPT ![NewDev] = [i \in {0, 1} |-> 0]]
          /\ driver' = [driver EXCEPT ![NewDev] =
                          @ \cup {i \in HasDriver : claim[NewDev][i] # 0}]
     ELSE UNCHANGED <<claim, driver>>
  /\ acq' = [acq EXCEPT !.pc = "detach"]
  /\ UNCHANGED <<attached, shown, table, handle>>

\* the next candidate, after an error; the handle is closed first
NextCandidate ==
  /\ handle' = [handle EXCEPT ![New].state = "closed"]
  /\ acq' = [acq EXCEPT !.pc = "open", !.left = Rest]

\* Kernel_Driver_Active and Detach_Kernel_Driver
Detach ==
  /\ acq.pc = "detach"
  /\ IF handle[New].gone
     THEN NextCandidate /\ UNCHANGED driver
     ELSE /\ handle' = [handle EXCEPT ![New].attach = acq.iface \in driver[NewDev]]
          /\ driver' = [driver EXCEPT ![NewDev] = @ \ {acq.iface}]
          /\ acq' = [acq EXCEPT !.pc = "claim"]
  /\ UNCHANGED <<attached, claim, shown, table>>

\* Claim_Interface, and the session is stored
Claim ==
  /\ acq.pc = "claim"
  /\ IF handle[New].gone \/ acq.iface \in driver[NewDev] \/ claim[NewDev][acq.iface] # 0
     THEN NextCandidate /\ UNCHANGED <<claim, table>>
     ELSE /\ claim' = [claim EXCEPT ![NewDev][acq.iface] = New]
          /\ handle' = [handle EXCEPT ![New].state = "open"]
          /\ table' = [table EXCEPT ![acq.path][acq.iface] = New]
          /\ acq' = NoAcquire
  /\ UNCHANGED <<attached, driver, shown>>
-----------------------------------------------------------------------------
Connecting == Stolen \/ Prepare \/ ListDevices \/ Open \/ ResetDevice \/ Detach \/ Claim
Closing(h) == ReleaseInterface(h) \/ AttachDriver(h) \/ CloseHandle(h)

Next ==
  \/ \E d \in ToSet(Devices) :
       Plug(d) \/ Unplug(d) \/ \E i \in {0, 1} : OtherClaims(d, i)
  \/ Enumerate
  \/ \E p \in Paths, i \in Interfaces : Acquire(p, i) \/ Release(p, i)
  \/ Connecting
  \/ \E h \in DOMAIN handle : Closing(h)

Spec == Init /\ [][Next]_vars
-----------------------------------------------------------------------------
(***************************************************************************)
(* A session can transfer: the handle of a session in the table claims its *)
(* interface, as long as the device stays plugged in.  In particular the   *)
(* reset of a later acquire has not taken the claim away.                  *)
(***************************************************************************)
Session(h) == \E p \in Paths, i \in {0, 1} : table[p][i] = h

SessionHoldsClaim ==
  \A h \in DOMAIN handle :
    Session(h) /\ ~handle[h].gone => claim[handle[h].dev][handle[h].iface] = h

(***************************************************************************)
(* No attempt to connect leaves a handle behind: an open handle is being   *)
(* connected, has a session, or is being closed.                           *)
(***************************************************************************)
NoHandleLeft ==
  \A h \in DOMAIN handle :
    /\ handle[h].state = "open" => Session(h)
    /\ handle[h].state = "opening" => h = New /\ acq.pc \in {"reset", "detach", "claim"}

(***************************************************************************)
(* libusb.go: "it is just re-attach anyway".  When nobody uses a device,   *)
(* the kernel drivers it came with are bound again.  With releases beside  *)
(* acquires not what the code does: a handle that is being closed has      *)
(* released the interface and not attached the driver yet, so the next one *)
(* finds no driver to detach, claims the interface, the re-attach fails,   *)
(* and nobody tries it again.                                              *)
(***************************************************************************)
DriverRestored ==
  (acq.pc = "idle" /\ \A h \in DOMAIN handle : handle[h].state = "closed") =>
    \A d \in attached : driver[d] = HasDriver

\* h has detached the driver of an interface and will attach it again
WillAttach(h, d, i) ==
  /\ handle[h].dev = d /\ handle[h].iface = i /\ handle[h].attach /\ ~handle[h].gone
  /\ handle[h].state \in {"opening", "open", "release", "attach"}

(***************************************************************************)
(* The same of every step, with releases and other programs: a driver is   *)
(* lost in one way only, to somebody who claims its interface and has not  *)
(* detached it: when a handle attaches it (libusb.go:472) or an attempt to *)
(* claim fails (libusb.go:272).                                            *)
(***************************************************************************)
DriverKept(d, i) == i \in driver[d] \/ \E h \in DOMAIN handle : WillAttach(h, d, i)

DriverLostToClaim ==
  \A d \in attached \cap attached', i \in {0, 1} :
    DriverKept(d, i) /\ ~DriverKept(d, i)' =>
      /\ claim[d][i] # 0
      /\ \A h \in DOMAIN handle : claim[d][i] = h => ~WillAttach(h, d, i)

(***************************************************************************)
(* README: "path uniquely defines device between more connected devices".  *)
(* The session of a path is on the device the path was listed for.  Not    *)
(* what the code does: the path is made of port numbers without the bus,   *)
(* and Connect tries every device that has them.                           *)
(***************************************************************************)
SessionOnShown ==
  \A p \in Paths, i \in {0, 1} :
    (table'[p][i] # 0 /\ table'[p][i] # table[p][i])
      => handle[table'[p][i]].dev = shown[p]
=============================================================================
