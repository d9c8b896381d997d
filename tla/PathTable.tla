----------------------------- MODULE PathTable ------------------------------
(***************************************************************************)
(* What the presented paths promise about devices.  Devices are plugged    *)
(* into ports and unplugged again; a device is a number given at plug-in,  *)
(* so the device that comes back at a port is another one.  An             *)
(* enumeration that reaches the buses (no call in progress, no bus error)  *)
(* renumbers the table; any other enumeration returns lastInfos and        *)
(* changes nothing.  A listing may miss an attached device: a failed       *)
(* descriptor read makes LibUSB.Enumerate skip it and a silent emulator is *)
(* skipped by UDP.Enumerate.                                               *)
(***************************************************************************)
EXTENDS UsbPaths

CONSTANTS MaxDevices,             \* bound: plug-ins
          MaxPaths                \* bound: numbers given

ASSUME BoundsAssumption == MaxDevices \in Nat /\ MaxPaths \in Nat

VARIABLES attached,               \* port -> the device there, 0 if none
          devices,                \* how many devices were plugged in so far
          shown,                  \* every [id, port, dev] a listing showed
          retired                 \* numbers whose path some listing lacked

vars == <<pathVars, attached, devices, shown, retired>>

TypeOK ==
  /\ PathsTypeOK
  /\ devices \in Nat
  /\ attached \in [Ports -> 0 .. devices]
  /\ shown \subseteq [id : 1 .. biggestID, port : Ports, dev : 1 .. devices]
  /\ retired \subseteq 1 .. biggestID

Init ==
  /\ PathsInit
  /\ attached = [p \in Ports |-> 0]
  /\ devices = 0
  /\ shown = {}
  /\ retired = {}

Plug(p) ==
  /\ attached[p] = 0
  /\ devices < MaxDevices
  /\ devices' = devices + 1
  /\ attached' = [attached EXCEPT ![p] = devices + 1]
  /\ UNCHANGED <<pathVars, shown, retired>>

Unplug(p) ==
  /\ attached[p] # 0
  /\ attached' = [attached EXCEPT ![p] = 0]
  /\ UNCHANGED <<pathVars, devices, shown, retired>>

\* an enumeration that reaches the buses and lists devs
Enumerate(devs) ==
  /\ \A p \in devs : attached[p] # 0
  /\ biggestID + Cardinality(Fresh(devs)) <= MaxPaths
  /\ SaveUsbPaths(devs)
  /\ shown' = shown \cup
       {[id |-> id, port |-> usbPaths'[id], dev |-> attached[usbPaths'[id]]] :
          id \in lastInfos'}
  /\ retired' = retired \cup (DOMAIN usbPaths \ DOMAIN usbPaths')
  /\ UNCHANGED <<attached, devices>>

Next ==
  \/ \E p \in Ports : Plug(p) \/ Unplug(p)
  \/ \E devs \in SUBSET Ports : Enumerate(devs)

Spec == Init /\ [][Next]_vars
-----------------------------------------------------------------------------
(***************************************************************************)
(* A presented path names one port for ever: whatever the order of         *)
(* plug-ins and listings, two listings that show the same number show it   *)
(* for the same USB path (saveUsbPaths never hands a number out twice).    *)
(***************************************************************************)
IdNamesOnePort ==
  \A x, y \in shown : x.id = y.id => x.port = y.port

(***************************************************************************)
(* A number whose path was once absent from a listing never comes back,    *)
(* so the client that still holds it gets "device not found" from Acquire  *)
(* instead of the device that took the port.                               *)
(***************************************************************************)
RetiredStaysRetired ==
  /\ retired \cap lastInfos = {}
  /\ retired \cap DOMAIN usbPaths = {}

(***************************************************************************)
(* README, /enumerate: "path uniquely defines device between more          *)
(* connected devices".  The current table is one to one on ports, and a    *)
(* device is never known by two numbers of the current listing.            *)
(***************************************************************************)
PathIsUnique ==
  /\ IsInjective(usbPaths)
  /\ \A x, y \in shown :
       (x.dev = y.dev /\ {x.id, y.id} \subseteq lastInfos) => x.id = y.id

(***************************************************************************)
(* README, /enumerate: "Two different devices (or device connected and     *)
(* disconnected) will return different paths".  Not what the code does: a  *)
(* device replaced at its port between two bus listings keeps its number.  *)
(***************************************************************************)
DifferentDevicesDifferentPaths ==
  \A x, y \in shown : x.id = y.id => x.dev = y.dev
=============================================================================
