------------------------------ MODULE UsbPaths ------------------------------
(***************************************************************************)
(* The table of presented paths, core.go.  Clients never see a USB path:   *)
(* every bus listing goes through saveUsbPaths, which gives each new USB   *)
(* path the next number, keeps the number of a USB path that is still      *)
(* listed and forgets the numbers of the USB paths that are not.  The      *)
(* numbers are what /enumerate returns and what /acquire takes.            *)
(*                                                                         *)
(* A presented path is the decimal text of its number; this module keeps   *)
(* the number, and Core the texts clients send for it.  A listing is a     *)
(* set: LibUSB.Enumerate drops duplicates and the order of a listing only  *)
(* decides which new path gets which of the next numbers, a free choice    *)
(* of the bijection below.                                                 *)
(***************************************************************************)
EXTENDS Naturals, FiniteSets, Functions

CONSTANT Ports                    \* the USB (or emulator) paths of the buses

ASSUME PortsAssumption == IsFiniteSet(Ports)

VARIABLES usbPaths,               \* Core.usbPaths: number -> USB path
          biggestID,              \* Core.biggestID: the last number given
          lastInfos               \* Core.lastInfos: the numbers last listed

pathVars == <<usbPaths, biggestID, lastInfos>>

PathsInit ==
  /\ usbPaths = << >>
  /\ biggestID = 0
  /\ lastInfos = {}

\* the slip of adding every listed path, known or not
FreshKnownToo(devs) == devs

\* the listed USB paths that have no number yet
Fresh(devs) == devs \ Range(usbPaths)

\* the slip of numbering from biggestID instead of from biggestID + 1
NumberingsOffByOne(devs) ==
  LET fresh == Fresh(devs)
  IN  Bijection({biggestID + i - 1 : i \in 1 .. Cardinality(fresh)}, fresh)

\* ways to hand the next numbers to the fresh paths, one each
Numberings(devs) ==
  LET fresh == Fresh(devs)
  IN  Bijection(biggestID + 1 .. biggestID + Cardinality(fresh), fresh)

\* the table with the new numbers added (first loop of saveUsbPaths)
Extended(new) ==
  [id \in DOMAIN usbPaths \cup DOMAIN new |->
     IF id \in DOMAIN new THEN new[id] ELSE usbPaths[id]]

\* the table without the numbers of the paths not listed (second loop)
Listed(table, devs) == Restrict(table, {id \in DOMAIN table : table[id] \in devs})

\* the slip of counting on from the largest number left in the table
SaveUsbPathsRecounting(devs) ==
  \E new \in Numberings(devs) :
    /\ usbPaths' = Listed(Extended(new), devs)
    /\ biggestID' \in {0} \cup DOMAIN usbPaths'
    /\ \A id \in DOMAIN usbPaths' : id <= biggestID'
    /\ lastInfos' = DOMAIN usbPaths'

(***************************************************************************)
(* saveUsbPaths, with the assignment of its result to lastInfos in         *)
(* Enumerate.  The result names each listed path by its number.            *)
(***************************************************************************)
SaveUsbPaths(devs) ==
  \E new \in Numberings(devs) :
    /\ usbPaths' = Listed(Extended(new), devs)
    /\ biggestID' = biggestID + Cardinality(Fresh(devs))
    /\ lastInfos' = DOMAIN usbPaths'

PathsTypeOK ==
  /\ biggestID \in Nat
  /\ lastInfos \subseteq 1 .. biggestID
  /\ \E S \in SUBSET (1 .. biggestID) : usbPaths \in [S -> Ports]
=============================================================================
