---------------------------- MODULE MCBridgeProof ----------------------------
(***************************************************************************)
(* For every constant the assumptions allow: what the invariants and the   *)
(* action properties of MCBridge say, the validation of messages apart.    *)
(* Paths, messages, the log and Listen are proved here, the two buses in   *)
(* their own modules; the last part takes each from the component's own    *)
(* specification to that of the suite.                                     *)
(*                                                                         *)
(* Paths.  PathIsUnique is not inductive alone: that a device shown under  *)
(* a number of the current table is the device of one port needs           *)
(* DeviceOnePort (a device stays in the port it was plugged into) and      *)
(* ShownFromTable (what was shown under a current number is at the port    *)
(* the table has for it).                                                  *)
(***************************************************************************)
EXTENDS MCBridge, SequenceTheorems, FiniteSetTheorems, TLAPS
-----------------------------------------------------------------------------
(* Presented paths                                                         *)

(***************************************************************************)
(* The number of fresh paths of a listing is a natural number: the ports   *)
(* are finitely many.                                                      *)
(***************************************************************************)
LEMMA FreshCount ==
  ASSUME NEW devs \in SUBSET Ports
  PROVE  Cardinality(Fresh(devs)) \in Nat
<1>1. IsFiniteSet(Fresh(devs))
  BY PortsAssumption, FS_Subset DEF Fresh
<1> QED
  BY <1>1, FS_CardinalityType

(***************************************************************************)
(* saveUsbPaths entry by entry: a number of the new table is an old number *)
(* with its old path, or a new number above all old ones with a path that  *)
(* had none; listed paths keep their numbers, no path gets two.            *)
(***************************************************************************)
LEMMA SaveUsbPathsEffect ==
  ASSUME PathsTypeOK, NEW devs \in SUBSET Ports, SaveUsbPaths(devs)
  PROVE  /\ PathsTypeOK'
         /\ biggestID <= biggestID'
         /\ lastInfos' = DOMAIN usbPaths'
         /\ \A id \in DOMAIN usbPaths' :
              \/ id \in DOMAIN usbPaths /\ usbPaths'[id] = usbPaths[id]
              \/ biggestID < id /\ usbPaths'[id] \notin Range(usbPaths)
         /\ \A id \in DOMAIN usbPaths :
              usbPaths[id] \in devs => id \in DOMAIN usbPaths'
         /\ IsInjective(usbPaths) => IsInjective(usbPaths')
<1> DEFINE n == Cardinality(Fresh(devs))
<1>1. n \in Nat
  BY FreshCount
<1>2. PICK new \in Numberings(devs) :
         /\ usbPaths' = Listed(Extended(new), devs)
         /\ biggestID' = biggestID + n
         /\ lastInfos' = DOMAIN usbPaths'
  BY DEF SaveUsbPaths
<1>3. /\ new \in [biggestID + 1 .. biggestID + n -> Fresh(devs)]
      /\ IsInjective(new)
  BY <1>2 DEF Numberings, Bijection, Injection
<1>4. PICK S \in SUBSET (1 .. biggestID) : usbPaths \in [S -> Ports]
  BY DEF PathsTypeOK
<1>5. biggestID \in Nat
  BY DEF PathsTypeOK
<1> HIDE DEF n
<1> DEFINE longer == Extended(new)
           T == {id \in DOMAIN longer : longer[id] \in devs}
<1>6. /\ DOMAIN longer = S \cup (biggestID + 1 .. biggestID + n)
      /\ \A id \in S : longer[id] = usbPaths[id]
      /\ \A id \in biggestID + 1 .. biggestID + n : longer[id] = new[id]
  BY <1>1, <1>3, <1>4, <1>5 DEF Extended
<1>7. /\ usbPaths' = [id \in T |-> longer[id]]
      /\ DOMAIN usbPaths' = T
      /\ \A id \in T : usbPaths'[id] = longer[id]
  BY <1>2 DEF Listed, Restrict
<1> HIDE DEF longer
<1>8. T \subseteq 1 .. biggestID + n
  <2> SUFFICES ASSUME NEW id \in T PROVE id \in 1 .. biggestID + n
    OBVIOUS
  <2>1. id \in S \cup (biggestID + 1 .. biggestID + n)
    BY <1>6
  <2>2. CASE id \in S
    <3>1. id \in 1 .. biggestID
      BY <2>2
    <3> QED
      BY <3>1, <1>1, <1>5
  <2>3. CASE id \in biggestID + 1 .. biggestID + n
    BY <2>3, <1>1, <1>5
  <2> QED
    BY <2>1, <2>2, <2>3
<1>9. PathsTypeOK'
  <2>1. usbPaths' \in [T -> Ports]
    BY <1>7
  <2> QED
    BY <2>1, <1>1, <1>2, <1>5, <1>7, <1>8 DEF PathsTypeOK
<1>10. ASSUME NEW id \in T
       PROVE  \/ id \in S /\ longer[id] = usbPaths[id]
              \/ /\ id \in biggestID + 1 .. biggestID + n
                 /\ longer[id] = new[id]
                 /\ new[id] \notin Range(usbPaths)
  BY <1>3, <1>6 DEF Fresh
<1>11. ASSUME NEW id \in DOMAIN usbPaths, usbPaths[id] \in devs
       PROVE  id \in DOMAIN usbPaths'
  BY <1>4, <1>6, <1>7, <1>11
<1>12. ASSUME IsInjective(usbPaths) PROVE IsInjective(usbPaths')
  <2> SUFFICES ASSUME NEW i \in T, NEW j \in T, longer[i] = longer[j]
               PROVE  i = j
    BY <1>7 DEF IsInjective
  <2>1. CASE i \in S /\ j \in S
    BY <2>1, <1>12, <1>4, <1>6 DEF IsInjective
  <2>2. CASE i \notin S /\ j \notin S
    BY <2>2, <1>3, <1>6 DEF IsInjective
  <2>3. CASE i \in S /\ j \notin S
    BY <2>3, <1>4, <1>6, <1>10 DEF Range
  <2>4. CASE i \notin S /\ j \in S
    BY <2>4, <1>4, <1>6, <1>10 DEF Range
  <2> QED
    BY <2>1, <2>2, <2>3, <2>4
<1> QED
  BY <1>1, <1>2, <1>4, <1>5, <1>7, <1>9, <1>10, <1>11, <1>12
-----------------------------------------------------------------------------

\* what was shown under a number still in the table was shown for its port
ShownFromTable ==
  \A x \in shown : x.id \in DOMAIN usbPaths => x.port = usbPaths[x.id]

\* a device that was shown, or is attached, has one port
DeviceOnePort ==
  /\ \A x, y \in shown : x.dev = y.dev => x.port = y.port
  /\ \A x \in shown, p \in Ports : attached[p] = x.dev => x.port = p
  /\ \A p, q \in Ports : (attached[p] = attached[q] /\ attached[p] # 0) => p = q

PathsIInv ==
  /\ TypeOK
  /\ lastInfos = DOMAIN usbPaths
  /\ IsInjective(usbPaths)
  /\ IdNamesOnePort
  /\ retired \cap DOMAIN usbPaths = {}
  /\ ShownFromTable
  /\ DeviceOnePort
-----------------------------------------------------------------------------
LEMMA PathsInitIInv == Init => PathsIInv
<1> SUFFICES ASSUME Init PROVE PathsIInv
  OBVIOUS
<1>1. /\ usbPaths = << >> /\ biggestID = 0 /\ lastInfos = {}
      /\ attached = [p \in Ports |-> 0] /\ devices = 0
      /\ shown = {} /\ retired = {}
  BY DEF Init, PathsInit
<1>2. DOMAIN usbPaths = {}
  BY <1>1
<1>3. PathsTypeOK
  <2>1. usbPaths \in [{} -> Ports]
    BY <1>1
  <2> QED
    BY <1>1, <2>1 DEF PathsTypeOK
<1> QED
  BY <1>1, <1>2, <1>3
     DEF PathsIInv, TypeOK, IsInjective, IdNamesOnePort, ShownFromTable, DeviceOnePort

\* a plug-in gives the port a device number that was never used
LEMMA PlugIInv ==
  ASSUME PathsIInv, NEW p \in Ports, Plug(p)
  PROVE  PathsIInv'
<1> USE DEF PathsIInv
<1>1. UNCHANGED <<usbPaths, biggestID, lastInfos, shown, retired>>
  BY DEF Plug, pathVars
<1>2. devices \in Nat /\ attached \in [Ports -> 0 .. devices]
  BY DEF TypeOK
<1>3. devices' = devices + 1 /\ attached' = [attached EXCEPT ![p] = devices + 1]
  BY DEF Plug
<1>4. \A x \in shown : x.dev \in 1 .. devices
  BY DEF TypeOK
<1>5. TypeOK'
  <2>1. attached' \in [Ports -> 0 .. devices']
    BY <1>2, <1>3
  <2>2. shown' \subseteq [id : 1 .. biggestID', port : Ports, dev : 1 .. devices']
    BY <1>1, <1>2, <1>3 DEF TypeOK
  <2> QED
    BY <1>1, <1>2, <1>3, <2>1, <2>2 DEF TypeOK, PathsTypeOK
<1>6. DeviceOnePort'
  BY <1>1, <1>2, <1>3, <1>4 DEF DeviceOnePort
<1> QED
  BY <1>1, <1>5, <1>6 DEF IsInjective, IdNamesOnePort, ShownFromTable

LEMMA UnplugIInv ==
  ASSUME PathsIInv, NEW p \in Ports, Unplug(p)
  PROVE  PathsIInv'
<1> USE DEF PathsIInv
<1>1. UNCHANGED <<usbPaths, biggestID, lastInfos, shown, retired, devices>>
  BY DEF Unplug, pathVars
<1>2. devices \in Nat /\ attached \in [Ports -> 0 .. devices]
  BY DEF TypeOK
<1>3. attached' = [attached EXCEPT ![p] = 0]
  BY DEF Unplug
<1>4. \A x \in shown : x.dev \in 1 .. devices
  BY DEF TypeOK
<1>5. TypeOK'
  BY <1>1, <1>2, <1>3 DEF TypeOK, PathsTypeOK
<1>6. DeviceOnePort'
  BY <1>1, <1>2, <1>3, <1>4 DEF DeviceOnePort
<1> QED
  BY <1>1, <1>5, <1>6 DEF IsInjective, IdNamesOnePort, ShownFromTable

\* a listing shows each number of the new table with the device of its port
LEMMA EnumerateIInv ==
  ASSUME PathsIInv, NEW devs \in SUBSET Ports, Enumerate(devs)
  PROVE  PathsIInv'
<1>1. PathsTypeOK /\ SaveUsbPaths(devs)
  BY DEF PathsIInv, TypeOK, Enumerate
<1>2. /\ PathsTypeOK'
      /\ biggestID <= biggestID'
      /\ lastInfos' = DOMAIN usbPaths'
      /\ \A id \in DOMAIN usbPaths' :
           \/ id \in DOMAIN usbPaths /\ usbPaths'[id] = usbPaths[id]
           \/ biggestID < id /\ usbPaths'[id] \notin Range(usbPaths)
      /\ IsInjective(usbPaths')
  BY <1>1, SaveUsbPathsEffect DEF PathsIInv
<1>3. /\ UNCHANGED <<attached, devices>>
      /\ \A p \in devs : attached[p] # 0
      /\ retired' = retired \cup (DOMAIN usbPaths \ DOMAIN usbPaths')
      /\ shown' = shown \cup
           {[id |-> id, port |-> usbPaths'[id], dev |-> attached[usbPaths'[id]]] :
              id \in lastInfos'}
  BY DEF Enumerate
<1>4. \A id \in DOMAIN usbPaths' :
         id \in 1 .. biggestID' /\ usbPaths'[id] \in Ports
  BY <1>2 DEF PathsTypeOK
<1>5. \A id \in DOMAIN usbPaths' : usbPaths'[id] \in devs
  <2>1. PICK new \in Numberings(devs) : usbPaths' = Listed(Extended(new), devs)
    BY <1>1 DEF SaveUsbPaths
  <2> QED
    BY <2>1 DEF Listed, Restrict
<1>6. /\ devices \in Nat
      /\ attached \in [Ports -> 0 .. devices]
      /\ biggestID \in Nat /\ biggestID' \in Nat
      /\ retired \subseteq 1 .. biggestID
      /\ DOMAIN usbPaths \subseteq 1 .. biggestID
      /\ \A x \in shown : /\ x.id \in 1 .. biggestID
                          /\ x.port \in Ports
                          /\ x.dev \in 1 .. devices
  BY <1>2 DEF PathsIInv, TypeOK, PathsTypeOK
<1>7. ASSUME NEW x \in shown'
      PROVE  \/ x \in shown
             \/ /\ x.id \in DOMAIN usbPaths'
                /\ x.port = usbPaths'[x.id]
                /\ x.port \in Ports
                /\ x.dev = attached[x.port]
                /\ x.dev # 0
  BY <1>2, <1>3, <1>4, <1>5
<1>8. TypeOK'
  <2>1. shown' \subseteq [id : 1 .. biggestID', port : Ports, dev : 1 .. devices']
    <3> SUFFICES ASSUME NEW x \in shown'
                 PROVE  x \in [id : 1 .. biggestID', port : Ports, dev : 1 .. devices']
      OBVIOUS
    <3>1. CASE x \in shown
      BY <3>1, <1>2, <1>3, <1>6 DEF PathsIInv, TypeOK
    <3>2. CASE x \notin shown
      <4>1. PICK id \in lastInfos' :
              x = [id |-> id, port |-> usbPaths'[id], dev |-> attached[usbPaths'[id]]]
        BY <3>2, <1>3
      <4>2. attached[usbPaths'[id]] \in 1 .. devices
        BY <1>2, <1>3, <1>4, <1>5, <1>6
      <4> QED
        BY <4>1, <4>2, <1>2, <1>3, <1>4
    <3> QED
      BY <3>1, <3>2
  <2>2. retired' \subseteq 1 .. biggestID'
    <3>1. 1 .. biggestID \subseteq 1 .. biggestID'
      BY <1>2, <1>6
    <3>2. DOMAIN usbPaths \ DOMAIN usbPaths' \subseteq 1 .. biggestID
      BY <1>6
    <3> QED
      BY <3>1, <3>2, <1>3, <1>6
  <2> QED
    BY <2>1, <2>2, <1>2, <1>3, <1>6 DEF TypeOK
<1>9. \A x \in shown : x.id \in DOMAIN usbPaths' =>
        x.id \in DOMAIN usbPaths /\ x.port = usbPaths'[x.id]
  BY <1>2, <1>6 DEF PathsIInv, ShownFromTable
<1>10. ShownFromTable'
  BY <1>7, <1>9 DEF ShownFromTable
<1>11. IdNamesOnePort'
  <2> SUFFICES ASSUME NEW x \in shown', NEW y \in shown', x.id = y.id
               PROVE  x.port = y.port
    BY DEF IdNamesOnePort
  <2>1. CASE x \in shown /\ y \in shown
    BY <2>1 DEF PathsIInv, IdNamesOnePort
  <2>2. CASE x \notin shown \/ y \notin shown
    BY <2>2, <1>7, <1>9
  <2> QED
    BY <2>1, <2>2
<1>12. DeviceOnePort'
  <2>1. ASSUME NEW x \in shown', NEW p \in Ports, attached[p] = x.dev
        PROVE  x.port = p
    BY <2>1, <1>7, <1>6 DEF PathsIInv, DeviceOnePort
  <2>2. ASSUME NEW x \in shown', NEW y \in shown', x.dev = y.dev
        PROVE  x.port = y.port
    <3>1. CASE x \in shown /\ y \in shown
      BY <3>1, <2>2 DEF PathsIInv, DeviceOnePort
    <3>2. CASE x \notin shown
      BY <3>2, <2>1, <2>2, <1>7
    <3>3. CASE y \notin shown
      BY <3>3, <2>1, <2>2, <1>7
    <3> QED
      BY <3>1, <3>2, <3>3
  <2>3. \A p, q \in Ports : (attached[p] = attached[q] /\ attached[p] # 0) => p = q
    BY DEF PathsIInv, DeviceOnePort
  <2> QED
    BY <2>1, <2>2, <2>3, <1>3 DEF DeviceOnePort
<1>13. retired' \cap DOMAIN usbPaths' = {}
  <2> SUFFICES ASSUME NEW id \in retired', id \in DOMAIN usbPaths' PROVE FALSE
    OBVIOUS
  <2>1. id \in retired
    BY <1>3
  <2>2. id \in 1 .. biggestID /\ id \notin DOMAIN usbPaths
    BY <2>1, <1>6 DEF PathsIInv
  <2>3. id \in Nat /\ id <= biggestID /\ biggestID < id
    BY <2>2, <1>2, <1>6
  <2> QED
    BY <2>3, <1>6
<1> QED
  BY <1>2, <1>8, <1>10, <1>11, <1>12, <1>13 DEF PathsIInv

LEMMA StutterIInv ==
  ASSUME PathsIInv, UNCHANGED vars
  PROVE  PathsIInv'
BY DEF PathsIInv, vars, pathVars, TypeOK, PathsTypeOK, IsInjective, IdNamesOnePort,
       ShownFromTable, DeviceOnePort

(***************************************************************************)
(* The invariant is inductive.                                             *)
(***************************************************************************)
THEOREM PathsInvariant == Spec => []PathsIInv
<1>1. PathsIInv /\ [Next]_vars => PathsIInv'
  <2> SUFFICES ASSUME PathsIInv, [Next]_vars PROVE PathsIInv'
    OBVIOUS
  <2>1. ASSUME NEW p \in Ports, Plug(p) PROVE PathsIInv'
    BY <2>1, PlugIInv
  <2>2. ASSUME NEW p \in Ports, Unplug(p) PROVE PathsIInv'
    BY <2>2, UnplugIInv
  <2>3. ASSUME NEW devs \in SUBSET Ports, Enumerate(devs) PROVE PathsIInv'
    BY <2>3, EnumerateIInv
  <2>4. ASSUME UNCHANGED vars PROVE PathsIInv'
    BY <2>4, StutterIInv
  <2> QED
    BY <2>1, <2>2, <2>3, <2>4 DEF Next
<1> QED
  BY PathsInitIInv, <1>1, PTL DEF Spec

(***************************************************************************)
(* The table of presented paths and the history of listings are well       *)
(* typed: numbers start at 1 and never exceed biggestID.                   *)
(***************************************************************************)
THEOREM TypeCorrect == Spec => []TypeOK
BY PathsInvariant, PTL DEF PathsIInv

(***************************************************************************)
(* saveUsbPaths never hands a number out twice: whatever is plugged in,    *)
(* unplugged and listed, a presented path names one USB path for ever.     *)
(***************************************************************************)
THEOREM PathsNameOnePort == Spec => []IdNamesOnePort
BY PathsInvariant, PTL DEF PathsIInv

(***************************************************************************)
(* A presented path some listing lacked is gone for good.                  *)
(***************************************************************************)
THEOREM RetiredPathsStayRetired == Spec => []RetiredStaysRetired
<1>1. PathsIInv => RetiredStaysRetired
  BY DEF PathsIInv, RetiredStaysRetired
<1> QED
  BY <1>1, PathsInvariant, PTL

(***************************************************************************)
(* README, /enumerate: the listed paths tell connected devices apart.      *)
(***************************************************************************)
THEOREM PathsAreUnique == Spec => []PathIsUnique
<1>1. PathsIInv => PathIsUnique
  <2> SUFFICES ASSUME PathsIInv,
                      NEW x \in shown, NEW y \in shown, x.dev = y.dev,
                      {x.id, y.id} \subseteq lastInfos
               PROVE  x.id = y.id
    BY DEF PathsIInv, PathIsUnique
  <2>1. x.port = y.port
    BY DEF PathsIInv, DeviceOnePort
  <2>2. usbPaths[x.id] = usbPaths[y.id]
    BY <2>1 DEF PathsIInv, ShownFromTable
  <2> QED
    BY <2>2 DEF PathsIInv, IsInjective
<1> QED
  BY <1>1, PathsInvariant, PTL
-----------------------------------------------------------------------------
(***************************************************************************)
(* Messages.  A read returns one message as it was written, in the order   *)
(* of writing, skips only what is left of a message whose read was given   *)
(* up, and loses no other.  Data of a message do not begin as a header     *)
(* does: with such data ReadFrom takes a packet of data for the first one  *)
(* of a message.                                                           *)
(*                                                                         *)
(* The argument is about places in the stream: a packet is at the message  *)
(* and the number of bytes before it, and Follows says which place comes   *)
(* after which.  Reader and writer never share a counter; what makes them  *)
(* agree is that the packets on their way are a run of places that ends    *)
(* where the writer is, and that a read in the middle of a message has as  *)
(* many bytes as the place of the next packet says.                        *)
(***************************************************************************)

\* the first position of rep with data in the packet with w bytes before it
DataStart(w) == IF w = 0 THEN WireV1!HeaderEnd ELSE 1
Capacity(w) == PacketLen - DataStart(w)

\* messages have sizes ss: after the place (m, w) comes the place (n, v)
Follows(ss, m, w, n, v) ==
  IF w + Capacity(w) < ss[m]
  THEN n = m /\ v = w + Capacity(w)
  ELSE n = m + 1 /\ v = 0

\* packet p is at (m, w)
Carries(ss, p, m, w) ==
  /\ m \in 1 .. Len(ss) /\ w \in Nat /\ (w = 0 \/ w < ss[m])
  /\ p.magic <=> w = 0
  /\ w = 0 => p.size = ss[m]
  /\ \A i \in 1 .. PacketLen - 1 :
       p.rep[i] = <<m, LET j == w + i - DataStart(w) + 1
                       IN  IF DataStart(w) <= i /\ j <= ss[m] THEN j ELSE 0>>

MsgOf(p) == p.rep[1][1]
BytesBefore(p) == IF p.magic THEN 0 ELSE p.rep[1][2] - 1

\* where the writer is
Writing == offset # 0 /\ WireV1!MorePackets
WriterMsg == IF Writing THEN WireV1!Message ELSE WireV1!Message + 1
WriterBytes == IF Writing THEN wire_written ELSE 0

\* where the reader is: at the next packet, written already or not
FrontMsg == IF bus # << >> THEN MsgOf(bus[1]) ELSE WriterMsg
FrontBytes == IF bus # << >> THEN BytesBefore(bus[1]) ELSE WriterBytes

Writer ==
  offset # 0 =>
    /\ WireV1!Message \in Nat \ {0} /\ wire_written <= sizes[WireV1!Message]
    /\ offset = DataStart(wire_written)

Stream ==
  /\ \A i \in 1 .. Len(bus) : Carries(sizes, bus[i], MsgOf(bus[i]), BytesBefore(bus[i]))
  /\ \A i \in 1 .. Len(bus) - 1 :
       Follows(sizes, MsgOf(bus[i]), BytesBefore(bus[i]), MsgOf(bus[i + 1]), BytesBefore(bus[i + 1]))
  /\ bus # << >> =>
       Follows(sizes, MsgOf(bus[Len(bus)]), BytesBefore(bus[Len(bus)]), WriterMsg, WriterBytes)

Reader ==
  IF reading = "rest"
  THEN /\ FrontMsg \in 1 .. WireV1!Message
       /\ FrontBytes > 0 /\ FrontBytes < sizes[FrontMsg] /\ size = sizes[FrontMsg]
       /\ Len(data) = FrontBytes
       /\ \A j \in 1 .. FrontBytes : data[j] = <<FrontMsg, j>>
  ELSE FrontBytes > 0 => FrontMsg \in cut

\* what the reads returned: whole messages in order, all up to the reader but those cut
Returned ==
  /\ \A i \in 1 .. Len(got) :
       /\ got[i][1] \in 1 .. WireV1!Message /\ got[i][1] < FrontMsg
       /\ got[i][2] = WireV1!Whole(got[i][1])
  /\ \A i, j \in 1 .. Len(got) : i < j => got[i][1] < got[j][1]
  /\ \A m \in 1 .. WireV1!Message :
       m < FrontMsg /\ m \notin cut => \E i \in 1 .. Len(got) : got[i][1] = m

WireIInv == WireV1!TypeOK /\ Writer /\ Stream /\ Reader /\ Returned
-----------------------------------------------------------------------------
LEMMA SameCardinality == \A S : WireV1!Cardinality(S) = Cardinality(S)
BY DEF WireV1!Cardinality, Cardinality, WireV1!IsFiniteSet, IsFiniteSet

LEMMA LeastOfTwo ==
  ASSUME NEW a \in Nat, NEW b \in Nat
  PROVE  WireV1!Min({a, b}) = IF a <= b THEN a ELSE b
<1> DEFINE m == IF a <= b THEN a ELSE b
<1>1. m \in {a, b} /\ \A y \in {a, b} : m <= y
  OBVIOUS
<1>2. \A x \in {a, b} : (\A y \in {a, b} : x <= y) => x = m
  OBVIOUS
<1> QED
  BY <1>1, <1>2 DEF WireV1!Min

LEMMA Lengths ==
  ASSUME WireV1!WireAssumption, WireV1!TypeOK
  PROVE  /\ WireV1!Message \in Nat
         /\ \A m \in 1 .. WireV1!Message : sizes[m] \in Nat /\ sizes[m] \in Sizes
         /\ PacketLen \in Nat /\ PacketLen > 9
         /\ \A w \in Nat : /\ DataStart(w) \in Nat \ {0}
                           /\ Capacity(w) \in Nat \ {0}
                           /\ DataStart(w) + Capacity(w) = PacketLen
         /\ DataStart(0) = 9 /\ \A w \in Nat \ {0} : DataStart(w) = 1
<1>1. sizes \in Seq(Sizes) /\ Sizes \subseteq Nat /\ PacketLen \in Nat /\ PacketLen > 9
  BY DEF WireV1!WireAssumption, WireV1!TypeOK, WireV1!HeaderEnd
<1>2. WireV1!Message \in Nat /\ \A m \in 1 .. WireV1!Message : sizes[m] \in Nat /\ sizes[m] \in Sizes
  <2>1. Len(sizes) \in Nat
    BY <1>1, LenProperties
  <2>2. \A m \in 1 .. Len(sizes) : sizes[m] \in Sizes
    BY <1>1, ElementOfSeq
  <2> QED
    BY <1>1, <2>1, <2>2 DEF WireV1!Message
<1>3. \A w \in Nat : DataStart(w) \in Nat \ {0} /\ DataStart(w) <= 9
  BY DEF DataStart, WireV1!HeaderEnd
<1>4. \A w \in Nat : /\ Capacity(w) \in Nat \ {0}
                     /\ DataStart(w) + Capacity(w) = PacketLen
  <2> SUFFICES ASSUME NEW w \in Nat
               PROVE  /\ Capacity(w) \in Nat \ {0}
                      /\ DataStart(w) + Capacity(w) = PacketLen
    OBVIOUS
  <2>a. DataStart(w) \in Nat \ {0} /\ DataStart(w) <= 9
    BY <1>3
  <2>1. DataStart(w) \in Nat /\ DataStart(w) < PacketLen
    BY <1>1, <2>a
  <2> QED
    BY <1>1, <2>1 DEF Capacity
<1>5. DataStart(0) = 9 /\ \A w \in Nat \ {0} : DataStart(w) = 1
  BY DEF DataStart, WireV1!HeaderEnd
<1> QED
  BY <1>1, <1>2, <1>3, <1>4, <1>5

\* a packet says where it is
LEMMA CarriesPlace ==
  ASSUME WireV1!WireAssumption, WireV1!TypeOK, NEW p, NEW m, NEW w, Carries(sizes, p, m, w)
  PROVE  MsgOf(p) = m /\ BytesBefore(p) = w
<1>1. /\ m \in 1 .. WireV1!Message /\ w \in Nat /\ (w = 0 \/ w < sizes[m])
      /\ p.magic <=> w = 0
      /\ p.rep[1] = <<m, LET j == w + 1 - DataStart(w) + 1
                         IN  IF DataStart(w) <= 1 /\ j <= sizes[m] THEN j ELSE 0>>
  <2>1. 1 \in 1 .. PacketLen - 1
    BY Lengths
  <2> QED
    BY <2>1 DEF Carries, WireV1!Message
<1>2. CASE w = 0
  BY <1>1, <1>2, Lengths DEF MsgOf, BytesBefore
<1>3. CASE w # 0
  <2>1. DataStart(w) = 1 /\ sizes[m] \in Nat /\ w + 1 <= sizes[m]
    BY <1>1, <1>3, Lengths
  <2>2. w + 1 - DataStart(w) + 1 = w + 1
    BY <1>1, <2>1
  <2>3. p.rep[1] = <<m, w + 1>>
    BY <1>1, <2>1, <2>2
  <2> QED
    BY <1>1, <1>3, <2>3 DEF MsgOf, BytesBefore
<1> QED
  BY <1>2, <1>3
-----------------------------------------------------------------------------
(* WriteTo                                                                 *)

\* a packet is written for the place of the writer, who goes to the next one
LEMMA WriteEffect ==
  ASSUME WireV1!WireAssumption, WireV1!TypeOK, Writer, WireV1!Write
  PROVE  /\ Writing /\ WireV1!Message \in Nat \ {0} /\ UNCHANGED sizes
         /\ \E p \in WireV1!Packets : bus' = Append(bus, p) /\ Carries(sizes, p, WireV1!Message, wire_written)
         /\ wire_written' \in Nat /\ offset' \in {0, 1}
         /\ Writer'
         /\ Follows(sizes, WireV1!Message, wire_written, WriterMsg', WriterBytes')
<1> DEFINE m == WireV1!Message
           left == sizes[m] - wire_written
           n == WireV1!Min({PacketLen - offset, left})
           first == offset = WireV1!HeaderEnd
<1>1. /\ Writing /\ m \in Nat \ {0} /\ UNCHANGED sizes
      /\ offset = DataStart(wire_written) /\ wire_written \in Nat /\ wire_written <= sizes[m]
      /\ m \in 1 .. WireV1!Message
  <2>1. offset # 0 /\ WireV1!MorePackets /\ UNCHANGED sizes /\ wire_written \in Nat
    BY DEF WireV1!Write, WireV1!TypeOK
  <2>2. WireV1!Message \in Nat \ {0} /\ wire_written <= sizes[WireV1!Message] /\ offset = DataStart(wire_written)
    BY <2>1 DEF Writer
  <2> QED
    BY <2>1, <2>2 DEF Writing
<1>2. /\ PacketLen - offset = Capacity(wire_written) /\ PacketLen - offset \in Nat
      /\ left \in Nat /\ sizes[m] \in Nat /\ sizes[m] \in Sizes
  BY <1>1, Lengths
<1>3. n = IF Capacity(wire_written) <= left THEN Capacity(wire_written) ELSE left
  BY <1>2, LeastOfTwo
<1>4. first <=> wire_written = 0
  BY <1>1 DEF DataStart, WireV1!HeaderEnd
<1>5. /\ \E magic \in IF first THEN {TRUE} ELSE {FALSE},
            claimed \in IF first THEN {sizes[m]} ELSE Sizes :
           bus' = Append(bus, [magic |-> magic, size |-> claimed, rep |-> WireV1!Rep(n)])
      /\ wire_written' = wire_written + n
      /\ offset' = IF offset + n = PacketLen THEN 1 ELSE 0
  BY DEF WireV1!Write
<1>6. wire_written # 0 => wire_written < sizes[m]
  BY <1>1, <1>2, Lengths DEF Writing, WireV1!MorePackets
<1> HIDE DEF n
<1>7. n \in Nat /\ n <= left /\ n <= Capacity(wire_written)
  BY <1>2, <1>3
<1>8. \A i \in 1 .. PacketLen - 1 :
        WireV1!Rep(n)[i] = <<m, LET j == wire_written + i - DataStart(wire_written) + 1
                         IN  IF DataStart(wire_written) <= i /\ j <= sizes[m] THEN j ELSE 0>>
  <2> SUFFICES ASSUME NEW i \in 1 .. PacketLen - 1
               PROVE  WireV1!Rep(n)[i] = <<m, LET j == wire_written + i - DataStart(wire_written) + 1
                                       IN  IF DataStart(wire_written) <= i /\ j <= sizes[m]
                                           THEN j ELSE 0>>
    OBVIOUS
  <2> DEFINE j == wire_written + i - DataStart(wire_written) + 1
  <2>1. WireV1!Rep(n)[i] = <<m, IF i \in offset .. offset + n - 1 THEN wire_written + i - offset + 1 ELSE 0>>
    BY DEF WireV1!Rep
  <2>2. i \in offset .. offset + n - 1 <=> DataStart(wire_written) <= i /\ j <= sizes[m]
    <3>1. i \in Nat /\ i < PacketLen /\ offset \in Nat /\ PacketLen \in Nat
          /\ offset + Capacity(wire_written) = PacketLen
      BY <1>1, <1>2, Lengths
    <3>2. CASE Capacity(wire_written) <= left
      BY <1>1, <1>2, <1>3, <3>1, <3>2
    <3>3. CASE ~ Capacity(wire_written) <= left
      BY <1>1, <1>2, <1>3, <3>1, <3>3
    <3> QED
      BY <3>2, <3>3
  <2>3. wire_written + i - offset + 1 = j
    BY <1>1
  <2> QED
    BY <2>1, <2>2, <2>3
<1>9. WireV1!Rep(n) \in [1 .. PacketLen - 1 -> WireV1!Bytes]
  <2> SUFFICES ASSUME NEW i \in 1 .. PacketLen - 1
               PROVE  WireV1!Rep(n)[i] \in WireV1!Bytes
    BY DEF WireV1!Rep
  <2>1. /\ WireV1!Rep(n)[i] = <<m, IF i \in offset .. offset + n - 1 THEN wire_written + i - offset + 1 ELSE 0>>
        /\ m \in 1 .. MaxMessages
    BY <1>1, WireV1!WireAssumption DEF WireV1!Rep, WireV1!TypeOK, WireV1!WireAssumption
  <2>2. i \in offset .. offset + n - 1 => wire_written + i - offset + 1 \in Nat
    BY <1>1, Lengths
  <2> QED
    BY <2>1, <2>2 DEF WireV1!Bytes
<1>10. \E p \in WireV1!Packets : bus' = Append(bus, p) /\ Carries(sizes, p, WireV1!Message, wire_written)
  <2>1. PICK magic \in IF first THEN {TRUE} ELSE {FALSE},
             claimed \in IF first THEN {sizes[m]} ELSE Sizes :
           bus' = Append(bus, [magic |-> magic, size |-> claimed, rep |-> WireV1!Rep(n)])
    BY <1>5
  <2> DEFINE p == [magic |-> magic, size |-> claimed, rep |-> WireV1!Rep(n)]
  <2>2. /\ magic \in BOOLEAN /\ (magic <=> wire_written = 0)
        /\ claimed \in Sizes /\ (wire_written = 0 => claimed = sizes[m])
    <3>1. CASE first
      <4>1. magic \in {TRUE} /\ claimed \in {sizes[m]}
        BY <3>1
      <4> QED
        BY <1>2, <1>4, <3>1, <4>1
    <3>2. CASE ~first
      <4>1. magic \in {FALSE} /\ claimed \in Sizes
        BY <3>2
      <4> QED
        BY <1>4, <3>2, <4>1
    <3> QED
      BY <3>1, <3>2
  <2>3. p \in WireV1!Packets
    BY <1>9, <2>2 DEF WireV1!Packets
  <2>4. Carries(sizes, p, WireV1!Message, wire_written)
    BY <1>1, <1>6, <1>8, <2>2 DEF Carries, WireV1!Message
  <2> QED
    BY <2>1, <2>3, <2>4
<1>11. wire_written' \in Nat /\ offset' \in {0, 1}
  BY <1>1, <1>5, <1>7
<1>12. offset' = 1 <=> n = Capacity(wire_written)
  <2>1. Capacity(wire_written) = PacketLen - offset /\ PacketLen \in Nat /\ offset \in Nat
    BY <1>1, <1>2, Lengths
  <2>2. offset + n = PacketLen <=> n = Capacity(wire_written)
    BY <1>7, <2>1
  <2> QED
    BY <1>5, <2>2
<1>13. WireV1!Message' = WireV1!Message /\ sizes'[m] = sizes[m]
  BY <1>1 DEF WireV1!Message
<1>14. Writer'
  <2> SUFFICES ASSUME offset' # 0
               PROVE  /\ WireV1!Message' \in Nat \ {0} /\ wire_written' <= sizes'[WireV1!Message']
                      /\ offset' = DataStart(wire_written')
    BY DEF Writer
  <2>1. n = Capacity(wire_written) /\ offset' = 1 /\ n # 0
    BY <1>1, <1>11, <1>12, Lengths
  <2> QED
    BY <1>1, <1>2, <1>5, <1>7, <1>13, <2>1 DEF DataStart
<1>15. Follows(sizes, WireV1!Message, wire_written, WriterMsg', WriterBytes')
  <2>1. CASE wire_written + Capacity(wire_written) < sizes[m]
    <3>1. n = Capacity(wire_written) /\ offset' = 1 /\ wire_written' = wire_written + Capacity(wire_written)
      BY <1>1, <1>2, <1>3, <1>5, <1>7, <1>12, <2>1
    <3>2. Writing'
      BY <1>13, <2>1, <3>1 DEF Writing, WireV1!MorePackets
    <3> QED
      BY <1>13, <2>1, <3>1, <3>2 DEF Follows, WriterMsg, WriterBytes
  <2>2. CASE ~ wire_written + Capacity(wire_written) < sizes[m]
    <3>1. wire_written' = sizes[m]
      <4>1. Capacity(wire_written) \in Nat /\ left <= Capacity(wire_written)
        BY <1>1, <1>2, <2>2, Lengths
      <4>2. n = left
        BY <1>2, <1>3, <4>1
      <4> QED
        BY <1>1, <1>2, <1>5, <4>2
    <3>2. ~Writing'
      BY <1>2, <1>11, <1>13, <3>1 DEF Writing, WireV1!MorePackets
    <3> QED
      BY <1>13, <2>2, <3>2 DEF Follows, WriterMsg, WriterBytes
  <2> QED
    BY <2>1, <2>2
<1> QED
  BY <1>1, <1>10, <1>11, <1>14, <1>15

\* a packet stays at its place when messages are added
LEMMA PlacesStay ==
  ASSUME NEW ss, NEW tt, Len(ss) \in Nat, Len(tt) \in Nat, Len(ss) <= Len(tt),
         \A m \in 1 .. Len(ss) : tt[m] = ss[m]
  PROVE  /\ \A p, m, w : Carries(ss, p, m, w) => Carries(tt, p, m, w)
         /\ \A m \in 1 .. Len(ss) : \A w, n, v : Follows(ss, m, w, n, v) => Follows(tt, m, w, n, v)
<1>1. ASSUME NEW p, NEW m, NEW w, Carries(ss, p, m, w)
      PROVE  Carries(tt, p, m, w)
  <2>1. m \in 1 .. Len(ss) /\ m \in 1 .. Len(tt) /\ tt[m] = ss[m]
    BY <1>1 DEF Carries
  <2> QED
    BY <1>1, <2>1 DEF Carries
<1>2. ASSUME NEW m \in 1 .. Len(ss), NEW w, NEW n, NEW v, Follows(ss, m, w, n, v)
      PROVE  Follows(tt, m, w, n, v)
  <2>1. tt[m] = ss[m]
    OBVIOUS
  <2> QED
    BY <1>2, <2>1 DEF Follows
<1> QED
  BY <1>1, <1>2

\* the writer goes on without a packet: nobody else moves
LEMMA SameBus ==
  ASSUME WireV1!WireAssumption, WireV1!TypeOK, WireV1!TypeOK', Stream, UNCHANGED <<bus, WriterMsg, WriterBytes>>,
         WireV1!Message <= WireV1!Message', \A m \in 1 .. WireV1!Message : sizes'[m] = sizes[m]
  PROVE  Stream' /\ UNCHANGED <<FrontMsg, FrontBytes>>
<1>1. Len(sizes) \in Nat /\ Len(sizes') \in Nat /\ bus \in Seq(WireV1!Packets)
  BY LenProperties DEF WireV1!TypeOK
<1>2. /\ \A p, m, w : Carries(sizes, p, m, w) => Carries(sizes', p, m, w)
      /\ \A m \in 1 .. Len(sizes) : \A w, n, v :
           Follows(sizes, m, w, n, v) => Follows(sizes', m, w, n, v)
  BY <1>1, PlacesStay DEF WireV1!Message
<1>3. Len(bus) \in Nat /\ (bus # << >> => Len(bus) \in 1 .. Len(bus))
  BY <1>1, LenProperties, EmptySeq
<1>4. \A i \in 1 .. Len(bus) :
        /\ Carries(sizes', bus[i], MsgOf(bus[i]), BytesBefore(bus[i]))
        /\ MsgOf(bus[i]) \in 1 .. Len(sizes)
  <2> SUFFICES ASSUME NEW i \in 1 .. Len(bus)
               PROVE  /\ Carries(sizes', bus[i], MsgOf(bus[i]), BytesBefore(bus[i]))
                      /\ MsgOf(bus[i]) \in 1 .. Len(sizes)
    OBVIOUS
  <2>1. Carries(sizes, bus[i], MsgOf(bus[i]), BytesBefore(bus[i]))
    BY DEF Stream
  <2>2. MsgOf(bus[i]) \in 1 .. Len(sizes)
    BY <2>1 DEF Carries
  <2> QED
    BY <1>2, <2>1, <2>2
<1>5. \A i \in 1 .. Len(bus) - 1 :
        Follows(sizes', MsgOf(bus[i]), BytesBefore(bus[i]), MsgOf(bus[i + 1]), BytesBefore(bus[i + 1]))
  <2>1. \A i \in 1 .. Len(bus) - 1 : i \in 1 .. Len(bus)
    BY <1>3
  <2> QED
    BY <1>2, <1>4, <2>1 DEF Stream
<1>6. bus # << >> =>
        Follows(sizes', MsgOf(bus[Len(bus)]), BytesBefore(bus[Len(bus)]), WriterMsg, WriterBytes)
  BY <1>2, <1>3, <1>4 DEF Stream
<1>7. Stream'
  BY <1>4, <1>5, <1>6 DEF Stream
<1> QED
  BY <1>7 DEF FrontMsg, FrontBytes

\* a packet is written at the end
LEMMA BusGrows ==
  ASSUME WireV1!WireAssumption, WireV1!TypeOK, Writer, Stream, WireV1!Write
  PROVE  Stream' /\ UNCHANGED <<FrontMsg, FrontBytes>>
<1>1. PICK p \in WireV1!Packets : bus' = Append(bus, p) /\ Carries(sizes, p, WireV1!Message, wire_written)
  BY WriteEffect
<1>2. /\ Writing /\ UNCHANGED sizes
      /\ Follows(sizes, WireV1!Message, wire_written, WriterMsg', WriterBytes')
  BY WriteEffect
<1>3. MsgOf(p) = WireV1!Message /\ BytesBefore(p) = wire_written
  BY <1>1, CarriesPlace
<1>4. WriterMsg = WireV1!Message /\ WriterBytes = wire_written
  BY <1>2 DEF WriterMsg, WriterBytes
<1>5. /\ bus \in Seq(WireV1!Packets) /\ Len(bus) \in Nat
      /\ Len(bus') = Len(bus) + 1 /\ bus' # << >> /\ bus'[Len(bus) + 1] = p
      /\ \A i \in 1 .. Len(bus) : bus'[i] = bus[i]
  <2>1. bus \in Seq(WireV1!Packets)
    BY DEF WireV1!TypeOK
  <2>2. Len(bus) \in Nat
    BY <2>1, LenProperties
  <2>3. /\ bus' # << >> /\ Len(bus') = Len(bus) + 1 /\ bus'[Len(bus) + 1] = p
        /\ \A i \in 1 .. Len(bus) : bus'[i] = bus[i]
    BY <1>1, <2>1, AppendProperties
  <2> QED
    BY <2>1, <2>2, <2>3
<1>6. ASSUME NEW i \in 1 .. Len(bus')
      PROVE  Carries(sizes', bus'[i], MsgOf(bus'[i]), BytesBefore(bus'[i]))
  <2>1. CASE i \in 1 .. Len(bus)
    BY <1>2, <1>5, <2>1 DEF Stream
  <2>2. CASE i = Len(bus) + 1
    BY <1>1, <1>2, <1>3, <1>5, <2>2
  <2> QED
    BY <1>5, <2>1, <2>2
<1>7. ASSUME NEW i \in 1 .. Len(bus') - 1
      PROVE  Follows(sizes', MsgOf(bus'[i]), BytesBefore(bus'[i]),
                     MsgOf(bus'[i + 1]), BytesBefore(bus'[i + 1]))
  <2>1. CASE i \in 1 .. Len(bus) - 1
    <3>1. i \in 1 .. Len(bus) /\ i + 1 \in 1 .. Len(bus)
      BY <1>5, <2>1
    <3> QED
      BY <1>2, <1>5, <2>1, <3>1 DEF Stream
  <2>2. CASE i = Len(bus)
    <3>1. bus # << >> /\ i \in 1 .. Len(bus) /\ bus'[i] = bus[Len(bus)] /\ bus'[i + 1] = p
      BY <1>5, <2>2, EmptySeq
    <3> QED
      BY <1>2, <1>3, <1>4, <3>1 DEF Stream
  <2> QED
    BY <1>5, <2>1, <2>2
<1>8. Follows(sizes', MsgOf(bus'[Len(bus')]), BytesBefore(bus'[Len(bus')]), WriterMsg', WriterBytes')
  BY <1>2, <1>3, <1>5
<1>9. Stream'
  BY <1>6, <1>7, <1>8 DEF Stream
<1>10. CASE bus = << >>
  <2>1. bus'[1] = p
    BY <1>5, <1>10, EmptySeq
  <2> QED
    BY <1>3, <1>4, <1>5, <1>9, <1>10, <2>1 DEF FrontMsg, FrontBytes
<1>11. CASE bus # << >>
  <2>1. bus'[1] = bus[1]
    BY <1>5, <1>11, EmptySeq
  <2> QED
    BY <1>5, <1>9, <1>11, <2>1 DEF FrontMsg, FrontBytes
<1> QED
  BY <1>10, <1>11

\* the reader takes a packet and is at the next place
LEMMA BusShrinks ==
  ASSUME WireV1!TypeOK, Stream, bus # << >>, bus' = Tail(bus), UNCHANGED WireV1!writeVars
  PROVE  /\ Stream'
         /\ Follows(sizes, FrontMsg, FrontBytes, FrontMsg', FrontBytes')
<1>1. /\ bus \in Seq(WireV1!Packets) /\ Len(bus) \in Nat \ {0}
      /\ bus' \in Seq(WireV1!Packets) /\ Len(bus') = Len(bus) - 1
      /\ \A i \in 1 .. Len(bus') : bus'[i] = bus[i + 1]
  <2>1. bus \in Seq(WireV1!Packets) /\ Len(bus) \in Nat
    BY LenProperties DEF WireV1!TypeOK
  <2>2. Len(bus) # 0
    BY <2>1, EmptySeq
  <2> QED
    BY <2>1, <2>2, HeadTailProperties
<1>2. UNCHANGED <<sizes, WriterMsg, WriterBytes>>
  BY DEF WireV1!writeVars, WriterMsg, WriterBytes, Writing, WireV1!MorePackets, WireV1!Message
<1>3. ASSUME NEW i \in 1 .. Len(bus')
      PROVE  Carries(sizes', bus'[i], MsgOf(bus'[i]), BytesBefore(bus'[i]))
  <2>1. i + 1 \in 1 .. Len(bus)
    BY <1>1
  <2> QED
    BY <1>1, <1>2, <2>1 DEF Stream
<1>4. ASSUME NEW i \in 1 .. Len(bus') - 1
      PROVE  Follows(sizes', MsgOf(bus'[i]), BytesBefore(bus'[i]),
                     MsgOf(bus'[i + 1]), BytesBefore(bus'[i + 1]))
  <2>1. i + 1 \in 1 .. Len(bus) - 1 /\ i \in 1 .. Len(bus') /\ i + 1 \in 1 .. Len(bus')
    BY <1>1
  <2> QED
    BY <1>1, <1>2, <2>1 DEF Stream
<1>5. ASSUME bus' # << >>
      PROVE  Follows(sizes', MsgOf(bus'[Len(bus')]), BytesBefore(bus'[Len(bus')]),
                     WriterMsg', WriterBytes')
  <2>1. Len(bus') \in 1 .. Len(bus') /\ Len(bus') + 1 = Len(bus)
    BY <1>1, <1>5, EmptySeq
  <2>2. bus'[Len(bus')] = bus[Len(bus)]
    BY <1>1, <2>1
  <2> QED
    BY <1>2, <2>2 DEF Stream
<1>6. Stream'
  BY <1>3, <1>4, <1>5 DEF Stream
<1>7. CASE bus' = << >>
  <2>1. Len(bus') = 0
    BY <1>7, EmptySeq
  <2>2. Len(bus) = 1
    BY <1>1, <2>1
  <2>3. FrontMsg = MsgOf(bus[1]) /\ FrontBytes = BytesBefore(bus[1])
    BY DEF FrontMsg, FrontBytes
  <2>4. FrontMsg' = WriterMsg' /\ FrontBytes' = WriterBytes'
    BY <1>7 DEF FrontMsg, FrontBytes
  <2>5. Follows(sizes, MsgOf(bus[1]), BytesBefore(bus[1]), WriterMsg, WriterBytes)
    BY <2>2 DEF Stream
  <2> QED
    BY <1>2, <1>6, <2>3, <2>4, <2>5
<1>8. CASE bus' # << >>
  <2>1. 1 \in 1 .. Len(bus') /\ 1 \in 1 .. Len(bus) - 1
    BY <1>1, <1>8, EmptySeq
  <2>2. bus'[1] = bus[1 + 1]
    BY <1>1, <2>1
  <2>3. FrontMsg = MsgOf(bus[1]) /\ FrontBytes = BytesBefore(bus[1])
    BY DEF FrontMsg, FrontBytes
  <2>4. FrontMsg' = MsgOf(bus'[1]) /\ FrontBytes' = BytesBefore(bus'[1])
    BY <1>8 DEF FrontMsg, FrontBytes
  <2>5. Follows(sizes, MsgOf(bus[1]), BytesBefore(bus[1]), MsgOf(bus[1 + 1]), BytesBefore(bus[1 + 1]))
    BY <2>1 DEF Stream
  <2> QED
    BY <1>6, <2>2, <2>3, <2>4, <2>5
<1> QED
  BY <1>6, <1>7, <1>8
-----------------------------------------------------------------------------
(* ReadFrom                                                                *)

LEMMA FrontPlace ==
  ASSUME WireV1!WireAssumption, WireV1!TypeOK, Writer, Stream
  PROVE  /\ FrontMsg \in 1 .. WireV1!Message + 1 /\ FrontBytes \in Nat
         /\ bus # << >> => Carries(sizes, bus[1], FrontMsg, FrontBytes)
<1>1. WireV1!Message \in Nat /\ wire_written \in Nat /\ bus \in Seq(WireV1!Packets)
  BY Lengths DEF WireV1!TypeOK
<1>2. CASE bus = << >>
  <2>1. WriterMsg \in 1 .. WireV1!Message + 1 /\ WriterBytes \in Nat
    BY <1>1 DEF WriterMsg, WriterBytes, Writing, Writer
  <2> QED
    BY <1>2, <2>1 DEF FrontMsg, FrontBytes
<1>3. CASE bus # << >>
  <2>1. 1 \in 1 .. Len(bus)
    BY <1>1, <1>3, EmptySeq, LenProperties
  <2>2. FrontMsg = MsgOf(bus[1]) /\ FrontBytes = BytesBefore(bus[1])
    BY <1>3 DEF FrontMsg, FrontBytes
  <2>3. Carries(sizes, bus[1], FrontMsg, FrontBytes)
    BY <2>1, <2>2 DEF Stream
  <2>4. FrontMsg \in 1 .. WireV1!Message /\ FrontBytes \in Nat
    BY <2>3 DEF Carries, WireV1!Message
  <2> QED
    BY <1>1, <2>3, <2>4
<1> QED
  BY <1>2, <1>3

\* the reader stays where it is: new messages do not matter to it
LEMMA FrontStays ==
  ASSUME WireV1!WireAssumption, WireV1!TypeOK, Writer, Stream, Reader, Returned,
         UNCHANGED <<FrontMsg, FrontBytes, size, data, got, cut>>,
         reading' = "rest" <=> reading = "rest",
         WireV1!Message <= WireV1!Message', WireV1!Message' \in Nat, \A m \in 1 .. WireV1!Message : sizes'[m] = sizes[m]
  PROVE  Reader' /\ Returned'
<1>0. WireV1!Message \in Nat /\ FrontMsg \in 1 .. WireV1!Message + 1
  BY Lengths, FrontPlace
<1>1. Reader'
  <2>1. CASE reading = "rest"
    <3>1. /\ FrontMsg \in 1 .. WireV1!Message
          /\ FrontBytes > 0 /\ FrontBytes < sizes[FrontMsg] /\ size = sizes[FrontMsg]
          /\ Len(data) = FrontBytes
          /\ \A j \in 1 .. FrontBytes : data[j] = <<FrontMsg, j>>
      BY <2>1 DEF Reader
    <3>2. FrontMsg \in 1 .. WireV1!Message' /\ sizes'[FrontMsg] = sizes[FrontMsg]
      BY <1>0, <3>1
    <3> QED
      BY <2>1, <3>1, <3>2 DEF Reader
  <2>2. CASE reading # "rest"
    BY <2>2 DEF Reader
  <2> QED
    BY <2>1, <2>2
<1>2. ASSUME NEW i \in 1 .. Len(got)
      PROVE  /\ got'[i][1] \in 1 .. WireV1!Message' /\ got'[i][1] < FrontMsg'
             /\ got'[i][2] = [j \in 1 .. sizes'[got'[i][1]] |-> <<got'[i][1], j>>]
  <2>1. /\ got[i][1] \in 1 .. WireV1!Message /\ got[i][1] < FrontMsg
        /\ got[i][2] = WireV1!Whole(got[i][1])
    BY DEF Returned
  <2>2. sizes'[got[i][1]] = sizes[got[i][1]] /\ got[i][1] \in 1 .. WireV1!Message'
    BY <1>0, <2>1
  <2>3. got[i][2] = [j \in 1 .. sizes[got[i][1]] |-> <<got[i][1], j>>]
    BY <2>1 DEF WireV1!Whole
  <2> QED
    BY <2>1, <2>2, <2>3
<1>3. ASSUME NEW m \in 1 .. WireV1!Message', m < FrontMsg', m \notin cut'
      PROVE  \E i \in 1 .. Len(got') : got'[i][1] = m
  <2>1. m \in 1 .. WireV1!Message
    BY <1>0, <1>3
  <2> QED
    BY <1>3, <2>1 DEF Returned
<1>4. \A i, j \in 1 .. Len(got') : i < j => got'[i][1] < got'[j][1]
  BY DEF Returned
<1>5. Returned'
  BY <1>2, <1>3, <1>4 DEF Returned, WireV1!Whole
<1> QED
  BY <1>1, <1>5

\* the data of a message up to and with the next packet: go on, or return it
LEMMA CollectEffect ==
  ASSUME WireV1!WireAssumption, WireV1!TypeOK, Writer, Stream, Returned,
         FrontMsg \in 1 .. WireV1!Message, FrontBytes = 0 \/ FrontBytes < sizes[FrontMsg],
         Follows(sizes, FrontMsg, FrontBytes, FrontMsg', FrontBytes'),
         NEW joined \in Seq(WireV1!Bytes), Len(joined) = FrontBytes + Capacity(FrontBytes),
         \A j \in 1 .. Len(joined) : joined[j] = <<FrontMsg, IF j <= sizes[FrontMsg] THEN j ELSE 0>>,
         WireV1!Collect(sizes[FrontMsg], joined), UNCHANGED <<sizes, cut>>
  PROVE  /\ Reader' /\ Returned'
         /\ reading' \in {"no", "rest"} /\ size' \in Sizes
         /\ data' \in Seq(WireV1!Bytes) /\ (reading' # "rest" => data' = << >>)
         /\ got' \in Seq((1 .. MaxMessages) \X Seq(WireV1!Bytes))
<1> DEFINE m == FrontMsg
           w == FrontBytes
           n == sizes[FrontMsg]
<1>0. /\ WireV1!Message \in Nat /\ m \in Nat /\ w \in Nat /\ n \in Nat /\ n \in Sizes
      /\ Capacity(w) \in Nat \ {0} /\ m \in 1 .. MaxMessages
      /\ WireV1!Message' = WireV1!Message /\ sizes' = sizes
  <2>1. WireV1!Message \in Nat /\ n \in Nat /\ n \in Sizes
    BY Lengths
  <2>2. w \in Nat
    BY FrontPlace
  <2>3. Capacity(w) \in Nat \ {0}
    BY <2>2, Lengths
  <2>4. WireV1!Message' = WireV1!Message
    BY DEF WireV1!Message
  <2>5. m \in Nat /\ m \in 1 .. MaxMessages
    BY <2>1 DEF WireV1!TypeOK, WireV1!WireAssumption
  <2> QED
    BY <2>1, <2>2, <2>3, <2>4, <2>5
<1>1. CASE Len(joined) < n
  <2>1. reading' = "rest" /\ data' = joined /\ UNCHANGED got /\ size' = n
    BY <1>1 DEF WireV1!Collect
  <2>2. FrontMsg' = m /\ FrontBytes' = Len(joined)
    BY <1>1 DEF Follows
  <2>3. Len(joined) \in Nat \ {0}
    BY <1>0
  <2>4. \A j \in 1 .. Len(joined) : joined[j] = <<m, j>>
    BY <1>0, <1>1, <2>3
  <2>5. Reader'
    BY <1>0, <1>1, <2>1, <2>2, <2>3, <2>4 DEF Reader
  <2>6. Returned'
    BY <1>0, <2>1, <2>2 DEF Returned, WireV1!Whole
  <2> QED
    BY <1>0, <2>1, <2>5, <2>6 DEF WireV1!TypeOK
<1>2. CASE ~ Len(joined) < n
  <2> DEFINE whole == SubSeq(joined, 1, n)
             item == <<m, whole>>
  <2>1. Len(joined) \in Nat \ {0} /\ n <= Len(joined)
    BY <1>0, <1>2
  <2>2. reading' = "no" /\ data' = << >> /\ size' = n
        /\ got' = Append(got, <<joined[1][1], whole>>)
    BY <1>2 DEF WireV1!Collect
  <2>3. joined[1][1] = m
    BY <2>1
  <2>4. FrontMsg' = m + 1 /\ FrontBytes' = 0
    BY <1>2 DEF Follows
  <2>5. /\ whole \in Seq(WireV1!Bytes) /\ Len(whole) = n
        /\ \A j \in 1 .. n : whole[j] = joined[j]
    <3>1. /\ \A j \in 1 .. n : joined[j] \in WireV1!Bytes /\ 1 + j - 1 = j
          /\ n - 1 + 1 = n /\ (1 <= n \/ n = 0)
      BY <1>0, <2>1, ElementOfSeq
    <3>2. /\ whole \in Seq(WireV1!Bytes)
          /\ Len(whole) = IF 1 <= n THEN n - 1 + 1 ELSE 0
          /\ \A j \in 1 .. n - 1 + 1 : whole[j] = joined[1 + j - 1]
      BY <1>0, <3>1, SubSeqProperties
    <3> QED
      BY <1>0, <3>1, <3>2
  <2>6. whole = WireV1!Whole(m)
    <3>1. \A j \in 1 .. n : whole[j] = <<m, j>>
      BY <1>0, <2>1, <2>5
    <3>2. whole = [j \in 1 .. n |-> whole[j]]
      BY <2>5, LenProperties
    <3> QED
      BY <3>1, <3>2 DEF WireV1!Whole
  <2> HIDE DEF whole
  <2>7. /\ got \in Seq((1 .. MaxMessages) \X Seq(WireV1!Bytes)) /\ Len(got) \in Nat
        /\ item \in (1 .. MaxMessages) \X Seq(WireV1!Bytes)
    BY <1>0, <2>5, LenProperties DEF WireV1!TypeOK
  <2>8. /\ got' \in Seq((1 .. MaxMessages) \X Seq(WireV1!Bytes))
        /\ Len(got') = Len(got) + 1 /\ got'[Len(got) + 1] = item
        /\ \A i \in 1 .. Len(got) : got'[i] = got[i]
    <3>1. got' = Append(got, item)
      BY <2>2, <2>3
    <3> HIDE DEF item
    <3> QED
      BY <2>7, <3>1, AppendProperties
  <2>9. Reader'
    BY <2>2, <2>4 DEF Reader
  <2>10. ASSUME NEW i \in 1 .. Len(got')
         PROVE  /\ got'[i][1] \in 1 .. WireV1!Message' /\ got'[i][1] < FrontMsg'
                /\ got'[i][2] = WireV1!Whole(got'[i][1])
    <3>1. CASE i \in 1 .. Len(got)
      <4>1. /\ got[i][1] \in 1 .. WireV1!Message /\ got[i][1] < m
            /\ got[i][2] = WireV1!Whole(got[i][1])
        BY <3>1 DEF Returned
      <4>2. got'[i] = got[i]
        BY <2>8, <3>1
      <4>3. got[i][1] < FrontMsg'
        BY <1>0, <2>4, <4>1
      <4> QED
        BY <1>0, <4>1, <4>2, <4>3
    <3>2. CASE i = Len(got) + 1
      BY <1>0, <2>4, <2>6, <2>8, <3>2
    <3> QED
      BY <2>7, <2>8, <3>1, <3>2
  <2>11. ASSUME NEW i \in 1 .. Len(got'), NEW j \in 1 .. Len(got'), i < j
         PROVE  got'[i][1] < got'[j][1]
    <3>1. i \in 1 .. Len(got) /\ got'[i] = got[i] /\ got[i][1] < m
      <4>1. i \in 1 .. Len(got)
        BY <2>7, <2>8, <2>11
      <4>2. got[i][1] < m
        BY <4>1 DEF Returned
      <4> QED
        BY <2>8, <4>1, <4>2
    <3>2. CASE j \in 1 .. Len(got)
      BY <2>8, <2>11, <3>1, <3>2 DEF Returned
    <3>3. CASE j = Len(got) + 1
      BY <2>8, <3>1, <3>3
    <3> QED
      BY <2>7, <2>8, <3>2, <3>3
  <2>12. ASSUME NEW k \in 1 .. WireV1!Message', k < FrontMsg', k \notin cut'
         PROVE  \E i \in 1 .. Len(got') : got'[i][1] = k
    <3>1. CASE k = m
      <4>1. Len(got) + 1 \in 1 .. Len(got') /\ got'[Len(got) + 1][1] = k
        BY <2>7, <2>8, <3>1
      <4> QED
        BY <4>1
    <3>2. CASE k # m
      <4>1. k \in 1 .. WireV1!Message /\ k < m /\ k \notin cut
        BY <1>0, <2>4, <2>12, <3>2
      <4>2. PICK i \in 1 .. Len(got) : got[i][1] = k
        BY <4>1 DEF Returned
      <4>3. i \in 1 .. Len(got') /\ got'[i][1] = k
        <5>1. i \in 1 .. Len(got')
          BY <2>7, <2>8
        <5> QED
          BY <2>8, <4>2, <5>1
      <4> QED
        BY <4>3
    <3> QED
      BY <3>1, <3>2
  <2>13. Returned'
    BY <1>0, <2>10, <2>11, <2>12 DEF Returned, WireV1!Whole
  <2> QED
    BY <1>0, <2>2, <2>8, <2>9, <2>13, EmptySeq
<1> QED
  BY <1>1, <1>2

\* what rep holds from its position a on
LEMMA Unpacked ==
  ASSUME WireV1!WireAssumption, NEW p \in WireV1!Packets, NEW a \in {1, WireV1!HeaderEnd}
  PROVE  /\ SubSeq(p.rep, a, PacketLen - 1) \in Seq(WireV1!Bytes)
         /\ Len(SubSeq(p.rep, a, PacketLen - 1)) = PacketLen - a
         /\ \A j \in 1 .. PacketLen - a :
              SubSeq(p.rep, a, PacketLen - 1)[j] = p.rep[a + j - 1]
<1>1. PacketLen \in Nat /\ PacketLen > 9 /\ a \in 1 .. 9
  BY DEF WireV1!WireAssumption, WireV1!HeaderEnd
<1>2. p.rep \in [1 .. PacketLen - 1 -> WireV1!Bytes]
  BY DEF WireV1!Packets
<1>3. p.rep \in Seq(WireV1!Bytes) /\ Len(p.rep) = PacketLen - 1
  BY <1>1, <1>2, IsASeq
<1> DEFINE e == PacketLen - 1
<1>4. a \in Int /\ e \in Int /\ a <= e /\ e - a + 1 = PacketLen - a
  BY <1>1
<1>5. \A i \in a .. e : p.rep[i] \in WireV1!Bytes
  BY <1>1, <1>2
<1> HIDE DEF e
<1>6. /\ SubSeq(p.rep, a, e) \in Seq(WireV1!Bytes)
      /\ Len(SubSeq(p.rep, a, e)) = IF a <= e THEN e - a + 1 ELSE 0
      /\ \A j \in 1 .. e - a + 1 : SubSeq(p.rep, a, e)[j] = p.rep[a + j - 1]
  BY <1>4, <1>5, SubSeqProperties
<1> QED
  BY <1>4, <1>6 DEF e

LEMMA HeaderEffect ==
  ASSUME WireV1!WireAssumption, WireV1!TypeOK, Writer, Stream, Reader, Returned, WireV1!Header
  PROVE  /\ Stream' /\ Reader' /\ Returned'
         /\ reading' \in {"no", "rest"} /\ size' \in Sizes
         /\ data' \in Seq(WireV1!Bytes) /\ (reading' # "rest" => data' = << >>)
         /\ got' \in Seq((1 .. MaxMessages) \X Seq(WireV1!Bytes))
<1> DEFINE p == bus[1]
           joined == SubSeq(p.rep, WireV1!HeaderEnd, PacketLen - 1)
<1>1. /\ bus # << >> /\ bus \in Seq(WireV1!Packets) /\ Head(bus) = p /\ p \in WireV1!Packets
      /\ p.magic /\ WireV1!Collect(p.size, joined) /\ UNCHANGED <<WireV1!writeVars, cut>>
      /\ bus' = Tail(bus)
  <2>1. /\ bus # << >> /\ Head(bus).magic /\ UNCHANGED <<WireV1!writeVars, cut>>
        /\ WireV1!Collect(Head(bus).size, SubSeq(Head(bus).rep, WireV1!HeaderEnd, PacketLen - 1))
    BY DEF WireV1!Header
  <2>2. bus \in Seq(WireV1!Packets) /\ 1 \in 1 .. Len(bus)
    BY <2>1, EmptySeq, LenProperties DEF WireV1!TypeOK
  <2>3. Head(bus) = p /\ p \in WireV1!Packets
    BY <2>1, <2>2, HeadTailProperties, ElementOfSeq
  <2> QED
    BY <2>1, <2>2, <2>3 DEF WireV1!Collect
<1>2. Stream' /\ Follows(sizes, FrontMsg, FrontBytes, FrontMsg', FrontBytes')
  BY <1>1, BusShrinks
<1>3. /\ FrontMsg \in 1 .. WireV1!Message /\ FrontBytes = 0 /\ p.size = sizes[FrontMsg]
      /\ \A i \in WireV1!HeaderEnd .. PacketLen - 1 :
           p.rep[i] = <<FrontMsg, IF i - WireV1!HeaderEnd + 1 <= sizes[FrontMsg]
                                  THEN i - WireV1!HeaderEnd + 1 ELSE 0>>
  <2>1. Carries(sizes, p, FrontMsg, FrontBytes)
    BY <1>1, FrontPlace
  <2>2. /\ FrontMsg \in 1 .. WireV1!Message /\ FrontBytes = 0 /\ p.size = sizes[FrontMsg]
        /\ \A i \in 1 .. PacketLen - 1 :
             p.rep[i] = <<FrontMsg, LET j == 0 + i - DataStart(0) + 1
                                    IN  IF DataStart(0) <= i /\ j <= sizes[FrontMsg]
                                        THEN j ELSE 0>>
    BY <1>1, <2>1 DEF Carries, WireV1!Message
  <2>3. ASSUME NEW i \in WireV1!HeaderEnd .. PacketLen - 1
        PROVE  p.rep[i] = <<FrontMsg, IF i - WireV1!HeaderEnd + 1 <= sizes[FrontMsg]
                                      THEN i - WireV1!HeaderEnd + 1 ELSE 0>>
    <3>1. /\ i \in 1 .. PacketLen - 1 /\ DataStart(0) = WireV1!HeaderEnd /\ WireV1!HeaderEnd <= i
          /\ 0 + i - WireV1!HeaderEnd + 1 = i - WireV1!HeaderEnd + 1
      BY Lengths DEF WireV1!HeaderEnd
    <3> QED
      BY <2>2, <3>1
  <2> QED
    BY <2>2, <2>3
<1>4. /\ joined \in Seq(WireV1!Bytes) /\ Len(joined) = PacketLen - WireV1!HeaderEnd
      /\ \A j \in 1 .. PacketLen - WireV1!HeaderEnd : joined[j] = p.rep[WireV1!HeaderEnd + j - 1]
  BY <1>1, Unpacked
<1>5. Len(joined) = FrontBytes + Capacity(FrontBytes) /\ Len(joined) \in Nat
  BY <1>3, <1>4, Lengths DEF Capacity, DataStart
<1>6. ASSUME NEW j \in 1 .. Len(joined)
      PROVE  joined[j] = <<FrontMsg, IF j <= sizes[FrontMsg] THEN j ELSE 0>>
  <2>1. /\ WireV1!HeaderEnd + j - 1 \in WireV1!HeaderEnd .. PacketLen - 1
        /\ (WireV1!HeaderEnd + j - 1) - WireV1!HeaderEnd + 1 = j
    BY <1>4, Lengths DEF WireV1!HeaderEnd
  <2> QED
    BY <1>3, <1>4, <2>1
<1> HIDE DEF p, joined
<1> QED
  BY <1>1, <1>2, <1>3, <1>4, <1>5, <1>6, CollectEffect DEF WireV1!writeVars

LEMMA RestEffect ==
  ASSUME WireV1!WireAssumption, WireV1!TypeOK, Writer, Stream, Reader, Returned, WireV1!Rest
  PROVE  /\ Stream' /\ Reader' /\ Returned'
         /\ reading' \in {"no", "rest"} /\ size' \in Sizes
         /\ data' \in Seq(WireV1!Bytes) /\ (reading' # "rest" => data' = << >>)
         /\ got' \in Seq((1 .. MaxMessages) \X Seq(WireV1!Bytes))
<1> DEFINE p == bus[1]
           more == SubSeq(p.rep, 1, PacketLen - 1)
           joined == data \o more
           m == FrontMsg
           w == FrontBytes
<1>1. /\ bus # << >> /\ p \in WireV1!Packets /\ reading = "rest"
      /\ WireV1!Collect(size, joined) /\ UNCHANGED <<WireV1!writeVars, cut>>
      /\ bus' = Tail(bus)
  <2>1. /\ bus # << >> /\ UNCHANGED <<WireV1!writeVars, cut>> /\ reading = "rest"
        /\ WireV1!Collect(size, data \o SubSeq(Head(bus).rep, 1, PacketLen - 1))
    BY DEF WireV1!Rest
  <2>2. bus \in Seq(WireV1!Packets) /\ 1 \in 1 .. Len(bus)
    BY <2>1, EmptySeq, LenProperties DEF WireV1!TypeOK
  <2>3. Head(bus) = p /\ p \in WireV1!Packets
    BY <2>1, <2>2, HeadTailProperties, ElementOfSeq
  <2> QED
    BY <2>1, <2>3 DEF WireV1!Collect
<1>2. Stream' /\ Follows(sizes, FrontMsg, FrontBytes, FrontMsg', FrontBytes')
  BY <1>1, BusShrinks
<1>3. /\ m \in 1 .. WireV1!Message /\ w \in Nat \ {0} /\ w < sizes[m] /\ size = sizes[m]
      /\ Len(data) = w /\ \A j \in 1 .. w : data[j] = <<m, j>>
      /\ sizes[m] \in Nat
  <2>1. /\ m \in 1 .. WireV1!Message /\ w > 0 /\ w < sizes[m] /\ size = sizes[m]
        /\ Len(data) = w /\ \A j \in 1 .. w : data[j] = <<m, j>>
    BY <1>1 DEF Reader
  <2>2. w \in Nat
    BY FrontPlace
  <2>3. sizes[m] \in Nat
    BY <2>1, Lengths
  <2> HIDE DEF m, w
  <2> QED
    BY <2>1, <2>2, <2>3
<1>4. \A i \in 1 .. PacketLen - 1 :
        p.rep[i] = <<m, IF w + i <= sizes[m] THEN w + i ELSE 0>>
  <2> SUFFICES ASSUME NEW i \in 1 .. PacketLen - 1
               PROVE  p.rep[i] = <<m, IF w + i <= sizes[m] THEN w + i ELSE 0>>
    OBVIOUS
  <2>1. Carries(sizes, p, m, w)
    BY <1>1, FrontPlace
  <2>2. p.rep[i] = <<m, LET j == w + i - DataStart(w) + 1
                        IN  IF DataStart(w) <= i /\ j <= sizes[m] THEN j ELSE 0>>
    BY <2>1 DEF Carries
  <2>3. DataStart(w) = 1 /\ 1 <= i /\ w + i - 1 + 1 = w + i
    BY <1>3, Lengths
  <2> QED
    BY <2>2, <2>3
<1>5. /\ more \in Seq(WireV1!Bytes) /\ Len(more) = PacketLen - 1
      /\ \A j \in 1 .. PacketLen - 1 : more[j] = p.rep[1 + j - 1]
  BY <1>1, Unpacked
<1>6. data \in Seq(WireV1!Bytes) /\ PacketLen \in Nat /\ PacketLen > 9
  <2>1. data \in Seq(WireV1!Bytes)
    BY DEF WireV1!TypeOK
  <2> QED
    BY <2>1, Lengths
<1> HIDE DEF more
<1>7. /\ joined \in Seq(WireV1!Bytes) /\ Len(joined) = w + (PacketLen - 1)
      /\ \A j \in 1 .. w + (PacketLen - 1) :
           joined[j] = IF j <= w THEN data[j] ELSE more[j - w]
  <2>1. /\ joined \in Seq(WireV1!Bytes) /\ Len(joined) = Len(data) + Len(more)
        /\ \A j \in 1 .. Len(data) + Len(more) :
             joined[j] = IF j <= Len(data) THEN data[j] ELSE more[j - Len(data)]
    BY <1>5, <1>6, ConcatProperties
  <2> HIDE DEF joined, m, w
  <2> QED
    BY <1>3, <1>5, <2>1
<1> HIDE DEF joined
<1>8. Capacity(w) = PacketLen - 1
  BY <1>3 DEF Capacity, DataStart
<1>9. ASSUME NEW j \in 1 .. Len(joined)
      PROVE  joined[j] = <<m, IF j <= sizes[m] THEN j ELSE 0>>
  <2>1. CASE j <= w
    BY <1>3, <1>6, <1>7, <2>1
  <2>2. CASE ~ j <= w
    <3>1. /\ j - w \in 1 .. PacketLen - 1 /\ 1 + (j - w) - 1 = j - w
          /\ w + (j - w) = j
      BY <1>3, <1>6, <1>7, <2>2
    <3>2. joined[j] = p.rep[j - w]
      BY <1>5, <1>7, <2>2, <3>1
    <3> QED
      BY <1>4, <3>1, <3>2
  <2> QED
    BY <2>1, <2>2
<1>10. Len(joined) = FrontBytes + Capacity(FrontBytes)
  BY <1>7, <1>8
<1> HIDE DEF p
<1> QED
  BY <1>1, <1>2, <1>3, <1>7, <1>9, <1>10, CollectEffect DEF WireV1!writeVars

\* what is skipped is the rest of a message that was cut
LEMMA SkipEffect ==
  ASSUME WireV1!WireAssumption, WireV1!TypeOK, Writer, Stream, Reader, Returned, WireV1!Skip
  PROVE  /\ Head(bus).rep[1][1] \in cut
         /\ Stream' /\ Reader' /\ Returned'
<1>1. /\ bus # << >> /\ ~Head(bus).magic /\ reading = "first"
      /\ bus' = Tail(bus) /\ UNCHANGED <<WireV1!writeVars, WireV1!readVars>>
  BY DEF WireV1!Skip
<1>2. bus \in Seq(WireV1!Packets) /\ Head(bus) = bus[1]
  BY <1>1, HeadTailProperties DEF WireV1!TypeOK
<1>3. Stream' /\ Follows(sizes, FrontMsg, FrontBytes, FrontMsg', FrontBytes')
  BY <1>1, BusShrinks
<1>4. Carries(sizes, bus[1], FrontMsg, FrontBytes)
  BY <1>1, FrontPlace
<1>5. FrontBytes \in Nat \ {0} /\ FrontMsg \in 1 .. WireV1!Message
  BY <1>1, <1>2, <1>4 DEF Carries, WireV1!Message
<1>6. FrontMsg \in cut
  BY <1>1, <1>5 DEF Reader
<1>7. FrontMsg = Head(bus).rep[1][1]
  BY <1>1, <1>2 DEF FrontMsg, MsgOf
<1>8. UNCHANGED <<sizes, WireV1!Message, cut, got, reading>>
  BY <1>1 DEF WireV1!writeVars, WireV1!readVars, WireV1!Message
<1>9. \/ FrontMsg' = FrontMsg
      \/ FrontMsg' = FrontMsg + 1 /\ FrontBytes' = 0
  BY <1>3 DEF Follows
<1>10. Reader'
  BY <1>1, <1>6, <1>8, <1>9 DEF Reader
<1>11. ASSUME NEW i \in 1 .. Len(got)
       PROVE  /\ got[i][1] \in 1 .. WireV1!Message /\ got[i][1] < FrontMsg'
              /\ got[i][2] = WireV1!Whole(got[i][1])
  <2>1. /\ got[i][1] \in 1 .. WireV1!Message /\ got[i][1] < FrontMsg
        /\ got[i][2] = WireV1!Whole(got[i][1])
    BY DEF Returned
  <2>2. WireV1!Message \in Nat
    BY Lengths
  <2>3. got[i][1] < FrontMsg'
    BY <1>5, <1>9, <2>1, <2>2
  <2> QED
    BY <2>1, <2>3
<1>12. ASSUME NEW m \in 1 .. WireV1!Message, m < FrontMsg', m \notin cut
       PROVE  \E i \in 1 .. Len(got) : got[i][1] = m
  <2>1. m # FrontMsg
    BY <1>6, <1>12
  <2>2. m < FrontMsg
    BY <1>5, <1>9, <1>12, <2>1, Lengths
  <2> QED
    BY <1>12, <2>2 DEF Returned
<1>13. Returned'
  BY <1>8, <1>11, <1>12 DEF Returned, WireV1!Whole
<1> QED
  BY <1>3, <1>6, <1>7, <1>10, <1>13

\* a read that is given up leaves the reader where it was, in a message that is cut
LEMMA GiveUpEffect ==
  ASSUME WireV1!WireAssumption, WireV1!TypeOK, Writer, Stream, Reader, Returned, WireV1!GiveUp
  PROVE  cut' \subseteq 1 .. MaxMessages /\ Reader' /\ Returned'
<1>1. /\ cut' = cut \cup {data[i][1] : i \in DOMAIN data}
      /\ reading' = "no" /\ data' = << >> /\ UNCHANGED <<WireV1!writeVars, bus, size, got>>
  BY DEF WireV1!GiveUp
<1>2. /\ UNCHANGED <<sizes, WireV1!Message, FrontMsg, FrontBytes>>
      /\ data \in Seq(WireV1!Bytes) /\ cut \subseteq 1 .. MaxMessages
  BY <1>1 DEF WireV1!writeVars, WireV1!Message, FrontMsg, FrontBytes, WriterMsg, WriterBytes, Writing,
              WireV1!MorePackets, WireV1!TypeOK
<1>3. ASSUME NEW i \in DOMAIN data PROVE data[i][1] \in 1 .. MaxMessages
  <2>1. data[i] \in WireV1!Bytes
    BY <1>2, LenProperties, ElementOfSeq
  <2> QED
    BY <2>1 DEF WireV1!Bytes
<1>4. cut' \subseteq 1 .. MaxMessages
  BY <1>1, <1>2, <1>3
<1>5. FrontBytes > 0 => FrontMsg \in cut'
  <2>1. CASE reading = "rest"
    <3>1. /\ FrontBytes > 0 /\ Len(data) = FrontBytes
          /\ \A j \in 1 .. FrontBytes : data[j] = <<FrontMsg, j>>
      BY <2>1 DEF Reader
    <3>2. FrontBytes \in Nat
      BY FrontPlace
    <3>3. 1 \in DOMAIN data /\ data[1][1] = FrontMsg
      BY <1>2, <3>1, <3>2, LenProperties
    <3> QED
      BY <1>1, <3>3
  <2>2. CASE reading # "rest"
    BY <1>1, <2>2 DEF Reader
  <2> QED
    BY <2>1, <2>2
<1>6. Reader'
  BY <1>1, <1>2, <1>5 DEF Reader
<1>7. \A i \in 1 .. Len(got') :
        /\ got'[i][1] \in 1 .. WireV1!Message' /\ got'[i][1] < FrontMsg'
        /\ got'[i][2] = [j \in 1 .. sizes'[got'[i][1]] |-> <<got'[i][1], j>>]
  BY <1>1, <1>2 DEF Returned, WireV1!Whole
<1>8. \A m \in 1 .. WireV1!Message' :
        m < FrontMsg' /\ m \notin cut' => \E i \in 1 .. Len(got') : got'[i][1] = m
  BY <1>1, <1>2 DEF Returned
<1>9. \A i, j \in 1 .. Len(got') : i < j => got'[i][1] < got'[j][1]
  BY <1>1 DEF Returned
<1>10. Returned'
  BY <1>7, <1>8, <1>9 DEF Returned, WireV1!Whole
<1> QED
  BY <1>4, <1>6, <1>10
-----------------------------------------------------------------------------
LEMMA WireInitIInv == WireV1!WireAssumption /\ WireV1!Init => WireIInv
<1> SUFFICES ASSUME WireV1!WireAssumption, WireV1!Init PROVE WireIInv
  OBVIOUS
<1>1. /\ sizes = << >> /\ wire_written = 0 /\ offset = 0 /\ bus = << >>
      /\ reading = "no" /\ size = 0 /\ data = << >> /\ got = << >> /\ cut = {}
  BY DEF WireV1!Init
<1>2. Len(sizes) = 0 /\ Len(bus) = 0 /\ Len(got) = 0 /\ \A S : << >> \in Seq(S)
  BY <1>1, EmptySeq
<1>3. WireV1!Message = 0
  BY <1>2 DEF WireV1!Message
<1>4. WireV1!TypeOK
  BY <1>1, <1>2, <1>3 DEF WireV1!TypeOK, WireV1!WireAssumption
<1>5. Writer
  BY <1>1 DEF Writer
<1>6. Stream
  BY <1>1, <1>2 DEF Stream
<1>7. FrontBytes = 0
  BY <1>1 DEF FrontBytes, WriterBytes, Writing
<1>8. Reader
  BY <1>1, <1>7 DEF Reader
<1>9. Returned
  BY <1>2, <1>3 DEF Returned
<1> QED
  BY <1>4, <1>5, <1>6, <1>8, <1>9 DEF WireIInv

\* messages are added, sizes are kept
LEMMA BeginEffect ==
  ASSUME WireV1!WireAssumption, WireV1!TypeOK, NEW n \in Sizes, WireV1!Begin(n)
  PROVE  /\ WireV1!TypeOK' /\ Writer' /\ UNCHANGED <<WriterMsg, WriterBytes>>
         /\ WireV1!Message <= WireV1!Message' /\ WireV1!Message' \in Nat
         /\ \A m \in 1 .. WireV1!Message : sizes'[m] = sizes[m]
<1>1. /\ offset = 0 /\ WireV1!Message < MaxMessages /\ sizes' = Append(sizes, n)
      /\ wire_written' = 0 /\ offset' = WireV1!HeaderEnd /\ UNCHANGED <<bus, WireV1!readVars>>
  BY DEF WireV1!Begin
<1>2. sizes \in Seq(Sizes) /\ WireV1!Message \in Nat /\ MaxMessages \in Nat
  BY Lengths DEF WireV1!TypeOK, WireV1!WireAssumption
<1>3. /\ sizes' \in Seq(Sizes) /\ Len(sizes') = WireV1!Message + 1
      /\ sizes'[WireV1!Message + 1] = n
      /\ \A m \in 1 .. WireV1!Message : sizes'[m] = sizes[m]
  BY <1>1, <1>2, AppendProperties DEF WireV1!Message
<1>4. WireV1!Message' = WireV1!Message + 1
  BY <1>3 DEF WireV1!Message
<1>5. n \in Nat
  BY DEF WireV1!WireAssumption
<1>6. WireV1!TypeOK'
  BY <1>1, <1>2, <1>3, <1>4 DEF WireV1!TypeOK, WireV1!readVars
<1>7. Writer'
  BY <1>1, <1>2, <1>3, <1>4, <1>5 DEF Writer, DataStart
<1>8. WriterMsg = WireV1!Message + 1 /\ WriterBytes = 0
  BY <1>1 DEF WriterMsg, WriterBytes, Writing
<1>9. WriterMsg' = WireV1!Message + 1 /\ WriterBytes' = 0
  BY <1>1, <1>4 DEF WriterMsg, WriterBytes, Writing, WireV1!MorePackets, WireV1!HeaderEnd
<1> QED
  BY <1>2, <1>3, <1>4, <1>6, <1>7, <1>8, <1>9

LEMMA WireStep ==
  ASSUME WireV1!WireAssumption, WireIInv, [WireV1!Next]_WireV1!vars
  PROVE  WireIInv'
<1>0. WireV1!TypeOK /\ Writer /\ Stream /\ Reader /\ Returned
  BY DEF WireIInv
<1>l. WireV1!Message \in Nat
  BY <1>0, Lengths
<1>1. ASSUME NEW n \in Sizes, WireV1!Begin(n) PROVE WireIInv'
  <2>1. /\ WireV1!TypeOK' /\ Writer' /\ UNCHANGED <<WriterMsg, WriterBytes>>
        /\ WireV1!Message <= WireV1!Message' /\ WireV1!Message' \in Nat
        /\ \A m \in 1 .. WireV1!Message : sizes'[m] = sizes[m]
    BY <1>0, <1>1, BeginEffect
  <2>2. UNCHANGED <<bus, reading, size, data, got, cut>>
    BY <1>1 DEF WireV1!Begin, WireV1!readVars
  <2>3. Stream' /\ UNCHANGED <<FrontMsg, FrontBytes>>
    BY <1>0, <2>1, <2>2, SameBus
  <2>4. Reader' /\ Returned'
    BY <1>0, <2>1, <2>2, <2>3, FrontStays
  <2> QED
    BY <2>1, <2>3, <2>4 DEF WireIInv
<1>2. CASE WireV1!Write
  <2>1. Stream' /\ UNCHANGED <<FrontMsg, FrontBytes>>
    BY <1>0, <1>2, BusGrows
  <2>2. PICK p \in WireV1!Packets : bus' = Append(bus, p)
    BY <1>0, <1>2, WriteEffect
  <2>3. wire_written' \in Nat /\ offset' \in {0, 1} /\ Writer' /\ UNCHANGED sizes
    BY <1>0, <1>2, WriteEffect
  <2>4. UNCHANGED <<WireV1!Message, reading, size, data, got, cut>>
    BY <1>2, <2>3 DEF WireV1!Write, WireV1!readVars, WireV1!Message
  <2>5. bus' \in Seq(WireV1!Packets)
    BY <1>0, <2>2, AppendProperties DEF WireV1!TypeOK
  <2>6. WireV1!TypeOK'
    BY <1>0, <2>3, <2>4, <2>5 DEF WireV1!TypeOK
  <2>7. Reader' /\ Returned'
    BY <1>0, <1>l, <2>1, <2>3, <2>4, FrontStays
  <2> QED
    BY <2>1, <2>3, <2>6, <2>7 DEF WireIInv
<1>3. CASE WireV1!WriteDone
  <2>1. /\ offset # 0 /\ ~WireV1!MorePackets /\ offset' = 0
        /\ UNCHANGED <<sizes, wire_written, bus, reading, size, data, got, cut>>
    BY <1>3 DEF WireV1!WriteDone, WireV1!readVars
  <2>2. UNCHANGED WireV1!Message
    BY <2>1 DEF WireV1!Message
  <2>3. UNCHANGED <<WriterMsg, WriterBytes>>
    BY <2>1, <2>2 DEF WriterMsg, WriterBytes, Writing
  <2>4. WireV1!TypeOK'
    BY <1>0, <2>1, <2>2 DEF WireV1!TypeOK
  <2>5. Writer'
    BY <2>1 DEF Writer
  <2>6. Stream' /\ UNCHANGED <<FrontMsg, FrontBytes>>
    BY <1>0, <1>l, <2>1, <2>2, <2>3, <2>4, SameBus
  <2>7. Reader' /\ Returned'
    BY <1>0, <1>l, <2>1, <2>2, <2>6, FrontStays
  <2> QED
    BY <2>4, <2>5, <2>6, <2>7 DEF WireIInv
<1>4. CASE WireV1!Start \/ UNCHANGED WireV1!vars
  <2>1. /\ UNCHANGED <<sizes, wire_written, offset, bus, size, data, got, cut>>
        /\ (reading # "rest" /\ reading' = "first") \/ reading' = reading
    BY <1>4 DEF WireV1!Start, WireV1!vars, WireV1!writeVars, WireV1!readVars
  <2>2. UNCHANGED <<WireV1!Message, WriterMsg, WriterBytes>>
    BY <2>1 DEF WireV1!Message, WriterMsg, WriterBytes, Writing, WireV1!MorePackets
  <2>3. WireV1!TypeOK'
    BY <1>0, <2>1, <2>2 DEF WireV1!TypeOK
  <2>4. Writer'
    BY <1>0, <2>1, <2>2 DEF Writer
  <2>5. Stream' /\ UNCHANGED <<FrontMsg, FrontBytes>>
    BY <1>0, <1>l, <2>1, <2>2, <2>3, SameBus
  <2>6. Reader' /\ Returned'
    BY <1>0, <1>l, <2>1, <2>2, <2>5, FrontStays
  <2> QED
    BY <2>3, <2>4, <2>5, <2>6 DEF WireIInv
<1>5. ASSUME UNCHANGED WireV1!writeVars PROVE Writer' /\ UNCHANGED WireV1!Message
  BY <1>0, <1>5 DEF Writer, WireV1!writeVars, WireV1!Message
<1>6. ASSUME bus # << >>, bus' = Tail(bus) PROVE bus' \in Seq(WireV1!Packets)
  BY <1>0, <1>6, HeadTailProperties DEF WireV1!TypeOK
<1>7. CASE WireV1!Skip
  <2>1. Stream' /\ Reader' /\ Returned'
    BY <1>0, <1>7, SkipEffect
  <2>2. bus # << >> /\ bus' = Tail(bus) /\ UNCHANGED <<WireV1!writeVars, WireV1!readVars>>
    BY <1>7 DEF WireV1!Skip
  <2>3. WireV1!TypeOK'
    BY <1>0, <1>5, <1>6, <2>2 DEF WireV1!TypeOK, WireV1!writeVars, WireV1!readVars
  <2> QED
    BY <1>5, <2>1, <2>2, <2>3 DEF WireIInv
<1>8. CASE WireV1!Header \/ WireV1!Rest
  <2>1. /\ Stream' /\ Reader' /\ Returned'
        /\ reading' \in {"no", "rest"} /\ size' \in Sizes
        /\ data' \in Seq(WireV1!Bytes) /\ (reading' # "rest" => data' = << >>)
        /\ got' \in Seq((1 .. MaxMessages) \X Seq(WireV1!Bytes))
    <3>1. CASE WireV1!Header
      BY <1>0, <3>1, HeaderEffect
    <3>2. CASE WireV1!Rest
      BY <1>0, <3>2, RestEffect
    <3> QED
      BY <1>8, <3>1, <3>2
  <2>2. bus # << >> /\ bus' = Tail(bus) /\ UNCHANGED <<WireV1!writeVars, cut>>
    BY <1>8 DEF WireV1!Header, WireV1!Rest, WireV1!Collect
  <2>3. WireV1!TypeOK'
    BY <1>0, <1>5, <1>6, <2>1, <2>2 DEF WireV1!TypeOK, WireV1!writeVars
  <2> QED
    BY <1>5, <2>1, <2>2, <2>3 DEF WireIInv
<1>9. CASE WireV1!GiveUp
  <2>1. cut' \subseteq 1 .. MaxMessages /\ Reader' /\ Returned'
    BY <1>0, <1>9, GiveUpEffect
  <2>2. /\ reading' = "no" /\ data' = << >> /\ UNCHANGED <<WireV1!writeVars, bus, size, got>>
    BY <1>9 DEF WireV1!GiveUp
  <2>3. WireV1!TypeOK'
    BY <1>0, <1>5, <2>1, <2>2, EmptySeq DEF WireV1!TypeOK, WireV1!writeVars
  <2>4. UNCHANGED <<WriterMsg, WriterBytes, sizes>>
    BY <2>2 DEF WireV1!writeVars, WireV1!Message, WriterMsg, WriterBytes, Writing, WireV1!MorePackets
  <2>5. Stream'
    BY <1>0, <1>5, <1>l, <2>2, <2>3, <2>4, SameBus
  <2> QED
    BY <1>5, <2>1, <2>2, <2>3, <2>5 DEF WireIInv
<1> QED
  BY <1>1, <1>2, <1>3, <1>4, <1>7, <1>8, <1>9 DEF WireV1!Next

(***************************************************************************)
(* The invariant, for messages whose data do not look like headers.        *)
(***************************************************************************)
THEOREM WireInvariant ==
  ASSUME WireV1!WireAssumption
  PROVE  WireV1!Spec => []WireIInv
<1>1. WireV1!Init => WireIInv
  BY WireInitIInv
<1>2. WireIInv /\ [WireV1!Next]_WireV1!vars => WireIInv'
  BY WireStep
<1> QED
  BY <1>1, <1>2, PTL DEF WireV1!Spec

(***************************************************************************)
(* The types of WriteTo's and ReadFrom's variables.                        *)
(***************************************************************************)
THEOREM WireTypeCorrect ==
  ASSUME WireV1!WireAssumption
  PROVE  WireV1!Spec => []WireV1!TypeOK
<1>1. WireIInv => WireV1!TypeOK
  BY DEF WireIInv
<1> QED
  BY <1>1, WireInvariant, PTL

(***************************************************************************)
(* Each message that ReadFrom returns is one that WriteTo was given, with  *)
(* all its bytes in their order, wherever an earlier read was given up.    *)
(***************************************************************************)
THEOREM MessagesAreWhole ==
  ASSUME WireV1!WireAssumption
  PROVE  WireV1!Spec => []WireV1!WholeMessages
<1>1. WireIInv => WireV1!WholeMessages
  BY LenProperties DEF WireIInv, Returned, WireV1!WholeMessages, WireV1!TypeOK
<1> QED
  BY <1>1, WireInvariant, PTL

(***************************************************************************)
(* When nothing is on its way and nobody reads, each message written was   *)
(* returned exactly once, or a read was given up in it.                    *)
(***************************************************************************)
THEOREM NoMessageIsLost ==
  ASSUME WireV1!WireAssumption
  PROVE  WireV1!Spec => []WireV1!NoneLost
<1>1. ASSUME WireIInv PROVE WireV1!NoneLost
  <2> SUFFICES ASSUME bus = << >>, reading = "no", NEW m \in 1 .. WireV1!Message, WireV1!Done(m), m \notin cut
               PROVE  Cardinality({i \in DOMAIN got : got[i][1] = m}) = 1
    BY SameCardinality DEF WireV1!NoneLost
  <2>1. WireV1!TypeOK /\ Returned /\ WireV1!Message \in Nat
    BY <1>1, Lengths DEF WireIInv
  <2>2. FrontMsg = WriterMsg
    BY DEF FrontMsg
  <2>3. m < FrontMsg
    BY <2>1, <2>2 DEF WireV1!Done, WriterMsg, Writing
  <2>4. PICK i \in 1 .. Len(got) : got[i][1] = m
    BY <2>1, <2>3 DEF Returned
  <2>5. Len(got) \in Nat /\ DOMAIN got = 1 .. Len(got)
    BY <2>1, LenProperties DEF WireV1!TypeOK
  <2>6. ASSUME NEW j \in 1 .. Len(got), got[j][1] = m PROVE j = i
    <3>1. j < i => got[j][1] < got[i][1]
      BY <2>1 DEF Returned
    <3>2. i < j => got[i][1] < got[j][1]
      BY <2>1 DEF Returned
    <3>3. m \in Nat
      BY <2>1
    <3> QED
      BY <2>4, <2>5, <2>6, <3>1, <3>2, <3>3
  <2>7. {k \in DOMAIN got : got[k][1] = m} = {i}
    BY <2>4, <2>5, <2>6
  <2> QED
    BY <2>7, FS_Singleton
<1> QED
  BY <1>1, WireInvariant, PTL

(***************************************************************************)
(* ReadFrom skips packets of messages whose read was given up only: reader *)
(* and writer agree on where a message ends.                               *)
(***************************************************************************)
THEOREM OnlyLeftoversSkipped ==
  ASSUME WireV1!WireAssumption
  PROVE  WireV1!Spec => [][WireV1!SkipsOnlyCut]_WireV1!vars
<1>1. ASSUME WireIInv, [WireV1!Next]_WireV1!vars PROVE [WireV1!SkipsOnlyCut]_WireV1!vars
  BY <1>1, SkipEffect DEF WireIInv, WireV1!SkipsOnlyCut
<1> QED
  BY <1>1, WireInvariant, PTL DEF WireV1!Spec
-----------------------------------------------------------------------------
(***************************************************************************)
(* The log keeps exactly the first StartCount lines and the newest         *)
(* MaxLineCount of the others, and every export is the log of one moment,  *)
(* complete when it ends.  That an export is the log of one moment needs   *)
(* Progress: how much of it is written at each of its steps.               *)
(***************************************************************************)

Progress ==
  /\ log_mutex = "lines" => Len(out) <= Len(lines)
  /\ log_mutex = "gap" => Len(out) = Len(lines)
  /\ log_mutex = "startLines" =>
       Len(lines) < Len(out) /\ Len(out) <= Len(lines) + 1 + Len(startLines)
  /\ log_mutex = "done" => Len(out) = Len(lines) + 1 + Len(startLines)

LogIInv ==
  /\ Log!Types
  /\ Log!KeepsFirstAndLast
  /\ Log!ExportIsOneMoment
  /\ Progress
-----------------------------------------------------------------------------
\* rotating leaves room for a line and keeps the newest ones, in order
LEMMA RotatedKeepsNewest ==
  ASSUME Log!LogAssumption, lines \in Seq(1 .. log_written)
  PROVE  /\ Log!Rotated \in Seq(1 .. log_written)
         /\ Len(Log!Rotated) = Log!Least(Len(lines), MaxLineCount - 1)
         /\ \A i \in 1 .. Len(Log!Rotated) :
              Log!Rotated[i] = lines[Len(lines) - Len(Log!Rotated) + i]
<1>1. CASE Len(lines) >= MaxLineCount
  <2> DEFINE m == Len(lines) - MaxLineCount + 2
  <2>1. Log!Rotated = SubSeq(lines, m, Len(lines))
    BY <1>1 DEF Log!Rotated
  <2>2. m \in 1 .. Len(lines) + 1 /\ Len(lines) \in Nat /\ MaxLineCount \in Nat \ {0}
    BY <1>1 DEF Log!LogAssumption
  <2>3. m \in Int /\ Len(lines) \in Int /\ \A i \in m .. Len(lines) : lines[i] \in 1 .. log_written
    <3>1. \A i \in 1 .. Len(lines) : lines[i] \in 1 .. log_written
      BY ElementOfSeq
    <3> QED
      BY <2>2, <3>1
  <2> HIDE DEF m
  <2>4. /\ Log!Rotated \in Seq(1 .. log_written)
        /\ Len(Log!Rotated) = IF m <= Len(lines) THEN Len(lines) - m + 1 ELSE 0
        /\ \A i \in 1 .. Len(lines) - m + 1 : Log!Rotated[i] = lines[m + i - 1]
    BY <2>1, <2>3, SubSeqProperties
  <2>5. Len(lines) - m + 1 = MaxLineCount - 1
    BY <2>2 DEF m
  <2>6. Len(Log!Rotated) = MaxLineCount - 1 /\ m = Len(lines) - Len(Log!Rotated) + 1
    BY <1>1, <2>2, <2>4, <2>5
  <2>7. Log!Least(Len(lines), MaxLineCount - 1) = MaxLineCount - 1
    BY <1>1, <2>2 DEF Log!Least
  <2>8. ASSUME NEW i \in 1 .. Len(Log!Rotated)
        PROVE  Log!Rotated[i] = lines[Len(lines) - Len(Log!Rotated) + i]
    <3>1. Log!Rotated[i] = lines[m + i - 1] /\ i \in Int
      BY <2>4, <2>5, <2>6
    <3>2. m + i - 1 = Len(lines) - Len(Log!Rotated) + i
      BY <2>2, <2>6, <3>1
    <3> QED
      BY <3>1, <3>2
  <2> QED
    BY <2>4, <2>6, <2>7, <2>8
<1>2. CASE ~(Len(lines) >= MaxLineCount)
  BY <1>2 DEF Log!Rotated, Log!Least, Log!LogAssumption
<1> QED
  BY <1>1, <1>2

LEMMA LogInitIInv == Log!LogAssumption /\ Log!Init => LogIInv
<1> SUFFICES ASSUME Log!LogAssumption, Log!Init PROVE LogIInv
  OBVIOUS
<1> USE DEF Log!LogAssumption, Log!Init
<1>1. \A S : << >> \in Seq(S)
  OBVIOUS
<1>2. Len(startLines) = 0 /\ Len(lines) = 0 /\ Len(out) = 0
  OBVIOUS
<1>3. Log!Types
  BY <1>1 DEF Log!Types
<1>4. Log!KeepsFirstAndLast
  <2>1. Log!Least(log_written, StartCount) = 0
    BY DEF Log!Least
  <2>2. Log!Least(log_written - Len(startLines), MaxLineCount) = 0
    <3>1. log_written = 0 /\ Len(startLines) = 0 /\ MaxLineCount > 0 /\ MaxLineCount \in Nat
      BY <1>2
    <3> HIDE DEF Log!Init
    <3> QED
      BY <3>1 DEF Log!Least
  <2> QED
    BY <1>2, <2>1, <2>2 DEF Log!KeepsFirstAndLast
<1> QED
  BY <1>3, <1>4 DEF LogIInv, Log!ExportIsOneMoment, Progress
-----------------------------------------------------------------------------
\* a write goes to the first lines, or to the end of the rotated window
LEMMA WriteIInv == ASSUME Log!LogAssumption, LogIInv, Log!Write PROVE LogIInv'
<1> USE DEF Log!LogAssumption
<1>1. /\ log_mutex' = "free" /\ out' = out /\ log_written' = log_written + 1
      /\ log_written \in Nat /\ log_written' \in 0 .. MaxWrites
  BY DEF Log!Write, LogIInv, Log!Types
<1>2. lines \in Seq(1 .. log_written) /\ startLines \in Seq(1 .. log_written) /\ out \in Seq(0 .. log_written)
  BY DEF LogIInv, Log!Types
<1>3. \A s \in Seq(1 .. log_written) : s \in Seq(1 .. log_written')
  BY <1>1
<1>4. out' \in Seq(0 .. log_written')
  BY <1>1, <1>2
<1>5. Log!KeepsFirstAndLast
  BY DEF LogIInv
<1>6. CASE Len(startLines) < StartCount
  <2>1. startLines' = Append(startLines, log_written + 1) /\ lines' = lines
    BY <1>6, <1>1 DEF Log!Write
  <2>2. startLines' \in Seq(1 .. log_written') /\ lines' \in Seq(1 .. log_written')
    BY <2>1, <1>1, <1>2, <1>3
  <2>3. Len(startLines) = log_written /\ Len(lines) = 0
    BY <1>1, <1>2, <1>5, <1>6 DEF Log!KeepsFirstAndLast, Log!Least
  <2>4. Len(startLines') = log_written + 1
    BY <2>1, <2>3, <1>1, <1>2
  <2>5. \A i \in 1 .. Len(startLines') : startLines'[i] = i
    BY <2>1, <2>3, <2>4, <1>1, <1>2, <1>5 DEF Log!KeepsFirstAndLast
  <2>6. Len(startLines') = Log!Least(log_written', StartCount)
    BY <2>3, <2>4, <1>1, <1>6 DEF Log!Least
  <2>7. Len(lines') = Log!Least(log_written' - Len(startLines'), MaxLineCount)
    BY <2>1, <2>3, <2>4, <1>1 DEF Log!Least
  <2>8. \A i \in 1 .. Len(lines') : lines'[i] = log_written' - Len(lines') + i
    BY <2>1, <2>3
  <2>9. Log!KeepsFirstAndLast'
    BY <2>5, <2>6, <2>7, <2>8 DEF Log!KeepsFirstAndLast
  <2> QED
    BY <1>1, <1>4, <2>2, <2>9 DEF LogIInv, Log!Types, Log!ExportIsOneMoment, Progress
<1>7. CASE ~(Len(startLines) < StartCount)
  <2>1. lines' = Append(Log!Rotated, log_written + 1) /\ startLines' = startLines
    BY <1>7, <1>1 DEF Log!Write
  <2>2. /\ Log!Rotated \in Seq(1 .. log_written)
        /\ Len(Log!Rotated) = Log!Least(Len(lines), MaxLineCount - 1)
        /\ \A i \in 1 .. Len(Log!Rotated) :
             Log!Rotated[i] = lines[Len(lines) - Len(Log!Rotated) + i]
    BY <1>2, RotatedKeepsNewest
  <2>3. startLines' \in Seq(1 .. log_written') /\ lines' \in Seq(1 .. log_written')
    BY <2>1, <2>2, <1>1, <1>2, <1>3
  <2>4. Len(startLines) = StartCount /\ StartCount <= log_written
    BY <1>1, <1>2, <1>5, <1>7 DEF Log!KeepsFirstAndLast, Log!Least
  <2>5. Len(lines') = Log!Least(log_written' - Len(startLines'), MaxLineCount)
    <3>1. Len(lines') = Len(Log!Rotated) + 1
      BY <2>1, <2>2
    <3>2. Len(lines) = Log!Least(log_written - StartCount, MaxLineCount)
      BY <2>4, <1>5 DEF Log!KeepsFirstAndLast
    <3>3. log_written' - Len(startLines') = log_written - StartCount + 1
      BY <2>1, <2>4, <1>1
    <3> QED
      BY <3>1, <3>2, <3>3, <2>2, <2>4, <1>1 DEF Log!Least
  <2>6. ASSUME NEW i \in 1 .. Len(lines')
        PROVE  lines'[i] = log_written' - Len(lines') + i
    <3>1. Len(lines') = Len(Log!Rotated) + 1 /\ Len(Log!Rotated) \in Nat /\ Len(Log!Rotated) <= Len(lines)
      BY <2>1, <2>2, <1>2 DEF Log!Least
    <3>2. CASE i = Len(lines')
      BY <3>1, <3>2, <2>1, <2>2, <1>1
    <3>3. CASE i # Len(lines')
      <4>1. i \in 1 .. Len(Log!Rotated) /\ lines'[i] = Log!Rotated[i]
        BY <3>1, <3>3, <2>1, <2>2
      <4>2. Len(lines) - Len(Log!Rotated) + i \in 1 .. Len(lines)
        BY <3>1, <4>1, <1>2
      <4>3. Log!Rotated[i] = log_written - Len(lines) + (Len(lines) - Len(Log!Rotated) + i)
        BY <2>2, <4>1, <4>2, <1>5 DEF Log!KeepsFirstAndLast
      <4> QED
        BY <3>1, <4>1, <4>3, <1>1, <1>2
    <3> QED
      BY <3>2, <3>3
  <2>7. Log!KeepsFirstAndLast'
    BY <2>1, <2>4, <2>5, <2>6, <1>1, <1>5 DEF Log!KeepsFirstAndLast, Log!Least
  <2> QED
    BY <1>1, <1>4, <2>3, <2>7 DEF LogIInv, Log!Types, Log!ExportIsOneMoment, Progress
<1> QED
  BY <1>6, <1>7
-----------------------------------------------------------------------------
\* the steps of an export leave the log alone and write its next line
LEMMA ExportIInv ==
  ASSUME Log!LogAssumption, LogIInv,
         Log!WriteTo \/ Log!WriteLine \/ Log!WriteGap \/ Log!WriteStartLine \/ Log!Unlock
  PROVE  LogIInv'
<1> USE DEF Log!LogAssumption
<1>1. UNCHANGED <<log_written, startLines, lines>>
  BY DEF Log!WriteTo, Log!WriteLine, Log!WriteGap, Log!WriteStartLine, Log!Unlock
<1>2. Log!KeepsFirstAndLast /\ Log!KeepsFirstAndLast'
  BY <1>1 DEF LogIInv, Log!KeepsFirstAndLast
<1>3. /\ log_written \in Nat /\ Len(lines) \in Nat /\ Len(startLines) \in Nat
      /\ Len(out) \in Nat /\ out \in Seq(0 .. log_written)
      /\ Len(lines) <= log_written /\ Len(startLines) <= log_written
      /\ lines \in Seq(1 .. log_written) /\ startLines \in Seq(1 .. log_written)
  BY <1>2 DEF LogIInv, Log!Types, Log!KeepsFirstAndLast, Log!Least
<1>4. CASE Log!WriteTo
  BY <1>1, <1>2, <1>3, <1>4 DEF Log!WriteTo, LogIInv, Log!Types, Log!ExportIsOneMoment, Progress
<1>5. CASE Log!WriteLine
  <2>1. CASE Len(out) < Len(lines)
    <3>1. out' = Append(out, lines[Len(lines) - Len(out)]) /\ log_mutex' = log_mutex /\ log_mutex = "lines"
      BY <1>5, <2>1 DEF Log!WriteLine
    <3>2. lines[Len(lines) - Len(out)] = log_written - Len(out)
      <4>1. Len(lines) - Len(out) \in 1 .. Len(lines)
        BY <2>1, <1>3
      <4>2. lines[Len(lines) - Len(out)] = log_written - Len(lines) + (Len(lines) - Len(out))
        BY <4>1, <1>2 DEF Log!KeepsFirstAndLast
      <4> QED
        BY <4>2, <1>3
    <3>3. out' = Append(out, log_written - Len(out)) /\ log_written - Len(out) \in 0 .. log_written
      BY <3>1, <3>2, <2>1, <1>3
    <3>4. out' \in Seq(0 .. log_written') /\ Len(out') = Len(out) + 1
      BY <3>3, <1>1, <1>3
    <3>5. Log!ExportIsOneMoment'
      <4> SUFFICES ASSUME NEW j \in 1 .. Len(out')
                   PROVE  out'[j] = Log!LineOfExport(j)
        BY <1>1 DEF Log!ExportIsOneMoment, Log!LineOfExport
      <4>1. CASE j = Len(out')
        BY <4>1, <3>3, <3>4, <2>1, <1>3 DEF Log!LineOfExport
      <4>2. CASE j # Len(out')
        <5>1. j \in 1 .. Len(out) /\ out'[j] = out[j]
          BY <4>2, <3>3, <3>4, <1>3
        <5> QED
          BY <5>1, <3>1 DEF LogIInv, Log!ExportIsOneMoment
      <4> QED
        BY <4>1, <4>2
    <3> QED
      BY <3>1, <3>4, <3>5, <2>1, <1>1, <1>2, <1>3 DEF LogIInv, Log!Types, Progress
  <2>2. CASE ~(Len(out) < Len(lines))
    BY <1>1, <1>2, <1>3, <1>5, <2>2 
       DEF Log!WriteLine, LogIInv, Log!Types, Log!ExportIsOneMoment, Log!LineOfExport, Progress
  <2> QED
    BY <2>1, <2>2
<1>6. CASE Log!WriteGap
  <2>1. out' = Append(out, 0) /\ log_mutex' = "startLines" /\ log_mutex = "gap" /\ Len(out) = Len(lines)
    BY <1>6 DEF Log!WriteGap, LogIInv, Progress
  <2>2. out' \in Seq(0 .. log_written') /\ Len(out') = Len(out) + 1
    BY <2>1, <1>1, <1>3
  <2>3. Log!ExportIsOneMoment'
    BY <2>1, <2>2, <1>1, <1>3 DEF LogIInv, Log!ExportIsOneMoment, Log!LineOfExport
  <2> QED
    BY <2>1, <2>2, <2>3, <1>1, <1>2, <1>3 DEF LogIInv, Log!Types, Progress
<1>7. CASE Log!WriteStartLine
  <2>1. CASE Log!StartLinesOut < Len(startLines)
    <3> DEFINE k == Len(startLines) - Log!StartLinesOut
    <3>1. out' = Append(out, startLines[k]) /\ log_mutex' = log_mutex /\ log_mutex = "startLines"
      BY <1>7, <2>1 DEF Log!WriteStartLine
    <3>2. k \in 1 .. Len(startLines) /\ k = Len(startLines) + Len(lines) + 1 - Len(out)
      BY <3>1, <2>1, <1>3 DEF Log!StartLinesOut, LogIInv, Progress
    <3>3. startLines[k] = k
      BY <3>2, <1>2 DEF Log!KeepsFirstAndLast
    <3>4. out' = Append(out, k) /\ k \in 0 .. log_written
      BY <3>1, <3>2, <3>3, <1>3
    <3> HIDE DEF k
    <3>5. out' \in Seq(0 .. log_written') /\ Len(out') = Len(out) + 1
      BY <3>4, <1>1, <1>3
    <3>6. Log!ExportIsOneMoment'
      <4>1. Len(lines) < Len(out)
        BY <3>1 DEF LogIInv, Progress
      <4> SUFFICES ASSUME NEW j \in 1 .. Len(out')
                   PROVE  out'[j] = Log!LineOfExport(j)
        BY <1>1 DEF Log!ExportIsOneMoment, Log!LineOfExport
      <4>2. CASE j = Len(out')
        <5>1. out'[j] = k
          BY <4>2, <3>4, <3>5, <1>3
        <5>2. j = Len(out) + 1 /\ j > Len(lines) + 1
          BY <4>1, <4>2, <3>5, <1>3
        <5> QED
          <6>1. Log!LineOfExport(j) = Len(startLines) + Len(lines) + 2 - j
            BY <5>2, <1>3 DEF Log!LineOfExport
          <6> QED
            BY <5>1, <5>2, <6>1, <3>2, <1>3
      <4>3. CASE j # Len(out')
        <5>1. j \in 1 .. Len(out)
          BY <4>3, <3>5, <1>3
        <5>2. out'[j] = out[j]
          BY <5>1, <3>4, <1>3, AppendProperties
        <5> QED
          BY <5>1, <5>2, <3>1 DEF LogIInv, Log!ExportIsOneMoment
      <4> QED
        BY <4>2, <4>3
    <3>7. Progress'
      BY <3>1, <3>2, <3>5, <1>1, <1>3 DEF LogIInv, Progress
    <3> QED
      BY <3>1, <3>5, <3>6, <3>7, <1>1, <1>2, <1>3 DEF LogIInv, Log!Types
  <2>2. CASE ~(Log!StartLinesOut < Len(startLines))
    BY <1>1, <1>2, <1>3, <1>7, <2>2
       DEF Log!WriteStartLine, Log!StartLinesOut, LogIInv, Log!Types, Log!ExportIsOneMoment, Log!LineOfExport, Progress
  <2> QED
    BY <2>1, <2>2
<1>8. CASE Log!Unlock
  BY <1>1, <1>2, <1>3, <1>8 DEF Log!Unlock, LogIInv, Log!Types, Log!ExportIsOneMoment, Log!LineOfExport, Progress
<1> QED
  BY <1>4, <1>5, <1>6, <1>7, <1>8
-----------------------------------------------------------------------------
LEMMA LogStepIInv == Log!LogAssumption /\ LogIInv /\ [Log!Next]_Log!vars => LogIInv'
<1> SUFFICES ASSUME Log!LogAssumption, LogIInv, [Log!Next]_Log!vars PROVE LogIInv'
  OBVIOUS
<1>1. CASE Log!Write
  BY <1>1, WriteIInv
<1>2. CASE Log!WriteTo \/ Log!WriteLine \/ Log!WriteGap \/ Log!WriteStartLine \/ Log!Unlock
  BY <1>2, ExportIInv
<1>3. CASE UNCHANGED Log!vars
  BY <1>3 DEF Log!vars, LogIInv, Log!Types, Log!KeepsFirstAndLast, Log!ExportIsOneMoment,
                 Log!LineOfExport, Progress
<1> QED
  BY <1>1, <1>2, <1>3 DEF Log!Next

LEMMA LogSpecIInv == ASSUME Log!LogAssumption PROVE Log!Spec => []LogIInv
<1>1. Log!Init => LogIInv
  BY LogInitIInv
<1>2. LogIInv /\ [Log!Next]_Log!vars => LogIInv'
  BY LogStepIInv
<1> QED
  BY <1>1, <1>2, PTL DEF Log!Spec

(***************************************************************************)
(* The fields of MemoryWriter keep their types, and both parts of the log  *)
(* their bounds.                                                           *)
(***************************************************************************)
THEOREM LogTypeCorrect == ASSUME Log!LogAssumption PROVE Log!Spec => []Log!TypeOK
<1>1. LogIInv => Log!TypeOK
  <2> SUFFICES ASSUME LogIInv PROVE Log!TypeOK
    OBVIOUS
  <2>1. Len(startLines) \in Nat /\ Len(lines) \in Nat /\ log_written \in Nat
    BY DEF LogIInv, Log!Types
  <2> QED
    BY <2>1 DEF LogIInv, Log!TypeOK, Log!KeepsFirstAndLast, Log!Least, Log!LogAssumption
<1> QED
  BY <1>1, LogSpecIInv, PTL

(***************************************************************************)
(* Write (memorywriter/memorywriter.go:69) keeps the first lines and the   *)
(* newest ones, for every startCount and every positive maxLineCount.      *)
(***************************************************************************)
THEOREM FirstAndLastKept == ASSUME Log!LogAssumption PROVE Log!Spec => []Log!KeepsFirstAndLast
<1>1. LogIInv => Log!KeepsFirstAndLast
  BY DEF LogIInv
<1> QED
  BY <1>1, LogSpecIInv, PTL

(***************************************************************************)
(* writeTo (memorywriter/memorywriter.go:115) exports one moment's log,    *)
(* and all of it.                                                          *)
(***************************************************************************)
THEOREM ExportTrue ==
  ASSUME Log!LogAssumption PROVE Log!Spec => [](Log!ExportIsOneMoment /\ Log!ExportIsWhole)
<1>1. LogIInv => Log!ExportIsOneMoment /\ Log!ExportIsWhole
  BY DEF LogIInv, Progress, Log!ExportIsWhole
<1> QED
  BY <1>1, LogSpecIInv, PTL
-----------------------------------------------------------------------------
(* Listen                                                                  *)

\* A poll is young and its listing is not the last; sessions are changes.
Waited ==
  /\ listen.age = listen.i * IterDelay
  /\ listen.pc = "equal" => listen.i < IterMax
  /\ lastId <= changes
ListenIInv == Client!TypeOK /\ Waited

LEMMA ListenInit == ASSUME Client!ListenAssumption, Client!Init PROVE ListenIInv
<1> USE DEF Client!ListenAssumption, Client!Init,
            Client!TypeOK, Waited, Client!Idle, Client!worldVars
<1>1. session \in [ListenDevices -> 0 .. lastId] /\ known \subseteq Client!Entry
  OBVIOUS
<1>2. listen \in [pc : {"idle", "poll", "equal"}, i : 0 .. IterMax, age : Nat]
  OBVIOUS
<1>3. Waited
  OBVIOUS
<1>4. lastId \in 0 .. MaxChanges /\ changes \in 0 .. MaxChanges
  OBVIOUS
<1>5. calling \in BOOLEAN /\ listen_attached \subseteq ListenDevices /\ listen_lastInfos \subseteq ListenDevices
  OBVIOUS
<1> QED
  BY ONLY <1>1, <1>2, <1>3, <1>4, <1>5 DEF ListenIInv

LEMMA ChangeIInv ==
  ASSUME Client!ListenAssumption, ListenIInv, NEW d \in ListenDevices,
         Client!PlugOrPull(d) \/ Client!Acquire(d) \/ Client!Release(d)
  PROVE  ListenIInv'
<1> USE DEF Client!TypeOK, Waited, Client!Idle, Client!worldVars
<1>1. CASE Client!PlugOrPull(d)
  BY <1>1 DEF ListenIInv, Client!ListenAssumption, Client!PlugOrPull, Client!Changing
<1>2. CASE Client!Acquire(d)
  BY <1>2 DEF ListenIInv, Client!ListenAssumption, Client!Acquire, Client!Changing
<1>3. CASE Client!Release(d)
  BY <1>3 DEF ListenIInv, Client!ListenAssumption, Client!Release, Client!Changing
<1> QED
  BY <1>1, <1>2, <1>3

LEMMA ListingTypes ==
  ASSUME Client!ListenAssumption, Client!TypeOK, Client!Listing
  PROVE  /\ listen_lastInfos' \subseteq ListenDevices
         /\ session' \in [ListenDevices -> 0 .. lastId]
         /\ Client!Entries(Client!Infos) \subseteq Client!Entry
<1> USE DEF Client!ListenAssumption, Client!TypeOK, Waited, Client!Idle, Client!worldVars
<1>1. Client!Infos \subseteq ListenDevices
  BY DEF Client!Infos
<1>2. \A d \in ListenDevices : session[d] \in 0 .. lastId /\ session[d] \in 0 .. MaxChanges
  OBVIOUS
<1>3. Client!Connected(Client!Infos) \in [ListenDevices -> 0 .. lastId]
  BY <1>2 DEF Client!Connected
<1>4. Client!Entries(Client!Infos) \subseteq Client!Entry
  BY <1>1, <1>2 DEF Client!Entries, Client!Entry
<1> QED
  BY <1>1, <1>3, <1>4 DEF Client!Listing

LEMMA ListenStep ==
  ASSUME Client!ListenAssumption, ListenIInv, [Client!Next]_Client!vars
  PROVE  ListenIInv'
<1> USE DEF ListenIInv, Client!ListenAssumption,
            Client!TypeOK, Waited, Client!Idle, Client!worldVars
<1>1. CASE \E d \in ListenDevices :
             Client!PlugOrPull(d) \/ Client!Acquire(d) \/ Client!Release(d)
  BY <1>1, ChangeIInv
<1>2. CASE Client!Call
  BY <1>2 DEF Client!Call
<1>3. CASE Client!BackgroundListen
  BY <1>3, ListingTypes DEF Client!BackgroundListen
<1>4. CASE Client!ListingFails \/ Client!Closed
  BY <1>4 DEF Client!ListingFails, Client!Closed, Client!Changing
<1>5. CASE Client!Request
  BY <1>5 DEF Client!Request
<1>6. CASE Client!Different
  BY <1>6, ListingTypes DEF Client!Different
<1>7. CASE Client!Equal
  BY <1>7, ListingTypes DEF Client!Equal
<1>8. CASE Client!Wait
  <2>1. (listen.i + 1) * IterDelay = listen.i * IterDelay + IterDelay
    OBVIOUS
  <2> QED
    BY <1>8, <2>1 DEF Client!Wait
<1>9. CASE Client!Same
  BY <1>9 DEF Client!Same
<1>10. CASE UNCHANGED Client!vars
  BY <1>10 DEF Client!vars
<1> QED
  BY <1>1, <1>2, <1>3, <1>4, <1>5, <1>6, <1>7, <1>8, <1>9, <1>10
  DEF Client!Next, Client!Poll

(***************************************************************************)
(* What a request that listens has waited is what its polls add up to, and *)
(* the ids of sessions are changes of the world.                           *)
(***************************************************************************)
THEOREM ListenInvariant ==
  ASSUME Client!ListenAssumption PROVE Client!Spec => []ListenIInv
<1>1. Client!Init => ListenIInv
  BY ListenInit
<1>2. ListenIInv /\ [Client!Next]_Client!vars => ListenIInv'
  BY ListenStep
<1> QED
  BY <1>1, <1>2, PTL DEF Client!Spec

(***************************************************************************)
(* Listen (core/core.go:319) answers with the entries its client sent only *)
(* when IterMax polls, IterDelay apart, found nothing else.                *)
(***************************************************************************)
THEOREM AnswersAreLate ==
  ASSUME Client!ListenAssumption
  PROVE  Client!Spec => [][Client!SameIsLate]_Client!vars
<1>1. ASSUME ListenIInv, Client!Next PROVE Client!SameIsLate
  <2>a. /\ changes \in Nat /\ listen.age = listen.i * IterDelay
        /\ listen \in [pc : {"idle", "poll", "equal"}, i : 0 .. IterMax, age : Nat]
    BY <1>1 DEF ListenIInv, Waited, Client!ListenAssumption, Client!TypeOK
  <2> USE DEF Client!SameIsLate
  <2>1. CASE \E d \in ListenDevices :
               Client!PlugOrPull(d) \/ Client!Acquire(d) \/ Client!Release(d)
    BY <2>1 DEF Client!PlugOrPull, Client!Acquire, Client!Release
  <2>2. CASE Client!Call \/ Client!BackgroundListen
    BY <2>2 DEF Client!Call, Client!BackgroundListen
  <2>3. CASE Client!ListingFails \/ Client!Closed
    <3>1. changes' = changes + 1
      BY <2>3 DEF Client!ListingFails, Client!Closed, Client!Changing
    <3> QED
      BY <2>a, <3>1
  <2>4. CASE Client!Request
    <3>1. listen' = [pc |-> "poll", i |-> 0, age |-> 0]
      BY <2>4 DEF Client!Request, Client!Idle
    <3> QED
      BY <3>1
  <2>5. CASE Client!Equal \/ Client!Wait
    <3>1. listen'.pc \in {"equal", "poll"}
      BY <2>5, <2>a DEF Client!Equal, Client!Wait
    <3> QED
      BY <3>1
  <2>6. CASE Client!Different
    BY <2>6 DEF Client!Different
  <2>7. CASE Client!Same
    BY <2>7, <2>a DEF Client!Same
  <2> QED
    BY <1>1, <2>1, <2>2, <2>3, <2>4, <2>5, <2>6, <2>7 DEF Client!Next, Client!Poll
<1> QED
  BY <1>1, ListenInvariant, PTL DEF Client!Spec
-----------------------------------------------------------------------------
(***************************************************************************)
(* The bridge. A run of the suite in which "which" names a component is a  *)
(* run of that component: the component's specification is the same under  *)
(* the name the suite has for it and under the name of its proofs, no step *)
(* changes "which", and a step of another component changes no variable of *)
(* this one.                                                               *)
(***************************************************************************)

LEMMA PathsRun == AllSpec => Spec
<1>1. AllInit => Init
  BY DEF AllInit
<1>2. [AllNext]_all => [Next]_vars
  BY DEF AllNext, all
<1> QED
  BY <1>1, <1>2, PTL DEF AllSpec, Spec

BusP == INSTANCE LibUSBBusProof WITH
  Devices <- <<"a">>, PortsOf <- OwnPorts, Foreign <- TRUE, Releases <- TRUE,
  attached <- bus_attached, shown <- bus_shown
StealP == INSTANCE LibUSBBusProof WITH
  Devices <- <<"a">>, PortsOf <- OwnPorts, Foreign <- FALSE, Releases <- FALSE,
  MaxHandles <- MaxHandles + 1, attached <- bus_attached, shown <- bus_shown
TwoP == INSTANCE LibUSBBusProof WITH
  Devices <- <<"a", "b">>, PortsOf <- OwnPorts, HasDriver <- {},
  Interfaces <- {0}, Foreign <- TRUE, Releases <- TRUE, MaxHandles <- 2,
  attached <- bus_attached, shown <- bus_shown

HidP == INSTANCE HidProof WITH
  Threads <- HidThreads, Windows <- TRUE, Newer <- TRUE, Quiet <- TRUE,
  MaxHandles <- HidHandles, mutex <- hid_mutex
HidrawP == INSTANCE HidProof WITH
  Threads <- HidrawThreads, Windows <- FALSE, Newer <- TRUE, Quiet <- TRUE,
  MaxHandles <- 1, mutex <- hid_mutex

LEMMA BusPSame ==
  (Bus!Init => BusP!Init) /\ ([Bus!Next]_Bus!vars => [BusP!Next]_BusP!vars)
BY DEF
    Bus!Paths, BusP!Paths, Bus!OtherProgram, BusP!OtherProgram,
    Bus!deviceVars, BusP!deviceVars, Bus!vars, BusP!vars, Bus!NoAcquire,
    BusP!NoAcquire, Bus!Init, BusP!Init, Bus!Plug, BusP!Plug, Bus!Unplug,
    BusP!Unplug, Bus!OtherClaims, BusP!OtherClaims, Bus!Ending, BusP!Ending,
    Bus!At, BusP!At, Bus!Unclaimed, BusP!Unclaimed, Bus!ReleaseInterface,
    BusP!ReleaseInterface, Bus!AttachDriver, BusP!AttachDriver,
    Bus!CloseHandle, BusP!CloseHandle, Bus!Matching, BusP!Matching,
    Bus!Foremost, BusP!Foremost, Bus!Enumerate, BusP!Enumerate, Bus!Release,
    BusP!Release, Bus!Acquire, BusP!Acquire, Bus!Stolen, BusP!Stolen,
    Bus!Prepare, BusP!Prepare, Bus!ListDevices, BusP!ListDevices,
    Bus!Candidate, BusP!Candidate, Bus!Rest, BusP!Rest, Bus!Open, BusP!Open,
    Bus!New, BusP!New, Bus!NewDev, BusP!NewDev, Bus!ResetDevice,
    BusP!ResetDevice, Bus!NextCandidate, BusP!NextCandidate, Bus!Detach,
    BusP!Detach, Bus!Claim, BusP!Claim, Bus!Connecting, BusP!Connecting,
    Bus!Closing, BusP!Closing, Bus!Next, BusP!Next, Bus!ToSet, BusP!ToSet

LEMMA StealPSame ==
  (BusSteal!Init => StealP!Init) /\ ([BusSteal!Next]_BusSteal!vars => [StealP!Next]_StealP!vars)
BY DEF
    BusSteal!Paths, StealP!Paths, BusSteal!OtherProgram, StealP!OtherProgram,
    BusSteal!deviceVars, StealP!deviceVars, BusSteal!vars, StealP!vars,
    BusSteal!NoAcquire, StealP!NoAcquire, BusSteal!Init, StealP!Init,
    BusSteal!Plug, StealP!Plug, BusSteal!Unplug, StealP!Unplug,
    BusSteal!OtherClaims, StealP!OtherClaims, BusSteal!Ending, StealP!Ending,
    BusSteal!At, StealP!At, BusSteal!Unclaimed, StealP!Unclaimed,
    BusSteal!ReleaseInterface, StealP!ReleaseInterface,
    BusSteal!AttachDriver, StealP!AttachDriver, BusSteal!CloseHandle,
    StealP!CloseHandle, BusSteal!Matching, StealP!Matching,
    BusSteal!Foremost, StealP!Foremost, BusSteal!Enumerate, StealP!Enumerate,
    BusSteal!Release, StealP!Release, BusSteal!Acquire, StealP!Acquire,
    BusSteal!Stolen, StealP!Stolen, BusSteal!Prepare, StealP!Prepare,
    BusSteal!ListDevices, StealP!ListDevices, BusSteal!Candidate,
    StealP!Candidate, BusSteal!Rest, StealP!Rest, BusSteal!Open, StealP!Open,
    BusSteal!New, StealP!New, BusSteal!NewDev, StealP!NewDev,
    BusSteal!ResetDevice, StealP!ResetDevice, BusSteal!NextCandidate,
    StealP!NextCandidate, BusSteal!Detach, StealP!Detach, BusSteal!Claim,
    StealP!Claim, BusSteal!Connecting, StealP!Connecting, BusSteal!Closing,
    StealP!Closing, BusSteal!Next, StealP!Next, BusSteal!ToSet, StealP!ToSet

LEMMA TwoPSame ==
  (BusTwo!Init => TwoP!Init) /\ ([BusTwo!Next]_BusTwo!vars => [TwoP!Next]_TwoP!vars)
BY DEF
    BusTwo!Paths, TwoP!Paths, BusTwo!OtherProgram, TwoP!OtherProgram,
    BusTwo!deviceVars, TwoP!deviceVars, BusTwo!vars, TwoP!vars,
    BusTwo!NoAcquire, TwoP!NoAcquire, BusTwo!Init, TwoP!Init, BusTwo!Plug,
    TwoP!Plug, BusTwo!Unplug, TwoP!Unplug, BusTwo!OtherClaims,
    TwoP!OtherClaims, BusTwo!Ending, TwoP!Ending, BusTwo!At, TwoP!At,
    BusTwo!Unclaimed, TwoP!Unclaimed, BusTwo!ReleaseInterface,
    TwoP!ReleaseInterface, BusTwo!AttachDriver, TwoP!AttachDriver,
    BusTwo!CloseHandle, TwoP!CloseHandle, BusTwo!Matching, TwoP!Matching,
    BusTwo!Foremost, TwoP!Foremost, BusTwo!Enumerate, TwoP!Enumerate,
    BusTwo!Release, TwoP!Release, BusTwo!Acquire, TwoP!Acquire,
    BusTwo!Stolen, TwoP!Stolen, BusTwo!Prepare, TwoP!Prepare,
    BusTwo!ListDevices, TwoP!ListDevices, BusTwo!Candidate, TwoP!Candidate,
    BusTwo!Rest, TwoP!Rest, BusTwo!Open, TwoP!Open, BusTwo!New, TwoP!New,
    BusTwo!NewDev, TwoP!NewDev, BusTwo!ResetDevice, TwoP!ResetDevice,
    BusTwo!NextCandidate, TwoP!NextCandidate, BusTwo!Detach, TwoP!Detach,
    BusTwo!Claim, TwoP!Claim, BusTwo!Connecting, TwoP!Connecting,
    BusTwo!Closing, TwoP!Closing, BusTwo!Next, TwoP!Next, BusTwo!ToSet,
    TwoP!ToSet

LEMMA HidPSame ==
  (HidDevice!Init => HidP!Init) /\ ([HidDevice!Next]_HidDevice!vars => [HidP!Next]_HidP!vars)
BY DEF
    HidDevice!Handles, HidP!Handles, HidDevice!vars, HidP!vars,
    HidDevice!NoThread, HidP!NoThread, HidDevice!Init, HidP!Init,
    HidDevice!PlugOrPull, HidP!PlugOrPull, HidDevice!Unopened, HidP!Unopened,
    HidDevice!Connect, HidP!Connect, HidDevice!OpenPath, HidP!OpenPath,
    HidDevice!Accepted, HidP!Accepted, HidDevice!Written, HidP!Written,
    HidDevice!DetectNewer, HidP!DetectNewer, HidDevice!DetectOlder,
    HidP!DetectOlder, HidDevice!Begin, HidP!Begin, HidDevice!Goto, HidP!Goto,
    HidDevice!CheckClosed, HidP!CheckClosed, HidDevice!StoreClosed,
    HidP!StoreClosed, HidDevice!Lock, HidP!Lock, HidDevice!CopyDevice,
    HidP!CopyDevice, HidDevice!Transfer, HidP!Transfer, HidDevice!Again,
    HidP!Again, HidDevice!CloseDevice, HidP!CloseDevice, HidDevice!Unlock,
    HidP!Unlock, HidDevice!Work, HidP!Work, HidDevice!Next, HidP!Next

LEMMA HidrawPSame ==
  (HidNoPrepend!Init => HidrawP!Init) /\ ([HidNoPrepend!Next]_HidNoPrepend!vars => [HidrawP!Next]_HidrawP!vars)
BY DEF
    HidNoPrepend!Handles, HidrawP!Handles, HidNoPrepend!vars, HidrawP!vars,
    HidNoPrepend!NoThread, HidrawP!NoThread, HidNoPrepend!Init, HidrawP!Init,
    HidNoPrepend!PlugOrPull, HidrawP!PlugOrPull, HidNoPrepend!Unopened,
    HidrawP!Unopened, HidNoPrepend!Connect, HidrawP!Connect,
    HidNoPrepend!OpenPath, HidrawP!OpenPath, HidNoPrepend!Accepted,
    HidrawP!Accepted, HidNoPrepend!Written, HidrawP!Written,
    HidNoPrepend!DetectNewer, HidrawP!DetectNewer, HidNoPrepend!DetectOlder,
    HidrawP!DetectOlder, HidNoPrepend!Begin, HidrawP!Begin,
    HidNoPrepend!Goto, HidrawP!Goto, HidNoPrepend!CheckClosed,
    HidrawP!CheckClosed, HidNoPrepend!StoreClosed, HidrawP!StoreClosed,
    HidNoPrepend!Lock, HidrawP!Lock, HidNoPrepend!CopyDevice,
    HidrawP!CopyDevice, HidNoPrepend!Transfer, HidrawP!Transfer,
    HidNoPrepend!Again, HidrawP!Again, HidNoPrepend!CloseDevice,
    HidrawP!CloseDevice, HidNoPrepend!Unlock, HidrawP!Unlock,
    HidNoPrepend!Work, HidrawP!Work, HidNoPrepend!Next, HidrawP!Next

LEMMA BusPRuns == AllSpec => (which = "bus" => BusP!Spec)
<1>1. AllInit /\ which = "bus" => BusP!Init
  BY BusPSame DEF AllInit
<1>2. which = "bus" /\ [AllNext]_all => [BusP!Next]_BusP!vars /\ (which = "bus")'
  BY BusPSame DEF AllNext, all, others, busVars, BusP!vars, BusP!deviceVars, Bus!vars, Bus!deviceVars
<1> QED
  BY <1>1, <1>2, PTL DEF AllSpec, BusP!Spec

LEMMA StealPRuns == AllSpec => (which = "steal" => StealP!Spec)
<1>1. AllInit /\ which = "steal" => StealP!Init
  BY StealPSame DEF AllInit
<1>2. which = "steal" /\ [AllNext]_all => [StealP!Next]_StealP!vars /\ (which = "steal")'
  BY StealPSame DEF AllNext, all, others, busVars, StealP!vars, StealP!deviceVars, BusSteal!vars, BusSteal!deviceVars
<1> QED
  BY <1>1, <1>2, PTL DEF AllSpec, StealP!Spec

LEMMA TwoPRuns == AllSpec => (which = "two" => TwoP!Spec)
<1>1. AllInit /\ which = "two" => TwoP!Init
  BY TwoPSame DEF AllInit
<1>2. which = "two" /\ [AllNext]_all => [TwoP!Next]_TwoP!vars /\ (which = "two")'
  BY TwoPSame DEF AllNext, all, others, busVars, TwoP!vars, TwoP!deviceVars, BusTwo!vars, BusTwo!deviceVars
<1> QED
  BY <1>1, <1>2, PTL DEF AllSpec, TwoP!Spec

LEMMA HidPRuns == AllSpec => (which = "hid" => HidP!Spec)
<1>1. AllInit /\ which = "hid" => HidP!Init
  BY HidPSame DEF AllInit
<1>2. which = "hid" /\ [AllNext]_all => [HidP!Next]_HidP!vars /\ (which = "hid")'
  BY HidPSame DEF AllNext, all, others, hidVars, HidP!vars, HidDevice!vars
<1> QED
  BY <1>1, <1>2, PTL DEF AllSpec, HidP!Spec

LEMMA HidrawPRuns == AllSpec => (which = "hidraw" => HidrawP!Spec)
<1>1. AllInit /\ which = "hidraw" => HidrawP!Init
  BY HidrawPSame DEF AllInit
<1>2. which = "hidraw" /\ [AllNext]_all => [HidrawP!Next]_HidrawP!vars /\ (which = "hidraw")'
  BY HidrawPSame DEF AllNext, all, others, hidVars, HidrawP!vars, HidNoPrepend!vars
<1> QED
  BY <1>1, <1>2, PTL DEF AllSpec, HidrawP!Spec

LEMMA WireRuns == AllSpec => (which = "wire" => WireV1!Spec)
<1>1. AllInit /\ which = "wire" => WireV1!Init
  BY DEF AllInit
<1>2. which = "wire" /\ [AllNext]_all => [WireV1!Next]_WireV1!vars /\ (which = "wire")'
  BY DEF AllNext, all, others, WireV1!vars, WireV1!writeVars, WireV1!readVars, wireVars
<1> QED
  BY <1>1, <1>2, PTL DEF AllSpec, WireV1!Spec

LEMMA ListenRuns == AllSpec => (which = "listen" => Client!Spec)
<1>1. AllInit /\ which = "listen" => Client!Init
  BY DEF AllInit
<1>2. which = "listen" /\ [AllNext]_all => [Client!Next]_Client!vars /\ (which = "listen")'
  BY DEF AllNext, all, others, Client!vars, Client!worldVars, listenVars
<1> QED
  BY <1>1, <1>2, PTL DEF AllSpec, Client!Spec

LEMMA LogRuns == AllSpec => (which = "log" => Log!Spec)
<1>1. AllInit /\ which = "log" => Log!Init
  BY DEF AllInit
<1>2. which = "log" /\ [AllNext]_all => [Log!Next]_Log!vars /\ (which = "log")'
  BY DEF AllNext, all, others, Log!vars, logVars
<1> QED
  BY <1>1, <1>2, PTL DEF AllSpec, Log!Spec

(***************************************************************************)
(* The table of the presented paths stays right beside the rest of the     *)
(* bridge: a path names one USB path for ever, is gone for good once a     *)
(* listing lacked it, and tells the connected devices apart (saveUsbPaths, *)
(* core/core.go).                                                          *)
(***************************************************************************)
THEOREM PathsHold ==
  AllSpec => [](TypeOK /\ IdNamesOnePort /\ RetiredStaysRetired /\ PathIsUnique)
BY PathsRun, TypeCorrect, PathsNameOnePort, RetiredPathsStayRetired, PathsAreUnique, PTL

(***************************************************************************)
(* The libusb bus (usb/libusb.go) is right in every configuration the      *)
(* suite runs: with sessions that claim, release and steal, one whose      *)
(* sessions only steal, and two devices with claims of another program.    *)
(***************************************************************************)
THEOREM BusHolds == AllSpec => []BusSound
<1>1. BusP!BusAssumption /\ StealP!BusAssumption /\ TwoP!BusAssumption
  BY ConstantsAreAllowed
  DEF Bus!BusAssumption, BusSteal!BusAssumption, BusTwo!BusAssumption,
      BusP!BusAssumption, StealP!BusAssumption, TwoP!BusAssumption,
      Bus!ToSet, BusSteal!ToSet, BusTwo!ToSet, BusP!ToSet, StealP!ToSet, TwoP!ToSet
<1>2. BusP!Spec => []BusP!TypeOK
  BY <1>1, BusP!TypeCorrect
<1>3. BusP!Spec => []BusP!SessionHoldsClaim
  BY <1>1, BusP!SessionsHoldClaims
<1>4. BusP!Spec => []BusP!NoHandleLeft
  BY <1>1, BusP!NoHandleIsLeft
<1>5. StealP!Spec => []StealP!DriverRestored
  BY <1>1, StealP!DriversRestored
<1>6. TwoP!Spec => []TwoP!NoHandleLeft
  BY <1>1, TwoP!NoHandleIsLeft
<1>7. ~(which = "bus") /\ [AllNext]_all => (~(which = "bus"))'
  BY DEF AllNext, all, others
<1>8. ~(which = "steal") /\ [AllNext]_all => (~(which = "steal"))'
  BY DEF AllNext, all, others
<1>9. ~(which = "two") /\ [AllNext]_all => (~(which = "two"))'
  BY DEF AllNext, all, others
<1>10. /\ which = "bus" => BusP!TypeOK /\ BusP!SessionHoldsClaim /\ BusP!NoHandleLeft
       /\ which = "steal" => StealP!DriverRestored
       /\ which = "two" => TwoP!NoHandleLeft
       => BusSound
  <2>1. BusP!TypeOK => Bus!TypeOK
    BY DEF
      Bus!Paths, BusP!Paths, Bus!OtherProgram, BusP!OtherProgram, Bus!States,
      BusP!States, Bus!TypeOK, BusP!TypeOK, Bus!ToSet, BusP!ToSet
  <2>2. BusP!SessionHoldsClaim => Bus!SessionHoldsClaim
    BY DEF
      Bus!Paths, BusP!Paths, Bus!Session, BusP!Session,
      Bus!SessionHoldsClaim, BusP!SessionHoldsClaim, Bus!ToSet, BusP!ToSet
  <2>3. BusP!NoHandleLeft => Bus!NoHandleLeft
    BY DEF
      Bus!Paths, BusP!Paths, Bus!New, BusP!New, Bus!Session, BusP!Session,
      Bus!NoHandleLeft, BusP!NoHandleLeft, Bus!ToSet, BusP!ToSet
  <2>4. StealP!DriverRestored => BusSteal!DriverRestored
    BY DEF
      BusSteal!DriverRestored, StealP!DriverRestored, BusSteal!ToSet,
      StealP!ToSet
  <2>5. TwoP!NoHandleLeft => BusTwo!NoHandleLeft
    BY DEF
      BusTwo!Paths, TwoP!Paths, BusTwo!New, TwoP!New, BusTwo!Session,
      TwoP!Session, BusTwo!NoHandleLeft, TwoP!NoHandleLeft, BusTwo!ToSet,
      TwoP!ToSet
  <2> QED
    BY <2>1, <2>2, <2>3, <2>4, <2>5 DEF BusSound
<1> QED
  BY <1>2, <1>3, <1>4, <1>5, <1>6, <1>7, <1>8, <1>9, <1>10,
     BusPRuns, StealPRuns, TwoPRuns, PTL DEF AllSpec

(***************************************************************************)
(* The HIDAPI bus (usb/hidapi.go) is right on Windows, where report        *)
(* numbers are prepended, and on a Linux that takes none.                  *)
(***************************************************************************)
THEOREM HidHolds == AllSpec => []HidSound
<1>1. HidP!HidAssumption /\ HidrawP!HidAssumption
  BY ConstantsAreAllowed DEF HidDevice!HidAssumption, HidNoPrepend!HidAssumption,
     HidP!HidAssumption, HidrawP!HidAssumption
<1>2. HidP!Spec => []HidP!TypeOK
  BY <1>1, HidP!TypeCorrect
<1>3. HidP!Spec => []HidP!NoUseAfterClose
  BY <1>1, HidP!DeviceNotUsedAfterClose
<1>4. HidP!Spec => []HidP!PrependIsRight
  BY <1>1, HidP!PrependRight
<1>5. HidP!Spec => []HidP!ClosedIsGivenBack
  BY <1>1, HidP!ClosedGivenBack
<1>6. HidrawP!Spec => []HidrawP!PrependIsRight
  BY <1>1, HidrawP!PrependRight
<1>7. ~(which = "hid") /\ [AllNext]_all => (~(which = "hid"))'
  BY DEF AllNext, all, others
<1>8. ~(which = "hidraw") /\ [AllNext]_all => (~(which = "hidraw"))'
  BY DEF AllNext, all, others
<1>9. /\ which = "hid" => /\ HidP!TypeOK /\ HidP!NoUseAfterClose
                          /\ HidP!PrependIsRight /\ HidP!ClosedIsGivenBack
      /\ which = "hidraw" => HidrawP!PrependIsRight
      => HidSound
  <2>1. HidP!TypeOK => HidDevice!TypeOK
    <3>1. \A T : HidP!Cardinality(T) = HidDevice!Cardinality(T)
      BY DEF HidP!Cardinality, HidDevice!Cardinality, HidP!IsFiniteSet,
             HidDevice!IsFiniteSet
    <3> QED
      BY <3>1 DEF
        HidDevice!Handles, HidP!Handles, HidDevice!Steps, HidP!Steps,
        HidDevice!TypeOK, HidP!TypeOK
  <2>2. HidP!NoUseAfterClose => HidDevice!NoUseAfterClose
    BY DEF
      HidDevice!NoUseAfterClose, HidP!NoUseAfterClose
  <2>3. HidP!PrependIsRight => HidDevice!PrependIsRight
    BY DEF
      HidDevice!Handles, HidP!Handles, HidDevice!PrependIsRight,
      HidP!PrependIsRight
  <2>4. HidP!ClosedIsGivenBack => HidDevice!ClosedIsGivenBack
    BY DEF
      HidDevice!Handles, HidP!Handles, HidDevice!ClosedIsGivenBack,
      HidP!ClosedIsGivenBack
  <2>5. HidrawP!PrependIsRight => HidNoPrepend!PrependIsRight
    BY DEF
      HidNoPrepend!Handles, HidrawP!Handles, HidNoPrepend!PrependIsRight,
      HidrawP!PrependIsRight
  <2> QED
    BY <2>1, <2>2, <2>3, <2>4, <2>5 DEF HidSound
<1> QED
  BY <1>2, <1>3, <1>4, <1>5, <1>6, <1>7, <1>8, <1>9, HidPRuns, HidrawPRuns, PTL
  DEF AllSpec

(***************************************************************************)
(* Messages (wire/v1.go) come out whole, and none is lost.                 *)
(***************************************************************************)
THEOREM MessagesHold == AllSpec => []MessagesSound
<1>1. WireV1!WireAssumption
  BY ConstantsAreAllowed
<1>2. WireV1!Spec => []WireV1!TypeOK
  BY <1>1, WireTypeCorrect
<1>3. WireV1!Spec => []WireV1!WholeMessages
  BY <1>1, MessagesAreWhole
<1>4. WireV1!Spec => []WireV1!NoneLost
  BY <1>1, NoMessageIsLost
<1>5. ~(which = "wire") /\ [AllNext]_all => (~(which = "wire"))'
  BY DEF AllNext, all, others
<1> QED
  BY <1>2, <1>3, <1>4, <1>5, WireRuns, PTL DEF AllSpec, MessagesSound

(***************************************************************************)
(* The log (memorywriter/memorywriter.go) keeps its first and its newest   *)
(* lines, an export is the log of one moment and whole; the state of       *)
(* Listen keeps its types.                                                 *)
(***************************************************************************)
THEOREM LogHolds == AllSpec => []LogSound
<1>1. Log!LogAssumption /\ Client!ListenAssumption
  BY ConstantsAreAllowed
<1>2. Log!Spec => []Log!TypeOK
  BY <1>1, LogTypeCorrect
<1>3. Log!Spec => []Log!KeepsFirstAndLast
  BY <1>1, FirstAndLastKept
<1>4. Log!Spec => [](Log!ExportIsOneMoment /\ Log!ExportIsWhole)
  BY <1>1, ExportTrue
<1>5. Client!Spec => []ListenIInv
  BY <1>1, ListenInvariant
<1>6. ListenIInv => Client!TypeOK
  BY DEF ListenIInv
<1>7. ~(which = "log") /\ [AllNext]_all => (~(which = "log"))'
  BY DEF AllNext, all, others
<1>8. ~(which = "listen") /\ [AllNext]_all => (~(which = "listen"))'
  BY DEF AllNext, all, others
<1> QED
  BY <1>2, <1>3, <1>4, <1>5, <1>6, <1>7, <1>8, LogRuns, ListenRuns, PTL
  DEF AllSpec, LogSound

(***************************************************************************)
(* No step of the bridge gives the session of a path a device that was not *)
(* shown for it, where ports differ, or loses a kernel driver but to a     *)
(* claim (usb/libusb.go, Connect and Close), skips a packet of a message   *)
(* that is still read (wire/v1.go), or answers a request that listens with *)
(* what its client knew before its time is over (core/core.go, Listen).    *)
(***************************************************************************)
THEOREM StepsHold == AllSpec => StepsSound
<1>1. /\ BusP!BusAssumption /\ TwoP!BusAssumption /\ WireV1!WireAssumption /\ Client!ListenAssumption
      /\ \A c, d \in TwoP!ToSet(<<"a", "b">>) : OwnPorts(c) = OwnPorts(d) => c = d
  BY ConstantsAreAllowed
  DEF Bus!BusAssumption, BusP!BusAssumption, Bus!ToSet, BusP!ToSet,
      BusTwo!BusAssumption, TwoP!BusAssumption, BusTwo!ToSet, TwoP!ToSet, OwnPorts
<1>2. TwoP!Spec => [][TwoP!SessionOnShown]_TwoP!vars
  BY <1>1, TwoP!SessionsOnShown
<1>3. WireV1!Spec => [][WireV1!SkipsOnlyCut]_WireV1!vars
  BY <1>1, OnlyLeftoversSkipped
<1>4. Client!Spec => [][Client!SameIsLate]_Client!vars
  BY <1>1, AnswersAreLate
<1>a. BusP!Spec => [][BusP!DriverLostToClaim]_BusP!vars
  BY <1>1, BusP!DriversLostToClaims
<1>b. ~(which = "bus") /\ [AllNext]_all => (~(which = "bus"))'
  BY DEF AllNext, all, others
<1>5. ~(which = "two") /\ [AllNext]_all => (~(which = "two"))'
  BY DEF AllNext, all, others
<1>6. ~(which = "wire") /\ [AllNext]_all => (~(which = "wire"))'
  BY DEF AllNext, all, others
<1>7. ~(which = "listen") /\ [AllNext]_all => (~(which = "listen"))'
  BY DEF AllNext, all, others
<1>8. /\ which = "bus" => [BusP!DriverLostToClaim]_BusP!vars
      /\ which = "two" => [TwoP!SessionOnShown]_TwoP!vars
      /\ which = "wire" => [WireV1!SkipsOnlyCut]_WireV1!vars
      /\ which = "listen" => [Client!SameIsLate]_Client!vars
      => [/\ which = "bus" => Bus!DriverLostToClaim
          /\ which = "two" => BusTwo!SessionOnShown
          /\ which = "wire" => WireV1!SkipsOnlyCut
          /\ which = "listen" => Client!SameIsLate]_all
  <2> SUFFICES ASSUME which = "bus" => [BusP!DriverLostToClaim]_BusP!vars,
                      which = "two" => [TwoP!SessionOnShown]_TwoP!vars,
                      which = "wire" => [WireV1!SkipsOnlyCut]_WireV1!vars,
                      which = "listen" => [Client!SameIsLate]_Client!vars
               PROVE  /\ which = "bus" => Bus!DriverLostToClaim
                      /\ which = "two" => BusTwo!SessionOnShown
                      /\ which = "wire" => WireV1!SkipsOnlyCut
                      /\ which = "listen" => Client!SameIsLate
    OBVIOUS
  <2>a. CASE which = "bus"
    BY <2>a DEF
      Bus!DriverLostToClaim, BusP!DriverLostToClaim, Bus!DriverKept, BusP!DriverKept,
      Bus!WillAttach, BusP!WillAttach, BusP!vars, BusP!deviceVars
  <2>1. CASE which = "two"
    BY <2>1 DEF
      BusTwo!Paths, TwoP!Paths, BusTwo!SessionOnShown, TwoP!SessionOnShown,
      TwoP!vars, TwoP!deviceVars, BusTwo!ToSet, TwoP!ToSet
  <2>2. CASE which = "wire"
    BY <2>2 DEF WireV1!vars, WireV1!readVars, WireV1!SkipsOnlyCut, WireV1!Skip
  <2>3. CASE which = "listen"
    BY <2>3 DEF Client!vars, Client!worldVars, Client!SameIsLate
  <2> QED
    BY <2>a, <2>1, <2>2, <2>3
<1> QED
  BY <1>a, <1>b, <1>2, <1>3, <1>4, <1>5, <1>6, <1>7, <1>8, BusPRuns, TwoPRuns, WireRuns, ListenRuns, PTL
  DEF AllSpec, StepsSound
=============================================================================
