---------------------------- MODULE LinuxConfigs ----------------------------
(***************************************************************************)
(* libusb/c/os/linux_usbfs.c and descriptor.c: the configurations of a     *)
(* device are located in the file of descriptors the kernel keeps, once,   *)
(* and read from there.  In sysfs they stand one after the other, without  *)
(* what the kernel found invalid; in usbfs they are wTotalLength apart,    *)
(* what the device did not send being holes.  A read asks for the header   *)
(* first and for wTotalLength then; the active configuration may change    *)
(* in between.                                                             *)
(***************************************************************************)
EXTENDS Integers, Sequences, SequencesExt

CONSTANTS MaxConfigs, MaxLen,     \* configurations, and units of one
          Sysfs,                  \* where the file is
          Racing                  \* another thread sets the configuration

ConfigsAssumption ==
  MaxConfigs \in Nat /\ MaxLen \in Nat /\ Sysfs \in BOOLEAN /\ Racing \in BOOLEAN

VARIABLES
  configs, promised,              \* the device; bNumConfigurations
  file,                           \* unit k of configuration c, or a hole
  pc, pos, located,               \* priv->config_descriptors
  active,                         \* 0 if the device is not configured
  want, total,                    \* the call: which one, the length of the header
  returned, ret

vars == <<configs, promised, file, pc, pos, located, active, want, total, returned, ret>>

device == <<configs, promised, file>>
call == <<want, total, returned, ret>>

Hole == <<0, 0>>
Units == ({0} \X {0}) \cup ((1 .. MaxConfigs) \X (1 .. MaxLen))

TypeOK ==
  /\ pc \in {"locate", "ready", "failed", "index", "active", "done"}
  /\ pos \in 0 .. Len(file) /\ Len(located) <= promised
  /\ located \in Seq([start : 0 .. MaxConfigs * MaxLen, len : 1 .. MaxConfigs * MaxLen])
  /\ active \in 0 .. Len(configs) /\ want \in 0 .. MaxConfigs + 1 /\ total \in 0 .. MaxLen
  /\ returned \in Seq(Units) /\ ret \in {"none", "SUCCESS", "IO", "NOT_FOUND"}

\* wTotalLength, and what the device really sent of it
Lengths == {l \in [total : 0 .. MaxLen, real : 1 .. MaxLen] : l.real <= l.total \/ l.total = 0}

Stored(c, l) ==
  [k \in 1 .. (IF Sysfs THEN l.real ELSE l.total) |-> IF k <= l.real THEN <<c, k>> ELSE Hole]

\* the file may lack its end; a device may promise more than it has
Init ==
  /\ \E n \in 1 .. MaxConfigs : configs \in [1 .. n -> Lengths]
  /\ promised \in {Len(configs), Len(configs) + 1}
  /\ LET all == FlattenSeq([c \in DOMAIN configs |-> Stored(c, configs[c])]) IN
     \E lost \in {0, 1} : lost <= Len(all) /\ file = SubSeq(all, 1, Len(all) - lost)
  /\ pc = "locate" /\ pos = 0 /\ located = <<>>
  /\ active \in 0 .. Len(configs)
  /\ want = 0 /\ total = 0 /\ returned = <<>> /\ ret = "none"

-----------------------------------------------------------------------------
(* parse_config_descriptors *)

IsHeader(p) == p <= Len(file) /\ file[p][2] = 1
TotalAt(p) == configs[file[p][1]].total
Remaining == Len(file) - pos

\* seek_to_next_config: from behind the header at pos + 1
NextConfigs == {k \in 1 .. Remaining - 1 : IsHeader(pos + 1 + k)}

Offset == CHOOSE k \in NextConfigs : \A j \in NextConfigs : k <= j

LastOne == Len(located) = promised - 1

Length ==
  IF ~Sysfs THEN IF TotalAt(pos + 1) <= Remaining THEN TotalAt(pos + 1) ELSE Remaining
  ELSE IF LastOne THEN Remaining
  ELSE Offset

Acceptable ==
  /\ Remaining > 0 /\ IsHeader(pos + 1) /\ TotalAt(pos + 1) > 0
  /\ Sysfs /\ ~LastOne => NextConfigs # {}

Locate ==
  /\ pc = "locate" /\ Acceptable
  /\ located' = Append(located, [start |-> pos, len |-> Length])
  /\ pos' = pos + Length
  /\ pc' = IF LastOne THEN "ready" ELSE "locate"
  /\ UNCHANGED <<device, active, call>>

LocateFails ==
  /\ pc = "locate" /\ ~Acceptable
  /\ pc' = "failed" /\ UNCHANGED <<device, pos, located, active, call>>

-----------------------------------------------------------------------------
(* Reads *)

\* op_get_config_descriptor: at most len units
Read(c, len) ==
  SubSeq(file, located[c].start + 1,
         located[c].start + (IF len < located[c].len THEN len ELSE located[c].len))

Answer(r, units) == pc' = "done" /\ ret' = r /\ returned' = units

\* libusb_get_config_descriptor, libusb_get_active_config_descriptor
GetIndex ==
  /\ pc = "ready"
  /\ \E c \in 1 .. promised : want' = c /\ total' = TotalAt(located[c].start + 1)
  /\ pc' = "index" /\ UNCHANGED <<device, pos, located, active, returned, ret>>

GetIndexData ==
  /\ pc = "index" /\ Answer("SUCCESS", Read(want, total))
  /\ UNCHANGED <<device, pos, located, active, want, total>>

GetIndexMissing ==
  /\ pc = "ready" /\ want' = promised + 1 /\ Answer("NOT_FOUND", <<>>)
  /\ UNCHANGED <<device, pos, located, active, total>>

GetActive ==
  /\ pc = "ready" /\ active # 0
  /\ want' = active /\ total' = TotalAt(located[active].start + 1)
  /\ pc' = "active" /\ UNCHANGED <<device, pos, located, active, returned, ret>>

GetActiveData ==
  /\ pc = "active" /\ want' = active
  /\ IF active = 0 THEN Answer("NOT_FOUND", <<>>) ELSE Answer("SUCCESS", Read(active, total))
  /\ UNCHANGED <<device, pos, located, active, total>>

GetActiveMissing ==
  /\ pc = "ready" /\ active = 0 /\ Answer("NOT_FOUND", <<>>)
  /\ UNCHANGED <<device, pos, located, active, want, total>>

\* libusb_get_config_descriptor_by_value: what was located, in one read
GetByValue ==
  /\ pc = "ready"
  /\ \E c \in 1 .. promised :
       want' = c /\ Answer("SUCCESS", SubSeq(file, located[c].start + 1, located[c].start + located[c].len))
  /\ UNCHANGED <<device, pos, located, active, total>>

SetConfiguration ==
  /\ Racing /\ pc \in {"ready", "active"} /\ active' \in 0 .. Len(configs)
  /\ UNCHANGED <<device, pc, pos, located, call>>

Next ==
  \/ Locate \/ LocateFails \/ GetIndex \/ GetIndexData \/ GetIndexMissing
  \/ GetActive \/ GetActiveData \/ GetActiveMissing \/ GetByValue \/ SetConfiguration

Spec == Init /\ [][Next]_vars

-----------------------------------------------------------------------------

\* the file is whole, and has the configurations it promises
Honest ==
  /\ promised = Len(configs) /\ \A c \in DOMAIN configs : configs[c].total > 0
  /\ file = FlattenSeq([c \in DOMAIN configs |-> Stored(c, configs[c])])

(***************************************************************************)
(* Every configuration of an honest file is found, and where it stands:    *)
(* by the next header in sysfs, by wTotalLength in usbfs                   *)
(* (linux_usbfs.c:725, :745).                                              *)
(***************************************************************************)
AllLocated ==
  /\ Honest => pc # "failed"
  /\ (\A c \in DOMAIN configs : configs[c].total > 0) =>
       \A c \in 1 .. Len(located) : file[located[c].start + 1] = <<c, 1>>

(***************************************************************************)
(* A configuration that is returned is all of one configuration, by        *)
(* whichever call, with nothing of its neighbour.                          *)
(***************************************************************************)
ReturnedIsWhole ==
  ret = "SUCCESS" /\ Honest =>
    \E c \in DOMAIN configs :
      SelectSeq(returned, LAMBDA u : u # Hole) = [k \in 1 .. configs[c].real |-> <<c, k>>]

(***************************************************************************)
(* The answer is of the configuration asked for, or of the one that was    *)
(* active at the last read.                                                *)
(***************************************************************************)
ReturnedIsWanted ==
  ret = "SUCCESS" /\ Honest => returned # <<>> /\ returned[1] = <<want, 1>>
=============================================================================
