----------------------------- MODULE DarwinProbe -----------------------------
(***************************************************************************)
(* libusb/c/os/darwin_usb.c: how a device of macOS is read when it is      *)
(* cached and when a context gets it.  darwin_cache_device_descriptor asks *)
(* a device that may be asleep, misconfigured or slow for its descriptor,  *)
(* at most twice, and must leave it as it was; darwin_check_configuration  *)
(* finds the active configuration without asking the device;               *)
(* darwin_get_active_config_descriptor looks that configuration up.        *)
(***************************************************************************)
EXTENDS Integers, Sequences, SequencesExt

CONSTANTS Devices,       \* the kinds of device probed, see DeviceOK
          MaxRetries     \* 1 in the code

DeviceOK(d) ==
  /\ d.apple \in BOOLEAN       \* kIOUSBVendorIDAppleComputer
  /\ d.seizes \in BOOLEAN      \* it can be opened
  /\ d.asleep \in BOOLEAN      \* it is suspended, and does not answer
  /\ d.odd \in BOOLEAN         \* its descriptor is empty until it is configured
  /\ d.product \in BOOLEAN     \* idProduct is the one IOKit says
  /\ d.configs \in Seq(Nat)    \* the values of its configurations
  /\ d.conf \in ToSet(d.configs) \cup {0}   \* the one that is set

ProbeAssumption ==
  /\ MaxRetries \in Nat
  /\ \A d \in Devices : DeviceOK(d)

VARIABLES
  pc, hw,                        \* the device as it was found
  asleep, conf, opened,          \* and as it is
  is_open, unsuspended, try_unsuspend, try_reconfigure, retries,
  ret, descriptor, requests,     \* of the last request, and their number
  can_enumerate, first_config, active_config,
  index                          \* what the lookup returned

device == <<asleep, conf, opened>>
tries == <<is_open, unsuspended, try_unsuspend, try_reconfigure, retries>>
answer == <<ret, descriptor, requests>>
found == <<can_enumerate, first_config, active_config, index>>
vars == <<pc, hw, device, tries, answer, found>>

\* of index: not yet looked up, and no such configuration
None == -1
NOT_FOUND == 0

Descriptors == {"zeroed", "empty", "valid"}

TypeOK ==
  /\ pc \in {"open", "request", "judge", "wake", "restore", "verdict", "check", "lookup", "done"}
  /\ hw \in Devices
  /\ asleep \in BOOLEAN /\ conf \in ToSet(hw.configs) \cup {0} /\ opened \in BOOLEAN
  /\ is_open \in BOOLEAN /\ unsuspended \in BOOLEAN /\ try_unsuspend \in BOOLEAN
  /\ try_reconfigure \in BOOLEAN /\ retries \in -1 .. MaxRetries
  /\ ret \in {"success", "error"} /\ descriptor \in Descriptors
  /\ requests \in 0 .. MaxRetries + 1
  /\ can_enumerate \in BOOLEAN /\ first_config \in Nat /\ active_config \in Nat
  /\ index \in {None} \cup 0 .. Len(hw.configs)

Init ==
  /\ pc = "open" /\ hw \in Devices
  /\ asleep = hw.asleep /\ conf = hw.conf /\ opened = FALSE
  /\ is_open = FALSE /\ unsuspended = FALSE
  /\ try_unsuspend = TRUE /\ try_reconfigure = TRUE /\ retries = MaxRetries
  /\ ret = "success" /\ descriptor = "zeroed" /\ requests = 0
  /\ can_enumerate = FALSE /\ first_config = 0 /\ active_config = 0 /\ index = None

Goto(from, to) == pc = from /\ pc' = to /\ UNCHANGED hw
-----------------------------------------------------------------------------
\* USBDeviceOpenSeize; the device is asked even if it cannot be opened
OpenSeize ==
  /\ Goto("open", "request")
  /\ is_open' = hw.seizes /\ opened' = hw.seizes
  /\ UNCHANGED <<asleep, conf, unsuspended, try_unsuspend, try_reconfigure, retries, answer,
                 found>>

Answer == IF hw.odd /\ conf = 0 THEN "empty" ELSE "valid"

\* darwin_request_descriptor: the buffer is cleared before the request.  An
\* overrun counts if a descriptor came with it.
darwin_request_descriptor ==
  /\ Goto("request", "judge")
  /\ requests' = requests + 1
  /\ \/ /\ ~asleep
        /\ ret' = "success" /\ descriptor' = Answer
     \/ ret' = "error" /\ descriptor' = "zeroed"
  /\ UNCHANGED <<device, tries, found>>

Again == retries > 0

\* a descriptor that came but says nothing: SetConfiguration(1), once, and
\* the answer is an error
Reconfigure ==
  /\ pc = "judge" /\ ~hw.apple /\ ret = "success" /\ descriptor = "empty"
  /\ Goto("judge", "wake")
  /\ IF try_reconfigure /\ is_open
     THEN /\ try_reconfigure' = FALSE
          /\ \/ 1 \in ToSet(hw.configs) /\ conf' = 1
             \/ UNCHANGED conf
     ELSE UNCHANGED <<conf, try_reconfigure>>
  /\ ret' = "error"
  /\ UNCHANGED <<asleep, opened, is_open, unsuspended, try_unsuspend, retries, descriptor, requests,
                 found>>

\* an Apple device is not tried again, nor is one that answered
AcceptAnswer ==
  /\ Goto("judge", "restore")
  /\ hw.apple \/ (ret = "success" /\ descriptor = "valid")
  /\ UNCHANGED <<device, tries, answer, found>>

RequestFailed ==
  /\ Goto("judge", "wake") /\ ~hw.apple /\ ret = "error"
  /\ UNCHANGED <<device, tries, answer, found>>

\* USBDeviceSuspend(0), once: try_unsuspend is TRUE whatever the kernel says
\* of the device.  Then the next try, if one is left.
Unsuspend ==
  /\ pc = "wake"
  /\ Goto("wake", IF Again THEN "request" ELSE "restore")
  /\ IF is_open /\ try_unsuspend
     THEN /\ try_unsuspend' = FALSE
          /\ \/ unsuspended' = TRUE /\ asleep' = FALSE
             \/ UNCHANGED <<unsuspended, asleep>>
     ELSE UNCHANGED <<try_unsuspend, unsuspended, asleep>>
  /\ retries' = retries - 1
  /\ UNCHANGED <<conf, opened, is_open, try_reconfigure, answer, found>>

\* suspended again, and closed
Restore ==
  /\ Goto("restore", "verdict")
  /\ asleep' = (asleep \/ unsuspended)
  /\ opened' = (opened /\ ~is_open)
  /\ UNCHANGED <<conf, tries, answer, found>>

\* buggy hubs have another product than IOKit says
Verdict ==
  /\ Goto("verdict", IF ret = "success" /\ hw.product THEN "check" ELSE "done")
  /\ can_enumerate' = (ret = "success" /\ hw.product)
  /\ UNCHANGED <<device, tries, answer, first_config, active_config, index>>
-----------------------------------------------------------------------------
\* darwin_check_configuration: a device with an interface is configured.  The
\* kernel has read the descriptors, and gives them to who asks; it may fail
\* to list the interfaces.
darwin_check_configuration ==
  /\ pc = "check"
  /\ IF hw.configs = <<>> \/ descriptor = "empty"
     THEN Goto("check", "done") /\ UNCHANGED <<first_config, active_config>>
     ELSE \/ /\ Goto("check", "lookup")
             /\ first_config' = hw.configs[1]
             /\ active_config' = IF conf = 0 THEN 0
                                 ELSE IF Len(hw.configs) = 1 THEN hw.configs[1] ELSE conf
          \/ Goto("check", "done") /\ UNCHANGED <<first_config, active_config>>
  /\ UNCHANGED <<device, tries, answer, can_enumerate, index>>

\* get_configuration_index: the first of that value
get_configuration_index(v) ==
  IF v \in ToSet(hw.configs)
  THEN CHOOSE i \in 1 .. Len(hw.configs) :
         hw.configs[i] = v /\ \A j \in 1 .. i - 1 : hw.configs[j] # v
  ELSE NOT_FOUND

darwin_get_active_config_descriptor ==
  /\ Goto("lookup", "done")
  /\ index' = IF active_config = 0 THEN NOT_FOUND ELSE get_configuration_index(active_config)
  /\ UNCHANGED <<device, tries, answer, can_enumerate, first_config, active_config>>

Next ==
  \/ OpenSeize \/ darwin_request_descriptor \/ Reconfigure \/ AcceptAnswer \/ RequestFailed
  \/ Unsuspend \/ Restore \/ Verdict \/ darwin_check_configuration
  \/ darwin_get_active_config_descriptor

Spec == Init /\ [][Next]_vars
-----------------------------------------------------------------------------
(***************************************************************************)
(* A probe, whatever the device answers, leaves it closed, and asleep if   *)
(* it was asleep ("resuspend the device", darwin_usb.c:913): so no other   *)
(* program is kept out and no battery is drained by a list of devices.     *)
(***************************************************************************)
LeftAsFound == pc \in {"verdict", "check", "lookup", "done"} => ~opened /\ (hw.asleep => asleep)

(***************************************************************************)
(* A device is listed only on a descriptor of its own: one that says       *)
(* something, unless Apple made the device, and of the right product.      *)
(***************************************************************************)
EnumeratedIsReal ==
  can_enumerate => hw.product /\ descriptor # "zeroed" /\ (hw.apple \/ descriptor = "valid")

(***************************************************************************)
(* A device that answers is never given another configuration, and none is *)
(* given to it twice.                                                      *)
(***************************************************************************)
ConfiguredOnce ==
  conf' # conf => /\ conf = 0 /\ hw.odd /\ ~hw.apple /\ try_reconfigure
                  /\ ~try_reconfigure'

(***************************************************************************)
(* What is cached as the active configuration is the one the device has,   *)
(* and its descriptor is found, if it has one.                             *)
(***************************************************************************)
ActiveIsReal ==
  /\ pc \in {"lookup"} => active_config = conf
  /\ pc = "done" /\ index # None =>
       IF conf = 0 THEN index = NOT_FOUND ELSE hw.configs[index] = conf

\* a probe does not go on for ever, however the device answers
Probing == pc # "done"

(***************************************************************************)
(* "IOUSBFamily 320+ provides a way to detect device suspension" and "note *)
(* that the device was suspended" (darwin_usb.c:883): only a device that   *)
(* was suspended is suspended in the end.                                  *)
(***************************************************************************)
OnlySleepersSleep == asleep => hw.asleep
=============================================================================
