----------------------------- MODULE MCBackends -------------------------------
(***************************************************************************)
(* The backends of libusb.  Linux: the monitor of the devices, URBs and    *)
(* configurations, beside the parsers of descriptors (linux_usbfs.c,       *)
(* linux_netlink.c, descriptor.c).  macOS: the cached devices, their       *)
(* probe, handles and transfers (darwin_usb.c).  Windows: the listing,     *)
(* claims and transfers (windows_winusb.c, windows_common.c).  They are    *)
(* checked side by side: "which" names the one that runs, the variables of *)
(* the others are 0.                                                       *)
(***************************************************************************)
EXTENDS Integers, SequencesExt, TLC

CONSTANTS Nil

VARIABLES which,
          plugged, spent, uevents, socket, control, monitor,
          default_context_lock, linux_hotplug_lock, allocated, active_contexts,
          default_context_refcnt, fallback_context, monitor_init_count,
          usb_devs, user, polls,
          input, parser_promised, parser_pc, parser_at, parser_i, parser_n,
          extra, interface, parser_heap, parser_ret,
          sent, bos_pc, bos_size, bos_num, caps, bos_heap, bos_ret, bytes,
          length, out,
          urbs_kind, num_urbs, urbs_pc, urbs_at, first, urbs_lock, urb, done,
          urbs, num_retired, reap_action, reap_status, urbs_transferred,
          urbs_buffer, urbs_packets, urbs_gone, urbs_ret, cut, outcome,
          configs, promised, configs_file, configs_pc, pos, located,
          configs_active, want, total, returned, configs_ret,
          place, darwin_kind, darwin_present, darwin_asked, returning, add,
          rem, armed, darwin_cached, mem, cache, alive, darwin_listed, session,
          darwin_opened, darwin_active, ctx, darwin_init_count, acfl, stop,
          thread, event, darwin_app, reset, resets, broken,
          probe_pc, hw, asleep, conf, probe_opened, is_open, unsuspended,
          try_unsuspend, try_reconfigure, retries, probe_ret, descriptor,
          requests, can_enumerate, first_config, active_config, index,
          s, handles_opened, call, handles_calls,
          pipes_where, pipe, loop, pipes_completed, os, timed_out, expired,
          result, size, pipes_transferred, status, flag, pipes_asked, whole,
          zeros, list, num, pipes_packets, desc, frame, next_frame, start,
          lost, cause, received, log, pipes_submits,
          open, h, files, inits, users, tr, nonzero, windows_calls,
          listing_where, class, changes, quiet, objs, listing_pc, pass, intf,
          todo, guids, enums, cur, discdevs, unrefs, listing_app, handles,
          leaked, listings,
          phase, byCallback, transfers_listed, transfers_file,
          transfers_buffer, flying, cancelling, timedOut,
          transfers_transferred, io, port, transfers_completed, handler, zlp,
          policy, callback, saved, break, transfers_gone, transfers_submits,
          owed, transfers_asked, told

monitorVars ==
  <<plugged, spent, uevents, socket, control, monitor, default_context_lock,
    linux_hotplug_lock, allocated, active_contexts, default_context_refcnt,
    fallback_context, monitor_init_count, usb_devs, user, polls>>
parserVars ==
  <<input, parser_promised, parser_pc, parser_at, parser_i, parser_n, extra,
    interface, parser_heap, parser_ret>>
bosVars ==
  <<sent, bos_pc, bos_size, bos_num, caps, bos_heap, bos_ret, bytes, length,
    out>>
urbsVars ==
  <<urbs_kind, num_urbs, urbs_pc, urbs_at, first, urbs_lock, urb, done, urbs,
    num_retired, reap_action, reap_status, urbs_transferred, urbs_buffer,
    urbs_packets, urbs_gone, urbs_ret, cut, outcome>>
configsVars ==
  <<configs, promised, configs_file, configs_pc, pos, located, configs_active,
    want, total, returned, configs_ret>>
darwinVars ==
  <<place, darwin_kind, darwin_present, darwin_asked, returning, add, rem,
    armed, darwin_cached, mem, cache, alive, darwin_listed, session,
    darwin_opened, darwin_active, ctx, darwin_init_count, acfl, stop, thread,
    event, darwin_app, reset, resets, broken>>
probeVars ==
  <<probe_pc, hw, asleep, conf, probe_opened, is_open, unsuspended,
    try_unsuspend, try_reconfigure, retries, probe_ret, descriptor, requests,
    can_enumerate, first_config, active_config, index>>
handlesVars ==
  <<s, handles_opened, call, handles_calls>>
pipesVars ==
  <<pipes_where, pipe, loop, pipes_completed, os, timed_out, expired, result,
    size, pipes_transferred, status, flag, pipes_asked, whole, zeros, list,
    num, pipes_packets, desc, frame, next_frame, start, lost, cause, received,
    log, pipes_submits>>
windowsVars ==
  <<open, h, files, inits, users, tr, nonzero, windows_calls>>
listingVars ==
  <<listing_where, class, changes, quiet, objs, listing_pc, pass, intf, todo,
    guids, enums, cur, discdevs, unrefs, listing_app, handles, leaked, listings>>
transfersVars ==
  <<phase, byCallback, transfers_listed, transfers_file, transfers_buffer,
    flying, cancelling, timedOut, transfers_transferred, io, port,
    transfers_completed, handler, zlp, policy, callback, saved, break,
    transfers_gone, transfers_submits, owed, transfers_asked, told>>
vars == <<which, monitorVars, parserVars, bosVars, urbsVars, configsVars, darwinVars, probeVars, handlesVars, pipesVars, windowsVars, listingVars, transfersVars>>

\* "hub" holds "first" and, later, "second" at the same port; "other" has no
\* hub and reuses the address of "first"
Port == "hub" :> "1" @@ "first" :> "1.1" @@ "second" :> "1.1" @@ "other" :> "2"
Addr == "hub" :> 9 @@ "first" :> 1 @@ "second" :> 2 @@ "other" :> 1
NoHub(D) == [d \in D |-> Nil]
WithHub == "hub" :> Nil @@ "first" :> "hub" @@ "other" :> Nil
OwnContexts(U) == [u \in U |-> u]

\* what the Windows registry says: NodeOf(kind, named, api, guid, number,
\* enumerator, places), a place being <<the node it hangs from, the port>>
NodeOf(k, n, a, g, i, e, ps) ==
  [kind |-> k, named |-> n, api |-> a, guid |-> g, number |-> i, enumerator |-> e,
   places |-> {[up |-> p[1], port |-> p[2]] : p \in ps}]
Controller == NodeOf("hcd", FALSE, "none", "none", 0, "PCI", {<<Nil, 0>>})
HubAt(e, ps) == NodeOf("hub", TRUE, "hub", "none", 0, e, ps)
\* a composite device with a WinUSB and a HID function, below one of two hubs
WithParts ==
  "hcd" :> Controller @@ "root" :> HubAt("USB", {<<"hcd", 0>>})
  @@ "hub" :> HubAt("USB", {<<"root", 2>>})
  @@ "device" :> NodeOf("device", TRUE, "composite", "none", 0, "USB",
                        {<<"root", 1>>, <<"hub", 1>>})
  @@ "usb" :> NodeOf("function", TRUE, "winusb", "g", 0, "USB", {<<"device", 0>>})
  @@ "hid" :> NodeOf("function", TRUE, "hid", "none", 1, "USB", {<<"device", 0>>})
  @@ "col" :> NodeOf("collection", TRUE, "hid", "none", 1, "HID", {<<"hid", 0>>})
OneDevice ==
  "hcd" :> Controller @@ "root" :> HubAt("NUSB3", {<<"hcd", 0>>})
  @@ "device" :> NodeOf("device", TRUE, "winusb", "g", 0, "USB", {<<"root", 1>>})
\* a HID device that moves from one controller to the other
TwoControllers ==
  "hcd" :> Controller @@ "root" :> HubAt("USB", {<<"hcd", 0>>})
  @@ "hcd2" :> Controller @@ "root2" :> HubAt("NUSB3", {<<"hcd2", 0>>})
  @@ "device" :> NodeOf("device", TRUE, "hid", "none", 0, "USB",
                        {<<"root", 1>>, <<"root2", 1>>})
  @@ "col" :> NodeOf("collection", TRUE, "hid", "none", 0, "HID", {<<"device", 0>>})

\* transfers: two writes of a pipe that differ in the zero packet; a report
\* and a SET_CONFIGURATION; an isochronous stream
TransferOf(p, k, a, z) == [pipe |-> p, kind |-> k, api |-> a, prefix |-> FALSE, zero |-> z]
Writes == "w1" :> TransferOf("out", "out", "winusb", TRUE)
          @@ "w2" :> TransferOf("out", "out", "winusb", FALSE)
ReportAndSet == "r1" :> TransferOf("report", "in", "hid", FALSE)
                @@ "s1" :> TransferOf("control", "setconf", "winusb", FALSE)
Stream == "i1" :> TransferOf("iso", "iso", "winusb", FALSE)

\* every kind of device, with no configuration, one, or two
ProbedDevices ==
  {d \in [apple : BOOLEAN, seizes : BOOLEAN, asleep : BOOLEAN, odd : BOOLEAN,
          product : BOOLEAN, configs : {<<>>, <<1>>, <<3>>, <<2, 1>>}, conf : {0, 1, 2}] :
     d.conf \in ToSet(d.configs) \cup {0}}
-----------------------------------------------------------------------------
Monitor == INSTANCE LinuxMonitor WITH
  Users <- {"u1", "u2"}, CtxOf <- OwnContexts({"u1", "u2"}), Default <- Nil,
  Devices <- {"first", "other"}, Hub <- NoHub({"first", "other"}),
  MonitorMayFail <- TRUE, Noise <- FALSE, MaxPolls <- 1,
  init_count <- monitor_init_count
MonitorHub == INSTANCE LinuxMonitor WITH
  Users <- {"u1"}, CtxOf <- OwnContexts({"u1"}), Default <- Nil,
  Devices <- {"hub", "first", "other"}, Hub <- WithHub,
  MonitorMayFail <- FALSE, Noise <- TRUE, MaxPolls <- 1,
  init_count <- monitor_init_count

Parser == INSTANCE ConfigParser WITH
  MaxLen <- 3, MaxInterfaces <- 2, MaxEndpoints <- 2,
  Lens <- {"ok", "bad", "long"}, MallocFails <- TRUE, pc <- parser_pc,
  at <- parser_at, i <- parser_i, n <- parser_n, promised <- parser_promised,
  heap <- parser_heap, ret <- parser_ret
ParsedTree == INSTANCE ConfigParser WITH
  MaxLen <- 5, MaxInterfaces <- 2, MaxEndpoints <- 1, Lens <- {"ok"},
  MallocFails <- FALSE, pc <- parser_pc, at <- parser_at, i <- parser_i,
  n <- parser_n, promised <- parser_promised, heap <- parser_heap, ret <- parser_ret

Bos == INSTANCE BosReader WITH
  MaxCaps <- 2, MaxString <- 6, MallocFails <- TRUE, pc <- bos_pc,
  size <- bos_size, num <- bos_num, heap <- bos_heap, ret <- bos_ret

Urbs == INSTANCE UsbfsTransfers WITH
  MaxUrbs <- 3, Size <- 2,
  Kinds <- {"split", "continuation", "iso", "control"}, kind <- urbs_kind,
  pc <- urbs_pc, at <- urbs_at, lock <- urbs_lock,
  transferred <- urbs_transferred, buffer <- urbs_buffer,
  packets <- urbs_packets, gone <- urbs_gone, ret <- urbs_ret

InSysfs == INSTANCE LinuxConfigs WITH
  MaxConfigs <- 3, MaxLen <- 3, Sysfs <- TRUE, Racing <- FALSE,
  file <- configs_file, pc <- configs_pc, active <- configs_active,
  ret <- configs_ret
InUsbfs == INSTANCE LinuxConfigs WITH
  MaxConfigs <- 3, MaxLen <- 3, Sysfs <- FALSE, Racing <- TRUE,
  file <- configs_file, pc <- configs_pc, active <- configs_active,
  ret <- configs_ret

Darwin == INSTANCE DarwinDevices WITH
  Contexts <- {"c1"}, Locations <- {"l1"}, Threads <- {"t1"}, MaxSession <- 3,
  MaxResets <- 2, Kinds <- {"good", "other", "mute"},
  Calm <- {"plug", "reset", "pull"}, Timeouts <- FALSE, StartupFails <- FALSE,
  kind <- darwin_kind, present <- darwin_present, asked <- darwin_asked,
  cached <- darwin_cached, listed <- darwin_listed, opened <- darwin_opened,
  active <- darwin_active, init_count <- darwin_init_count, app <- darwin_app
DarwinContexts == INSTANCE DarwinDevices WITH
  Contexts <- {"c1", "c2"}, Locations <- {"l1"}, Threads <- {"t1"},
  MaxSession <- 2, MaxResets <- 1, Kinds <- {"good", "dead"},
  Calm <- {"plug", "reset", "pull"}, Timeouts <- FALSE, StartupFails <- FALSE,
  kind <- darwin_kind, present <- darwin_present, asked <- darwin_asked,
  cached <- darwin_cached, listed <- darwin_listed, opened <- darwin_opened,
  active <- darwin_active, init_count <- darwin_init_count, app <- darwin_app

Probe == INSTANCE DarwinProbe WITH
  Devices <- ProbedDevices, MaxRetries <- 1, pc <- probe_pc,
  opened <- probe_opened, ret <- probe_ret

MacHandles == INSTANCE DarwinHandles WITH
  Handles <- {"h1", "h2"}, Ifaces <- {0, 1}, Config1 <- {0, 1},
  Config2 <- {0, 1}, FirstConfig <- 1, Driver <- FALSE,
  Ops <- {"open", "close", "claim", "release", "config", "alt", "reset"},
  Fails <- {"reenumerate"}, Rules <- {"lifo", "apart", "alone"}, MaxCalls <- 8,
  MaxDepth <- 3, opened <- handles_opened, calls <- handles_calls
HandlesFail == INSTANCE DarwinHandles WITH
  Handles <- {"h1", "h2"}, Ifaces <- {0, 1}, Config1 <- {0, 1},
  Config2 <- {0, 1}, FirstConfig <- 1, Driver <- FALSE,
  Ops <- {"open", "close", "claim", "release", "config"},
  Fails <- {"seize", "source", "plugin", "endpoints", "isource", "config"},
  Rules <- {"apart", "idle"}, MaxCalls <- 9, MaxDepth <- 3,
  opened <- handles_opened, calls <- handles_calls
Capture == INSTANCE DarwinHandles WITH
  Handles <- {"h1", "h2"}, Ifaces <- {0, 1}, Config1 <- {0, 1},
  Config2 <- {0, 1}, FirstConfig <- 1, Driver <- TRUE,
  Ops <- {"open", "close", "claim", "release", "detach", "attach", "auto", "reset"},
  Fails <- {}, Rules <- {"lifo", "apart", "alone", "paired"}, MaxCalls <- 8,
  MaxDepth <- 3, opened <- handles_opened, calls <- handles_calls

Pipes == INSTANCE DarwinTransfers WITH
  Control <- {}, Interrupt <- {"i1"}, Bulk <- {"b1", "b2"}, Stream <- {},
  Iso <- {}, Counts <- {1, 2}, FullSpeed <- TRUE, Ops <- {"cancel"},
  Results <- {"success", "timeout"}, MaxSubmits <- 2, MaxFrame <- 0,
  where <- pipes_where, completed <- pipes_completed,
  transferred <- pipes_transferred, asked <- pipes_asked,
  packets <- pipes_packets, submits <- pipes_submits
Frames == INSTANCE DarwinTransfers WITH
  Control <- {}, Interrupt <- {}, Bulk <- {}, Stream <- {},
  Iso <- {"o1", "o2"}, Counts <- {1, 2}, FullSpeed <- TRUE,
  Ops <- {"cancel", "free"}, Results <- {"success"}, MaxSubmits <- 3,
  MaxFrame <- 2, where <- pipes_where, completed <- pipes_completed,
  transferred <- pipes_transferred, asked <- pipes_asked,
  packets <- pipes_packets, submits <- pipes_submits

Windows == INSTANCE WindowsClaims WITH
  WinUsb <- {0, 1}, LibusbK <- {}, Hid <- {}, Composite <- FALSE,
  Restricted <- {}, Transfers <- {"t1"},
  Requests <- {"device", "interface", "setconf"}, Bulks <- {0, 1},
  Rules <- {"alone", "quiet", "first", "addressed"}, Fails <- {"io"},
  MaxCalls <- 7, calls <- windows_calls
WindowsAuto == INSTANCE WindowsClaims WITH
  WinUsb <- {0}, LibusbK <- {}, Hid <- {1}, Composite <- TRUE,
  Restricted <- {1}, Transfers <- {"t1", "t2"},
  Requests <- {"device", "endpoint"}, Bulks <- {0, 1},
  Rules <- {"quiet", "held", "addressed"}, Fails <- {"io", "endpoints"},
  MaxCalls <- 6, calls <- windows_calls
WindowsComposite == INSTANCE WindowsClaims WITH
  WinUsb <- {0}, LibusbK <- {}, Hid <- {1}, Composite <- TRUE,
  Restricted <- {}, Transfers <- {"t1"}, Requests <- {"device", "vendor"},
  Bulks <- {0, 1}, Rules <- {"alone", "quiet", "addressed"},
  Fails <- {"claim", "io", "denied"}, MaxCalls <- 6, calls <- windows_calls

Parts == INSTANCE WindowsDevices WITH
  Nodes <- DOMAIN WithParts, NoNode <- Nil, Node <- WithParts, Slots <- 4,
  MaxChanges <- 1, MaxListings <- 2, Relists <- FALSE, Reinstalls <- FALSE,
  Fails <- TRUE, where <- listing_where, pc <- listing_pc, app <- listing_app
Held == INSTANCE WindowsDevices WITH
  Nodes <- DOMAIN OneDevice, NoNode <- Nil, Node <- OneDevice, Slots <- 4,
  MaxChanges <- 3, MaxListings <- 3, Relists <- TRUE, Reinstalls <- FALSE,
  Fails <- TRUE, where <- listing_where, pc <- listing_pc, app <- listing_app
Swapped == INSTANCE WindowsDevices WITH
  Nodes <- DOMAIN OneDevice, NoNode <- Nil, Node <- OneDevice, Slots <- 4,
  MaxChanges <- 2, MaxListings <- 2, Relists <- TRUE, Reinstalls <- TRUE,
  Fails <- FALSE, where <- listing_where, pc <- listing_pc, app <- listing_app
TwoBuses == INSTANCE WindowsDevices WITH
  Nodes <- DOMAIN TwoControllers, NoNode <- Nil, Node <- TwoControllers,
  Slots <- 4, MaxChanges <- 1, MaxListings <- 2, Relists <- FALSE,
  Reinstalls <- FALSE, Fails <- FALSE, where <- listing_where,
  pc <- listing_pc, app <- listing_app

ZeroPackets == INSTANCE WindowsTransfers WITH
  Transfers <- DOMAIN Writes, What <- Writes, Length <- 1, MaxSubmits <- 3,
  MaxPulls <- 0, Refuses <- TRUE, listed <- transfers_listed,
  file <- transfers_file, buffer <- transfers_buffer,
  transferred <- transfers_transferred, completed <- transfers_completed,
  gone <- transfers_gone, submits <- transfers_submits,
  asked <- transfers_asked
Reports == INSTANCE WindowsTransfers WITH
  Transfers <- DOMAIN ReportAndSet, What <- ReportAndSet, Length <- 1,
  MaxSubmits <- 3, MaxPulls <- 1, Refuses <- TRUE, listed <- transfers_listed,
  file <- transfers_file, buffer <- transfers_buffer,
  transferred <- transfers_transferred, completed <- transfers_completed,
  gone <- transfers_gone, submits <- transfers_submits,
  asked <- transfers_asked
IsoStream == INSTANCE WindowsTransfers WITH
  Transfers <- DOMAIN Stream, What <- Stream, Length <- 2, MaxSubmits <- 3,
  MaxPulls <- 0, Refuses <- FALSE, listed <- transfers_listed,
  file <- transfers_file, buffer <- transfers_buffer,
  transferred <- transfers_transferred, completed <- transfers_completed,
  gone <- transfers_gone, submits <- transfers_submits,
  asked <- transfers_asked

ASSUME ConstantsAreAllowed ==
  /\ Monitor!MonitorAssumption
  /\ MonitorHub!MonitorAssumption
  /\ Parser!ParserAssumption
  /\ ParsedTree!ParserAssumption
  /\ Bos!BosAssumption
  /\ Urbs!UsbfsAssumption
  /\ InSysfs!ConfigsAssumption
  /\ InUsbfs!ConfigsAssumption
  /\ Darwin!DarwinAssumption
  /\ DarwinContexts!DarwinAssumption
  /\ Probe!ProbeAssumption
  /\ MacHandles!HandlesAssumption
  /\ HandlesFail!HandlesAssumption
  /\ Capture!HandlesAssumption
  /\ Pipes!DarwinTransfersAssumption
  /\ Frames!DarwinTransfersAssumption
  /\ Windows!WindowsClaimsAssumption
  /\ WindowsAuto!WindowsClaimsAssumption
  /\ WindowsComposite!WindowsClaimsAssumption
  /\ Parts!WindowsDevicesAssumption
  /\ Held!WindowsDevicesAssumption
  /\ Swapped!WindowsDevicesAssumption
  /\ TwoBuses!WindowsDevicesAssumption
  /\ ZeroPackets!WindowsTransfersAssumption
  /\ Reports!WindowsTransfersAssumption
  /\ IsoStream!WindowsTransfersAssumption
-----------------------------------------------------------------------------
MonitorOff ==
  /\ plugged = 0 /\ spent = 0 /\ uevents = 0 /\ socket = 0 /\ control = 0
  /\ monitor = 0 /\ default_context_lock = 0 /\ linux_hotplug_lock = 0
  /\ allocated = 0 /\ active_contexts = 0 /\ default_context_refcnt = 0
  /\ fallback_context = 0 /\ monitor_init_count = 0 /\ usb_devs = 0
  /\ user = 0 /\ polls = 0
ParserOff ==
  /\ input = 0 /\ parser_promised = 0 /\ parser_pc = 0 /\ parser_at = 0
  /\ parser_i = 0 /\ parser_n = 0 /\ extra = 0 /\ interface = 0 /\ parser_heap = 0 /\ parser_ret = 0
BosOff ==
  /\ sent = 0 /\ bos_pc = 0 /\ bos_size = 0 /\ bos_num = 0 /\ caps = 0
  /\ bos_heap = 0 /\ bos_ret = 0 /\ bytes = 0 /\ length = 0 /\ out = 0
UrbsOff ==
  /\ urbs_kind = 0 /\ num_urbs = 0 /\ urbs_pc = 0 /\ urbs_at = 0
  /\ first = 0 /\ urbs_lock = 0 /\ urb = 0 /\ done = 0 /\ urbs = 0
  /\ num_retired = 0 /\ reap_action = 0 /\ reap_status = 0
  /\ urbs_transferred = 0 /\ urbs_buffer = 0 /\ urbs_packets = 0
  /\ urbs_gone = 0 /\ urbs_ret = 0 /\ cut = 0 /\ outcome = 0
ConfigsOff ==
  /\ configs = 0 /\ promised = 0 /\ configs_file = 0 /\ configs_pc = 0
  /\ pos = 0 /\ located = 0 /\ configs_active = 0 /\ want = 0 /\ total = 0
  /\ returned = 0 /\ configs_ret = 0
DarwinOff ==
  /\ place = 0 /\ darwin_kind = 0 /\ darwin_present = 0 /\ darwin_asked = 0
  /\ returning = 0 /\ add = 0 /\ rem = 0 /\ armed = 0 /\ darwin_cached = 0
  /\ mem = 0 /\ cache = 0 /\ alive = 0 /\ darwin_listed = 0 /\ session = 0
  /\ darwin_opened = 0 /\ darwin_active = 0 /\ ctx = 0
  /\ darwin_init_count = 0 /\ acfl = 0 /\ stop = 0 /\ thread = 0
  /\ event = 0 /\ darwin_app = 0 /\ reset = 0 /\ resets = 0 /\ broken = 0
ProbeOff ==
  /\ probe_pc = 0 /\ hw = 0 /\ asleep = 0 /\ conf = 0 /\ probe_opened = 0
  /\ is_open = 0 /\ unsuspended = 0 /\ try_unsuspend = 0
  /\ try_reconfigure = 0 /\ retries = 0 /\ probe_ret = 0 /\ descriptor = 0
  /\ requests = 0 /\ can_enumerate = 0 /\ first_config = 0
  /\ active_config = 0 /\ index = 0
HandlesOff ==
  /\ s = 0 /\ handles_opened = 0 /\ call = 0 /\ handles_calls = 0
PipesOff ==
  /\ pipes_where = 0 /\ pipe = 0 /\ loop = 0 /\ pipes_completed = 0
  /\ os = 0 /\ timed_out = 0 /\ expired = 0 /\ result = 0 /\ size = 0
  /\ pipes_transferred = 0 /\ status = 0 /\ flag = 0 /\ pipes_asked = 0
  /\ whole = 0 /\ zeros = 0 /\ list = 0 /\ num = 0 /\ pipes_packets = 0
  /\ desc = 0 /\ frame = 0 /\ next_frame = 0 /\ start = 0 /\ lost = 0
  /\ cause = 0 /\ received = 0 /\ log = 0 /\ pipes_submits = 0
WindowsOff ==
  /\ open = 0 /\ h = 0 /\ files = 0 /\ inits = 0 /\ users = 0 /\ tr = 0
  /\ nonzero = 0 /\ windows_calls = 0
ListingOff ==
  /\ listing_where = 0 /\ class = 0 /\ changes = 0 /\ quiet = 0 /\ objs = 0
  /\ listing_pc = 0 /\ pass = 0 /\ intf = 0 /\ todo = 0 /\ guids = 0
  /\ enums = 0 /\ cur = 0 /\ discdevs = 0 /\ unrefs = 0 /\ listing_app = 0
  /\ handles = 0 /\ leaked = 0 /\ listings = 0
TransfersOff ==
  /\ phase = 0 /\ byCallback = 0 /\ transfers_listed = 0
  /\ transfers_file = 0 /\ transfers_buffer = 0 /\ flying = 0
  /\ cancelling = 0 /\ timedOut = 0 /\ transfers_transferred = 0 /\ io = 0
  /\ port = 0 /\ transfers_completed = 0 /\ handler = 0 /\ zlp = 0
  /\ policy = 0 /\ callback = 0 /\ saved = 0 /\ break = 0
  /\ transfers_gone = 0 /\ transfers_submits = 0 /\ owed = 0
  /\ transfers_asked = 0 /\ told = 0
Init ==
  \/ /\ \/ which = "monitor" /\ Monitor!Init
        \/ which = "hub" /\ MonitorHub!Init
     /\ ParserOff /\ BosOff /\ UrbsOff /\ ConfigsOff /\ DarwinOff /\ ProbeOff /\
        HandlesOff /\ PipesOff /\ WindowsOff /\ ListingOff /\ TransfersOff
  \/ /\ \/ which = "parser" /\ Parser!Init
        \/ which = "tree" /\ ParsedTree!Init
     /\ MonitorOff /\ BosOff /\ UrbsOff /\ ConfigsOff /\ DarwinOff /\ ProbeOff /\
        HandlesOff /\ PipesOff /\ WindowsOff /\ ListingOff /\ TransfersOff
  \/ which = "bos" /\ Bos!Init
     /\ MonitorOff /\ ParserOff /\ UrbsOff /\ ConfigsOff /\ DarwinOff /\ ProbeOff /\
        HandlesOff /\ PipesOff /\ WindowsOff /\ ListingOff /\ TransfersOff
  \/ which = "urbs" /\ Urbs!Init
     /\ MonitorOff /\ ParserOff /\ BosOff /\ ConfigsOff /\ DarwinOff /\ ProbeOff /\
        HandlesOff /\ PipesOff /\ WindowsOff /\ ListingOff /\ TransfersOff
  \/ /\ \/ which = "sysfs" /\ InSysfs!Init
        \/ which = "usbfs" /\ InUsbfs!Init
     /\ MonitorOff /\ ParserOff /\ BosOff /\ UrbsOff /\ DarwinOff /\ ProbeOff /\
        HandlesOff /\ PipesOff /\ WindowsOff /\ ListingOff /\ TransfersOff
  \/ /\ \/ which = "darwin" /\ Darwin!Init
        \/ which = "contexts" /\ DarwinContexts!Init
     /\ MonitorOff /\ ParserOff /\ BosOff /\ UrbsOff /\ ConfigsOff /\ ProbeOff /\
        HandlesOff /\ PipesOff /\ WindowsOff /\ ListingOff /\ TransfersOff
  \/ which = "probe" /\ Probe!Init
     /\ MonitorOff /\ ParserOff /\ BosOff /\ UrbsOff /\ ConfigsOff /\ DarwinOff /\
        HandlesOff /\ PipesOff /\ WindowsOff /\ ListingOff /\ TransfersOff
  \/ /\ \/ which = "handles" /\ MacHandles!Init
        \/ which = "fails" /\ HandlesFail!Init
        \/ which = "capture" /\ Capture!Init
     /\ MonitorOff /\ ParserOff /\ BosOff /\ UrbsOff /\ ConfigsOff /\ DarwinOff /\
        ProbeOff /\ PipesOff /\ WindowsOff /\ ListingOff /\ TransfersOff
  \/ /\ \/ which = "pipes" /\ Pipes!Init
        \/ which = "frames" /\ Frames!Init
     /\ MonitorOff /\ ParserOff /\ BosOff /\ UrbsOff /\ ConfigsOff /\ DarwinOff /\
        ProbeOff /\ HandlesOff /\ WindowsOff /\ ListingOff /\ TransfersOff
  \/ /\ \/ which = "windows" /\ Windows!Init
        \/ which = "auto" /\ WindowsAuto!Init
        \/ which = "composite" /\ WindowsComposite!Init
     /\ MonitorOff /\ ParserOff /\ BosOff /\ UrbsOff /\ ConfigsOff /\ DarwinOff /\
        ProbeOff /\ HandlesOff /\ PipesOff /\ ListingOff /\ TransfersOff
  \/ /\ \/ which = "parts" /\ Parts!Init
        \/ which = "held" /\ Held!Init
        \/ which = "swapped" /\ Swapped!Init
        \/ which = "buses" /\ TwoBuses!Init
     /\ MonitorOff /\ ParserOff /\ BosOff /\ UrbsOff /\ ConfigsOff /\ DarwinOff /\
        ProbeOff /\ HandlesOff /\ PipesOff /\ WindowsOff /\ TransfersOff
  \/ /\ \/ which = "packets" /\ ZeroPackets!Init
        \/ which = "reports" /\ Reports!Init
        \/ which = "stream" /\ IsoStream!Init
     /\ MonitorOff /\ ParserOff /\ BosOff /\ UrbsOff /\ ConfigsOff /\ DarwinOff /\
        ProbeOff /\ HandlesOff /\ PipesOff /\ WindowsOff /\ ListingOff

Next ==
  \/ /\ \/ which = "monitor" /\ Monitor!Next
        \/ which = "hub" /\ MonitorHub!Next
     /\ UNCHANGED <<which, parserVars, bosVars, urbsVars, configsVars, darwinVars, probeVars, handlesVars, pipesVars, windowsVars, listingVars, transfersVars>>
  \/ /\ \/ which = "parser" /\ Parser!Next
        \/ which = "tree" /\ ParsedTree!Next
     /\ UNCHANGED <<which, monitorVars, bosVars, urbsVars, configsVars, darwinVars, probeVars, handlesVars, pipesVars, windowsVars, listingVars, transfersVars>>
  \/ which = "bos" /\ Bos!Next
     /\ UNCHANGED <<which, monitorVars, parserVars, urbsVars, configsVars, darwinVars, probeVars, handlesVars, pipesVars, windowsVars, listingVars, transfersVars>>
  \/ which = "urbs" /\ Urbs!Next
     /\ UNCHANGED <<which, monitorVars, parserVars, bosVars, configsVars, darwinVars, probeVars, handlesVars, pipesVars, windowsVars, listingVars, transfersVars>>
  \/ /\ \/ which = "sysfs" /\ InSysfs!Next
        \/ which = "usbfs" /\ InUsbfs!Next
     /\ UNCHANGED <<which, monitorVars, parserVars, bosVars, urbsVars, darwinVars, probeVars, handlesVars, pipesVars, windowsVars, listingVars, transfersVars>>
  \/ /\ \/ which = "darwin" /\ Darwin!Next
        \/ which = "contexts" /\ DarwinContexts!Next
     /\ UNCHANGED <<which, monitorVars, parserVars, bosVars, urbsVars, configsVars, probeVars, handlesVars, pipesVars, windowsVars, listingVars, transfersVars>>
  \/ which = "probe" /\ Probe!Next
     /\ UNCHANGED <<which, monitorVars, parserVars, bosVars, urbsVars, configsVars, darwinVars, handlesVars, pipesVars, windowsVars, listingVars, transfersVars>>
  \/ /\ \/ which = "handles" /\ MacHandles!Next
        \/ which = "fails" /\ HandlesFail!Next
        \/ which = "capture" /\ Capture!Next
     /\ UNCHANGED <<which, monitorVars, parserVars, bosVars, urbsVars, configsVars, darwinVars, probeVars, pipesVars, windowsVars, listingVars, transfersVars>>
  \/ /\ \/ which = "pipes" /\ Pipes!Next
        \/ which = "frames" /\ Frames!Next
     /\ UNCHANGED <<which, monitorVars, parserVars, bosVars, urbsVars, configsVars, darwinVars, probeVars, handlesVars, windowsVars, listingVars, transfersVars>>
  \/ /\ \/ which = "windows" /\ Windows!Next
        \/ which = "auto" /\ WindowsAuto!Next
        \/ which = "composite" /\ WindowsComposite!Next
     /\ UNCHANGED <<which, monitorVars, parserVars, bosVars, urbsVars, configsVars, darwinVars, probeVars, handlesVars, pipesVars, listingVars, transfersVars>>
  \/ /\ \/ which = "parts" /\ Parts!Next
        \/ which = "held" /\ Held!Next
        \/ which = "swapped" /\ Swapped!Next
        \/ which = "buses" /\ TwoBuses!Next
     /\ UNCHANGED <<which, monitorVars, parserVars, bosVars, urbsVars, configsVars, darwinVars, probeVars, handlesVars, pipesVars, windowsVars, transfersVars>>
  \/ /\ \/ which = "packets" /\ ZeroPackets!Next
        \/ which = "reports" /\ Reports!Next
        \/ which = "stream" /\ IsoStream!Next
     /\ UNCHANGED <<which, monitorVars, parserVars, bosVars, urbsVars, configsVars, darwinVars, probeVars, handlesVars, pipesVars, windowsVars, listingVars>>

Spec == Init /\ [][Next]_vars
-----------------------------------------------------------------------------
(***************************************************************************)
(* Linux, the devices: when nothing is under way every context lists       *)
(* exactly what is plugged in (linux_usbfs.c, linux_netlink.c; see         *)
(* LinuxMonitor).                                                          *)
(***************************************************************************)
MonitorSound ==
  /\ which = "monitor" => Monitor!TypeOK /\ Monitor!ListIsTruth
  /\ which = "hub" => MonitorHub!ListIsTruth

(***************************************************************************)
(* The parsers of descriptors: an error frees everything, the tree is what *)
(* was sent, well-formed descriptors are accepted, and strings fit         *)
(* (descriptor.c; see ConfigParser and BosReader).  Linux, the             *)
(* configuration descriptors: all are found, and the one that was asked    *)
(* for is returned, whole (linux_usbfs.c; see LinuxConfigs).               *)
(***************************************************************************)
DescriptorsSound ==
  /\ which = "parser" => Parser!TypeOK /\ Parser!FreesAll
  /\ which = "tree" => /\ ParsedTree!TreeIsTruth /\ ParsedTree!WellFormedParses
                       /\ ParsedTree!CountsMatch
  /\ which = "bos" => Bos!TypeOK /\ Bos!HeapIsCallers /\ Bos!CapsAreSent /\ Bos!StringFits
  /\ which = "sysfs" => InSysfs!TypeOK /\ InSysfs!AllLocated /\ InSysfs!ReturnedIsWhole
  /\ which = "usbfs" => InUsbfs!AllLocated /\ InUsbfs!ReturnedIsWanted

(***************************************************************************)
(* Linux, a transfer cut into URBs: freed when the last is reaped, data in *)
(* order, the first failure decides (linux_usbfs.c; see UsbfsTransfers).   *)
(***************************************************************************)
UrbsSound ==
  which = "urbs" =>
    /\ Urbs!TypeOK /\ Urbs!FreedWhenReaped /\ Urbs!DataInOrder /\ Urbs!CancelIsTrue
    /\ Urbs!NotFoundCutsNothing /\ Urbs!FirstDecides /\ Urbs!PacketsInPlace

(***************************************************************************)
(* macOS, the devices: cached devices live as long as they are referenced, *)
(* the lists are what is plugged in, and a probe leaves a device as it was *)
(* and lists it on its own descriptor (darwin_usb.c; see DarwinDevices,    *)
(* DarwinProbe).                                                           *)
(***************************************************************************)
DarwinSound ==
  /\ which = "darwin" => /\ Darwin!TypeOK /\ Darwin!NothingBroken
                         /\ Darwin!RefsAreOwners /\ Darwin!ListIsCurrent
  /\ which = "contexts" => /\ DarwinContexts!NothingBroken /\ DarwinContexts!RefsAreOwners
                           /\ DarwinContexts!ListIsCurrent
  /\ which = "probe" => /\ Probe!TypeOK /\ Probe!LeftAsFound
                        /\ Probe!EnumeratedIsReal /\ Probe!ActiveIsReal

(***************************************************************************)
(* macOS, the handles: the open count is the handles there are, a claimed  *)
(* interface is open, nothing is left of a closed device, and captures are *)
(* counted (see DarwinHandles).  Their transfers: statuses and counts are  *)
(* true, isochronous requests fit and never overlap (darwin_usb.c; see     *)
(* DarwinTransfers).                                                       *)
(***************************************************************************)
HandlesSound ==
  /\ which = "handles" => /\ MacHandles!TypeOK /\ MacHandles!CountIsHandles
                          /\ MacHandles!ClaimedIsOpen /\ MacHandles!NothingLeft
  /\ which = "fails" => /\ HandlesFail!ClaimedIsOpen /\ HandlesFail!Pointed
                        /\ HandlesFail!ActiveIsConf
  /\ which = "capture" => Capture!CaptureIsCounted
  /\ which = "pipes" => Pipes!TypeOK /\ Pipes!StatusIsTrue /\ Pipes!DataIsCounted
  /\ which = "frames" => Frames!ListFits /\ Frames!NoOverlap

(***************************************************************************)
(* Windows: what is claimed stays claimed, no handle is lost or left open, *)
(* and an automatic claim is given up with its last transfer (see          *)
(* WindowsClaims); a listing counts its references and tells the truth of  *)
(* what is plugged in (see WindowsDevices); a transfer keeps its memory,   *)
(* and its callback comes with what happened (windows_winusb.c,            *)
(* windows_common.c; see WindowsTransfers).                                *)
(***************************************************************************)
WindowsSound ==
  /\ which = "windows" => /\ Windows!TypeOK /\ Windows!ClaimsKept /\ Windows!NoHandleLost
                          /\ Windows!NothingOpen /\ Windows!ClaimedHasEndpoints
  /\ which = "auto" => WindowsAuto!InUse /\ WindowsAuto!CountWasZero
  /\ which = "composite" => WindowsComposite!ClaimsKept /\ WindowsComposite!NothingOpen
  /\ which = "parts" => Parts!TypeOK /\ Parts!CountIsHolders /\ Parts!ListIsTrue
  /\ which = "held" => /\ Held!CountIsHolders /\ Held!ListIsTrue
                       /\ Held!NeverThroughNull
  /\ which = "swapped" => Swapped!CountIsHolders /\ Swapped!ListIsTrue
  /\ which = "buses" => /\ TwoBuses!CountIsHolders /\ TwoBuses!ListIsTrue
                        /\ TwoBuses!BusesDiffer
  /\ which = "packets" => /\ ZeroPackets!TypeOK /\ ZeroPackets!CallbackIsOwed
                          /\ ZeroPackets!StatusIsTrue /\ ZeroPackets!DataIsCounted
                          /\ ZeroPackets!ZeroIsAsked
  /\ which = "reports" => /\ Reports!CallbackIsOwed /\ Reports!BufferIsKept
                          /\ Reports!BufferIsReturned /\ Reports!StatusIsTrue
                          /\ Reports!DataIsCounted
  /\ which = "stream" => /\ IsoStream!CallbackIsOwed /\ IsoStream!BufferIsKept
                         /\ IsoStream!StatusIsTrue /\ IsoStream!DataIsCounted
                         /\ IsoStream!CallbackIsItsOwn

(***************************************************************************)
(* What no step of the macOS backend may do: end a reset without the       *)
(* device, or configure a device that answers; lose a claim in a reset;    *)
(* report the requests of a pipe out of order.                             *)
(***************************************************************************)
StepsSound ==
  [][/\ which = "darwin" => Darwin!ResetFindsDevice
     /\ which = "probe" => Probe!ConfiguredOnce
     /\ which = "handles" => MacHandles!ResetRestores
     /\ which = "pipes" => Pipes!ReportsInOrder]_vars
=============================================================================
