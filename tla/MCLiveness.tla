----------------------------- MODULE MCLiveness -------------------------------
(***************************************************************************)
(* What ends.  Small instances of the components whose code must not wait  *)
(* for ever stand side by side; "which" names the one that runs, and the   *)
(* variables of the others are 0.  The fairness and the properties are     *)
(* those of all of them: a behaviour is a behaviour of one.                *)
(***************************************************************************)
EXTENDS Integers, FiniteSets, SequencesExt, TLC

CONSTANTS Nil

VARIABLES which,
          events_pc, closing, events_lock, event_handler_active,
          event_waiters_lock, device_close, event_flags, events_pipe,
          event_sources, event_data, batch, completed_transfers, events_cut,
          events_flying, events_urb, timer, events_completed, handle, until,
          transfers_pc, cur, flying_transfers_lock, transfers_lock,
          transfers_flying, left, state_flags, timeout_flags, alloc,
          transfers_urb, transfers_gone, removed, scan, verdict,
          transfers_status, owed, transfers_cause,
          sent, bos_pc, bos_size, bos_num, caps, heap, bos_ret, bytes, length,
          out,
          urbs_kind, num_urbs, urbs_pc, at, first, urbs_lock, urbs_urb, done,
          urbs, num_retired, reap_action, reap_status, urbs_transferred,
          buffer, urbs_packets, urbs_gone, urbs_ret, urbs_cut, outcome,
          plugged, spent, uevents, socket, control, monitor,
          default_context_lock, linux_hotplug_lock, allocated, active_contexts,
          default_context_refcnt, fallback_context, monitor_init_count,
          usb_devs, user, polls,
          place, darwin_kind, darwin_present, darwin_asked, returning, add,
          rem, armed, cached, mem, cache, alive, darwin_listed, darwin_session,
          darwin_opened, active, ctx, darwin_init_count, acfl, stop,
          darwin_thread, event, app, reset, resets, broken,
          where, aborts_pipe, loop, aborts_completed, os, timed_out, expired,
          result, aborts_size, aborts_transferred, aborts_status, flag,
          aborts_asked, whole, zeros, list, aborts_num, aborts_packets, desc,
          frame, next_frame, start, lost, aborts_cause, received, log, submits,
          probe_pc, hw, asleep, conf, probe_opened, is_open, unsuspended,
          try_unsuspend, try_reconfigure, retries, probe_ret, descriptor,
          requests, can_enumerate, first_config, active_config, index,
          hid_present, device, hid_closed, mutex, prepend, conn, hid_thread,
          up, inbox, refused, wire, hand, ping, data, port, udp_closed, sends,
          udp_pc, op, turn, found, udp_listed,
          attached, listen_session, lastId, calling, lastInfos, known, listen,
          changes

eventsVars ==
  <<events_pc, closing, events_lock, event_handler_active, event_waiters_lock,
    device_close, event_flags, events_pipe, event_sources, event_data, batch,
    completed_transfers, events_cut, events_flying, events_urb, timer,
    events_completed, handle, until>>
transfersVars ==
  <<transfers_pc, cur, flying_transfers_lock, transfers_lock, transfers_flying,
    left, state_flags, timeout_flags, alloc, transfers_urb, transfers_gone,
    removed, scan, verdict, transfers_status, owed, transfers_cause>>
bosVars ==
  <<sent, bos_pc, bos_size, bos_num, caps, heap, bos_ret, bytes, length, out>>
urbsVars ==
  <<urbs_kind, num_urbs, urbs_pc, at, first, urbs_lock, urbs_urb, done, urbs,
    num_retired, reap_action, reap_status, urbs_transferred, buffer,
    urbs_packets, urbs_gone, urbs_ret, urbs_cut, outcome>>
monitorVars ==
  <<plugged, spent, uevents, socket, control, monitor, default_context_lock,
    linux_hotplug_lock, allocated, active_contexts, default_context_refcnt,
    fallback_context, monitor_init_count, usb_devs, user, polls>>
darwinVars ==
  <<place, darwin_kind, darwin_present, darwin_asked, returning, add, rem,
    armed, cached, mem, cache, alive, darwin_listed, darwin_session,
    darwin_opened, active, ctx, darwin_init_count, acfl, stop, darwin_thread,
    event, app, reset, resets, broken>>
abortsVars ==
  <<where, aborts_pipe, loop, aborts_completed, os, timed_out, expired, result,
    aborts_size, aborts_transferred, aborts_status, flag, aborts_asked, whole,
    zeros, list, aborts_num, aborts_packets, desc, frame, next_frame, start,
    lost, aborts_cause, received, log, submits>>
probeVars ==
  <<probe_pc, hw, asleep, conf, probe_opened, is_open, unsuspended,
    try_unsuspend, try_reconfigure, retries, probe_ret, descriptor, requests,
    can_enumerate, first_config, active_config, index>>
hidVars ==
  <<hid_present, device, hid_closed, mutex, prepend, conn, hid_thread>>
udpVars ==
  <<up, inbox, refused, wire, hand, ping, data, port, udp_closed, sends,
    udp_pc, op, turn, found, udp_listed>>
listenVars ==
  <<attached, listen_session, lastId, calling, lastInfos, known, listen,
    changes>>
vars == <<which, eventsVars, transfersVars, bosVars, urbsVars, monitorVars, darwinVars, abortsVars, probeVars, hidVars, udpVars, listenVars>>

Two == {"t1", "t2"}
Other(t) == CHOOSE u \in Two : u # t

OwnContexts == [u \in Two |-> u]
OnePort == [d \in {"d1"} |-> "1"]
OneAddr == [d \in {"d1"} |-> 1]
NoHub == [d \in {"d1"} |-> Nil]

\* every kind of device, with no configuration, one, or two
ProbedDevices ==
  {d \in [apple : BOOLEAN, seizes : BOOLEAN, asleep : BOOLEAN, odd : BOOLEAN,
          product : BOOLEAN, configs : {<<>>, <<1>>, <<3>>, <<2, 1>>}, conf : {0, 1, 2}] :
     d.conf \in ToSet(d.configs) \cup {0}}
-----------------------------------------------------------------------------
Woken == INSTANCE LibusbEvents WITH
  Threads <- Two, None <- Nil, Closable <- {"t1"}, TimedThreads <- {"t2"},
  Backend <- "poll", CloseBusy <- FALSE, LongWait <- FALSE, pc <- events_pc,
  pipe <- events_pipe, cut <- events_cut, flying <- events_flying,
  urb <- events_urb, completed <- events_completed
Closed == INSTANCE LibusbEvents WITH
  Threads <- Two, None <- Nil, Closable <- {"t1"}, TimedThreads <- {},
  Backend <- "poll", CloseBusy <- TRUE, LongWait <- TRUE, pc <- events_pc,
  pipe <- events_pipe, cut <- events_cut, flying <- events_flying,
  urb <- events_urb, completed <- events_completed

Transfers == INSTANCE LibusbTransfers WITH
  SyncTransfers <- {"t1"}, AsyncTransfers <- {}, Timeouts <- {1, 2},
  Infinite <- 3, None <- Nil, pc <- transfers_pc, lock <- transfers_lock,
  flying <- transfers_flying, urb <- transfers_urb, gone <- transfers_gone,
  status <- transfers_status, cause <- transfers_cause

Bos == INSTANCE BosReader WITH
  MaxCaps <- 2, MaxString <- 4, MallocFails <- FALSE, pc <- bos_pc,
  size <- bos_size, num <- bos_num, ret <- bos_ret

Urbs == INSTANCE UsbfsTransfers WITH
  MaxUrbs <- 2, Size <- 2,
  Kinds <- {"split", "continuation", "iso", "control"}, kind <- urbs_kind,
  pc <- urbs_pc, lock <- urbs_lock, urb <- urbs_urb,
  transferred <- urbs_transferred, packets <- urbs_packets, gone <- urbs_gone,
  ret <- urbs_ret, cut <- urbs_cut

Monitor == INSTANCE LinuxMonitor WITH
  Users <- Two, CtxOf <- OwnContexts, Default <- Nil, Devices <- {"d1"},
  Port <- OnePort, Addr <- OneAddr, Hub <- NoHub, MonitorMayFail <- FALSE,
  Noise <- FALSE, MaxPolls <- 1, init_count <- monitor_init_count

Darwin == INSTANCE DarwinDevices WITH
  Contexts <- {"c1"}, Locations <- {"l1"}, Threads <- {"t1"}, MaxSession <- 2,
  MaxResets <- 1, Kinds <- {"good", "mute"}, Calm <- {"plug", "reset"},
  Timeouts <- TRUE, StartupFails <- TRUE, kind <- darwin_kind,
  present <- darwin_present, asked <- darwin_asked, listed <- darwin_listed,
  session <- darwin_session, opened <- darwin_opened,
  init_count <- darwin_init_count, thread <- darwin_thread

Aborts == INSTANCE DarwinTransfers WITH
  Control <- {"c"}, Interrupt <- {"i"}, Bulk <- {"b"}, Stream <- {"s"},
  Iso <- {}, Counts <- {1, 2}, FullSpeed <- TRUE, Ops <- {"cancel", "flag"},
  Results <- {"success"}, MaxSubmits <- 2, MaxFrame <- 0, pipe <- aborts_pipe,
  completed <- aborts_completed, size <- aborts_size,
  transferred <- aborts_transferred, status <- aborts_status,
  asked <- aborts_asked, num <- aborts_num, packets <- aborts_packets,
  cause <- aborts_cause

Probe == INSTANCE DarwinProbe WITH
  Devices <- ProbedDevices, MaxRetries <- 1, pc <- probe_pc,
  opened <- probe_opened, ret <- probe_ret

HidDevice == INSTANCE Hid WITH
  Threads <- Two, Windows <- FALSE, Newer <- TRUE, Quiet <- TRUE,
  MaxHandles <- 1, present <- hid_present, closed <- hid_closed,
  thread <- hid_thread

WithDebug == INSTANCE UdpBus WITH
  Touples <- <<[normal |-> 1, debug |-> 2]>>, MaxDevices <- 1, MaxSends <- 1,
  MaxNet <- 2, DataCap <- 1, Slow <- FALSE, closed <- udp_closed, pc <- udp_pc,
  listed <- udp_listed
LatePongs == INSTANCE UdpBus WITH
  Touples <- <<[normal |-> 1, debug |-> 0]>>, MaxDevices <- 1, MaxSends <- 1,
  MaxNet <- 1, DataCap <- 2, Slow <- TRUE, closed <- udp_closed, pc <- udp_pc,
  listed <- udp_listed

Client == INSTANCE Listen WITH
  Devices <- {"d1", "d2"}, IterMax <- 3, IterDelay <- 500, MaxChanges <- 4,
  session <- listen_session

ASSUME ConstantsAreAllowed ==
  /\ Woken!EventsAssumption
  /\ Closed!EventsAssumption
  /\ Transfers!TransfersAssumption
  /\ Bos!BosAssumption
  /\ Urbs!UsbfsAssumption
  /\ Monitor!MonitorAssumption
  /\ Darwin!DarwinAssumption
  /\ Aborts!DarwinTransfersAssumption
  /\ Probe!ProbeAssumption
  /\ HidDevice!HidAssumption
  /\ WithDebug!UdpAssumption
  /\ LatePongs!UdpAssumption
  /\ Client!ListenAssumption
-----------------------------------------------------------------------------
EventsOff ==
  /\ events_pc = 0 /\ closing = 0 /\ events_lock = 0
  /\ event_handler_active = 0 /\ event_waiters_lock = 0 /\ device_close = 0
  /\ event_flags = 0 /\ events_pipe = 0 /\ event_sources = 0
  /\ event_data = 0 /\ batch = 0 /\ completed_transfers = 0
  /\ events_cut = 0 /\ events_flying = 0 /\ events_urb = 0 /\ timer = 0
  /\ events_completed = 0 /\ handle = 0 /\ until = 0
TransfersOff ==
  /\ transfers_pc = 0 /\ cur = 0 /\ flying_transfers_lock = 0
  /\ transfers_lock = 0 /\ transfers_flying = 0 /\ left = 0
  /\ state_flags = 0 /\ timeout_flags = 0 /\ alloc = 0 /\ transfers_urb = 0
  /\ transfers_gone = 0 /\ removed = 0 /\ scan = 0 /\ verdict = 0
  /\ transfers_status = 0 /\ owed = 0 /\ transfers_cause = 0
BosOff ==
  /\ sent = 0 /\ bos_pc = 0 /\ bos_size = 0 /\ bos_num = 0 /\ caps = 0
  /\ heap = 0 /\ bos_ret = 0 /\ bytes = 0 /\ length = 0 /\ out = 0
UrbsOff ==
  /\ urbs_kind = 0 /\ num_urbs = 0 /\ urbs_pc = 0 /\ at = 0 /\ first = 0
  /\ urbs_lock = 0 /\ urbs_urb = 0 /\ done = 0 /\ urbs = 0
  /\ num_retired = 0 /\ reap_action = 0 /\ reap_status = 0
  /\ urbs_transferred = 0 /\ buffer = 0 /\ urbs_packets = 0 /\ urbs_gone = 0
  /\ urbs_ret = 0 /\ urbs_cut = 0 /\ outcome = 0
MonitorOff ==
  /\ plugged = 0 /\ spent = 0 /\ uevents = 0 /\ socket = 0 /\ control = 0
  /\ monitor = 0 /\ default_context_lock = 0 /\ linux_hotplug_lock = 0
  /\ allocated = 0 /\ active_contexts = 0 /\ default_context_refcnt = 0
  /\ fallback_context = 0 /\ monitor_init_count = 0 /\ usb_devs = 0
  /\ user = 0 /\ polls = 0
DarwinOff ==
  /\ place = 0 /\ darwin_kind = 0 /\ darwin_present = 0 /\ darwin_asked = 0
  /\ returning = 0 /\ add = 0 /\ rem = 0 /\ armed = 0 /\ cached = 0
  /\ mem = 0 /\ cache = 0 /\ alive = 0 /\ darwin_listed = 0
  /\ darwin_session = 0 /\ darwin_opened = 0 /\ active = 0 /\ ctx = 0
  /\ darwin_init_count = 0 /\ acfl = 0 /\ stop = 0 /\ darwin_thread = 0
  /\ event = 0 /\ app = 0 /\ reset = 0 /\ resets = 0 /\ broken = 0
AbortsOff ==
  /\ where = 0 /\ aborts_pipe = 0 /\ loop = 0 /\ aborts_completed = 0
  /\ os = 0 /\ timed_out = 0 /\ expired = 0 /\ result = 0 /\ aborts_size = 0
  /\ aborts_transferred = 0 /\ aborts_status = 0 /\ flag = 0
  /\ aborts_asked = 0 /\ whole = 0 /\ zeros = 0 /\ list = 0
  /\ aborts_num = 0 /\ aborts_packets = 0 /\ desc = 0 /\ frame = 0
  /\ next_frame = 0 /\ start = 0 /\ lost = 0 /\ aborts_cause = 0
  /\ received = 0 /\ log = 0 /\ submits = 0
ProbeOff ==
  /\ probe_pc = 0 /\ hw = 0 /\ asleep = 0 /\ conf = 0 /\ probe_opened = 0
  /\ is_open = 0 /\ unsuspended = 0 /\ try_unsuspend = 0
  /\ try_reconfigure = 0 /\ retries = 0 /\ probe_ret = 0 /\ descriptor = 0
  /\ requests = 0 /\ can_enumerate = 0 /\ first_config = 0
  /\ active_config = 0 /\ index = 0
HidOff ==
  /\ hid_present = 0 /\ device = 0 /\ hid_closed = 0 /\ mutex = 0
  /\ prepend = 0 /\ conn = 0 /\ hid_thread = 0
UdpOff ==
  /\ up = 0 /\ inbox = 0 /\ refused = 0 /\ wire = 0 /\ hand = 0 /\ ping = 0
  /\ data = 0 /\ port = 0 /\ udp_closed = 0 /\ sends = 0 /\ udp_pc = 0
  /\ op = 0 /\ turn = 0 /\ found = 0 /\ udp_listed = 0
ListenOff ==
  /\ attached = 0 /\ listen_session = 0 /\ lastId = 0 /\ calling = 0
  /\ lastInfos = 0 /\ known = 0 /\ listen = 0 /\ changes = 0
Init ==
  \/ /\ \/ which = "woken" /\ Woken!Init
        \/ which = "closed" /\ Closed!Init
     /\ TransfersOff /\ BosOff /\ UrbsOff /\ MonitorOff /\ DarwinOff /\
        AbortsOff /\ ProbeOff /\ HidOff /\ UdpOff /\ ListenOff
  \/ which = "transfers" /\ Transfers!Init
     /\ EventsOff /\ BosOff /\ UrbsOff /\ MonitorOff /\ DarwinOff /\
        AbortsOff /\ ProbeOff /\ HidOff /\ UdpOff /\ ListenOff
  \/ which = "bos" /\ Bos!Init
     /\ EventsOff /\ TransfersOff /\ UrbsOff /\ MonitorOff /\ DarwinOff /\
        AbortsOff /\ ProbeOff /\ HidOff /\ UdpOff /\ ListenOff
  \/ which = "urbs" /\ Urbs!Init
     /\ EventsOff /\ TransfersOff /\ BosOff /\ MonitorOff /\ DarwinOff /\
        AbortsOff /\ ProbeOff /\ HidOff /\ UdpOff /\ ListenOff
  \/ which = "monitor" /\ Monitor!Init
     /\ EventsOff /\ TransfersOff /\ BosOff /\ UrbsOff /\ DarwinOff /\
        AbortsOff /\ ProbeOff /\ HidOff /\ UdpOff /\ ListenOff
  \/ which = "darwin" /\ Darwin!Init
     /\ EventsOff /\ TransfersOff /\ BosOff /\ UrbsOff /\ MonitorOff /\
        AbortsOff /\ ProbeOff /\ HidOff /\ UdpOff /\ ListenOff
  \/ which = "aborts" /\ Aborts!Init
     /\ EventsOff /\ TransfersOff /\ BosOff /\ UrbsOff /\ MonitorOff /\
        DarwinOff /\ ProbeOff /\ HidOff /\ UdpOff /\ ListenOff
  \/ which = "probe" /\ Probe!Init
     /\ EventsOff /\ TransfersOff /\ BosOff /\ UrbsOff /\ MonitorOff /\
        DarwinOff /\ AbortsOff /\ HidOff /\ UdpOff /\ ListenOff
  \/ which = "hid" /\ HidDevice!Init
     /\ EventsOff /\ TransfersOff /\ BosOff /\ UrbsOff /\ MonitorOff /\
        DarwinOff /\ AbortsOff /\ ProbeOff /\ UdpOff /\ ListenOff
  \/ /\ \/ which = "debug" /\ WithDebug!Init
        \/ which = "late" /\ LatePongs!Init
     /\ EventsOff /\ TransfersOff /\ BosOff /\ UrbsOff /\ MonitorOff /\
        DarwinOff /\ AbortsOff /\ ProbeOff /\ HidOff /\ ListenOff
  \/ which = "listen" /\ Client!Init
     /\ EventsOff /\ TransfersOff /\ BosOff /\ UrbsOff /\ MonitorOff /\
        DarwinOff /\ AbortsOff /\ ProbeOff /\ HidOff /\ UdpOff

Next ==
  \/ /\ \/ which = "woken" /\ Woken!Next
        \/ which = "closed" /\ Closed!Next
     /\ UNCHANGED <<which, transfersVars, bosVars, urbsVars, monitorVars, darwinVars, abortsVars, probeVars, hidVars, udpVars, listenVars>>
  \/ which = "transfers" /\ Transfers!Next
     /\ UNCHANGED <<which, eventsVars, bosVars, urbsVars, monitorVars, darwinVars, abortsVars, probeVars, hidVars, udpVars, listenVars>>
  \/ which = "bos" /\ Bos!Next
     /\ UNCHANGED <<which, eventsVars, transfersVars, urbsVars, monitorVars, darwinVars, abortsVars, probeVars, hidVars, udpVars, listenVars>>
  \/ which = "urbs" /\ Urbs!Next
     /\ UNCHANGED <<which, eventsVars, transfersVars, bosVars, monitorVars, darwinVars, abortsVars, probeVars, hidVars, udpVars, listenVars>>
  \/ which = "monitor" /\ Monitor!Next
     /\ UNCHANGED <<which, eventsVars, transfersVars, bosVars, urbsVars, darwinVars, abortsVars, probeVars, hidVars, udpVars, listenVars>>
  \/ which = "darwin" /\ Darwin!Next
     /\ UNCHANGED <<which, eventsVars, transfersVars, bosVars, urbsVars, monitorVars, abortsVars, probeVars, hidVars, udpVars, listenVars>>
  \/ which = "aborts" /\ Aborts!Next
     /\ UNCHANGED <<which, eventsVars, transfersVars, bosVars, urbsVars, monitorVars, darwinVars, probeVars, hidVars, udpVars, listenVars>>
  \/ which = "probe" /\ Probe!Next
     /\ UNCHANGED <<which, eventsVars, transfersVars, bosVars, urbsVars, monitorVars, darwinVars, abortsVars, hidVars, udpVars, listenVars>>
  \/ which = "hid" /\ HidDevice!Next
     /\ UNCHANGED <<which, eventsVars, transfersVars, bosVars, urbsVars, monitorVars, darwinVars, abortsVars, probeVars, udpVars, listenVars>>
  \/ /\ \/ which = "debug" /\ WithDebug!Next
        \/ which = "late" /\ LatePongs!Next
     /\ UNCHANGED <<which, eventsVars, transfersVars, bosVars, urbsVars, monitorVars, darwinVars, abortsVars, probeVars, hidVars, listenVars>>
  \/ which = "listen" /\ Client!Next
     /\ UNCHANGED <<which, eventsVars, transfersVars, bosVars, urbsVars, monitorVars, darwinVars, abortsVars, probeVars, hidVars, udpVars>>

-----------------------------------------------------------------------------
(***************************************************************************)
(* Fairness: threads and goroutines are scheduled, time passes, the kernel *)
(* gives back what is cancelled, an emulator reads its socket, clients go  *)
(* on asking.  A device need not answer, and a mutex is not fair, except   *)
(* Go's, which goes to the goroutine that waited a millisecond.            *)
(* One operator per kind of actor, over the components that have it.       *)
(***************************************************************************)
running ==
  CASE which \in {"woken", "closed"} -> eventsVars
    [] which = "transfers" -> transfersVars
    [] which = "bos" -> bosVars
    [] which = "urbs" -> urbsVars
    [] which = "monitor" -> monitorVars
    [] which = "darwin" -> darwinVars
    [] which = "aborts" -> abortsVars
    [] which = "probe" -> probeVars
    [] which = "hid" -> hidVars
    [] which \in {"debug", "late"} -> udpVars
    [] which = "listen" -> listenVars

Thread(t) ==
  /\ which' = which
  /\ \/ which = "woken" /\ Woken!Step(t)
     \/ which = "closed" /\ Closed!Step(t)
     \/ which = "transfers" /\ t = "t1" /\ Transfers!Submitting(t)
     \/ which = "monitor" /\ Monitor!Work(t)
     \/ which = "darwin" /\ t = "t1" /\ Darwin!ResetSteps(t)
     \/ which = "hid" /\ HidDevice!Work(t)

\* a thread in libusb_close
Closer(t) ==
  /\ which' = which
  /\ \/ which = "woken" /\ Woken!CloseStep(t)
     \/ which = "closed" /\ Closed!CloseStep(t)

\* the kernel gives the transfer of a thread back, its timeout passes
Discarder(t) ==
  /\ which' = which
  /\ \/ which = "woken" /\ Woken!Discarded(t)
     \/ which = "closed" /\ Closed!Discarded(t)

Timeout(t) ==
  /\ which' = which
  /\ \/ which = "woken" /\ Woken!Expire(t)
     \/ which = "closed" /\ Closed!Expire(t)

Signaller(t) ==
  /\ which' = which
  /\ \/ which = "woken" /\ Woken!SignalCompletion(t)
     \/ which = "closed" /\ Closed!SignalCompletion(t)

\* the thread of the events, of the monitor, of the run loop; a call that runs alone
EventLoop ==
  /\ which' = which
  /\ \/ which = "transfers" /\ (Transfers!Events \/ Transfers!Submitting("events"))
     \/ which = "urbs" /\ Urbs!Events
     \/ which = "monitor" /\ (Monitor!MonitorPoll \/ Monitor!MonitorRead)
     \/ which = "darwin" /\ Darwin!EventThread
     \/ which = "aborts" /\ Aborts!darwin_async_io_callback
     \/ which = "probe" /\ Probe!Next
     \/ which = "bos" /\ (Bos!StringCopy \/ Bos!CapsEnd \/ Bos!AddCap \/ Bos!CapInvalid)
     \/ which = "listen" /\ Client!Poll

Application ==
  /\ which' = which
  /\ \/ which = "transfers" /\ Transfers!Timer
     \/ which = "urbs" /\ Urbs!User
     \/ which = "darwin" /\ Darwin!AppSteps
     \/ which = "aborts" /\ Aborts!darwin_handle_transfer_completion
     \/ which = "listen" /\ Client!Request
     \/ which = "debug" /\ WithDebug!Enumerate
     \/ which = "late" /\ LatePongs!Enumerate

Clock == which' = which /\ which = "transfers" /\ Transfers!Tick

\* the emulator of a port and the goroutine that reads the port's socket
Ports == {1, 2}
Emulator(p) ==
  /\ which' = which
  /\ \/ which = "debug" /\ WithDebug!Answer(p)
     \/ which = "late" /\ p = 1 /\ LatePongs!Answer(p)

Receiver(p) ==
  /\ which' = which
  /\ \/ which = "debug" /\ WithDebug!Receive(p)
     \/ which = "late" /\ p = 1 /\ LatePongs!Receive(p)

Deliverer(p) ==
  /\ which' = which
  /\ \/ which = "debug" /\ WithDebug!Deliver(p)
     \/ which = "late" /\ p = 1 /\ LatePongs!Deliver(p)

\* who asks an emulator whether it is there, and who reads and writes
Callers == {"call", "post"} \X {1}
Askers == Callers \cup {<<"enumerate", 0>>}
Asker(t) ==
  /\ which' = which
  /\ \/ which = "debug" /\ WithDebug!Check(t)
     \/ which = "late" /\ LatePongs!Check(t)

Answered(t) ==
  /\ which' = which
  /\ \/ which = "debug" /\ (WithDebug!Pong(t) \/ WithDebug!Timeout(t))
     \/ which = "late" /\ (LatePongs!Pong(t) \/ LatePongs!Timeout(t))

Caller(t) ==
  /\ which' = which
  /\ \/ which = "debug" /\ (WithDebug!Write(t) \/ WithDebug!Read(t) \/ WithDebug!ReadAgain(t))
     \/ which = "late" /\ (LatePongs!Write(t) \/ LatePongs!Read(t) \/ LatePongs!ReadAgain(t))

Locker(t) == which' = which /\ which = "hid" /\ HidDevice!Lock(t)

Fairness ==
  /\ \A t \in Two :
       /\ WF_running(Thread(t)) /\ WF_running(Closer(t))
       /\ WF_running(Discarder(t)) /\ WF_running(Timeout(t)) /\ WF_running(Signaller(t))
       /\ SF_running(Locker(t))
  /\ WF_running(EventLoop) /\ WF_running(Application) /\ WF_running(Clock)
  /\ \A p \in Ports : WF_running(Emulator(p)) /\ WF_running(Receiver(p)) /\ WF_running(Deliverer(p))
  /\ \A t \in Askers : WF_running(Asker(t)) /\ WF_running(Answered(t))
  /\ \A t \in Callers : WF_running(Caller(t))

Spec == Init /\ [][Next]_vars /\ Fairness

-----------------------------------------------------------------------------
(***************************************************************************)
(* Nobody waits for ever: what each component calls waiting (the           *)
(* definitions named here, with their code) is not so for good.            *)
(***************************************************************************)
Stuck(t) ==
  \/ which = "woken" /\ (Woken!Overslept(t) \/ Woken!CloseStarves(t))
  \/ which = "closed" /\ Closed!LeftWaiting(t)
  \/ which = "transfers" /\ Transfers!NeverEnds("t1")
  \/ which = "bos" /\ Bos!Looping
  \/ which = "urbs" /\ Urbs!Unreported
  \/ which = "monitor" /\ Monitor!Joining(t)
  \/ which = "darwin" /\ (IF t = "t1" THEN Darwin!InReset(t) ELSE Darwin!Calling)
  \/ which = "aborts" /\ \E x \in (IF t = "t1" THEN {"c", "i"} ELSE {"b", "s"}) : Aborts!Aborting(x)
  \/ which = "probe" /\ Probe!Probing
  \/ which = "hid" /\ HidDevice!Hanging(t)
  \/ which = "late" /\ LatePongs!Hanging(1)

NobodyStuck == \A t \in Two : []<>~Stuck(t)

(***************************************************************************)
(* README, /enumerate and /listen: once no call runs and nothing comes or  *)
(* goes, the listings become the emulators that are there, and the client  *)
(* that listens comes to know the devices that are there.                  *)
(***************************************************************************)
Settling(S) ==
  \/ which = "debug" /\ WithDebug!Up(S)
  \/ which = "late" /\ S = {1} /\ LatePongs!Gone(1)
  \/ which = "listen" /\ ~calling

Settled(S) ==
  /\ which = "debug" => WithDebug!Listed(S)
  /\ which = "late" => LatePongs!Unlisted(1)
  /\ which = "listen" => Client!DevicesSeen

ListingsSettle == \A S \in SUBSET Ports : []<>~Settling(S) \/ <>[]Settled(S)

(***************************************************************************)
(* The client that listens comes to know every session of the devices it   *)
(* knows of, also while calls are in progress for ever.                    *)
(***************************************************************************)
SessionsSettle == <>[](which = "listen" => Client!SessionsSeen)
=============================================================================
