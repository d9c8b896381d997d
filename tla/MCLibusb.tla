------------------------------ MODULE MCLibusb --------------------------------
(***************************************************************************)
(* What the platforms share in libusb (core.c, io.c, sync.c, hotplug.c):   *)
(* the threads that share the events, the transfers, the devices and their *)
(* callbacks, and below them the handles and claims of Linux and the       *)
(* monitor that its contexts share (linux_usbfs.c, linux_netlink.c).  They *)
(* are checked side by side: "which" names the one that runs, the          *)
(* transfers stay as they were and the variables of the others are 0.      *)
(***************************************************************************)
EXTENDS LibusbTransfers, Integers

CONSTANTS Threads, Closable,      \* of the events; whose handles may be closed
          Thread,                 \* one that makes every call
          Handle, Handles,        \* one, and those that threads share
          Interfaces, Configs, MaxCalls,
          Users, Sharing,           \* of the monitor; of the default context
          Plugs, MaxPolls           \* the devices that come and go

VARIABLES which,
          events_pc, closing, events_lock, event_handler_active,
          event_waiters_lock, device_close, event_flags, pipe, event_sources,
          event_data, batch, completed_transfers, cut, events_flying,
          events_urb, timer, completed, handle, until,
          dev, refcnt, attached, parent, hotplug_devs, hotplug_msgs, hotplug_ready,
          cb, needs_free, enumerating, hotplug_cbs, cbs_locked, backend, event,
          hotplug_user, kept, told,
          claims_present, claims_attached, owner, claims_active, claims_cached,
          fd, fds, claimed, auto, claims_lock, claims_pc, job, claims_at, val,
          claims_ret, claims_calls, vouched, had,
          plugged, spent, uevents, socket, control, monitor,
          default_context_lock, linux_hotplug_lock, allocated, active_contexts,
          default_context_refcnt, fallback_context, init_count,
          usb_devs, user, polls

eventsVars ==
  <<events_pc, closing, events_lock, event_handler_active, event_waiters_lock,
    device_close, event_flags, pipe, event_sources, event_data, batch,
    completed_transfers, cut, events_flying, events_urb, timer, completed,
    handle, until>>
hotplugVars ==
  <<dev, refcnt, attached, parent, hotplug_devs, hotplug_msgs, hotplug_ready, cb,
    needs_free, enumerating, hotplug_cbs, cbs_locked, backend, event, hotplug_user,
    kept, told>>
claimsVars ==
  <<claims_present, claims_attached, owner, claims_active, claims_cached, fd,
    fds, claimed, auto, claims_lock, claims_pc, job, claims_at, val, claims_ret,
    claims_calls, vouched, had>>
monitorVars ==
  <<plugged, spent, uevents, socket, control, monitor, default_context_lock,
    linux_hotplug_lock, allocated, active_contexts, default_context_refcnt,
    fallback_context, init_count, usb_devs, user, polls>>
others == <<which, eventsVars, hotplugVars, claimsVars, monitorVars>>
all == <<vars, others>>

AllOps == {"open", "wrap", "close", "auto", "claim", "release", "alt", "reset", "detach",
           "attach", "set", "get"}
CtxOf == [u \in Users |-> IF u \in Sharing THEN None ELSE u]
OwnPort == [d \in Plugs |-> d]
SameAddr == [d \in Plugs |-> 1]
NoHub == [d \in Plugs |-> None]
-----------------------------------------------------------------------------
Polled == INSTANCE LibusbEvents WITH
  Closable <- Threads, TimedThreads <- {}, Backend <- "poll",
  CloseBusy <- TRUE, LongWait <- FALSE, pc <- events_pc,
  flying <- events_flying, urb <- events_urb
Signalled == INSTANCE LibusbEvents WITH
  TimedThreads <- Threads \ Closable, Backend <- "signal", CloseBusy <- FALSE,
  LongWait <- FALSE, pc <- events_pc, flying <- events_flying,
  urb <- events_urb

Hotplug == INSTANCE LibusbHotplug WITH
  Devices <- {"d1", "d2"}, Callbacks <- {"c1"}, Nil <- None, MaxKept <- 1,
  EarlyUnplug <- FALSE, usb_devs <- hotplug_devs, user <- hotplug_user
TwoCallbacks == INSTANCE LibusbHotplug WITH
  Devices <- {"d1"}, Callbacks <- {"c1", "c2"}, Nil <- None, MaxKept <- 0,
  EarlyUnplug <- FALSE, usb_devs <- hotplug_devs, user <- hotplug_user

Claims == INSTANCE UsbfsClaims WITH
  Handles <- {Handle}, N <- Interfaces, Configs <- {1},
  Ops <- {"claim", "release", "reset", "auto"},
  DisconnectClaim <- TRUE,
  present <- claims_present, attached <- claims_attached,
  active <- claims_active, cached <- claims_cached, lock <- claims_lock,
  pc <- claims_pc, at <- claims_at, ret <- claims_ret, calls <- claims_calls
ClaimsAlone == INSTANCE UsbfsClaims WITH
  Threads <- {Thread}, Handles <- {Handle}, N <- 1,
  Ops <- AllOps, MaxCalls <- MaxCalls + 2, DisconnectClaim <- FALSE,
  present <- claims_present, attached <- claims_attached,
  active <- claims_active, cached <- claims_cached, lock <- claims_lock,
  pc <- claims_pc, at <- claims_at, ret <- claims_ret, calls <- claims_calls
ClaimsShared == INSTANCE UsbfsClaims WITH
  N <- 1, Configs <- {1},
  Ops <- {"open", "close", "auto", "claim", "release"}, MaxCalls <- MaxCalls + 1,
  DisconnectClaim <- TRUE,
  present <- claims_present, attached <- claims_attached,
  active <- claims_active, cached <- claims_cached, lock <- claims_lock,
  pc <- claims_pc, at <- claims_at, ret <- claims_ret, calls <- claims_calls

Monitor == INSTANCE LinuxMonitor WITH
  Default <- None, Nil <- None, Devices <- Plugs,
  Port <- OwnPort, Addr <- SameAddr, Hub <- NoHub,
  MonitorMayFail <- TRUE, Noise <- FALSE

ASSUME ConstantsAreAllowed ==
  /\ TransfersAssumption
  /\ Polled!EventsAssumption
  /\ Signalled!EventsAssumption
  /\ Hotplug!HotplugAssumption
  /\ TwoCallbacks!HotplugAssumption
  /\ Claims!ClaimsAssumption
  /\ ClaimsAlone!ClaimsAssumption
  /\ ClaimsShared!ClaimsAssumption
  /\ Monitor!MonitorAssumption
-----------------------------------------------------------------------------
EventsOff ==
  /\ events_pc = 0 /\ closing = 0 /\ events_lock = 0
  /\ event_handler_active = 0 /\ event_waiters_lock = 0 /\ device_close = 0
  /\ event_flags = 0 /\ pipe = 0 /\ event_sources = 0 /\ event_data = 0
  /\ batch = 0 /\ completed_transfers = 0 /\ cut = 0 /\ events_flying = 0
  /\ events_urb = 0 /\ timer = 0 /\ completed = 0 /\ handle = 0 /\ until = 0
HotplugOff ==
  /\ dev = 0 /\ refcnt = 0 /\ attached = 0 /\ parent = 0 /\ hotplug_devs = 0
  /\ hotplug_msgs = 0 /\ hotplug_ready = 0 /\ cb = 0 /\ needs_free = 0
  /\ enumerating = 0 /\ hotplug_cbs = 0 /\ cbs_locked = 0 /\ backend = 0
  /\ event = 0 /\ hotplug_user = 0 /\ kept = 0 /\ told = 0
ClaimsOff ==
  /\ claims_present = 0 /\ claims_attached = 0 /\ owner = 0 /\ claims_active = 0
  /\ claims_cached = 0 /\ fd = 0 /\ fds = 0 /\ claimed = 0 /\ auto = 0
  /\ claims_lock = 0 /\ claims_pc = 0 /\ job = 0 /\ claims_at = 0 /\ val = 0
  /\ claims_ret = 0 /\ claims_calls = 0 /\ vouched = 0 /\ had = 0
MonitorOff ==
  /\ plugged = 0 /\ spent = 0 /\ uevents = 0 /\ socket = 0 /\ control = 0
  /\ monitor = 0 /\ default_context_lock = 0 /\ linux_hotplug_lock = 0
  /\ allocated = 0 /\ active_contexts = 0 /\ default_context_refcnt = 0
  /\ fallback_context = 0 /\ init_count = 0 /\ usb_devs = 0
  /\ user = 0 /\ polls = 0
AllInit ==
  /\ Init
  /\ \/ which = "transfers" /\ EventsOff /\ HotplugOff /\ ClaimsOff /\ MonitorOff
     \/ /\ \/ which = "events" /\ Polled!Init
           \/ which = "signalled" /\ Signalled!Init
        /\ HotplugOff /\ ClaimsOff /\ MonitorOff
     \/ /\ \/ which = "hotplug" /\ Hotplug!Init
           \/ which = "callbacks" /\ TwoCallbacks!Init
        /\ EventsOff /\ ClaimsOff /\ MonitorOff
     \/ /\ \/ which = "claims" /\ Claims!Init
           \/ which = "alone" /\ ClaimsAlone!Init
           \/ which = "shared" /\ ClaimsShared!Init
        /\ EventsOff /\ HotplugOff /\ MonitorOff
     \/ which = "monitor" /\ Monitor!Init /\ EventsOff /\ HotplugOff /\ ClaimsOff

AllNext ==
  \/ which = "transfers" /\ Next /\ UNCHANGED others
  \/ /\ \/ which = "events" /\ Polled!Next
        \/ which = "signalled" /\ Signalled!Next
     /\ UNCHANGED <<vars, which, hotplugVars, claimsVars, monitorVars>>
  \/ /\ \/ which = "hotplug" /\ Hotplug!Next
        \/ which = "callbacks" /\ TwoCallbacks!Next
     /\ UNCHANGED <<vars, which, eventsVars, claimsVars, monitorVars>>
  \/ /\ \/ which = "claims" /\ Claims!Next
        \/ which = "alone" /\ ClaimsAlone!Next
        \/ which = "shared" /\ ClaimsShared!Next
     /\ UNCHANGED <<vars, which, eventsVars, hotplugVars, monitorVars>>
  \/ which = "monitor" /\ Monitor!Next
     /\ UNCHANGED <<vars, which, eventsVars, hotplugVars, claimsVars>>

AllSpec == AllInit /\ [][AllNext]_all
-----------------------------------------------------------------------------
(***************************************************************************)
(* The threads that share the events: the pipe tells of exactly what is    *)
(* pending, and what poll() reported is handled while its handle is open   *)
(* (io.c, core.c; see LibusbEvents).                                       *)
(***************************************************************************)
EventsSound ==
  /\ which = "events" => Polled!TypeOK /\ Polled!PipeMatchesFlags /\ Polled!ReportedIsOpen
  /\ which = "signalled" => Signalled!PipeMatchesFlags

(***************************************************************************)
(* The transfers: one callback for each, though completions, timeouts,     *)
(* cancellations, submissions and a disconnect meet; no transfer in flight *)
(* is missing from the list, and none that was freed is touched (io.c,     *)
(* sync.c; see LibusbTransfers).                                           *)
(***************************************************************************)
TransfersSound ==
  which = "transfers" =>
    /\ TypeOK
    /\ CallbackIsOwed /\ ListedWhileOwed /\ SortedByTimeout
    /\ StatusIsTrue /\ FreedIsUntouched /\ DisconnectedIsEmpty

(***************************************************************************)
(* Devices and hotplug callbacks: what is read is alive, nothing leaks,    *)
(* what the user kept survives the context, and a callback is told of      *)
(* every arrival and departure in order (core.c, hotplug.c; see            *)
(* LibusbHotplug).                                                         *)
(***************************************************************************)
HotplugSound ==
  /\ which = "hotplug" =>
       /\ Hotplug!TypeOK /\ Hotplug!HeldIsAlive /\ Hotplug!NothingLeaks
       /\ Hotplug!ExitLeavesKept /\ Hotplug!ToldInOrder /\ Hotplug!NoneMissed
  /\ which = "callbacks" => TwoCallbacks!IteratedIsAlive

(***************************************************************************)
(* Linux, claims: the mask of the handle is what usbfs holds, drivers come *)
(* back, and the cached configuration is the active one (linux_usbfs.c,    *)
(* core.c; see UsbfsClaims).  The monitor, for threads that share the      *)
(* default context or have their own: whoever is inside is served, and a   *)
(* poll answers from what has happened (core.c, linux_netlink.c; see       *)
(* LinuxMonitor).                                                          *)
(***************************************************************************)
LinuxSound ==
  /\ which = "claims" => Claims!MaskIsOwned /\ Claims!LockProtects /\ Claims!DriverComesBack
  /\ which = "alone" => /\ ClaimsAlone!TypeOK /\ ClaimsAlone!MaskIsOwned
                        /\ ClaimsAlone!CacheIsActive
  /\ which = "monitor" => Monitor!InsideIsServed /\ Monitor!PolledIsFresh

(***************************************************************************)
(* What no call may do on Linux: close a descriptor libusb did not open,   *)
(* take an interface from who holds it (see UsbfsClaims).                  *)
(***************************************************************************)
StepsSound ==
  [][/\ which = "alone" => ClaimsAlone!DescriptorsAreOwned
     /\ which = "shared" => ClaimsShared!NeverSteals]_all
=============================================================================
