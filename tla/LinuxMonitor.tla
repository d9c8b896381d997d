---------------------------- MODULE LinuxMonitor ----------------------------
(***************************************************************************)
(* How libusb knows the devices on Linux: libusb_init and libusb_exit of   *)
(* core.c, the scan of sysfs and the objects of linux_usbfs.c, and the     *)
(* thread of linux_netlink.c that reads the kernel's messages.  The kernel *)
(* plugs devices in and out between any two steps; a message says only the *)
(* address and the port, and the descriptors are read from the port when   *)
(* the message is handled, whatever is plugged there by then.              *)
(*                                                                         *)
(* Users stand for threads of the program; each has a context of its own   *)
(* or shares the default one.                                              *)
(***************************************************************************)
EXTENDS Integers, Sequences, FiniteSets

CONSTANTS Users, CtxOf,           \* the context each user names
          Default, Nil,           \* libusb_init(NULL) names Default
          Devices, Port, Addr,    \* where the kernel puts each device
          Hub,                    \* the device a device is plugged into, or Nil
          MonitorMayFail,         \* linux_start_event_monitor may fail
          Noise,                  \* uevents that are not of devices
          MaxPolls                \* calls of libusb_get_device_list

MonitorAssumption ==
  /\ IsFiniteSet(Users) /\ Nil \notin Users \cup Devices
  /\ \A u, v \in Users : CtxOf[u] = CtxOf[v] => u = v \/ CtxOf[u] = Default
  /\ Hub \in [Devices -> Devices \cup {Nil}]
  /\ MonitorMayFail \in BOOLEAN /\ Noise \in BOOLEAN /\ MaxPolls \in Nat

Contexts == {CtxOf[u] : u \in Users}
Ports == {Port[d] : d \in Devices}
Addrs == {Addr[d] : d \in Devices}

VARIABLES
  plugged, spent,                 \* the kernel's devices; each comes once
  uevents, socket,                \* linux_netlink_socket and what waits in it
  control, monitor,               \* netlink_control_event, the thread
  default_context_lock, linux_hotplug_lock,
  allocated, active_contexts, default_context_refcnt, fallback_context,
  init_count,
  usb_devs,                       \* of each context
  user,                           \* each thread of the program
  polls

vars == <<plugged, spent, uevents, socket, control, monitor, default_context_lock,
          linux_hotplug_lock, allocated, active_contexts, default_context_refcnt,
          fallback_context, init_count, usb_devs, user, polls>>

kernel == <<plugged, spent>>
netlink == <<uevents, socket, control, monitor>>
locks == <<default_context_lock, linux_hotplug_lock>>
contexts == <<allocated, active_contexts, default_context_refcnt, fallback_context, init_count>>

Objects == [addr : Addrs, port : Ports, dev : Devices,
            parent : Ports \cup {Nil}]

Idle == [pc |-> "out", ports |-> {}, port |-> Nil, addr |-> Nil, found |-> 0, fresh |-> 0,
         obj |-> Nil]

TypeOK ==
  /\ plugged \subseteq Devices /\ spent \subseteq Devices
  /\ socket \in BOOLEAN /\ control \in BOOLEAN
  /\ monitor \in {"off", "poll", "read", "ended"}
  /\ default_context_lock \in Users \cup {Nil} /\ linux_hotplug_lock \in Users \cup {Nil}
  /\ allocated \subseteq Contexts /\ active_contexts \subseteq allocated
  /\ default_context_refcnt \in 0 .. Cardinality(Users)
  /\ fallback_context \in active_contexts \cup {Nil}
  /\ init_count \in 0 .. Cardinality(Contexts)
  /\ usb_devs \in [Contexts -> SUBSET Objects]
  /\ \A u \in Users : user[u].pc \in
       {"out", "monitor", "scan", "address", "fail", "in", "poll", "open", "stop", "join", "free", "over"}
  /\ polls \in 0 .. MaxPolls

Init ==
  /\ plugged \in {S \in SUBSET Devices :
                    \A d \in S : (Hub[d] # Nil => Hub[d] \in S)
                                 /\ \A e \in S : Port[d] = Port[e] \/ Addr[d] = Addr[e] => d = e}
  /\ spent = plugged
  /\ uevents = <<>> /\ socket = FALSE /\ control = FALSE /\ monitor = "off"
  /\ default_context_lock = Nil /\ linux_hotplug_lock = Nil
  /\ allocated = {} /\ active_contexts = {} /\ default_context_refcnt = 0
  /\ fallback_context = Nil /\ init_count = 0
  /\ usb_devs = [c \in Contexts |-> {}]
  /\ user = [u \in Users |-> Idle] /\ polls = 0
-----------------------------------------------------------------------------
(***************************************************************************)
(* The kernel.  Besides a device's own message it sends those of the       *)
(* device's interfaces and drivers, which linux_netlink_parse refuses.     *)
(***************************************************************************)
\* what linux_netlink_parse makes of a message: action, address and sys_name
Uevent(action, d) == [action |-> action, addr |-> Addr[d], port |-> Port[d]]
Other(d) == IF Noise THEN <<Uevent("bind", d)>> ELSE <<>>

\* what the attributes of a port in sysfs belong to
At(port) == {d \in plugged : Port[d] = port}

Plug(d) ==
  /\ d \notin spent /\ (Hub[d] # Nil => Hub[d] \in plugged)
  /\ \A e \in plugged : Port[e] # Port[d] /\ Addr[e] # Addr[d]
  /\ plugged' = plugged \cup {d} /\ spent' = spent \cup {d}
  /\ uevents' = IF socket THEN uevents \o <<Uevent("add", d)>> \o Other(d) ELSE uevents
  /\ UNCHANGED <<socket, control, monitor, locks, contexts, usb_devs, user, polls>>

Unplug(d) ==
  /\ d \in plugged /\ \A e \in plugged : Hub[e] # d
  /\ plugged' = plugged \ {d}
  /\ uevents' = IF socket THEN uevents \o Other(d) \o <<Uevent("remove", d)>> ELSE uevents
  /\ UNCHANGED <<spent, socket, control, monitor, locks, contexts, usb_devs, user, polls>>

-----------------------------------------------------------------------------
(***************************************************************************)
(* The devices of a context.                                               *)
(***************************************************************************)
\* "the device might already exist in the context"
Known(devs, addr) == \E o \in devs : o.addr = addr

\* the port a port's hub is plugged into, from its name
ParentPort(port) == LET h == Hub[CHOOSE d \in Devices : Port[d] = port]
                    IN  IF h = Nil THEN Nil ELSE Port[h]

\* initialize_device: the address is that of the message or of the scan, the
\* descriptors are those the port has now
initialize_device(addr, port) ==
  [addr |-> addr, port |-> port, dev |-> CHOOSE d \in At(port) : TRUE, parent |-> Nil]

\* "parent_dev not enumerated yet, enumerating now"
LacksHub(devs, pp) == \A o \in devs : o.port # pp

\* linux_get_parent_info finds the hub's object, and enumerates the hub
\* first where it has none; linux_enumerate_device reads the descriptors
enumerate_device[devs \in SUBSET Objects, addr \in Addrs, port \in Ports] ==
  IF Known(devs, addr) \/ At(port) = {} THEN devs
  ELSE LET pp == ParentPort(port)
           hubs == IF pp = Nil THEN {} ELSE At(pp)
           more == IF hubs # {} /\ LacksHub(devs, pp)
                   THEN enumerate_device[devs, Addr[CHOOSE h \in hubs : TRUE], pp] ELSE devs
       IN  more \cup {[initialize_device(addr, port) EXCEPT
                         !.parent = IF \E o \in more : o.port = pp THEN pp ELSE Nil]}

linux_hotplug_enumerate(m) ==
  usb_devs' = [c \in Contexts |-> IF c \in active_contexts
                                  THEN enumerate_device[usb_devs[c], m.addr, m.port]
                                  ELSE usb_devs[c]]

linux_device_disconnected(addr) ==
  usb_devs' = [c \in Contexts |-> IF c \in active_contexts
                                  THEN {o \in usb_devs[c] : o.addr # addr}
                                  ELSE usb_devs[c]]

\* linux_netlink_read_message: the first that waits
linux_netlink_read_message ==
  /\ uevents' = Tail(uevents)
  /\ LET m == Head(uevents) IN
       \/ m.action = "add" /\ linux_hotplug_enumerate(m)
       \/ m.action = "remove" /\ linux_device_disconnected(m.addr)
       \/ m.action = "bind" /\ UNCHANGED usb_devs

-----------------------------------------------------------------------------
(***************************************************************************)
(* The monitor thread: linux_netlink_event_thread_main.                    *)
(***************************************************************************)
MonitorPoll ==
  /\ monitor = "poll"
  /\ \/ control /\ monitor' = "ended"
     \/ ~control /\ uevents # <<>> /\ monitor' = "read"
  /\ UNCHANGED <<kernel, uevents, socket, control, locks, contexts, usb_devs, user, polls>>

\* what poll saw may have been read by libusb_get_device_list
MonitorRead ==
  /\ monitor = "read" /\ linux_hotplug_lock = Nil
  /\ monitor' = "poll"
  /\ IF uevents = <<>> THEN UNCHANGED <<uevents, usb_devs>> ELSE linux_netlink_read_message
  /\ UNCHANGED <<kernel, socket, control, locks, contexts, user, polls>>

-----------------------------------------------------------------------------
(***************************************************************************)
(* libusb_init, under default_context_lock from its start to its end.      *)
(***************************************************************************)
Go(u, from, to) == user[u].pc = from /\ user' = [user EXCEPT ![u].pc = to]

Share(u) ==
  /\ default_context_lock = Nil
  /\ CtxOf[u] = Default /\ default_context_refcnt > 0
  /\ Go(u, "out", "in")
  /\ default_context_refcnt' = default_context_refcnt + 1
  /\ UNCHANGED <<kernel, netlink, locks, allocated, active_contexts, fallback_context,
                 init_count, usb_devs, polls>>

libusb_init(u) ==
  /\ default_context_lock = Nil
  /\ CtxOf[u] = Default => default_context_refcnt = 0 /\ Default \notin allocated
  /\ Go(u, "out", IF init_count = 0 THEN "monitor" ELSE "scan")
  /\ default_context_lock' = u
  /\ allocated' = allocated \cup {CtxOf[u]}
  /\ active_contexts' = active_contexts \cup {CtxOf[u]}
  /\ default_context_refcnt' = IF CtxOf[u] = Default THEN 1 ELSE default_context_refcnt
  /\ UNCHANGED <<kernel, netlink, linux_hotplug_lock, fallback_context, init_count, usb_devs,
                 polls>>

\* the socket listens before the scan begins
linux_netlink_start_event_monitor(u) ==
  /\ \/ Go(u, "monitor", "scan") /\ socket' = TRUE /\ monitor' = "poll"
     \/ MonitorMayFail /\ Go(u, "monitor", "fail") /\ UNCHANGED <<socket, monitor>>
  /\ UNCHANGED <<kernel, uevents, control, locks, contexts, usb_devs, polls>>

\* sysfs_get_device_list goes through the ports there are
ScanBegin(u) ==
  /\ user[u].pc = "scan" /\ linux_hotplug_lock = Nil
  /\ linux_hotplug_lock' = u
  /\ user' = [user EXCEPT ![u].pc = "address", ![u].ports = {Port[d] : d \in plugged},
                          ![u].port = Nil, ![u].addr = Nil,
                          ![u].found = IF plugged = {} THEN 1 ELSE 0]
  /\ UNCHANGED <<kernel, netlink, default_context_lock, contexts, usb_devs, polls>>

\* linux_get_device_address reads a port's busnum and devnum, if it has them
linux_get_device_address(u) ==
  /\ user[u].pc = "address" /\ user[u].port = Nil
  /\ \E p \in user[u].ports :
       user' = [user EXCEPT ![u].ports = @ \ {p},
                            ![u].port = IF At(p) = {} THEN Nil ELSE p,
                            ![u].addr = IF At(p) = {} THEN Nil ELSE Addr[CHOOSE d \in At(p) : TRUE]]
  /\ UNCHANGED <<kernel, netlink, locks, contexts, usb_devs, polls>>

\* linux_enumerate_device, later, for what was read
linux_enumerate_device(u) ==
  LET c == CtxOf[u] devs == enumerate_device[usb_devs[c], user[u].addr, user[u].port] IN
  /\ user[u].pc = "address" /\ user[u].port # Nil
  /\ usb_devs' = [usb_devs EXCEPT ![c] = devs]
  /\ user' = [user EXCEPT ![u].port = Nil, ![u].addr = Nil,
                          ![u].found = IF Known(devs, user[u].addr) THEN 1 ELSE @]
  /\ UNCHANGED <<kernel, netlink, locks, contexts, polls>>

\* "successful if at least one device was enumerated or no devices were
\* found"; op_init counts the context, or stops the monitor it started
ScanEnd(u) ==
  /\ user[u].ports = {} /\ user[u].port = Nil
  /\ linux_hotplug_lock' = Nil
  /\ IF user[u].found = 1
     THEN /\ Go(u, "address", "in")
          /\ init_count' = init_count + 1
          /\ fallback_context' = IF CtxOf[u] # Default /\ fallback_context = Nil
                                 THEN CtxOf[u] ELSE fallback_context
          /\ default_context_lock' = Nil
          /\ UNCHANGED control
     ELSE /\ Go(u, "address", IF init_count = 0 THEN "join" ELSE "fail")
          /\ control' = (init_count = 0)
          /\ UNCHANGED <<init_count, fallback_context, default_context_lock>>
  /\ UNCHANGED <<kernel, uevents, socket, monitor, allocated, active_contexts,
                 default_context_refcnt, usb_devs, polls>>

\* "clear default context that was not fully initialized"
InitFailed(u) ==
  LET c == CtxOf[u] IN
  /\ Go(u, "fail", "over")
  /\ active_contexts' = active_contexts \ {c} /\ allocated' = allocated \ {c}
  /\ default_context_refcnt' = IF c = Default THEN 0 ELSE default_context_refcnt
  /\ usb_devs' = [usb_devs EXCEPT ![c] = {}]
  /\ default_context_lock' = Nil
  /\ UNCHANGED <<kernel, netlink, linux_hotplug_lock, fallback_context, init_count, polls>>

-----------------------------------------------------------------------------
(***************************************************************************)
(* libusb_exit.                                                            *)
(***************************************************************************)
Unshare(u) ==
  /\ default_context_lock = Nil
  /\ CtxOf[u] = Default /\ default_context_refcnt > 1
  /\ Go(u, "in", "over")
  /\ default_context_refcnt' = default_context_refcnt - 1
  /\ UNCHANGED <<kernel, netlink, locks, allocated, active_contexts, fallback_context,
                 init_count, usb_devs, polls>>

\* op_exit: "tear down event handler" after the last context
libusb_exit(u) ==
  LET c == CtxOf[u] IN
  /\ default_context_lock = Nil
  /\ c = Default => default_context_refcnt = 1
  /\ Go(u, "in", IF init_count = 1 THEN "join" ELSE "free")
  /\ active_contexts' = active_contexts \ {c}
  /\ default_context_refcnt' = IF c = Default THEN 0 ELSE default_context_refcnt
  /\ fallback_context' = IF c = fallback_context THEN Nil ELSE fallback_context
  /\ init_count' = init_count - 1
  /\ control' = (init_count = 1)
  /\ default_context_lock' = IF init_count = 1 THEN u ELSE Nil
  /\ UNCHANGED <<kernel, uevents, socket, monitor, linux_hotplug_lock, allocated, usb_devs, polls>>

\* linux_netlink_stop_event_monitor waits for the thread, then closes; a
\* scan that failed goes on to fail, an exit to free
linux_netlink_stop_event_monitor(u) ==
  LET failed == CtxOf[u] \in active_contexts IN
  /\ monitor = "ended" /\ Go(u, "join", IF failed THEN "fail" ELSE "free")
  /\ monitor' = "off" /\ control' = FALSE
  /\ socket' = FALSE /\ uevents' = <<>>
  /\ default_context_lock' = IF failed THEN u ELSE Nil
  /\ UNCHANGED <<kernel, linux_hotplug_lock, contexts, usb_devs, polls>>

\* "Don't bother with locking after this point"
FreeContext(u) ==
  /\ Go(u, "free", "over")
  /\ allocated' = allocated \ {CtxOf[u]}
  /\ usb_devs' = [usb_devs EXCEPT ![CtxOf[u]] = {}]
  /\ UNCHANGED <<kernel, netlink, locks, active_contexts, default_context_refcnt,
                 fallback_context, init_count, polls>>

-----------------------------------------------------------------------------
(***************************************************************************)
(* libusb_get_device_list and libusb_open.                                 *)
(***************************************************************************)
PollBegin(u) ==
  /\ polls < MaxPolls /\ polls' = polls + 1
  /\ linux_hotplug_lock = Nil /\ linux_hotplug_lock' = u
  /\ user[u].pc = "in"
  /\ user' = [user EXCEPT ![u].pc = "poll", ![u].fresh = Len(uevents)]
  /\ UNCHANGED <<kernel, netlink, default_context_lock, contexts, usb_devs>>

\* linux_netlink_hotplug_poll: "do ... while (r == 0)"
PollRead(u) ==
  /\ user[u].pc = "poll" /\ uevents # <<>>
  /\ linux_netlink_read_message
  /\ user' = [user EXCEPT ![u].fresh = IF @ = 0 THEN 0 ELSE @ - 1,
                          ![u].pc = IF Head(uevents).action = "bind" THEN "in" ELSE "poll"]
  /\ linux_hotplug_lock' = IF Head(uevents).action = "bind" THEN Nil ELSE u
  /\ UNCHANGED <<kernel, socket, control, monitor, default_context_lock, contexts, polls>>

PollEnd(u) ==
  /\ Go(u, "poll", "in") /\ uevents = <<>>
  /\ linux_hotplug_lock' = Nil
  /\ UNCHANGED <<kernel, netlink, default_context_lock, contexts, usb_devs, polls>>

\* op_open finds no node for the device's address
OpenFails(u) ==
  /\ user[u].pc = "in"
  /\ \E o \in usb_devs[CtxOf[u]] :
       /\ \A d \in plugged : Addr[d] # o.addr
       /\ user' = [user EXCEPT ![u].pc = "open", ![u].obj = o]
  /\ UNCHANGED <<kernel, netlink, locks, contexts, usb_devs, polls>>

\* the slip that does not look whether it is attached
OpenDisconnectsBlind(u) ==
  /\ linux_hotplug_lock = Nil
  /\ user[u].pc = "open" /\ user' = [user EXCEPT ![u].pc = "in", ![u].obj = Nil]
  /\ linux_device_disconnected(user[u].obj.addr)
  /\ UNCHANGED <<kernel, netlink, locks, contexts, polls>>

\* "device will still be marked as attached if hotplug monitor thread hasn't
\* processed remove event yet"
OpenDisconnects(u) ==
  /\ linux_hotplug_lock = Nil
  /\ user[u].pc = "open" /\ user' = [user EXCEPT ![u].pc = "in", ![u].obj = Nil]
  /\ IF user[u].obj \in usb_devs[CtxOf[u]]
     THEN linux_device_disconnected(user[u].obj.addr)
     ELSE UNCHANGED usb_devs
  /\ UNCHANGED <<kernel, netlink, locks, contexts, polls>>

Next ==
  \/ \E d \in Devices : Plug(d) \/ Unplug(d)
  \/ MonitorPoll \/ MonitorRead
  \/ \E u \in Users :
       \/ Share(u) \/ libusb_init(u) \/ linux_netlink_start_event_monitor(u)
       \/ ScanBegin(u) \/ linux_get_device_address(u) \/ linux_enumerate_device(u) \/ ScanEnd(u)
       \/ InitFailed(u)
       \/ Unshare(u) \/ libusb_exit(u) \/ linux_netlink_stop_event_monitor(u) \/ FreeContext(u)
       \/ PollBegin(u) \/ PollRead(u) \/ PollEnd(u) \/ OpenFails(u) \/ OpenDisconnects(u)

Spec == Init /\ [][Next]_vars

Work(u) ==
  \/ Share(u) \/ libusb_init(u) \/ linux_netlink_start_event_monitor(u)
  \/ ScanBegin(u) \/ linux_get_device_address(u) \/ linux_enumerate_device(u) \/ ScanEnd(u)
  \/ InitFailed(u)
  \/ Unshare(u) \/ libusb_exit(u) \/ linux_netlink_stop_event_monitor(u) \/ FreeContext(u)
  \/ PollRead(u) \/ PollEnd(u) \/ OpenDisconnects(u)

-----------------------------------------------------------------------------
(***************************************************************************)
(* Properties.                                                             *)
(***************************************************************************)
Inside == {u \in Users : user[u].pc \in {"in", "poll", "open"}}

\* every message is handled and nobody scans, polls or opens
Quiet ==
  /\ monitor = "poll" /\ uevents = <<>>
  /\ \A u \in Users : user[u].pc \in {"out", "in", "over"}

(***************************************************************************)
(* When nothing is under way, every context lists exactly the devices that *)
(* are plugged in, each with the address, the port and the descriptors it  *)
(* has and linked to its hub, though a context is scanned while devices    *)
(* come and go, a message is handled when what it tells of is gone or      *)
(* replaced, addresses are reused (linux_usbfs.c 1097, "session ID is not  *)
(* guaranteed unique"), and op_open disconnects devices on its own.        *)
(***************************************************************************)
ListIsTruth ==
  Quiet => \A c \in active_contexts :
             usb_devs[c] = {[addr |-> Addr[d], port |-> Port[d], dev |-> d,
                             parent |-> ParentPort(Port[d])] : d \in plugged}

(***************************************************************************)
(* A program inside libusb_init and libusb_exit has its context, which the *)
(* monitor thread serves: neither the exit of another user of the default  *)
(* context nor the failed initialization of another context takes it away  *)
(* (core.c 2409, "only actually do the deinitialization if we're the last  *)
(* user"; linux_usbfs.c 412, the monitor is stopped if init_count is 0).   *)
(***************************************************************************)
InsideIsServed ==
  \A u \in Inside :
    /\ CtxOf[u] \in allocated /\ CtxOf[u] \in active_contexts
    /\ monitor \in {"poll", "read"} /\ socket /\ ~control

(***************************************************************************)
(* When libusb_get_device_list copies the list, the messages that waited   *)
(* when it was called have been handled: libusbi.h 1011, "the backend      *)
(* should ensure any pending hotplug events are fully processed before     *)
(* returning".                                                             *)
(***************************************************************************)
PolledIsFresh == \A u \in Users : user[u].pc = "in" => user[u].fresh = 0

(***************************************************************************)
(* libusb_exit, and a libusb_init that failed, never wait for ever for the *)
(* thread of the monitor: it does not wait for a lock of theirs.           *)
(***************************************************************************)
Joining(u) == user[u].pc = "join"
=============================================================================
