---------------------------- MODULE LibusbHotplug ----------------------------
(***************************************************************************)
(* libusb/c/hotplug.c with the reference counts and lists of devices of    *)
(* core.c, on a system whose backend reports devices itself (Linux, macOS).*)
(* The backend's thread adds and removes devices and queues messages; the  *)
(* thread that handles events passes them to the callbacks; a user thread  *)
(* registers a callback and is told of the devices there are, takes one    *)
(* out, keeps and drops devices, and at last ends the context.             *)
(*                                                                         *)
(* Memory is followed: what is freed stays freed, and every read of a      *)
(* device or of a callback is of what its reader holds a pointer to.       *)
(* What runs under one lock is one step, except for hotplug_cbs_lock,      *)
(* which usbi_hotplug_process drops around each call.  Every callback is   *)
(* registered for both events and any device: the filters of               *)
(* usbi_hotplug_match_cb (event mask, vendor, product, class) are left out. *)
(***************************************************************************)
EXTENDS Integers, Sequences, FiniteSets, Functions

CONSTANTS Devices, Callbacks,     \* objects, each allocated once
          Nil,
          MaxKept,                \* references a user keeps of a device
          EarlyUnplug             \* a device may leave before hotplug_ready

HotplugAssumption ==
  /\ IsFiniteSet(Devices) /\ IsFiniteSet(Callbacks)
  /\ Nil \notin Devices \cup Callbacks
  /\ MaxKept \in Nat /\ EarlyUnplug \in BOOLEAN

VARIABLES
  dev, refcnt, attached,          \* libusb_device: memory, count, flag
  parent,                         \* dev->parent_dev
  usb_devs, hotplug_msgs, hotplug_ready,   \* libusb_context
  cb, needs_free, enumerating,    \* usbi_hotplug_callback: memory, flags
  hotplug_cbs, cbs_locked,
  backend, event, user,           \* the threads
  kept,                           \* references of the user, by device
  told                            \* what each callback was called with

vars == <<dev, refcnt, attached, parent, usb_devs, hotplug_msgs, hotplug_ready, cb, needs_free,
          enumerating, hotplug_cbs, cbs_locked, backend, event, user, kept, told>>

devices == <<dev, refcnt, attached, parent>>
context == <<usb_devs, hotplug_msgs, hotplug_ready>>
callbacks == <<cb, needs_free, enumerating, hotplug_cbs>>
threads == <<backend, event, user>>
outside == <<kept, told>>

Memory == {"unborn", "live", "freed"}
Messages == [event : {"ARRIVED", "LEFT"}, device : Devices]
InList(d) == d \in Range(usb_devs)

TypeOK ==
  /\ dev \in [Devices -> Memory] /\ refcnt \in [Devices -> Nat]
  /\ attached \in [Devices -> BOOLEAN] /\ parent \in [Devices -> Devices \cup {Nil}]
  /\ usb_devs \in Seq(Devices) /\ hotplug_msgs \in Seq(Messages)
  /\ hotplug_ready \in BOOLEAN
  /\ cb \in [Callbacks -> Memory] /\ needs_free \subseteq Callbacks
  /\ enumerating \subseteq Callbacks
  /\ hotplug_cbs \in Seq(Callbacks) /\ cbs_locked = (event.pc \in {"scan", "sweep"})
  /\ backend \in [pc : {"idle", "arrived", "left", "unref", "stopped"},
                  device : Devices \cup {Nil}]
  /\ event \in [pc : {"idle", "scan", "call", "return", "sweep"}, msgs : Seq(Messages),
                cb : Callbacks \cup {Nil}, next : Callbacks \cup {Nil}, r : {0, 1}]
  /\ user \in [pc : {"idle", "list", "call", "handle", "exit", "done"},
               cb : Callbacks \cup {Nil}, list : Seq(Devices), i : 1 .. Cardinality(Devices) + 1]
  /\ kept \in [Devices -> 0 .. MaxKept]
  /\ told \in [Callbacks -> Seq(Messages)]

Init ==
  /\ dev = [d \in Devices |-> "unborn"] /\ refcnt = [d \in Devices |-> 0]
  /\ attached = [d \in Devices |-> FALSE] /\ parent = [d \in Devices |-> Nil]
  /\ usb_devs = <<>> /\ hotplug_msgs = <<>> /\ hotplug_ready = FALSE
  /\ cb = [c \in Callbacks |-> "unborn"] /\ needs_free = {} /\ enumerating = {}
  /\ hotplug_cbs = <<>> /\ cbs_locked = FALSE
  /\ backend = [pc |-> "idle", device |-> Nil]
  /\ event = [pc |-> "idle", msgs |-> <<>>, cb |-> Nil, next |-> Nil, r |-> 0]
  /\ user = [pc |-> "idle", cb |-> Nil, list |-> <<>>, i |-> 1]
  /\ kept = [d \in Devices |-> 0] /\ told = [c \in Callbacks |-> <<>>]
-----------------------------------------------------------------------------
(***************************************************************************)
(* References.                                                             *)
(***************************************************************************)
\* a state of the devices' memory, and libusb_unref_device on it: the last
\* reference frees the device and gives back the one it has of its parent
Heap == [mem |-> dev, refs |-> refcnt]

unref_device(h, d) ==
  LET f[x \in Devices] ==
        LET n == h.refs[x] - 1
        IN  IF n > 0 \/ parent[x] = Nil THEN {x} ELSE {x} \cup f[parent[x]]
      gone == {x \in f[d] : h.refs[x] = 1}
  IN  [mem |-> [x \in Devices |-> IF x \in gone THEN "freed" ELSE h.mem[x]],
       refs |-> [x \in Devices |-> IF x \in f[d] THEN h.refs[x] - 1 ELSE h.refs[x]]]

SetHeap(h) == dev' = h.mem /\ refcnt' = h.refs
\* one reference of each device in S, in whatever order
UnrefAll(S) ==
  SetHeap(FoldFunction(LAMBDA d, h : unref_device(h, d), Heap, [d \in S |-> d]))

Refs(S, n) == [d \in Devices |-> IF d \in S THEN refcnt[d] + n ELSE refcnt[d]]

\* the slip of list_add: the newest message first
NotificationFirst(d, e) ==
  /\ hotplug_msgs' = IF hotplug_ready
                     THEN <<[event |-> e, device |-> d]>> \o hotplug_msgs ELSE hotplug_msgs
  /\ UNCHANGED <<usb_devs, hotplug_ready>>

\* usbi_hotplug_notification: a message, if the context is ready for them
usbi_hotplug_notification(d, e) ==
  /\ hotplug_msgs' = IF hotplug_ready
                     THEN Append(hotplug_msgs, [event |-> e, device |-> d]) ELSE hotplug_msgs
  /\ UNCHANGED <<usb_devs, hotplug_ready>>

-----------------------------------------------------------------------------
(***************************************************************************)
(* The backend's thread: a device is plugged in, found with its parent and *)
(* connected, or taken from the list and disconnected.                     *)
(***************************************************************************)
Backend(from, to, d) ==
  /\ backend.pc = from
  /\ backend' = [pc |-> to, device |-> d]

usbi_connect_device(d) ==
  /\ Backend("idle", "arrived", d)
  /\ dev[d] = "unborn"
  /\ \E p \in Range(usb_devs) \cup {Nil} :
       /\ parent' = [parent EXCEPT ![d] = p]
       /\ refcnt' = [Refs({p}, 1) EXCEPT ![d] = 1]
  /\ dev' = [dev EXCEPT ![d] = "live"]
  /\ attached' = [attached EXCEPT ![d] = TRUE]
  /\ usb_devs' = <<d>> \o usb_devs
  /\ UNCHANGED <<hotplug_msgs, hotplug_ready, callbacks, cbs_locked, event, user, outside>>

\* the kernel takes a hub away after what is plugged into it
usbi_disconnect_device(d) ==
  /\ Backend("idle", "left", d)
  /\ hotplug_ready \/ EarlyUnplug
  /\ InList(d) /\ \A x \in Range(usb_devs) : parent[x] # d
  /\ attached' = [attached EXCEPT ![d] = FALSE]
  /\ refcnt' = Refs({d}, 1)
  /\ usb_devs' = SelectSeq(usb_devs, LAMBDA x : x # d)
  /\ UNCHANGED <<dev, parent, hotplug_msgs, hotplug_ready, callbacks, cbs_locked, event, user,
                 outside>>

NotifyArrived ==
  /\ Backend("arrived", "idle", Nil)
  /\ usbi_hotplug_notification(backend.device, "ARRIVED")
  /\ UNCHANGED <<devices, callbacks, cbs_locked, event, user, outside>>

NotifyLeft ==
  /\ Backend("left", "unref", backend.device)
  /\ usbi_hotplug_notification(backend.device, "LEFT")
  /\ UNCHANGED <<devices, callbacks, cbs_locked, event, user, outside>>

\* the reference usbi_get_device_by_session_id took
Found ==
  /\ Backend("unref", "idle", Nil)
  /\ SetHeap(unref_device(Heap, backend.device))
  /\ UNCHANGED <<attached, parent, context, callbacks, cbs_locked, event, user, outside>>

\* libusb_init: "Initialize hotplug after the initial enumeration is done"
usbi_hotplug_init ==
  /\ ~hotplug_ready /\ user.pc = "idle"
  /\ hotplug_ready' = TRUE
  /\ UNCHANGED <<devices, usb_devs, hotplug_msgs, callbacks, cbs_locked, threads, outside>>

-----------------------------------------------------------------------------
(***************************************************************************)
(* The thread that handles events: usbi_hotplug_process.                   *)
(***************************************************************************)
Event(from, rec) == event.pc = from /\ event' = rec

First(s) == IF s = <<>> THEN Nil ELSE Head(s)
Next_cb(c) == LET i == CHOOSE j \in DOMAIN hotplug_cbs : hotplug_cbs[j] = c
              IN  IF i = Len(hotplug_cbs) THEN Nil ELSE hotplug_cbs[i + 1]
Without(c) == SelectSeq(hotplug_cbs, LAMBDA x : x # c)

\* handle_event_trigger takes all messages; or a callback was deregistered
TakeMessages ==
  /\ hotplug_msgs # <<>> \/ needs_free # {}
  /\ ~cbs_locked /\ user.pc \notin {"exit", "done"}
  /\ Event("idle", [event EXCEPT !.pc = IF hotplug_msgs = <<>> THEN "sweep" ELSE "scan",
                                 !.msgs = hotplug_msgs, !.cb = Nil,
                                 !.next = First(hotplug_cbs)])
  /\ hotplug_msgs' = <<>> /\ cbs_locked' = TRUE
  /\ UNCHANGED <<devices, usb_devs, hotplug_ready, callbacks, backend, user, outside>>

\* the next callback, skipping those that unregistered; the lock is dropped
NextCallback ==
  /\ event.next # Nil
  /\ LET c == event.next IN
       IF c \in needs_free
       THEN /\ Event("scan", [event EXCEPT !.next = Next_cb(c)])
            /\ UNCHANGED cbs_locked
       ELSE /\ Event("scan", [event EXCEPT !.pc = "call", !.cb = c, !.next = Next_cb(c)])
            /\ cbs_locked' = FALSE
  /\ UNCHANGED <<devices, context, callbacks, backend, user, outside>>

\* usbi_hotplug_match_cb calls the user's function, which may keep the
\* device, or deregister its own callback
CallCallback(r, keep, quit) ==
  LET m == Head(event.msgs) d == m.device IN
  /\ Event("call", [event EXCEPT !.pc = "return", !.r = r])
  /\ told' = [told EXCEPT ![event.cb] = Append(@, m)]
  /\ keep => m.event = "ARRIVED" /\ kept[d] < MaxKept
  /\ kept' = IF keep THEN [kept EXCEPT ![d] = @ + 1] ELSE kept
  /\ refcnt' = IF keep THEN Refs({d}, 1) ELSE refcnt
  /\ needs_free' = IF quit THEN needs_free \cup {event.cb} ELSE needs_free
  /\ UNCHANGED <<dev, attached, parent, context, cb, enumerating, hotplug_cbs, cbs_locked,
                 backend, user>>

\* "returning 1 will cause this callback to be deregistered"
CallbackReturns ==
  /\ ~cbs_locked /\ cbs_locked' = TRUE
  /\ Event("return", [event EXCEPT !.pc = "scan", !.cb = Nil])
  /\ IF event.r = 1
     THEN /\ hotplug_cbs' = Without(event.cb)
          /\ cb' = [cb EXCEPT ![event.cb] = "freed"]
          /\ needs_free' = needs_free \ {event.cb}
     ELSE UNCHANGED <<hotplug_cbs, cb, needs_free>>
  /\ UNCHANGED <<devices, context, enumerating, backend, user, outside>>

\* "if the device left, the message holds a reference and we must drop it"
MessageDone ==
  LET m == Head(event.msgs) IN
  /\ event.next = Nil
  /\ Event("scan", [event EXCEPT !.pc = IF Len(event.msgs) = 1 THEN "sweep" ELSE "scan",
                                 !.msgs = Tail(event.msgs), !.next = First(hotplug_cbs)])
  /\ IF m.event = "LEFT" THEN SetHeap(unref_device(Heap, m.device))
                         ELSE UNCHANGED <<dev, refcnt>>
  /\ UNCHANGED <<attached, parent, context, callbacks, cbs_locked, backend, user, outside>>

\* "free any callbacks that have unregistered"
Sweep ==
  /\ Event("sweep", [event EXCEPT !.pc = "idle", !.next = Nil])
  /\ hotplug_cbs' = SelectSeq(hotplug_cbs, LAMBDA c : c \notin needs_free)
  /\ cb' = [c \in Callbacks |-> IF c \in needs_free THEN "freed" ELSE cb[c]]
  /\ needs_free' = {} /\ cbs_locked' = FALSE
  /\ UNCHANGED <<devices, context, enumerating, backend, user, outside>>

-----------------------------------------------------------------------------
(***************************************************************************)
(* A user thread.                                                          *)
(***************************************************************************)
User(from, rec) == user.pc = from /\ user' = rec

\* libusb_hotplug_register_callback: into the list first, then, with
\* LIBUSB_HOTPLUG_ENUMERATE, the devices there are
libusb_hotplug_register_callback(c, enumerate) ==
  /\ hotplug_ready /\ cb[c] = "unborn" /\ ~cbs_locked
  /\ User("idle", [user EXCEPT !.pc = IF enumerate THEN "list" ELSE "handle", !.cb = c])
  /\ cb' = [cb EXCEPT ![c] = "live"]
  /\ hotplug_cbs' = <<c>> \o hotplug_cbs
  /\ enumerating' = IF enumerate THEN enumerating \cup {c} ELSE enumerating
  /\ UNCHANGED <<devices, context, needs_free, cbs_locked, backend, event, outside>>

\* libusb_get_device_list: a reference for each device of the list
libusb_get_device_list ==
  /\ User("list", [user EXCEPT !.pc = "call", !.list = usb_devs, !.i = 1])
  /\ refcnt' = Refs(Range(usb_devs), 1)
  /\ UNCHANGED <<dev, attached, parent, context, callbacks, cbs_locked, backend, event, outside>>

\* "the callback return value is ignored"
Enumerate ==
  /\ user.i <= Len(user.list)
  /\ User("call", [user EXCEPT !.i = @ + 1])
  /\ told' = [told EXCEPT ![user.cb] =
                Append(@, [event |-> "ARRIVED", device |-> user.list[user.i]])]
  /\ UNCHANGED <<devices, context, callbacks, cbs_locked, backend, event, kept>>

libusb_free_device_list ==
  /\ user.i > Len(user.list)
  /\ User("call", [user EXCEPT !.pc = "handle", !.list = <<>>, !.i = 1])
  /\ UnrefAll(Range(user.list))
  /\ UNCHANGED <<attached, parent, context, callbacks, cbs_locked, backend, event, outside>>

\* *callback_handle = hotplug_cb->handle
ReturnHandle ==
  /\ User("handle", [user EXCEPT !.pc = "idle", !.cb = Nil])
  /\ UNCHANGED <<devices, context, callbacks, cbs_locked, backend, event, outside>>

\* libusb_hotplug_deregister_callback marks it, for the event thread to free
libusb_hotplug_deregister_callback(c) ==
  /\ user.pc = "idle" /\ ~cbs_locked
  /\ c \in Range(hotplug_cbs)
  /\ needs_free' = needs_free \cup {c}
  /\ UNCHANGED <<devices, context, cb, enumerating, hotplug_cbs, cbs_locked, threads, outside>>

libusb_unref_device(d) ==
  /\ user.pc \in {"idle", "done"} /\ kept[d] > 0
  /\ kept' = [kept EXCEPT ![d] = @ - 1]
  /\ SetHeap(unref_device(Heap, d))
  /\ UNCHANGED <<attached, parent, context, callbacks, cbs_locked, threads, told>>

\* libusb_exit: the backend's thread has been stopped and nobody handles
\* events any more; callbacks and messages go first
usbi_hotplug_exit ==
  LET left == {m.device : m \in {x \in Range(hotplug_msgs) : x.event = "LEFT"}} IN
  /\ hotplug_ready /\ backend.pc = "idle" /\ event.pc = "idle"
  /\ User("idle", [user EXCEPT !.pc = "exit", !.list = usb_devs])
  /\ backend' = [backend EXCEPT !.pc = "stopped"]
  /\ cb' = [c \in Callbacks |-> IF c \in Range(hotplug_cbs) THEN "freed" ELSE cb[c]]
  /\ hotplug_cbs' = <<>> /\ needs_free' = {}
  /\ hotplug_msgs' = <<>>
  /\ UnrefAll(left)
  /\ UNCHANGED <<attached, parent, usb_devs, hotplug_ready, enumerating, cbs_locked, event,
                 outside>>

\* "free all discovered devices": one that is referenced stays in the list
FreeDiscovered ==
  LET d == Head(user.list) p == parent[d]
      off == {x \in {d, p} \ {Nil} : refcnt[x] = 1}
  IN
  /\ user.list # <<>>
  /\ User("exit", [user EXCEPT !.list = Tail(@)])
  /\ usb_devs' = SelectSeq(usb_devs, LAMBDA x : x \notin off)
  /\ SetHeap(unref_device(Heap, d))
  /\ UNCHANGED <<attached, parent, hotplug_msgs, hotplug_ready, callbacks, cbs_locked, backend,
                 event, outside>>

Exited ==
  /\ user.list = <<>>
  /\ User("exit", [user EXCEPT !.pc = "done"])
  /\ UNCHANGED <<devices, context, callbacks, cbs_locked, backend, event, outside>>

Next ==
  \/ \E d \in Devices : \/ usbi_connect_device(d)
                        \/ usbi_disconnect_device(d)
                        \/ libusb_unref_device(d)
  \/ NotifyArrived \/ NotifyLeft \/ Found
  \/ usbi_hotplug_init
  \/ TakeMessages \/ NextCallback \/ CallbackReturns \/ MessageDone \/ Sweep
  \/ \E r \in {0, 1} : \E keep, quit \in BOOLEAN : CallCallback(r, keep, quit)
  \/ \E c \in Callbacks : \/ \E enumerate \in BOOLEAN :
                               libusb_hotplug_register_callback(c, enumerate)
                          \/ libusb_hotplug_deregister_callback(c)
  \/ libusb_get_device_list \/ Enumerate \/ libusb_free_device_list \/ ReturnHandle
  \/ usbi_hotplug_exit \/ FreeDiscovered \/ Exited

Spec == Init /\ [][Next]_vars
-----------------------------------------------------------------------------
(***************************************************************************)
(* Properties.                                                             *)
(***************************************************************************)
Pending == Range(hotplug_msgs) \cup Range(event.msgs)

\* who holds a pointer to a device: the list, the backend between taking a
\* device from the list and queueing its message, a message, the user, the
\* list a registration walks, a device plugged into it
PointsTo(d) ==
  \/ InList(d) /\ user.pc # "done"
  \/ backend.device = d \/ kept[d] > 0
  \/ \E m \in Pending : m.device = d
  \/ user.pc # "exit" /\ d \in Range(user.list)
  \/ \E x \in Devices : dev[x] = "live" /\ parent[x] = d

(***************************************************************************)
(* No device is freed while someone can still reach it: core.c 612, "A     *)
(* device is destroyed when its reference count reaches 0".  An ARRIVED    *)
(* message holds no reference of its own: its device is kept by the list,  *)
(* and when it leaves the list by the LEFT message queued behind it.       *)
(***************************************************************************)
HeldIsAlive == \A d \in Devices : PointsTo(d) => dev[d] = "live"

(***************************************************************************)
(* A device that nobody can reach any more has been freed, at the latest   *)
(* by libusb_exit: hotplug.c 196, "free all discovered devices.  due to    *)
(* parent references loop until no devices are freed".                     *)
(***************************************************************************)
NothingLeaks ==
  \A d \in Devices : dev[d] = "live" => PointsTo(d) \/ user.pc = "exit"

(***************************************************************************)
(* After libusb_exit the devices that live on are those that are kept, and *)
(* what they are plugged into; those still plugged in are in the list:     *)
(* hotplug.c 199, "otherwise leave it on the list so that a warning        *)
(* message will be shown".  libusb_exit goes through that list to cut      *)
(* their pointers to the context it frees.                                 *)
(***************************************************************************)
ExitLeavesKept ==
  user.pc = "exit" /\ user.list = <<>> =>
    \A d \in Devices : dev[d] = "live" =>
      /\ kept[d] > 0 \/ \E x \in Devices : dev[x] = "live" /\ parent[x] = d
      /\ attached[d] => InList(d)

(***************************************************************************)
(* The callback that usbi_hotplug_process calls, and the next one it       *)
(* remembers while the lock is dropped, have not been freed, whatever is   *)
(* registered and deregistered meanwhile: "skip callbacks that have        *)
(* unregistered" (hotplug.c 287) and "free any callbacks that have         *)
(* unregistered" (310) leave the freeing to the thread that iterates.      *)
(***************************************************************************)
IteratedIsAlive == \A c \in {event.cb, event.next} \ {Nil} : cb[c] = "live"

Told(c, d) == SelectSeq(told[c], LAMBDA m : m.device = d)
Events(c, d) == [i \in DOMAIN Told(c, d) |-> Told(c, d)[i].event]

(***************************************************************************)
(* A callback registered without LIBUSB_HOTPLUG_ENUMERATE is called at     *)
(* most once for the arrival of a device and once for its departure, in    *)
(* this order.                                                             *)
(***************************************************************************)
ToldInOrder ==
  \A c \in Callbacks \ enumerating : \A d \in Devices :
    Events(c, d) \in {<<>>, <<"ARRIVED">>, <<"LEFT">>, <<"ARRIVED", "LEFT">>}

Quiet == backend.pc = "idle" /\ event.pc = "idle" /\ user.pc = "idle" /\ hotplug_msgs = <<>>

(***************************************************************************)
(* A callback with LIBUSB_HOTPLUG_ENUMERATE misses no device: when nothing *)
(* is under way it has been told of every device in the list, those that   *)
(* were there before, came while it was being registered, or after.        *)
(***************************************************************************)
NoneMissed ==
  Quiet => \A c \in enumerating \cap Range(hotplug_cbs) : \A d \in Range(usb_devs) :
             c \notin needs_free => Events(c, d) # <<>>

(***************************************************************************)
(* The callback that libusb_hotplug_register_callback calls, and whose     *)
(* handle it returns, is still there: hotplug.c 369, "protect the handle   *)
(* by the context hotplug lock".  It is in the list by then, so the thread *)
(* that handles events may have called it, got 1 and freed it.             *)
(***************************************************************************)
RegisteredIsAlive == user.cb # Nil => cb[user.cb] = "live"

(***************************************************************************)
(* The last a callback hears of a device that left is that it left.        *)
(* libusb.h 2020 names what the enumeration may cause: two arrivals, or a  *)
(* removal without an arrival.                                             *)
(***************************************************************************)
GoneStaysGone ==
  \A c \in Callbacks : \A d \in Devices :
    \A i, j \in DOMAIN Events(c, d) :
      i < j /\ Events(c, d)[i] = "LEFT" => Events(c, d)[j] # "ARRIVED"
=============================================================================
