---------------------------- MODULE DarwinDevices ----------------------------
(***************************************************************************)
(* libusb/c/os/darwin_usb.c: the devices of macOS.  One list of cached     *)
(* devices serves all contexts.  A cached device counts one reference for  *)
(* being plugged in and one for each libusb_device made of it.  A thread   *)
(* runs the loop that is told of arrivals and removals; a context's start  *)
(* scans what is there, and the first one starts the thread, the last one  *)
(* to end stops it.  A reset makes the kernel enumerate the device anew:   *)
(* it leaves and comes back as a new service, and in_reenumerate is to     *)
(* keep the old object for it.                                             *)
(*                                                                         *)
(* A service is named by its sessionID.  An object of the cache is named   *)
(* by the session it was made for, a libusb_device by its context and the  *)
(* cached device under it.  What runs under darwin_cached_devices_lock is  *)
(* one step.  default_context_lock makes starts and ends of contexts one   *)
(* after the other (core.c:2280, 2402).                                    *)
(***************************************************************************)
EXTENDS Integers, Sequences, FiniteSets, SequencesExt

CONSTANTS Contexts, Locations, Threads,   \* threads that reset devices
          MaxSession,                     \* services the kernel makes
          MaxResets,
          Kinds,                          \* of the services, see Services
          Calm,                           \* see below
          Timeouts,                       \* a reset may take 10 s
          StartupFails                    \* the event thread may not come up

DarwinAssumption ==
  /\ MaxSession \in Nat /\ MaxResets \in Nat
  /\ Kinds \subseteq {"good", "other", "mute", "dead"}
  /\ Calm \subseteq {"plug", "reset", "pull"}
  /\ Timeouts \in BOOLEAN /\ StartupFails \in BOOLEAN

VARIABLES
  place, kind, present,      \* the kernel: services, and which are there
  asked, returning,          \* sessions to re-enumerate, places they return to
  add, rem, armed,           \* the two notification iterators
  cached, mem, cache,        \* darwin_cached_devices, and its objects
  alive, listed, session,    \* libusb_device: memory, usb_devs, session_data
  opened,                    \* devices the user has a handle of
  active, ctx, init_count,   \* active_contexts_list and what became of each
  acfl, stop, thread,        \* libusb_darwin_acfl, its shutdown source
  event, app, reset,         \* the threads
  resets, broken             \* a NULL interface, a freed object was used

kernel == <<place, kind, present, asked, returning>>
iterators == <<add, rem, armed>>
objects == <<cached, mem, cache>>
devices == <<alive, listed, session, opened>>
contexts == <<active, ctx, init_count>>
runloop == <<acfl, stop, thread>>
history == <<resets, broken>>
vars == <<kernel, iterators, objects, devices, contexts, runloop, event, app, reset, history>>

Sessions == 1 .. MaxSession
Pairs == Contexts \X Sessions

TypeOK ==
  /\ place \in [Sessions -> Locations] /\ kind \in [Sessions -> Kinds \cup {"unborn"}]
  /\ present \subseteq Sessions /\ asked \subseteq Sessions /\ returning \subseteq Locations
  /\ add \subseteq Sessions /\ rem \subseteq Sessions /\ armed \in BOOLEAN
  /\ cached \in Seq(Sessions) /\ mem \in [Sessions -> {"unborn", "live", "freed"}]
  /\ cache \in [Sessions -> [location : Locations, session : 0 .. MaxSession, device : BOOLEAN,
                             refcount : Nat, in_reenumerate : BOOLEAN, can_enumerate : BOOLEAN,
                             descriptor : Kinds \cup {"unborn"}]]
  /\ alive \subseteq Pairs /\ listed \subseteq alive /\ opened \subseteq alive
  /\ session \in [Pairs -> 0 .. MaxSession]
  /\ active \subseteq Contexts /\ init_count \in 0 .. Cardinality(Contexts)
  /\ ctx \in [Contexts -> {"none", "starting", "ready", "gone", "failed"}]
  /\ acfl \in {"NULL", "loop", "failed"} /\ stop \in BOOLEAN
  /\ thread \in {"none", "start", "notified", "run", "ended"}
  /\ event \in [pc : {"idle", "attach", "process", "finish", "detach", "notify"},
                o : Sessions \cup {0}, old : 0 .. MaxSession, todo : SUBSET Contexts]
  /\ app \in [pc : {"idle", "scan", "process", "create", "await", "fail", "exit", "join"},
              c : Contexts, first : BOOLEAN, services : SUBSET Sessions,
              o : Sessions \cup {0}, old : 0 .. MaxSession]
  /\ reset \in [Threads -> [pc : {"idle", "set", "ask", "wait", "compare"}, c : Contexts,
                            o : Sessions \cup {0}, descriptor : Kinds \cup {"unborn"},
                            ret : {"none", "SUCCESS", "NOT_FOUND", "TIMEOUT", "OTHER"}]]
  /\ resets \in 0 .. MaxResets /\ broken \in BOOLEAN

SomeLocation == CHOOSE l \in Locations : TRUE
SomeContext == CHOOSE c \in Contexts : TRUE
NoObject == [location |-> SomeLocation, session |-> 0, device |-> FALSE, refcount |-> 0,
             in_reenumerate |-> FALSE, can_enumerate |-> FALSE, descriptor |-> "unborn"]

Init ==
  /\ place = [s \in Sessions |-> SomeLocation] /\ kind = [s \in Sessions |-> "unborn"]
  /\ present = {} /\ asked = {} /\ returning = {}
  /\ add = {} /\ rem = {} /\ armed = FALSE
  /\ cached = <<>> /\ mem = [s \in Sessions |-> "unborn"]
  /\ cache = [s \in Sessions |-> NoObject]
  /\ alive = {} /\ listed = {} /\ opened = {} /\ session = [p \in Pairs |-> 0]
  /\ active = {} /\ ctx = [c \in Contexts |-> "none"] /\ init_count = 0
  /\ acfl = "NULL" /\ stop = FALSE /\ thread = "none"
  /\ event = [pc |-> "idle", o |-> 0, old |-> 0, todo |-> {}]
  /\ app = [pc |-> "idle", c |-> SomeContext, first |-> FALSE, services |-> {}, o |-> 0,
            old |-> 0]
  /\ reset = [t \in Threads |-> [pc |-> "idle", c |-> SomeContext, o |-> 0,
                                 descriptor |-> "unborn", ret |-> "none"]]
  /\ resets = 0 /\ broken = FALSE

Starting == app.pc \in {"scan", "process", "create", "await", "fail"}
Resetting == \E t \in Threads : reset[t].pc # "idle"
-----------------------------------------------------------------------------
(***************************************************************************)
(* The kernel (IOKit).  A service arrives at a place and leaves it; the    *)
(* iterators hear of it once the thread has armed them.  The kinds of a    *)
(* service: "good" and "other" enumerate, with different descriptors, a    *)
(* "mute" one does not answer for its descriptor, and no plug-in interface *)
(* can be made of a "dead" one, or of one that is gone.                    *)
(***************************************************************************)
Born == {s \in Sessions : kind[s] # "unborn"}

\* What does not happen in a run that looks at other things, by the name it
\* has in Calm: "plug", a service comes or goes while a context starts;
\* "reset", a reset begins while a context starts or an arrival is handled;
\* "pull", a device is taken out while it is being reset.
MayPlug == "plug" \in Calm => ~Starting
MayReset == "reset" \in Calm => ~Starting /\ event.pc = "idle" /\ add = {}
UnderReset == {cache[reset[t].o].session : t \in {u \in Threads : reset[u].pc # "idle"}}
MayPull(s) == "pull" \in Calm => s \notin UnderReset
MayStayOut == "pull" \notin Calm

Free(l) == \A s \in present : place[s] # l

Arrive(l, k) ==
  LET s == Cardinality(Born) + 1
  IN  /\ s \in Sessions /\ Free(l)
      /\ place' = [place EXCEPT ![s] = l] /\ kind' = [kind EXCEPT ![s] = k]
      /\ present' = present \cup {s}
      /\ add' = IF armed THEN add \cup {s} ELSE add

Leave(s) ==
  /\ present' = present \ {s} /\ asked' = asked \ {s}
  /\ rem' = IF armed THEN rem \cup {s} ELSE rem

Outside == UNCHANGED <<objects, devices, contexts, runloop, event, app, reset, history>>

Plug(l, k) ==
  /\ MayPlug /\ l \notin returning
  /\ Arrive(l, k)
  /\ UNCHANGED <<asked, returning, rem, armed>> /\ Outside

Unplug(s) ==
  /\ MayPlug /\ MayPull(s) /\ s \in present /\ Leave(s)
  /\ UNCHANGED <<place, kind, returning, add, armed>> /\ Outside

\* USBDeviceReEnumerate: the service goes, and one comes back unless the
\* device is pulled out meanwhile
Drop(s) ==
  /\ s \in asked /\ Leave(s)
  /\ returning' = returning \cup {place[s]}
  /\ UNCHANGED <<place, kind, add, armed>> /\ Outside

Return(l, k) ==
  /\ l \in returning /\ Arrive(l, k)
  /\ returning' = returning \ {l}
  /\ UNCHANGED <<asked, rem, armed>> /\ Outside

PulledOut(l) ==
  /\ MayStayOut /\ l \in returning
  /\ returning' = returning \ {l}
  /\ UNCHANGED <<place, kind, present, asked, iterators>> /\ Outside
-----------------------------------------------------------------------------
(***************************************************************************)
(* The cache.  A store is its list and objects, so that several references *)
(* can be dropped in one step.                                             *)
(***************************************************************************)
Store == [list |-> cached, mem |-> mem, cache |-> cache]
SetStore(st) == cached' = st.list /\ mem' = st.mem /\ cache' = st.cache

darwin_ref_cached_device(st, o) == [st EXCEPT !.cache[o].refcount = @ + 1]

\* the slip of a list_del forgotten
KeepInList(st, o) ==
  IF st.cache[o].refcount > 1 THEN [st EXCEPT !.cache[o].refcount = @ - 1]
  ELSE [st EXCEPT !.mem[o] = "freed", !.cache[o] = NoObject]

darwin_deref_cached_device(st, o) ==
  IF st.cache[o].refcount > 1 THEN [st EXCEPT !.cache[o].refcount = @ - 1]
  ELSE [list |-> SelectSeq(st.list, LAMBDA x : x # o),
        mem |-> [st.mem EXCEPT ![o] = "freed"],
        cache |-> [st.cache EXCEPT ![o] = NoObject]]

Deref(st, O) == FoldSet(LAMBDA o, x : darwin_deref_cached_device(x, o), st, O)

darwin_cleanup_devices(st) == Deref(st, ToSet(st.list))

\* darwin_device_from_service: it tries five times
darwin_device_from_service(s) == s \in present /\ kind[s] # "dead"

\* the first object in the list that is being re-enumerated at the place of
\* s, or was made for s
Match(st, s) ==
  SelectSeq(st.list, LAMBDA x : \/ /\ st.cache[x].location = place[s]
                                   /\ st.cache[x].in_reenumerate
                                \/ st.cache[x].session = s)

\* an object that stands for service s, as far as it answers
Cached(st, o, s) ==
  [st EXCEPT !.cache[o].session = s, !.cache[o].device = TRUE,
             !.cache[o].can_enumerate = (kind[s] # "mute"),
             !.cache[o].descriptor = IF kind[s] = "mute" THEN @ ELSE kind[s]]

\* what darwin_get_cached_device returns, and the store it leaves
darwin_get_cached_device(st, s) ==
  LET m == Match(st, s)
      reuse == m # <<>> /\ st.cache[m[1]].location = place[s] /\ st.cache[m[1]].in_reenumerate
      old == IF reuse THEN st.cache[m[1]].session ELSE 0
      fresh == [st EXCEPT !.list = <<s>> \o @, !.mem[s] = "live",
                          !.cache[s] = [NoObject EXCEPT !.location = place[s]]]
      o == IF reuse THEN m[1] ELSE s
  IN  IF m # <<>> /\ ~reuse THEN [ok |-> TRUE, o |-> m[1], old |-> 0, store |-> st]
      ELSE IF ~darwin_device_from_service(s)
      THEN [ok |-> FALSE, o |-> 0, old |-> old, store |-> st]
      ELSE [ok |-> kind[s] # "mute", o |-> o, old |-> old,
            store |-> Cached(IF reuse THEN st ELSE darwin_ref_cached_device(fresh, s), o, s)]

\* usbi_get_device_by_session_id: objects under the devices of c with session s
ByOldSession(c, s) == {o \in Sessions : <<c, o>> \in listed /\ session[<<c, o>>] = s}

\* process_new_device: the device of context c for object o.  A device found
\* by its old session gets the new one; a new device is connected, unless
\* the object is being re-enumerated, when it is dropped again.
process_new_device(c, o, old) ==
  LET found == old # 0 /\ ByOldSession(c, old) # {}
      p == IF found THEN <<c, CHOOSE x \in ByOldSession(c, old) : TRUE>> ELSE <<c, o>>
      connect == ~cache[o].in_reenumerate
  IN  /\ session' = IF found \/ connect THEN [session EXCEPT ![p] = cache[o].session] ELSE session
      /\ alive' = IF connect THEN alive \cup {p} ELSE alive
      /\ listed' = IF connect THEN listed \cup {p} ELSE listed
      /\ SetStore(IF ~found /\ connect THEN darwin_ref_cached_device(Store, o) ELSE Store)
      /\ broken' = (broken \/ mem[o] # "live" \/ ~cache[o].device \/ (connect /\ p \in listed))

\* libusb_unref_device of what nobody lists or has open any longer, with
\* darwin_destroy_device
Destroy(st, D) == FoldSet(LAMBDA p, x : darwin_deref_cached_device(x, p[2]), st, D)
-----------------------------------------------------------------------------
(***************************************************************************)
(* The event thread.                                                       *)
(***************************************************************************)
EventFrame == UNCHANGED <<kernel, contexts, app, reset, resets>>

\* darwin_fail_startup
StartupFailure ==
  /\ StartupFails /\ thread \in {"start", "notified"}
  /\ thread' = "ended" /\ acfl' = "failed"
  /\ UNCHANGED <<iterators, objects, devices, stop, event, broken>> /\ EventFrame

AddNotification ==
  /\ thread = "start" /\ thread' = "notified"
  /\ UNCHANGED <<iterators, objects, devices, acfl, stop, event, broken>> /\ EventFrame

\* the iterators are armed by clearing them: what they hold is not seen
ArmNotifiers ==
  /\ thread = "notified" /\ ~armed /\ armed' = TRUE
  /\ add' = {} /\ rem' = {}
  /\ UNCHANGED <<objects, devices, runloop, event, broken>> /\ EventFrame

SignalReady ==
  /\ thread = "notified" /\ armed
  /\ thread' = "run" /\ acfl' = "loop"
  /\ UNCHANGED <<iterators, objects, devices, stop, event, broken>> /\ EventFrame

\* CFRunLoopRun returns: the shutdown source was signalled
StopLoop ==
  /\ thread = "run" /\ stop /\ event.pc = "idle"
  /\ thread' = "ended" /\ acfl' = "NULL" /\ stop' = FALSE
  /\ armed' = FALSE /\ add' = {} /\ rem' = {}
  /\ UNCHANGED <<objects, devices, event, broken>> /\ EventFrame

Handler(from, e) ==
  /\ thread = "run" /\ event.pc = from /\ event' = e
  /\ UNCHANGED runloop /\ EventFrame

At(pc) == [event EXCEPT !.pc = pc]

\* active_contexts_lock, held while the iterator is read to its end
DevicesAttached ==
  /\ add # {} /\ Handler("idle", At("attach"))
  /\ UNCHANGED <<iterators, objects, devices, broken>>

DevicesDetached ==
  /\ rem # {} /\ Handler("idle", At("detach"))
  /\ UNCHANGED <<iterators, objects, devices, broken>>

darwin_devices_attached ==
  \/ /\ add = {} /\ Handler("attach", At("idle"))
     /\ UNCHANGED <<iterators, objects, devices, broken>>
  \/ \E s \in add :
       LET g == darwin_get_cached_device(Store, s)
           seen == g.ok /\ g.store.cache[g.o].can_enumerate
       IN  /\ Handler("attach", IF seen THEN [pc |-> "process", o |-> g.o, old |-> g.old,
                                              todo |-> active]
                                ELSE event)
           /\ add' = add \ {s}
           /\ SetStore(g.store)
           /\ UNCHANGED <<rem, armed, devices, broken>>

\* one context after the other
AddToContext(c) ==
  /\ c \in event.todo
  /\ Handler("process", [event EXCEPT !.todo = @ \ {c}])
  /\ process_new_device(c, event.o, event.old)
  /\ UNCHANGED <<iterators, opened>>

ResetComplete ==
  /\ event.todo = {} /\ Handler("process", At("attach"))
  /\ cache' = [cache EXCEPT ![event.o].in_reenumerate = FALSE]
  /\ broken' = (broken \/ mem[event.o] # "live")
  /\ UNCHANGED <<iterators, cached, mem, devices>>

OfSession(st, s) == {o \in ToSet(st.list) : st.cache[o].session = s}

darwin_devices_detached ==
  \/ /\ rem = {} /\ Handler("detach", At("idle"))
     /\ UNCHANGED <<iterators, objects, devices, broken>>
  \/ \E s \in rem :
       LET O == OfSession(Store, s)
           again == \E o \in O : cache[o].in_reenumerate
       IN  /\ Handler("detach", IF again THEN event
                                ELSE [pc |-> "notify", o |-> 0, old |-> s, todo |-> active])
           /\ rem' = rem \ {s}
           /\ SetStore(IF again THEN [Store EXCEPT !.cache = [o \in Sessions |->
                                        IF o \in O THEN [cache[o] EXCEPT !.device = FALSE]
                                        ELSE cache[o]]]
                       ELSE Deref(Store, O))
           /\ UNCHANGED <<add, armed, devices, broken>>

\* usbi_disconnect_device, and the last reference if there is no handle
DisconnectDevice(c) ==
  LET D == {<<c, o>> : o \in ByOldSession(c, event.old)}
  IN  /\ c \in event.todo
      /\ Handler("notify", [event EXCEPT !.todo = @ \ {c}])
      /\ listed' = listed \ D /\ alive' = alive \ (D \ opened)
      /\ SetStore(Destroy(Store, D \ opened))
      /\ UNCHANGED <<iterators, session, opened, broken>>

Notified ==
  /\ event.todo = {} /\ Handler("notify", At("detach"))
  /\ UNCHANGED <<iterators, objects, devices, broken>>
-----------------------------------------------------------------------------
(***************************************************************************)
(* Starts and ends of contexts.                                            *)
(***************************************************************************)
AppFrame == UNCHANGED <<kernel, event, reset, resets>>

\* libusb_init as far as the backend
Enter(c) ==
  /\ app.pc = "idle" /\ ctx[c] = "none" /\ event.pc = "idle"
  /\ "reset" \in Calm => ~Resetting
  /\ "plug" \in Calm => add = {} /\ rem = {} /\ returning = {} /\ asked = {}
  /\ active' = active \cup {c} /\ ctx' = [ctx EXCEPT ![c] = "starting"]
  /\ init_count' = init_count + 1
  /\ app' = [app EXCEPT !.pc = "scan", !.c = c, !.first = (init_count = 0), !.services = present]
  /\ UNCHANGED <<iterators, objects, devices, runloop, broken>> /\ AppFrame

darwin_scan_devices ==
  /\ app.pc = "scan"
  /\ \E s \in app.services :
       LET g == darwin_get_cached_device(Store, s)
           seen == g.ok /\ g.store.cache[g.o].can_enumerate
       IN  /\ app' = [app EXCEPT !.services = @ \ {s}, !.pc = IF seen THEN "process" ELSE "scan",
                                 !.o = IF seen THEN g.o ELSE 0, !.old = IF seen THEN g.old ELSE 0]
           /\ SetStore(g.store)
  /\ UNCHANGED <<iterators, devices, contexts, runloop, broken>> /\ AppFrame

ScanProcess ==
  /\ app.pc = "process"
  /\ process_new_device(app.c, app.o, app.old)
  /\ app' = [app EXCEPT !.pc = "scan", !.o = 0, !.old = 0]
  /\ UNCHANGED <<iterators, opened, contexts, runloop>> /\ AppFrame

\* the scan is over: the context is ready, or the first one's thread starts
darwin_init ==
  /\ app.pc = "scan" /\ app.services = {}
  /\ IF app.first THEN /\ app' = [app EXCEPT !.pc = "await"]
                       /\ thread' = "start" /\ UNCHANGED ctx
     ELSE /\ app' = [app EXCEPT !.pc = "idle"]
          /\ ctx' = [ctx EXCEPT ![app.c] = "ready"] /\ UNCHANGED thread
  /\ UNCHANGED <<iterators, objects, devices, active, init_count, acfl, stop, broken>> /\ AppFrame

ThreadIsUp ==
  /\ app.pc = "await" /\ acfl = "loop"
  /\ app' = [app EXCEPT !.pc = "idle"] /\ ctx' = [ctx EXCEPT ![app.c] = "ready"]
  /\ UNCHANGED <<iterators, objects, devices, active, init_count, runloop, broken>> /\ AppFrame

\* the error path of libusb_init: usbi_hotplug_exit returns at once, because
\* hotplug_ready was never set, so the devices of the context stay
InitFails ==
  /\ app.pc = "await" /\ acfl = "failed"
  /\ acfl' = "NULL" /\ thread' = "none" /\ armed' = FALSE /\ add' = {} /\ rem' = {}
  /\ SetStore(darwin_cleanup_devices(Store))
  /\ init_count' = init_count - 1
  /\ active' = active \ {app.c} /\ ctx' = [ctx EXCEPT ![app.c] = "failed"]
  /\ app' = [app EXCEPT !.pc = "idle"]
  /\ UNCHANGED <<devices, stop, broken>> /\ AppFrame

\* libusb_exit, of a context whose handles are closed
Exit(c) ==
  /\ app.pc = "idle" /\ ctx[c] = "ready" /\ event.pc = "idle"
  /\ \A p \in opened : p[1] # c
  /\ active' = active \ {c} /\ init_count' = init_count - 1
  /\ app' = [app EXCEPT !.pc = "exit", !.c = c]
  /\ stop' = (init_count = 1)
  /\ UNCHANGED <<iterators, objects, devices, ctx, acfl, thread, broken>> /\ AppFrame

\* usbi_hotplug_exit
EndContext(st) ==
  LET D == {p \in alive : p[1] = app.c}
  IN  /\ SetStore(Destroy(st, D))
      /\ alive' = alive \ D /\ listed' = listed \ D
      /\ ctx' = [ctx EXCEPT ![app.c] = "gone"]
      /\ app' = [app EXCEPT !.pc = "idle"]
      /\ UNCHANGED <<iterators, session, opened, active, init_count, broken>> /\ AppFrame

darwin_exit ==
  /\ app.pc = "exit"
  /\ \/ init_count > 0 /\ EndContext(Store) /\ UNCHANGED runloop
     \/ /\ init_count = 0 /\ acfl = "NULL" /\ thread = "ended"
        /\ thread' = "none" /\ UNCHANGED <<acfl, stop>>
        /\ EndContext(darwin_cleanup_devices(Store))
-----------------------------------------------------------------------------
(***************************************************************************)
(* Handles, and the resets made with them.                                 *)
(***************************************************************************)
UserFrame == UNCHANGED <<iterators, contexts, runloop, event, app>>

Open(p) ==
  /\ p \in listed \ opened /\ ctx[p[1]] = "ready" /\ app.pc # "exit"
  /\ opened' = opened \cup {p}
  /\ UNCHANGED <<kernel, objects, alive, listed, session, reset, history>> /\ UserFrame

Close(p) ==
  /\ p \in opened /\ \A t \in Threads : reset[t].pc # "idle" => <<reset[t].c, reset[t].o>> # p
  /\ opened' = opened \ {p}
  /\ alive' = IF p \in listed THEN alive ELSE alive \ {p}
  /\ SetStore(IF p \in listed THEN Store ELSE Destroy(Store, {p}))
  /\ UNCHANGED <<kernel, listed, session, reset, history>> /\ UserFrame

Goto(t, from, to) == reset[t].pc = from /\ reset' = [reset EXCEPT ![t].pc = to]
Result(t, from, r) ==
  reset[t].pc = from /\ reset' = [reset EXCEPT ![t].pc = "idle", ![t].ret = r]
Reenumerating(o, b) == cache' = [cache EXCEPT ![o].in_reenumerate = b]

\* libusb_reset_device, and the check of in_reenumerate
Reset(t, p) ==
  /\ p \in opened /\ resets < MaxResets /\ resets' = resets + 1
  /\ MayReset /\ cache[p[2]].session \in present
  /\ reset[t].pc = "idle"
  /\ reset' = [reset EXCEPT ![t] =
       [pc |-> IF p \in listed /\ ~cache[p[2]].in_reenumerate THEN "set" ELSE "idle",
        c |-> p[1], o |-> p[2], descriptor |-> "unborn",
        ret |-> IF p \in listed /\ ~cache[p[2]].in_reenumerate THEN "none" ELSE "NOT_FOUND"]]
  /\ UNCHANGED <<kernel, objects, devices, broken>> /\ UserFrame

\* the flag is set and the descriptors are kept, read through the interface
SetReenumerate(t) ==
  LET o == reset[t].o
  IN  /\ reset[t].pc = "set"
      /\ reset' = [reset EXCEPT ![t].pc = "ask", ![t].descriptor = cache[o].descriptor]
      /\ Reenumerating(o, TRUE)
      /\ broken' = (broken \/ ~cache[o].device)
      /\ UNCHANGED <<kernel, cached, mem, devices, resets>> /\ UserFrame

USBDeviceReEnumerate(t) ==
  LET s == cache[reset[t].o].session
  IN  /\ reset[t].pc = "ask"
      /\ \/ /\ s \in present /\ asked' = asked \cup {s}
            /\ Goto(t, "ask", "wait") /\ UNCHANGED cache
         \/ /\ s \notin present /\ UNCHANGED asked
            /\ Result(t, "ask", "OTHER") /\ Reenumerating(reset[t].o, FALSE)
      /\ broken' = (broken \/ ~cache[reset[t].o].device)
      /\ UNCHANGED <<place, kind, present, returning, cached, mem, devices, resets>> /\ UserFrame

WaitIsOver(t) ==
  /\ Goto(t, "wait", "compare") /\ ~cache[reset[t].o].in_reenumerate
  /\ UNCHANGED <<kernel, objects, devices, history>> /\ UserFrame

\* DARWIN_REENUMERATE_TIMEOUT_US
WaitTimesOut(t) ==
  /\ Timeouts /\ reset[t].pc = "wait" /\ cache[reset[t].o].in_reenumerate
  /\ Result(t, "wait", "TIMEOUT") /\ Reenumerating(reset[t].o, FALSE)
  /\ UNCHANGED <<kernel, cached, mem, devices, history>> /\ UserFrame

CompareDescriptors(t) ==
  LET o == reset[t].o
  IN  /\ reset[t].pc = "compare"
      /\ Result(t, "compare", IF cache[o].descriptor = reset[t].descriptor THEN "SUCCESS"
                              ELSE "NOT_FOUND")
      /\ broken' = (broken \/ mem[o] # "live" \/ ~cache[o].device)
      /\ UNCHANGED <<kernel, objects, devices, resets>> /\ UserFrame
-----------------------------------------------------------------------------
Kernel ==
  \/ \E l \in Locations, k \in Kinds : Plug(l, k) \/ Return(l, k)
  \/ \E s \in Sessions : Unplug(s) \/ Drop(s)
  \/ \E l \in Locations : PulledOut(l)

EventThread ==
  \/ StartupFailure \/ AddNotification \/ ArmNotifiers \/ SignalReady \/ StopLoop
  \/ DevicesAttached \/ darwin_devices_attached \/ ResetComplete
  \/ DevicesDetached \/ darwin_devices_detached \/ Notified
  \/ \E c \in Contexts : AddToContext(c) \/ DisconnectDevice(c)

AppSteps == darwin_scan_devices \/ ScanProcess \/ darwin_init \/ ThreadIsUp \/ InitFails
            \/ darwin_exit

ResetSteps(t) == SetReenumerate(t) \/ USBDeviceReEnumerate(t) \/ WaitIsOver(t)
                 \/ WaitTimesOut(t) \/ CompareDescriptors(t)

Next ==
  \/ Kernel \/ EventThread \/ AppSteps
  \/ \E c \in Contexts : Enter(c) \/ Exit(c)
  \/ \E p \in Pairs : Open(p) \/ Close(p) \/ \E t \in Threads : Reset(t, p)
  \/ \E t \in Threads : ResetSteps(t)

Spec == Init /\ [][Next]_vars

-----------------------------------------------------------------------------
(***************************************************************************)
(* Correctness.                                                            *)
(***************************************************************************)
\* nothing is under way that could change the lists
Settled ==
  /\ thread = "run" /\ ~stop /\ app.pc = "idle" /\ event.pc = "idle" /\ ~Resetting
  /\ add = {} /\ rem = {} /\ asked = {} /\ returning = {}

(***************************************************************************)
(* No freed object and no released interface is used: each device of a     *)
(* context has its cached device ("need to hold the lock in case this is   *)
(* the last reference", darwin_usb.c:1947), and a device is never connected *)
(* a second time.                                                          *)
(***************************************************************************)
NothingBroken ==
  /\ ~broken
  /\ \A p \in alive : mem[p[2]] = "live"
  /\ \A o \in Sessions : mem[o] = "live" <=> o \in ToSet(cached)

(***************************************************************************)
(* When all is settled the counts are those of the owners: one while the   *)
(* service is there and one for each libusb_device.  So a device that left *)
(* stays in the cache only as long as a handle needs it.                   *)
(***************************************************************************)
RefsAreOwners ==
  Settled => \A o \in ToSet(cached) :
    cache[o].refcount = (IF cache[o].session \in present THEN 1 ELSE 0)
                        + Cardinality({p \in alive : p[2] = o})

(***************************************************************************)
(* "Returns a list of USB devices currently attached to the system"        *)
(* (core.c:797): when all is settled each context lists exactly the        *)
(* services that are there and answer, also after resets.                  *)
(***************************************************************************)
Answers(s) == s \in present /\ kind[s] \in {"good", "other"}

ListIsCurrent ==
  Settled => \A c \in Contexts : ctx[c] = "ready" =>
    {session[p] : p \in {q \in listed : q[1] = c}} = {s \in Sessions : Answers(s)}

(***************************************************************************)
(* A reset that succeeds leaves the handle with the service now at the     *)
(* place, of the same descriptor, through a live interface.                *)
(***************************************************************************)
ResetFindsDevice ==
  \A t \in Threads : reset[t].pc = "compare" /\ reset'[t].ret = "SUCCESS" =>
    LET o == reset[t].o
    IN  /\ cache[o].device /\ ~cache[o].in_reenumerate
        /\ kind[cache[o].session] = reset[t].descriptor
        /\ <<reset[t].c, o>> \in listed => session[<<reset[t].c, o>>] = cache[o].session

(***************************************************************************)
(* A device that was disconnected is answered with an error ("or if the    *)
(* device has been disconnected", the results of libusb_reset_device,      *)
(* core.c:1819): its released interface is not used.                       *)
(***************************************************************************)
NeverThroughNull == ~broken

(***************************************************************************)
(* "add this device to each active context's device list"                  *)
(* (darwin_usb.c:357).                                                     *)
(***************************************************************************)
InEachContext ==
  [][event.pc = "process" /\ event'.pc = "attach" =>
       \A c \in active :
         \E p \in listed : p[1] = c /\ session[p] = cache[event.o].session]_vars

(***************************************************************************)
(* "device is re-enumerating. do not dereference the device at this time.  *)
(* libusb_reset_device() will deref if needed" (darwin_usb.c:401): once    *)
(* all is settled nothing keeps a device that is gone but its handles.     *)
(***************************************************************************)
ResetDerefs ==
  Settled => \A o \in ToSet(cached) :
    cache[o].session \in present \/ \E p \in opened : p[2] = o

(***************************************************************************)
(* assert(list_empty(&darwin_cached_devices)) (darwin_usb.c:605): the      *)
(* first start finds no cached device.                                     *)
(***************************************************************************)
FirstFindsNothing ==
  [][app.pc = "idle" /\ app'.pc = "scan" /\ app'.first => cached = <<>>]_vars

(***************************************************************************)
(* "ack, two (or more) threads are trying to reset the device! abort!"     *)
(* (darwin_usb.c:1775): only one reset of an object goes on.               *)
(***************************************************************************)
OneResetAtATime ==
  \A t, u \in Threads :
    t # u /\ reset[t].o = reset[u].o => ~(reset[t].pc \in {"ask", "wait"}
                                          /\ reset[u].pc \in {"ask", "wait"})

(***************************************************************************)
(* No start or end of a context goes on for ever: the thread answers the   *)
(* condition that darwin_init and darwin_exit wait for.  No reset does,    *)
(* though the device may not come back.                                    *)
(***************************************************************************)
Calling == app.pc # "idle"
InReset(t) == reset[t].pc # "idle"
=============================================================================
