-------------------------- MODULE WindowsDevices ----------------------------
(***************************************************************************)
(* How libusb lists devices on Windows (winusb_get_device_list in          *)
(* os/windows_winusb.c, with the list of device objects of core.c).        *)
(* Windows has no hotplug in this version: every listing walks the         *)
(* registry of plugged things again, in passes, and matches what it finds  *)
(* with the objects somebody still refers to.  The interfaces are read     *)
(* from a snapshot taken at the start, the generic pass takes a snapshot   *)
(* of its own, and the parents, the children and the ports are asked of    *)
(* the system as it is at that moment: a device that comes, goes or moves  *)
(* in between is seen by some of the passes only.                          *)
(*                                                                         *)
(* A node is an entry of that registry.  Its session id is its DEVINST,    *)
(* which is the node itself here; `named' says that its instance ID has    *)
(* HUB or VID_1209 in it, which this copy of libusb asks for.  Speeds,     *)
(* device descriptors and the waiting for a device that is not configured  *)
(* yet are abstracted to whether the hub finds it at that port; memory is  *)
(* never short.                                                            *)
(***************************************************************************)
EXTENDS Naturals, Sequences, FiniteSets, FiniteSetsExt

CONSTANTS
  Nodes,        \* controllers, hubs, devices, functions, HID collections
  NoNode,       \* no node, and the parent of a controller
  Node,         \* what the registry says of each of them
  Slots,        \* objects that can be alive at once are 1 .. Slots
  MaxChanges,   \* bound: things plugged and pulled
  MaxListings,  \* bound: listings
  Relists,      \* the application keeps a device open over a listing
  Reinstalls,   \* another driver package changes the class of a device
  Fails         \* the system may fail to give the details of an interface

Objs == 1 .. Slots
Numbers == 0 .. 1
Places == UNION {Node[n].places : n \in Nodes}
Guids == {Node[n].guid : n \in Nodes} \ {"none"}

WindowsDevicesAssumption ==
  /\ NoNode \notin Nodes
  /\ \A n \in Nodes :
       /\ Node[n].kind \in {"hcd", "hub", "device", "function", "collection"}
       /\ Node[n].api \in {"none", "hub", "composite", "hid", "winusb"}
       /\ Node[n].number \in Numbers /\ Node[n].named \in BOOLEAN
       /\ \A p \in Node[n].places : p.up \in Nodes \cup {NoNode}
  /\ {Slots, MaxChanges, MaxListings} \subseteq Nat
  /\ {Relists, Reinstalls, Fails} \subseteq BOOLEAN

VARIABLES
  where,      \* the registry: where each node is, or Gone
  class,      \* the class of each node
  changes,    \* how often the registry changed
  quiet,      \* it did not since the listing began
  objs,       \* the device objects of the context
  pc,         \* the listing: idle, pass, init or listed
  pass,       \* which pass, as an index of guid_list
  intf,       \* the snapshot of the interfaces (dev_info_intf)
  todo,       \* what is left of the pass
  guids,      \* guid_list from EXT_PASS on
  enums,      \* usb_enumerator, and in the generic pass what is left of it
  cur,        \* node, dev and parent_dev between two calls of the system
  discdevs,   \* references the listing holds: devices discovered,
  unrefs,     \*   unref_list,
  app,        \*   the list the application was given,
  handles,    \*   and its handles
  leaked,     \* references the listing took and has forgotten
  listings    \* how many listings began

registry == <<where, class, changes, quiet>>
local == <<pass, intf, todo, guids, enums>>
held == <<discdevs, unrefs, app, handles>>
vars == <<registry, objs, pc, local, cur, held, leaked, listings>>

Gone == [up |-> NoNode, port |-> 99]
Present == {n \in Nodes : where[n] # Gone}
Nothing == [o \in Objs |-> 0]
NoCur == [node |-> NoNode, dev |-> 0, parent |-> 0]

(* winusb_device_priv_init on memory that calloc has cleared *)
Blank ==
  [refs |-> 0, inst |-> NoNode, class |-> 0, listed |-> FALSE, bus |-> 0,
   port |-> 0, parent |-> 0, depth |-> 0, path |-> FALSE, api |-> "none",
   nb |-> 0, ifaces |-> [i \in Numbers |-> NoNode], winusb |-> FALSE,
   root |-> FALSE, initialized |-> FALSE]
(* what list_del leaves of an object that was off the list already *)
Struck == [Blank EXCEPT !.class = 9]

TypeOK ==
  /\ where \in [Nodes -> Places \cup {Gone}]
  /\ class \in [Nodes -> 0 .. 1]
  /\ changes \in 0 .. MaxChanges /\ quiet \in BOOLEAN
  /\ pc \in {"idle", "pass", "init", "listed"}
  /\ pass \in 0 .. 5 + Cardinality(Guids)
  /\ intf \subseteq Nodes /\ todo \subseteq Nodes
  /\ {guids[i] : i \in DOMAIN guids} \subseteq Guids
  /\ cur.node \in Nodes \cup {NoNode}
  /\ {cur.dev, cur.parent} \subseteq Objs \cup {0}
  /\ \A f \in {discdevs, unrefs, app, handles, leaked} : f \in [Objs -> Nat]
  /\ \A o \in Objs :
       /\ objs[o].refs \in Nat
       /\ objs[o].inst \in Nodes \cup {NoNode}
       /\ objs[o].parent \in Objs \cup {0}
  /\ listings \in 0 .. MaxListings
-----------------------------------------------------------------------------
(* The registry *)

Free(p) == p.port = 0 \/ \A m \in Nodes : where[m] # p

Arrive(n) ==
  /\ where[n] = Gone /\ changes < MaxChanges
  /\ \E p \in Node[n].places :
       /\ p.up = NoNode \/ p.up \in Present
       /\ Free(p)
       /\ where' = [where EXCEPT ![n] = p]
  /\ changes' = changes + 1 /\ quiet' = FALSE
  /\ UNCHANGED <<class, objs, pc, local, cur, held, leaked, listings>>

(* n and what it hangs from, to the top *)
RECURSIVE Chain(_)
Chain(n) == IF n = NoNode THEN <<>> ELSE <<n>> \o Chain(where[n].up)
Above(n) == IF n \in Present THEN Tail(Chain(n)) ELSE <<>>
Below(n) == {m \in Present : \E i \in DOMAIN Above(m) : Above(m)[i] = n}

(* a pulled thing takes with it all that hangs from it *)
Leave(n) ==
  /\ n \in Present /\ Node[n].kind \in {"hcd", "hub", "device"}
  /\ changes < MaxChanges
  /\ where' = [m \in Nodes |-> IF m \in Below(n) \cup {n} THEN Gone
                               ELSE where[m]]
  /\ changes' = changes + 1 /\ quiet' = FALSE
  /\ UNCHANGED <<class, objs, pc, local, cur, held, leaked, listings>>

Reinstall(n) ==
  /\ Reinstalls /\ n \in Present /\ Node[n].kind = "device"
  /\ changes < MaxChanges
  /\ class' = [class EXCEPT ![n] = 1 - @]
  /\ changes' = changes + 1 /\ quiet' = FALSE
  /\ UNCHANGED <<where, objs, pc, local, cur, held, leaked, listings>>
-----------------------------------------------------------------------------
(* The objects (core.c) *)

(* usbi_get_device_by_session_id, without its reference *)
Known(n) == {o \in Objs : objs[o].listed /\ objs[o].inst = n}
Lookup(n) == IF Known(n) = {} THEN 0 ELSE CHOOSE o \in Known(n) : TRUE

Ref(os, o) == IF o = 0 THEN os ELSE [os EXCEPT ![o].refs = @ + 1]

(* libusb_unref_device: the last reference takes the one on the parent     *)
(* along, and the object off the list, from which usbi_disconnect_device   *)
(* may have taken it before                                                *)
RECURSIVE Unref(_, _)
Unref(os, o) ==
  IF o = 0 THEN os
  ELSE IF os[o].refs > 1 THEN [os EXCEPT ![o].refs = @ - 1]
  ELSE [Unref(os, os[o].parent) EXCEPT
          ![o] = IF os[o].listed THEN Blank ELSE Struck]

RECURSIVE Unrefs(_, _, _)
Unrefs(os, o, k) == IF k = 0 THEN os ELSE Unrefs(Unref(os, o), o, k - 1)
UnrefAll(os, bag) ==
  FoldSet(LAMBDA o, left : Unrefs(left, o, bag[o]), os, Objs)

(* usbi_alloc_device; the slot with the lowest number is taken *)
Slot == CHOOSE o \in Objs :
          /\ objs[o] = Blank
          /\ \A q \in Objs : objs[q] = Blank => o <= q
Alloc(os, n) ==
  [os EXCEPT ![Slot] = [Blank EXCEPT !.refs = 1, !.inst = n, !.listed = TRUE,
                                     !.class = class[n]]]

(* get_ancestor, again and again: the objects the node hangs from *)
Ancestors(n) ==
  LET up == SelectSeq(Above(n), LAMBDA m : Known(m) # {})
  IN  [i \in DOMAIN up |-> Lookup(up[i])]
get_ancestor(n) == IF Ancestors(n) = <<>> THEN 0 ELSE Ancestors(n)[1]
-----------------------------------------------------------------------------
(* The passes *)

Passes == <<"HUB", "DEV", "HCD", "GEN", "HID">> \o guids
Pass == Passes[pass]

(* the nodes that have an interface of the class the pass lists *)
OfPass(p, S) ==
  {n \in S : \/ p = "HUB" /\ Node[n].kind = "hub"
             \/ p = "DEV" /\ Node[n].kind = "device"
             \/ p = "HCD" /\ Node[n].kind = "hcd"
             \/ p = "HID" /\ Node[n].kind = "collection"
             \/ p \in Guids /\ Node[n].guid = p}

Begin ==
  /\ pc = "idle" /\ app = Nothing /\ listings < MaxListings
  /\ Relists \/ handles = Nothing
  /\ pc' = "pass" /\ pass' = 1 /\ intf' = Present
  /\ todo' = OfPass("HUB", Present)
  /\ guids' = <<>> /\ enums' = <<"USB">>
  /\ listings' = listings + 1 /\ quiet' = TRUE
  /\ UNCHANGED <<where, class, changes, objs, cur, held, leaked>>

(* the end of a pass; the listing of all devices ends with the last        *)
(* interface GUID                                                          *)
NextPass ==
  /\ pc = "pass" /\ todo = {}
  /\ Pass = "GEN" => enums = <<>>
  /\ pass < Len(Passes)
  /\ pass' = pass + 1 /\ todo' = OfPass(Passes[pass + 1], intf)
  /\ UNCHANGED <<registry, objs, pc, intf, guids, enums, cur, held, leaked,
                 listings>>

(* get_devinfo_data at index 0: the generic pass reads the registry anew   *)
(* for each PnP enumerator that has a hub                                  *)
Enumerator ==
  /\ pc = "pass" /\ Pass = "GEN" /\ todo = {} /\ enums # <<>>
  /\ todo' = {n \in Present : Node[n].enumerator = Head(enums)}
  /\ enums' = Tail(enums)
  /\ UNCHANGED <<registry, objs, pc, pass, intf, guids, cur, held, leaked,
                 listings>>

(* the unref list is dropped at the end, whatever the result is *)
Finish ==
  /\ pc = "pass" /\ todo = {} /\ pass = Len(Passes) /\ pass > 4
  /\ pc' = "listed" /\ app' = discdevs /\ discdevs' = Nothing
  /\ objs' = UnrefAll(objs, unrefs) /\ unrefs' = Nothing
  /\ pass' = 0 /\ intf' = {} /\ guids' = <<>>
  /\ UNCHANGED <<registry, todo, enums, cur, handles, leaked, listings>>

(* get_interface_details gives an error: no list, and nothing kept *)
DetailsFail ==
  /\ Fails /\ pc = "pass" /\ Pass # "GEN"
  /\ pc' = "idle" /\ discdevs' = Nothing /\ unrefs' = Nothing
  /\ objs' = UnrefAll(UnrefAll(objs, unrefs), discdevs)
  /\ pass' = 0 /\ intf' = {} /\ todo' = {} /\ guids' = <<>> /\ enums' = <<>>
  /\ UNCHANGED <<registry, cur, app, handles, leaked, listings>>

(* the next entry of a pass *)
Entry(n) == pc = "pass" /\ n \in todo /\ todo' = todo \ {n}

(* the filter on the instance ID, which hubs and controllers need not pass  *)
(* in their own passes                                                     *)
Skip(n) ==
  /\ Entry(n) /\ Pass \notin {"HCD", "HUB"} /\ ~Node[n].named
  /\ UNCHANGED <<registry, objs, pc, pass, intf, guids, enums, cur, held,
                 leaked, listings>>

Read(n) == Entry(n) /\ (Node[n].named \/ Pass \in {"HCD", "HUB"})

(* The object of a node: the one on the list, referenced, or a new one.    *)
(* An object whose class is another by now is taken off the list, and      *)
(* stays with those who hold it.  Both end on the unref list.              *)
Matched(n) ==
  LET o == Lookup(n)
      renewed == o # 0 /\ objs[o].class # class[n]
  IN  IF o = 0 THEN [objs |-> Alloc(objs, n), dev |-> Slot]
      ELSE IF renewed
        THEN [objs |-> Alloc([objs EXCEPT ![o].listed = FALSE], n),
              dev |-> Slot]
        ELSE [objs |-> Ref(objs, o), dev |-> o]

Tracks(o) == unrefs' = [unrefs EXCEPT ![o] = @ + 1]

(* HUB_PASS and DEV_PASS: a device that has no path yet gets its path, its *)
(* API, and as a simple device its first interface                         *)
SetUp(d, n, api) ==
  IF d.path THEN d
  ELSE [d EXCEPT !.path = TRUE, !.api = api,
                 !.winusb = @ \/ api = "winusb",
                 !.ifaces[0] = IF api \in {"hub", "composite", "hid"}
                               THEN @ ELSE n]

Hub(n) ==
  /\ Read(n) /\ Pass = "HUB"
  /\ enums' = IF \E i \in DOMAIN enums : enums[i] = Node[n].enumerator
              THEN enums ELSE Append(enums, Node[n].enumerator)
  /\ LET m == Matched(n)
     IN  /\ objs' = [m.objs EXCEPT ![m.dev] = SetUp(@, n, "hub")]
         /\ Tracks(m.dev)
  /\ UNCHANGED <<registry, pc, pass, intf, guids, cur, discdevs, app,
                 handles, leaked, listings>>

Device(n) ==
  /\ Read(n) /\ Pass = "DEV"
  /\ LET m == Matched(n)
     IN  /\ objs' = [m.objs EXCEPT ![m.dev] = SetUp(@, n, Node[n].api)]
         /\ Tracks(m.dev)
  /\ UNCHANGED <<registry, pc, pass, intf, guids, enums, cur, discdevs, app,
                 handles, leaked, listings>>

(* enumerate_hcd_root_hub: the first child of the controller is its root   *)
(* hub, whose bus is the place of the controller in this listing           *)
Bus == Cardinality(OfPass("HCD", intf)) - Cardinality(todo) + 1

Renumbers(o) ==
  IF objs[o].bus = 0 THEN [objs[o] EXCEPT !.bus = Bus, !.root = TRUE]
  ELSE objs[o]

enumerate_hcd_root_hub(n) ==
  /\ Read(n) /\ Pass = "HCD"
  /\ \/ \E c \in Present :
          /\ where[c].up = n /\ Lookup(c) # 0
          /\ objs' = [objs EXCEPT ![Lookup(c)] = Renumbers(Lookup(c))]
     \/ (\A c \in Present : where[c].up = n => Lookup(c) = 0)
        /\ UNCHANGED objs
  /\ UNCHANGED <<registry, pc, pass, intf, guids, enums, cur, held, leaked,
                 listings>>
-----------------------------------------------------------------------------
(* The generic pass *)

FindsGuid(n) ==
  guids' = IF \/ Node[n].guid = "none"
              \/ \E i \in DOMAIN guids : guids[i] = Node[n].guid
           THEN guids ELSE Append(guids, Node[n].guid)

(* An entry of the generic pass: its interface GUID is added to the list,  *)
(* and if it hangs from a hub, or is a root hub, its object is matched.    *)
Generic(n) ==
  /\ Read(n) /\ Pass = "GEN" /\ FindsGuid(n)
  /\ LET up == get_ancestor(n)
         m == Matched(n)
         o == Lookup(n)
         below == up # 0 /\ objs[up].api = "hub"
         top == up = 0 /\ o # 0 /\ objs[o].root
     IN  \/ below \* parent_dev stays referenced
            /\ objs' = Ref(m.objs, up) /\ Tracks(m.dev)
            /\ cur' = [node |-> n, dev |-> m.dev, parent |-> up]
            /\ pc' = "init"
         \/ top
            /\ objs' = Ref(objs, o) /\ Tracks(o)
            /\ cur' = [node |-> n, dev |-> o, parent |-> 0] /\ pc' = "init"
         \/ ~below /\ ~top /\ UNCHANGED <<objs, unrefs, cur, pc>>
  /\ UNCHANGED <<registry, pass, intf, enums, discdevs, app, handles, leaked,
                 listings>>

(* init_device looks for the bus above a hub that has none.  The first     *)
(* object above the device has to be its parent; the bus and the depth are *)
(* those of the first one above that has a bus.                            *)
FirstWithBus(up) ==
  LET S == {i \in 2 .. Len(up) : objs[up[i]].bus # 0}
  IN  IF S = {} THEN 0 ELSE Min(S)

Placed(n, p) ==
  LET up == Ancestors(n)
      i == FirstWithBus(up)
  IN  IF objs[p].bus # 0
        THEN [bus |-> objs[p].bus, depth |-> objs[p].depth + 1]
      ELSE IF up = <<>> \/ up[1] # p \/ i = 0 THEN [bus |-> 0, depth |-> 0]
      ELSE [bus |-> objs[up[i]].bus, depth |-> objs[up[i]].depth + i]

(* the hub says whether there is a device at that port *)
Answers(n, p, port) ==
  /\ objs[p].inst \in Present
  /\ \E m \in Present : where[m] = [up |-> objs[p].inst, port |-> port]

(* get_dev_port_number: what the registry says of the node, if it is there *)
PortOf(n) == IF n \in Present THEN where[n].port ELSE 0

Goes == pc' = "pass" /\ cur' = NoCur

Leaks(o) == leaked' = IF o = 0 THEN leaked ELSE [leaked EXCEPT ![o] = @ + 1]

Appends(o) == discdevs' = [discdevs EXCEPT ![o] = @ + 1]

(* init_device of a device that somebody holds since an earlier listing:   *)
(* it is listed as it is, and the reference on parent_dev is forgotten     *)
InitAgain ==
  /\ pc = "init" /\ objs[cur.dev].initialized
  /\ objs' = Ref(objs, cur.dev) /\ Appends(cur.dev) /\ Leaks(cur.parent)
  /\ Goes
  /\ UNCHANGED <<registry, local, unrefs, app, handles, listings>>

(* init_device of a device below a hub.  Without a bus the device is       *)
(* skipped, with the reference on its parent forgotten; from then on the   *)
(* object holds that reference, also when the hub does not answer, and one *)
(* it held before is forgotten.                                            *)
init_device ==
  /\ pc = "init" /\ ~objs[cur.dev].initialized /\ cur.parent # 0
  /\ LET at == Placed(cur.node, cur.parent)
         port == PortOf(cur.node)
         there == Answers(cur.node, cur.parent, port)
         placed == [objs EXCEPT ![cur.dev].bus = at.bus,
                                ![cur.dev].depth = at.depth,
                                ![cur.dev].port = port,
                                ![cur.dev].parent = cur.parent]
         wrong == /\ objs[cur.parent].bus = 0
                  /\ get_ancestor(cur.node) \notin {0, cur.parent}
         again == IF wrong THEN get_ancestor(cur.node) ELSE 0
     IN  \/ at.bus = 0 /\ UNCHANGED discdevs
            /\ objs' = Ref(objs, again)
            /\ leaked' = [o \in Objs |-> leaked[o] +
                            Cardinality({o} \cap {cur.parent, again})]
         \/ at.bus # 0 /\ ~there
            /\ objs' = placed /\ Leaks(objs[cur.dev].parent)
            /\ UNCHANGED discdevs
         \/ at.bus # 0 /\ there
            /\ objs' = [Ref(placed, cur.dev) EXCEPT
                          ![cur.dev].initialized = TRUE]
            /\ Appends(cur.dev) /\ Leaks(objs[cur.dev].parent)
  /\ Goes
  /\ UNCHANGED <<registry, local, unrefs, app, handles, listings>>

(* init_root_hub opens the hub to ask for its ports *)
init_root_hub ==
  /\ pc = "init" /\ ~objs[cur.dev].initialized /\ cur.parent = 0
  /\ IF cur.node \in Present
       THEN /\ objs' = [Ref(objs, cur.dev) EXCEPT
                          ![cur.dev].initialized = TRUE]
            /\ Appends(cur.dev)
       ELSE UNCHANGED <<objs, discdevs>>
  /\ Goes
  /\ UNCHANGED <<registry, local, unrefs, app, handles, leaked, listings>>
-----------------------------------------------------------------------------
(* The passes that give a composite or HID device its interfaces *)

(* set_composite_interface: the number is in the instance ID; the first of *)
(* several HID collections stays                                           *)
set_composite_interface(d, n) ==
  LET taken == d.ifaces[Node[n].number] # NoNode
  IN  [d EXCEPT !.winusb = @ \/ Node[n].api = "winusb",
                !.ifaces[Node[n].number] =
                  IF taken /\ Pass = "HID" THEN @ ELSE n]

(* set_hid_interface: collections get the interfaces in turn *)
set_hid_interface(d, n) ==
  IF \E i \in 0 .. d.nb - 1 : d.ifaces[i] = n THEN d
  ELSE [d EXCEPT !.ifaces[d.nb] = n, !.nb = @ + 1]

Interface(n) ==
  /\ Read(n) /\ pass > 4
  /\ LET up == get_ancestor(n)
     IN  objs' =
           CASE up # 0 /\ objs[up].api = "hid" ->
                  [objs EXCEPT ![up] = set_hid_interface(@, n)]
             [] up # 0 /\ objs[up].api = "composite" ->
                  [objs EXCEPT ![up] = set_composite_interface(@, n)]
             [] OTHER -> objs
  /\ UNCHANGED <<registry, pc, pass, intf, guids, enums, cur, held, leaked,
                 listings>>
-----------------------------------------------------------------------------
(* The application *)

FreeList ==
  /\ pc = "listed"
  /\ pc' = "idle" /\ app' = Nothing /\ objs' = UnrefAll(objs, app)
  /\ UNCHANGED <<registry, local, cur, discdevs, unrefs, handles, leaked,
                 listings>>

Open(o) ==
  /\ pc = "listed" /\ app[o] > 0 /\ handles = Nothing
  /\ Node[objs[o].inst].kind = "device"
  /\ objs' = Ref(objs, o) /\ handles' = [handles EXCEPT ![o] = 1]
  /\ UNCHANGED <<registry, pc, local, cur, discdevs, unrefs, app, leaked,
                 listings>>

(* libusb_close comes from another thread, at any time *)
Close(o) ==
  /\ handles[o] > 0
  /\ handles' = [handles EXCEPT ![o] = 0] /\ objs' = Unref(objs, o)
  /\ UNCHANGED <<registry, pc, local, cur, discdevs, unrefs, app, leaked,
                 listings>>

Init ==
  /\ where \in [Nodes -> Places \cup {Gone}]
  /\ \A n \in Present :
       /\ where[n] \in Node[n].places
       /\ where[n].up \in Present \cup {NoNode}
       /\ where[n].port = 0 \/ \A m \in Present \ {n} : where[m] # where[n]
  /\ class = [n \in Nodes |-> 0]
  /\ changes = 0 /\ quiet = TRUE
  /\ objs = [o \in Objs |-> Blank]
  /\ pc = "idle" /\ pass = 0 /\ intf = {} /\ todo = {}
  /\ guids = <<>> /\ enums = <<>> /\ cur = NoCur
  /\ discdevs = Nothing /\ unrefs = Nothing /\ app = Nothing
  /\ handles = Nothing /\ leaked = Nothing /\ listings = 0

Listing ==
  \/ Begin \/ NextPass \/ Enumerator \/ Finish \/ DetailsFail
  \/ \E n \in Nodes :
       Skip(n) \/ Hub(n) \/ Device(n) \/ enumerate_hcd_root_hub(n)
               \/ Generic(n) \/ Interface(n)
  \/ InitAgain \/ init_device \/ init_root_hub

Next ==
  \/ Listing
  \/ FreeList
  \/ \E o \in Objs : Open(o) \/ Close(o)
  \/ \E n \in Nodes : Arrive(n) \/ Leave(n) \/ Reinstall(n)

Spec == Init /\ [][Next]_vars
-----------------------------------------------------------------------------
(***************************************************************************)
(* References are counted exactly: an object is alive with one reference   *)
(* for each place that will give it back (the discovered devices, the      *)
(* unref list, the step that is under way, the application's list, its     *)
(* handles, the children that have it as a parent) and for each one the    *)
(* listing is known to forget, and with no other.                          *)
(***************************************************************************)
Holders(o) ==
  discdevs[o] + unrefs[o] + app[o] + handles[o] + leaked[o]
  + (IF cur.parent = o THEN 1 ELSE 0)
  + Cardinality({c \in Objs : objs[c].parent = o})
CountIsHolders == \A o \in Objs : objs[o].refs = Holders(o)

(***************************************************************************)
(* A list that was made while nothing was plugged or pulled is the truth:  *)
(* each device of a name the library looks for is in it once, with the hub *)
(* it is plugged into, its port, its distance from the root hub and the    *)
(* driver of each of its interfaces; and so is each root hub.              *)
(***************************************************************************)
Enumerated ==
  {"USB"} \cup {Node[h].enumerator : h \in {x \in Present :
                                              Node[x].kind = "hub"}}
Shown == {n \in Present : /\ Node[n].kind \in {"hub", "device"}
                          /\ Node[n].named
                          /\ Node[n].enumerator \in Enumerated}

(* hubs above it: a root hub hangs from a controller *)
Hubs(n) == SelectSeq(Above(n), LAMBDA m : Node[m].kind = "hub")

InPlace(o) ==
  LET n == objs[o].inst
  IN  /\ objs[o].bus # 0 /\ objs[o].depth = Len(Hubs(n))
      /\ IF Hubs(n) = <<>> THEN objs[o].parent = 0 /\ objs[o].port = 0
         ELSE /\ objs[o].parent # 0
              /\ objs[objs[o].parent].inst = where[n].up
              /\ objs[o].port = where[n].port

HasDrivers(o) ==
  LET d == objs[o]
      parts == {m \in Below(d.inst) : Node[m].guid # "none"
                                      \/ Node[m].kind = "collection"}
      claimed(m) == \E c \in Below(d.inst) :
                      /\ d.ifaces[Node[m].number] = c
                      /\ Node[c].kind = Node[m].kind
                      /\ Node[c].number = Node[m].number
  IN  /\ d.api = IF Node[d.inst].kind = "hub" THEN "hub"
                 ELSE Node[d.inst].api
      /\ d.api = "composite" => \A m \in parts : claimed(m)
      /\ d.api = "winusb" => d.ifaces[0] = d.inst
      /\ d.api = "hid" => \A m \in parts :
                            \E i \in Numbers : d.ifaces[i] = m
      /\ d.winusb = (d.api = "winusb" \/
                     \E i \in Numbers : d.ifaces[i] # NoNode /\
                                        Node[d.ifaces[i]].api = "winusb")

ListIsTrue ==
  pc = "listed" /\ quiet =>
    /\ \A n \in Shown : Cardinality({o \in Objs : app[o] = 1 /\
                                       objs[o].inst = n}) = 1
    /\ \A o \in Objs : app[o] > 0 =>
         objs[o].inst \in Shown /\ InPlace(o) /\ HasDrivers(o)

(***************************************************************************)
(* Devices below different controllers are told apart by the bus.          *)
(***************************************************************************)
BusesDiffer ==
  pc = "listed" /\ quiet =>
    \A o, q \in Objs :
      app[o] > 0 /\ app[q] > 0 =>
        LET top(x) == LET up == Chain(objs[x].inst) IN up[Len(up)]
        IN  (objs[o].bus = objs[q].bus) <=> (top(o) = top(q))

(***************************************************************************)
(* The library does not hold a reference it has forgotten.                 *)
(***************************************************************************)
NothingForgotten == leaked = Nothing

(***************************************************************************)
(* No object is taken off the list twice: the second list_del goes through *)
(* the null pointers the first one left.                                   *)
(***************************************************************************)
NeverThroughNull == \A o \in Objs : objs[o] # Struck

(***************************************************************************)
(* The port numbers tell two devices of a bus apart.  They are those on    *)
(* the way from the device up to the first hub without a port.             *)
(***************************************************************************)
RECURSIVE PortNumbers(_)
PortNumbers(o) ==
  IF o = 0 THEN <<>>
  ELSE IF objs[o].port = 0 THEN <<>>
  ELSE Append(PortNumbers(objs[o].parent), objs[o].port)

PortsTell ==
  pc = "listed" /\ quiet =>
    \A o, q \in Objs :
      /\ app[o] > 0 /\ app[q] > 0 /\ o # q
      /\ Node[objs[o].inst].kind = "device"
      /\ Node[objs[q].inst].kind = "device"
      /\ objs[o].bus = objs[q].bus
      => PortNumbers(o) # PortNumbers(q)
=============================================================================
