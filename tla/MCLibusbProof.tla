---------------------------- MODULE MCLibusbProof ----------------------------
(***************************************************************************)
(* For every constant the assumptions allow: what the invariants and the   *)
(* action property of MCLibusb say, the devices and their callbacks apart. *)
(* The transfers are proved here, for every set of transfers, of the       *)
(* synchronous functions and of others, and every set of timeouts, and the *)
(* monitor, for every set of threads, whichever of them share the default  *)
(* context; the events and the claims in their own modules.  The last part *)
(* takes each from the component's own specification to that of the suite. *)
(***************************************************************************)
EXTENDS MCLibusb, FiniteSetTheorems, SequenceTheorems, WellFoundedInduction, TLAPS
-----------------------------------------------------------------------------
(***************************************************************************)
(* The monitor: libusb_init, libusb_exit and the polls (core.c,            *)
(* linux_usbfs.c, linux_netlink.c).  InsideIsServed alone says nothing of  *)
(* the steps that could break it: the induction counts who is inside.      *)
(* init_count is the number of contexts with somebody inside, and          *)
(* default_context_refcnt the number of users of the default one, so the   *)
(* last exit is the last one of a context, and who initializes a context   *)
(* is alone with it.                                                       *)
(***************************************************************************)
LEMMA Shares ==
  /\ IsFiniteSet(Users) /\ None \notin Users
  /\ \A u, v \in Users : CtxOf[u] = CtxOf[v] => u = v \/ CtxOf[u] = None
<1>1. Monitor!IsFiniteSet(Users) <=> IsFiniteSet(Users)
  BY DEF Monitor!IsFiniteSet, IsFiniteSet
<1> QED
  BY <1>1, ConstantsAreAllowed DEF Monitor!MonitorAssumption

Fields == DOMAIN Monitor!Idle
\* each thread's record has the fields of Idle
Shaped == user = [u \in Users |-> [f \in Fields |-> user[u][f]]]

\* under way in libusb_init; inside
InitPCs == {"monitor", "scan", "address", "fail"}
InPCs == {"in", "poll", "open"}
\* the contexts somebody is inside with; who initializes, or has to undo it; who
\* counts for the default context; the monitor's thread serves
Served == {CtxOf[u] : u \in Monitor!Inside}
Starting(u) == \/ user[u].pc \in InitPCs
               \/ user[u].pc = "join" /\ CtxOf[u] \in active_contexts
Holds(u) == user[u].pc \in InPCs \/ Starting(u)
Holding == {u \in Users : CtxOf[u] = None /\ Holds(u)}
Serving == monitor \in {"poll", "read"} /\ socket /\ ~control

\* the locks say what their holders are doing
LocksAreHeld ==
  \A u \in Users : /\ default_context_lock = u <=> user[u].pc \in InitPCs \cup {"join"}
                   /\ linux_hotplug_lock = u <=> user[u].pc \in {"address", "poll"}
\* init_count counts the contexts, default_context_refcnt who uses the default
\* one, which has one user while it is initialized
Counted ==
  /\ init_count = Cardinality(Served)
  /\ default_context_refcnt = Cardinality(Holding)
  /\ \A u \in Users : CtxOf[u] = None /\ Starting(u) => default_context_refcnt = 1
\* a context lives from its first user's libusb_init to its last one's exit
Alive ==
  /\ active_contexts \subseteq allocated
  /\ \A u \in Users : user[u].pc \in InPCs \cup InitPCs => CtxOf[u] \in active_contexts
  /\ \A u \in Users : user[u].pc = "free" => CtxOf[u] \in allocated \ active_contexts
  /\ \A u \in Users : user[u].pc = "join" => CtxOf[u] \in allocated
\* what the last steps of an exit free, outside the lock, is nobody else's
ExitsApart ==
  \A u, v \in Users : u # v /\ user[u].pc = "free" /\ user[v].pc \in {"free", "join"}
                        => CtxOf[u] # CtxOf[v]
\* the thread serves while a context is counted or scanned, and is told to end
\* only by who waits for it
Monitored ==
  /\ init_count # 0 => Serving
  /\ \A u \in Users : user[u].pc \in {"scan", "address"} => Serving
  /\ control => \E u \in Users : user[u].pc = "join"
  /\ \A u \in Users : user[u].pc = "join" => init_count = 0
Messages == [action : {"add", "remove"}, addr : Monitor!Addrs, port : Monitor!Ports]
\* of the messages that wait, the first "fresh" were there when the poll began
PollsFresh ==
  /\ uevents \in Seq(Messages)
  /\ \A u \in Users : /\ user[u].fresh \in Nat
                      /\ user[u].pc = "poll" => user[u].fresh <= Len(uevents)
                      /\ user[u].pc # "poll" => user[u].fresh = 0

MonitorIInv ==
  /\ Shaped /\ LocksAreHeld /\ Counted /\ Alive /\ ExitsApart /\ Monitored
  /\ PollsFresh

\* a step of one thread
Moves(u, from, to) ==
  /\ user[u].pc = from /\ user'[u].pc = to
  /\ \A v \in Users \ {u} : user'[v] = user[v]
SameFresh(u) == user'[u].fresh = user[u].fresh

LEMMA FieldsAre == Fields = {"pc", "ports", "port", "addr", "found", "fresh", "obj"}
BY DEF Fields, Monitor!Idle

LEMMA GoMoves ==
  ASSUME Shaped, NEW u \in Users, NEW a, NEW b, Monitor!Go(u, a, b)
  PROVE  Moves(u, a, b) /\ SameFresh(u) /\ Shaped'
<1>1. /\ user[u] = [f \in Fields |-> user[u][f]]
      /\ user = [v \in Users |-> user[v]]
  BY DEF Shaped
<1>2. user' = [v \in Users |-> IF v = u THEN [user[u] EXCEPT !.pc = b] ELSE user[v]]
  BY <1>1 DEF Monitor!Go
<1>3. [user[u] EXCEPT !.pc = b] = [f \in Fields |-> IF f = "pc" THEN b ELSE user[u][f]]
  BY <1>1, FieldsAre
<1>4. \A v \in Users : user'[v] = [f \in Fields |-> user'[v][f]]
  <2> TAKE v \in Users
  <2>1. CASE v = u
    BY <1>2, <1>3, <2>1
  <2>2. CASE v # u
    BY <1>2, <2>2 DEF Shaped
  <2> QED
    BY <2>1, <2>2
<1>5. Shaped'
  BY <1>2, <1>4 DEF Shaped
<1>6. Moves(u, a, b)
  BY <1>2, <1>3, FieldsAre DEF Moves, Monitor!Go
<1>7. SameFresh(u)
  BY <1>2, <1>3, FieldsAre DEF SameFresh
<1> QED
  BY <1>5, <1>6, <1>7

LEMMA Reshaped ==
  ASSUME Shaped, NEW u \in Users,
         user' = [v \in Users |-> IF v = u THEN user'[u] ELSE user[v]],
         user'[u] = [f \in Fields |-> user'[u][f]]
  PROVE  Shaped' /\ \A v \in Users \ {u} : user'[v] = user[v]
<1>1. \A v \in Users : user'[v] = [f \in Fields |-> user'[v][f]]
  <2> TAKE v \in Users
  <2>1. CASE v = u
    BY <2>1
  <2>2. CASE v # u
    BY <2>2 DEF Shaped
  <2> QED
    BY <2>1, <2>2
<1> QED
  BY <1>1 DEF Shaped

LEMMA ScanBeginMoves ==
  ASSUME Shaped, NEW u \in Users, Monitor!ScanBegin(u)
  PROVE  Moves(u, "scan", "address") /\ SameFresh(u) /\ Shaped'
<1>1. /\ user[u] = [f \in Fields |-> user[u][f]]
      /\ user = [v \in Users |-> user[v]]
  BY DEF Shaped
<1>2. user' = [v \in Users |-> IF v = u THEN user'[u] ELSE user[v]]
  BY <1>1, Zenon DEF Monitor!ScanBegin
<1>3. /\ user[u].pc = "scan" /\ user'[u].pc = "address" /\ SameFresh(u)
      /\ user'[u] = [f \in Fields |-> user'[u][f]]
  BY <1>1, FieldsAre DEF Monitor!ScanBegin, SameFresh
<1> QED
  BY <1>2, <1>3, Reshaped DEF Moves

LEMMA AddressMoves ==
  ASSUME Shaped, NEW u \in Users, Monitor!linux_get_device_address(u)
  PROVE  Moves(u, "address", "address") /\ SameFresh(u) /\ Shaped'
<1>1. /\ user[u] = [f \in Fields |-> user[u][f]]
      /\ user = [v \in Users |-> user[v]]
  BY DEF Shaped
<1>2. user' = [v \in Users |-> IF v = u THEN user'[u] ELSE user[v]]
  BY <1>1, Zenon DEF Monitor!linux_get_device_address
<1>a. PICK p \in user[u].ports :
        user' = [user EXCEPT ![u].ports = @ \ {p},
                             ![u].port = IF Monitor!At(p) = {} THEN None ELSE p,
                             ![u].addr = IF Monitor!At(p) = {} THEN None
                                         ELSE SameAddr[CHOOSE d \in Monitor!At(p) : TRUE]]
  BY Zenon DEF Monitor!linux_get_device_address
<1>3. /\ user[u].pc = "address" /\ user'[u].pc = "address" /\ SameFresh(u)
      /\ user'[u] = [f \in Fields |-> user'[u][f]]
  BY <1>1, <1>a, FieldsAre DEF Monitor!linux_get_device_address, SameFresh
<1> QED
  BY <1>2, <1>3, Reshaped DEF Moves

LEMMA EnumerateMoves ==
  ASSUME Shaped, NEW u \in Users, Monitor!linux_enumerate_device(u)
  PROVE  Moves(u, "address", "address") /\ SameFresh(u) /\ Shaped'
<1>1. /\ user[u] = [f \in Fields |-> user[u][f]]
      /\ user = [v \in Users |-> user[v]]
  BY DEF Shaped
<1>2. user' = [v \in Users |-> IF v = u THEN user'[u] ELSE user[v]]
  BY <1>1, Zenon DEF Monitor!linux_enumerate_device
<1>3. /\ user[u].pc = "address" /\ user'[u].pc = "address" /\ SameFresh(u)
      /\ user'[u] = [f \in Fields |-> user'[u][f]]
  BY <1>1, FieldsAre DEF Monitor!linux_enumerate_device, SameFresh
<1> QED
  BY <1>2, <1>3, Reshaped DEF Moves

LEMMA PollBeginMoves ==
  ASSUME Shaped, NEW u \in Users, Monitor!PollBegin(u)
  PROVE  Moves(u, "in", "poll") /\ user'[u].fresh = Len(uevents) /\ Shaped'
<1>1. /\ user[u] = [f \in Fields |-> user[u][f]]
      /\ user = [v \in Users |-> user[v]]
  BY DEF Shaped
<1>2. user' = [v \in Users |-> IF v = u THEN user'[u] ELSE user[v]]
  BY <1>1, Zenon DEF Monitor!PollBegin
<1>3. /\ user[u].pc = "in" /\ user'[u].pc = "poll" /\ user'[u].fresh = Len(uevents)
      /\ user'[u] = [f \in Fields |-> user'[u][f]]
  BY <1>1, FieldsAre DEF Monitor!PollBegin, SameFresh
<1> QED
  BY <1>2, <1>3, Reshaped DEF Moves

LEMMA OpenFailsMoves ==
  ASSUME Shaped, NEW u \in Users, Monitor!OpenFails(u)
  PROVE  Moves(u, "in", "open") /\ SameFresh(u) /\ Shaped'
<1>1. /\ user[u] = [f \in Fields |-> user[u][f]]
      /\ user = [v \in Users |-> user[v]]
  BY DEF Shaped
<1>2. user' = [v \in Users |-> IF v = u THEN user'[u] ELSE user[v]]
  BY <1>1, Zenon DEF Monitor!OpenFails
<1>3. /\ user[u].pc = "in" /\ user'[u].pc = "open" /\ SameFresh(u)
      /\ user'[u] = [f \in Fields |-> user'[u][f]]
  BY <1>1, FieldsAre DEF Monitor!OpenFails, SameFresh
<1> QED
  BY <1>2, <1>3, Reshaped DEF Moves

LEMMA OpenDisconnectsMoves ==
  ASSUME Shaped, NEW u \in Users, Monitor!OpenDisconnects(u)
  PROVE  Moves(u, "open", "in") /\ SameFresh(u) /\ Shaped'
<1>1. /\ user[u] = [f \in Fields |-> user[u][f]]
      /\ user = [v \in Users |-> user[v]]
  BY DEF Shaped
<1>2. user' = [v \in Users |-> IF v = u THEN user'[u] ELSE user[v]]
  BY <1>1, Zenon DEF Monitor!OpenDisconnects
<1>3. /\ user[u].pc = "open" /\ user'[u].pc = "in" /\ SameFresh(u)
      /\ user'[u] = [f \in Fields |-> user'[u][f]]
  BY <1>1, FieldsAre DEF Monitor!OpenDisconnects, SameFresh
<1> QED
  BY <1>2, <1>3, Reshaped DEF Moves

LEMMA PollReadMoves ==
  ASSUME Shaped, NEW u \in Users, Monitor!PollRead(u), Head(uevents).action # "bind"
  PROVE  /\ Moves(u, "poll", "poll") /\ Shaped'
         /\ user'[u].fresh = (IF user[u].fresh = 0 THEN 0 ELSE user[u].fresh - 1)
<1>1. /\ user[u] = [f \in Fields |-> user[u][f]]
      /\ user = [v \in Users |-> user[v]]
  BY DEF Shaped
<1>2. user' = [v \in Users |-> IF v = u THEN user'[u] ELSE user[v]]
  BY <1>1, Zenon DEF Monitor!PollRead
<1>3. /\ user[u].pc = "poll" /\ user'[u].pc = "poll"
      /\ user'[u].fresh = (IF user[u].fresh = 0 THEN 0 ELSE user[u].fresh - 1)
      /\ user'[u] = [f \in Fields |-> user'[u][f]]
  BY <1>1, FieldsAre DEF Monitor!PollRead, SameFresh
<1> QED
  BY <1>2, <1>3, Reshaped DEF Moves

-----------------------------------------------------------------------------
LEMMA FiniteUse ==
  ASSUME TRUE
  PROVE  /\ IsFiniteSet(Served) /\ IsFiniteSet(Holding)
         /\ Cardinality(Served) \in Nat /\ Cardinality(Holding) \in Nat
<1>1. IsFiniteSet(Monitor!Inside)
  BY Shares, FS_Subset DEF Monitor!Inside
<1>2. IsFiniteSet(Served)
  <2> DEFINE f == [u \in Monitor!Inside |-> CtxOf[u]]
  <2>1. f \in Surjection(Monitor!Inside, Served)
    BY DEF Surjection, Served
  <2> HIDE DEF f
  <2> QED
    BY <1>1, <2>1, FS_Surjection
<1>3. IsFiniteSet(Holding)
  BY Shares, FS_Subset DEF Holding
<1> QED
  BY <1>2, <1>3, FS_CardinalityType

LEMMA Pending ==
  ASSUME MonitorIInv
  PROVE  /\ Len(uevents) \in Nat
         /\ uevents # << >> => /\ Len(uevents) # 0 /\ Head(uevents).action # "bind"
                               /\ Len(Tail(uevents)) = Len(uevents) - 1
                               /\ Tail(uevents) \in Seq(Messages)
<1> DEFINE M == Messages
<1>1. uevents \in Seq(M)
  BY DEF MonitorIInv, PollsFresh
<1>2. \A m \in M : m.action # "bind"
  BY DEF Messages
<1> HIDE DEF M
<1>3. Len(uevents) \in Nat
  BY <1>1, LenProperties
<1>4. ASSUME uevents # << >>
      PROVE  /\ Len(uevents) # 0 /\ Head(uevents) \in M
             /\ Len(Tail(uevents)) = Len(uevents) - 1 /\ Tail(uevents) \in Seq(M)
  BY <1>1, <1>4, EmptySeq, HeadTailProperties
<1> QED
  BY <1>2, <1>3, <1>4 DEF M

\* default_context_lock is taken from the start of libusb_init to its end
LEMMA Exclusive ==
  ASSUME MonitorIInv, NEW u \in Users \cup {None}, default_context_lock = u
  PROVE  \A v \in Users : v # u => /\ user[v].pc \notin InitPCs \cup {"join"}
                                     /\ ~Starting(v)
BY DEF MonitorIInv, LocksAreHeld, Starting

\* only the default context has several users, and each is counted
LEMMA Shared ==
  ASSUME MonitorIInv, NEW u \in Users, NEW v \in Users, u # v, CtxOf[u] = CtxOf[v],
         Holds(u), Holds(v)
  PROVE  CtxOf[u] = None /\ default_context_refcnt > 1
<1>1. CtxOf[u] = None /\ {u, v} \subseteq Holding
  BY Shares DEF Holding
<1>2. Cardinality({u, v}) = 2
  <2>1. IsFiniteSet({v}) /\ Cardinality({v}) = 1
    BY FS_Singleton
  <2>2. {u, v} = {v} \cup {u}
    OBVIOUS
  <2> QED
    BY <2>1, <2>2, FS_AddElement
<1>3. Cardinality({u, v}) <= Cardinality(Holding)
  BY <1>1, FiniteUse, FS_Subset
<1> QED
  BY <1>1, <1>2, <1>3, FiniteUse DEF MonitorIInv, Counted

LEMMA NobodyInside == ASSUME MonitorIInv, init_count = 0 PROVE Monitor!Inside = {}
<1>1. Served = {}
  BY FiniteUse, FS_EmptySet DEF MonitorIInv, Counted
<1> QED
  BY <1>1 DEF Served

LEMMA ServedSame ==
  ASSUME \A v \in Users : user'[v].pc \in InPCs <=> user[v].pc \in InPCs
  PROVE  Served' = Served
<1>1. Monitor!Inside' = Monitor!Inside
  BY DEF Monitor!Inside, InPCs
<1> QED
  BY <1>1 DEF Served

LEMMA HoldingSame ==
  ASSUME \A v \in Users : CtxOf[v] = None => (Holds(v)' <=> Holds(v))
  PROVE  Holding' = Holding
BY DEF Holding

\* a step of libusb_init, or of a thread that is inside
LEMMA Neutral ==
  ASSUME MonitorIInv, NEW u \in Users, NEW a, NEW b, Moves(u, a, b),
         {a, b} \subseteq InPCs \/ {a, b} \subseteq InitPCs,
         UNCHANGED <<allocated, active_contexts, default_context_refcnt, init_count>>
  PROVE  Counted' /\ Alive' /\ ExitsApart'
<1>1. /\ \A v \in Users : v # u => user'[v] = user[v]
      /\ user[u].pc = a /\ user'[u].pc = b
  BY DEF Moves
<1>2. \A v \in Users : (user'[v].pc \in InPCs <=> user[v].pc \in InPCs)
                      /\ (user'[v].pc \in InitPCs <=> user[v].pc \in InitPCs)
  BY <1>1 DEF InPCs, InitPCs
<1>3. \A v \in Users : (user'[v].pc = "free" <=> user[v].pc = "free")
                      /\ (user'[v].pc = "join" <=> user[v].pc = "join")
  BY <1>1 DEF InPCs, InitPCs
<1>4. Served' = Served
  BY <1>2, ServedSame
<1>5. \A v \in Users : (Holds(v)' <=> Holds(v)) /\ (Starting(v)' <=> Starting(v))
  BY <1>2, <1>3 DEF Holds, Starting
<1>6. Counted'
  BY <1>4, <1>5, HoldingSame DEF MonitorIInv, Counted
<1>7. Alive'
  BY <1>2, <1>3 DEF MonitorIInv, Alive
<1>8. ExitsApart'
  BY <1>3 DEF MonitorIInv, ExitsApart
<1> QED
  BY <1>6, <1>7, <1>8

-----------------------------------------------------------------------------
LEMMA IdleStep ==
  ASSUME MonitorIInv, UNCHANGED <<Monitor!locks, Monitor!contexts, user>>,
         Monitored', PollsFresh'
  PROVE  MonitorIInv'
<1>1. Served' = Served /\ Holding' = Holding
  BY DEF Served, Monitor!Inside, Holding, Holds, Starting, Monitor!contexts
<1> QED
  BY <1>1
  DEF MonitorIInv, Shaped, LocksAreHeld, Counted, Starting, Alive, ExitsApart,
      Monitor!locks, Monitor!contexts

LEMMA NoOther == ASSUME NEW d PROVE Monitor!Other(d) = << >>
BY DEF Monitor!Other

LEMMA PlugStep ==
  ASSUME MonitorIInv, NEW d \in Plugs, Monitor!Plug(d) \/ Monitor!Unplug(d)
  PROVE  MonitorIInv'
<1>1. \/ uevents' = uevents
      \/ \E e \in {"add", "remove"} : uevents' = Append(uevents, Monitor!Uevent(e, d))
  <2>1. CASE Monitor!Plug(d)
    <3>1. uevents \o <<Monitor!Uevent("add", d)>> \o << >> = Append(uevents, Monitor!Uevent("add", d))
      BY DEF MonitorIInv, PollsFresh
    <3> QED
      BY <2>1, <3>1, NoOther DEF Monitor!Plug
  <2>2. CASE Monitor!Unplug(d)
    <3>1. uevents \o << >> \o <<Monitor!Uevent("remove", d)>> = Append(uevents, Monitor!Uevent("remove", d))
      BY DEF MonitorIInv, PollsFresh
    <3> QED
      BY <2>2, <3>1, NoOther DEF Monitor!Unplug
  <2> QED
    BY <2>1, <2>2
<1>2. UNCHANGED <<socket, control, monitor, Monitor!locks, Monitor!contexts, user>>
  BY DEF Monitor!Plug, Monitor!Unplug
<1>3. /\ uevents' \in Seq(Messages)
      /\ Len(uevents') >= Len(uevents)
  <2>1. CASE uevents' = uevents
    BY <2>1, LenProperties DEF MonitorIInv, PollsFresh
  <2>2. ASSUME NEW e \in {"add", "remove"}, uevents' = Append(uevents, Monitor!Uevent(e, d))
        PROVE  <1>3!:
    <3>1. Monitor!Uevent(e, d) \in Messages
      BY DEF Messages, Monitor!Uevent, Monitor!Addrs, Monitor!Ports
    <3> QED
      BY <2>2, <3>1, AppendProperties, LenProperties DEF MonitorIInv, PollsFresh
  <2> QED
    BY <1>1, <2>1, <2>2
<1>4. PollsFresh'
  BY <1>2, <1>3 DEF MonitorIInv, PollsFresh
<1>5. Monitored'
  BY <1>2 DEF MonitorIInv, Monitored, Serving, Monitor!contexts
<1> QED
  BY <1>2, <1>4, <1>5, IdleStep

LEMMA MonitorStep ==
  ASSUME MonitorIInv, Monitor!MonitorPoll \/ Monitor!MonitorRead
  PROVE  MonitorIInv'
<1>1. /\ UNCHANGED <<socket, control, Monitor!locks, Monitor!contexts, user>>
      /\ (monitor = "poll" /\ control) \/ monitor' \in {"poll", "read"}
  BY DEF Monitor!MonitorPoll, Monitor!MonitorRead
<1>2. Monitored'
  BY <1>1 DEF MonitorIInv, Monitored, Serving, Monitor!contexts
<1>3. PollsFresh'
  <2>1. CASE uevents' = uevents
    BY <1>1, <2>1 DEF MonitorIInv, PollsFresh
  <2>2. CASE uevents' = Tail(uevents) /\ uevents # << >> /\ linux_hotplug_lock = None
    <3>1. \A u \in Users : user[u].pc # "poll"
      BY <2>2, Shares DEF MonitorIInv, LocksAreHeld
    <3> QED
      BY <1>1, <2>2, <3>1 DEF MonitorIInv, PollsFresh
  <2> QED
    BY <2>1, <2>2
    DEF Monitor!MonitorPoll, Monitor!MonitorRead, Monitor!linux_netlink_read_message
<1> QED
  BY <1>1, <1>2, <1>3, IdleStep

-----------------------------------------------------------------------------

LEMMA ScanBeginStep ==
  ASSUME MonitorIInv, NEW u \in Users, Monitor!ScanBegin(u)
  PROVE  MonitorIInv'
<1>1. Moves(u, "scan", "address") /\ SameFresh(u) /\ Shaped'
  BY ScanBeginMoves DEF MonitorIInv
<1>2. Counted' /\ Alive' /\ ExitsApart'
  BY <1>1, Neutral DEF Monitor!ScanBegin, InPCs, InitPCs, Monitor!contexts
<1>3. LocksAreHeld'
  BY <1>1, Shares
  DEF MonitorIInv, LocksAreHeld, Moves, InitPCs, Monitor!ScanBegin, Monitor!locks
<1>4. Monitored'
  BY <1>1
  DEF MonitorIInv, Monitored, Serving, Moves, Monitor!ScanBegin, Monitor!netlink,
      Monitor!contexts
<1>5. PollsFresh'
  BY <1>1
  DEF MonitorIInv, PollsFresh, Moves, SameFresh, Monitor!ScanBegin, Monitor!netlink
<1> QED
  BY <1>1, <1>2, <1>3, <1>4, <1>5 DEF MonitorIInv

LEMMA AddressStep ==
  ASSUME MonitorIInv, NEW u \in Users, Monitor!linux_get_device_address(u)
  PROVE  MonitorIInv'
<1>1. Moves(u, "address", "address") /\ SameFresh(u) /\ Shaped'
  BY AddressMoves DEF MonitorIInv
<1>2. Counted' /\ Alive' /\ ExitsApart'
  BY <1>1, Neutral
  DEF Monitor!linux_get_device_address, InPCs, InitPCs, Monitor!contexts
<1>3. LocksAreHeld'
  BY <1>1, Shares
  DEF MonitorIInv, LocksAreHeld, Moves, InitPCs, Monitor!linux_get_device_address,
      Monitor!locks
<1>4. Monitored'
  BY <1>1
  DEF MonitorIInv, Monitored, Serving, Moves, Monitor!linux_get_device_address,
      Monitor!netlink, Monitor!contexts
<1>5. PollsFresh'
  BY <1>1
  DEF MonitorIInv, PollsFresh, Moves, SameFresh, Monitor!linux_get_device_address,
      Monitor!netlink
<1> QED
  BY <1>1, <1>2, <1>3, <1>4, <1>5 DEF MonitorIInv

LEMMA EnumerateStep ==
  ASSUME MonitorIInv, NEW u \in Users, Monitor!linux_enumerate_device(u)
  PROVE  MonitorIInv'
<1>1. Moves(u, "address", "address") /\ SameFresh(u) /\ Shaped'
  BY EnumerateMoves DEF MonitorIInv
<1>2. Counted' /\ Alive' /\ ExitsApart'
  BY <1>1, Neutral DEF Monitor!linux_enumerate_device, InPCs, InitPCs, Monitor!contexts
<1>3. LocksAreHeld'
  BY <1>1, Shares
  DEF MonitorIInv, LocksAreHeld, Moves, InitPCs, Monitor!linux_enumerate_device,
      Monitor!locks
<1>4. Monitored'
  BY <1>1
  DEF MonitorIInv, Monitored, Serving, Moves, Monitor!linux_enumerate_device,
      Monitor!netlink, Monitor!contexts
<1>5. PollsFresh'
  BY <1>1
  DEF MonitorIInv, PollsFresh, Moves, SameFresh, Monitor!linux_enumerate_device,
      Monitor!netlink
<1> QED
  BY <1>1, <1>2, <1>3, <1>4, <1>5 DEF MonitorIInv

LEMMA PollBeginStep ==
  ASSUME MonitorIInv, NEW u \in Users, Monitor!PollBegin(u)
  PROVE  MonitorIInv'
<1>1. Moves(u, "in", "poll") /\ user'[u].fresh = Len(uevents) /\ Shaped'
  BY PollBeginMoves DEF MonitorIInv
<1>2. Counted' /\ Alive' /\ ExitsApart'
  BY <1>1, Neutral DEF Monitor!PollBegin, InPCs, InitPCs, Monitor!contexts
<1>3. LocksAreHeld'
  BY <1>1, Shares
  DEF MonitorIInv, LocksAreHeld, Moves, InitPCs, Monitor!PollBegin, Monitor!locks
<1>4. Monitored'
  BY <1>1
  DEF MonitorIInv, Monitored, Serving, Moves, Monitor!PollBegin, Monitor!netlink,
      Monitor!contexts
<1>5. PollsFresh'
  <2>1. uevents' = uevents
    BY DEF Monitor!PollBegin, Monitor!netlink
  <2>2. user'[u].fresh \in Nat /\ user'[u].fresh <= Len(uevents')
    BY <1>1, <2>1, Pending
  <2> QED
    BY <1>1, <2>1, <2>2 DEF MonitorIInv, PollsFresh, Moves
<1> QED
  BY <1>1, <1>2, <1>3, <1>4, <1>5 DEF MonitorIInv

LEMMA OpenFailsStep ==
  ASSUME MonitorIInv, NEW u \in Users, Monitor!OpenFails(u)
  PROVE  MonitorIInv'
<1>1. Moves(u, "in", "open") /\ SameFresh(u) /\ Shaped'
  BY OpenFailsMoves DEF MonitorIInv
<1>2. Counted' /\ Alive' /\ ExitsApart'
  BY <1>1, Neutral DEF Monitor!OpenFails, InPCs, InitPCs, Monitor!contexts
<1>3. LocksAreHeld'
  BY <1>1, Shares
  DEF MonitorIInv, LocksAreHeld, Moves, InitPCs, Monitor!OpenFails, Monitor!locks
<1>4. Monitored'
  BY <1>1
  DEF MonitorIInv, Monitored, Serving, Moves, Monitor!OpenFails, Monitor!netlink,
      Monitor!contexts
<1>5. PollsFresh'
  BY <1>1
  DEF MonitorIInv, PollsFresh, Moves, SameFresh, Monitor!OpenFails, Monitor!netlink
<1> QED
  BY <1>1, <1>2, <1>3, <1>4, <1>5 DEF MonitorIInv

LEMMA OpenDisconnectsStep ==
  ASSUME MonitorIInv, NEW u \in Users, Monitor!OpenDisconnects(u)
  PROVE  MonitorIInv'
<1>1. Moves(u, "open", "in") /\ SameFresh(u) /\ Shaped'
  BY OpenDisconnectsMoves DEF MonitorIInv
<1>2. Counted' /\ Alive' /\ ExitsApart'
  BY <1>1, Neutral DEF Monitor!OpenDisconnects, InPCs, InitPCs, Monitor!contexts
<1>3. LocksAreHeld'
  BY <1>1, Shares
  DEF MonitorIInv, LocksAreHeld, Moves, InitPCs, Monitor!OpenDisconnects,
      Monitor!locks
<1>4. Monitored'
  BY <1>1
  DEF MonitorIInv, Monitored, Serving, Moves, Monitor!OpenDisconnects,
      Monitor!netlink, Monitor!contexts
<1>5. PollsFresh'
  BY <1>1
  DEF MonitorIInv, PollsFresh, Moves, SameFresh, Monitor!OpenDisconnects,
      Monitor!netlink
<1> QED
  BY <1>1, <1>2, <1>3, <1>4, <1>5 DEF MonitorIInv

LEMMA PollReadStep ==
  ASSUME MonitorIInv, NEW u \in Users, Monitor!PollRead(u)
  PROVE  MonitorIInv'
<1>0. Head(uevents).action # "bind" /\ Len(uevents) \in Nat \ {0}
  BY Pending DEF Monitor!PollRead
<1>1. /\ Moves(u, "poll", "poll") /\ Shaped'
      /\ user'[u].fresh = (IF user[u].fresh = 0 THEN 0 ELSE user[u].fresh - 1)
  BY <1>0, PollReadMoves DEF MonitorIInv
<1>2. Counted' /\ Alive' /\ ExitsApart'
  BY <1>1, Neutral DEF Monitor!PollRead, InPCs, Monitor!contexts
<1>3. LocksAreHeld'
  BY <1>0, <1>1, Shares
  DEF MonitorIInv, LocksAreHeld, Moves, InitPCs, Monitor!PollRead
<1>4. Monitored'
  BY <1>1
  DEF MonitorIInv, Monitored, Serving, Moves, Monitor!PollRead, Monitor!contexts
<1>5. PollsFresh'
  <2>1. /\ uevents' \in Seq(Messages)
        /\ Len(uevents') = Len(uevents) - 1
    BY Pending DEF Monitor!PollRead, Monitor!linux_netlink_read_message
  <2>2. \A v \in Users : v # u => user[v].pc # "poll" /\ user'[v] = user[v]
    BY <1>1, Shares DEF MonitorIInv, LocksAreHeld, Moves
  <2> QED
    BY <1>0, <1>1, <2>1, <2>2 DEF MonitorIInv, PollsFresh, Moves
<1> QED
  BY <1>1, <1>2, <1>3, <1>4, <1>5 DEF MonitorIInv

LEMMA PollEndStep ==
  ASSUME MonitorIInv, NEW u \in Users, Monitor!PollEnd(u)
  PROVE  MonitorIInv'
<1>1. Moves(u, "poll", "in") /\ SameFresh(u) /\ Shaped'
  BY GoMoves DEF MonitorIInv, Monitor!PollEnd
<1>2. Counted' /\ Alive' /\ ExitsApart'
  BY <1>1, Neutral DEF Monitor!PollEnd, InPCs, Monitor!contexts
<1>3. LocksAreHeld'
  BY <1>1, Shares
  DEF MonitorIInv, LocksAreHeld, Moves, InitPCs, Monitor!PollEnd, Monitor!locks
<1>4. Monitored'
  BY <1>1
  DEF MonitorIInv, Monitored, Serving, Moves, Monitor!PollEnd, Monitor!netlink,
      Monitor!contexts
<1>5. PollsFresh'
  <2>1. user[u].fresh = 0
    BY EmptySeq DEF MonitorIInv, PollsFresh, Monitor!PollEnd, Monitor!Go
  <2> QED
    BY <1>1, <2>1
    DEF MonitorIInv, PollsFresh, Moves, SameFresh, Monitor!PollEnd, Monitor!netlink
<1> QED
  BY <1>1, <1>2, <1>3, <1>4, <1>5 DEF MonitorIInv

LEMMA StartStep ==
  ASSUME MonitorIInv, NEW u \in Users, Monitor!linux_netlink_start_event_monitor(u)
  PROVE  MonitorIInv'
<1>0. PICK to \in {"scan", "fail"} : /\ Monitor!Go(u, "monitor", to)
                                    /\ (to = "scan" => socket' = TRUE /\ monitor' = "poll")
                                    /\ (to = "fail" => socket' = socket /\ monitor' = monitor)
  BY DEF Monitor!linux_netlink_start_event_monitor
<1>1. Moves(u, "monitor", to) /\ SameFresh(u) /\ Shaped'
  BY <1>0, GoMoves DEF MonitorIInv
<1>2. Counted' /\ Alive' /\ ExitsApart'
  BY <1>1, Neutral
  DEF Monitor!linux_netlink_start_event_monitor, InitPCs, Monitor!contexts
<1>3. LocksAreHeld'
  BY <1>1, Shares
  DEF MonitorIInv, LocksAreHeld, Moves, InitPCs,
      Monitor!linux_netlink_start_event_monitor, Monitor!locks
<1>4. Monitored'
  <2>1. default_context_lock = u
    BY <1>1, Shares DEF MonitorIInv, LocksAreHeld, Moves, InitPCs
  <2>2. ~control /\ \A v \in Users : user[v].pc # "join"
    BY <2>1, <1>1, Exclusive DEF MonitorIInv, Monitored, Moves
  <2>3. \A v \in Users : v # u => user'[v].pc \notin {"scan", "address", "join"}
    BY <2>1, <1>1, Exclusive DEF Moves, InitPCs
  <2>4. control' = control /\ init_count' = init_count
    BY DEF Monitor!linux_netlink_start_event_monitor, Monitor!contexts
  <2>5. CASE to = "scan"
    BY <1>0, <1>1, <2>2, <2>3, <2>4, <2>5 DEF Monitored, Serving, Moves
  <2>6. CASE to = "fail"
    BY <1>0, <1>1, <2>2, <2>3, <2>4, <2>6 DEF MonitorIInv, Monitored, Serving, Moves
  <2> QED
    BY <2>5, <2>6
<1>5. PollsFresh'
  BY <1>1
  DEF MonitorIInv, PollsFresh, Moves, SameFresh,
      Monitor!linux_netlink_start_event_monitor
<1> QED
  BY <1>1, <1>2, <1>3, <1>4, <1>5 DEF MonitorIInv

LEMMA ShareStep ==
  ASSUME MonitorIInv, NEW u \in Users, Monitor!Share(u)
  PROVE  MonitorIInv'
<1>1. Moves(u, "out", "in") /\ SameFresh(u) /\ Shaped'
  BY GoMoves DEF MonitorIInv, Monitor!Share
<1>2. /\ default_context_lock = None /\ CtxOf[u] = None /\ default_context_refcnt > 0
      /\ default_context_refcnt' = default_context_refcnt + 1
      /\ UNCHANGED <<allocated, active_contexts, init_count, default_context_lock,
                     linux_hotplug_lock, uevents, socket, control, monitor>>
  BY DEF Monitor!Share, Monitor!netlink, Monitor!locks
<1>3. \A v \in Users : user[v].pc \notin InitPCs \cup {"join"} /\ ~Starting(v)
  BY <1>2, Exclusive, Shares
<1>4. PICK w \in Users : CtxOf[w] = None /\ user[w].pc \in InPCs
  <2>1. Holding # {}
    BY <1>2, FS_EmptySet DEF MonitorIInv, Counted
  <2> QED
    BY <1>3, <2>1 DEF Holding, Holds
<1>5. Served' = Served
  <2>1. Monitor!Inside' = Monitor!Inside \cup {u}
    BY <1>1 DEF Monitor!Inside, Moves
  <2>2. None \in Served
    BY <1>4 DEF Served, Monitor!Inside, InPCs
  <2> QED
    BY <1>2, <2>1, <2>2 DEF Served
<1>6. Holding' = Holding \cup {u} /\ u \notin Holding
  BY <1>1, <1>2 DEF Holding, Holds, Starting, InPCs, InitPCs, Moves
<1>7. Counted'
  <2>1. Cardinality(Holding') = Cardinality(Holding) + 1
    BY <1>6, FiniteUse, FS_AddElement
  <2>2. \A v \in Users : ~Starting(v)'
    BY <1>1, <1>2, <1>3 DEF Starting, Moves, InitPCs
  <2> QED
    BY <1>2, <1>5, <2>1, <2>2 DEF MonitorIInv, Counted
<1>8. Alive' /\ ExitsApart'
  BY <1>1, <1>2, <1>4 DEF MonitorIInv, Alive, ExitsApart, Moves, InPCs, InitPCs
<1>9. LocksAreHeld'
  BY <1>1, <1>2, Shares DEF MonitorIInv, LocksAreHeld, Moves, InitPCs
<1>10. Monitored'
  BY <1>1, <1>2 DEF MonitorIInv, Monitored, Serving, Moves
<1>11. PollsFresh'
  BY <1>1, <1>2 DEF MonitorIInv, PollsFresh, Moves, SameFresh
<1> QED
  BY <1>1, <1>7, <1>8, <1>9, <1>10, <1>11 DEF MonitorIInv

LEMMA UnshareStep ==
  ASSUME MonitorIInv, NEW u \in Users, Monitor!Unshare(u)
  PROVE  MonitorIInv'
<1>1. Moves(u, "in", "over") /\ SameFresh(u) /\ Shaped'
  BY GoMoves DEF MonitorIInv, Monitor!Unshare
<1>2. /\ default_context_lock = None /\ CtxOf[u] = None /\ default_context_refcnt > 1
      /\ default_context_refcnt' = default_context_refcnt - 1
      /\ UNCHANGED <<allocated, active_contexts, init_count, default_context_lock,
                     linux_hotplug_lock, uevents, socket, control, monitor>>
  BY DEF Monitor!Unshare, Monitor!netlink, Monitor!locks
<1>3. \A v \in Users : user[v].pc \notin InitPCs \cup {"join"} /\ ~Starting(v)
  BY <1>2, Exclusive, Shares
<1>4. u \in Holding /\ Holding' = Holding \ {u}
  BY <1>1, <1>2 DEF Holding, Holds, Starting, InPCs, InitPCs, Moves
<1>5. Cardinality(Holding') = Cardinality(Holding) - 1
  BY <1>4, FiniteUse, FS_RemoveElement
<1>6. PICK w \in Users : w # u /\ CtxOf[w] = None /\ user[w].pc \in InPCs
  <2>1. Holding \ {u} # {}
    BY <1>2, <1>4, <1>5, FiniteUse, FS_EmptySet DEF MonitorIInv, Counted
  <2> QED
    BY <1>3, <2>1 DEF Holding, Holds
<1>7. Served' = Served
  <2>1. Monitor!Inside' = Monitor!Inside \ {u}
    BY <1>1 DEF Monitor!Inside, Moves
  <2>2. w \in Monitor!Inside' /\ CtxOf[w] = CtxOf[u]
    BY <1>2, <1>6, <2>1 DEF Monitor!Inside, InPCs
  <2> QED
    BY <2>1, <2>2 DEF Served
<1>8. Counted'
  <2>1. \A v \in Users : ~Starting(v)'
    BY <1>1, <1>2, <1>3 DEF Starting, Moves, InitPCs
  <2> QED
    BY <1>2, <1>5, <1>7, <2>1 DEF MonitorIInv, Counted
<1>9. Alive' /\ ExitsApart'
  BY <1>1, <1>2 DEF MonitorIInv, Alive, ExitsApart, Moves, InPCs, InitPCs
<1>10. LocksAreHeld'
  BY <1>1, <1>2, Shares DEF MonitorIInv, LocksAreHeld, Moves, InitPCs
<1>11. Monitored'
  BY <1>1, <1>2 DEF MonitorIInv, Monitored, Serving, Moves
<1>12. PollsFresh'
  BY <1>1, <1>2 DEF MonitorIInv, PollsFresh, Moves, SameFresh
<1> QED
  BY <1>1, <1>8, <1>9, <1>10, <1>11, <1>12 DEF MonitorIInv

LEMMA InitStep ==
  ASSUME MonitorIInv, NEW u \in Users, Monitor!libusb_init(u)
  PROVE  MonitorIInv'
<1> DEFINE to == IF init_count = 0 THEN "monitor" ELSE "scan"
<1>1. Moves(u, "out", to) /\ SameFresh(u) /\ Shaped'
  BY GoMoves DEF MonitorIInv, Monitor!libusb_init
<1>2. /\ default_context_lock = None /\ default_context_lock' = u
      /\ CtxOf[u] = None => default_context_refcnt = 0 /\ None \notin allocated
      /\ allocated' = allocated \cup {CtxOf[u]}
      /\ active_contexts' = active_contexts \cup {CtxOf[u]}
      /\ default_context_refcnt' = IF CtxOf[u] = None THEN 1 ELSE default_context_refcnt
      /\ UNCHANGED <<init_count, linux_hotplug_lock, uevents, socket, control, monitor>>
  BY DEF Monitor!libusb_init, Monitor!netlink
<1>3. \A v \in Users : user[v].pc \notin InitPCs \cup {"join"} /\ ~Starting(v)
  BY <1>2, Exclusive, Shares
<1>4. \A v \in Users : v # u => user'[v].pc \notin InitPCs \cup {"join"} /\ ~Starting(v)'
  BY <1>1, <1>3 DEF Moves, Starting
<1>5. Served' = Served
  BY <1>1, ServedSame DEF Moves, InPCs
<1>6. \A v \in Users : v # u => (Holds(v)' <=> Holds(v))
  BY <1>1, <1>3, <1>4 DEF Holds, Moves
<1>7. Holds(u)' /\ ~Holds(u)
  BY <1>1 DEF Moves, Holds, Starting, InitPCs, InPCs
<1>8. default_context_refcnt' = Cardinality(Holding')
  <2>1. CASE CtxOf[u] = None
    <3>1. Holding = {}
      BY <1>2, <2>1, FiniteUse, FS_EmptySet DEF MonitorIInv, Counted
    <3>2. Holding' = {u}
      BY <1>6, <1>7, <2>1, <3>1 DEF Holding
    <3> QED
      BY <1>2, <2>1, <3>2, FS_Singleton
  <2>2. CASE CtxOf[u] # None
    <3>1. Holding' = Holding
      BY <1>6, <2>2, HoldingSame
    <3> QED
      BY <1>2, <2>2, <3>1 DEF MonitorIInv, Counted
  <2> QED
    BY <2>1, <2>2
<1>9. Counted'
  <2>1. \A v \in Users : CtxOf[v] = None /\ Starting(v)' => default_context_refcnt' = 1
    BY <1>2, <1>4
  <2> QED
    BY <1>2, <1>5, <1>8, <2>1 DEF MonitorIInv, Counted
<1>10. Alive'
  <2>1. \A v \in Users : v # u /\ user[v].pc = "free" => CtxOf[v] # CtxOf[u]
    BY <1>2, Shares DEF MonitorIInv, Alive
  <2> QED
    BY <1>1, <1>2, <2>1 DEF MonitorIInv, Alive, Moves, InPCs, InitPCs
<1>11. ExitsApart'
  BY <1>1, <1>2 DEF MonitorIInv, ExitsApart, Moves
<1>12. LocksAreHeld'
  BY <1>1, <1>2, <1>3, <1>4, Shares DEF MonitorIInv, LocksAreHeld, Moves, InitPCs
<1>13. Monitored'
  BY <1>1, <1>2 DEF MonitorIInv, Monitored, Serving, Moves
<1>14. PollsFresh'
  BY <1>1, <1>2 DEF MonitorIInv, PollsFresh, Moves, SameFresh
<1> QED
  BY <1>1, <1>9, <1>10, <1>11, <1>12, <1>13, <1>14 DEF MonitorIInv

LEMMA ScanEndStep ==
  ASSUME MonitorIInv, NEW u \in Users, Monitor!ScanEnd(u)
  PROVE  MonitorIInv'
<1>1. /\ user[u].pc = "address" /\ linux_hotplug_lock' = None
      /\ UNCHANGED <<allocated, active_contexts, default_context_refcnt, uevents,
                     socket, monitor>>
  BY DEF Monitor!ScanEnd, Monitor!Go
<1>2. /\ linux_hotplug_lock = u /\ default_context_lock = u /\ Starting(u) /\ Holds(u)
      /\ Serving /\ init_count \in Nat
  BY <1>1, FiniteUse, Shares
  DEF MonitorIInv, LocksAreHeld, Monitored, Counted, Starting, Holds, InitPCs
<1>3. \A v \in Users : v # u => user[v].pc \notin InitPCs \cup {"join"} /\ ~Starting(v)
  BY <1>2, Exclusive
<1>4. CASE user[u].found = 1
  <2>1. Moves(u, "address", "in") /\ SameFresh(u) /\ Shaped'
    BY <1>4, GoMoves DEF MonitorIInv, Monitor!ScanEnd
  <2>2. init_count' = init_count + 1 /\ default_context_lock' = None /\ control' = control
    BY <1>4 DEF Monitor!ScanEnd
  <2>3. \A v \in Users : (Holds(v)' <=> Holds(v)) /\ ~Starting(v)'
    BY <1>1, <1>3, <2>1 DEF Moves, Holds, Starting, InitPCs, InPCs
  <2>4. CtxOf[u] \notin Served
    <3> SUFFICES ASSUME NEW v \in Monitor!Inside, CtxOf[v] = CtxOf[u]
                 PROVE  FALSE
      BY DEF Served
    <3>1. v \in Users /\ v # u /\ Holds(v)
      BY <1>1 DEF Monitor!Inside, Holds, InPCs
    <3>2. CtxOf[u] = None /\ default_context_refcnt > 1
      BY <1>2, <3>1, Shared
    <3> QED
      BY <1>2, <3>2 DEF MonitorIInv, Counted
  <2>5. Cardinality(Served') = Cardinality(Served) + 1
    <3>1. Monitor!Inside' = Monitor!Inside \cup {u}
      BY <2>1 DEF Moves, Monitor!Inside
    <3>2. Served' = Served \cup {CtxOf[u]}
      BY <3>1 DEF Served
    <3> QED
      BY <2>4, <3>2, FiniteUse, FS_AddElement
  <2>6. Counted'
    <3>1. Holding' = Holding
      BY <2>3, HoldingSame
    <3> QED
      BY <1>1, <2>2, <2>3, <2>5, <3>1 DEF MonitorIInv, Counted
  <2>7. Alive' /\ ExitsApart'
    BY <1>1, <2>1 DEF MonitorIInv, Alive, ExitsApart, Moves, InPCs, InitPCs
  <2>8. LocksAreHeld'
    BY <1>1, <1>2, <1>3, <2>1, <2>2, Shares
    DEF MonitorIInv, LocksAreHeld, Moves, InitPCs
  <2>9. Monitored'
    <3>1. \A v \in Users : user'[v].pc # "join"
      BY <1>3, <2>1 DEF Moves
    <3> QED
      BY <1>1, <1>2, <2>1, <2>2, <3>1 DEF MonitorIInv, Monitored, Serving, Moves
  <2>10. PollsFresh'
    BY <1>1, <2>1 DEF MonitorIInv, PollsFresh, Moves, SameFresh
  <2> QED
    BY <2>1, <2>6, <2>7, <2>8, <2>9, <2>10 DEF MonitorIInv
<1>5. CASE user[u].found # 1
  <2> DEFINE to == IF init_count = 0 THEN "join" ELSE "fail"
  <2>1. Moves(u, "address", to) /\ SameFresh(u) /\ Shaped'
    BY <1>5, GoMoves DEF MonitorIInv, Monitor!ScanEnd
  <2>2. /\ control' = (init_count = 0) /\ init_count' = init_count
        /\ default_context_lock' = default_context_lock
    BY <1>5 DEF Monitor!ScanEnd
  <2>3. CtxOf[u] \in active_contexts
    BY <1>1 DEF MonitorIInv, Alive, InitPCs
  <2>4. \A v \in Users : (Holds(v)' <=> Holds(v)) /\ (Starting(v)' <=> Starting(v))
    BY <1>1, <2>1, <2>3 DEF Moves, Holds, Starting, InitPCs, InPCs
  <2>5. Counted'
    <3>1. Holding' = Holding
      BY <2>4, HoldingSame
    <3>2. Served' = Served
      BY <2>1, ServedSame DEF Moves, InPCs
    <3> QED
      BY <1>1, <2>2, <2>4, <3>1, <3>2 DEF MonitorIInv, Counted
  <2>6. Alive' /\ ExitsApart'
    BY <1>1, <2>1, <2>3 DEF MonitorIInv, Alive, ExitsApart, Moves, InPCs, InitPCs
  <2>7. LocksAreHeld'
    BY <1>1, <1>2, <1>3, <2>1, <2>2, Shares
    DEF MonitorIInv, LocksAreHeld, Moves, InitPCs
  <2>8. Monitored'
    <3>1. \A v \in Users : v # u => user'[v].pc \notin {"scan", "address", "join"}
      BY <1>3, <2>1 DEF Moves, InitPCs
    <3> QED
      BY <1>1, <1>2, <2>1, <2>2, <3>1 DEF MonitorIInv, Monitored, Serving, Moves
  <2>9. PollsFresh'
    BY <1>1, <2>1 DEF MonitorIInv, PollsFresh, Moves, SameFresh
  <2> QED
    BY <2>1, <2>5, <2>6, <2>7, <2>8, <2>9 DEF MonitorIInv
<1> QED
  BY <1>4, <1>5

LEMMA InitFailedStep ==
  ASSUME MonitorIInv, NEW u \in Users, Monitor!InitFailed(u)
  PROVE  MonitorIInv'
<1>1. Moves(u, "fail", "over") /\ SameFresh(u) /\ Shaped'
  BY GoMoves DEF MonitorIInv, Monitor!InitFailed
<1>2. /\ active_contexts' = active_contexts \ {CtxOf[u]} /\ allocated' = allocated \ {CtxOf[u]}
      /\ default_context_refcnt' = IF CtxOf[u] = None THEN 0 ELSE default_context_refcnt
      /\ default_context_lock' = None
      /\ UNCHANGED <<init_count, linux_hotplug_lock, uevents, socket, control, monitor>>
  BY DEF Monitor!InitFailed, Monitor!netlink
<1>3. /\ default_context_lock = u /\ Starting(u) /\ Holds(u) /\ CtxOf[u] \in active_contexts
  BY <1>1, Shares
  DEF MonitorIInv, LocksAreHeld, Alive, Starting, Holds, InitPCs, Moves
<1>4. \A v \in Users : v # u => user[v].pc \notin InitPCs \cup {"join"} /\ ~Starting(v)
  BY <1>3, Exclusive
<1>5. \A v \in Users : v # u /\ Holds(v) => CtxOf[v] # CtxOf[u]
  BY <1>3, Shared DEF MonitorIInv, Counted
<1>6. \A v \in Users : ~Starting(v)'
  BY <1>1, <1>4 DEF Moves, Starting, InitPCs
<1>7. Served' = Served
  BY <1>1, ServedSame DEF Moves, InPCs
<1>8. \A v \in Users : v # u => (Holds(v)' <=> Holds(v))
  BY <1>1, <1>4, <1>6 DEF Holds, Moves
<1>9. ~Holds(u)'
  BY <1>1 DEF Moves, Holds, Starting, InitPCs, InPCs
<1>10. default_context_refcnt' = Cardinality(Holding')
  <2>1. CASE CtxOf[u] = None
    <3>1. Holding' = {}
      BY <1>5, <1>8, <1>9, <2>1 DEF Holding
    <3> QED
      BY <1>2, <2>1, <3>1, FS_EmptySet
  <2>2. CASE CtxOf[u] # None
    <3>1. Holding' = Holding
      BY <1>8, <2>2, HoldingSame
    <3> QED
      BY <1>2, <2>2, <3>1 DEF MonitorIInv, Counted
  <2> QED
    BY <2>1, <2>2
<1>11. Counted'
  BY <1>2, <1>6, <1>7, <1>10 DEF MonitorIInv, Counted
<1>12. Alive'
  <2>1. active_contexts' \subseteq allocated'
    BY <1>2 DEF MonitorIInv, Alive
  <2>2. ASSUME NEW v \in Users, user'[v].pc \in InPCs \cup InitPCs
        PROVE  CtxOf[v] \in active_contexts'
    BY <1>1, <1>2, <1>5, <2>2
    DEF MonitorIInv, Alive, Moves, Holds, Starting, InPCs, InitPCs
  <2>3. ASSUME NEW v \in Users, user'[v].pc = "free"
        PROVE  CtxOf[v] \in allocated' \ active_contexts'
    BY <1>1, <1>2, <1>3, <2>3 DEF MonitorIInv, Alive, Moves
  <2>4. \A v \in Users : user'[v].pc # "join"
    BY <1>1, <1>4 DEF Moves
  <2> QED
    BY <2>1, <2>2, <2>3, <2>4 DEF Alive
<1>13. ExitsApart'
  BY <1>1 DEF MonitorIInv, ExitsApart, Moves
<1>14. LocksAreHeld'
  BY <1>1, <1>2, <1>4, Shares DEF MonitorIInv, LocksAreHeld, Moves, InitPCs
<1>15. Monitored'
  BY <1>1, <1>2 DEF MonitorIInv, Monitored, Serving, Moves
<1>16. PollsFresh'
  BY <1>1, <1>2 DEF MonitorIInv, PollsFresh, Moves, SameFresh
<1> QED
  BY <1>1, <1>11, <1>12, <1>13, <1>14, <1>15, <1>16 DEF MonitorIInv

LEMMA ExitStep ==
  ASSUME MonitorIInv, NEW u \in Users, Monitor!libusb_exit(u)
  PROVE  MonitorIInv'
<1> DEFINE to == IF init_count = 1 THEN "join" ELSE "free"
<1>1. Moves(u, "in", to) /\ SameFresh(u) /\ Shaped'
  BY GoMoves DEF MonitorIInv, Monitor!libusb_exit
<1>2. /\ default_context_lock = None /\ (CtxOf[u] = None => default_context_refcnt = 1)
      /\ active_contexts' = active_contexts \ {CtxOf[u]}
      /\ default_context_refcnt' = IF CtxOf[u] = None THEN 0 ELSE default_context_refcnt
      /\ init_count' = init_count - 1
      /\ control' = (init_count = 1)
      /\ default_context_lock' = IF init_count = 1 THEN u ELSE None
      /\ UNCHANGED <<allocated, linux_hotplug_lock, uevents, socket, monitor>>
  BY DEF Monitor!libusb_exit
<1>3. Holds(u) /\ CtxOf[u] \in active_contexts /\ CtxOf[u] \in allocated
  BY <1>1 DEF MonitorIInv, Alive, Holds, InPCs, Moves
<1>4. \A v \in Users : user[v].pc \notin InitPCs \cup {"join"} /\ ~Starting(v)
  BY <1>2, Exclusive, Shares
<1>5. \A v \in Users : v # u /\ Holds(v) => CtxOf[v] # CtxOf[u]
  BY <1>2, <1>3, Shared
<1>6. \A v \in Users : ~Starting(v)'
  BY <1>1, <1>2, <1>4 DEF Moves, Starting, InitPCs
<1>7. \A v \in Users : v # u => (Holds(v)' <=> Holds(v))
  BY <1>1, <1>4, <1>6 DEF Holds, Moves
<1>8. ~Holds(u)'
  BY <1>1, <1>6 DEF Moves, Holds, InPCs
<1>9. default_context_refcnt' = Cardinality(Holding')
  <2>1. CASE CtxOf[u] = None
    <3>1. Holding' = {}
      BY <1>5, <1>7, <1>8, <2>1 DEF Holding
    <3> QED
      BY <1>2, <2>1, <3>1, FS_EmptySet
  <2>2. CASE CtxOf[u] # None
    <3>1. Holding' = Holding
      BY <1>7, <2>2, HoldingSame
    <3> QED
      BY <1>2, <2>2, <3>1 DEF MonitorIInv, Counted
  <2> QED
    BY <2>1, <2>2
<1>10. Cardinality(Served') = Cardinality(Served) - 1
  <2>1. Monitor!Inside' = Monitor!Inside \ {u} /\ u \in Monitor!Inside
    BY <1>1 DEF Moves, Monitor!Inside
  <2>2. Served' = Served \ {CtxOf[u]} /\ CtxOf[u] \in Served
    BY <1>5, <2>1 DEF Served, Monitor!Inside, Holds, InPCs
  <2> QED
    BY <2>2, FiniteUse, FS_RemoveElement
<1>11. Counted'
  BY <1>2, <1>6, <1>9, <1>10 DEF MonitorIInv, Counted
<1>12. Alive'
  <2>1. active_contexts' \subseteq allocated'
    BY <1>2 DEF MonitorIInv, Alive
  <2>2. ASSUME NEW v \in Users, user'[v].pc \in InPCs \cup InitPCs
        PROVE  CtxOf[v] \in active_contexts'
    BY <1>1, <1>2, <1>5, <2>2
    DEF MonitorIInv, Alive, Moves, Holds, Starting, InPCs, InitPCs
  <2>3. ASSUME NEW v \in Users, user'[v].pc \in {"free", "join"}
        PROVE  /\ CtxOf[v] \in allocated'
               /\ user'[v].pc = "free" => CtxOf[v] \notin active_contexts'
    BY <1>1, <1>2, <1>3, <1>4, <2>3 DEF MonitorIInv, Alive, Moves
  <2> QED
    BY <2>1, <2>2, <2>3 DEF Alive
<1>13. ExitsApart'
  <2>1. \A v \in Users : user[v].pc = "free" => CtxOf[v] # CtxOf[u]
    BY <1>3 DEF MonitorIInv, Alive
  <2> QED
    BY <1>1, <1>4, <2>1 DEF MonitorIInv, ExitsApart, Moves
<1>14. LocksAreHeld'
  BY <1>1, <1>2, <1>4, Shares DEF MonitorIInv, LocksAreHeld, Moves, InitPCs
<1>15. Monitored'
  <2>1. init_count # 0
    BY <1>1, NobodyInside DEF Monitor!Inside, Moves
  <2>2. \A v \in Users : user'[v].pc \notin {"scan", "address"}
                         /\ (user'[v].pc = "join" => init_count = 1 /\ v = u)
    BY <1>1, <1>4 DEF Moves, InitPCs
  <2>3. init_count \in Nat /\ Serving
    BY <2>1, FiniteUse DEF MonitorIInv, Counted, Monitored
  <2>4. CASE init_count = 1
    BY <1>1, <1>2, <2>2, <2>4 DEF Monitored, Moves
  <2>5. CASE init_count # 1
    <3>1. ~control' /\ Serving'
      BY <1>2, <2>3, <2>5 DEF Serving
    <3> QED
      BY <1>1, <1>2, <2>2, <2>5, <3>1 DEF Monitored, Moves
  <2> QED
    BY <2>4, <2>5
<1>16. PollsFresh'
  BY <1>1, <1>2 DEF MonitorIInv, PollsFresh, Moves, SameFresh
<1> QED
  BY <1>1, <1>11, <1>12, <1>13, <1>14, <1>15, <1>16 DEF MonitorIInv

LEMMA StopStep ==
  ASSUME MonitorIInv, NEW u \in Users, Monitor!linux_netlink_stop_event_monitor(u)
  PROVE  MonitorIInv'
<1> DEFINE failed == CtxOf[u] \in active_contexts
           to == IF failed THEN "fail" ELSE "free"
<1>1. Moves(u, "join", to) /\ SameFresh(u) /\ Shaped'
  BY GoMoves DEF MonitorIInv, Monitor!linux_netlink_stop_event_monitor
<1>2. /\ control' = FALSE /\ uevents' = << >>
      /\ default_context_lock' = IF failed THEN u ELSE None
      /\ UNCHANGED <<allocated, active_contexts, default_context_refcnt,
                     init_count, linux_hotplug_lock>>
  BY DEF Monitor!linux_netlink_stop_event_monitor, Monitor!contexts
<1>3. default_context_lock = u /\ init_count = 0
  BY <1>1, Shares DEF MonitorIInv, LocksAreHeld, Monitored, Moves
<1>4. \A v \in Users : v # u => user[v].pc \notin InitPCs \cup {"join"} /\ ~Starting(v)
  BY <1>3, Exclusive
<1>5. \A v \in Users : user[v].pc # "poll"
  BY <1>3, NobodyInside DEF Monitor!Inside
<1>6. \A v \in Users : (Holds(v)' <=> Holds(v)) /\ (Starting(v)' <=> Starting(v))
  BY <1>1, <1>2 DEF Moves, Holds, Starting, InitPCs, InPCs
<1>7. Counted'
  <2>1. Holding' = Holding
    BY <1>6, HoldingSame
  <2>2. Served' = Served
    BY <1>1, ServedSame DEF Moves, InPCs
  <2> QED
    BY <1>2, <1>6, <2>1, <2>2 DEF MonitorIInv, Counted
<1>8. Alive'
  BY <1>1, <1>2 DEF MonitorIInv, Alive, Moves, InPCs, InitPCs
<1>9. ExitsApart'
  BY <1>1, <1>2, <1>4 DEF MonitorIInv, ExitsApart, Moves
<1>10. LocksAreHeld'
  BY <1>1, <1>2, <1>3, <1>4, Shares DEF MonitorIInv, LocksAreHeld, Moves, InitPCs
<1>11. Monitored'
  BY <1>1, <1>2, <1>3, <1>4 DEF MonitorIInv, Monitored, Moves, InitPCs
<1>12. PollsFresh'
  <2>1. uevents' \in Seq(Messages)
    BY <1>2
  <2> QED
    BY <1>1, <1>5, <2>1 DEF MonitorIInv, PollsFresh, Moves, SameFresh
<1> QED
  BY <1>1, <1>7, <1>8, <1>9, <1>10, <1>11, <1>12 DEF MonitorIInv

LEMMA FreeStep ==
  ASSUME MonitorIInv, NEW u \in Users, Monitor!FreeContext(u)
  PROVE  MonitorIInv'
<1>1. Moves(u, "free", "over") /\ SameFresh(u) /\ Shaped'
  BY GoMoves DEF MonitorIInv, Monitor!FreeContext
<1>2. /\ allocated' = allocated \ {CtxOf[u]}
      /\ UNCHANGED <<active_contexts, default_context_refcnt, init_count, default_context_lock,
                     linux_hotplug_lock, uevents, socket, control, monitor>>
  BY DEF Monitor!FreeContext, Monitor!netlink, Monitor!locks
<1>3. \A v \in Users : (Holds(v)' <=> Holds(v)) /\ (Starting(v)' <=> Starting(v))
  BY <1>1, <1>2 DEF Moves, Holds, Starting, InitPCs, InPCs
<1>4. Counted'
  <2>1. Holding' = Holding
    BY <1>3, HoldingSame
  <2>2. Served' = Served
    BY <1>1, ServedSame DEF Moves, InPCs
  <2> QED
    BY <1>2, <1>3, <2>1, <2>2 DEF MonitorIInv, Counted
<1>5. Alive'
  <2>1. CtxOf[u] \notin active_contexts
    BY <1>1 DEF MonitorIInv, Alive, Moves
  <2>2. \A v \in Users : v # u /\ user[v].pc \in {"free", "join"} => CtxOf[v] # CtxOf[u]
    BY <1>1 DEF MonitorIInv, ExitsApart, Moves
  <2> QED
    BY <1>1, <1>2, <2>1, <2>2 DEF MonitorIInv, Alive, Moves, InPCs, InitPCs
<1>6. ExitsApart'
  BY <1>1 DEF MonitorIInv, ExitsApart, Moves
<1>7. LocksAreHeld'
  BY <1>1, <1>2, Shares DEF MonitorIInv, LocksAreHeld, Moves, InitPCs
<1>8. Monitored'
  BY <1>1, <1>2 DEF MonitorIInv, Monitored, Serving, Moves
<1>9. PollsFresh'
  BY <1>1, <1>2 DEF MonitorIInv, PollsFresh, Moves, SameFresh
<1> QED
  BY <1>1, <1>4, <1>5, <1>6, <1>7, <1>8, <1>9 DEF MonitorIInv

LEMMA MonitorStarts == ASSUME Monitor!Init PROVE MonitorIInv
<1>1. /\ \A u \in Users : user[u] = Monitor!Idle /\ user[u].pc = "out" /\ user[u].fresh = 0
      /\ uevents = << >> /\ init_count = 0 /\ ~control /\ default_context_refcnt = 0
      /\ active_contexts = {} /\ allocated = {}
      /\ default_context_lock = None /\ linux_hotplug_lock = None
  BY DEF Monitor!Init, Monitor!Idle
<1>2. Shaped
  <2>1. Monitor!Idle = [f \in Fields |-> Monitor!Idle[f]]
    BY DEF Fields, Monitor!Idle
  <2>2. user = [u \in Users |-> user[u]]
    BY DEF Monitor!Init
  <2> QED
    BY <1>1, <2>1, <2>2 DEF Shaped
<1>3. Served = {} /\ Holding = {}
  BY <1>1 DEF Served, Monitor!Inside, Holding, Holds, Starting, InPCs, InitPCs
<1>4. Counted
  BY <1>1, <1>3, FS_EmptySet DEF Counted, Starting, InitPCs
<1>5. LocksAreHeld /\ Alive /\ ExitsApart /\ Monitored
  BY <1>1, Shares DEF LocksAreHeld, Alive, ExitsApart, Monitored, InPCs, InitPCs
<1>6. PollsFresh
  <2>1. uevents \in Seq(Messages)
    BY <1>1
  <2> QED
    BY <1>1, <2>1 DEF PollsFresh
<1> QED
  BY <1>2, <1>4, <1>5, <1>6 DEF MonitorIInv

LEMMA MonitorKept == ASSUME MonitorIInv, [Monitor!Next]_Monitor!vars PROVE MonitorIInv'
<1>1. CASE UNCHANGED Monitor!vars
  <2>1. /\ UNCHANGED <<Monitor!locks, Monitor!contexts, user>>
        /\ UNCHANGED <<uevents, socket, control, monitor>>
    BY <1>1 DEF Monitor!vars, Monitor!locks, Monitor!contexts
  <2>2. Monitored' /\ PollsFresh'
    BY <2>1 DEF MonitorIInv, Monitored, Serving, PollsFresh, Monitor!contexts
  <2> QED
    BY <2>1, <2>2, IdleStep
<1>2. CASE Monitor!MonitorPoll \/ Monitor!MonitorRead
  BY <1>2, MonitorStep
<1>3. CASE \E d \in Plugs : Monitor!Plug(d) \/ Monitor!Unplug(d)
  BY <1>3, PlugStep
<1>4. ASSUME NEW u \in Users,
             \/ Monitor!Share(u) \/ Monitor!libusb_init(u)
             \/ Monitor!linux_netlink_start_event_monitor(u)
             \/ Monitor!ScanBegin(u) \/ Monitor!linux_get_device_address(u)
             \/ Monitor!linux_enumerate_device(u) \/ Monitor!ScanEnd(u)
             \/ Monitor!InitFailed(u)
      PROVE  MonitorIInv'
  BY <1>4, ShareStep, InitStep, StartStep, ScanBeginStep, AddressStep,
     EnumerateStep, ScanEndStep, InitFailedStep
<1>5. ASSUME NEW u \in Users,
             \/ Monitor!Unshare(u) \/ Monitor!libusb_exit(u)
             \/ Monitor!linux_netlink_stop_event_monitor(u) \/ Monitor!FreeContext(u)
      PROVE  MonitorIInv'
  BY <1>5, UnshareStep, ExitStep, StopStep, FreeStep
<1>6. ASSUME NEW u \in Users,
             \/ Monitor!PollBegin(u) \/ Monitor!PollRead(u) \/ Monitor!PollEnd(u)
             \/ Monitor!OpenFails(u) \/ Monitor!OpenDisconnects(u)
      PROVE  MonitorIInv'
  BY <1>6, PollBeginStep, PollReadStep, PollEndStep, OpenFailsStep,
     OpenDisconnectsStep
<1> QED
  BY <1>1, <1>2, <1>3, <1>4, <1>5, <1>6 DEF Monitor!Next

LEMMA MonitorPromises ==
  ASSUME MonitorIInv
  PROVE  Monitor!InsideIsServed /\ Monitor!PolledIsFresh
<1>1. \A u \in Monitor!Inside : CtxOf[u] \in allocated /\ CtxOf[u] \in active_contexts
  BY DEF MonitorIInv, Alive, Monitor!Inside, InPCs
<1>2. \A u \in Monitor!Inside : Serving
  BY NobodyInside DEF MonitorIInv, Monitored
<1>3. Monitor!InsideIsServed
  BY <1>1, <1>2 DEF Monitor!InsideIsServed, Serving
<1> QED
  BY <1>3 DEF MonitorIInv, PollsFresh, Monitor!PolledIsFresh

(***************************************************************************)
(* The invariant in every reachable state: the counts of core.c are those  *)
(* of the threads inside, and the thread of linux_netlink.c serves them.   *)
(***************************************************************************)
THEOREM MonitorInvariance == Monitor!Spec => []MonitorIInv
<1>1. Monitor!Init => MonitorIInv
  BY MonitorStarts
<1>2. MonitorIInv /\ [Monitor!Next]_Monitor!vars => MonitorIInv'
  BY MonitorKept
<1> QED
  BY <1>1, <1>2, PTL DEF Monitor!Spec
-----------------------------------------------------------------------------
(* The transfers                                                           *)

SubmitPCs == {"submit", "fill", "backend", "inFlight", "remove"}
Completing == {"clear", "cancellation", "completion", "landed", "callback"}

\* where each thread may be, and on which transfer
Control ==
  /\ \A x \in Transfers :
       /\ pc[x] \in SubmitPCs \cup {"idle", "wait"}
       /\ pc[x] # "idle" => alloc[x]
       /\ alloc[x] => cur[x] = x
  /\ pc["events"] \in SubmitPCs \cup Completing \cup {"idle", "scan"}
  /\ pc["events"] \in SubmitPCs \cup Completing => cur["events"] \in Transfers
  /\ pc["events"] \in SubmitPCs =>
       /\ cur["events"] \in AsyncTransfers
       /\ alloc[cur["events"]] /\ pc[cur["events"]] = "idle"
  /\ pc["events"] \in Completing => pc[cur["events"]] \in {"idle", "wait"}
  /\ \A x \in AsyncTransfers : pc[x] # "wait"
  /\ pc["timer"] \in {"idle", "timeouts", "timedOut"}

\* the mutexes say what their holders are doing
LocksHeld ==
  /\ \A p \in Procs :
       flying_transfers_lock = p <=> pc[p] \in {"fill", "timeouts", "timedOut", "scan"}
  /\ \A p \in Procs, x \in Transfers :
       lock[x] = p <=> pc[p] \in {"backend", "inFlight"} /\ cur[p] = x

\* a transfer is owed its callback from its submission on
Flight ==
  /\ \A x \in Transfers :
       /\ owed[x] => alloc[x]
       /\ owed[x] <=> \/ "IN_FLIGHT" \in state_flags[x]
                      \/ \E p \in Procs : pc[p] = "inFlight" /\ cur[p] = x
                      \/ pc["events"] = "callback" /\ cur["events"] = x
       /\ owed[x] => \A p \in Procs :
            cur[p] = x => pc[p] \notin {"submit", "fill", "backend", "remove"}
  /\ pc["events"] = "callback" => "IN_FLIGHT" \notin state_flags[cur["events"]]
  /\ CallbackIsOwed

\* the kernel has only what is owed; a URB is discarded once, for one cause
Kernel ==
  \A x \in Transfers :
    /\ urb[x] # "none" => /\ owed[x]
                          /\ pc["events"] \in Completing \ {"clear"} => cur["events"] # x
    /\ urb[x] = "discarded" => cause[x] # "none"
    /\ urb[x] \in {"pending", "done", "lost"} => cause[x] = "none"
    /\ cause[x] # "none" => owed[x]

\* the flag of a timeout follows its cancellation before the list is let go
Stamps ==
  /\ \A x \in Flying : "TIMED_OUT" \in timeout_flags[x] => cause[x] = "timeout"
  /\ \A x \in Transfers : cause[x] = "timeout" =>
       "TIMED_OUT" \in timeout_flags[x] \/ (pc["timer"] = "timedOut" /\ cur["timer"] = x)
  /\ pc["timer"] = "timedOut" =>
       /\ cur["timer"] \in Flying
       /\ cause[cur["timer"]] = "timeout" /\ "HANDLED" \in timeout_flags[cur["timer"]]

\* why the transfer that is completed ended
Verdicts ==
  /\ pc["events"] = "cancellation" => cause[cur["events"]] # "none"
  /\ pc["events"] \in {"completion", "landed", "callback"} =>
       /\ verdict = "CANCELLED" => cause[cur["events"]] = "user"
       /\ verdict = "TIMED_OUT" => cause[cur["events"]] = "timeout"
       /\ verdict = "COMPLETED" => cause[cur["events"]] = "none"

\* a synchronous transfer has its status when it is owed no callback any more
Waiting ==
  \A x \in SyncTransfers :
    owed[x] \/ pc[x] \in SubmitPCs => status[x] = None

\* what the walk of a disconnect has not come to yet
Disconnect ==
  /\ removed => gone
  /\ pc["events"] \in {"scan", "clear"} => removed
  /\ removed /\ (scan = << >> \/ pc["events"] = "scan") =>
       \A x \in Transfers : owed[x] => \E i \in 1 .. Len(scan) : scan[i] = x

IInv ==
  /\ TypeOK
  /\ Control /\ LocksHeld /\ Flight
  /\ ListedWhileOwed /\ SortedByTimeout
  /\ Kernel /\ Stamps /\ Verdicts
  /\ Waiting /\ Disconnect /\ FreedIsUntouched
-----------------------------------------------------------------------------
(***************************************************************************)
(* A set of numbers has a least one: of the sets of the numbers below one  *)
(* of them, which are finite, one is the smallest.                         *)
(***************************************************************************)
LEMMA LeastNumber ==
  ASSUME NEW S \in SUBSET Nat, S # {}
  PROVE  \E i \in S : \A j \in S : i <= j
<1> DEFINE Below(i) == {j \in S : j < i}
           Belows == {Below(i) : i \in S}
<1>0. \A k \in S : k \in Nat
  OBVIOUS
<1>1. \A i \in S : Below(i) \in FiniteSubsetsOf(Nat)
  <2> SUFFICES ASSUME NEW i \in S PROVE Below(i) \in FiniteSubsetsOf(Nat)
    OBVIOUS
  <2>1. 0 \in Int /\ i \in Int
    BY <1>0
  <2>2. IsFiniteSet(0 .. i)
    BY <2>1, FS_Interval
  <2>3. Below(i) \in SUBSET (0 .. i)
    <3> SUFFICES ASSUME NEW k \in Below(i) PROVE k \in 0 .. i
      OBVIOUS
    <3>1. k \in Nat /\ k < i
      BY <1>0
    <3> QED
      BY <2>1, <3>1
  <2>4. IsFiniteSet(Below(i))
    BY <2>2, <2>3, FS_Subset
  <2> QED
    BY <2>3, <2>4, <1>0 DEF FiniteSubsetsOf
<1>2. PICK B \in Belows : \A C \in Belows : <<C, B>> \notin StrictSubsetOrdering(Nat)
  <2>1. Belows \subseteq FiniteSubsetsOf(Nat) /\ Belows # {}
    BY <1>1
  <2> HIDE DEF Belows
  <2> QED
    BY <2>1, WFMin, FS_StrictSubsetOrderingWellFounded
<1>3. PICK i \in S : B = Below(i)
  BY <1>2
<1>4. \A j \in S : i <= j
  <2> SUFFICES ASSUME NEW j \in S, j < i PROVE FALSE
    OBVIOUS
  <2>1. i \in Nat /\ j \in Nat
    BY <1>0
  <2>2. \A k \in S : k < j => k < i
    BY <1>0, <2>1
  <2>5. Below(j) \subseteq Below(i)
    BY <2>2
  <2>3. j \in Below(i) /\ j \notin Below(j)
    BY <2>1
  <2>4. Below(j) \in SUBSET Nat /\ Below(i) \in SUBSET Nat /\ Below(j) # Below(i)
    BY <2>3
  <2> HIDE DEF Below
  <2>6. <<Below(j), B>> \in StrictSubsetOrdering(Nat)
    BY <1>3, <2>5, <2>4 DEF StrictSubsetOrdering
  <2> QED
    BY <1>2, <2>6
<1> QED
  BY <1>4

(***************************************************************************)
(* Taking an element out of a sequence, and putting one in.                *)
(***************************************************************************)
LEMMA RemoveAtEffect ==
  ASSUME NEW S, NEW s \in Seq(S), NEW k \in 1 .. Len(s)
  PROVE  /\ RemoveAt(s, k) \in Seq(S)
         /\ Len(RemoveAt(s, k)) = Len(s) - 1
         /\ \A i \in 1 .. Len(s) - 1 :
              RemoveAt(s, k)[i] = IF i < k THEN s[i] ELSE s[i + 1]
<1> DEFINE a == SubSeq(s, 1, k - 1)
           b == SubSeq(s, k + 1, Len(s))
<1>1. Len(s) \in Nat /\ k \in Nat /\ k >= 1 /\ k <= Len(s) /\ \A i \in 1 .. Len(s) : s[i] \in S
  BY LenProperties, ElementOfSeq
<1>2. /\ a \in Seq(S) /\ Len(a) = k - 1
      /\ \A i \in 1 .. k - 1 : a[i] = s[i]
  <2>1. 1 \in Int /\ k - 1 \in Int /\ \A i \in 1 .. k - 1 : s[i] \in S
    BY <1>1
  <2>2. /\ a \in Seq(S) /\ Len(a) = IF 1 <= k - 1 THEN (k - 1) - 1 + 1 ELSE 0
        /\ \A i \in 1 .. (k - 1) - 1 + 1 : a[i] = s[1 + i - 1]
    BY <2>1, SubSeqProperties
  <2> HIDE DEF a
  <2>3. (k - 1) - 1 + 1 = k - 1 /\ (1 <= k - 1 \/ k - 1 = 0)
    BY <1>1
  <2>4. Len(a) = k - 1
    BY <2>2, <2>3
  <2>5. ASSUME NEW i \in 1 .. k - 1 PROVE a[i] = s[i]
    <3>1. 1 + i - 1 = i
      BY <1>1
    <3> QED
      BY <2>2, <2>3, <3>1
  <2> QED
    BY <2>2, <2>4, <2>5
<1>3. /\ b \in Seq(S) /\ Len(b) = Len(s) - k
      /\ \A i \in 1 .. Len(s) - k : b[i] = s[k + i]
  <2>1. k + 1 \in Int /\ Len(s) \in Int /\ \A i \in k + 1 .. Len(s) : s[i] \in S
    BY <1>1
  <2>2. /\ b \in Seq(S) /\ Len(b) = IF k + 1 <= Len(s) THEN Len(s) - (k + 1) + 1 ELSE 0
        /\ \A i \in 1 .. Len(s) - (k + 1) + 1 : b[i] = s[(k + 1) + i - 1]
    BY <2>1, SubSeqProperties
  <2> HIDE DEF b
  <2>3. Len(s) - (k + 1) + 1 = Len(s) - k /\ (k + 1 <= Len(s) \/ Len(s) - k = 0)
    BY <1>1
  <2>4. Len(b) = Len(s) - k
    BY <2>2, <2>3
  <2>5. ASSUME NEW i \in 1 .. Len(s) - k PROVE b[i] = s[k + i]
    <3>1. (k + 1) + i - 1 = k + i
      BY <1>1
    <3> QED
      BY <2>2, <2>3, <3>1
  <2> QED
    BY <2>2, <2>4, <2>5
<1>4. RemoveAt(s, k) = a \o b
  BY DEF RemoveAt
<1> HIDE DEF a, b
<1>5. /\ a \o b \in Seq(S) /\ Len(a \o b) = Len(a) + Len(b)
      /\ \A i \in 1 .. Len(a) + Len(b) :
           (a \o b)[i] = IF i <= Len(a) THEN a[i] ELSE b[i - Len(a)]
  BY <1>2, <1>3, ConcatProperties
<1>6. ASSUME NEW i \in 1 .. Len(s) - 1
      PROVE  (a \o b)[i] = IF i < k THEN s[i] ELSE s[i + 1]
  <2>1. CASE i < k
    BY <1>1, <1>2, <1>3, <1>5, <2>1
  <2>2. CASE ~ i < k
    <3>1. i - (k - 1) \in 1 .. Len(s) - k /\ k + (i - (k - 1)) = i + 1
      BY <1>1, <2>2
    <3>2. b[i - (k - 1)] = s[i + 1]
      BY <1>3, <3>1
    <3>3. (a \o b)[i] = b[i - (k - 1)]
      BY <1>1, <1>2, <1>3, <1>5, <2>2
    <3> QED
      BY <2>2, <3>2, <3>3
  <2> QED
    BY <2>1, <2>2
<1> QED
  BY <1>1, <1>2, <1>3, <1>4, <1>5, <1>6

LEMMA InsertAtEffect ==
  ASSUME NEW S, NEW s \in Seq(S), NEW k \in 1 .. Len(s) + 1, NEW e \in S
  PROVE  /\ InsertAt(s, k, e) \in Seq(S)
         /\ Len(InsertAt(s, k, e)) = Len(s) + 1
         /\ \A i \in 1 .. Len(s) + 1 :
              InsertAt(s, k, e)[i] =
                IF i < k THEN s[i] ELSE IF i = k THEN e ELSE s[i - 1]
<1> DEFINE a == SubSeq(s, 1, k - 1)
           b == SubSeq(s, k, Len(s))
           c == a \o <<e>>
<1>1. Len(s) \in Nat /\ k \in Nat /\ k >= 1 /\ k <= Len(s) + 1 /\ \A i \in 1 .. Len(s) : s[i] \in S
  BY LenProperties, ElementOfSeq
<1>2. /\ a \in Seq(S) /\ Len(a) = k - 1
      /\ \A i \in 1 .. k - 1 : a[i] = s[i]
  <2>1. 1 \in Int /\ k - 1 \in Int /\ \A i \in 1 .. k - 1 : s[i] \in S
    BY <1>1
  <2>2. /\ a \in Seq(S) /\ Len(a) = IF 1 <= k - 1 THEN (k - 1) - 1 + 1 ELSE 0
        /\ \A i \in 1 .. (k - 1) - 1 + 1 : a[i] = s[1 + i - 1]
    BY <2>1, SubSeqProperties
  <2> HIDE DEF a
  <2>3. (k - 1) - 1 + 1 = k - 1 /\ (1 <= k - 1 \/ k - 1 = 0)
    BY <1>1
  <2>4. Len(a) = k - 1
    BY <2>2, <2>3
  <2>5. ASSUME NEW i \in 1 .. k - 1 PROVE a[i] = s[i]
    <3>1. 1 + i - 1 = i
      BY <1>1
    <3> QED
      BY <2>2, <2>3, <3>1
  <2> QED
    BY <2>2, <2>4, <2>5
<1>3. /\ b \in Seq(S) /\ Len(b) = Len(s) - k + 1
      /\ \A i \in 1 .. Len(s) - k + 1 : b[i] = s[k + i - 1]
  <2>1. k \in Int /\ Len(s) \in Int /\ \A i \in k .. Len(s) : s[i] \in S
    BY <1>1
  <2>2. /\ b \in Seq(S) /\ Len(b) = IF k <= Len(s) THEN Len(s) - k + 1 ELSE 0
        /\ \A i \in 1 .. Len(s) - k + 1 : b[i] = s[k + i - 1]
    BY <2>1, SubSeqProperties
  <2> HIDE DEF b
  <2> QED
    BY <1>1, <2>2
<1>4. InsertAt(s, k, e) = c \o b
  BY DEF InsertAt
<1>5. <<e>> \in Seq(S) /\ Len(<<e>>) = 1 /\ <<e>>[1] = e
  OBVIOUS
<1> HIDE DEF a, b
<1>6. /\ c \in Seq(S) /\ Len(c) = k
      /\ \A i \in 1 .. k : c[i] = IF i < k THEN s[i] ELSE e
  <2>1. /\ c \in Seq(S) /\ Len(c) = Len(a) + Len(<<e>>)
        /\ \A i \in 1 .. Len(a) + Len(<<e>>) :
             c[i] = IF i <= Len(a) THEN a[i] ELSE <<e>>[i - Len(a)]
    BY <1>2, <1>5, ConcatProperties
  <2> HIDE DEF c
  <2>2. ASSUME NEW i \in 1 .. k
        PROVE  c[i] = IF i < k THEN s[i] ELSE e
    <3>1. CASE i < k
      BY <1>1, <1>2, <1>5, <2>1, <3>1
    <3>2. CASE ~ i < k
      <4>1. i - Len(a) = 1 /\ c[i] = <<e>>[i - Len(a)]
        BY <1>1, <1>2, <1>5, <2>1, <3>2
      <4> QED
        BY <1>5, <3>2, <4>1
    <3> QED
      BY <3>1, <3>2
  <2> QED
    BY <1>1, <1>2, <1>5, <2>1, <2>2
<1> HIDE DEF c
<1>7. /\ c \o b \in Seq(S) /\ Len(c \o b) = Len(c) + Len(b)
      /\ \A i \in 1 .. Len(c) + Len(b) :
           (c \o b)[i] = IF i <= Len(c) THEN c[i] ELSE b[i - Len(c)]
  BY <1>3, <1>6, ConcatProperties
<1>8. ASSUME NEW i \in 1 .. Len(s) + 1
      PROVE  (c \o b)[i] = IF i < k THEN s[i] ELSE IF i = k THEN e ELSE s[i - 1]
  <2>1. CASE i <= k
    BY <1>1, <1>3, <1>6, <1>7, <2>1
  <2>2. CASE ~ i <= k
    <3>1. i - k \in 1 .. Len(s) - k + 1 /\ k + (i - k) - 1 = i - 1
      BY <1>1, <2>2
    <3>2. b[i - k] = s[i - 1]
      BY <1>3, <3>1
    <3>3. (c \o b)[i] = b[i - k]
      BY <1>1, <1>3, <1>6, <1>7, <2>2
    <3> QED
      BY <1>1, <2>2, <3>2, <3>3
  <2> QED
    BY <2>1, <2>2
<1>9. Len(c \o b) = Len(s) + 1
  BY <1>1, <1>3, <1>6, <1>7
<1>10. \A i \in 1 .. Len(s) + 1 :
         (c \o b)[i] = IF i < k THEN s[i] ELSE IF i = k THEN e ELSE s[i - 1]
  BY <1>8
<1> QED
  BY <1>4, <1>7, <1>9, <1>10
-----------------------------------------------------------------------------
(***************************************************************************)
(* The list of flying transfers.                                           *)
(***************************************************************************)
NoDuplicates == \A i, j \in 1 .. Len(flying) : flying[i] = flying[j] => i = j

LEMMA ListFacts ==
  ASSUME TypeOK
  PROVE  /\ Len(flying) \in Nat
         /\ \A i \in 1 .. Len(flying) : flying[i] \in Transfers
         /\ Flying \subseteq Transfers
         /\ \A x : x \in Flying <=> \E i \in 1 .. Len(flying) : flying[i] = x
<1>1. flying \in Seq(Transfers)
  BY DEF TypeOK
<1>2. Len(flying) \in Nat /\ \A i \in 1 .. Len(flying) : flying[i] \in Transfers
  BY <1>1, LenProperties, ElementOfSeq
<1> QED
  BY <1>2 DEF Flying

\* what is taken out is gone, the others stay in their order
LEMMA Unlisted ==
  ASSUME TypeOK, NoDuplicates, NEW x \in Flying, RemoveFromFlyingList(x)
  PROVE  /\ flying' \in Seq(Transfers)
         /\ Len(flying') = Len(flying) - 1
         /\ \E k \in 1 .. Len(flying) :
              /\ flying[k] = x
              /\ \A i \in 1 .. Len(flying) - 1 :
                   flying'[i] = IF i < k THEN flying[i] ELSE flying[i + 1]
         /\ left' = [left EXCEPT ![x] = Infinite]
<1> DEFINE I == {i \in 1 .. Len(flying) : flying[i] = x}
<1>1. PICK k \in 1 .. Len(flying) : flying[k] = x
  BY ListFacts
<1>2. I = {k} /\ k \in Nat
  BY <1>1 DEF NoDuplicates
<1>3. Min(I) = k
  <2> HIDE DEF I
  <2> QED
    BY <1>2 DEF Min
<1>4. flying' = RemoveAt(flying, k)
  <2>1. SelectInSeq(flying, LAMBDA v : v = x) = Min(I)
    BY <1>2 DEF SelectInSeq
  <2> QED
    BY <1>1, <1>3, <2>1 DEF RemoveFromFlyingList, RemoveFirst
<1>5. flying \in Seq(Transfers)
  BY DEF TypeOK
<1>6. /\ flying' \in Seq(Transfers)
      /\ Len(flying') = Len(flying) - 1
      /\ \A i \in 1 .. Len(flying) - 1 :
           flying'[i] = IF i < k THEN flying[i] ELSE flying[i + 1]
  BY <1>4, <1>5, RemoveAtEffect
<1> QED
  BY <1>1, <1>6 DEF RemoveFromFlyingList

LEMMA UnlistedEffect ==
  ASSUME TypeOK, NoDuplicates, SortedByTimeout,
         NEW x \in Flying, RemoveFromFlyingList(x)
  PROVE  /\ flying' \in Seq(Transfers) /\ Flying' = Flying \ {x}
         /\ NoDuplicates' /\ SortedByTimeout'
<1>1. /\ flying' \in Seq(Transfers)
      /\ Len(flying') = Len(flying) - 1
      /\ left' = [left EXCEPT ![x] = Infinite]
  BY Unlisted
<1>2. PICK k \in 1 .. Len(flying) :
        /\ flying[k] = x
        /\ \A i \in 1 .. Len(flying) - 1 :
             flying'[i] = IF i < k THEN flying[i] ELSE flying[i + 1]
  BY Unlisted
<1>3. Len(flying) \in Nat /\ Len(flying') \in Nat /\ k \in Nat
  BY <1>1, <1>2, ListFacts
<1> DEFINE Old(i) == IF i < k THEN i ELSE i + 1
<1>4. \A i \in 1 .. Len(flying') :
        Old(i) \in 1 .. Len(flying) /\ Old(i) # k /\ flying'[i] = flying[Old(i)]
  BY <1>1, <1>2, <1>3
<1>5. \A i, j \in 1 .. Len(flying') : /\ i < j => Old(i) < Old(j)
                                      /\ Old(i) = Old(j) => i = j
  BY <1>3
<1>6. \A j \in 1 .. Len(flying) : j # k => \E i \in 1 .. Len(flying') : Old(i) = j
  <2> SUFFICES ASSUME NEW j \in 1 .. Len(flying), j # k
               PROVE  \E i \in 1 .. Len(flying') : Old(i) = j
    OBVIOUS
  <2>1. CASE j < k
    BY <1>1, <1>3, <2>1
  <2>2. CASE k < j
    <3>1. j - 1 \in 1 .. Len(flying') /\ Old(j - 1) = j
      BY <1>1, <1>3, <2>2
    <3> QED
      BY <3>1
  <2> QED
    BY <1>3, <2>1, <2>2
<1>7. \A i \in 1 .. Len(flying') : flying'[i] # x /\ flying'[i] \in Transfers
  BY <1>2, <1>4, ListFacts DEF NoDuplicates
<1> HIDE DEF Old
<1>8. NoDuplicates'
  BY <1>4, <1>5 DEF NoDuplicates
<1>9. \A y : y \in Flying' <=> y \in Flying /\ y # x
  <2>1. ASSUME NEW i \in 1 .. Len(flying') PROVE flying'[i] \in Flying /\ flying'[i] # x
    BY <1>4, <1>7 DEF Flying
  <2>2. ASSUME NEW j \in 1 .. Len(flying), flying[j] # x
        PROVE  \E i \in 1 .. Len(flying') : flying'[i] = flying[j]
    BY <1>2, <1>4, <1>6, <2>2
  <2>3. ASSUME NEW y \in Flying' PROVE y \in Flying /\ y # x
    <3>1. PICK i \in 1 .. Len(flying') : y = flying'[i]
      BY DEF Flying
    <3> QED
      BY <2>1, <3>1
  <2>4. ASSUME NEW y \in Flying, y # x PROVE y \in Flying'
    <3>1. PICK j \in 1 .. Len(flying) : y = flying[j]
      BY DEF Flying
    <3>2. PICK i \in 1 .. Len(flying') : flying'[i] = flying[j]
      BY <2>2, <2>4, <3>1
    <3> QED
      BY <3>1, <3>2 DEF Flying
  <2> QED
    BY <2>3, <2>4
<1>10. \A y \in Transfers : y # x => left'[y] = left[y]
  BY <1>1 DEF TypeOK
<1>11. SortedByTimeout'
  <2> SUFFICES ASSUME NEW i \in 1 .. Len(flying'), NEW j \in 1 .. Len(flying'), i < j
               PROVE  left'[flying'[i]] <= left'[flying'[j]]
    BY DEF SortedByTimeout
  <2>1. Old(i) < Old(j)
    BY <1>5
  <2>2. left[flying[Old(i)]] <= left[flying[Old(j)]]
    BY <1>4, <2>1 DEF SortedByTimeout
  <2> QED
    BY <1>4, <1>7, <1>10, <2>2
<1> QED
  BY <1>1, <1>8, <1>9, <1>11

\* everything before the position expires first, everything from it on later
LEMMA PositionEffect ==
  ASSUME TypeOK, SortedByTimeout, TransfersAssumption, NEW d \in 0 .. Infinite
  PROVE  /\ Position(d) \in 1 .. Len(flying) + 1
         /\ \A i \in 1 .. Len(flying) :
              IF i < Position(d) THEN left[flying[i]] <= d ELSE d <= left[flying[i]]
<1>1. Len(flying) \in Nat /\ \A i \in 1 .. Len(flying) : flying[i] \in Transfers
  BY ListFacts
<1>2. d \in Nat /\ \A i \in 1 .. Len(flying) : left[flying[i]] \in Nat
  BY <1>1 DEF TypeOK, TransfersAssumption
<1>3. CASE Later(d) = {}
  <2>1. Position(d) = Len(flying) + 1
    BY <1>3 DEF Position
  <2>2. \A i \in 1 .. Len(flying) : ~ left[flying[i]] > d
    BY <1>3 DEF Later
  <2> QED
    BY <1>1, <1>2, <2>1, <2>2
<1>4. CASE Later(d) # {}
  <2>1. Later(d) \in SUBSET Nat
    BY DEF Later
  <2>2. PICK m \in Later(d) : \A j \in Later(d) : m <= j
    BY <1>4, <2>1, LeastNumber
  <2>3. Position(d) = CHOOSE i \in Later(d) : \A j \in Later(d) : i <= j
    BY <1>4 DEF Position
  <2>4. Position(d) \in Later(d) /\ \A j \in Later(d) : Position(d) <= j
    BY <2>2, <2>3
  <2> DEFINE P == Position(d)
  <2>5. P \in 1 .. Len(flying) /\ left[flying[P]] > d
    BY <2>4 DEF Later
  <2>6. ASSUME NEW i \in 1 .. Len(flying), i < P PROVE left[flying[i]] <= d
    <3>1. i \notin Later(d)
      <4> SUFFICES ASSUME i \in Later(d) PROVE FALSE
        OBVIOUS
      <4>1. P <= i /\ i \in Nat /\ P \in Nat
        BY <2>4, <2>5
      <4> QED
        BY <2>6, <4>1
    <3>2. ~ left[flying[i]] > d
      BY <3>1 DEF Later
    <3> QED
      BY <1>2, <3>2
  <2>7. ASSUME NEW i \in 1 .. Len(flying), ~ i < P PROVE d <= left[flying[i]]
    <3>1. CASE i = P
      BY <1>2, <2>5, <3>1
    <3>2. CASE P < i
      <4>1. left[flying[P]] <= left[flying[i]]
        BY <2>5, <3>2 DEF SortedByTimeout
      <4> QED
        BY <1>2, <2>5, <4>1
    <3> QED
      BY <2>5, <2>7, <3>1, <3>2
  <2> QED
    BY <1>1, <2>5, <2>6, <2>7
<1> QED
  BY <1>3, <1>4

LEMMA ListedEffect ==
  ASSUME TypeOK, NoDuplicates, SortedByTimeout, TransfersAssumption,
         NEW x \in Transfers \ Flying, NEW d \in 0 .. Infinite, AddToFlyingList(x, d)
  PROVE  /\ flying' \in Seq(Transfers) /\ Flying' = Flying \cup {x}
         /\ NoDuplicates' /\ SortedByTimeout'
<1> DEFINE P == Position(d)
<1>1. P \in 1 .. Len(flying) + 1 /\ flying \in Seq(Transfers) /\ Len(flying) \in Nat
  BY PositionEffect, ListFacts DEF TypeOK
<1>2. /\ flying' \in Seq(Transfers) /\ Len(flying') = Len(flying) + 1
      /\ \A i \in 1 .. Len(flying) + 1 :
           flying'[i] = IF i < P THEN flying[i] ELSE IF i = P THEN x ELSE flying[i - 1]
  <2>1. flying' = InsertAt(flying, P, x)
    BY DEF AddToFlyingList
  <2> HIDE DEF P
  <2>2. PICK k \in 1 .. Len(flying) + 1 : k = P
    BY <1>1
  <2>3. InsertAt(flying, k, x) \in Seq(Transfers)
    BY <1>1, InsertAtEffect
  <2>4. Len(InsertAt(flying, k, x)) = Len(flying) + 1
    BY <1>1, InsertAtEffect
  <2>5. ASSUME NEW i \in 1 .. Len(flying) + 1
        PROVE  InsertAt(flying, k, x)[i] =
                 IF i < k THEN flying[i] ELSE IF i = k THEN x ELSE flying[i - 1]
    BY <1>1, InsertAtEffect
  <2> QED
    BY <2>1, <2>2, <2>3, <2>4, <2>5
<1>3. \A i \in 1 .. Len(flying) :
        /\ flying[i] \in Transfers /\ flying[i] # x
        /\ IF i < P THEN left[flying[i]] <= d ELSE d <= left[flying[i]]
  BY PositionEffect, ListFacts DEF Flying
<1> HIDE DEF P
<1>4. \A i \in 1 .. Len(flying') :
        \/ i < P /\ i \in 1 .. Len(flying) /\ flying'[i] = flying[i]
        \/ i = P /\ flying'[i] = x
        \/ P < i /\ i - 1 \in 1 .. Len(flying) /\ flying'[i] = flying[i - 1]
  <2> SUFFICES ASSUME NEW i \in 1 .. Len(flying')
               PROVE  \/ i < P /\ i \in 1 .. Len(flying) /\ flying'[i] = flying[i]
                      \/ i = P /\ flying'[i] = x
                      \/ P < i /\ i - 1 \in 1 .. Len(flying) /\ flying'[i] = flying[i - 1]
    OBVIOUS
  <2>1. Len(flying') = Len(flying) + 1
    BY <1>2
  <2>2. i \in 1 .. Len(flying) + 1 /\ i \in Nat /\ P \in Nat /\ P <= Len(flying) + 1
    BY <1>1, <2>1
  <2>3. flying'[i] = IF i < P THEN flying[i] ELSE IF i = P THEN x ELSE flying[i - 1]
    BY <1>2, <2>2
  <2>4. CASE i < P
    BY <1>1, <2>2, <2>3, <2>4
  <2>5. CASE i = P
    BY <2>3, <2>5
  <2>6. CASE P < i
    BY <1>1, <2>2, <2>3, <2>6
  <2> QED
    BY <2>2, <2>4, <2>5, <2>6
<1>5. \A i, j \in 1 .. Len(flying') : flying'[i] = flying'[j] => i = j
  <2> SUFFICES ASSUME NEW i \in 1 .. Len(flying'), NEW j \in 1 .. Len(flying'),
                      flying'[i] = flying'[j]
               PROVE  i = j
    OBVIOUS
  <2>1. \A a, b \in 1 .. Len(flying) : flying[a] = flying[b] => a = b
    BY DEF NoDuplicates
  <2>2. i \in Nat /\ j \in Nat /\ P \in Nat
    BY <1>1, <1>2
  <2>3. CASE i < P
    BY <1>3, <1>4, <2>1, <2>2, <2>3
  <2>4. CASE i = P
    BY <1>3, <1>4, <2>1, <2>2, <2>4
  <2>5. CASE P < i
    BY <1>3, <1>4, <2>1, <2>2, <2>5
  <2> QED
    BY <2>2, <2>3, <2>4, <2>5
<1>6. \A y : y \in Flying' <=> y \in Flying \/ y = x
  <2>1. ASSUME NEW i \in 1 .. Len(flying') PROVE flying'[i] \in Flying \/ flying'[i] = x
    BY <1>4 DEF Flying
  <2>2. ASSUME NEW j \in 1 .. Len(flying)
        PROVE  \E i \in 1 .. Len(flying') : flying'[i] = flying[j]
    <3>1. CASE j < P
      BY <1>1, <1>2, <3>1
    <3>2. CASE ~ j < P
      <4>1. /\ j + 1 \in 1 .. Len(flying') /\ ~ j + 1 < P /\ j + 1 # P
            /\ (j + 1) - 1 = j
        BY <1>1, <1>2, <3>2
      <4>2. flying'[j + 1] = flying[j]
        BY <1>2, <4>1
      <4> QED
        BY <4>1, <4>2
    <3> QED
      BY <3>1, <3>2
  <2>3. P \in 1 .. Len(flying') /\ flying'[P] = x
    BY <1>1, <1>2
  <2> QED
    BY <2>1, <2>2, <2>3 DEF Flying
<1>7. left' = [left EXCEPT ![x] = d] /\ left \in [Transfers -> 0 .. Infinite]
  BY DEF AddToFlyingList, TypeOK
<1>8. left'[x] = d /\ \A i \in 1 .. Len(flying) : left'[flying[i]] = left[flying[i]]
  BY <1>3, <1>7
<1>9. d <= d
  BY DEF TransfersAssumption
<1>10. SortedByTimeout'
  <2> SUFFICES ASSUME NEW i \in 1 .. Len(flying'), NEW j \in 1 .. Len(flying'), i < j
               PROVE  left'[flying'[i]] <= left'[flying'[j]]
    BY DEF SortedByTimeout
  <2>1. CASE j < P
    <3>0. i \in 1 .. Len(flying) /\ j \in 1 .. Len(flying)
      BY <1>1, <1>4, <2>1
    <3>1. left[flying[i]] <= left[flying[j]]
      BY <3>0 DEF SortedByTimeout
    <3>2. /\ i \in 1 .. Len(flying) /\ j \in 1 .. Len(flying)
          /\ flying'[i] = flying[i] /\ flying'[j] = flying[j]
      BY <1>1, <1>4, <2>1
    <3> QED
      BY <1>8, <3>1, <3>2
  <2>2. CASE j = P
    BY <1>1, <1>3, <1>4, <1>8, <2>2
  <2>3. CASE P < j
    <3>1. CASE i < P
      <4>1. i < j - 1 \/ i = j - 1
        BY <1>1, <2>3, <3>1
      <4>2. left[flying[i]] <= left[flying[j - 1]]
        BY <1>1, <1>3, <1>4, <2>3, <3>1, <4>1 DEF SortedByTimeout, TypeOK, TransfersAssumption
      <4>3. i \in 1 .. Len(flying) /\ flying'[i] = flying[i]
        BY <1>1, <1>4, <3>1
      <4>4. j - 1 \in 1 .. Len(flying) /\ flying'[j] = flying[j - 1]
        BY <1>1, <1>4, <2>3
      <4> QED
        BY <1>8, <4>2, <4>3, <4>4
    <3>2. CASE i = P
      <4>1. d <= left[flying[j - 1]]
        BY <1>1, <1>3, <1>4, <2>3
      <4> QED
        BY <1>1, <1>4, <1>8, <2>3, <3>2, <4>1
    <3>3. CASE P < i
      <4>1. left[flying[i - 1]] <= left[flying[j - 1]]
        <5>1. i - 1 \in 1 .. Len(flying)
          BY <1>1, <1>4, <3>3
        <5>2. j - 1 \in 1 .. Len(flying)
          BY <1>1, <1>4, <2>3
        <5>3. i - 1 < j - 1
          BY <1>1
        <5> QED
          BY <5>1, <5>2, <5>3 DEF SortedByTimeout
      <4> QED
        BY <1>1, <1>4, <1>8, <2>3, <3>3, <4>1, SMTT(30)
    <3> QED
      BY <1>1, <3>1, <3>2, <3>3
  <2> QED
    BY <1>1, <2>1, <2>2, <2>3
<1> QED
  BY <1>2, <1>5, <1>6, <1>10 DEF NoDuplicates

\* the clock runs for all finite timeouts alike
LEMMA TickEffect ==
  ASSUME TypeOK, SortedByTimeout, TransfersAssumption, Tick
  PROVE  SortedByTimeout' /\ left' \in [Transfers -> 0 .. Infinite]
<1>1. Infinite \in Nat /\ left \in [Transfers -> 0 .. Infinite]
  BY DEF TransfersAssumption, TypeOK
<1>2. /\ flying' = flying
      /\ \A x \in Transfers :
           left'[x] = IF x \in Flying /\ left[x] \in 1 .. Infinite - 1
                      THEN left[x] - 1 ELSE left[x]
  BY DEF Tick
<1>3. left' \in [Transfers -> 0 .. Infinite]
  <2>1. \A x \in Transfers : left'[x] \in 0 .. Infinite
    BY <1>1, <1>2
  <2>2. left' = [x \in Transfers |-> left'[x]]
    BY DEF Tick
  <2> QED
    BY <2>1, <2>2
<1>4. SortedByTimeout'
  <2> SUFFICES ASSUME NEW i \in 1 .. Len(flying), NEW j \in 1 .. Len(flying), i < j
               PROVE  left'[flying[i]] <= left'[flying[j]]
    BY <1>2 DEF SortedByTimeout
  <2>1. left[flying[i]] <= left[flying[j]]
    BY DEF SortedByTimeout
  <2>2. /\ flying[i] \in Transfers /\ flying[i] \in Flying
        /\ flying[j] \in Transfers /\ flying[j] \in Flying
    BY ListFacts DEF Flying
  <2>3. left[flying[i]] \in 0 .. Infinite /\ left[flying[j]] \in 0 .. Infinite
    BY <1>1, <2>2
  <2> QED
    BY <1>1, <1>2, <2>1, <2>2, <2>3
<1> QED
  BY <1>3, <1>4

LEMMA FirstUnhandledEffect ==
  ASSUME TypeOK, Unhandled # {}
  PROVE  FirstUnhandled \in Flying
<1>1. Unhandled \in SUBSET (1 .. Len(flying)) /\ Unhandled \in SUBSET Nat
  BY DEF Unhandled, ExpiredPrefix
<1>2. PICK m \in Unhandled : \A j \in Unhandled : m <= j
  BY <1>1, LeastNumber
<1> QED
  BY <1>1, <1>2 DEF FirstUnhandled, Flying
-----------------------------------------------------------------------------
(***************************************************************************)
(* One thread at a time has a transfer: the one that submits it, or the    *)
(* one that handles events and completes it.                               *)
(***************************************************************************)
Sole(p) ==
  /\ cur[p] \in Transfers /\ alloc[cur[p]]
  /\ \A q \in Procs : q # p /\ cur[q] = cur[p] => pc[q] \notin SubmitPCs \cup Completing

LEMMA Submitter ==
  ASSUME TransfersAssumption, TypeOK, Control, NEW p \in Procs, pc[p] \in SubmitPCs
  PROVE  /\ Sole(p)
         /\ p \in Transfers => cur[p] = p
         /\ p \notin Transfers => p = "events" /\ cur[p] \in AsyncTransfers
<1> USE DEF TransfersAssumption, Procs, Control, SubmitPCs, Completing, Sole
<1>1. CASE p \in Transfers
  <2>1. cur[p] = p /\ alloc[p]
    BY <1>1
  <2>2. ASSUME NEW q \in Procs, q # p, cur[q] = p
        PROVE  pc[q] \notin SubmitPCs \cup Completing
    <3>1. CASE q \in Transfers
      BY <2>2, <3>1
    <3>2. CASE q = "events"
      BY <1>1, <2>2, <3>2
    <3>3. CASE q = "timer"
      BY <3>3
    <3> QED
      BY <3>1, <3>2, <3>3
  <2> QED
    BY <1>1, <2>1, <2>2
<1>2. CASE p = "events"
  <2>1. /\ cur[p] \in AsyncTransfers /\ cur[p] \in Transfers
        /\ alloc[cur[p]] /\ pc[cur[p]] = "idle"
    BY <1>2
  <2>2. ASSUME NEW q \in Procs, q # p, cur[q] = cur[p]
        PROVE  pc[q] \notin SubmitPCs \cup Completing
    <3>1. CASE q \in Transfers
      BY <2>1, <2>2, <3>1
    <3>2. CASE q = "timer"
      BY <3>2
    <3> QED
      BY <1>2, <2>2, <3>1, <3>2
  <2> QED
    BY <1>2, <2>1, <2>2
<1>3. CASE p = "timer"
  BY <1>3
<1> QED
  BY <1>1, <1>2, <1>3

LEMMA Completer ==
  ASSUME TransfersAssumption, TypeOK, Control, Flight, pc["events"] \in Completing
  PROVE  Sole("events") /\ owed[cur["events"]]
<1> USE DEF TransfersAssumption, Procs, Control, SubmitPCs, Completing, Sole
<1>1. /\ cur["events"] \in Transfers /\ owed[cur["events"]] /\ alloc[cur["events"]]
  BY DEF Flight, CallbackIsOwed
<1>2. ASSUME NEW q \in Procs, q # "events", cur[q] = cur["events"]
      PROVE  pc[q] \notin SubmitPCs \cup Completing
  <2>1. CASE q \in Transfers
    BY <1>1, <1>2, <2>1
  <2>2. CASE q = "timer"
    BY <2>2
  <2> QED
    BY <1>2, <2>1, <2>2
<1> QED
  BY <1>1, <1>2

\* three steps change the list: each adds what is not on it, or takes off
\* what is
ListChange == /\ flying' \in Seq(Transfers) /\ left' \in [Transfers -> 0 .. Infinite]
              /\ NoDuplicates' /\ SortedByTimeout'

LEMMA FillList ==
  ASSUME TransfersAssumption, IInv, NEW p \in Procs, SubmitFill(p)
  PROVE  ListChange /\ cur[p] \notin Flying /\ Flying' = Flying \cup {cur[p]}
<1>0. /\ TypeOK /\ Control /\ Flight /\ NoDuplicates /\ SortedByTimeout
      /\ pc[p] = "fill"
  BY DEF IInv, ListedWhileOwed, NoDuplicates, SubmitFill, Goto
<1>1. /\ cur[p] \in Transfers
      /\ \A q \in Procs : q # p /\ cur[q] = cur[p] => pc[q] \notin SubmitPCs
  BY <1>0, Submitter DEF SubmitPCs, Sole
<1>2. ~ owed[cur[p]]
  BY <1>0, <1>1 DEF Flight
<1>3. cur[p] \notin Flying
  BY <1>0, <1>1, <1>2 DEF IInv, ListedWhileOwed, BeingSubmitted, SubmitPCs
<1>4. PICK d \in Timeouts \cup {Infinite} : AddToFlyingList(cur[p], d)
  BY DEF SubmitFill
<1>5. d \in 0 .. Infinite
  BY DEF TransfersAssumption
<1>6. left' \in [Transfers -> 0 .. Infinite]
  BY <1>0, <1>4, <1>5 DEF AddToFlyingList, TypeOK
<1> QED
  BY <1>0, <1>1, <1>3, <1>4, <1>5, <1>6, ListedEffect DEF ListChange

LEMMA RemoveList ==
  ASSUME TransfersAssumption, IInv, NEW p \in Procs, SubmitRemove(p)
  PROVE  ListChange /\ cur[p] \in Flying /\ Flying' = Flying \ {cur[p]}
<1>0. /\ TypeOK /\ Control /\ NoDuplicates /\ SortedByTimeout
      /\ pc[p] = "remove" /\ RemoveFromFlyingList(cur[p])
  BY DEF IInv, ListedWhileOwed, NoDuplicates, SubmitRemove, Goto
<1>1. cur[p] \in Transfers
  BY <1>0, Submitter DEF SubmitPCs, Sole
<1>2. cur[p] \in Flying
  BY <1>0, <1>1 DEF IInv, ListedWhileOwed, BeingSubmitted
<1>3. left' \in [Transfers -> 0 .. Infinite]
  BY <1>0, <1>1 DEF RemoveFromFlyingList, TypeOK, TransfersAssumption
<1> QED
  BY <1>0, <1>2, <1>3, UnlistedEffect DEF ListChange

LEMMA CompletionList ==
  ASSUME TransfersAssumption, IInv, Completion
  PROVE  /\ ListChange
         /\ cur["events"] \in Flying /\ Flying' = Flying \ {cur["events"]}
<1>0. /\ TypeOK /\ Control /\ Flight /\ NoDuplicates /\ SortedByTimeout
      /\ pc["events"] = "completion" /\ RemoveFromFlyingList(cur["events"])
  BY DEF IInv, ListedWhileOwed, NoDuplicates, Completion, Goto
<1>1. cur["events"] \in Transfers /\ owed[cur["events"]]
  BY <1>0, Completer DEF Completing, Sole
<1>2. cur["events"] \in Flying
  BY <1>0, <1>1 DEF IInv, ListedWhileOwed, BeingCompleted
<1>3. left' \in [Transfers -> 0 .. Infinite]
  BY <1>0, <1>1 DEF RemoveFromFlyingList, TypeOK, TransfersAssumption
<1> QED
  BY <1>0, <1>2, <1>3, UnlistedEffect DEF ListChange

\* who may have a transfer, as the lemmas on the steps use it
LEMMA Actors ==
  ASSUME TransfersAssumption, IInv
  PROVE  /\ /\ "events" \in Procs /\ "timer" \in Procs /\ Transfers \subseteq Procs
            /\ "events" \notin Transfers /\ "timer" \notin Transfers /\ None \notin Procs
            /\ Transfers = SyncTransfers \cup AsyncTransfers
            /\ SyncTransfers \cap AsyncTransfers = {}
         /\ \A p \in Procs : pc[p] \in SubmitPCs =>
              /\ Sole(p)
              /\ p \in Transfers => cur[p] = p
              /\ p \notin Transfers => p = "events" /\ cur[p] \in AsyncTransfers
         /\ pc["events"] \in Completing => Sole("events") /\ owed[cur["events"]]
<1>0. TypeOK /\ Control /\ Flight
  BY DEF IInv
<1>1. /\ "events" \in Procs /\ "timer" \in Procs /\ Transfers \subseteq Procs
      /\ "events" \notin Transfers /\ "timer" \notin Transfers /\ None \notin Procs
      /\ Transfers = SyncTransfers \cup AsyncTransfers
      /\ SyncTransfers \cap AsyncTransfers = {}
  BY DEF Procs, TransfersAssumption, Transfers
<1> QED
  BY <1>0, <1>1, Submitter, Completer

\* a transfer that is owed its callback and not locked rests with the kernel
LEMMA Resting ==
  ASSUME TransfersAssumption, IInv, NEW x \in Transfers, owed[x], lock[x] = None
  PROVE  /\ alloc[x] /\ cur[x] = x /\ pc[x] \in {"idle", "wait"}
         /\ \A q \in Procs : cur[q] = x => pc[q] \notin SubmitPCs
<1>0. TypeOK /\ Control /\ Flight /\ LocksHeld
  BY DEF IInv
<1>1. alloc[x] /\ cur[x] = x /\ x \in Procs
  BY <1>0 DEF Flight, Control, Procs
<1>2. \A q \in Procs : cur[q] = x => pc[q] \notin {"submit", "fill", "backend", "remove"}
  BY <1>0 DEF Flight
<1>3. ASSUME NEW q \in Procs, cur[q] = x, pc[q] = "inFlight" PROVE FALSE
  <2>1. lock[x] = q
    BY <1>0, <1>3 DEF LocksHeld
  <2> QED
    BY <2>1 DEF TransfersAssumption
<1>4. \A q \in Procs : cur[q] = x => pc[q] \notin SubmitPCs
  BY <1>2, <1>3 DEF SubmitPCs
<1> QED
  BY <1>0, <1>1, <1>4 DEF Control

\* libusb_cancel_transfer leaves it in flight, and a URB discarded if it succeeds
LEMMA CancelEffect ==
  ASSUME TypeOK, NEW x \in Transfers, CancelTransfer(x)
  PROVE  /\ \A y \in Transfers : "IN_FLIGHT" \in state_flags'[y] <=> "IN_FLIGHT" \in state_flags[y]
         /\ \A y \in Transfers : y # x => urb'[y] = urb[y]
         /\ urb'[x] = IF CancelSucceeds(x) THEN "discarded" ELSE urb[x]
         /\ CancelSucceeds(x) => "IN_FLIGHT" \in state_flags[x] /\ urb[x] = "pending"
<1>1. /\ state_flags \in [Transfers -> SUBSET {"IN_FLIGHT", "CANCELLING"}]
      /\ urb \in [Transfers -> {"none", "pending", "done", "discarded", "lost"}]
  BY DEF TypeOK
<1>2. \A y \in Transfers : "IN_FLIGHT" \in state_flags'[y] <=> "IN_FLIGHT" \in state_flags[y]
  BY <1>1 DEF CancelTransfer
<1>3. /\ \A y \in Transfers : y # x => urb'[y] = urb[y]
      /\ urb'[x] = IF CancelSucceeds(x) THEN "discarded" ELSE urb[x]
  BY <1>1 DEF CancelTransfer
<1> QED
  BY <1>2, <1>3 DEF CancelSucceeds, Cancellable
-----------------------------------------------------------------------------
LEMMA TypeStep ==
  ASSUME TransfersAssumption, IInv, [Next]_vars
  PROVE  TypeOK'
<1> USE DEF States, Goto, locks, list, flags, device, ghosts
<1>0. TypeOK /\ Control /\ Flight
  BY DEF IInv
<1>p. "events" \in Procs /\ "timer" \in Procs /\ Transfers \subseteq Procs
  BY DEF Procs
<1>1. ASSUME NEW x \in Transfers, Alloc(x) PROVE TypeOK'
  BY <1>0, <1>p, <1>1 DEF TypeOK, Alloc
<1>2. ASSUME NEW x \in Transfers, Again(x) PROVE TypeOK'
  BY <1>0, <1>p, <1>2 DEF TypeOK, Again
<1>3. ASSUME NEW x \in Transfers, SyncReturn(x) PROVE TypeOK'
  BY <1>0, <1>p, <1>3 DEF TypeOK, SyncReturn
<1>4. ASSUME NEW x \in Transfers, Cancel(x) PROVE TypeOK'
  <2>1. state_flags' \in [Transfers -> SUBSET {"IN_FLIGHT", "CANCELLING"}]
    BY <1>0, <1>p, <1>4 DEF TypeOK, Cancel, CancelTransfer
  <2>2. urb' \in [Transfers -> {"none", "pending", "done", "discarded", "lost"}]
    BY <1>0, <1>p, <1>4 DEF TypeOK, Cancel, CancelTransfer
  <2>3. cause' \in [Transfers -> {"none", "user", "timeout"}]
    BY <1>0, <1>p, <1>4 DEF TypeOK, Cancel
  <2> QED
    BY <1>0, <1>p, <1>4, <2>1, <2>2, <2>3 DEF TypeOK, Cancel
<1>5. ASSUME NEW x \in Transfers, Answer(x) PROVE TypeOK'
  BY <1>0, <1>p, <1>5 DEF TypeOK, Answer
<1>6. ASSUME NEW p \in Procs, SubmitLock(p) PROVE TypeOK'
  BY <1>0, <1>p, <1>6 DEF SubmitLock, TypeOK
<1>7. ASSUME NEW p \in Procs, SubmitFill(p) PROVE TypeOK'
  <2>1. ListChange
    BY <1>7, FillList
  <2> QED
    BY <1>0, <1>p, <1>7, <2>1 DEF TypeOK, SubmitFill, ListChange, Procs
<1>8. ASSUME NEW p \in Procs, SubmitBackend(p) PROVE TypeOK'
  BY <1>0, <1>p, <1>8 DEF SubmitBackend, TypeOK
<1>9. ASSUME NEW p \in Procs, SubmitInFlight(p) PROVE TypeOK'
  BY <1>0, <1>p, <1>9 DEF SubmitInFlight, TypeOK
<1>10. ASSUME NEW p \in Procs, SubmitFailed(p) PROVE TypeOK'
  BY <1>0, <1>p, <1>10 DEF SubmitFailed, TypeOK
<1>11. ASSUME NEW p \in Procs, SubmitRemove(p) PROVE TypeOK'
  <2>1. ListChange
    BY <1>11, RemoveList
  <2> QED
    BY <1>0, <1>p, <1>11, <2>1 DEF TypeOK, SubmitRemove, ListChange, Procs
<1>12. CASE Cancellation
  <2>1. verdict' \in Statuses
    BY <1>0, <1>p, <1>12 DEF Cancellation, Statuses
  <2> QED
    BY <1>0, <1>p, <1>12, <2>1 DEF TypeOK, Cancellation
<1>13. CASE Completion
  <2>1. ListChange
    BY <1>13, CompletionList
  <2> QED
    BY <1>0, <1>p, <1>13, <2>1 DEF TypeOK, Completion, ListChange
<1>14. CASE Landed
  BY <1>0, <1>p, <1>14 DEF TypeOK, Landed
<1>15. CASE Callback
  <2>1. cur["events"] \in Transfers
    BY <1>0, <1>p, <1>15 DEF Callback, Control, Completing
  <2>2. pc' \in [Procs -> States] /\ alloc' \in [Transfers -> BOOLEAN]
    BY <1>0, <1>p, <1>15, <2>1 DEF TypeOK, Callback
  <2>3. /\ status' \in [Transfers -> Statuses \cup {None}] /\ owed' \in [Transfers -> BOOLEAN]
        /\ cause' \in [Transfers -> {"none", "user", "timeout"}] /\ verdict' \in Statuses
    BY <1>0, <1>15, <2>1 DEF TypeOK, Callback, Statuses
  <2> QED
    BY <1>0, <1>15, <2>2, <2>3 DEF TypeOK, Callback
<1>16. CASE DisconnectBegin
  BY <1>0, <1>p, <1>16 DEF TypeOK, DisconnectBegin
<1>17. CASE DisconnectLook
  <2>1. Head(scan) \in Transfers /\ Tail(scan) \in Seq(Transfers)
    BY <1>0, <1>p, <1>17, HeadTailProperties DEF TypeOK, DisconnectLook
  <2>2. CASE "IN_FLIGHT" \in state_flags[Head(scan)]
    <3>1. pc' \in [Procs -> States] /\ cur' \in [Procs -> Transfers \cup {None}]
      <4>1. /\ pc' = [pc EXCEPT !["events"] = "clear"]
            /\ cur' = [cur EXCEPT !["events"] = Head(scan)]
        BY <1>17, <2>2 DEF DisconnectLook
      <4> QED
        BY <1>0, <1>p, <2>1, <4>1 DEF TypeOK
    <3>2. flying_transfers_lock' = None /\ UNCHANGED scan
      BY <1>17, <2>2 DEF DisconnectLook
    <3> QED
      BY <1>0, <1>17, <3>1, <3>2 DEF TypeOK, DisconnectLook
  <2>3. CASE "IN_FLIGHT" \notin state_flags[Head(scan)]
    BY <1>0, <1>p, <1>17, <2>1, <2>3 DEF TypeOK, DisconnectLook
  <2> QED
    BY <2>2, <2>3
<1>18. CASE DisconnectClear
  <2>1. verdict' \in Statuses
    BY <1>0, <1>p, <1>18 DEF DisconnectClear, Statuses
  <2> QED
    BY <1>0, <1>p, <1>18, <2>1 DEF TypeOK, DisconnectClear
<1>19. CASE DisconnectEnd
  BY <1>0, <1>p, <1>19 DEF TypeOK, DisconnectEnd
<1>20. ASSUME NEW x \in Transfers, Reap(x) PROVE TypeOK'
  <2>1. pc' \in [Procs -> States] /\ verdict' \in Statuses
    BY <1>0, <1>p, <1>20 DEF TypeOK, Reap, Statuses
  <2> QED
    BY <1>0, <1>p, <1>20, <2>1 DEF TypeOK, Reap
<1>21. CASE TimeoutsBegin
  BY <1>0, <1>p, <1>21 DEF TypeOK, TimeoutsBegin
<1>22. CASE HandleTimeout
  <2> DEFINE x == FirstUnhandled
  <2>0. x \in Transfers
    BY <1>0, <1>p, <1>22, FirstUnhandledEffect, ListFacts DEF HandleTimeout
  <2> HIDE DEF x
  <2>1. state_flags' \in [Transfers -> SUBSET {"IN_FLIGHT", "CANCELLING"}]
    BY <1>0, <1>p, <1>22, <2>0 DEF TypeOK, HandleTimeout, CancelTransfer
  <2>2. urb' \in [Transfers -> {"none", "pending", "done", "discarded", "lost"}]
    BY <1>0, <1>p, <1>22, <2>0 DEF TypeOK, HandleTimeout, CancelTransfer
  <2>3. timeout_flags' \in [Transfers -> {{}, {"HANDLED"}, {"HANDLED", "TIMED_OUT"}}]
    BY <1>0, <1>p, <1>22, <2>0 DEF TypeOK, HandleTimeout, x
  <2>4. cause' \in [Transfers -> {"none", "user", "timeout"}]
    BY <1>0, <1>p, <1>22, <2>0 DEF TypeOK, HandleTimeout, x
  <2>5. pc' \in [Procs -> States] /\ cur' \in [Procs -> Transfers \cup {None}]
    BY <1>0, <1>p, <1>22, <2>0 DEF TypeOK, HandleTimeout, x
  <2> QED
    BY <1>0, <1>p, <1>22, <2>1, <2>2, <2>3, <2>4, <2>5 DEF TypeOK, HandleTimeout
<1>23. CASE SetTimedOut
  <2>1. cur["timer"] \in Transfers /\ "HANDLED" \in timeout_flags[cur["timer"]]
    BY <1>0, <1>p, <1>23, ListFacts DEF SetTimedOut, IInv, Stamps
  <2>2. timeout_flags' \in [Transfers -> {{}, {"HANDLED"}, {"HANDLED", "TIMED_OUT"}}]
    BY <1>0, <1>p, <1>23, <2>1 DEF TypeOK, SetTimedOut
  <2> QED
    BY <1>0, <1>p, <1>23, <2>2 DEF TypeOK, SetTimedOut
<1>24. CASE TimeoutsEnd
  BY <1>0, <1>p, <1>24 DEF TypeOK, TimeoutsEnd
<1>25. CASE Unplug
  <2>1. urb' \in [Transfers -> {"none", "pending", "done", "discarded", "lost"}]
    BY <1>0, <1>p, <1>25 DEF TypeOK, Unplug
  <2> QED
    BY <1>0, <1>p, <1>25, <2>1 DEF TypeOK, Unplug
<1>26. CASE Tick
  <2>1. left' \in [Transfers -> 0 .. Infinite]
    BY <1>0, <1>p, <1>26, TickEffect DEF IInv
  <2> QED
    BY <1>0, <1>p, <1>26, <2>1 DEF TypeOK, Tick
<1>27. CASE UNCHANGED vars
  BY <1>0, <1>27 DEF TypeOK, vars
<1> QED
  BY <1>1, <1>2, <1>3, <1>4, <1>5, <1>6, <1>7, <1>8, <1>9, <1>10, <1>11, <1>12, <1>13, <1>14,
     <1>15, <1>16, <1>17, <1>18, <1>19, <1>20, <1>21, <1>22, <1>23, <1>24, <1>25, <1>26, <1>27
     DEF Next, Submitting, Events, Timer

LEMMA ControlStep ==
  ASSUME TransfersAssumption, IInv, TypeOK', [Next]_vars
  PROVE  Control'
<1>0. /\ TypeOK /\ Control /\ Flight /\ LocksHeld /\ Kernel
      /\ pc \in [Procs -> States] /\ cur \in [Procs -> Transfers \cup {None}]
      /\ alloc \in [Transfers -> BOOLEAN]
  BY DEF IInv, TypeOK
<1>1. ASSUME NEW x \in Transfers, Alloc(x) PROVE Control'
  BY <1>0, Actors, <1>1 DEF Control, Alloc, Goto, SubmitPCs, Completing, Sole
<1>2. ASSUME NEW x \in Transfers, Again(x) PROVE Control'
  BY <1>0, Actors, <1>2 DEF Control, Again, Goto, SubmitPCs, Completing, Sole
<1>3. ASSUME NEW x \in Transfers, SyncReturn(x) PROVE Control'
  BY <1>0, Actors, <1>3 DEF Control, SyncReturn, Goto, SubmitPCs, Completing, Sole
<1>4. ASSUME NEW p \in Procs, SubmitLock(p) PROVE Control'
  BY <1>0, Actors, <1>4 DEF Control, SubmitLock, Goto, SubmitPCs, Completing, Sole
<1>5. ASSUME NEW p \in Procs, SubmitFill(p) PROVE Control'
  BY <1>0, Actors, <1>5 DEF Control, SubmitFill, Goto, SubmitPCs, Completing, Sole
<1>6. ASSUME NEW p \in Procs, SubmitBackend(p) PROVE Control'
  BY <1>0, Actors, <1>6 DEF Control, SubmitBackend, Goto, SubmitPCs, Completing, Sole
<1>7. ASSUME NEW p \in Procs, SubmitInFlight(p) PROVE Control'
  BY <1>0, Actors, <1>7 DEF Control, SubmitInFlight, Goto, SubmitPCs, Completing, Sole
<1>8. ASSUME NEW p \in Procs, SubmitFailed(p) PROVE Control'
  BY <1>0, Actors, <1>8 DEF Control, SubmitFailed, Goto, SubmitPCs, Completing, Sole
<1>9. ASSUME NEW p \in Procs, SubmitRemove(p) PROVE Control'
  BY <1>0, Actors, <1>9 DEF Control, SubmitRemove, Goto, SubmitPCs, Completing, Sole
<1>10. CASE Cancellation
  BY <1>0, Actors, <1>10 DEF Control, Cancellation, Goto, SubmitPCs, Completing, Sole
<1>11. CASE Completion
  BY <1>0, Actors, <1>11 DEF Control, Completion, Goto, SubmitPCs, Completing, Sole
<1>12. CASE Landed
  BY <1>0, Actors, <1>12 DEF Control, Landed, Goto, SubmitPCs, Completing, Sole
<1>13. CASE Callback
  BY <1>0, Actors, <1>13 DEF Control, Callback, Goto, SubmitPCs, Completing, Sole
<1>14. CASE DisconnectBegin
  BY <1>0, Actors, <1>14 DEF Control, DisconnectBegin, Goto, SubmitPCs, Completing, Sole
<1>15. CASE DisconnectLook
  <2>1. CASE "IN_FLIGHT" \notin state_flags[Head(scan)]
    BY <1>0, <1>15, <2>1 DEF Control, DisconnectLook
  <2>2. CASE "IN_FLIGHT" \in state_flags[Head(scan)]
    <3>1. Head(scan) \in Transfers
      BY <1>0, <1>15, HeadTailProperties DEF TypeOK, DisconnectLook
    <3>2. owed[Head(scan)] /\ lock[Head(scan)] = None
      BY <1>0, <1>15, <2>2, <3>1 DEF Flight, DisconnectLook
    <3>3. alloc[Head(scan)] /\ pc[Head(scan)] \in {"idle", "wait"}
      BY <3>1, <3>2, Resting
    <3> QED
      BY <1>0, Actors, <1>15, <2>2, <3>1, <3>3
         DEF Control, DisconnectLook, Goto, SubmitPCs, Completing
  <2> QED
    BY <2>1, <2>2
<1>16. CASE DisconnectClear
  BY <1>0, Actors, <1>16 DEF Control, DisconnectClear, Goto, SubmitPCs, Completing, Sole
<1>17. CASE DisconnectEnd
  BY <1>0, Actors, <1>17 DEF Control, DisconnectEnd, Goto, SubmitPCs, Completing, Sole
<1>18. ASSUME NEW x \in Transfers, Reap(x) PROVE Control'
  <2>1. owed[x] /\ lock[x] = None
    BY <1>0, <1>18 DEF Reap, Kernel
  <2>2. alloc[x] /\ pc[x] \in {"idle", "wait"}
    BY <2>1, Resting
  <2> QED
    BY <1>0, Actors, <1>18, <2>2 DEF Control, Reap, Goto, SubmitPCs, Completing
<1>19. CASE TimeoutsBegin
  BY <1>0, Actors, <1>19 DEF Control, TimeoutsBegin, Goto, SubmitPCs, Completing, Sole
<1>20. CASE HandleTimeout
  BY <1>0, Actors, <1>20 DEF Control, HandleTimeout, Goto, SubmitPCs, Completing, Sole
<1>21. CASE SetTimedOut
  BY <1>0, Actors, <1>21 DEF Control, SetTimedOut, Goto, SubmitPCs, Completing, Sole
<1>22. CASE TimeoutsEnd
  BY <1>0, Actors, <1>22 DEF Control, TimeoutsEnd, Goto, SubmitPCs, Completing, Sole
<1>23. ASSUME NEW x \in Transfers,
             Cancel(x) \/ Answer(x)
      PROVE  Control'
  BY <1>0, <1>23
     DEF Control, Cancel, Answer, locks, list, flags, device, ghosts
<1>24. CASE Unplug \/ Tick \/ UNCHANGED vars
  BY <1>0, <1>24
     DEF Control, Unplug, Tick, locks, list, flags, device, ghosts, vars
<1> QED
  BY <1>1, <1>2, <1>3, <1>4, <1>5, <1>6, <1>7, <1>8, <1>9, <1>10, <1>11, <1>12,
     <1>13, <1>14, <1>15, <1>16, <1>17, <1>18, <1>19, <1>20, <1>21, <1>22,
     <1>23, <1>24
     DEF Next, Submitting, Events, Timer

LEMMA LocksStep ==
  ASSUME TransfersAssumption, IInv, TypeOK', [Next]_vars
  PROVE  LocksHeld'
<1>0. /\ TypeOK /\ Control /\ LocksHeld
      /\ pc \in [Procs -> States] /\ cur \in [Procs -> Transfers \cup {None}]
      /\ lock \in [Transfers -> Procs \cup {None}]
  BY DEF IInv, TypeOK
<1>1. ASSUME NEW x \in Transfers, Alloc(x) PROVE LocksHeld'
  BY <1>0, Actors, <1>1 DEF LocksHeld, Alloc, Goto, SubmitPCs, Completing, Sole, locks
<1>2. ASSUME NEW x \in Transfers, Again(x) PROVE LocksHeld'
  BY <1>0, Actors, <1>2 DEF LocksHeld, Again, Goto, SubmitPCs, Completing, Sole, locks
<1>3. ASSUME NEW x \in Transfers, SyncReturn(x) PROVE LocksHeld'
  BY <1>0, Actors, <1>3 DEF LocksHeld, SyncReturn, Goto, SubmitPCs, Completing, Sole, locks
<1>4. ASSUME NEW p \in Procs, SubmitLock(p) PROVE LocksHeld'
  BY <1>0, Actors, <1>4 DEF LocksHeld, SubmitLock, Goto, SubmitPCs, Completing, Sole, locks
<1>5. ASSUME NEW p \in Procs, SubmitFill(p) PROVE LocksHeld'
  BY <1>0, Actors, <1>5 DEF LocksHeld, SubmitFill, Goto, SubmitPCs, Completing, Sole, locks
<1>6. ASSUME NEW p \in Procs, SubmitBackend(p) PROVE LocksHeld'
  BY <1>0, Actors, <1>6 DEF LocksHeld, SubmitBackend, Goto, SubmitPCs, Completing, Sole, locks
<1>7. ASSUME NEW p \in Procs, SubmitInFlight(p) PROVE LocksHeld'
  BY <1>0, Actors, <1>7 DEF LocksHeld, SubmitInFlight, Goto, SubmitPCs, Completing, Sole, locks
<1>8. ASSUME NEW p \in Procs, SubmitFailed(p) PROVE LocksHeld'
  BY <1>0, Actors, <1>8 DEF LocksHeld, SubmitFailed, Goto, SubmitPCs, Completing, Sole, locks
<1>9. ASSUME NEW p \in Procs, SubmitRemove(p) PROVE LocksHeld'
  BY <1>0, Actors, <1>9 DEF LocksHeld, SubmitRemove, Goto, SubmitPCs, Completing, Sole, locks
<1>10. CASE Cancellation
  BY <1>0, Actors, <1>10 DEF LocksHeld, Cancellation, Goto, SubmitPCs, Completing, Sole, locks
<1>11. CASE Completion
  BY <1>0, Actors, <1>11 DEF LocksHeld, Completion, Goto, SubmitPCs, Completing, Sole, locks
<1>12. CASE Landed
  BY <1>0, Actors, <1>12 DEF LocksHeld, Landed, Goto, SubmitPCs, Completing, Sole, locks
<1>13. CASE Callback
  BY <1>0, Actors, <1>13 DEF LocksHeld, Callback, Goto, SubmitPCs, Completing, Sole, locks
<1>14. CASE DisconnectBegin
  BY <1>0, Actors, <1>14 DEF LocksHeld, DisconnectBegin, Goto, SubmitPCs, Completing, Sole, locks
<1>15. CASE DisconnectLook
  BY <1>0, Actors, <1>15 DEF LocksHeld, DisconnectLook, Goto, SubmitPCs, Completing, Sole, locks
<1>16. CASE DisconnectClear
  BY <1>0, Actors, <1>16 DEF LocksHeld, DisconnectClear, Goto, SubmitPCs, Completing, Sole, locks
<1>17. CASE DisconnectEnd
  BY <1>0, Actors, <1>17 DEF LocksHeld, DisconnectEnd, Goto, SubmitPCs, Completing, Sole, locks
<1>18. ASSUME NEW x \in Transfers, Reap(x) PROVE LocksHeld'
  BY <1>0, Actors, <1>18 DEF LocksHeld, Reap, Goto, SubmitPCs, Completing, Sole, locks
<1>19. CASE TimeoutsBegin
  BY <1>0, Actors, <1>19 DEF LocksHeld, TimeoutsBegin, Goto, SubmitPCs, Completing, Sole, locks
<1>20. CASE HandleTimeout
  BY <1>0, Actors, <1>20 DEF LocksHeld, HandleTimeout, Goto, SubmitPCs, Completing, Sole, locks
<1>21. CASE SetTimedOut
  BY <1>0, Actors, <1>21 DEF LocksHeld, SetTimedOut, Goto, SubmitPCs, Completing, Sole, locks
<1>22. CASE TimeoutsEnd
  BY <1>0, Actors, <1>22 DEF LocksHeld, TimeoutsEnd, Goto, SubmitPCs, Completing, Sole, locks
<1>23. ASSUME NEW x \in Transfers,
             Cancel(x) \/ Answer(x)
      PROVE  LocksHeld'
  BY <1>0, <1>23
     DEF LocksHeld, Cancel, Answer, locks, list, flags, device, ghosts
<1>24. CASE Unplug \/ Tick \/ UNCHANGED vars
  BY <1>0, <1>24
     DEF LocksHeld, Unplug, Tick, locks, list, flags, device, ghosts, vars
<1> QED
  BY <1>1, <1>2, <1>3, <1>4, <1>5, <1>6, <1>7, <1>8, <1>9, <1>10, <1>11, <1>12,
     <1>13, <1>14, <1>15, <1>16, <1>17, <1>18, <1>19, <1>20, <1>21, <1>22,
     <1>23, <1>24
     DEF Next, Submitting, Events, Timer

LEMMA FlightStep ==
  ASSUME TransfersAssumption, IInv, TypeOK', [Next]_vars
  PROVE  Flight'
<1>0. /\ TypeOK /\ Control /\ LocksHeld /\ Flight /\ Kernel /\ Waiting
      /\ pc \in [Procs -> States] /\ cur \in [Procs -> Transfers \cup {None}]
      /\ alloc \in [Transfers -> BOOLEAN] /\ owed \in [Transfers -> BOOLEAN]
      /\ state_flags \in [Transfers -> SUBSET {"IN_FLIGHT", "CANCELLING"}]
  BY DEF IInv, TypeOK
<1>1. ASSUME NEW x \in Transfers, Alloc(x) PROVE Flight'
  BY <1>0, Actors, <1>1 DEF Flight, Alloc, CallbackIsOwed, Goto, SubmitPCs, Completing, Sole, flags, ghosts
<1>2. ASSUME NEW x \in Transfers, Again(x) PROVE Flight'
  <2>0. cur[x] = x /\ ~ owed[x]
    BY <1>0, <1>2 DEF Again, Control
  <2>1. \A y \in Transfers : owed'[y] => alloc'[y]
    BY <1>0, Actors, <1>2, <2>0
       DEF Flight, CallbackIsOwed, Again, Goto, SubmitPCs, Completing, Sole, flags, ghosts
  <2>2. \A y \in Transfers :
          owed'[y] <=> \/ "IN_FLIGHT" \in state_flags'[y]
                       \/ \E q \in Procs : pc'[q] = "inFlight" /\ cur'[q] = y
                       \/ pc'["events"] = "callback" /\ cur'["events"] = y
    BY <1>0, Actors, <1>2, <2>0
       DEF Flight, CallbackIsOwed, Again, Goto, SubmitPCs, Completing, Sole, flags, ghosts
  <2>3. \A y \in Transfers : owed'[y] => \A q \in Procs :
          cur'[q] = y => pc'[q] \notin {"submit", "fill", "backend", "remove"}
    BY <1>0, Actors, <1>2, <2>0
       DEF Flight, CallbackIsOwed, Again, Goto, SubmitPCs, Completing, Sole, flags, ghosts
  <2>4. pc'["events"] \in Completing => owed'[cur'["events"]]
    BY <1>0, Actors, <1>2, <2>0
       DEF Flight, CallbackIsOwed, Again, Goto, SubmitPCs, Completing, Sole, flags, ghosts
  <2>5. pc'["events"] = "callback" => "IN_FLIGHT" \notin state_flags'[cur'["events"]]
    BY <1>0, Actors, <1>2, <2>0
       DEF Flight, CallbackIsOwed, Again, Goto, SubmitPCs, Completing, Sole, flags, ghosts
  <2> QED
    BY <2>1, <2>2, <2>3, <2>4, <2>5 DEF Flight, CallbackIsOwed, Completing
<1>3. ASSUME NEW x \in Transfers, SyncReturn(x) PROVE Flight'
  <2>0. ~ owed[x]
    BY <1>0, <1>3 DEF SyncReturn, Waiting
  <2>1. \A y \in Transfers : owed'[y] => alloc'[y]
    BY <1>0, Actors, <1>3, <2>0
       DEF Flight, CallbackIsOwed, SyncReturn, Goto, SubmitPCs, Completing, Sole, flags, ghosts
  <2>2. \A y \in Transfers :
          owed'[y] <=> \/ "IN_FLIGHT" \in state_flags'[y]
                       \/ \E q \in Procs : pc'[q] = "inFlight" /\ cur'[q] = y
                       \/ pc'["events"] = "callback" /\ cur'["events"] = y
    BY <1>0, Actors, <1>3, <2>0
       DEF Flight, CallbackIsOwed, SyncReturn, Goto, SubmitPCs, Completing, Sole, flags, ghosts
  <2>3. \A y \in Transfers : owed'[y] => \A q \in Procs :
          cur'[q] = y => pc'[q] \notin {"submit", "fill", "backend", "remove"}
    BY <1>0, Actors, <1>3, <2>0
       DEF Flight, CallbackIsOwed, SyncReturn, Goto, SubmitPCs, Completing, Sole, flags, ghosts
  <2>4. pc'["events"] \in Completing => owed'[cur'["events"]]
    BY <1>0, Actors, <1>3, <2>0
       DEF Flight, CallbackIsOwed, SyncReturn, Goto, SubmitPCs, Completing, Sole, flags, ghosts
  <2>5. pc'["events"] = "callback" => "IN_FLIGHT" \notin state_flags'[cur'["events"]]
    BY <1>0, Actors, <1>3, <2>0
       DEF Flight, CallbackIsOwed, SyncReturn, Goto, SubmitPCs, Completing, Sole, flags, ghosts
  <2> QED
    BY <2>1, <2>2, <2>3, <2>4, <2>5 DEF Flight, CallbackIsOwed, Completing
<1>4. ASSUME NEW x \in Transfers, Cancel(x) PROVE Flight'
  <2>0. \A y \in Transfers :
          "IN_FLIGHT" \in state_flags'[y] <=> "IN_FLIGHT" \in state_flags[y]
    BY <1>0, <1>4, CancelEffect DEF Cancel
  <2>1. \A y \in Transfers : owed'[y] => alloc'[y]
    BY <1>0, Actors, <1>4, <2>0
       DEF Flight, CallbackIsOwed, Cancel, Goto, SubmitPCs, Completing, Sole, flags, ghosts
  <2>2. \A y \in Transfers :
          owed'[y] <=> \/ "IN_FLIGHT" \in state_flags'[y]
                       \/ \E q \in Procs : pc'[q] = "inFlight" /\ cur'[q] = y
                       \/ pc'["events"] = "callback" /\ cur'["events"] = y
    BY <1>0, Actors, <1>4, <2>0
       DEF Flight, CallbackIsOwed, Cancel, Goto, SubmitPCs, Completing, Sole, flags, ghosts
  <2>3. \A y \in Transfers : owed'[y] => \A q \in Procs :
          cur'[q] = y => pc'[q] \notin {"submit", "fill", "backend", "remove"}
    BY <1>0, Actors, <1>4, <2>0
       DEF Flight, CallbackIsOwed, Cancel, Goto, SubmitPCs, Completing, Sole, flags, ghosts
  <2>4. pc'["events"] \in Completing => owed'[cur'["events"]]
    BY <1>0, Actors, <1>4, <2>0
       DEF Flight, CallbackIsOwed, Cancel, Goto, SubmitPCs, Completing, Sole, flags, ghosts
  <2>5. pc'["events"] = "callback" => "IN_FLIGHT" \notin state_flags'[cur'["events"]]
    BY <1>0, Actors, <1>4, <2>0
       DEF Flight, CallbackIsOwed, Cancel, Goto, SubmitPCs, Completing, Sole, flags, ghosts
  <2> QED
    BY <2>1, <2>2, <2>3, <2>4, <2>5 DEF Flight, CallbackIsOwed, Completing
<1>5. ASSUME NEW p \in Procs, SubmitLock(p) PROVE Flight'
  BY <1>0, Actors, <1>5 DEF Flight, SubmitLock, CallbackIsOwed, Goto, SubmitPCs, Completing, Sole, flags, ghosts
<1>6. ASSUME NEW p \in Procs, SubmitFill(p) PROVE Flight'
  BY <1>0, Actors, <1>6 DEF Flight, SubmitFill, CallbackIsOwed, Goto, SubmitPCs, Completing, Sole, flags, ghosts
<1>7. ASSUME NEW p \in Procs, SubmitBackend(p) PROVE Flight'
  BY <1>0, Actors, <1>7 DEF Flight, SubmitBackend, CallbackIsOwed, Goto, SubmitPCs, Completing, Sole, flags, ghosts
<1>8. ASSUME NEW p \in Procs, SubmitInFlight(p) PROVE Flight'
  BY <1>0, Actors, <1>8 DEF Flight, SubmitInFlight, CallbackIsOwed, Goto, SubmitPCs, Completing, Sole, flags, ghosts
<1>9. ASSUME NEW p \in Procs, SubmitFailed(p) PROVE Flight'
  BY <1>0, Actors, <1>9 DEF Flight, SubmitFailed, CallbackIsOwed, Goto, SubmitPCs, Completing, Sole, flags, ghosts
<1>10. ASSUME NEW p \in Procs, SubmitRemove(p) PROVE Flight'
  BY <1>0, Actors, <1>10 DEF Flight, SubmitRemove, CallbackIsOwed, Goto, SubmitPCs, Completing, Sole, flags, ghosts
<1>11. CASE Cancellation
  BY <1>0, Actors, <1>11 DEF Flight, Cancellation, CallbackIsOwed, Goto, SubmitPCs, Completing, Sole, flags, ghosts
<1>12. CASE Completion
  BY <1>0, Actors, <1>12 DEF Flight, Completion, CallbackIsOwed, Goto, SubmitPCs, Completing, Sole, flags, ghosts
<1>13. CASE Landed
  BY <1>0, Actors, <1>13 DEF Flight, Landed, CallbackIsOwed, Goto, SubmitPCs, Completing, Sole, flags, ghosts
<1>14. CASE Callback
  BY <1>0, Actors, <1>14 DEF Flight, Callback, CallbackIsOwed, Goto, SubmitPCs, Completing, Sole, flags, ghosts
<1>15. CASE DisconnectBegin
  BY <1>0, Actors, <1>15 DEF Flight, DisconnectBegin, CallbackIsOwed, Goto, SubmitPCs, Completing, Sole, flags, ghosts
<1>16. CASE DisconnectLook
  <2>h. Head(scan) \in Transfers
    BY <1>0, <1>16, HeadTailProperties DEF TypeOK, DisconnectLook
  <2>1. \A y \in Transfers : owed'[y] => alloc'[y]
    BY <1>0, Actors, <1>16, <2>h
       DEF Flight, CallbackIsOwed, DisconnectLook, Goto, SubmitPCs, Completing, Sole, flags, ghosts
  <2>2. \A y \in Transfers :
          owed'[y] <=> \/ "IN_FLIGHT" \in state_flags'[y]
                       \/ \E q \in Procs : pc'[q] = "inFlight" /\ cur'[q] = y
                       \/ pc'["events"] = "callback" /\ cur'["events"] = y
    BY <1>0, Actors, <1>16, <2>h
       DEF Flight, CallbackIsOwed, DisconnectLook, Goto, SubmitPCs, Completing, Sole, flags, ghosts
  <2>3. \A y \in Transfers : owed'[y] => \A q \in Procs :
          cur'[q] = y => pc'[q] \notin {"submit", "fill", "backend", "remove"}
    BY <1>0, Actors, <1>16, <2>h
       DEF Flight, CallbackIsOwed, DisconnectLook, Goto, SubmitPCs, Completing, Sole, flags, ghosts
  <2>4. pc'["events"] \in Completing => owed'[cur'["events"]]
    BY <1>0, Actors, <1>16, <2>h
       DEF Flight, CallbackIsOwed, DisconnectLook, Goto, SubmitPCs, Completing, Sole, flags, ghosts
  <2>5. pc'["events"] = "callback" => "IN_FLIGHT" \notin state_flags'[cur'["events"]]
    BY <1>0, Actors, <1>16, <2>h
       DEF Flight, CallbackIsOwed, DisconnectLook, Goto, SubmitPCs, Completing, Sole, flags, ghosts
  <2> QED
    BY <2>1, <2>2, <2>3, <2>4, <2>5 DEF Flight, CallbackIsOwed, Completing
<1>17. CASE DisconnectClear
  BY <1>0, Actors, <1>17 DEF Flight, DisconnectClear, CallbackIsOwed, Goto, SubmitPCs, Completing, Sole, flags, ghosts
<1>18. CASE DisconnectEnd
  BY <1>0, Actors, <1>18 DEF Flight, DisconnectEnd, CallbackIsOwed, Goto, SubmitPCs, Completing, Sole, flags, ghosts
<1>19. ASSUME NEW x \in Transfers, Reap(x) PROVE Flight'
  <2>0. owed[x] /\ lock[x] = None
    BY <1>0, <1>19 DEF Reap, Kernel
  <2>1. \A y \in Transfers : owed'[y] => alloc'[y]
    BY <1>0, Actors, <1>19, <2>0
       DEF Flight, CallbackIsOwed, Reap, Goto, SubmitPCs, Completing, Sole, flags, ghosts
  <2>2. \A y \in Transfers :
          owed'[y] <=> \/ "IN_FLIGHT" \in state_flags'[y]
                       \/ \E q \in Procs : pc'[q] = "inFlight" /\ cur'[q] = y
                       \/ pc'["events"] = "callback" /\ cur'["events"] = y
    BY <1>0, Actors, <1>19, <2>0
       DEF Flight, CallbackIsOwed, Reap, Goto, SubmitPCs, Completing, Sole, flags, ghosts
  <2>3. \A y \in Transfers : owed'[y] => \A q \in Procs :
          cur'[q] = y => pc'[q] \notin {"submit", "fill", "backend", "remove"}
    BY <1>0, Actors, <1>19, <2>0
       DEF Flight, CallbackIsOwed, Reap, Goto, SubmitPCs, Completing, Sole, flags, ghosts
  <2>4. pc'["events"] \in Completing => owed'[cur'["events"]]
    BY <1>0, Actors, <1>19, <2>0
       DEF Flight, CallbackIsOwed, Reap, Goto, SubmitPCs, Completing, Sole, flags, ghosts
  <2>5. pc'["events"] = "callback" => "IN_FLIGHT" \notin state_flags'[cur'["events"]]
    BY <1>0, Actors, <1>19, <2>0
       DEF Flight, CallbackIsOwed, Reap, Goto, SubmitPCs, Completing, Sole, flags, ghosts
  <2> QED
    BY <2>1, <2>2, <2>3, <2>4, <2>5 DEF Flight, CallbackIsOwed, Completing
<1>20. CASE TimeoutsBegin
  BY <1>0, Actors, <1>20 DEF Flight, TimeoutsBegin, CallbackIsOwed, Goto, SubmitPCs, Completing, Sole, flags, ghosts
<1>21. CASE HandleTimeout
  <2>0. \A y \in Transfers :
          "IN_FLIGHT" \in state_flags'[y] <=> "IN_FLIGHT" \in state_flags[y]
    BY <1>0, <1>21, CancelEffect, FirstUnhandledEffect, ListFacts DEF HandleTimeout
  <2>1. \A y \in Transfers : owed'[y] => alloc'[y]
    BY <1>0, Actors, <1>21, <2>0
       DEF Flight, CallbackIsOwed, HandleTimeout, Goto, SubmitPCs, Completing, Sole, flags, ghosts
  <2>2. \A y \in Transfers :
          owed'[y] <=> \/ "IN_FLIGHT" \in state_flags'[y]
                       \/ \E q \in Procs : pc'[q] = "inFlight" /\ cur'[q] = y
                       \/ pc'["events"] = "callback" /\ cur'["events"] = y
    BY <1>0, Actors, <1>21, <2>0
       DEF Flight, CallbackIsOwed, HandleTimeout, Goto, SubmitPCs, Completing, Sole, flags, ghosts
  <2>3. \A y \in Transfers : owed'[y] => \A q \in Procs :
          cur'[q] = y => pc'[q] \notin {"submit", "fill", "backend", "remove"}
    BY <1>0, Actors, <1>21, <2>0
       DEF Flight, CallbackIsOwed, HandleTimeout, Goto, SubmitPCs, Completing, Sole, flags, ghosts
  <2>4. pc'["events"] \in Completing => owed'[cur'["events"]]
    BY <1>0, Actors, <1>21, <2>0
       DEF Flight, CallbackIsOwed, HandleTimeout, Goto, SubmitPCs, Completing, Sole, flags, ghosts
  <2>5. pc'["events"] = "callback" => "IN_FLIGHT" \notin state_flags'[cur'["events"]]
    BY <1>0, Actors, <1>21, <2>0
       DEF Flight, CallbackIsOwed, HandleTimeout, Goto, SubmitPCs, Completing, Sole, flags, ghosts
  <2> QED
    BY <2>1, <2>2, <2>3, <2>4, <2>5 DEF Flight, CallbackIsOwed, Completing
<1>22. CASE SetTimedOut
  BY <1>0, Actors, <1>22 DEF Flight, SetTimedOut, CallbackIsOwed, Goto, SubmitPCs, Completing, Sole, flags, ghosts
<1>23. CASE TimeoutsEnd
  BY <1>0, Actors, <1>23 DEF Flight, TimeoutsEnd, CallbackIsOwed, Goto, SubmitPCs, Completing, Sole, flags, ghosts
<1>24. ASSUME NEW x \in Transfers,
             Answer(x)
      PROVE  Flight'
  BY <1>0, <1>24
     DEF Flight, CallbackIsOwed, Answer, CallbackIsOwed, locks, list, flags, device, ghosts
<1>25. CASE Unplug \/ Tick \/ UNCHANGED vars
  BY <1>0, <1>25
     DEF Flight, Unplug, Tick,
         CallbackIsOwed, locks, list, flags, device, ghosts, vars
<1> QED
  BY <1>1, <1>2, <1>3, <1>4, <1>5, <1>6, <1>7, <1>8, <1>9, <1>10, <1>11, <1>12,
     <1>13, <1>14, <1>15, <1>16, <1>17, <1>18, <1>19, <1>20, <1>21, <1>22,
     <1>23, <1>24, <1>25
     DEF Next, Submitting, Events, Timer

LEMMA KernelStep ==
  ASSUME TransfersAssumption, IInv, TypeOK', [Next]_vars
  PROVE  Kernel'
<1>0. /\ TypeOK /\ Control /\ LocksHeld /\ Flight /\ Kernel
      /\ pc \in [Procs -> States] /\ cur \in [Procs -> Transfers \cup {None}]
      /\ owed \in [Transfers -> BOOLEAN]
      /\ urb \in [Transfers -> {"none", "pending", "done", "discarded", "lost"}]
      /\ cause \in [Transfers -> {"none", "user", "timeout"}]
  BY DEF IInv, TypeOK
<1>1. ASSUME NEW x \in Transfers, Alloc(x) PROVE Kernel'
  BY <1>0, Actors, <1>1 DEF Kernel, Alloc, Goto, SubmitPCs, Completing, Sole, ghosts
<1>2. ASSUME NEW x \in Transfers, Again(x) PROVE Kernel'
  BY <1>0, Actors, <1>2 DEF Kernel, Again, Goto, SubmitPCs, Completing, Sole, ghosts
<1>3. ASSUME NEW x \in Transfers, SyncReturn(x) PROVE Kernel'
  BY <1>0, Actors, <1>3 DEF Kernel, SyncReturn, Goto, SubmitPCs, Completing, Sole, ghosts
<1>4. ASSUME NEW x \in Transfers, Cancel(x) PROVE Kernel'
  <2>1. /\ \A y \in Transfers : y # x => urb'[y] = urb[y] /\ cause'[y] = cause[y]
        /\ CancelSucceeds(x) => urb'[x] = "discarded" /\ cause'[x] = "user" /\ urb[x] = "pending"
        /\ ~ CancelSucceeds(x) => urb'[x] = urb[x] /\ cause'[x] = cause[x]
    BY <1>0, <1>4, CancelEffect DEF Cancel
  <2>2. UNCHANGED <<pc, cur, owed>>
    BY <1>4 DEF Cancel
  <2> QED
    BY <1>0, <2>1, <2>2 DEF Kernel
<1>5. ASSUME NEW x \in Transfers, Answer(x) PROVE Kernel'
  BY <1>0, Actors, <1>5 DEF Kernel, Answer, Goto, SubmitPCs, Completing, Sole, ghosts
<1>6. ASSUME NEW p \in Procs, SubmitLock(p) PROVE Kernel'
  BY <1>0, Actors, <1>6 DEF Kernel, SubmitLock, Goto, SubmitPCs, Completing, Sole, ghosts
<1>7. ASSUME NEW p \in Procs, SubmitFill(p) PROVE Kernel'
  BY <1>0, Actors, <1>7 DEF Kernel, SubmitFill, Goto, SubmitPCs, Completing, Sole, ghosts
<1>8. ASSUME NEW p \in Procs, SubmitBackend(p) PROVE Kernel'
  <2> DEFINE x == cur[p]
  <2>1. pc[p] = "backend" /\ Sole(p)
    BY Actors, <1>8 DEF SubmitBackend, Goto, SubmitPCs
  <2>2. x \in Transfers /\ cause[x] = "none" /\ owed'[x]
    BY <1>0, <1>8, <2>1 DEF Sole, Flight, Kernel, SubmitBackend
  <2>3. pc'["events"] \in Completing => cur["events"] # x
    BY <1>0, Actors, <1>8, <2>1 DEF Sole, SubmitBackend, Goto, Completing
  <2>4. /\ urb' = [urb EXCEPT ![x] = "pending"] /\ UNCHANGED <<cur, cause>>
        /\ \A y \in Transfers : y # x => owed'[y] = owed[y]
        /\ pc'["events"] \in Completing => pc["events"] = pc'["events"]
    BY <1>0, Actors, <1>8 DEF SubmitBackend, Goto, Completing
  <2> HIDE DEF x
  <2> QED
    BY <1>0, <2>2, <2>3, <2>4 DEF Kernel
<1>9. ASSUME NEW p \in Procs, SubmitInFlight(p) PROVE Kernel'
  BY <1>0, Actors, <1>9 DEF Kernel, SubmitInFlight, Goto, SubmitPCs, Completing, Sole, ghosts
<1>10. ASSUME NEW p \in Procs, SubmitFailed(p) PROVE Kernel'
  BY <1>0, Actors, <1>10 DEF Kernel, SubmitFailed, Goto, SubmitPCs, Completing, Sole, ghosts
<1>11. ASSUME NEW p \in Procs, SubmitRemove(p) PROVE Kernel'
  BY <1>0, Actors, <1>11 DEF Kernel, SubmitRemove, Goto, SubmitPCs, Completing, Sole, ghosts
<1>12. CASE Cancellation
  BY <1>0, Actors, <1>12 DEF Kernel, Cancellation, Goto, SubmitPCs, Completing, Sole, ghosts
<1>13. CASE Completion
  BY <1>0, Actors, <1>13 DEF Kernel, Completion, Goto, SubmitPCs, Completing, Sole, ghosts
<1>14. CASE Landed
  BY <1>0, Actors, <1>14 DEF Kernel, Landed, Goto, SubmitPCs, Completing, Sole, ghosts
<1>15. CASE Callback
  BY <1>0, Actors, <1>15 DEF Kernel, Callback, Goto, SubmitPCs, Completing, Sole, ghosts
<1>16. CASE DisconnectBegin
  BY <1>0, Actors, <1>16 DEF Kernel, DisconnectBegin, Goto, SubmitPCs, Completing, Sole, ghosts
<1>17. CASE DisconnectLook
  BY <1>0, Actors, <1>17 DEF Kernel, DisconnectLook, Goto, SubmitPCs, Completing, Sole, ghosts
<1>18. CASE DisconnectClear
  BY <1>0, Actors, <1>18 DEF Kernel, DisconnectClear, Goto, SubmitPCs, Completing, Sole, ghosts
<1>19. CASE DisconnectEnd
  BY <1>0, Actors, <1>19 DEF Kernel, DisconnectEnd, Goto, SubmitPCs, Completing, Sole, ghosts
<1>20. ASSUME NEW x \in Transfers, Reap(x) PROVE Kernel'
  BY <1>0, Actors, <1>20 DEF Kernel, Reap, Goto, SubmitPCs, Completing, Sole, ghosts
<1>21. CASE TimeoutsBegin
  BY <1>0, Actors, <1>21 DEF Kernel, TimeoutsBegin, Goto, SubmitPCs, Completing, Sole, ghosts
<1>22. CASE HandleTimeout
  <2> DEFINE x == FirstUnhandled
  <2>0. x \in Transfers /\ pc'["events"] = pc["events"] /\ cur'["events"] = cur["events"]
    BY <1>0, <1>22, FirstUnhandledEffect, ListFacts DEF HandleTimeout, Goto
  <2>t. /\ CancelTransfer(x) /\ owed' = owed
        /\ cause' = [cause EXCEPT ![x] = IF CancelSucceeds(x) THEN "timeout" ELSE cause[x]]
    BY <1>22 DEF HandleTimeout
  <2> HIDE DEF x
  <2>1. /\ \A y \in Transfers : y # x => urb'[y] = urb[y] /\ cause'[y] = cause[y]
        /\ CancelSucceeds(x) => urb'[x] = "discarded" /\ cause'[x] = "timeout" /\ urb[x] = "pending"
        /\ ~ CancelSucceeds(x) => urb'[x] = urb[x] /\ cause'[x] = cause[x]
    BY <1>0, <2>0, <2>t, CancelEffect
  <2> QED
    BY <1>0, <2>0, <2>1, <2>t DEF Kernel
<1>23. CASE SetTimedOut
  BY <1>0, Actors, <1>23 DEF Kernel, SetTimedOut, Goto, SubmitPCs, Completing, Sole, ghosts
<1>24. CASE TimeoutsEnd
  BY <1>0, Actors, <1>24 DEF Kernel, TimeoutsEnd, Goto, SubmitPCs, Completing, Sole, ghosts
<1>25. CASE Unplug
  BY <1>0, Actors, <1>25 DEF Kernel, Unplug, Goto, SubmitPCs, Completing, Sole, ghosts
<1>26. CASE Tick \/ UNCHANGED vars
  BY <1>0, <1>26
     DEF Kernel, Tick, locks, list, flags, device, ghosts, vars
<1> QED
  BY <1>1, <1>2, <1>3, <1>4, <1>5, <1>6, <1>7, <1>8, <1>9, <1>10, <1>11, <1>12,
     <1>13, <1>14, <1>15, <1>16, <1>17, <1>18, <1>19, <1>20, <1>21, <1>22,
     <1>23, <1>24, <1>25, <1>26
     DEF Next, Submitting, Events, Timer

LEMMA ListStep ==
  ASSUME TransfersAssumption, IInv, TypeOK', [Next]_vars
  PROVE  ListedWhileOwed'
<1>0. /\ TypeOK /\ Control /\ LocksHeld /\ Flight /\ ListedWhileOwed
      /\ pc \in [Procs -> States] /\ cur \in [Procs -> Transfers \cup {None}]
      /\ owed \in [Transfers -> BOOLEAN]
  BY DEF IInv, TypeOK
<1>f. flying' = flying => Flying' = Flying
  BY DEF Flying
<1>1. ASSUME NEW x \in Transfers, Alloc(x) PROVE ListedWhileOwed'
  BY <1>0, <1>f, Actors, <1>1 DEF ListedWhileOwed, Alloc, BeingSubmitted, BeingCompleted, Goto, SubmitPCs, Completing, Sole, list, ghosts
<1>2. ASSUME NEW x \in Transfers, Again(x) PROVE ListedWhileOwed'
  BY <1>0, <1>f, Actors, <1>2 DEF ListedWhileOwed, Again, BeingSubmitted, BeingCompleted, Goto, SubmitPCs, Completing, Sole, list, ghosts
<1>3. ASSUME NEW x \in Transfers, SyncReturn(x) PROVE ListedWhileOwed'
  BY <1>0, <1>f, Actors, <1>3 DEF ListedWhileOwed, SyncReturn, BeingSubmitted, BeingCompleted, Goto, SubmitPCs, Completing, Sole, list, ghosts
<1>4. ASSUME NEW p \in Procs, SubmitLock(p) PROVE ListedWhileOwed'
  BY <1>0, <1>f, Actors, <1>4 DEF ListedWhileOwed, SubmitLock, BeingSubmitted, BeingCompleted, Goto, SubmitPCs, Completing, Sole, list, ghosts
<1>5. ASSUME NEW p \in Procs, SubmitFill(p) PROVE ListedWhileOwed'
  <2>1. ListChange /\ Flying' = Flying \cup {cur[p]}
    BY <1>5, FillList
  <2>2. Sole(p) /\ pc[p] \in SubmitPCs
    BY Actors, <1>5 DEF SubmitFill, Goto, SubmitPCs
  <2>3. \A x \in Transfers :
          x \in Flying' <=> \/ BeingSubmitted(x)'
                            \/ owed'[x] /\ ~ BeingCompleted(x)'
    BY <1>0, Actors, <1>5, <2>1, <2>2
       DEF ListedWhileOwed, Flight, SubmitFill, BeingSubmitted, BeingCompleted, Goto, SubmitPCs, Completing, Sole, list, ghosts
  <2>4. NoDuplicates'
    BY <2>1 DEF ListChange
  <2> QED
    BY <2>3, <2>4 DEF ListedWhileOwed, NoDuplicates
<1>6. ASSUME NEW p \in Procs, SubmitBackend(p) PROVE ListedWhileOwed'
  BY <1>0, <1>f, Actors, <1>6 DEF ListedWhileOwed, SubmitBackend, BeingSubmitted, BeingCompleted, Goto, SubmitPCs, Completing, Sole, list, ghosts
<1>7. ASSUME NEW p \in Procs, SubmitInFlight(p) PROVE ListedWhileOwed'
  BY <1>0, <1>f, Actors, <1>7 DEF ListedWhileOwed, SubmitInFlight, BeingSubmitted, BeingCompleted, Goto, SubmitPCs, Completing, Sole, list, ghosts, Flight
<1>8. ASSUME NEW p \in Procs, SubmitFailed(p) PROVE ListedWhileOwed'
  BY <1>0, <1>f, Actors, <1>8 DEF ListedWhileOwed, SubmitFailed, BeingSubmitted, BeingCompleted, Goto, SubmitPCs, Completing, Sole, list, ghosts
<1>9. ASSUME NEW p \in Procs, SubmitRemove(p) PROVE ListedWhileOwed'
  <2>1. ListChange /\ Flying' = Flying \ {cur[p]}
    BY <1>9, RemoveList
  <2>2. Sole(p) /\ pc[p] \in SubmitPCs
    BY Actors, <1>9 DEF SubmitRemove, Goto, SubmitPCs
  <2>3. \A x \in Transfers :
          x \in Flying' <=> \/ BeingSubmitted(x)'
                            \/ owed'[x] /\ ~ BeingCompleted(x)'
    BY <1>0, Actors, <1>9, <2>1, <2>2
       DEF ListedWhileOwed, Flight, SubmitRemove, BeingSubmitted, BeingCompleted, Goto, SubmitPCs, Completing, Sole, list, ghosts
  <2>4. NoDuplicates'
    BY <2>1 DEF ListChange
  <2> QED
    BY <2>3, <2>4 DEF ListedWhileOwed, NoDuplicates
<1>10. CASE Cancellation
  BY <1>0, <1>f, Actors, <1>10 DEF ListedWhileOwed, Cancellation, BeingSubmitted, BeingCompleted, Goto, SubmitPCs, Completing, Sole, list, ghosts
<1>11. CASE Completion
  <2>1. ListChange /\ Flying' = Flying \ {cur["events"]}
    BY <1>11, CompletionList
  <2>2. \A x \in Transfers :
          x \in Flying' <=> \/ BeingSubmitted(x)'
                            \/ owed'[x] /\ ~ BeingCompleted(x)'
    BY <1>0, Actors, <1>11, <2>1
       DEF ListedWhileOwed, Flight, Completion, BeingSubmitted, BeingCompleted, Goto, SubmitPCs, Completing, Sole, list, ghosts
  <2>4. NoDuplicates'
    BY <2>1 DEF ListChange
  <2> QED
    BY <2>2, <2>4 DEF ListedWhileOwed, NoDuplicates
<1>12. CASE Landed
  BY <1>0, <1>f, Actors, <1>12 DEF ListedWhileOwed, Landed, BeingSubmitted, BeingCompleted, Goto, SubmitPCs, Completing, Sole, list, ghosts
<1>13. CASE Callback
  BY <1>0, <1>f, Actors, <1>13 DEF ListedWhileOwed, Callback, BeingSubmitted, BeingCompleted, Goto, SubmitPCs, Completing, Sole, list, ghosts, Flight
<1>14. CASE DisconnectBegin
  BY <1>0, <1>f, Actors, <1>14 DEF ListedWhileOwed, DisconnectBegin, BeingSubmitted, BeingCompleted, Goto, SubmitPCs, Completing, Sole, list, ghosts
<1>15. CASE DisconnectLook
  BY <1>0, <1>f, Actors, <1>15 DEF ListedWhileOwed, DisconnectLook, BeingSubmitted, BeingCompleted, Goto, SubmitPCs, Completing, Sole, list, ghosts
<1>16. CASE DisconnectClear
  BY <1>0, <1>f, Actors, <1>16 DEF ListedWhileOwed, DisconnectClear, BeingSubmitted, BeingCompleted, Goto, SubmitPCs, Completing, Sole, list, ghosts
<1>17. CASE DisconnectEnd
  BY <1>0, <1>f, Actors, <1>17 DEF ListedWhileOwed, DisconnectEnd, BeingSubmitted, BeingCompleted, Goto, SubmitPCs, Completing, Sole, list, ghosts
<1>18. ASSUME NEW x \in Transfers, Reap(x) PROVE ListedWhileOwed'
  BY <1>0, <1>f, Actors, <1>18 DEF ListedWhileOwed, Reap, BeingSubmitted, BeingCompleted, Goto, SubmitPCs, Completing, Sole, list, ghosts
<1>19. CASE TimeoutsBegin
  BY <1>0, <1>f, Actors, <1>19 DEF ListedWhileOwed, TimeoutsBegin, BeingSubmitted, BeingCompleted, Goto, SubmitPCs, Completing, Sole, list, ghosts
<1>20. CASE HandleTimeout
  BY <1>0, <1>f, Actors, <1>20 DEF ListedWhileOwed, HandleTimeout, BeingSubmitted, BeingCompleted, Goto, SubmitPCs, Completing, Sole, list, ghosts
<1>21. CASE SetTimedOut
  BY <1>0, <1>f, Actors, <1>21 DEF ListedWhileOwed, SetTimedOut, BeingSubmitted, BeingCompleted, Goto, SubmitPCs, Completing, Sole, list, ghosts
<1>22. CASE TimeoutsEnd
  BY <1>0, <1>f, Actors, <1>22 DEF ListedWhileOwed, TimeoutsEnd, BeingSubmitted, BeingCompleted, Goto, SubmitPCs, Completing, Sole, list, ghosts
<1>23. ASSUME NEW x \in Transfers,
             Cancel(x) \/ Answer(x)
      PROVE  ListedWhileOwed'
  BY <1>0, <1>f, <1>23
     DEF ListedWhileOwed, Cancel, Answer,
         locks, list, flags, device, ghosts, BeingSubmitted, BeingCompleted
<1>24. CASE Unplug \/ Tick \/ UNCHANGED vars
  BY <1>0, <1>f, <1>24
     DEF ListedWhileOwed, Unplug, Tick,
         locks, list, flags, device, ghosts, BeingSubmitted, BeingCompleted,
         vars
<1> QED
  BY <1>1, <1>2, <1>3, <1>4, <1>5, <1>6, <1>7, <1>8, <1>9, <1>10, <1>11, <1>12,
     <1>13, <1>14, <1>15, <1>16, <1>17, <1>18, <1>19, <1>20, <1>21, <1>22,
     <1>23, <1>24
     DEF Next, Submitting, Events, Timer

LEMMA SortedStep ==
  ASSUME TransfersAssumption, IInv, TypeOK', [Next]_vars
  PROVE  SortedByTimeout'
<1>0. TypeOK /\ SortedByTimeout
  BY DEF IInv
<1>1. ASSUME NEW p \in Procs, SubmitFill(p) PROVE SortedByTimeout'
  BY <1>1, FillList DEF ListChange
<1>2. ASSUME NEW p \in Procs, SubmitRemove(p) PROVE SortedByTimeout'
  BY <1>2, RemoveList DEF ListChange
<1>3. CASE Completion
  BY <1>3, CompletionList DEF ListChange
<1>4. CASE Tick
  BY <1>0, <1>4, TickEffect
<1>5. ASSUME NEW x \in Transfers,
             \/ Alloc(x) \/ Again(x) \/ SyncReturn(x) \/ Cancel(x) \/ Answer(x)
             \/ Reap(x)
      PROVE  SortedByTimeout'
  BY <1>0, <1>5
     DEF SortedByTimeout, Alloc, Again, SyncReturn, Cancel, Answer, Reap,
         locks, list, flags, device, ghosts
<1>6. ASSUME NEW p \in Procs,
             \/ SubmitLock(p) \/ SubmitBackend(p) \/ SubmitInFlight(p)
             \/ SubmitFailed(p)
      PROVE  SortedByTimeout'
  BY <1>0, <1>6
     DEF SortedByTimeout, SubmitLock, SubmitBackend, SubmitInFlight,
         SubmitFailed, locks, list, flags, device, ghosts
<1>7. CASE \/ Cancellation \/ Landed \/ Callback \/ DisconnectBegin
           \/ DisconnectLook \/ DisconnectClear \/ DisconnectEnd
           \/ TimeoutsBegin \/ HandleTimeout \/ SetTimedOut \/ TimeoutsEnd
           \/ Unplug \/ UNCHANGED vars
  BY <1>0, <1>7
     DEF SortedByTimeout, Cancellation, Landed, Callback, DisconnectBegin,
         DisconnectLook, DisconnectClear, DisconnectEnd, TimeoutsBegin,
         HandleTimeout, SetTimedOut, TimeoutsEnd, Unplug,
         locks, list, flags, device, ghosts, vars
<1> QED
  BY <1>1, <1>2, <1>3, <1>4, <1>5, <1>6, <1>7
     DEF Next, Submitting, Events, Timer

LEMMA StampsStep ==
  ASSUME TransfersAssumption, IInv, TypeOK', [Next]_vars
  PROVE  Stamps'
<1>0. /\ TypeOK /\ Control /\ LocksHeld /\ Flight /\ ListedWhileOwed /\ Kernel /\ Stamps
      /\ FreedIsUntouched
      /\ pc \in [Procs -> States] /\ cur \in [Procs -> Transfers \cup {None}]
      /\ owed \in [Transfers -> BOOLEAN] /\ Flying \subseteq Transfers
      /\ timeout_flags \in [Transfers -> {{}, {"HANDLED"}, {"HANDLED", "TIMED_OUT"}}]
      /\ cause \in [Transfers -> {"none", "user", "timeout"}]
  BY ListFacts DEF IInv, TypeOK
<1>f. flying' = flying => Flying' = Flying
  BY DEF Flying
<1>t. pc["timer"] = "timedOut" => flying_transfers_lock = "timer"
  BY <1>0, Actors DEF LocksHeld
<1>1. ASSUME NEW x \in Transfers, Alloc(x) PROVE Stamps'
  <2>1. x \notin Flying /\ cause[x] = "none"
    BY <1>0, <1>1 DEF Alloc, FreedIsUntouched, Kernel, Flight
  <2> QED
    BY <1>0, <1>f, Actors, <1>1, <2>1 DEF Stamps, Alloc, Goto, list, ghosts
<1>2. ASSUME NEW x \in Transfers, Again(x) PROVE Stamps'
  BY <1>0, <1>f, <1>t, Actors, <1>2 DEF Stamps, Again, Goto, SubmitPCs, Completing, Sole, list, flags, ghosts
<1>3. ASSUME NEW x \in Transfers, SyncReturn(x) PROVE Stamps'
  BY <1>0, <1>f, <1>t, Actors, <1>3 DEF Stamps, SyncReturn, Goto, SubmitPCs, Completing, Sole, list, flags, ghosts
<1>4. ASSUME NEW x \in Transfers, Cancel(x) PROVE Stamps'
  <2>1. CancelSucceeds(x) => cause[x] = "none"
    BY <1>0, <1>4 DEF CancelSucceeds, Kernel
  <2>2. cause' = [cause EXCEPT ![x] = IF CancelSucceeds(x) THEN "user" ELSE cause[x]]
    BY <1>4 DEF Cancel
  <2>3. UNCHANGED <<pc, cur, flying, timeout_flags>>
    BY <1>4 DEF Cancel, list
  <2> QED
    BY <1>0, <1>f, <2>1, <2>2, <2>3 DEF Stamps
<1>5. ASSUME NEW p \in Procs, SubmitLock(p) PROVE Stamps'
  BY <1>0, <1>f, <1>t, Actors, <1>5 DEF Stamps, SubmitLock, Goto, SubmitPCs, Completing, Sole, list, flags, ghosts
<1>6. ASSUME NEW p \in Procs, SubmitFill(p) PROVE Stamps'
  <2> DEFINE x == cur[p]
  <2>1. Flying' = Flying \cup {x}
    BY <1>6, FillList
  <2>2. Sole(p) /\ p # "timer" /\ pc[p] = "fill"
    BY Actors, <1>6 DEF SubmitFill, Goto, SubmitPCs
  <2>3. x \in Transfers /\ cause[x] = "none"
    BY <1>0, <2>2 DEF Sole, Flight, Kernel
  <2>4. pc["timer"] # "timedOut" /\ pc'["timer"] # "timedOut"
    BY <1>0, <1>t, Actors, <1>6, <2>2 DEF LocksHeld, SubmitFill, Goto
  <2>5. timeout_flags' = [timeout_flags EXCEPT ![x] = {}] /\ cause' = cause
    BY <1>6 DEF SubmitFill, ghosts
  <2> HIDE DEF x
  <2> QED
    BY <1>0, <2>1, <2>3, <2>4, <2>5 DEF Stamps
<1>7. ASSUME NEW p \in Procs, SubmitBackend(p) PROVE Stamps'
  BY <1>0, <1>f, <1>t, Actors, <1>7 DEF Stamps, SubmitBackend, Goto, SubmitPCs, Completing, Sole, list, flags, ghosts
<1>8. ASSUME NEW p \in Procs, SubmitInFlight(p) PROVE Stamps'
  BY <1>0, <1>f, <1>t, Actors, <1>8 DEF Stamps, SubmitInFlight, Goto, SubmitPCs, Completing, Sole, list, flags, ghosts
<1>9. ASSUME NEW p \in Procs, SubmitFailed(p) PROVE Stamps'
  BY <1>0, <1>f, <1>t, Actors, <1>9 DEF Stamps, SubmitFailed, Goto, SubmitPCs, Completing, Sole, list, flags, ghosts
<1>10. ASSUME NEW p \in Procs, SubmitRemove(p) PROVE Stamps'
  <2>1. Flying' = Flying \ {cur[p]}
    BY <1>10, RemoveList
  <2>2. pc["timer"] # "timedOut" /\ pc'["timer"] # "timedOut"
    BY <1>0, <1>t, Actors, <1>10 DEF SubmitRemove, Goto
  <2>3. UNCHANGED <<timeout_flags, cause>>
    BY <1>10 DEF SubmitRemove, flags, ghosts
  <2> QED
    BY <1>0, <2>1, <2>2, <2>3 DEF Stamps
<1>11. CASE Cancellation
  BY <1>0, <1>f, <1>t, Actors, <1>11 DEF Stamps, Cancellation, Goto, SubmitPCs, Completing, Sole, list, flags, ghosts
<1>12. CASE Completion
  <2>1. Flying' = Flying \ {cur["events"]}
    BY <1>12, CompletionList
  <2>2. pc["timer"] # "timedOut" /\ pc'["timer"] # "timedOut"
    BY <1>0, <1>t, Actors, <1>12 DEF Completion, Goto
  <2>3. UNCHANGED <<timeout_flags, cause>>
    BY <1>12 DEF Completion, flags, ghosts
  <2> QED
    BY <1>0, <2>1, <2>2, <2>3 DEF Stamps
<1>13. CASE Landed
  BY <1>0, <1>f, <1>t, Actors, <1>13 DEF Stamps, Landed, Goto, SubmitPCs, Completing, Sole, list, flags, ghosts
<1>14. CASE Callback
  <2> DEFINE x == cur["events"]
  <2>1. Sole("events") /\ x \in Transfers /\ pc["events"] = "callback"
    BY Actors, <1>14 DEF Callback, Completing, Sole
  <2>2. x \notin Flying
    BY <1>0, <2>1, Actors
       DEF ListedWhileOwed, BeingSubmitted, BeingCompleted, Sole, SubmitPCs
  <2>3. cause' = [cause EXCEPT ![x] = "none"] /\ UNCHANGED <<flying, timeout_flags, cur>>
    BY <1>14 DEF Callback, list, flags
  <2>4. pc'["timer"] = pc["timer"]
    BY <1>0, Actors, <1>14 DEF Callback, Goto
  <2> HIDE DEF x
  <2> QED
    BY <1>0, <1>f, <2>1, <2>2, <2>3, <2>4 DEF Stamps
<1>15. CASE DisconnectBegin
  BY <1>0, <1>f, <1>t, Actors, <1>15 DEF Stamps, DisconnectBegin, Goto, SubmitPCs, Completing, Sole, list, flags, ghosts
<1>16. CASE DisconnectLook
  BY <1>0, <1>f, <1>t, Actors, <1>16 DEF Stamps, DisconnectLook, Goto, SubmitPCs, Completing, Sole, list, flags, ghosts
<1>17. CASE DisconnectClear
  BY <1>0, <1>f, <1>t, Actors, <1>17 DEF Stamps, DisconnectClear, Goto, SubmitPCs, Completing, Sole, list, flags, ghosts
<1>18. CASE DisconnectEnd
  BY <1>0, <1>f, <1>t, Actors, <1>18 DEF Stamps, DisconnectEnd, Goto, SubmitPCs, Completing, Sole, list, flags, ghosts
<1>19. ASSUME NEW x \in Transfers, Reap(x) PROVE Stamps'
  BY <1>0, <1>f, <1>t, Actors, <1>19 DEF Stamps, Reap, Goto, SubmitPCs, Completing, Sole, list, flags, ghosts
<1>20. CASE TimeoutsBegin
  BY <1>0, <1>f, <1>t, Actors, <1>20 DEF Stamps, TimeoutsBegin, Goto, SubmitPCs, Completing, Sole, list, flags, ghosts
<1>21. CASE HandleTimeout
  <2> DEFINE x == FirstUnhandled
  <2>0. x \in Flying /\ x \in Transfers
    BY <1>0, <1>21, FirstUnhandledEffect DEF HandleTimeout
  <2>1. /\ timeout_flags' = [timeout_flags EXCEPT ![x] = timeout_flags[x] \cup {"HANDLED"}]
        /\ cause' = [cause EXCEPT ![x] = IF CancelSucceeds(x) THEN "timeout" ELSE cause[x]]
        /\ cur' = [cur EXCEPT !["timer"] = x] /\ UNCHANGED flying
        /\ pc["timer"] = "timeouts"
        /\ pc' = [pc EXCEPT !["timer"] = IF CancelSucceeds(x) THEN "timedOut" ELSE "timeouts"]
    BY <1>21 DEF HandleTimeout, Goto, list
  <2> HIDE DEF x
  <2> QED
    BY <1>0, <1>f, Actors, <2>0, <2>1 DEF Stamps
<1>22. CASE SetTimedOut
  BY <1>0, <1>f, <1>t, Actors, <1>22 DEF Stamps, SetTimedOut, Goto, SubmitPCs, Completing, Sole, list, flags, ghosts
<1>23. CASE TimeoutsEnd
  BY <1>0, <1>f, <1>t, Actors, <1>23 DEF Stamps, TimeoutsEnd, Goto, SubmitPCs, Completing, Sole, list, flags, ghosts
<1>24. ASSUME NEW x \in Transfers,
             Answer(x)
      PROVE  Stamps'
  BY <1>0, <1>f, <1>24
     DEF Stamps, Answer, locks, list, flags, device, ghosts
<1>25. CASE Unplug \/ Tick \/ UNCHANGED vars
  BY <1>0, <1>f, <1>25
     DEF Stamps, Unplug, Tick, locks, list, flags, device, ghosts, vars
<1> QED
  BY <1>1, <1>2, <1>3, <1>4, <1>5, <1>6, <1>7, <1>8, <1>9, <1>10, <1>11, <1>12,
     <1>13, <1>14, <1>15, <1>16, <1>17, <1>18, <1>19, <1>20, <1>21, <1>22,
     <1>23, <1>24, <1>25
     DEF Next, Submitting, Events, Timer

LEMMA VerdictsStep ==
  ASSUME TransfersAssumption, IInv, TypeOK', [Next]_vars
  PROVE  Verdicts'
<1>0. /\ TypeOK /\ Control /\ LocksHeld /\ Flight /\ ListedWhileOwed /\ Kernel /\ Stamps
      /\ Verdicts
      /\ pc \in [Procs -> States] /\ cur \in [Procs -> Transfers \cup {None}]
      /\ owed \in [Transfers -> BOOLEAN]
      /\ cause \in [Transfers -> {"none", "user", "timeout"}]
      /\ urb \in [Transfers -> {"none", "pending", "done", "discarded", "lost"}]
  BY DEF IInv, TypeOK
<1>t. pc["timer"] = "timedOut" => flying_transfers_lock = "timer"
  BY <1>0, Actors DEF LocksHeld
<1>1. ASSUME NEW x \in Transfers, Alloc(x) PROVE Verdicts'
  BY <1>0, Actors, <1>1 DEF Verdicts, Alloc, Goto, SubmitPCs, Completing, Sole, ghosts
<1>2. ASSUME NEW x \in Transfers, Again(x) PROVE Verdicts'
  BY <1>0, Actors, <1>2 DEF Verdicts, Again, Goto, SubmitPCs, Completing, Sole, ghosts
<1>3. ASSUME NEW x \in Transfers, SyncReturn(x) PROVE Verdicts'
  BY <1>0, Actors, <1>3 DEF Verdicts, SyncReturn, Goto, SubmitPCs, Completing, Sole, ghosts
<1>4. ASSUME NEW x \in Transfers, Cancel(x) PROVE Verdicts'
  <2>1. CancelSucceeds(x) /\ pc["events"] \in Completing \ {"clear"} => cur["events"] # x
    BY <1>0 DEF CancelSucceeds, Kernel
  <2>2. \A y \in Transfers : y # x \/ ~ CancelSucceeds(x) => cause'[y] = cause[y]
    BY <1>0, <1>4 DEF Cancel
  <2>3. UNCHANGED verdict /\ pc'["events"] = pc["events"] /\ cur'["events"] = cur["events"]
    BY <1>0, Actors, <1>4 DEF Cancel, Goto
  <2>4. pc["events"] \in Completing => cur["events"] \in Transfers
    BY Actors DEF Sole
  <2> QED
    BY <1>0, <2>1, <2>2, <2>3, <2>4 DEF Verdicts, Completing
<1>5. ASSUME NEW p \in Procs, SubmitLock(p) PROVE Verdicts'
  BY <1>0, Actors, <1>5 DEF Verdicts, SubmitLock, Goto, SubmitPCs, Completing, Sole, ghosts
<1>6. ASSUME NEW p \in Procs, SubmitFill(p) PROVE Verdicts'
  BY <1>0, Actors, <1>6 DEF Verdicts, SubmitFill, Goto, SubmitPCs, Completing, Sole, ghosts
<1>7. ASSUME NEW p \in Procs, SubmitBackend(p) PROVE Verdicts'
  BY <1>0, Actors, <1>7 DEF Verdicts, SubmitBackend, Goto, SubmitPCs, Completing, Sole, ghosts
<1>8. ASSUME NEW p \in Procs, SubmitInFlight(p) PROVE Verdicts'
  BY <1>0, Actors, <1>8 DEF Verdicts, SubmitInFlight, Goto, SubmitPCs, Completing, Sole, ghosts
<1>9. ASSUME NEW p \in Procs, SubmitFailed(p) PROVE Verdicts'
  BY <1>0, Actors, <1>9 DEF Verdicts, SubmitFailed, Goto, SubmitPCs, Completing, Sole, ghosts
<1>10. ASSUME NEW p \in Procs, SubmitRemove(p) PROVE Verdicts'
  BY <1>0, Actors, <1>10 DEF Verdicts, SubmitRemove, Goto, SubmitPCs, Completing, Sole, ghosts
<1>11. CASE Cancellation
  <2> DEFINE x == cur["events"]
  <2>1. x \in Transfers /\ owed[x] /\ pc["events"] = "cancellation"
    BY Actors, <1>11 DEF Cancellation, Goto, Completing, Sole
  <2>2. x \in Flying
    BY <1>0, <2>1 DEF ListedWhileOwed, BeingCompleted
  <2>3. pc["timer"] # "timedOut"
    BY <1>t, Actors, <1>11 DEF Cancellation
  <2>4. "TIMED_OUT" \in timeout_flags[x] <=> cause[x] = "timeout"
    BY <1>0, <2>1, <2>2, <2>3 DEF Stamps
  <2>5. cause[x] \in {"user", "timeout"}
    BY <1>0, <2>1 DEF Verdicts
  <2> QED
    BY <1>0, Actors, <1>11, <2>4, <2>5 DEF Verdicts, Cancellation, Goto, ghosts
<1>12. CASE Completion
  BY <1>0, Actors, <1>12 DEF Verdicts, Completion, Goto, SubmitPCs, Completing, Sole, ghosts
<1>13. CASE Landed
  BY <1>0, Actors, <1>13 DEF Verdicts, Landed, Goto, SubmitPCs, Completing, Sole, ghosts
<1>14. CASE Callback
  BY <1>0, Actors, <1>14 DEF Verdicts, Callback, Goto, SubmitPCs, Completing, Sole, ghosts
<1>15. CASE DisconnectBegin
  BY <1>0, Actors, <1>15 DEF Verdicts, DisconnectBegin, Goto, SubmitPCs, Completing, Sole, ghosts
<1>16. CASE DisconnectLook
  BY <1>0, Actors, <1>16 DEF Verdicts, DisconnectLook, Goto, SubmitPCs, Completing, Sole, ghosts
<1>17. CASE DisconnectClear
  BY <1>0, Actors, <1>17 DEF Verdicts, DisconnectClear, Goto, SubmitPCs, Completing, Sole, ghosts
<1>18. CASE DisconnectEnd
  BY <1>0, Actors, <1>18 DEF Verdicts, DisconnectEnd, Goto, SubmitPCs, Completing, Sole, ghosts
<1>19. ASSUME NEW x \in Transfers, Reap(x) PROVE Verdicts'
  BY <1>0, Actors, <1>19 DEF Verdicts, Reap, Goto, SubmitPCs, Completing, Sole, ghosts, Kernel
<1>20. CASE TimeoutsBegin
  BY <1>0, Actors, <1>20 DEF Verdicts, TimeoutsBegin, Goto, SubmitPCs, Completing, Sole, ghosts
<1>21. CASE HandleTimeout
  <2> DEFINE x == FirstUnhandled
  <2>0. x \in Transfers
    BY <1>0, <1>21, FirstUnhandledEffect, ListFacts DEF HandleTimeout
  <2>1. CancelSucceeds(x) /\ pc["events"] \in Completing \ {"clear"} => cur["events"] # x
    BY <1>0, <2>0 DEF CancelSucceeds, Kernel
  <2>2. \A y \in Transfers : y # x \/ ~ CancelSucceeds(x) => cause'[y] = cause[y]
    BY <1>0, <1>21 DEF HandleTimeout
  <2>3. UNCHANGED verdict /\ pc'["events"] = pc["events"] /\ cur'["events"] = cur["events"]
    BY <1>0, Actors, <1>21 DEF HandleTimeout, Goto
  <2> HIDE DEF x
  <2>4. pc["events"] \in Completing => cur["events"] \in Transfers
    BY Actors DEF Sole
  <2> QED
    BY <1>0, <2>1, <2>2, <2>3, <2>4 DEF Verdicts, Completing
<1>22. CASE SetTimedOut
  BY <1>0, Actors, <1>22 DEF Verdicts, SetTimedOut, Goto, SubmitPCs, Completing, Sole, ghosts
<1>23. CASE TimeoutsEnd
  BY <1>0, Actors, <1>23 DEF Verdicts, TimeoutsEnd, Goto, SubmitPCs, Completing, Sole, ghosts
<1>24. ASSUME NEW x \in Transfers,
             Answer(x)
      PROVE  Verdicts'
  BY <1>0, <1>24
     DEF Verdicts, Answer, locks, list, flags, device, ghosts
<1>25. CASE Unplug \/ Tick \/ UNCHANGED vars
  BY <1>0, <1>25
     DEF Verdicts, Unplug, Tick, locks, list, flags, device, ghosts, vars
<1> QED
  BY <1>1, <1>2, <1>3, <1>4, <1>5, <1>6, <1>7, <1>8, <1>9, <1>10, <1>11, <1>12,
     <1>13, <1>14, <1>15, <1>16, <1>17, <1>18, <1>19, <1>20, <1>21, <1>22,
     <1>23, <1>24, <1>25
     DEF Next, Submitting, Events, Timer

LEMMA WaitingStep ==
  ASSUME TransfersAssumption, IInv, TypeOK', [Next]_vars
  PROVE  Waiting'
<1>0. /\ TypeOK /\ Control /\ Waiting
      /\ pc \in [Procs -> States] /\ owed \in [Transfers -> BOOLEAN]
      /\ status \in [Transfers -> Statuses \cup {None}]
  BY DEF IInv, TypeOK
<1>1. ASSUME NEW x \in Transfers, Alloc(x) PROVE Waiting'
  BY <1>0, Actors, <1>1 DEF Waiting, Alloc, Goto, SubmitPCs, Completing, Sole, ghosts
<1>2. ASSUME NEW x \in Transfers, Again(x) PROVE Waiting'
  BY <1>0, Actors, <1>2 DEF Waiting, Again, Goto, SubmitPCs, Completing, Sole, ghosts
<1>3. ASSUME NEW x \in Transfers, SyncReturn(x) PROVE Waiting'
  BY <1>0, Actors, <1>3 DEF Waiting, SyncReturn, Goto, SubmitPCs, Completing, Sole, ghosts
<1>4. ASSUME NEW p \in Procs, SubmitLock(p) PROVE Waiting'
  BY <1>0, Actors, <1>4 DEF Waiting, SubmitLock, Goto, SubmitPCs, Completing, Sole, ghosts
<1>5. ASSUME NEW p \in Procs, SubmitFill(p) PROVE Waiting'
  BY <1>0, Actors, <1>5 DEF Waiting, SubmitFill, Goto, SubmitPCs, Completing, Sole, ghosts
<1>6. ASSUME NEW p \in Procs, SubmitBackend(p) PROVE Waiting'
  BY <1>0, Actors, <1>6 DEF Waiting, SubmitBackend, Goto, SubmitPCs, Completing, Sole, ghosts, Control
<1>7. ASSUME NEW p \in Procs, SubmitInFlight(p) PROVE Waiting'
  BY <1>0, Actors, <1>7 DEF Waiting, SubmitInFlight, Goto, SubmitPCs, Completing, Sole, ghosts
<1>8. ASSUME NEW p \in Procs, SubmitFailed(p) PROVE Waiting'
  BY <1>0, Actors, <1>8 DEF Waiting, SubmitFailed, Goto, SubmitPCs, Completing, Sole, ghosts
<1>9. ASSUME NEW p \in Procs, SubmitRemove(p) PROVE Waiting'
  BY <1>0, Actors, <1>9 DEF Waiting, SubmitRemove, Goto, SubmitPCs, Completing, Sole, ghosts
<1>10. CASE Cancellation
  BY <1>0, Actors, <1>10 DEF Waiting, Cancellation, Goto, SubmitPCs, Completing, Sole, ghosts
<1>11. CASE Completion
  BY <1>0, Actors, <1>11 DEF Waiting, Completion, Goto, SubmitPCs, Completing, Sole, ghosts
<1>12. CASE Landed
  BY <1>0, Actors, <1>12 DEF Waiting, Landed, Goto, SubmitPCs, Completing, Sole, ghosts
<1>13. CASE Callback
  BY <1>0, Actors, <1>13 DEF Waiting, Callback, Goto, SubmitPCs, Completing, Sole, ghosts, Control
<1>14. CASE DisconnectBegin
  BY <1>0, Actors, <1>14 DEF Waiting, DisconnectBegin, Goto, SubmitPCs, Completing, Sole, ghosts
<1>15. CASE DisconnectLook
  BY <1>0, Actors, <1>15 DEF Waiting, DisconnectLook, Goto, SubmitPCs, Completing, Sole, ghosts
<1>16. CASE DisconnectClear
  BY <1>0, Actors, <1>16 DEF Waiting, DisconnectClear, Goto, SubmitPCs, Completing, Sole, ghosts
<1>17. CASE DisconnectEnd
  BY <1>0, Actors, <1>17 DEF Waiting, DisconnectEnd, Goto, SubmitPCs, Completing, Sole, ghosts
<1>18. ASSUME NEW x \in Transfers, Reap(x) PROVE Waiting'
  BY <1>0, Actors, <1>18 DEF Waiting, Reap, Goto, SubmitPCs, Completing, Sole, ghosts
<1>19. CASE TimeoutsBegin
  BY <1>0, Actors, <1>19 DEF Waiting, TimeoutsBegin, Goto, SubmitPCs, Completing, Sole, ghosts
<1>20. CASE HandleTimeout
  BY <1>0, Actors, <1>20 DEF Waiting, HandleTimeout, Goto, SubmitPCs, Completing, Sole, ghosts
<1>21. CASE SetTimedOut
  BY <1>0, Actors, <1>21 DEF Waiting, SetTimedOut, Goto, SubmitPCs, Completing, Sole, ghosts
<1>22. CASE TimeoutsEnd
  BY <1>0, Actors, <1>22 DEF Waiting, TimeoutsEnd, Goto, SubmitPCs, Completing, Sole, ghosts
<1>23. ASSUME NEW x \in Transfers,
             Cancel(x) \/ Answer(x)
      PROVE  Waiting'
  BY <1>0, <1>23
     DEF Waiting, Cancel, Answer, locks, list, flags, device, ghosts
<1>24. CASE Unplug \/ Tick \/ UNCHANGED vars
  BY <1>0, <1>24
     DEF Waiting, Unplug, Tick, locks, list, flags, device, ghosts, vars
<1> QED
  BY <1>1, <1>2, <1>3, <1>4, <1>5, <1>6, <1>7, <1>8, <1>9, <1>10, <1>11, <1>12,
     <1>13, <1>14, <1>15, <1>16, <1>17, <1>18, <1>19, <1>20, <1>21, <1>22,
     <1>23, <1>24
     DEF Next, Submitting, Events, Timer

LEMMA DisconnectStep ==
  ASSUME TransfersAssumption, IInv, TypeOK', [Next]_vars
  PROVE  Disconnect'
<1>0. /\ TypeOK /\ Control /\ LocksHeld /\ Flight /\ ListedWhileOwed /\ Disconnect
      /\ pc \in [Procs -> States] /\ cur \in [Procs -> Transfers \cup {None}]
      /\ owed \in [Transfers -> BOOLEAN] /\ Flying \subseteq Transfers
      /\ scan \in Seq(Transfers) /\ gone \in BOOLEAN /\ removed \in BOOLEAN
  BY ListFacts DEF IInv, TypeOK
<1>1. ASSUME NEW x \in Transfers, Alloc(x) PROVE Disconnect'
  BY <1>0, Actors, <1>1 DEF Disconnect, Alloc, Goto, SubmitPCs, Completing, Sole, device, ghosts
<1>2. ASSUME NEW x \in Transfers, Again(x) PROVE Disconnect'
  BY <1>0, Actors, <1>2 DEF Disconnect, Again, Goto, SubmitPCs, Completing, Sole, device, ghosts
<1>3. ASSUME NEW x \in Transfers, SyncReturn(x) PROVE Disconnect'
  BY <1>0, Actors, <1>3 DEF Disconnect, SyncReturn, Goto, SubmitPCs, Completing, Sole, device, ghosts
<1>4. ASSUME NEW p \in Procs, SubmitLock(p) PROVE Disconnect'
  BY <1>0, Actors, <1>4 DEF Disconnect, SubmitLock, Goto, SubmitPCs, Completing, Sole, device, ghosts
<1>5. ASSUME NEW p \in Procs, SubmitFill(p) PROVE Disconnect'
  BY <1>0, Actors, <1>5 DEF Disconnect, SubmitFill, Goto, SubmitPCs, Completing, Sole, device, ghosts
<1>6. ASSUME NEW p \in Procs, SubmitBackend(p) PROVE Disconnect'
  BY <1>0, Actors, <1>6 DEF Disconnect, SubmitBackend, Goto, SubmitPCs, Completing, Sole, device, ghosts
<1>7. ASSUME NEW p \in Procs, SubmitInFlight(p) PROVE Disconnect'
  BY <1>0, Actors, <1>7 DEF Disconnect, SubmitInFlight, Goto, SubmitPCs, Completing, Sole, device, ghosts
<1>8. ASSUME NEW p \in Procs, SubmitFailed(p) PROVE Disconnect'
  BY <1>0, Actors, <1>8 DEF Disconnect, SubmitFailed, Goto, SubmitPCs, Completing, Sole, device, ghosts
<1>9. ASSUME NEW p \in Procs, SubmitRemove(p) PROVE Disconnect'
  BY <1>0, Actors, <1>9 DEF Disconnect, SubmitRemove, Goto, SubmitPCs, Completing, Sole, device, ghosts
<1>10. CASE Cancellation
  BY <1>0, Actors, <1>10 DEF Disconnect, Cancellation, Goto, SubmitPCs, Completing, Sole, device, ghosts
<1>11. CASE Completion
  BY <1>0, Actors, <1>11 DEF Disconnect, Completion, Goto, SubmitPCs, Completing, Sole, device, ghosts
<1>12. CASE Landed
  BY <1>0, Actors, <1>12 DEF Disconnect, Landed, Goto, SubmitPCs, Completing, Sole, device, ghosts
<1>13. CASE Callback
  BY <1>0, Actors, <1>13 DEF Disconnect, Callback, Goto, SubmitPCs, Completing, Sole, device, ghosts
<1>14. CASE DisconnectBegin
  <2>1. pc["events"] = "idle" /\ pc'["events"] = "scan" /\ gone /\ owed' = owed
    BY <1>0, Actors, <1>14 DEF DisconnectBegin, Goto, ghosts
  <2>2. scan' = flying /\ removed' /\ gone'
    BY <1>14 DEF DisconnectBegin
  <2>3. ASSUME NEW x \in Transfers, owed[x] PROVE \E i \in 1 .. Len(flying) : flying[i] = x
    <3>1. x \in Flying
      BY <1>0, <2>1, <2>3 DEF ListedWhileOwed, BeingCompleted
    <3> QED
      BY <3>1 DEF Flying
  <2> QED
    BY <2>1, <2>2, <2>3 DEF Disconnect
<1>15. CASE DisconnectLook
  <2> DEFINE x == Head(scan)
  <2>1. /\ scan # << >> /\ x \in Transfers /\ x = scan[1]
        /\ Tail(scan) \in Seq(Transfers) /\ Len(Tail(scan)) = Len(scan) - 1
        /\ \A i \in 1 .. Len(scan) - 1 : Tail(scan)[i] = scan[i + 1]
        /\ Len(scan) \in Nat
    BY <1>0, <1>15, HeadTailProperties, LenProperties DEF DisconnectLook
  <2>2. /\ pc["events"] = "scan" /\ lock[x] = None
        /\ UNCHANGED <<removed, gone, owed>>
    BY <1>15 DEF DisconnectLook, Goto, ghosts
  <2>3. CASE "IN_FLIGHT" \in state_flags[x]
    <3>1. pc'["events"] = "clear" /\ scan' = scan
      BY <1>0, Actors, <1>15, <2>3 DEF DisconnectLook, Goto
    <3> QED
      BY <1>0, <2>1, <2>2, <3>1 DEF Disconnect
  <2>4. CASE "IN_FLIGHT" \notin state_flags[x]
    <3>1. pc'["events"] = "scan" /\ scan' = Tail(scan)
      BY <1>15, <2>2, <2>4 DEF DisconnectLook
    <3>2. ~ owed[x]
      <4>1. \A q \in Procs : pc[q] = "inFlight" => cur[q] # x
        BY <1>0, Actors, <2>1, <2>2 DEF LocksHeld
      <4> QED
        BY <1>0, <2>1, <2>2, <2>4, <4>1 DEF Flight
    <3>3. ASSUME NEW y \in Transfers, owed[y]
          PROVE  \E i \in 1 .. Len(Tail(scan)) : Tail(scan)[i] = y
      <4>1. PICK i \in 1 .. Len(scan) : scan[i] = y
        BY <1>0, <2>2, <3>3 DEF Disconnect
      <4>2. i # 1
        BY <2>1, <3>2, <3>3, <4>1
      <4>3. i - 1 \in 1 .. Len(scan) - 1 /\ (i - 1) + 1 = i
        BY <2>1, <4>2
      <4>4. Tail(scan)[i - 1] = y
        BY <2>1, <4>1, <4>3
      <4> QED
        BY <2>1, <4>3, <4>4
    <3> QED
      BY <1>0, <2>2, <3>1, <3>3 DEF Disconnect
  <2> QED
    BY <2>3, <2>4
<1>16. CASE DisconnectClear
  BY <1>0, Actors, <1>16 DEF Disconnect, DisconnectClear, Goto, SubmitPCs, Completing, Sole, device, ghosts
<1>17. CASE DisconnectEnd
  BY <1>0, Actors, <1>17 DEF Disconnect, DisconnectEnd, Goto, SubmitPCs, Completing, Sole, device, ghosts
<1>18. ASSUME NEW x \in Transfers, Reap(x) PROVE Disconnect'
  BY <1>0, Actors, <1>18 DEF Disconnect, Reap, Goto, SubmitPCs, Completing, Sole, device, ghosts
<1>19. CASE TimeoutsBegin
  BY <1>0, Actors, <1>19 DEF Disconnect, TimeoutsBegin, Goto, SubmitPCs, Completing, Sole, device, ghosts
<1>20. CASE HandleTimeout
  BY <1>0, Actors, <1>20 DEF Disconnect, HandleTimeout, Goto, SubmitPCs, Completing, Sole, device, ghosts
<1>21. CASE SetTimedOut
  BY <1>0, Actors, <1>21 DEF Disconnect, SetTimedOut, Goto, SubmitPCs, Completing, Sole, device, ghosts
<1>22. CASE TimeoutsEnd
  BY <1>0, Actors, <1>22 DEF Disconnect, TimeoutsEnd, Goto, SubmitPCs, Completing, Sole, device, ghosts
<1>23. ASSUME NEW x \in Transfers,
             Cancel(x) \/ Answer(x)
      PROVE  Disconnect'
  BY <1>0, <1>23
     DEF Disconnect, Cancel, Answer, locks, list, flags, device, ghosts
<1>24. CASE Unplug \/ Tick \/ UNCHANGED vars
  BY <1>0, <1>24
     DEF Disconnect, Unplug, Tick, locks, list, flags, device, ghosts, vars
<1> QED
  BY <1>1, <1>2, <1>3, <1>4, <1>5, <1>6, <1>7, <1>8, <1>9, <1>10, <1>11, <1>12,
     <1>13, <1>14, <1>15, <1>16, <1>17, <1>18, <1>19, <1>20, <1>21, <1>22,
     <1>23, <1>24
     DEF Next, Submitting, Events, Timer

LEMMA FreedStep ==
  ASSUME TransfersAssumption, IInv, TypeOK', [Next]_vars
  PROVE  FreedIsUntouched'
<1>0. /\ TypeOK /\ Control /\ LocksHeld /\ Flight /\ ListedWhileOwed /\ Kernel /\ Stamps
      /\ Waiting /\ FreedIsUntouched
      /\ pc \in [Procs -> States] /\ cur \in [Procs -> Transfers \cup {None}]
      /\ owed \in [Transfers -> BOOLEAN] /\ alloc \in [Transfers -> BOOLEAN]
      /\ lock \in [Transfers -> Procs \cup {None}] /\ Flying \subseteq Transfers
      /\ urb \in [Transfers -> {"none", "pending", "done", "discarded", "lost"}]
  BY ListFacts DEF IInv, TypeOK
<1>f. flying' = flying => Flying' = Flying
  BY DEF Flying
<1>t. pc["timer"] = "timedOut" => flying_transfers_lock = "timer" /\ cur["timer"] \in Flying
  BY <1>0, Actors DEF LocksHeld, Stamps
<1>1. ASSUME NEW x \in Transfers, Alloc(x) PROVE FreedIsUntouched'
  BY <1>0, <1>f, Actors, <1>1 DEF FreedIsUntouched, Alloc, Goto, SubmitPCs, Completing, Sole, locks, list
<1>2. ASSUME NEW x \in Transfers, Again(x) PROVE FreedIsUntouched'
  <2>1. cur[x] = x /\ alloc[x]
    BY <1>0, <1>2 DEF Again, Control
  <2>2. /\ pc' = [pc EXCEPT ![x] = "submit"]
        /\ UNCHANGED <<cur, lock, flying, urb, alloc>>
    BY <1>2 DEF Again, Goto, locks, list
  <2> QED
    BY <1>0, <1>f, <2>1, <2>2 DEF FreedIsUntouched
<1>3. ASSUME NEW x \in Transfers, SyncReturn(x) PROVE FreedIsUntouched'
  <2>1. /\ x \in SyncTransfers /\ pc[x] = "wait" /\ ~ owed[x] /\ alloc[x] /\ cur[x] = x
    BY <1>0, <1>3, Actors DEF SyncReturn, Goto, Waiting, Control
  <2>2. \A q \in Procs : cur[q] = x => pc[q] \notin SubmitPCs
    BY <1>0, Actors, <2>1 DEF Control, Procs, SubmitPCs
  <2>3. x \notin Flying
    BY <1>0, <2>1, <2>2 DEF ListedWhileOwed, BeingSubmitted, SubmitPCs
  <2>4. lock[x] = None /\ urb[x] = "none"
    BY <1>0, <2>1, <2>2 DEF LocksHeld, Kernel, SubmitPCs
  <2>5. \A q \in Procs : q # x /\ cur[q] = x => pc[q] \in {"idle", "timeouts", "scan"}
    BY <1>0, <1>t, Actors, <2>1, <2>2, <2>3 DEF Control, Procs, SubmitPCs, Completing
  <2>6. /\ pc' = [pc EXCEPT ![x] = "idle"] /\ alloc' = [alloc EXCEPT ![x] = FALSE]
        /\ UNCHANGED <<cur, lock, flying, urb>>
    BY <1>3 DEF SyncReturn, Goto, locks, list
  <2> QED
    BY <1>0, <1>f, Actors, <2>3, <2>4, <2>5, <2>6 DEF FreedIsUntouched
<1>4. ASSUME NEW x \in Transfers, Cancel(x) PROVE FreedIsUntouched'
  <2>1. UNCHANGED <<pc, cur, lock, flying, alloc>> /\ CancelTransfer(x)
    BY <1>4 DEF Cancel, locks, list
  <2>2. \A y \in Transfers : urb[y] = "none" => urb'[y] = "none"
    BY <1>0, <2>1, CancelEffect
  <2> QED
    BY <1>0, <1>f, <2>1, <2>2 DEF FreedIsUntouched
<1>5. ASSUME NEW x \in Transfers, Answer(x) PROVE FreedIsUntouched'
  BY <1>0, <1>f, Actors, <1>5 DEF FreedIsUntouched, Answer, Goto, SubmitPCs, Completing, Sole, locks, list
<1>6. ASSUME NEW p \in Procs, SubmitLock(p) PROVE FreedIsUntouched'
  BY <1>0, <1>f, Actors, <1>6 DEF FreedIsUntouched, SubmitLock, Goto, SubmitPCs, Completing, Sole, locks, list
<1>7. ASSUME NEW p \in Procs, SubmitFill(p) PROVE FreedIsUntouched'
  <2>1. Flying' = Flying \cup {cur[p]}
    BY <1>7, FillList
  <2>2. Sole(p) /\ pc[p] = "fill"
    BY Actors, <1>7 DEF SubmitFill, Goto, SubmitPCs
  <2> QED
    BY <1>0, Actors, <1>7, <2>1, <2>2 DEF FreedIsUntouched, SubmitFill, Goto, Sole
<1>8. ASSUME NEW p \in Procs, SubmitBackend(p) PROVE FreedIsUntouched'
  BY <1>0, <1>f, Actors, <1>8 DEF FreedIsUntouched, SubmitBackend, Goto, SubmitPCs, Completing, Sole, locks, list, Flight
<1>9. ASSUME NEW p \in Procs, SubmitInFlight(p) PROVE FreedIsUntouched'
  BY <1>0, <1>f, Actors, <1>9 DEF FreedIsUntouched, SubmitInFlight, Goto, SubmitPCs, Completing, Sole, locks, list
<1>10. ASSUME NEW p \in Procs, SubmitFailed(p) PROVE FreedIsUntouched'
  BY <1>0, <1>f, Actors, <1>10 DEF FreedIsUntouched, SubmitFailed, Goto, SubmitPCs, Completing, Sole, locks, list
<1>11. ASSUME NEW p \in Procs, SubmitRemove(p) PROVE FreedIsUntouched'
  <2> DEFINE x == cur[p]
  <2>1. Flying' = Flying \ {x}
    BY <1>11, RemoveList
  <2>2. Sole(p) /\ x \in Transfers /\ pc[p] = "remove"
    BY Actors, <1>11 DEF SubmitRemove, Goto, SubmitPCs, Sole
  <2>3. pc["timer"] # "timedOut"
    BY <1>t, Actors, <1>11 DEF SubmitRemove
  <2>4. lock[x] = None /\ urb[x] = "none"
    BY <1>0, <2>2 DEF LocksHeld, Flight, Kernel, Sole, SubmitPCs
  <2>5. /\ pc' = [pc EXCEPT ![p] = "idle"]
        /\ alloc' = [alloc EXCEPT ![x] = p \notin SyncTransfers]
        /\ UNCHANGED <<cur, lock, urb>>
    BY <1>11 DEF SubmitRemove, Goto, locks
  <2>6. ASSUME p \in SyncTransfers, NEW q \in Procs, q # p, cur[q] = x
        PROVE  pc[q] \in {"idle", "timeouts", "scan"}
    <3>1. CASE q \in Transfers
      BY <1>0, Actors, <2>2, <2>6, <3>1 DEF Control, SubmitPCs
    <3>2. CASE q = "events"
      BY <1>0, <2>2, <2>6, <3>2 DEF Control, Sole
    <3>3. CASE q = "timer"
      BY <1>0, <2>3, <3>3 DEF Control
    <3> QED
      BY <3>1, <3>2, <3>3 DEF Procs
  <2> HIDE DEF x
  <2> QED
    BY <1>0, <2>1, <2>2, <2>4, <2>5, <2>6 DEF FreedIsUntouched
<1>12. CASE Cancellation
  BY <1>0, <1>f, Actors, <1>12 DEF FreedIsUntouched, Cancellation, Goto, SubmitPCs, Completing, Sole, locks, list
<1>13. CASE Completion
  <2>1. Flying' \subseteq Flying
    BY <1>13, CompletionList
  <2> QED
    BY <1>0, Actors, <1>13, <2>1 DEF FreedIsUntouched, Completion, Goto, locks
<1>14. CASE Landed
  BY <1>0, <1>f, Actors, <1>14 DEF FreedIsUntouched, Landed, Goto, SubmitPCs, Completing, Sole, locks, list
<1>15. CASE Callback
  <2> DEFINE x == cur["events"]
  <2>1. Sole("events") /\ x \in Transfers /\ pc["events"] = "callback" /\ owed[x]
    BY Actors, <1>15 DEF Callback, Completing, Sole
  <2>2. x \notin Flying
    BY <1>0, <2>1, Actors
       DEF ListedWhileOwed, BeingSubmitted, BeingCompleted, Sole, SubmitPCs
  <2>3. lock[x] = None /\ urb[x] = "none"
    BY <1>0, Actors, <2>1 DEF LocksHeld, Kernel, Sole, SubmitPCs, Completing
  <2>4. UNCHANGED <<cur, lock, flying, urb>>
    BY <1>15 DEF Callback, list, locks
  <2>5. CASE UNCHANGED alloc
    <3>1. \A q \in Procs : q # "events" => pc'[q] = pc[q]
      BY <1>0, <1>15 DEF Callback, Goto
    <3> QED
      BY <1>0, <1>f, <2>1, <2>4, <2>5, <3>1 DEF FreedIsUntouched, Sole
  <2>6. CASE /\ x \in AsyncTransfers /\ alloc' = [alloc EXCEPT ![x] = FALSE]
             /\ pc' = [pc EXCEPT !["events"] = "idle"]
    <3>1. ASSUME NEW q \in Procs, q # "events", cur[q] = x
          PROVE  pc[q] \in {"idle", "timeouts", "scan"}
      <4>1. CASE q \in Transfers
        BY <1>0, <2>1, <2>6, <3>1, <4>1 DEF Control, Sole, SubmitPCs
      <4>2. CASE q = "timer"
        BY <1>0, <1>t, <2>2, <3>1, <4>2 DEF Control
      <4> QED
        BY <3>1, <4>1, <4>2 DEF Procs
    <3> HIDE DEF x
    <3> QED
      BY <1>0, <1>f, Actors, <2>2, <2>3, <2>4, <2>6, <3>1 DEF FreedIsUntouched
  <2> QED
    BY <1>15, <2>5, <2>6 DEF Callback, Goto
<1>16. CASE DisconnectBegin
  BY <1>0, <1>f, Actors, <1>16 DEF FreedIsUntouched, DisconnectBegin, Goto, SubmitPCs, Completing, Sole, locks, list
<1>17. CASE DisconnectLook
  <2>1. UNCHANGED <<lock, flying, urb, alloc>>
    BY <1>17 DEF DisconnectLook, list
  <2>2. CASE "IN_FLIGHT" \in state_flags[Head(scan)]
    <3>1. Head(scan) \in Transfers
      BY <1>0, <1>17, HeadTailProperties DEF TypeOK, DisconnectLook
    <3>2. alloc[Head(scan)]
      BY <1>0, <2>2, <3>1 DEF Flight
    <3>3. cur' = [cur EXCEPT !["events"] = Head(scan)] /\ pc' = [pc EXCEPT !["events"] = "clear"]
      BY <1>17, <2>2 DEF DisconnectLook, Goto
    <3> QED
      BY <1>0, <1>f, Actors, <2>1, <3>1, <3>2, <3>3 DEF FreedIsUntouched
  <2>3. CASE "IN_FLIGHT" \notin state_flags[Head(scan)]
    BY <1>0, <1>f, <1>17, <2>1, <2>3 DEF FreedIsUntouched, DisconnectLook
  <2> QED
    BY <2>2, <2>3
<1>18. CASE DisconnectClear
  BY <1>0, <1>f, Actors, <1>18 DEF FreedIsUntouched, DisconnectClear, Goto, SubmitPCs, Completing, Sole, locks, list
<1>19. CASE DisconnectEnd
  BY <1>0, <1>f, Actors, <1>19 DEF FreedIsUntouched, DisconnectEnd, Goto, SubmitPCs, Completing, Sole, locks, list
<1>20. ASSUME NEW x \in Transfers, Reap(x) PROVE FreedIsUntouched'
  BY <1>0, <1>f, Actors, <1>20 DEF FreedIsUntouched, Reap, Goto, SubmitPCs, Completing, Sole, locks, list, Kernel, Flight
<1>21. CASE TimeoutsBegin
  BY <1>0, <1>f, Actors, <1>21 DEF FreedIsUntouched, TimeoutsBegin, Goto, SubmitPCs, Completing, Sole, locks, list
<1>22. CASE HandleTimeout
  <2> DEFINE x == FirstUnhandled
  <2>1. x \in Flying /\ x \in Transfers
    BY <1>0, <1>22, FirstUnhandledEffect DEF HandleTimeout
  <2>2. CancelTransfer(x) /\ UNCHANGED <<lock, flying, alloc>>
    BY <1>22 DEF HandleTimeout, locks, list
  <2>3. cur' = [cur EXCEPT !["timer"] = x] /\ \A q \in Procs : q # "timer" => pc'[q] = pc[q]
    BY <1>0, <1>22 DEF HandleTimeout, Goto
  <2> HIDE DEF x
  <2>4. \A y \in Transfers : urb[y] = "none" => urb'[y] = "none"
    <3>1. /\ \A y \in Transfers : y # x => urb'[y] = urb[y]
          /\ (urb'[x] = "discarded" /\ urb[x] = "pending") \/ urb'[x] = urb[x]
      BY <1>0, <2>1, <2>2, CancelEffect
    <3> QED
      BY <3>1
  <2> QED
    BY <1>0, <1>f, Actors, <2>1, <2>2, <2>3, <2>4 DEF FreedIsUntouched
<1>23. CASE SetTimedOut
  BY <1>0, <1>f, Actors, <1>23 DEF FreedIsUntouched, SetTimedOut, Goto, SubmitPCs, Completing, Sole, locks, list
<1>24. CASE TimeoutsEnd
  BY <1>0, <1>f, Actors, <1>24 DEF FreedIsUntouched, TimeoutsEnd, Goto, SubmitPCs, Completing, Sole, locks, list
<1>25. CASE Unplug
  BY <1>0, <1>f, Actors, <1>25 DEF FreedIsUntouched, Unplug, Goto, SubmitPCs, Completing, Sole, locks, list
<1>26. CASE Tick \/ UNCHANGED vars
  BY <1>0, <1>f, <1>26
     DEF FreedIsUntouched, Tick, locks, list, flags, device, ghosts, vars
<1> QED
  BY <1>1, <1>2, <1>3, <1>4, <1>5, <1>6, <1>7, <1>8, <1>9, <1>10, <1>11, <1>12,
     <1>13, <1>14, <1>15, <1>16, <1>17, <1>18, <1>19, <1>20, <1>21, <1>22,
     <1>23, <1>24, <1>25, <1>26
     DEF Next, Submitting, Events, Timer
-----------------------------------------------------------------------------
LEMMA InitIInv ==
  ASSUME TransfersAssumption, Init
  PROVE  IInv
<1> USE DEF Init
<1>0. /\ "events" \in Procs /\ "timer" \in Procs /\ Transfers \subseteq Procs
      /\ None \notin Procs /\ Infinite \in Nat
  BY DEF Procs, TransfersAssumption
<1>1. Flying = {} /\ flying \in Seq(Transfers) /\ Len(flying) = 0
  BY DEF Flying
<1>2. TypeOK
  <2>1. pc \in [Procs -> States] /\ cur \in [Procs -> Transfers \cup {None}]
    BY DEF States
  <2>2. /\ left \in [Transfers -> 0 .. Infinite] /\ scan \in Seq(Transfers)
        /\ state_flags \in [Transfers -> SUBSET {"IN_FLIGHT", "CANCELLING"}]
        /\ timeout_flags \in [Transfers -> {{}, {"HANDLED"}, {"HANDLED", "TIMED_OUT"}}]
    BY <1>0
  <2>3. /\ flying_transfers_lock \in Procs \cup {None}
        /\ lock \in [Transfers -> Procs \cup {None}]
        /\ alloc \in [Transfers -> BOOLEAN] /\ owed \in [Transfers -> BOOLEAN]
        /\ urb \in [Transfers -> {"none", "pending", "done", "discarded", "lost"}]
        /\ cause \in [Transfers -> {"none", "user", "timeout"}]
        /\ gone \in BOOLEAN /\ removed \in BOOLEAN
        /\ verdict \in Statuses /\ status \in [Transfers -> Statuses \cup {None}]
    BY DEF Statuses
  <2> QED
    BY <1>1, <2>1, <2>2, <2>3 DEF TypeOK
<1>3. Control /\ LocksHeld
  <2>1. /\ \A p \in Procs : pc[p] = "idle"
        /\ \A x \in Transfers : pc[x] = "idle" /\ ~ alloc[x] /\ lock[x] = None
        /\ AsyncTransfers \subseteq Transfers
    BY <1>0 DEF Transfers
  <2>2. Control
    BY <1>0, <2>1 DEF Control, SubmitPCs, Completing
  <2>3. LocksHeld
    BY <1>0, <2>1 DEF LocksHeld
  <2> QED
    BY <2>2, <2>3
<1>4. Flight /\ Kernel
  BY <1>0 DEF Flight, Kernel, CallbackIsOwed, Completing
<1>5. ListedWhileOwed /\ SortedByTimeout
  BY <1>0, <1>1 DEF ListedWhileOwed, SortedByTimeout, BeingSubmitted, BeingCompleted
<1>6. Stamps /\ Verdicts
  BY <1>0, <1>1 DEF Stamps, Verdicts
<1>7. Waiting /\ Disconnect
  BY <1>0 DEF Waiting, Disconnect, SubmitPCs, TransfersAssumption, Transfers
<1>8. FreedIsUntouched
  BY <1>0, <1>1 DEF FreedIsUntouched
<1> QED
  BY <1>2, <1>3, <1>4, <1>5, <1>6, <1>7, <1>8 DEF IInv

LEMMA StepIInv ==
  ASSUME TransfersAssumption, IInv, [Next]_vars
  PROVE  IInv'
<1>1. TypeOK'
  BY TypeStep
<1>2. Control' /\ LocksHeld' /\ Flight'
  BY <1>1, ControlStep, LocksStep, FlightStep
<1>3. ListedWhileOwed' /\ SortedByTimeout'
  BY <1>1, ListStep, SortedStep
<1>4. Kernel' /\ Stamps' /\ Verdicts'
  BY <1>1, KernelStep, StampsStep, VerdictsStep
<1>5. Waiting' /\ Disconnect' /\ FreedIsUntouched'
  BY <1>1, WaitingStep, DisconnectStep, FreedStep
<1> QED
  BY <1>1, <1>2, <1>3, <1>4, <1>5 DEF IInv

LEMMA SpecIInv == ASSUME TransfersAssumption PROVE Spec => []IInv
<1>1. Init => IInv
  BY InitIInv
<1>2. IInv /\ [Next]_vars => IInv'
  BY StepIInv
<1> QED
  BY <1>1, <1>2, PTL DEF Spec

(***************************************************************************)
(* The fields of a transfer and of the context keep their types.           *)
(***************************************************************************)
THEOREM TypeCorrect == ASSUME TransfersAssumption PROVE Spec => []TypeOK
<1>1. IInv => TypeOK
  BY DEF IInv
<1> QED
  BY <1>1, SpecIInv, PTL

(***************************************************************************)
(* usbi_handle_transfer_completion (io.c:1648) and usbi_handle_disconnect  *)
(* (io.c:2794) complete only a transfer that is owed its callback: it was  *)
(* submitted, and had none since, whoever came first.                      *)
(***************************************************************************)
THEOREM CallbackOnce == ASSUME TransfersAssumption PROVE Spec => []CallbackIsOwed
<1>1. IInv => CallbackIsOwed
  BY DEF IInv, Flight
<1> QED
  BY <1>1, SpecIInv, PTL

(***************************************************************************)
(* add_to_flying_list and remove_from_flying_list (io.c:1349, io.c:1403)   *)
(* keep on the list, once, what is being submitted or owed its callback,   *)
(* in the order of the timeouts.                                           *)
(***************************************************************************)
THEOREM ListTrueAndSorted ==
  ASSUME TransfersAssumption PROVE Spec => [](ListedWhileOwed /\ SortedByTimeout)
<1>1. IInv => ListedWhileOwed /\ SortedByTimeout
  BY DEF IInv
<1> QED
  BY <1>1, SpecIInv, PTL

(***************************************************************************)
(* A callback is told the truth about the end of its transfer: cancelled   *)
(* by its user, by its timeout, or by nobody, though handle_timeout        *)
(* (io.c:1985) sets its flag after the cancellation.                       *)
(***************************************************************************)
THEOREM StatusTrue == ASSUME TransfersAssumption PROVE Spec => []StatusIsTrue
<1>1. IInv => StatusIsTrue
  BY DEF IInv, Verdicts, StatusIsTrue
<1> QED
  BY <1>1, SpecIInv, PTL

(***************************************************************************)
(* A transfer that libusb_free_transfer (io.c:1294) freed is on no list,   *)
(* locked by no thread, in no thread's hands and not in the kernel.        *)
(***************************************************************************)
THEOREM FreedStaysUntouched == ASSUME TransfersAssumption PROVE Spec => []FreedIsUntouched
<1>1. IInv => FreedIsUntouched
  BY DEF IInv
<1> QED
  BY <1>1, SpecIInv, PTL

(***************************************************************************)
(* usbi_handle_disconnect (io.c:2794) leaves no transfer of the device     *)
(* without its callback, whatever was being submitted meanwhile.           *)
(***************************************************************************)
THEOREM DisconnectLeavesNone == ASSUME TransfersAssumption PROVE Spec => []DisconnectedIsEmpty
<1>1. IInv => DisconnectedIsEmpty
  <2> SUFFICES ASSUME IInv, removed, scan = << >>, NEW x \in Transfers, owed[x]
               PROVE  FALSE
    BY DEF DisconnectedIsEmpty, IInv, TypeOK
  <2>1. \E i \in 1 .. Len(scan) : scan[i] = x
    BY DEF IInv, Disconnect
  <2>2. Len(scan) = 0
    OBVIOUS
  <2> QED
    BY <2>1, <2>2
<1> QED
  BY <1>1, SpecIInv, PTL
-----------------------------------------------------------------------------
(***************************************************************************)
(* The suite. A run in which "which" names a component is a run of that    *)
(* component: its specification is the same under the name the suite has   *)
(* for it and under the name of its proofs, no step changes "which", and a *)
(* step of another component changes no variable of this one.              *)
(***************************************************************************)

LEMMA TransfersRun == AllSpec => Spec
<1>1. AllInit => Init
  BY DEF AllInit
<1>2. [AllNext]_all => [Next]_vars
  BY DEF AllNext, all
<1> QED
  BY <1>1, <1>2, PTL DEF AllSpec, Spec

PolledP == INSTANCE LibusbEventsProof WITH
  Closable <- Threads, TimedThreads <- {}, Backend <- "poll",
  CloseBusy <- TRUE, LongWait <- FALSE, pc <- events_pc,
  flying <- events_flying, urb <- events_urb
SignalledP == INSTANCE LibusbEventsProof WITH
  TimedThreads <- Threads \ Closable, Backend <- "signal", CloseBusy <- FALSE,
  LongWait <- FALSE, pc <- events_pc, flying <- events_flying,
  urb <- events_urb

ClaimsP == INSTANCE UsbfsClaimsProof WITH
  Handles <- {Handle}, N <- Interfaces, Configs <- {1},
  Ops <- {"claim", "release", "reset", "auto"},
  DisconnectClaim <- TRUE,
  present <- claims_present, attached <- claims_attached,
  active <- claims_active, cached <- claims_cached, lock <- claims_lock,
  pc <- claims_pc, at <- claims_at, ret <- claims_ret, calls <- claims_calls
AloneP == INSTANCE UsbfsClaimsProof WITH
  Threads <- {Thread}, Handles <- {Handle}, N <- 1,
  Ops <- AllOps, MaxCalls <- MaxCalls + 2, DisconnectClaim <- FALSE,
  present <- claims_present, attached <- claims_attached,
  active <- claims_active, cached <- claims_cached, lock <- claims_lock,
  pc <- claims_pc, at <- claims_at, ret <- claims_ret, calls <- claims_calls
SharedP == INSTANCE UsbfsClaimsProof WITH
  N <- 1, Configs <- {1},
  Ops <- {"open", "close", "auto", "claim", "release"}, MaxCalls <- MaxCalls + 1,
  DisconnectClaim <- TRUE,
  present <- claims_present, attached <- claims_attached,
  active <- claims_active, cached <- claims_cached, lock <- claims_lock,
  pc <- claims_pc, at <- claims_at, ret <- claims_ret, calls <- claims_calls

LEMMA PolledPSame ==
  (Polled!Init => PolledP!Init) /\ ([Polled!Next]_Polled!vars => [PolledP!Next]_PolledP!vars)
BY DEF
    Polled!Waiter, PolledP!Waiter, Polled!Closer, PolledP!Closer,
    Polled!vars, PolledP!vars, Polled!locks, PolledP!locks, Polled!events,
    PolledP!events, Polled!lists, PolledP!lists, Polled!transfers,
    PolledP!transfers, Polled!Init, PolledP!Init, Polled!Goto, PolledP!Goto,
    Polled!CloserGoto, PolledP!CloserGoto, Polled!Raise, PolledP!Raise,
    Polled!Lower, PolledP!Lower, Polled!HandleTimeouts,
    PolledP!HandleTimeouts, Polled!Completion, PolledP!Completion,
    Polled!Open, PolledP!Open, Polled!Submit, PolledP!Submit, Polled!Answer,
    PolledP!Answer, Polled!Discarded, PolledP!Discarded, Polled!Expire,
    PolledP!Expire, Polled!SignalCompletion, PolledP!SignalCompletion,
    Polled!Interrupt, PolledP!Interrupt, Polled!Timed, PolledP!Timed,
    Polled!Done, PolledP!Done, Polled!AlreadyExpired, PolledP!AlreadyExpired,
    Polled!NextTimeout, PolledP!NextTimeout, Polled!TryClosing,
    PolledP!TryClosing, Polled!TryLock, PolledP!TryLock,
    Polled!TryLockFailed, PolledP!TryLockFailed, Polled!AllocEventData,
    PolledP!AllocEventData, Polled!Ready, PolledP!Ready, Polled!Poll,
    PolledP!Poll, Polled!FilterRemoved, PolledP!FilterRemoved,
    Polled!WaitOver, PolledP!WaitOver, Polled!PollTimeout,
    PolledP!PollTimeout, Polled!EventTrigger, PolledP!EventTrigger,
    Polled!CompleteOne, PolledP!CompleteOne, Polled!CompletedAll,
    PolledP!CompletedAll, Polled!TriggerEnd, PolledP!TriggerEnd, Polled!Reap,
    PolledP!Reap, Polled!Reaped, PolledP!Reaped, Polled!Unlock,
    PolledP!Unlock, Polled!WakeAll, PolledP!WakeAll, Polled!Broadcast,
    PolledP!Broadcast, Polled!LockWaiters, PolledP!LockWaiters,
    Polled!CheckCompleted, PolledP!CheckCompleted, Polled!CheckActive,
    PolledP!CheckActive, Polled!Woken, PolledP!Woken, Polled!WaitTimeout,
    PolledP!WaitTimeout, Polled!AfterWait, PolledP!AfterWait, Polled!Back,
    PolledP!Back, Polled!Step, PolledP!Step, Polled!CloseBegin,
    PolledP!CloseBegin, Polled!CloseLock, PolledP!CloseLock, Polled!DoClose,
    PolledP!DoClose, Polled!CloseEnd, PolledP!CloseEnd, Polled!CloseUnlock,
    PolledP!CloseUnlock, Polled!CloseBroadcast, PolledP!CloseBroadcast,
    Polled!CloseStep, PolledP!CloseStep, Polled!Next, PolledP!Next

LEMMA SignalledPSame ==
  (Signalled!Init => SignalledP!Init) /\ ([Signalled!Next]_Signalled!vars => [SignalledP!Next]_SignalledP!vars)
BY DEF
    Signalled!Waiter, SignalledP!Waiter, Signalled!Closer, SignalledP!Closer,
    Signalled!vars, SignalledP!vars, Signalled!locks, SignalledP!locks,
    Signalled!events, SignalledP!events, Signalled!lists, SignalledP!lists,
    Signalled!transfers, SignalledP!transfers, Signalled!Init,
    SignalledP!Init, Signalled!Goto, SignalledP!Goto, Signalled!CloserGoto,
    SignalledP!CloserGoto, Signalled!Raise, SignalledP!Raise,
    Signalled!Lower, SignalledP!Lower, Signalled!HandleTimeouts,
    SignalledP!HandleTimeouts, Signalled!Completion, SignalledP!Completion,
    Signalled!Open, SignalledP!Open, Signalled!Submit, SignalledP!Submit,
    Signalled!Answer, SignalledP!Answer, Signalled!Discarded,
    SignalledP!Discarded, Signalled!Expire, SignalledP!Expire,
    Signalled!SignalCompletion, SignalledP!SignalCompletion,
    Signalled!Interrupt, SignalledP!Interrupt, Signalled!Timed,
    SignalledP!Timed, Signalled!Done, SignalledP!Done,
    Signalled!AlreadyExpired, SignalledP!AlreadyExpired,
    Signalled!NextTimeout, SignalledP!NextTimeout, Signalled!TryClosing,
    SignalledP!TryClosing, Signalled!TryLock, SignalledP!TryLock,
    Signalled!TryLockFailed, SignalledP!TryLockFailed,
    Signalled!AllocEventData, SignalledP!AllocEventData, Signalled!Ready,
    SignalledP!Ready, Signalled!Poll, SignalledP!Poll,
    Signalled!FilterRemoved, SignalledP!FilterRemoved, Signalled!WaitOver,
    SignalledP!WaitOver, Signalled!PollTimeout, SignalledP!PollTimeout,
    Signalled!EventTrigger, SignalledP!EventTrigger, Signalled!CompleteOne,
    SignalledP!CompleteOne, Signalled!CompletedAll, SignalledP!CompletedAll,
    Signalled!TriggerEnd, SignalledP!TriggerEnd, Signalled!Reap,
    SignalledP!Reap, Signalled!Reaped, SignalledP!Reaped, Signalled!Unlock,
    SignalledP!Unlock, Signalled!WakeAll, SignalledP!WakeAll,
    Signalled!Broadcast, SignalledP!Broadcast, Signalled!LockWaiters,
    SignalledP!LockWaiters, Signalled!CheckCompleted,
    SignalledP!CheckCompleted, Signalled!CheckActive, SignalledP!CheckActive,
    Signalled!Woken, SignalledP!Woken, Signalled!WaitTimeout,
    SignalledP!WaitTimeout, Signalled!AfterWait, SignalledP!AfterWait,
    Signalled!Back, SignalledP!Back, Signalled!Step, SignalledP!Step,
    Signalled!CloseBegin, SignalledP!CloseBegin, Signalled!CloseLock,
    SignalledP!CloseLock, Signalled!DoClose, SignalledP!DoClose,
    Signalled!CloseEnd, SignalledP!CloseEnd, Signalled!CloseUnlock,
    SignalledP!CloseUnlock, Signalled!CloseBroadcast,
    SignalledP!CloseBroadcast, Signalled!CloseStep, SignalledP!CloseStep,
    Signalled!Next, SignalledP!Next

LEMMA ClaimsPSame ==
  (Claims!Init => ClaimsP!Init) /\ ([Claims!Next]_Claims!vars => [ClaimsP!Next]_ClaimsP!vars)
BY DEF
    Claims!Free, ClaimsP!Free, Claims!device, ClaimsP!device, Claims!config,
    ClaimsP!config, Claims!handles, ClaimsP!handles, Claims!threads,
    ClaimsP!threads, Claims!history, ClaimsP!history, Claims!vars,
    ClaimsP!vars, Claims!Ifaces, ClaimsP!Ifaces, Claims!Usbfs, ClaimsP!Usbfs,
    Claims!Job, ClaimsP!Job, Claims!NoJob, ClaimsP!NoJob, Claims!Init,
    ClaimsP!Init, Claims!BindResult, ClaimsP!BindResult, Claims!TakeResult,
    ClaimsP!TakeResult, Claims!UnbindResult, ClaimsP!UnbindResult,
    Claims!Bound, ClaimsP!Bound, Claims!Outside, ClaimsP!Outside,
    Claims!Unplug, ClaimsP!Unplug, Claims!Disconnect, ClaimsP!Disconnect,
    Claims!Attached, ClaimsP!Attached, Claims!H, ClaimsP!H, Claims!I,
    ClaimsP!I, Claims!Return, ClaimsP!Return, Claims!Unused, ClaimsP!Unused,
    Claims!Begin, ClaimsP!Begin, Claims!FirstStep, ClaimsP!FirstStep,
    Claims!Enter, ClaimsP!Enter, Claims!EnterRelease, ClaimsP!EnterRelease,
    Claims!EnterGone, ClaimsP!EnterGone, Claims!AltGone, ClaimsP!AltGone,
    Claims!Lock, ClaimsP!Lock, Claims!Unlock, ClaimsP!Unlock, Claims!Claimed,
    ClaimsP!Claimed, Claims!Had, ClaimsP!Had, Claims!DetachAndClaim,
    ClaimsP!DetachAndClaim, Claims!Claim, ClaimsP!Claim, Claims!Here,
    ClaimsP!Here, Claims!GetDriver, ClaimsP!GetDriver, Claims!Disconnected,
    ClaimsP!Disconnected, Claims!ClaimDisconnect, ClaimsP!ClaimDisconnect,
    Claims!Bind, ClaimsP!Bind, Claims!Release, ClaimsP!Release,
    Claims!Reattach, ClaimsP!Reattach, Claims!AltChecked, ClaimsP!AltChecked,
    Claims!SetAlt, ClaimsP!SetAlt, Claims!IsNext, ClaimsP!IsNext,
    Claims!LoopEnds, ClaimsP!LoopEnds, Claims!ResetUnbind,
    ClaimsP!ResetUnbind, Claims!ResetDone, ClaimsP!ResetDone,
    Claims!ResetFailed, ClaimsP!ResetFailed, Claims!Reclaim, ClaimsP!Reclaim,
    Claims!UserGetDriver, ClaimsP!UserGetDriver, Claims!UserDisconnect,
    ClaimsP!UserDisconnect, Claims!UserAttach, ClaimsP!UserAttach,
    Claims!SetAuto, ClaimsP!SetAuto, Claims!Value, ClaimsP!Value,
    Claims!SetConfiguration, ClaimsP!SetConfiguration,
    Claims!GetConfiguration, ClaimsP!GetConfiguration, Claims!CacheConfig,
    ClaimsP!CacheConfig, Claims!Fresh, ClaimsP!Fresh, Claims!Open,
    ClaimsP!Open, Claims!Wrap, ClaimsP!Wrap, Claims!Dropped, ClaimsP!Dropped,
    Claims!CloseFd, ClaimsP!CloseFd, Claims!Close, ClaimsP!Close,
    Claims!CloseKept, ClaimsP!CloseKept, Claims!Step, ClaimsP!Step,
    Claims!Next, ClaimsP!Next

LEMMA AlonePSame ==
  (ClaimsAlone!Init => AloneP!Init) /\ ([ClaimsAlone!Next]_ClaimsAlone!vars => [AloneP!Next]_AloneP!vars)
BY DEF
    ClaimsAlone!Free, AloneP!Free, ClaimsAlone!device, AloneP!device,
    ClaimsAlone!config, AloneP!config, ClaimsAlone!handles, AloneP!handles,
    ClaimsAlone!threads, AloneP!threads, ClaimsAlone!history, AloneP!history,
    ClaimsAlone!vars, AloneP!vars, ClaimsAlone!Ifaces, AloneP!Ifaces,
    ClaimsAlone!Usbfs, AloneP!Usbfs, ClaimsAlone!Job, AloneP!Job,
    ClaimsAlone!NoJob, AloneP!NoJob, ClaimsAlone!Init, AloneP!Init,
    ClaimsAlone!BindResult, AloneP!BindResult, ClaimsAlone!TakeResult,
    AloneP!TakeResult, ClaimsAlone!UnbindResult, AloneP!UnbindResult,
    ClaimsAlone!Bound, AloneP!Bound, ClaimsAlone!Outside, AloneP!Outside,
    ClaimsAlone!Unplug, AloneP!Unplug, ClaimsAlone!Disconnect,
    AloneP!Disconnect, ClaimsAlone!Attached, AloneP!Attached, ClaimsAlone!H,
    AloneP!H, ClaimsAlone!I, AloneP!I, ClaimsAlone!Return, AloneP!Return,
    ClaimsAlone!Unused, AloneP!Unused, ClaimsAlone!Begin, AloneP!Begin,
    ClaimsAlone!FirstStep, AloneP!FirstStep, ClaimsAlone!Enter, AloneP!Enter,
    ClaimsAlone!EnterRelease, AloneP!EnterRelease, ClaimsAlone!EnterGone,
    AloneP!EnterGone, ClaimsAlone!AltGone, AloneP!AltGone, ClaimsAlone!Lock,
    AloneP!Lock, ClaimsAlone!Unlock, AloneP!Unlock, ClaimsAlone!Claimed,
    AloneP!Claimed, ClaimsAlone!Had, AloneP!Had, ClaimsAlone!DetachAndClaim,
    AloneP!DetachAndClaim, ClaimsAlone!Claim, AloneP!Claim, ClaimsAlone!Here,
    AloneP!Here, ClaimsAlone!GetDriver, AloneP!GetDriver,
    ClaimsAlone!Disconnected, AloneP!Disconnected,
    ClaimsAlone!ClaimDisconnect, AloneP!ClaimDisconnect, ClaimsAlone!Bind,
    AloneP!Bind, ClaimsAlone!Release, AloneP!Release, ClaimsAlone!Reattach,
    AloneP!Reattach, ClaimsAlone!AltChecked, AloneP!AltChecked,
    ClaimsAlone!SetAlt, AloneP!SetAlt, ClaimsAlone!IsNext, AloneP!IsNext,
    ClaimsAlone!LoopEnds, AloneP!LoopEnds, ClaimsAlone!ResetUnbind,
    AloneP!ResetUnbind, ClaimsAlone!ResetDone, AloneP!ResetDone,
    ClaimsAlone!ResetFailed, AloneP!ResetFailed, ClaimsAlone!Reclaim,
    AloneP!Reclaim, ClaimsAlone!UserGetDriver, AloneP!UserGetDriver,
    ClaimsAlone!UserDisconnect, AloneP!UserDisconnect,
    ClaimsAlone!UserAttach, AloneP!UserAttach, ClaimsAlone!SetAuto,
    AloneP!SetAuto, ClaimsAlone!Value, AloneP!Value,
    ClaimsAlone!SetConfiguration, AloneP!SetConfiguration,
    ClaimsAlone!GetConfiguration, AloneP!GetConfiguration,
    ClaimsAlone!CacheConfig, AloneP!CacheConfig, ClaimsAlone!Fresh,
    AloneP!Fresh, ClaimsAlone!Open, AloneP!Open, ClaimsAlone!Wrap,
    AloneP!Wrap, ClaimsAlone!Dropped, AloneP!Dropped, ClaimsAlone!CloseFd,
    AloneP!CloseFd, ClaimsAlone!Close, AloneP!Close, ClaimsAlone!CloseKept,
    AloneP!CloseKept, ClaimsAlone!Step, AloneP!Step, ClaimsAlone!Next,
    AloneP!Next

LEMMA SharedPSame ==
  (ClaimsShared!Init => SharedP!Init) /\ ([ClaimsShared!Next]_ClaimsShared!vars => [SharedP!Next]_SharedP!vars)
BY DEF
    ClaimsShared!Free, SharedP!Free, ClaimsShared!device, SharedP!device,
    ClaimsShared!config, SharedP!config, ClaimsShared!handles,
    SharedP!handles, ClaimsShared!threads, SharedP!threads,
    ClaimsShared!history, SharedP!history, ClaimsShared!vars, SharedP!vars,
    ClaimsShared!Ifaces, SharedP!Ifaces, ClaimsShared!Usbfs, SharedP!Usbfs,
    ClaimsShared!Job, SharedP!Job, ClaimsShared!NoJob, SharedP!NoJob,
    ClaimsShared!Init, SharedP!Init, ClaimsShared!BindResult,
    SharedP!BindResult, ClaimsShared!TakeResult, SharedP!TakeResult,
    ClaimsShared!UnbindResult, SharedP!UnbindResult, ClaimsShared!Bound,
    SharedP!Bound, ClaimsShared!Outside, SharedP!Outside,
    ClaimsShared!Unplug, SharedP!Unplug, ClaimsShared!Disconnect,
    SharedP!Disconnect, ClaimsShared!Attached, SharedP!Attached,
    ClaimsShared!H, SharedP!H, ClaimsShared!I, SharedP!I,
    ClaimsShared!Return, SharedP!Return, ClaimsShared!Unused, SharedP!Unused,
    ClaimsShared!Begin, SharedP!Begin, ClaimsShared!FirstStep,
    SharedP!FirstStep, ClaimsShared!Enter, SharedP!Enter,
    ClaimsShared!EnterRelease, SharedP!EnterRelease, ClaimsShared!EnterGone,
    SharedP!EnterGone, ClaimsShared!AltGone, SharedP!AltGone,
    ClaimsShared!Lock, SharedP!Lock, ClaimsShared!Unlock, SharedP!Unlock,
    ClaimsShared!Claimed, SharedP!Claimed, ClaimsShared!Had, SharedP!Had,
    ClaimsShared!DetachAndClaim, SharedP!DetachAndClaim, ClaimsShared!Claim,
    SharedP!Claim, ClaimsShared!Here, SharedP!Here, ClaimsShared!GetDriver,
    SharedP!GetDriver, ClaimsShared!Disconnected, SharedP!Disconnected,
    ClaimsShared!ClaimDisconnect, SharedP!ClaimDisconnect, ClaimsShared!Bind,
    SharedP!Bind, ClaimsShared!Release, SharedP!Release,
    ClaimsShared!Reattach, SharedP!Reattach, ClaimsShared!AltChecked,
    SharedP!AltChecked, ClaimsShared!SetAlt, SharedP!SetAlt,
    ClaimsShared!IsNext, SharedP!IsNext, ClaimsShared!LoopEnds,
    SharedP!LoopEnds, ClaimsShared!ResetUnbind, SharedP!ResetUnbind,
    ClaimsShared!ResetDone, SharedP!ResetDone, ClaimsShared!ResetFailed,
    SharedP!ResetFailed, ClaimsShared!Reclaim, SharedP!Reclaim,
    ClaimsShared!UserGetDriver, SharedP!UserGetDriver,
    ClaimsShared!UserDisconnect, SharedP!UserDisconnect,
    ClaimsShared!UserAttach, SharedP!UserAttach, ClaimsShared!SetAuto,
    SharedP!SetAuto, ClaimsShared!Value, SharedP!Value,
    ClaimsShared!SetConfiguration, SharedP!SetConfiguration,
    ClaimsShared!GetConfiguration, SharedP!GetConfiguration,
    ClaimsShared!CacheConfig, SharedP!CacheConfig, ClaimsShared!Fresh,
    SharedP!Fresh, ClaimsShared!Open, SharedP!Open, ClaimsShared!Wrap,
    SharedP!Wrap, ClaimsShared!Dropped, SharedP!Dropped,
    ClaimsShared!CloseFd, SharedP!CloseFd, ClaimsShared!Close, SharedP!Close,
    ClaimsShared!CloseKept, SharedP!CloseKept, ClaimsShared!Step,
    SharedP!Step, ClaimsShared!Next, SharedP!Next

LEMMA MonitorRuns == AllSpec => (which = "monitor" => Monitor!Spec)
<1>1. AllInit /\ which = "monitor" => Monitor!Init
  BY DEF AllInit
<1>2. which = "monitor" /\ [AllNext]_all
      => [Monitor!Next]_Monitor!vars /\ (which = "monitor")'
  BY DEF AllNext, all, others, monitorVars, Monitor!vars
<1> QED
  BY <1>1, <1>2, PTL DEF AllSpec, Monitor!Spec

LEMMA PolledPRuns == AllSpec => (which = "events" => PolledP!Spec)
<1>1. AllInit /\ which = "events" => PolledP!Init
  BY PolledPSame DEF AllInit
<1>2. which = "events" /\ [AllNext]_all => [PolledP!Next]_PolledP!vars /\ (which = "events")'
  BY PolledPSame DEF AllNext, all, others, eventsVars,
      Polled!vars, PolledP!vars
<1> QED
  BY <1>1, <1>2, PTL DEF AllSpec, PolledP!Spec

LEMMA SignalledPRuns == AllSpec => (which = "signalled" => SignalledP!Spec)
<1>1. AllInit /\ which = "signalled" => SignalledP!Init
  BY SignalledPSame DEF AllInit
<1>2. which = "signalled" /\ [AllNext]_all => [SignalledP!Next]_SignalledP!vars /\ (which = "signalled")'
  BY SignalledPSame DEF AllNext, all, others, eventsVars,
      Signalled!vars, SignalledP!vars
<1> QED
  BY <1>1, <1>2, PTL DEF AllSpec, SignalledP!Spec

LEMMA ClaimsPRuns == AllSpec => (which = "claims" => ClaimsP!Spec)
<1>1. AllInit /\ which = "claims" => ClaimsP!Init
  BY ClaimsPSame DEF AllInit
<1>2. which = "claims" /\ [AllNext]_all => [ClaimsP!Next]_ClaimsP!vars /\ (which = "claims")'
  BY ClaimsPSame DEF AllNext, all, others, claimsVars,
      Claims!device, Claims!config, Claims!handles, Claims!threads,
      Claims!history, Claims!vars, ClaimsP!device, ClaimsP!config,
      ClaimsP!handles, ClaimsP!threads, ClaimsP!history, ClaimsP!vars
<1> QED
  BY <1>1, <1>2, PTL DEF AllSpec, ClaimsP!Spec

LEMMA AlonePRuns == AllSpec => (which = "alone" => AloneP!Spec)
<1>1. AllInit /\ which = "alone" => AloneP!Init
  BY AlonePSame DEF AllInit
<1>2. which = "alone" /\ [AllNext]_all => [AloneP!Next]_AloneP!vars /\ (which = "alone")'
  BY AlonePSame DEF AllNext, all, others, claimsVars,
      ClaimsAlone!device, ClaimsAlone!config, ClaimsAlone!handles,
      ClaimsAlone!threads, ClaimsAlone!history, ClaimsAlone!vars,
      AloneP!device, AloneP!config, AloneP!handles, AloneP!threads,
      AloneP!history, AloneP!vars
<1> QED
  BY <1>1, <1>2, PTL DEF AllSpec, AloneP!Spec

LEMMA SharedPRuns == AllSpec => (which = "shared" => SharedP!Spec)
<1>1. AllInit /\ which = "shared" => SharedP!Init
  BY SharedPSame DEF AllInit
<1>2. which = "shared" /\ [AllNext]_all => [SharedP!Next]_SharedP!vars /\ (which = "shared")'
  BY SharedPSame DEF AllNext, all, others, claimsVars,
      ClaimsShared!device, ClaimsShared!config, ClaimsShared!handles,
      ClaimsShared!threads, ClaimsShared!history, ClaimsShared!vars,
      SharedP!device, SharedP!config, SharedP!handles, SharedP!threads,
      SharedP!history, SharedP!vars
<1> QED
  BY <1>1, <1>2, PTL DEF AllSpec, SharedP!Spec

(***************************************************************************)
(* The threads that share the events (io.c, core.c): the pipe tells of     *)
(* exactly what is pending with either backend, and what poll() reported   *)
(* is handled while its handle is open though handles are closed under it. *)
(***************************************************************************)
THEOREM EventsHold == AllSpec => []EventsSound
<1>1. PolledP!EventsAssumption /\ SignalledP!EventsAssumption
  <2>1. /\ PolledP!IsFiniteSet(Threads) <=> Polled!IsFiniteSet(Threads)
        /\ SignalledP!IsFiniteSet(Threads) <=> Signalled!IsFiniteSet(Threads)
    BY DEF PolledP!IsFiniteSet, Polled!IsFiniteSet, SignalledP!IsFiniteSet,
           Signalled!IsFiniteSet
  <2>2. Polled!EventsAssumption /\ Signalled!EventsAssumption
    BY ConstantsAreAllowed
  <2> QED
    BY <2>1, <2>2
    DEF Polled!EventsAssumption, Signalled!EventsAssumption,
        PolledP!EventsAssumption, SignalledP!EventsAssumption,
        Polled!Holders, Signalled!Holders, PolledP!Holders, SignalledP!Holders
<1>2. PolledP!Spec => []PolledP!TypeOK
  BY <1>1, PolledP!TypeCorrect
<1>3. PolledP!Spec => []PolledP!PipeMatchesFlags
  BY <1>1, PolledP!PipeIsRight
<1>4. PolledP!Spec => []PolledP!ReportedIsOpen
  BY <1>1, PolledP!ReportedStaysOpen
<1>5. SignalledP!Spec => []SignalledP!PipeMatchesFlags
  BY <1>1, SignalledP!PipeIsRight
<1>6. ~(which = "events") /\ [AllNext]_all => (~(which = "events"))'
  BY DEF AllNext, all, others
<1>7. ~(which = "signalled") /\ [AllNext]_all => (~(which = "signalled"))'
  BY DEF AllNext, all, others
<1>8. /\ which = "events" => /\ PolledP!TypeOK /\ PolledP!PipeMatchesFlags
                             /\ PolledP!ReportedIsOpen
      /\ which = "signalled" => SignalledP!PipeMatchesFlags
      => EventsSound
  <2>1. PolledP!TypeOK => Polled!TypeOK
    <3>1. PolledP!Cardinality(Threads) = Polled!Cardinality(Threads)
      BY DEF PolledP!Cardinality, Polled!Cardinality, PolledP!IsFiniteSet,
             Polled!IsFiniteSet
    <3> QED
      BY <3>1 DEF
        Polled!Holders, PolledP!Holders, Polled!Flags, PolledP!Flags,
        Polled!PCs, PolledP!PCs, Polled!TypeOK, PolledP!TypeOK
  <2>2. PolledP!PipeMatchesFlags => Polled!PipeMatchesFlags
    BY DEF
      Polled!PipeMatchesFlags, PolledP!PipeMatchesFlags
  <2>3. PolledP!ReportedIsOpen => Polled!ReportedIsOpen
    BY DEF
      Polled!ReportedIsOpen, PolledP!ReportedIsOpen
  <2>4. SignalledP!PipeMatchesFlags => Signalled!PipeMatchesFlags
    BY DEF
      Signalled!PipeMatchesFlags, SignalledP!PipeMatchesFlags
  <2> QED
    BY <2>1, <2>2, <2>3, <2>4 DEF EventsSound
<1> QED
  BY <1>2, <1>3, <1>4, <1>5, <1>6, <1>7, <1>8, PolledPRuns, SignalledPRuns, PTL
  DEF AllSpec

(***************************************************************************)
(* The transfers (io.c, sync.c): one callback for each, told the truth,    *)
(* the list as it must be, nothing freed in use, and nothing left after a  *)
(* disconnect.                                                             *)
(***************************************************************************)
THEOREM TransfersHold == AllSpec => []TransfersSound
<1>1. TransfersAssumption
  BY ConstantsAreAllowed
<1>2. Spec => []TypeOK
  BY <1>1, TypeCorrect
<1>3. Spec => []CallbackIsOwed
  BY <1>1, CallbackOnce
<1>4. Spec => [](ListedWhileOwed /\ SortedByTimeout)
  BY <1>1, ListTrueAndSorted
<1>5. Spec => []StatusIsTrue
  BY <1>1, StatusTrue
<1>6. Spec => []FreedIsUntouched
  BY <1>1, FreedStaysUntouched
<1>7. Spec => []DisconnectedIsEmpty
  BY <1>1, DisconnectLeavesNone
<1> QED
  BY <1>2, <1>3, <1>4, <1>5, <1>6, <1>7, TransfersRun, PTL DEF TransfersSound

(***************************************************************************)
(* Handles and claims on Linux (linux_usbfs.c, core.c): of one handle that *)
(* threads share, with automatic detaching, the mask is what usbfs holds,  *)
(* the lock protects it, and drivers come back; for one thread that makes  *)
(* every call the mask is right and the cached configuration is the active *)
(* one.  And of the monitor: whoever is inside libusb_init and libusb_exit *)
(* is served, whoever else exits or fails to initialize (core.c,           *)
(* linux_netlink.c), and a poll leaves no message that waited.             *)
(***************************************************************************)
THEOREM LinuxHolds == AllSpec => []LinuxSound
<1>1. ClaimsP!ClaimsAssumption /\ AloneP!ClaimsAssumption
  BY ConstantsAreAllowed
  DEF Claims!ClaimsAssumption, ClaimsAlone!ClaimsAssumption,
      ClaimsP!ClaimsAssumption, AloneP!ClaimsAssumption,
      Claims!Free, ClaimsP!Free, ClaimsAlone!Free, AloneP!Free
<1>2. /\ ClaimsP!Locking /\ ClaimsP!Keeping
      /\ {"open", "wrap"} \cap {"claim", "release", "reset", "auto"} = {}
      /\ AloneP!Keeping /\ AloneP!Caching
  BY DEF ClaimsP!Locking, ClaimsP!Keeping, AloneP!Keeping, AloneP!Caching,
         AloneP!OneThread
<1>3. ClaimsP!Spec => []ClaimsP!MaskIsOwned
  BY <1>1, <1>2, ClaimsP!MasksAreOwned
<1>4. ClaimsP!Spec => []ClaimsP!LockProtects
  BY <1>1, <1>2, ClaimsP!LocksProtect
<1>5. ClaimsP!Spec => []ClaimsP!DriverComesBack
  BY <1>1, <1>2, ClaimsP!DriversComeBack
<1>6. AloneP!Spec => []AloneP!TypeOK
  BY <1>1, AloneP!TypeCorrect
<1>7. AloneP!Spec => []AloneP!MaskIsOwned
  BY <1>1, <1>2, AloneP!MasksAreOwned
<1>8. AloneP!Spec => []AloneP!CacheIsActive
  BY <1>1, <1>2, AloneP!CachesAreActive
<1>9. ~(which = "claims") /\ [AllNext]_all => (~(which = "claims"))'
  BY DEF AllNext, all, others
<1>10. ~(which = "alone") /\ [AllNext]_all => (~(which = "alone"))'
  BY DEF AllNext, all, others
<1>11. /\ which = "claims" => /\ ClaimsP!MaskIsOwned /\ ClaimsP!LockProtects
                              /\ ClaimsP!DriverComesBack
       /\ which = "alone" => /\ AloneP!TypeOK /\ AloneP!MaskIsOwned
                             /\ AloneP!CacheIsActive
       /\ which = "monitor" => MonitorIInv
       => LinuxSound
  <2>1. ClaimsP!MaskIsOwned => Claims!MaskIsOwned
    BY DEF
      Claims!Ifaces, ClaimsP!Ifaces, Claims!H, ClaimsP!H, Claims!Unused,
      ClaimsP!Unused, Claims!MaskIsOwned, ClaimsP!MaskIsOwned
  <2>2. ClaimsP!LockProtects => Claims!LockProtects
    BY DEF
      Claims!Locked, ClaimsP!Locked, Claims!H, ClaimsP!H,
      Claims!LockProtects, ClaimsP!LockProtects
  <2>3. ClaimsP!DriverComesBack => Claims!DriverComesBack
    BY DEF
      Claims!H, ClaimsP!H, Claims!Unused, ClaimsP!Unused,
      Claims!DriverComesBack, ClaimsP!DriverComesBack
  <2>4. AloneP!TypeOK => ClaimsAlone!TypeOK
    BY DEF
      ClaimsAlone!Free, AloneP!Free, ClaimsAlone!Ifaces, AloneP!Ifaces,
      ClaimsAlone!Usbfs, AloneP!Usbfs, ClaimsAlone!Locked, AloneP!Locked,
      ClaimsAlone!PCs, AloneP!PCs, ClaimsAlone!Results, AloneP!Results,
      ClaimsAlone!Job, AloneP!Job, ClaimsAlone!TypeOK, AloneP!TypeOK
  <2>5. AloneP!MaskIsOwned => ClaimsAlone!MaskIsOwned
    BY DEF
      ClaimsAlone!Ifaces, AloneP!Ifaces, ClaimsAlone!H, AloneP!H,
      ClaimsAlone!Unused, AloneP!Unused, ClaimsAlone!MaskIsOwned,
      AloneP!MaskIsOwned
  <2>6. AloneP!CacheIsActive => ClaimsAlone!CacheIsActive
    BY DEF
      ClaimsAlone!Value, AloneP!Value, ClaimsAlone!CacheIsActive,
      AloneP!CacheIsActive
  <2> QED
    BY <2>1, <2>2, <2>3, <2>4, <2>5, <2>6, MonitorPromises DEF LinuxSound
<1>12. ~(which = "monitor") /\ [AllNext]_all => (~(which = "monitor"))'
  BY DEF AllNext, all, others
<1> QED
  BY <1>3, <1>4, <1>5, <1>6, <1>7, <1>8, <1>9, <1>10, <1>11, <1>12,
     ClaimsPRuns, AlonePRuns, MonitorRuns, MonitorInvariance, PTL
  DEF AllSpec

(***************************************************************************)
(* No call on Linux (linux_usbfs.c) closes a descriptor libusb did not     *)
(* open or forgets one it did, and with IOCTL_USBFS_DISCONNECT_CLAIM none  *)
(* takes an interface from who holds it.                                   *)
(***************************************************************************)
THEOREM StepsHold == AllSpec => StepsSound
<1>1. AloneP!ClaimsAssumption /\ SharedP!ClaimsAssumption
  BY ConstantsAreAllowed
  DEF ClaimsAlone!ClaimsAssumption, ClaimsShared!ClaimsAssumption,
      AloneP!ClaimsAssumption, SharedP!ClaimsAssumption,
      ClaimsShared!Free, SharedP!Free, ClaimsAlone!Free, AloneP!Free
<1>2. AloneP!Spec => [][AloneP!DescriptorsAreOwned]_AloneP!vars
  BY <1>1, AloneP!DescriptorsOwned
<1>3. SharedP!Spec => [][SharedP!NeverSteals]_SharedP!vars
  BY <1>1, SharedP!ClaimsAreKept
<1>4. ~(which = "alone") /\ [AllNext]_all => (~(which = "alone"))'
  BY DEF AllNext, all, others
<1>5. ~(which = "shared") /\ [AllNext]_all => (~(which = "shared"))'
  BY DEF AllNext, all, others
<1>6. /\ which = "alone" => [AloneP!DescriptorsAreOwned]_AloneP!vars
      /\ which = "shared" => [SharedP!NeverSteals]_SharedP!vars
      => [/\ which = "alone" => ClaimsAlone!DescriptorsAreOwned
          /\ which = "shared" => ClaimsShared!NeverSteals]_all
  <2> SUFFICES ASSUME which = "alone" => [AloneP!DescriptorsAreOwned]_AloneP!vars,
                      which = "shared" => [SharedP!NeverSteals]_SharedP!vars
               PROVE  [/\ which = "alone" => ClaimsAlone!DescriptorsAreOwned
                       /\ which = "shared" => ClaimsShared!NeverSteals]_all
    OBVIOUS
  <2>1. CASE which = "alone"
    BY <2>1 DEF
      ClaimsAlone!device, AloneP!device, ClaimsAlone!config, AloneP!config,
      ClaimsAlone!handles, AloneP!handles, ClaimsAlone!threads,
      AloneP!threads, ClaimsAlone!history, AloneP!history, ClaimsAlone!vars,
      AloneP!vars, ClaimsAlone!DescriptorsAreOwned,
      AloneP!DescriptorsAreOwned
  <2>2. CASE which = "shared"
    BY <2>2 DEF
      ClaimsShared!device, SharedP!device, ClaimsShared!config,
      SharedP!config, ClaimsShared!handles, SharedP!handles,
      ClaimsShared!threads, SharedP!threads, ClaimsShared!history,
      SharedP!history, ClaimsShared!vars, SharedP!vars, ClaimsShared!Ifaces,
      SharedP!Ifaces, ClaimsShared!Usbfs, SharedP!Usbfs,
      ClaimsShared!Outside, SharedP!Outside, ClaimsShared!H, SharedP!H,
      ClaimsShared!NeverSteals, SharedP!NeverSteals
  <2> QED
    BY <2>1, <2>2
<1> QED
  BY <1>2, <1>3, <1>4, <1>5, <1>6, AlonePRuns, SharedPRuns, PTL DEF AllSpec, StepsSound
=============================================================================
