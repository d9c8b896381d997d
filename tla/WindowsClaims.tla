---------------------------- MODULE WindowsClaims ----------------------------
(***************************************************************************)
(* libusb/c/os/windows_winusb.c: what a handle of a device holds open and  *)
(* claimed.  A transfer may claim an interface for itself (auto_claim) and *)
(* gives it up when it ends (auto_release); the program claims and         *)
(* releases meanwhile.  An interface is driven by WinUSB, by libusbK or by *)
(* the HID driver; a composite device may mix them.                        *)
(*                                                                         *)
(* Of interface_handle[i], file is the handle CreateFile gave (dev_handle  *)
(* under WinUSB, api_handle under HID), ready that the other is valid: the *)
(* WinUSB handle, or the mark INTERFACE_CLAIMED.                           *)
(***************************************************************************)
EXTENDS Integers, SequencesExt, FiniteSetsExt

CONSTANTS WinUsb, LibusbK, Hid,   \* interfaces by driver
          Composite,              \* usbccgp: every interface is a device of its own
          Restricted,             \* restricted_functionality
          Transfers, Requests, Bulks,
          Rules,                  \* what the program keeps to
          Fails, MaxCalls

WinUsbX == WinUsb \cup LibusbK
Interfaces == WinUsbX \cup Hid

WindowsClaimsAssumption ==
  /\ Interfaces \subseteq Nat /\ 0 \in Interfaces /\ WinUsb \cap LibusbK = {} /\ WinUsbX \cap Hid = {}
  /\ ~Composite => Cardinality({S \in {WinUsb, LibusbK, Hid} : S # {}}) = 1
  /\ Restricted \subseteq Interfaces /\ MaxCalls \in Nat /\ Bulks \subseteq Interfaces
  /\ Requests \subseteq {"device", "interface", "endpoint", "vendor", "setconf"}
  /\ Rules \subseteq {"alone", "quiet", "first", "addressed", "held"}
  /\ Fails \subseteq {"claim", "endpoints", "io", "denied"}

VARIABLES
  open,                           \* the program has the handle
  h,                              \* the handle's private part
  files, inits,                   \* what the system holds open for it
  users,                          \* the interfaces the program claimed
  tr,                             \* the transfers
  nonzero,                        \* autoclaim_count was nonzero
  calls                           \* bounds what the program starts

vars == <<open, h, files, inits, users, tr, nonzero, calls>>

None == -1
Api(i) == IF i \in WinUsbX THEN "winusbx" ELSE "hid"
Paths == IF Composite THEN Interfaces ELSE IF Hid # {} THEN Hid ELSE {0}
InOrder(S) == SetToSortSeq(S, <)
Subs == {S \in {WinUsb, LibusbK} : S # {}}
Zero(v) == [i \in Interfaces |-> v]

TypeOK ==
  /\ open \in BOOLEAN /\ nonzero \in BOOLEAN /\ users \subseteq Interfaces /\ calls \in 0 .. MaxCalls
  /\ h.file \in [Interfaces -> 0 .. 2] /\ h.ready \in [Interfaces -> BOOLEAN]
  /\ h.claimed \subseteq Interfaces /\ h.endpoints \subseteq Interfaces /\ h.count \in [Interfaces -> Nat]
  /\ files \in [Interfaces -> SUBSET (1 .. 2)] /\ inits \in [Interfaces -> Int]
  /\ \A t \in Transfers :
       /\ tr[t].pc \in {"idle", "look", "claim", "start", "failed", "flying"}
       /\ tr[t].cur \in Interfaces \cup {None} /\ tr[t].number \in Interfaces

(***************************************************************************)
(* A call works on the handle and the system's count of WinUSB handles     *)
(* together; an outcome says whether it succeeded.                         *)
(***************************************************************************)
Ok(s) == [s |-> s, ok |-> TRUE]
Bad(s) == [s |-> s, ok |-> FALSE]
MayFail(what, S) == IF what \in Fails THEN S ELSE {}

Ready(s, i, v, n) == [s EXCEPT !.h.ready[i] = v, !.inits[i] = @ + n]

(***************************************************************************)
(* WinUsb_Initialize, WinUsb_GetAssociatedInterface.  A failure of either  *)
(* leaves INVALID_HANDLE_VALUE whatever was there.                         *)
(***************************************************************************)
Initialize(s, i) ==
  {Ok(Ready(s, i, TRUE, 1))} \cup MayFail("claim", {Bad(Ready(s, i, FALSE, 0))})

Associate(s, i) ==
  {Ok([Ready(s, i, TRUE, 1) EXCEPT !.h.file[i] = s.h.file[0]])}
    \cup MayFail("claim", {Bad(Ready(s, i, FALSE, 0))})

winusbx_claim_interface(s, i) ==
  IF Composite \/ i = 0
  THEN IF s.h.file[i] = 0 THEN {Bad(s)} ELSE Initialize(s, i)
  ELSE IF s.h.ready[0] THEN Associate(s, i)
  ELSE MayFail("claim", {Bad(s)}) \cup Associate(Ready(s, 0, TRUE, 1), i)

hid_claim_interface(s, i) ==
  IF s.h.ready[i] THEN {Bad(s)} ELSE {Ok([s EXCEPT !.h.ready[i] = TRUE])}

windows_assign_endpoints(s, i) ==
  {Ok([s EXCEPT !.h.endpoints = @ \cup {i}])} \cup MayFail("endpoints", {Bad(s)})

winusb_claim_interface(s0, i) ==
  LET s == [s0 EXCEPT !.h.endpoints = @ \ {i}]
  IN UNION {IF o.ok THEN windows_assign_endpoints(o.s, i) ELSE {o} :
              o \in IF i \in WinUsbX THEN winusbx_claim_interface(s, i) ELSE hid_claim_interface(s, i)}

libusb_claim_interface(s, i) ==
  IF i \in s.h.claimed THEN {Ok(s)}
  ELSE {IF o.ok THEN [o EXCEPT !.s.h.claimed = @ \cup {i}] ELSE o : o \in winusb_claim_interface(s, i)}

winusbx_release_interface(s, i) == IF s.h.ready[i] THEN Ok(Ready(s, i, FALSE, -1)) ELSE Bad(s)

hid_release_interface(s, i) ==
  IF i \in Paths /\ s.h.ready[i] THEN Ok([s EXCEPT !.h.ready[i] = FALSE]) ELSE Bad(s)

winusb_release_interface(s, i) ==
  IF i \in WinUsbX THEN winusbx_release_interface(s, i) ELSE hid_release_interface(s, i)

libusb_release_interface(s, i) ==
  IF i \notin s.h.claimed THEN Bad(s)
  ELSE LET o == winusb_release_interface(s, i)
       IN IF o.ok THEN [o EXCEPT !.s.h.claimed = @ \ {i}] ELSE o

(***************************************************************************)
(* The alternate setting of an interface renews its endpoints; they are    *)
(* dropped before the driver is asked.                                     *)
(***************************************************************************)
winusb_set_interface_altsetting(s0, i) ==
  LET s == [s0 EXCEPT !.h.endpoints = @ \ {i}]
  IN IF i \in WinUsbX /\ ~s.h.ready[i] THEN {Bad(s)} ELSE windows_assign_endpoints(s, i)

(***************************************************************************)
(* "attempt to release the auto-claimed interface": a count that falls to  *)
(* zero releases, whoever claimed.                                         *)
(***************************************************************************)
auto_claim(s, api) ==
  LET try(o, i) ==
        IF o.cur # None THEN {o}
        ELSE {[s |-> IF c.ok THEN [c.s EXCEPT !.h.count[i] = @ + 1] ELSE c.s,
               cur |-> IF c.ok THEN i ELSE None,
               nonzero |-> c.ok /\ c.s.h.count[i] # 0] : c \in libusb_claim_interface(o.s, i)}
  IN FoldLeft(LAMBDA O, i : UNION {try(o, i) : o \in O}, {[s |-> s, cur |-> None, nonzero |-> FALSE]},
              InOrder({i \in Interfaces : Api(i) = api}))

\* the slip of a count that is compared before it is lowered
NeverReleased(s, i) ==
  LET less == [s EXCEPT !.h.count[i] = @ - 1]
  IN IF s.h.count[i] = 0 THEN s
     ELSE IF s.h.count[i] = 0 THEN libusb_release_interface(less, i).s ELSE less

auto_release(s, i) ==
  LET less == [s EXCEPT !.h.count[i] = @ - 1]
  IN IF s.h.count[i] = 0 THEN s
     ELSE IF less.h.count[i] = 0 THEN libusb_release_interface(less, i).s ELSE less

(***************************************************************************)
(* Which interface serves a transfer.                                      *)
(***************************************************************************)
Valid(s, i) == s.file[i] # 0 /\ s.ready[i]

First(S) == IF S = {} THEN None ELSE Min(S)

get_valid_interface(api) == First({i \in Interfaces : Api(i) = api /\ Valid(h, i)})

check_valid_interface(i, api) == IF Api(i) = api /\ Valid(h, i) THEN i ELSE None

interface_by_endpoint(i) ==
  IF i \in h.endpoints /\ (IF i \in WinUsbX THEN h.ready[i] ELSE h.file[i] # 0) THEN i ELSE None

(***************************************************************************)
(* The program opens and closes the handle.  Each driver of a composite    *)
(* device opens and closes, and takes every interface of its API.          *)
(***************************************************************************)
Times(i) == IF i \notin Paths THEN 0 ELSE IF i \in WinUsbX /\ Composite THEN Cardinality(Subs) ELSE 1

NoHandle ==
  [file |-> Zero(0), ready |-> Zero(FALSE), claimed |-> {}, endpoints |-> {}, count |-> Zero(0)]

Opens(denied) ==
  /\ h' = [NoHandle EXCEPT !.file = [i \in Interfaces |-> IF i \in denied THEN 0 ELSE Times(i)]]
  /\ files' = [i \in Interfaces |-> 1 .. h'.file[i]]

Open ==
  /\ ~open /\ calls < MaxCalls /\ calls' = calls + 1 /\ files = Zero({})
  /\ open' = TRUE
  /\ \E denied \in {{}} \cup MayFail("denied", IF Composite THEN {Hid} ELSE {}) : Opens(denied)
  /\ UNCHANGED <<inits, users, tr, nonzero>>

Quiet == \A t \in Transfers : tr[t].pc = "idle"

Closes(i) == IF ~Composite /\ i \in WinUsbX /\ i # 0 THEN 0 ELSE Times(i)

Close ==
  /\ open /\ Quiet /\ users = {}
  /\ open' = FALSE
  /\ files' = [i \in Interfaces |-> IF Closes(i) = 0 THEN files[i] ELSE files[i] \ {h.file[i]}]
  /\ inits' = [i \in Interfaces |-> IF i \in WinUsbX /\ h.ready[i] THEN inits[i] - 1 ELSE inits[i]]
  /\ h' = NoHandle
  /\ UNCHANGED <<users, tr, nonzero, calls>>

(***************************************************************************)
(* The program claims and releases.  "first": interface 0 is claimed       *)
(* before and released after the others.  "quiet": while no transfer is    *)
(* under way.                                                              *)
(***************************************************************************)
State == [h |-> h, inits |-> inits]
Becomes(s) == h' = s.h /\ inits' = s.inits

Calls == open /\ calls < MaxCalls /\ calls' = calls + 1 /\ ("quiet" \in Rules => Quiet)

Claim(i) ==
  /\ Calls
  /\ "first" \in Rules => i = 0 \/ 0 \in users
  /\ \E o \in libusb_claim_interface(State, i) :
       Becomes(o.s) /\ users' = IF o.ok THEN users \cup {i} ELSE users
  /\ UNCHANGED <<open, files, tr, nonzero>>

Release(i) ==
  /\ open /\ ("quiet" \in Rules => Quiet) /\ i \in users
  /\ "first" \in Rules => i # 0 \/ users = {0}
  /\ Becomes(libusb_release_interface(State, i).s) /\ users' = users \ {i}
  /\ UNCHANGED <<open, files, tr, nonzero, calls>>

SetAlt(i) ==
  /\ Calls /\ i \in h.claimed /\ i \in users
  /\ \E o \in winusb_set_interface_altsetting(State, i) : Becomes(o.s)
  /\ UNCHANGED <<open, users, files, tr, nonzero>>

(***************************************************************************)
(* A control transfer of a composite device tries the interface it names,  *)
(* then all, those of full functionality first.                            *)
(***************************************************************************)
Addressed(r) == r \in {"interface", "endpoint"}

Tries(r, i) ==
  IF ~Composite THEN <<0>>
  ELSE (IF Addressed(r) THEN <<i>> ELSE <<>>) \o InOrder(Paths \ Restricted) \o InOrder(Paths)

Starts(t) ==
  /\ open /\ tr[t].pc = "idle" /\ calls < MaxCalls /\ calls' = calls + 1
  /\ "alone" \in Rules => Quiet
  /\ "held" \in Rules => 0 \in users

Control(t, r, i) ==
  /\ Starts(t)
  /\ IF Addressed(r) THEN "addressed" \in Rules => i \in users ELSE i = 0
  /\ tr' = [tr EXCEPT ![t] = [@ EXCEPT !.pc = "look", !.bulk = FALSE, !.request = r, !.at = i,
                                        !.todo = Tries(r, i), !.targeted = Composite /\ Addressed(r)]]
  /\ UNCHANGED <<open, h, files, inits, users, nonzero>>

Bulk(t, i) ==
  /\ Starts(t)
  /\ tr' = [tr EXCEPT ![t] = [@ EXCEPT !.pc = "look", !.bulk = TRUE, !.at = i]]
  /\ UNCHANGED <<open, h, files, inits, users, nonzero>>

(***************************************************************************)
(* The interface is looked up without a lock.                              *)
(***************************************************************************)
Driver(t) == Api(Head(tr[t].todo))

Looked(t) ==
  IF tr[t].bulk THEN interface_by_endpoint(tr[t].at)
  ELSE IF tr[t].request = "interface" /\ Driver(t) = "winusbx"
  THEN check_valid_interface(tr[t].at, "winusbx")
  ELSE get_valid_interface(Driver(t))

Look(t) ==
  /\ tr[t].pc = "look"
  /\ LET i == Looked(t) IN
       tr' = [tr EXCEPT ![t].cur = i,
                        ![t].pc = IF i # None THEN "start" ELSE IF tr[t].bulk THEN "failed" ELSE "claim"]
  /\ UNCHANGED <<open, h, files, inits, users, nonzero, calls>>

(***************************************************************************)
(* "it may be supported on another, so don't give up yet!!": an attempt    *)
(* that fails is given up without clearing what it claimed.                *)
(***************************************************************************)
NextTry(x, unsupported) ==
  IF x.bulk \/ ~(x.targeted \/ unsupported) \/ Len(x.todo) = 1
  THEN [x EXCEPT !.pc = "failed"]
  ELSE [x EXCEPT !.pc = "look", !.todo = Tail(@), !.targeted = FALSE]

AutoClaim(t) ==
  /\ tr[t].pc = "claim"
  /\ \E o \in auto_claim(State, Driver(t)) :
       /\ Becomes(o.s) /\ nonzero' = (nonzero \/ o.nonzero)
       /\ tr' = [tr EXCEPT ![t] = IF o.cur = None THEN NextTry(@, FALSE) ELSE [@ EXCEPT !.pc = "start", !.cur = o.cur]]
  /\ UNCHANGED <<open, files, users, calls>>

(***************************************************************************)
(* The transfer is given to the driver with the handle as it is now.       *)
(***************************************************************************)
Refuses(x) ==
  /\ ~x.bulk
  /\ IF Api(x.cur) = "hid" THEN x.request \in {"vendor", "setconf"} ELSE x.request = "setconf"

Usable(i) == IF i \in WinUsbX THEN h.ready[i] ELSE h.file[i] # 0

Start(t) ==
  /\ tr[t].pc = "start"
  /\ LET x == [tr[t] EXCEPT !.number = tr[t].cur] IN
       IF Refuses(x) THEN tr' = [tr EXCEPT ![t] = NextTry(x, TRUE)]
       ELSE \/ Usable(x.cur) /\ tr' = [tr EXCEPT ![t] = [x EXCEPT !.pc = "flying"]]
            \/ ~Usable(x.cur) /\ tr' = [tr EXCEPT ![t] = NextTry(x, FALSE)]
            \/ "io" \in Fails /\ tr' = [tr EXCEPT ![t] = NextTry(x, FALSE)]
  /\ UNCHANGED <<open, h, files, inits, users, nonzero, calls>>

(***************************************************************************)
(* A transfer that failed to start or that has ended is cleared by         *)
(* winusb_clear_transfer_priv.                                             *)
(***************************************************************************)
winusb_clear_transfer_priv(t) ==
  /\ Becomes(auto_release(State, tr[t].number))
  /\ tr' = [tr EXCEPT ![t].pc = "idle"]
  /\ UNCHANGED <<open, files, users, nonzero, calls>>

Failed(t) == tr[t].pc = "failed" /\ winusb_clear_transfer_priv(t)
Complete(t) == tr[t].pc = "flying" /\ winusb_clear_transfer_priv(t)

---------------------------------------------------------------------------
Init ==
  /\ open = FALSE /\ h = NoHandle /\ files = Zero({}) /\ inits = Zero(0) /\ users = {}
  /\ tr = [t \in Transfers |-> [pc |-> "idle", bulk |-> FALSE, request |-> "device", at |-> 0,
                                todo |-> <<>>, targeted |-> FALSE, cur |-> None, number |-> 0]]
  /\ nonzero = FALSE /\ calls = 0

Next ==
  \/ Open \/ Close
  \/ \E i \in Interfaces : Claim(i) \/ Release(i) \/ SetAlt(i)
  \/ \E t \in Transfers : Look(t) \/ AutoClaim(t) \/ Start(t) \/ Failed(t) \/ Complete(t)
  \/ \E t \in Transfers, i \in Bulks : Bulk(t, i)
  \/ \E t \in Transfers, r \in Requests, i \in Interfaces : Control(t, r, i)

Spec == Init /\ [][Next]_vars

(***************************************************************************)
(* The claims of a handle are the program's own: what a transfer claimed   *)
(* is given back when the transfers are over, and nothing else is.  "It is *)
(* legal to attempt to claim an already-claimed interface" (core.c:1639),  *)
(* by the program and by auto_claim.                                       *)
(***************************************************************************)
ClaimsKept == Quiet => h.claimed = users /\ h.count = Zero(0)

(***************************************************************************)
(* An interface is not given up under a transfer: "we can prevent an early *)
(* release." (windows_winusb.c:635).                                       *)
(***************************************************************************)
InUse == \A t \in Transfers : tr[t].pc = "flying" => Usable(tr[t].number)

(***************************************************************************)
(* "program assertion failed - autoclaim_count was nonzero"                *)
(* (windows_winusb.c:624).                                                 *)
(***************************************************************************)
CountWasZero == ~nonzero

(***************************************************************************)
(* Every WinUSB handle the system gave out is still known, so that it can  *)
(* be freed: none is overwritten by a second claim.                        *)
(***************************************************************************)
NoHandleLost == \A i \in WinUsbX : inits[i] = IF h.ready[i] THEN 1 ELSE 0

(***************************************************************************)
(* A closed handle leaves nothing open: "open and close must ensure that   *)
(* they only handle interface of" (windows_winusb.c:2449) the right type.  *)
(***************************************************************************)
NothingOpen == ~open => files = Zero({}) /\ inits = Zero(0)

(***************************************************************************)
(* A claimed interface has its endpoints, without which no transfer finds  *)
(* it: a claim, and a claim made twice, leaves them assigned.              *)
(***************************************************************************)
ClaimedHasEndpoints == users \subseteq h.endpoints
=============================================================================
