--------------------------- MODULE DarwinHandles ----------------------------
(***************************************************************************)
(* libusb/c/os/darwin_usb.c: what handles do with a cached device.  All    *)
(* handles of a device share one IOKit object and one open_count; the      *)
(* handle that opened first holds the event source and the right to close  *)
(* the device.  An interface has an IOKit object of its own (made by       *)
(* QueryInterface, open after USBInterfaceOpen), a table of endpoints and  *)
(* an event source in the run loop.                                        *)
(*                                                                         *)
(* The functions of this file call each other in every direction and most  *)
(* of their steps can fail, so a function is an operator from a state to   *)
(* the set of its outcomes, each a state and what the function returns.    *)
(* One call of the library is one step.                                    *)
(***************************************************************************)
EXTENDS Integers, FiniteSets, SequencesExt

CONSTANTS Handles, Ifaces,
          Config1, Config2,       \* the interfaces of the two configurations
          FirstConfig,            \* dpriv->first_config
          Driver,                 \* a driver of the system holds the interfaces
          Ops,                    \* the calls programs make
          Fails,                  \* the calls of IOKit that may fail
          Rules,                  \* what programs keep to: see Allowed
          MaxCalls, MaxDepth

HandlesAssumption ==
  /\ Ifaces \subseteq Nat /\ IsFiniteSet(Ifaces) /\ IsFiniteSet(Handles)
  /\ Config1 \subseteq Ifaces /\ Config2 \subseteq Ifaces /\ FirstConfig \in 0 .. 2
  /\ Driver \in BOOLEAN /\ Rules \subseteq {"lifo", "apart", "alone", "idle", "paired"}
  /\ {MaxCalls, MaxDepth} \subseteq Nat
  /\ Ops \subseteq {"open", "close", "claim", "release", "config", "alt", "reset", "auto",
                    "detach", "attach"}
  /\ Fails \subseteq {"seize", "source", "config", "plugin", "iopen", "endpoints", "isource",
                      "stall", "nopipe", "reenumerate", "changed"}

VARIABLES
  s,                              \* the device, the handles, the system
  opened,                         \* the handles that are open, oldest first
  call,                           \* the last call and what it returned
  calls

vars == <<s, opened, call, calls>>

(***************************************************************************)
(* iface is the object a handle keeps: none, one that was made but not     *)
(* opened, an open one, or one whose interface the system has taken away.  *)
(***************************************************************************)
HandleState == [is_open : BOOLEAN, source : BOOLEAN, auto : BOOLEAN, claimed : SUBSET Ifaces,
                iface : [Ifaces -> {"none", "made", "open", "dead"}],
                eps : SUBSET Ifaces, isrc : SUBSET Ifaces]
Blank == [is_open |-> FALSE, source |-> FALSE, auto |-> FALSE, claimed |-> {},
          iface |-> [i \in Ifaces |-> "none"], eps |-> {}, isrc |-> {}]

State == [hd : [Handles -> HandleState],
          count : Nat, active : 0 .. 2, capture : Int,           \* open_count, active_config, capture_count
          seized : BOOLEAN, conf : 0 .. 2, captured : BOOLEAN,   \* the system: open for us alone, its configuration
          kopen : SUBSET Ifaces,                                 \* interfaces that are open for us
          devsrc : Nat, ifsrc : Nat, objs : Nat,                 \* sources in the run loop, interface objects
          broken : BOOLEAN]                                      \* a null object was called

Returns == {"ok", "NO_DEVICE", "NOT_FOUND", "ACCESS", "PIPE", "NO_MEM", "OTHER", "overflow"}
TypeOK == /\ s \in State /\ calls \in 0 .. MaxCalls
          /\ opened \in BoundedSeq(Handles, Cardinality(Handles)) /\ IsInjective(opened)
          /\ call \in [op : Ops \cup {"none"}, h : Handles, i : Ifaces, ret : Returns]

OfConfig(c) == CASE c = 0 -> {} [] c = 1 -> Config1 [] c = 2 -> Config2
Known(S(_)) == Cardinality(UNION {{h} \X S(h) : h \in Handles})

(***************************************************************************)
(* Outcomes: Out is one, Then goes on where a function succeeded, Finally  *)
(* goes on whatever it returned.                                           *)
(***************************************************************************)
Out(t, ret) == {[t |-> t, ret |-> ret]}
Then(outs, Next_(_)) == UNION {IF o.ret = "ok" THEN Next_(o.t) ELSE {o} : o \in outs}
Finally(outs, Next_(_)) == UNION {IF o.ret = "overflow" \/ o.t.broken THEN {o} ELSE Next_(o.t) : o \in outs}
MayFail(what, t, ret) == IF what \in Fails THEN Out(t, ret) ELSE {}

InOrder(S) == SetToSortSeq(S, <)
Try(F(_, _), t, S) == FoldSeq(LAMBDA i, outs : Finally(outs, LAMBDA u : F(u, i)), Out(t, "ok"), InOrder(S))

(***************************************************************************)
(* The system drops what a device had open: the objects are dead.          *)
(***************************************************************************)
Dropped(t) ==
  [t EXCEPT !.kopen = {},
            !.hd = [h \in Handles |-> [t.hd[h] EXCEPT !.iface = [i \in Ifaces |->
                      IF t.hd[h].iface[i] = "open" THEN "dead" ELSE t.hd[h].iface[i]]]]]

darwin_open(t, h) ==
  LET Source(u) == Out([u EXCEPT !.hd[h].source = TRUE, !.devsrc = @ + 1, !.count = 1], "ok")
                     \cup MayFail("source", [u EXCEPT !.seized = @ /\ ~u.hd[h].is_open,
                                                      !.hd[h].is_open = FALSE], "OTHER")
  IN IF t.count # 0 THEN Out([t EXCEPT !.count = @ + 1], "ok")
     ELSE Source([t EXCEPT !.hd[h].is_open = TRUE, !.seized = TRUE])
            \cup (IF t.seized \/ "seize" \in Fails THEN Source([t EXCEPT !.hd[h].is_open = FALSE]) ELSE {})
            \cup MayFail("seize", t, "OTHER")

darwin_release_interface(t, h, i) ==
  IF t.hd[h].iface[i] = "none" THEN t
  ELSE LET open == t.hd[h].iface[i] = "open"
       IN [t EXCEPT !.hd[h].eps = @ \ {i}, !.hd[h].isrc = @ \ {i}, !.hd[h].iface[i] = "none",
                    !.ifsrc = @ - Cardinality({i} \cap t.hd[h].isrc), !.objs = @ - 1,
                    !.kopen = IF open THEN @ \ {i} ELSE @]

RECURSIVE darwin_claim_interface(_, _, _, _), darwin_set_configuration(_, _, _, _)

(***************************************************************************)
(* The interfaces go with the configuration, so those the mask names are   *)
(* released and claimed again, whatever their claims return.               *)
(***************************************************************************)
\* the slip of interfaces not claimed again
ConfigureOnly(t, h, c, depth) ==
  LET released == FoldSeq(LAMBDA i, u : darwin_release_interface(u, h, i), t, InOrder(t.hd[h].claimed))
      Reclaim(u, i) == darwin_claim_interface(u, h, i, depth)
      set == [Dropped(released) EXCEPT !.conf = c]
  IN Out([set EXCEPT !.active = c], "ok")
       \cup MayFail("config", released, "OTHER")

darwin_set_configuration(t, h, c, depth) ==
  LET released == FoldSeq(LAMBDA i, u : darwin_release_interface(u, h, i), t, InOrder(t.hd[h].claimed))
      Reclaim(u, i) == darwin_claim_interface(u, h, i, depth)
      set == [Dropped(released) EXCEPT !.conf = c]
  IN Finally(Try(Reclaim, set, t.hd[h].claimed), LAMBDA u : Out([u EXCEPT !.active = c], "ok"))
       \cup MayFail("config", released, "OTHER")

get_endpoints(t, h, i) == Out([t EXCEPT !.hd[h].eps = @ \cup {i}], "ok") \cup MayFail("endpoints", t, "OTHER")

OpenInterface(t, h, i) ==
  LET made == [t EXCEPT !.hd[h].iface[i] = "made", !.objs = @ + 1]
      open == [made EXCEPT !.hd[h].iface[i] = "open", !.kopen = @ \cup {i}]
      Undone(u, ret) == Out(darwin_release_interface(u, h, i), ret)
      Listed(u) == LET cleared == [u EXCEPT !.hd[h].isrc = @ \ {i}]
                   IN Out([cleared EXCEPT !.hd[h].isrc = @ \cup {i}, !.ifsrc = @ + 1], "ok")
                        \cup (IF "isource" \in Fails THEN Undone(cleared, "OTHER") ELSE {})
      busy == i \in t.kopen \/ (Driver /\ ~t.captured)
  IN IF busy THEN Out(made, "ACCESS")
     ELSE UNION {IF o.ret = "ok" THEN Listed(o.t) ELSE Undone(o.t, o.ret) : o \in get_endpoints(open, h, i)}
            \cup MayFail("iopen", made, "ACCESS")

darwin_claim_interface(t, h, i, depth) ==
  LET Found(u) == IF i \in OfConfig(u.conf) THEN OpenInterface(u, h, i) ELSE Out(u, "NOT_FOUND")
      configured == IF i \in OfConfig(t.conf) \/ FirstConfig = 0 THEN Out(t, "ok")
                    ELSE IF depth = 0 THEN Out(t, "overflow")
                    ELSE darwin_set_configuration(t, h, FirstConfig, depth - 1)
  IN Then(configured, Found) \cup MayFail("plugin", t, "OTHER")

(***************************************************************************)
(* darwin_restore_state takes the mask away, closes the device and opens   *)
(* it, restores the configuration and claims what the mask named.          *)
(***************************************************************************)
CloseDevice(t, h) ==
  IF t.count # 0 THEN t
  ELSE [t EXCEPT !.devsrc = IF t.hd[h].source THEN @ - 1 ELSE @, !.hd[h].source = FALSE,
                 !.seized = @ /\ ~t.hd[h].is_open]

Reopen(t, h) ==
  LET closed == CloseDevice([t EXCEPT !.hd[h].claimed = {}, !.hd[h].is_open = FALSE, !.count = 0], h)
  IN {[o EXCEPT !.t.count = t.count, !.ret = IF @ = "ok" THEN @ ELSE "NOT_FOUND"] : o \in darwin_open(closed, h)}

Reconfigure(t, h, c) ==
  IF t.active = c THEN Out(t, "ok")
  ELSE {[o EXCEPT !.ret = IF @ \in {"ok", "overflow"} THEN @ ELSE "NOT_FOUND"] :
          o \in darwin_set_configuration(t, h, c, MaxDepth)}

darwin_restore_state(t, h, c, claimed) ==
  LET Marked(u, i) == {IF o.ret = "ok" THEN [o EXCEPT !.t.hd[h].claimed = @ \cup {i}]
                       ELSE [o EXCEPT !.ret = IF @ = "overflow" THEN @ ELSE "NOT_FOUND"] :
                         o \in darwin_claim_interface(u, h, i, MaxDepth)}
      All(u) == FoldSeq(LAMBDA i, outs : Then(outs, LAMBDA v : Marked(v, i)), Out(u, "ok"), InOrder(claimed))
  IN Then(Then(Reopen(t, h), LAMBDA u : Reconfigure(u, h, c)), All)

(***************************************************************************)
(* The event thread probes a device that re-enumerates, so active_config   *)
(* is what the system chose; a captured device is not probed.              *)
(***************************************************************************)
darwin_reenumerate_device(t, h, capture) ==
  LET again(c) == [Dropped(t) EXCEPT !.seized = FALSE, !.captured = capture, !.conf = c, !.active = c]
      new == IF capture THEN {[again(t.conf) EXCEPT !.active = t.active]} ELSE {again(c) : c \in {0, FirstConfig}}
  IN UNION {darwin_restore_state(u, h, t.active, t.hd[h].claimed) : u \in new}
       \cup (IF capture THEN {} ELSE UNION {MayFail("changed", u, "NOT_FOUND") : u \in new})
       \cup MayFail("reenumerate", t, "OTHER")

darwin_detach_kernel_driver(t, h) ==
  LET Count(u) == Out([u EXCEPT !.capture = @ + 1], "ok")
  IN IF t.capture # 0 THEN Count(t) ELSE Then(darwin_reenumerate_device(t, h, TRUE), Count)

darwin_attach_kernel_driver(t, h) ==
  LET less == [t EXCEPT !.capture = @ - 1]
  IN IF less.capture > 0 THEN Out(less, "ok") ELSE darwin_reenumerate_device(less, h, FALSE)

darwin_reset_device(t, h) ==
  IF t.capture > 0 THEN Out(t, "ok") ELSE darwin_reenumerate_device(t, h, FALSE)

(***************************************************************************)
(* kernel_driver_active answers an error for an interface that is not      *)
(* there, which the caller takes for a driver.                             *)
(***************************************************************************)
darwin_kernel_driver_active(t, i) == i \notin OfConfig(t.conf) \/ (Driver /\ ~t.captured)

darwin_capture_claim_interface(t, h, i) ==
  Finally(IF t.hd[h].auto /\ darwin_kernel_driver_active(t, i)
          THEN darwin_detach_kernel_driver(t, h) ELSE Out(t, "ok"),
          LAMBDA u : darwin_claim_interface(u, h, i, MaxDepth))

darwin_capture_release_interface(t, h, i) ==
  LET released == darwin_release_interface(t, h, i)
  IN Finally(IF t.hd[h].auto /\ t.capture > 0 THEN darwin_attach_kernel_driver(released, h)
             ELSE Out(released, "ok"),
             LAMBDA u : Out(u, "ok"))

libusb_release_interface(t, h, i) ==
  Then(darwin_capture_release_interface(t, h, i), LAMBDA u : Out([u EXCEPT !.hd[h].claimed = @ \ {i}], "ok"))

darwin_close(t, h) ==
  LET Release(u, i) == IF i \in u.hd[h].claimed THEN libusb_release_interface(u, h, i) ELSE Out(u, "ok")
      less == [t EXCEPT !.count = @ - 1]
  IN IF t.count = 0 THEN Out(t, "ok")
     ELSE Finally(Try(Release, less, Ifaces), LAMBDA u : Out(CloseDevice(u, h), "ok"))

(***************************************************************************)
(* An alternate setting the device stalls is taken for the one it has: the *)
(* halts of its endpoints are cleared instead.  A pipe the system does not *)
(* know has the interface claimed again.                                   *)
(***************************************************************************)
ep_to_pipeRef(t, h, i) == i \in t.hd[h].claimed /\ i \in t.hd[h].eps

check_alt_setting_and_clear_halt(t, h, i) ==
  IF t.hd[h].iface[i] = "none" THEN Out([t EXCEPT !.broken = TRUE], "OTHER")
  ELSE Out(t, "PIPE") \cup Out(t, "ok")
         \cup (IF ep_to_pipeRef(t, h, i)
               THEN MayFail("nopipe", t, "NOT_FOUND") \cup MayFail("nopipe", [t EXCEPT !.kopen = @ \ {i}], "NOT_FOUND")
               ELSE {})

ClaimAgain(t, h, i) ==
  UNION {IF o.ret = "ok" THEN check_alt_setting_and_clear_halt(o.t, h, i)
         ELSE check_alt_setting_and_clear_halt(darwin_release_interface(o.t, h, i), h, i) :
           o \in darwin_claim_interface(t, h, i, MaxDepth)}

darwin_set_interface_altsetting(t, h, i) ==
  IF t.hd[h].iface[i] # "open" THEN Out(t, "NO_DEVICE")
  ELSE   UNION {IF o.ret = "ok" THEN {o} ELSE Out(darwin_release_interface(o.t, h, i), o.ret) : o \in get_endpoints(t, h, i)}
           \cup (IF "stall" \in Fails
                 THEN UNION {IF o.ret = "NOT_FOUND" THEN ClaimAgain(o.t, h, i) ELSE {o} :
                               o \in check_alt_setting_and_clear_halt(t, h, i)}
                 ELSE {})

(***************************************************************************)
(* The calls.  The library itself looks at the mask before it calls the    *)
(* backend, and marks the interface after it.  The handle is freed when it *)
(* is closed, with what it pointed to.                                     *)
(***************************************************************************)
libusb_claim_interface(t, h, i) ==
  IF i \in t.hd[h].claimed THEN Out(t, "ok")
  ELSE Then(darwin_capture_claim_interface(t, h, i), LAMBDA u : Out([u EXCEPT !.hd[h].claimed = @ \cup {i}], "ok"))

(***************************************************************************)
(* What a program may keep to: closing the handle it opened last, claiming *)
(* no interface another handle claimed, configuring and resetting with one *)
(* handle open, configuring with nothing claimed, attaching drivers as     *)
(* often as it detached them.                                              *)
(***************************************************************************)
Allowed(op, h, i) ==
  /\ "lifo" \in Rules /\ op = "close" => opened[Len(opened)] = h
  /\ "apart" \in Rules /\ op = "claim" => \A g \in Handles \ {h} : i \notin s.hd[g].claimed
  /\ "alone" \in Rules /\ op \in {"config", "reset"} => opened = <<h>>
  /\ "idle" \in Rules /\ op = "config" => \A g \in Handles : s.hd[g].claimed = {}
  /\ "paired" \in Rules /\ op = "attach" => s.capture > 0

Call(op, h, i, outs) ==
  /\ op \in Ops /\ calls < MaxCalls /\ ~s.broken /\ call.ret # "overflow"
  /\ Allowed(op, h, i)
  /\ \E o \in outs : s' = o.t /\ call' = [op |-> op, h |-> h, i |-> i, ret |-> o.ret]
  /\ calls' = calls + 1

None == CHOOSE i \in Ifaces : \A j \in Ifaces : i <= j

libusb_open(h) ==
  /\ h \notin ToSet(opened)
  /\ Call("open", h, None, {IF o.ret = "ok" THEN o ELSE [o EXCEPT !.t.hd[h] = Blank] : o \in darwin_open(s, h)})
  /\ opened' = IF call'.ret = "ok" THEN Append(opened, h) ELSE opened

libusb_close(h) ==
  /\ h \in ToSet(opened)
  /\ Call("close", h, None, {[o EXCEPT !.t.hd[h] = Blank] : o \in darwin_close(s, h)})
  /\ opened' = Remove(opened, h)

OnInterface(h, i) ==
  \/ Call("claim", h, i, libusb_claim_interface(s, h, i))
  \/ i \in s.hd[h].claimed /\ Call("release", h, i, libusb_release_interface(s, h, i))
  \/ i \in s.hd[h].claimed /\ Call("alt", h, i, darwin_set_interface_altsetting(s, h, i))

OnDevice(h) ==
  \/ \E c \in 1 .. 2 : Call("config", h, None, darwin_set_configuration(s, h, c, MaxDepth))
  \/ Call("reset", h, None, darwin_reset_device(s, h))
  \/ Call("detach", h, None, darwin_detach_kernel_driver(s, h))
  \/ Call("attach", h, None, darwin_attach_kernel_driver(s, h))
  \/ ~s.hd[h].auto /\ Call("auto", h, None, Out([s EXCEPT !.hd[h].auto = TRUE], "ok"))

Use(h) ==
  /\ h \in ToSet(opened)
  /\ OnDevice(h) \/ \E i \in Ifaces : OnInterface(h, i)
  /\ UNCHANGED opened

Init ==
  /\ \E c \in {0, FirstConfig} :
       s = [hd |-> [h \in Handles |-> Blank], count |-> 0, active |-> c, capture |-> 0, seized |-> FALSE,
            conf |-> c, captured |-> FALSE, kopen |-> {}, devsrc |-> 0, ifsrc |-> 0, objs |-> 0, broken |-> FALSE]
  /\ opened = <<>> /\ calls = 0
  /\ call = [op |-> "none", h |-> CHOOSE h \in Handles : TRUE, i |-> None, ret |-> "ok"]

Next == \E h \in Handles : libusb_open(h) \/ libusb_close(h) \/ Use(h)

Spec == Init /\ [][Next]_vars

(***************************************************************************)
(* open_count is the number of handles that are open (darwin_usb.c:1261,   *)
(* 1284), also after darwin_restore_state has set it to 1 to close and     *)
(* reopen the device for one of them.                                      *)
(***************************************************************************)
CountIsHandles == s.count = Len(opened)

(***************************************************************************)
(* An interface in the mask of a handle has an open object, a table of     *)
(* endpoints and an event source, and no other interface has: what         *)
(* ep_to_pipeRef and every transfer rely on, after any mix of claims,      *)
(* configurations, resets and failures.                                    *)
(***************************************************************************)
ClaimedIsOpen ==
  \A h \in Handles : LET d == s.hd[h] IN
    /\ d.claimed = {i \in Ifaces : d.iface[i] = "open"}
    /\ d.claimed = d.isrc /\ d.claimed \subseteq d.eps

(***************************************************************************)
(* "delete the device's async event source" and "close the device": when   *)
(* the last handle is closed the device is not open and nothing of it is   *)
(* in the run loop (darwin_usb.c:1296, 1305).                              *)
(***************************************************************************)
NothingLeft == opened = <<>> => ~s.seized /\ s.devsrc = 0 /\ s.kopen = {}

(***************************************************************************)
(* "make sure all interfaces are released" (darwin_usb.c:1290): every      *)
(* interface object and every source in the run loop is one a handle still *)
(* points to, so it can be released.                                       *)
(***************************************************************************)
Pointed == /\ s.objs = Known(LAMBDA h : {i \in Ifaces : s.hd[h].iface[i] # "none"})
           /\ s.ifsrc = Known(LAMBDA h : s.hd[h].isrc)

(***************************************************************************)
(* The configuration libusb_get_configuration reads from the cache         *)
(* (darwin_usb.c:1319) is the one the device has.                          *)
(***************************************************************************)
ActiveIsConf == s.active = s.conf

(***************************************************************************)
(* "The system will attempt to restore the previous configuration and      *)
(* alternate settings after the reset has completed" (core.c:1805): a      *)
(* reset that succeeds leaves the configuration and every claim of the     *)
(* handle, with an open interface under it.                                *)
(***************************************************************************)
ResetRestores ==
  call'.op = "reset" /\ call'.ret = "ok" /\ calls' # calls =>
    LET d == s'.hd[call'.h] IN
    /\ s'.conf = s.active /\ d.claimed = s.hd[call'.h].claimed
    /\ \A i \in d.claimed : d.iface[i] = "open"

(***************************************************************************)
(* capture_count counts the detaches of a device that is captured, and is  *)
(* zero for one that is not: "On macOS, we capture an entire device at     *)
(* once, not individual interfaces" (darwin_usb.c:2520).                   *)
(***************************************************************************)
CaptureIsCounted == s.capture \in Nat /\ (s.capture > 0 <=> s.captured)

(***************************************************************************)
(* "If successful, you will then be able to claim the interface and        *)
(* perform I/O" (core.c:1993): a detach that succeeds leaves no driver.    *)
(***************************************************************************)
DetachedIsCaptured == call.op = "detach" /\ call.ret = "ok" => s.captured

(***************************************************************************)
(* "When this is enabled libusb will automatically detach the kernel       *)
(* driver on an interface when claiming the interface, and attach it when  *)
(* releasing the interface" (core.c:2067): after a release that succeeds   *)
(* the handle holds nothing of the interface.                              *)
(***************************************************************************)
ReleasedIsReleased ==
  call.op = "release" /\ call.ret = "ok" => s.hd[call.h].iface[call.i] = "none"

(***************************************************************************)
(* "LIBUSB_ERROR_NOT_FOUND if the requested interface does not exist"      *)
(* (core.c:1656): the claim of an interface no configuration has ends.     *)
(***************************************************************************)
ClaimReturns == call.ret # "overflow"

(***************************************************************************)
(* No function is called through an interface object that is null: "we     *)
(* need to reclaim the interface after the pipe error" (darwin_usb.c:1666).*)
(***************************************************************************)
NeverThroughNull == ~s.broken
=============================================================================
