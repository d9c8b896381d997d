---------------------------- MODULE UsbfsClaims -----------------------------
(***************************************************************************)
(* libusb/c/core.c and os/linux_usbfs.c: the handles of one device and the *)
(* interfaces they claim.  The library keeps the claims of a handle in a   *)
(* mask, claimed_interfaces; the kernel keeps who is bound to an           *)
(* interface: nobody, a driver of its own, a file descriptor.  Other       *)
(* programs and drivers bind what is free between any two system calls.    *)
(***************************************************************************)
EXTENDS Integers

CONSTANTS Threads, Handles, N,    \* interfaces 1 .. N
          Configs,                \* values of bConfigurationValue
          Ops,                    \* the calls threads make
          MaxCalls,
          DisconnectClaim         \* the kernel has IOCTL_USBFS_DISCONNECT_CLAIM

Free == "free"                    \* a lock that nobody holds

ClaimsAssumption ==
  /\ N \in Nat \ {0} /\ MaxCalls \in Nat /\ DisconnectClaim \in BOOLEAN
  /\ Configs \subseteq Nat \ {0}
  /\ Free \notin Threads
  /\ Handles # {} /\ Handles \cap {"none", "driver", "other"} = {}
  /\ Ops # {}
  /\ Ops \subseteq {"open", "wrap", "close", "auto", "claim", "release", "alt", "reset",
                    "detach", "attach", "set", "get"}

VARIABLES
  present, attached,              \* truth, and what the library believes
  owner,                          \* the kernel: who each interface is bound to
  active, cached,                 \* the configuration, and priv->active_config
  fd,                             \* of each handle; "kept" is the user's own
  fds,                            \* the descriptor under it: who opened it
  claimed, auto, lock,            \* struct libusb_device_handle
  pc, job, at, val, ret, calls,   \* the threads
  vouched,                        \* no reset failed, or took the claims of others
  had                             \* drivers that automatic detaching took off

device == <<present, attached>>
config == <<active, cached>>
handles == <<fd, fds>>
threads == <<job, at, val, calls>>
history == <<vouched, had>>
vars == <<device, owner, config, handles, claimed, auto, lock, pc, ret, threads, history>>

Ifaces == 1 .. N
Usbfs == Handles \cup {"other"}   \* bound to usbfs, here or in another program

Locked == {"claim", "release", "alt", "reset", "reclaim", "getdriver", "disconnect", "bind",
           "reattach"}
PCs == Locked \cup {"idle", "lock", "unbind", "setalt", "cache", "user.getdriver",
                    "user.disconnect", "user.attach"}
Results == {"SUCCESS", "NO_DEVICE", "NOT_FOUND", "BUSY", "OTHER", "NO_MEM"}
Job == [op : Ops, h : Handles, i : Ifaces, c : Configs \cup {0}]
NoJob == CHOOSE j \in Job : j.i = 1 /\ j.c = 0

TypeOK ==
  /\ present \in BOOLEAN /\ attached \in BOOLEAN
  /\ owner \in [Ifaces -> {"none", "driver"} \cup Usbfs]
  /\ active \in Configs \cup {0} /\ cached \in Configs \cup {-1}
  /\ fd \in [Handles -> {"none", "own", "kept"}] /\ fds \in [Handles -> {"closed", "library", "user"}]
  /\ claimed \in [Handles -> SUBSET Ifaces] /\ auto \in [Handles -> BOOLEAN]
  /\ lock \in [Handles -> Threads \cup {Free}]
  /\ pc \in [Threads -> PCs] /\ job \in [Threads -> Job] /\ at \in [Threads -> 1 .. N + 1]
  /\ val \in [Threads -> Configs \cup {-1}] /\ ret \in [Threads -> Results]
  /\ calls \in 0 .. MaxCalls
  /\ vouched \in [Handles -> BOOLEAN] /\ had \subseteq Ifaces

Init ==
  /\ present = TRUE /\ attached = TRUE
  /\ owner \in [Ifaces -> {"none", "driver"}]
  /\ \E c \in Configs : active = c /\ cached = c
  /\ fd = [h \in Handles |-> "own"] /\ fds = [h \in Handles |-> "library"]
  /\ claimed = [h \in Handles |-> {}]
  /\ \E b \in BOOLEAN : auto = [h \in Handles |-> b /\ "auto" \in Ops]
  /\ lock = [h \in Handles |-> Free]
  /\ pc = [t \in Threads |-> "idle"] /\ job = [t \in Threads |-> NoJob]
  /\ at = [t \in Threads |-> 1] /\ val = [t \in Threads |-> -1]
  /\ ret = [t \in Threads |-> "SUCCESS"] /\ calls = 0
  /\ vouched = [h \in Handles |-> TRUE] /\ had = {}

-----------------------------------------------------------------------------
(* usbfs *)

\* the slip that detaches usbfs too: without USBFS_DISCONNECT_CLAIM_EXCEPT_DRIVER
TakeResultAny(i) ==
  IF present THEN "SUCCESS" ELSE "NO_DEVICE"

\* the result of a claim, a disconnect-and-claim and a release
BindResult(h, i) ==
  IF ~present THEN "NO_DEVICE" ELSE IF owner[i] \in {"none", h} THEN "SUCCESS" ELSE "BUSY"
TakeResult(i) ==
  IF ~present THEN "NO_DEVICE" ELSE IF owner[i] \in Usbfs THEN "BUSY" ELSE "SUCCESS"
UnbindResult(h, i) ==
  IF ~present THEN "NO_DEVICE" ELSE IF owner[i] = h THEN "SUCCESS" ELSE "OTHER"

Bound(i, o, r) == owner' = IF r = "SUCCESS" THEN [owner EXCEPT ![i] = o] ELSE owner

\* a driver or another program binds a free interface, the program lets it go
Outside(i) ==
  /\ present
  /\ \/ owner[i] = "none" /\ owner' = [owner EXCEPT ![i] = "driver"] /\ had' = had \ {i}
     \/ owner[i] = "none" /\ owner' = [owner EXCEPT ![i] = "other"] /\ had' = had \ {i}
     \/ owner[i] = "other" /\ owner' = [owner EXCEPT ![i] = "none"] /\ UNCHANGED had
  /\ UNCHANGED <<device, config, handles, claimed, auto, lock, pc, ret, threads, vouched>>

Unplug ==
  /\ present /\ present' = FALSE
  /\ owner' = [i \in Ifaces |-> "none"] /\ had' = {}
  /\ UNCHANGED <<attached, config, handles, claimed, auto, lock, pc, ret, threads, vouched>>

\* usbi_disconnect_device, when the monitor hears of it
Disconnect ==
  /\ ~present /\ attached /\ attached' = FALSE
  /\ UNCHANGED <<present, owner, config, handles, claimed, auto, lock, pc, ret, threads, history>>

-----------------------------------------------------------------------------
(* Threads *)

\* a wrapped device is on no list: it is never marked as disconnected
Attached(h) == fd[h] = "kept" \/ attached

H(t) == job[t].h
I(t) == job[t].i

Goto(t, from, to) == pc[t] = from /\ pc' = [pc EXCEPT ![t] = to]
Return(t, r) == pc' = [pc EXCEPT ![t] = "idle"] /\ ret' = [ret EXCEPT ![t] = r]

\* no call uses the handle
Unused(h) == \A t \in Threads : pc[t] = "idle" \/ H(t) # h

Begin(t, op) ==
  /\ pc[t] = "idle" /\ calls < MaxCalls /\ calls' = calls + 1 /\ op \in Ops

\* where a call starts once the device was found attached
FirstStep(op) ==
  CASE op \in {"claim", "alt"} -> "lock"
    [] op = "reset" -> "unbind"
    [] op = "detach" -> "user.getdriver"
    [] op = "attach" -> "user.attach"

Enter(t) ==
  \E op \in {"claim", "alt", "reset", "detach", "attach"}, h \in Handles, i \in Ifaces :
    /\ Begin(t, op) /\ fd[h] # "none" /\ Attached(h) /\ (op = "reset" => i = 1)
    /\ job' = [job EXCEPT ![t] = [@ EXCEPT !.op = op, !.h = h, !.i = i]]
    /\ pc' = [pc EXCEPT ![t] = FirstStep(op)]
    /\ at' = [at EXCEPT ![t] = 1]
    /\ UNCHANGED <<device, owner, config, handles, claimed, auto, lock, ret, val, history>>

\* libusb_release_interface does not ask whether the device is attached
EnterRelease(t) ==
  \E h \in Handles, i \in Ifaces :
    /\ Begin(t, "release") /\ fd[h] # "none"
    /\ job' = [job EXCEPT ![t] = [@ EXCEPT !.op = "release", !.h = h, !.i = i]]
    /\ pc' = [pc EXCEPT ![t] = "lock"]
    /\ UNCHANGED <<device, owner, config, handles, claimed, auto, lock, ret, at, val, history>>

EnterGone(t) ==
  \E op \in {"claim", "reset", "detach", "attach"}, h \in Handles :
    /\ Begin(t, op) /\ fd[h] # "none" /\ ~Attached(h)
    /\ Return(t, "NO_DEVICE")
    /\ UNCHANGED <<device, owner, config, handles, claimed, auto, lock, job, at, val, history>>

\* the early return unlocks, though the lock was not taken yet
AltGone(t) ==
  \E h \in Handles :
    /\ Begin(t, "alt") /\ fd[h] # "none" /\ ~Attached(h)
    /\ lock' = [lock EXCEPT ![h] = Free]
    /\ Return(t, "NO_DEVICE")
    /\ UNCHANGED <<device, owner, config, handles, claimed, auto, job, at, val, history>>

Lock(t) ==
  /\ pc[t] = "lock" /\ lock[H(t)] = Free
  /\ lock' = [lock EXCEPT ![H(t)] = t]
  /\ pc' = [pc EXCEPT ![t] = job[t].op]
  /\ UNCHANGED <<device, owner, config, handles, claimed, auto, ret, threads, history>>

Unlock(t) == lock' = [lock EXCEPT ![H(t)] = Free]

-----------------------------------------------------------------------------
(* Claim *)

\* the end of a claim, or of one round of the loop that claims again
Claimed(t, i, r) ==
  IF pc[t] # "reclaim" /\ job[t].op = "claim"
  THEN /\ claimed' = IF r = "SUCCESS" THEN [claimed EXCEPT ![H(t)] = @ \cup {i}] ELSE claimed
       /\ Unlock(t) /\ Return(t, r) /\ UNCHANGED at
  ELSE /\ claimed' = IF r = "SUCCESS" THEN claimed ELSE [claimed EXCEPT ![H(t)] = @ \ {i}]
       /\ ret' = IF r = "SUCCESS" THEN ret ELSE [ret EXCEPT ![t] = "NOT_FOUND"]
       /\ at' = [at EXCEPT ![t] = i + 1]
       /\ pc' = [pc EXCEPT ![t] = "reclaim"] /\ UNCHANGED lock

\* drivers that automatic detaching takes off
Had(t, i) == IF owner[i] = "driver" /\ auto[H(t)] THEN had \cup {i} ELSE had

DetachAndClaim(t, i) ==
  IF DisconnectClaim
  THEN /\ Bound(i, H(t), TakeResult(i))
       /\ had' = IF TakeResult(i) = "SUCCESS" THEN Had(t, i) ELSE had
       /\ Claimed(t, i, TakeResult(i))
  ELSE /\ pc' = [pc EXCEPT ![t] = "getdriver"] /\ at' = [at EXCEPT ![t] = i]
       /\ UNCHANGED <<owner, claimed, lock, ret, had>>

Claim(t) ==
  LET i == I(t) IN
  /\ pc[t] = "claim"
  /\ \/ i \in claimed[H(t)] /\ Unlock(t) /\ Return(t, "SUCCESS") /\ UNCHANGED <<owner, claimed, at, had>>
     \/ i \notin claimed[H(t)] /\ auto[H(t)] /\ DetachAndClaim(t, i)
     \/ /\ i \notin claimed[H(t)] /\ ~auto[H(t)]
        /\ Bound(i, H(t), BindResult(H(t), i)) /\ Claimed(t, i, BindResult(H(t), i))
        /\ UNCHANGED had
  /\ UNCHANGED <<device, config, handles, auto, job, val, calls, vouched>>

\* the interface of the step: that of the call, or of the loop
Here(t) == IF job[t].op = "reset" THEN at[t] ELSE I(t)

\* op_detach_kernel_driver in a claim: one system call asks who is bound,
\* a later one takes it off
GetDriver(t) ==
  /\ pc[t] = "getdriver"
  /\ pc' = [pc EXCEPT ![t] = IF owner[Here(t)] \in Usbfs THEN "bind" ELSE "disconnect"]
  /\ UNCHANGED <<device, owner, config, handles, claimed, auto, lock, ret, threads, history>>

Disconnected(t, i) ==
  /\ owner' = [owner EXCEPT ![i] = "none"] /\ had' = Had(t, i)

ClaimDisconnect(t) ==
  /\ pc[t] = "disconnect"
  /\ \/ present /\ Disconnected(t, Here(t)) /\ pc' = [pc EXCEPT ![t] = "bind"]
        /\ UNCHANGED <<claimed, lock, ret, at>>
     \/ ~present /\ Claimed(t, Here(t), "NO_DEVICE") /\ UNCHANGED <<owner, had>>
  /\ UNCHANGED <<device, config, handles, auto, job, val, calls, vouched>>

Bind(t) ==
  LET r == BindResult(H(t), Here(t)) IN
  /\ pc[t] = "bind"
  /\ Bound(Here(t), H(t), r) /\ Claimed(t, Here(t), r)
  /\ UNCHANGED <<device, config, handles, auto, job, val, calls, history>>

-----------------------------------------------------------------------------
(* Release, alternate setting *)

Release(t) ==
  LET i == I(t)  r == UnbindResult(H(t), i) IN
  /\ pc[t] = "release"
  /\ IF i \notin claimed[H(t)]
     THEN Unlock(t) /\ Return(t, "NOT_FOUND") /\ UNCHANGED <<owner, claimed>>
     ELSE /\ Bound(i, "none", r)
          /\ IF r = "SUCCESS" /\ auto[H(t)]
             THEN pc' = [pc EXCEPT ![t] = "reattach"] /\ UNCHANGED <<claimed, lock, ret>>
             ELSE /\ claimed' = IF r = "SUCCESS" THEN [claimed EXCEPT ![H(t)] = @ \ {i}] ELSE claimed
                  /\ Unlock(t) /\ Return(t, r)
  /\ UNCHANGED <<device, config, handles, auto, threads, history>>

\* the slip that leaves the driver off
ReattachOwn(t) ==
  LET i == I(t) IN
  /\ pc[t] = "reattach"
  /\ owner' = owner
  /\ had' = IF owner'[i] = "driver" THEN had \ {i} ELSE had
  /\ claimed' = [claimed EXCEPT ![H(t)] = @ \ {i}]
  /\ Unlock(t) /\ Return(t, "SUCCESS")
  /\ UNCHANGED <<device, config, handles, auto, threads, vouched>>

\* op_attach_kernel_driver; its result is ignored
Reattach(t) ==
  LET i == I(t) IN
  /\ pc[t] = "reattach"
  /\ owner' = IF present /\ owner[i] = "none" THEN [owner EXCEPT ![i] = "driver"] ELSE owner
  /\ had' = IF owner'[i] = "driver" THEN had \ {i} ELSE had
  /\ claimed' = [claimed EXCEPT ![H(t)] = @ \ {i}]
  /\ Unlock(t) /\ Return(t, "SUCCESS")
  /\ UNCHANGED <<device, config, handles, auto, threads, vouched>>

AltChecked(t) ==
  /\ pc[t] = "alt" /\ Unlock(t)
  /\ \/ I(t) \notin claimed[H(t)] /\ Return(t, "NOT_FOUND")
     \/ I(t) \in claimed[H(t)] /\ pc' = [pc EXCEPT ![t] = "setalt"] /\ UNCHANGED ret
  /\ UNCHANGED <<device, owner, config, handles, claimed, auto, threads, history>>

SetAlt(t) ==
  /\ pc[t] = "setalt" /\ Return(t, UnbindResult(H(t), I(t)))
  /\ UNCHANGED <<device, owner, config, handles, claimed, auto, lock, threads, history>>

-----------------------------------------------------------------------------
(* Reset *)

\* the next claimed interface of a loop over the mask, read at every round
IsNext(i, t) ==
  /\ i \in claimed[H(t)] /\ i >= at[t]
  /\ \A j \in claimed[H(t)] : j >= at[t] => j >= i
LoopEnds(t) == \A i \in claimed[H(t)] : i < at[t]

\* this loop does not hold the lock
ResetUnbind(t) ==
  /\ pc[t] = "unbind"
  /\ \/ \E i \in Ifaces :
          /\ IsNext(i, t)
          /\ Bound(i, "none", UnbindResult(H(t), i))
          /\ at' = [at EXCEPT ![t] = i + 1] /\ UNCHANGED pc
     \/ LoopEnds(t) /\ pc' = [pc EXCEPT ![t] = "lock"] /\ UNCHANGED <<owner, at>>
  /\ UNCHANGED <<device, config, handles, claimed, auto, lock, ret, job, val, calls, history>>

\* the kernel unbinds usbfs and may bind a driver instead
ResetDone(t) ==
  /\ pc[t] = "reset" /\ present
  /\ \E new \in [Ifaces -> {"none", "driver"} \cup Usbfs] :
       /\ \A i \in Ifaces : IF owner[i] \in Usbfs THEN new[i] \in {"none", "driver"}
                            ELSE new[i] = owner[i]
       /\ owner' = new
       /\ had' = {i \in had : new[i] = "none"}
  /\ vouched' = [h \in Handles |-> vouched[h] /\ h = H(t)]
  /\ pc' = [pc EXCEPT ![t] = "reclaim"] /\ at' = [at EXCEPT ![t] = 1]
  /\ ret' = [ret EXCEPT ![t] = "SUCCESS"]
  /\ UNCHANGED <<device, config, handles, claimed, auto, lock, job, val, calls>>

ResetFailed(t) ==
  /\ pc[t] = "reset"
  /\ \E r \in {"NOT_FOUND", "OTHER"} : (r = "NOT_FOUND") = ~present /\ Return(t, r)
  /\ Unlock(t) /\ vouched' = [vouched EXCEPT ![H(t)] = FALSE]
  /\ UNCHANGED <<device, owner, config, handles, claimed, auto, threads, had>>

Reclaim(t) ==
  /\ pc[t] = "reclaim"
  /\ \/ \E i \in Ifaces : IsNext(i, t) /\ DetachAndClaim(t, i)
     \/ /\ LoopEnds(t) /\ Unlock(t) /\ pc' = [pc EXCEPT ![t] = "idle"]
        /\ UNCHANGED <<owner, claimed, ret, at, had>>
  /\ UNCHANGED <<device, config, handles, auto, job, val, calls, vouched>>

-----------------------------------------------------------------------------
(* Drivers, by the user's own calls *)

UserGetDriver(t) ==
  /\ pc[t] = "user.getdriver"
  /\ \/ owner[I(t)] \in Usbfs /\ Return(t, "NOT_FOUND")
     \/ owner[I(t)] \notin Usbfs /\ pc' = [pc EXCEPT ![t] = "user.disconnect"] /\ UNCHANGED ret
  /\ UNCHANGED <<device, owner, config, handles, claimed, auto, lock, threads, history>>

\* IOCTL_USBFS_DISCONNECT takes off whatever is bound by now
UserDisconnect(t) ==
  /\ pc[t] = "user.disconnect"
  /\ \/ present /\ owner[I(t)] # "none" /\ Return(t, "SUCCESS")
     \/ present /\ owner[I(t)] = "none" /\ Return(t, "NOT_FOUND")
     \/ ~present /\ Return(t, "NO_DEVICE")
  /\ owner' = [owner EXCEPT ![I(t)] = "none"]
  /\ UNCHANGED <<device, config, handles, claimed, auto, lock, threads, history>>

UserAttach(t) ==
  /\ pc[t] = "user.attach"
  /\ IF present /\ owner[I(t)] = "none"
     THEN owner' = [owner EXCEPT ![I(t)] = "driver"] /\ had' = had \ {I(t)} /\ Return(t, "SUCCESS")
     ELSE Return(t, IF present THEN "BUSY" ELSE "NO_DEVICE") /\ UNCHANGED <<owner, had>>
  /\ UNCHANGED <<device, config, handles, claimed, auto, lock, threads, vouched>>

\* when it is turned off the user takes over what was detached
SetAuto(t) ==
  \E h \in Handles, b \in BOOLEAN :
    /\ Begin(t, "auto") /\ fd[h] # "none" /\ Unused(h) /\ auto[h] # b
    /\ auto' = [auto EXCEPT ![h] = b] /\ had' = {}
    /\ UNCHANGED <<device, owner, config, handles, claimed, lock, pc, ret, job, at, val, vouched>>

-----------------------------------------------------------------------------
(* The configuration of a device without sysfs directory *)

\* configuration 0 is "unconfigured", for the library -1
Value(c) == IF c = 0 THEN -1 ELSE c

SetConfiguration(t) ==
  \E h \in Handles, c \in Configs \cup {0} :
    /\ Begin(t, "set") /\ fd[h] # "none"
    /\ IF present /\ \A i \in Ifaces : owner[i] = "none"
       THEN /\ active' = c /\ pc' = [pc EXCEPT ![t] = "cache"]
            /\ val' = [val EXCEPT ![t] = Value(c)] /\ UNCHANGED ret
       ELSE Return(t, IF present THEN "BUSY" ELSE "NO_DEVICE") /\ UNCHANGED <<active, val>>
    /\ job' = [job EXCEPT ![t] = [@ EXCEPT !.op = "set", !.h = h, !.c = c]]
    /\ UNCHANGED <<device, owner, cached, handles, claimed, auto, lock, at, history>>

\* the answer is cached too
GetConfiguration(t) ==
  \E h \in Handles :
    /\ Begin(t, "get") /\ fd[h] # "none"
    /\ IF present
       THEN pc' = [pc EXCEPT ![t] = "cache"] /\ val' = [val EXCEPT ![t] = Value(active)] /\ UNCHANGED ret
       ELSE Return(t, "NO_DEVICE") /\ UNCHANGED val
    /\ job' = [job EXCEPT ![t] = [@ EXCEPT !.op = "get", !.h = h]]
    /\ UNCHANGED <<device, owner, config, handles, claimed, auto, lock, at, history>>

CacheConfig(t) ==
  /\ pc[t] = "cache" /\ cached' = val[t] /\ Return(t, "SUCCESS")
  /\ UNCHANGED <<device, owner, active, handles, claimed, auto, lock, threads, history>>

-----------------------------------------------------------------------------
(* Handles *)

\* the new handle has no claims and does not detach drivers
Fresh(h) ==
  /\ claimed' = [claimed EXCEPT ![h] = {}] /\ auto' = [auto EXCEPT ![h] = FALSE]
  /\ vouched' = [vouched EXCEPT ![h] = TRUE]

\* the device file may be gone before the monitor says so; a handle that
\* cannot be initialised closes it
Open(t) ==
  \E h \in Handles :
    /\ Begin(t, "open") /\ fd[h] = "none" /\ fds[h] = "closed" /\ attached
    /\ \/ present /\ fd' = [fd EXCEPT ![h] = "own"] /\ fds' = [fds EXCEPT ![h] = "library"] /\ Fresh(h)
          /\ Return(t, "SUCCESS") /\ UNCHANGED attached
       \/ present /\ Return(t, "NO_MEM") /\ UNCHANGED <<handles, claimed, auto, attached, vouched>>
       \/ ~present /\ Return(t, "NO_DEVICE") /\ attached' = FALSE
          /\ UNCHANGED <<handles, claimed, auto, vouched>>
    /\ UNCHANGED <<present, owner, config, lock, job, at, val, had>>

\* the descriptor is the user's, whatever becomes of the handle
Wrap(t) ==
  \E h \in Handles :
    /\ Begin(t, "wrap") /\ fd[h] = "none" /\ fds[h] = "closed" /\ present
    /\ fds' = [fds EXCEPT ![h] = "user"]
    /\ \/ fd' = [fd EXCEPT ![h] = "kept"] /\ Fresh(h) /\ Return(t, "SUCCESS")
       \/ Return(t, "NO_MEM") /\ UNCHANGED <<fd, claimed, auto, vouched>>
    /\ UNCHANGED <<device, owner, config, lock, job, at, val, had>>

\* what the kernel does when a descriptor is closed
Dropped(h) == [i \in Ifaces |-> IF owner[i] = h THEN "none" ELSE owner[i]]

CloseFd(h) ==
  IF fd[h] = "kept" THEN UNCHANGED <<fds, owner, had>>
  ELSE fds' = [fds EXCEPT ![h] = "closed"] /\ owner' = Dropped(h) /\ had' = {i \in had : owner[i] # h}

Close(t) ==
  \E h \in Handles :
    /\ Begin(t, "close") /\ fd[h] # "none" /\ Unused(h)
    /\ CloseFd(h) /\ fd' = [fd EXCEPT ![h] = "none"]
    /\ Return(t, "SUCCESS")
    /\ UNCHANGED <<device, config, claimed, auto, lock, job, at, val, vouched>>

\* the user closes the descriptor that was wrapped
CloseKept(h) ==
  /\ fds[h] = "user" /\ fd[h] = "none"
  /\ fds' = [fds EXCEPT ![h] = "closed"] /\ owner' = Dropped(h) /\ had' = {i \in had : owner[i] # h}
  /\ UNCHANGED <<device, config, fd, claimed, auto, lock, pc, ret, threads, vouched>>

-----------------------------------------------------------------------------

Step(t) ==
  \/ Enter(t) \/ EnterRelease(t) \/ EnterGone(t) \/ AltGone(t) \/ Lock(t)
  \/ Claim(t) \/ GetDriver(t) \/ ClaimDisconnect(t) \/ Bind(t)
  \/ Release(t) \/ Reattach(t) \/ AltChecked(t) \/ SetAlt(t)
  \/ ResetUnbind(t) \/ ResetDone(t) \/ ResetFailed(t) \/ Reclaim(t)
  \/ UserGetDriver(t) \/ UserDisconnect(t) \/ UserAttach(t) \/ SetAuto(t)
  \/ SetConfiguration(t) \/ GetConfiguration(t) \/ CacheConfig(t)
  \/ Open(t) \/ Wrap(t) \/ Close(t)

Next ==
  \/ \E t \in Threads : Step(t)
  \/ \E i \in Ifaces : Outside(i)
  \/ \E h \in Handles : CloseKept(h)
  \/ Unplug \/ Disconnect

Spec == Init /\ [][Next]_vars

-----------------------------------------------------------------------------
(***************************************************************************)
(* The mask of a handle nobody is calling says what the kernel holds for   *)
(* it, after claims that failed half-way, resets that raced with other     *)
(* calls and interfaces that other programs took meanwhile.  Not after a   *)
(* reset that failed: its result tells the user to close the handle        *)
(* (core.c:1812).                                                          *)
(***************************************************************************)
MaskIsOwned ==
  \A h \in Handles : present /\ fd[h] # "none" /\ vouched[h] /\ Unused(h) =>
    claimed[h] = {i \in Ifaces : owner[i] = h}

(***************************************************************************)
(* With automatic detaching (core.c:2067) a driver that was taken off for  *)
(* a claim is not missing once the claim is over, unless somebody else     *)
(* took the interface in between or the program turned the option off.     *)
(***************************************************************************)
DriverComesBack ==
  \A h \in Handles, i \in had :
    present /\ Handles = {h} /\ fd[h] # "none" /\ vouched[h] /\ Unused(h) =>
      i \in claimed[h]

(***************************************************************************)
(* Between the lock and the unlock of a handle there is one thread: what   *)
(* libusbi.h:522 has the lock for.                                         *)
(***************************************************************************)
LockProtects ==
  \A t, u \in Threads : t # u /\ pc[t] \in Locked /\ pc[u] \in Locked => H(t) # H(u)

(***************************************************************************)
(* Who has claimed an interface through usbfs, here or in another program, *)
(* loses it by a release, a close, a reset or an unplug, never because a   *)
(* call detaches drivers (core.c:1998).                                    *)
(***************************************************************************)
NeverSteals ==
  \A i \in Ifaces : owner[i] \in Usbfs /\ owner'[i] # owner[i] =>
    \/ ~present' \/ Outside(i)
    \/ \E t \in Threads : \/ pc[t] = "reset"
                          \/ pc[t] \in {"release", "unbind"} /\ H(t) = owner[i]
    \/ owner[i] \in Handles /\ fds'[owner[i]] = "closed"

(***************************************************************************)
(* The cached configuration is that of the device when no call is under    *)
(* way (linux_usbfs.c:1476): descriptor calls answer from it.              *)
(***************************************************************************)
CacheIsActive ==
  present /\ (\A t \in Threads : pc[t] = "idle") => cached = Value(active)

(***************************************************************************)
(* Every handle has an open descriptor; the library closes those it        *)
(* opened, and those only.                                                 *)
(***************************************************************************)
DescriptorsAreOwned ==
  \A h \in Handles : /\ fd'[h] = "own" <=> fds'[h] = "library"
                    /\ fds[h] = "user" /\ fds'[h] # "user" => fd[h] = "none"
=============================================================================
