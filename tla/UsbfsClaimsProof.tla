--------------------------- MODULE UsbfsClaimsProof ---------------------------
(***************************************************************************)
(* Proofs about UsbfsClaims, for any number of threads, handles,           *)
(* interfaces and configurations.  Three things a caller may do break what *)
(* the properties say, in the code as in the model; they are hypotheses    *)
(* here: Locking, Keeping and Caching name them.                           *)
(***************************************************************************)
EXTENDS UsbfsClaims, TLAPS

\* one thread calls, or one handle is all there is
OneThread == \A t, u \in Threads : t = u
OneHandle == \A g, h \in Handles : g = h

\* what the properties need of the calls that are made
Locking == OneThread \/ "alt" \notin Ops
Keeping ==
  \/ OneThread
  \/ {"alt", "detach"} \cap Ops = {} /\ (DisconnectClaim \/ OneHandle)
Caching == OneThread \/ "set" \notin Ops

\* the steps of a claim in which the kernel is asked for the driver first
Asking == {"getdriver", "disconnect", "bind"}

\* the call whose step it is
CallOf(t) ==
  /\ pc[t] = "lock" => job[t].op \in {"claim", "release", "alt", "reset"}
  /\ pc[t] = "claim" => job[t].op = "claim"
  /\ pc[t] \in {"release", "reattach"} => job[t].op = "release"
  /\ pc[t] \in {"alt", "setalt"} => job[t].op = "alt"
  /\ pc[t] \in {"unbind", "reset", "reclaim"} => job[t].op = "reset"
  /\ pc[t] \in Asking => job[t].op \in {"claim", "reset"} /\ ~DisconnectClaim
  /\ pc[t] \in Asking /\ job[t].op = "reset" => at[t] \in Ifaces
  /\ pc[t] \in {"user.getdriver", "user.disconnect"} => job[t].op = "detach"
  /\ pc[t] # "idle" => fd[H(t)] # "none"

Calls == \A t \in Threads : CallOf(t)

Descriptors ==
  /\ \A h \in Handles :
       /\ fd[h] = "own" <=> fds[h] = "library"
       /\ fd[h] = "kept" => fds[h] = "user"
  /\ \A i \in Ifaces : owner[i] \in Handles => fds[owner[i]] # "closed"
  /\ ~present => had = {} /\ \A i \in Ifaces : owner[i] = "none"

Owns == Locking => \A t \in Threads : pc[t] \in Locked => lock[H(t)] = t

\* interfaces a call is about to bind or gave up: the handle has them not
NotBoundOf(t) ==
  /\ pc[t] = "reattach" => owner[I(t)] # H(t)
  /\ pc[t] \in Asking \cup {"reclaim"} /\ job[t].op = "reset" =>
       \A i \in Ifaces : i >= at[t] => owner[i] # H(t)
  /\ pc[t] \in Asking /\ job[t].op = "reset" => at[t] \in claimed[H(t)]
  /\ pc[t] = "disconnect" => owner[Here(t)] \notin Handles
  /\ pc[t] = "user.disconnect" => owner[I(t)] \notin Handles

NotBound == Keeping => \A t \in Threads : NotBoundOf(t)

\* a call that has not done yet what the mask says
Pending(t, h, i) ==
  /\ H(t) = h
  /\ \/ pc[t] = "reattach" /\ I(t) = i
     \/ pc[t] \in {"unbind", "lock", "reset"} /\ job[t].op = "reset"
     \/ pc[t] \in Asking \cup {"reclaim"} /\ job[t].op = "reset" /\ i >= at[t]

Masked ==
  Keeping =>
    /\ \A i \in Ifaces : owner[i] \in Handles => i \in claimed[owner[i]]
    /\ \A h \in Handles : present /\ fd[h] # "none" /\ vouched[h] =>
         \A i \in claimed[h] : owner[i] = h \/ \E t \in Threads : Pending(t, h, i)

\* a driver that was taken off is missing only while the claim it made room
\* for lasts
Missing ==
  Keeping /\ OneHandle /\ {"open", "wrap"} \cap Ops = {} =>
    \A i \in had, h \in Handles :
      /\ owner[i] \in {"none", h} /\ auto[h]
      /\ fd[h] # "none" =>
           i \in claimed[h] \/ \E t \in Threads : pc[t] = "bind" /\ Here(t) = i

Cached ==
  Caching /\ present =>
    /\ \A t \in Threads : pc[t] = "cache" => val[t] = Value(active)
    /\ (\A t \in Threads : pc[t] # "cache") => cached = Value(active)

IInv ==
  /\ TypeOK /\ Calls /\ Descriptors /\ Owns
  /\ NotBound /\ Masked /\ Missing /\ Cached

\* the types the proofs of the steps need
Typed ==
  /\ pc \in [Threads -> PCs] /\ job \in [Threads -> Job]
  /\ at \in [Threads -> 1 .. N + 1] /\ val \in [Threads -> Configs \cup {-1}]
  /\ fd \in [Handles -> {"none", "own", "kept"}]
  /\ fds \in [Handles -> {"closed", "library", "user"}]
  /\ claimed \in [Handles -> SUBSET Ifaces]
  /\ lock \in [Handles -> Threads \cup {Free}]
  /\ owner \in [Ifaces -> {"none", "driver"} \cup Usbfs]
  /\ auto \in [Handles -> BOOLEAN] /\ vouched \in [Handles -> BOOLEAN]
  /\ had \subseteq Ifaces

(***************************************************************************)
(* What the steps with several outcomes change.                            *)
(***************************************************************************)
LEMMA OpenEffect ==
  ASSUME NEW t \in Threads, Open(t)
  PROVE  \E g \in Handles :
           /\ fd[g] = "none" /\ fds[g] = "closed" /\ pc[t] = "idle" /\ "open" \in Ops
           /\ \/ /\ present /\ fd' = [fd EXCEPT ![g] = "own"]
                 /\ fds' = [fds EXCEPT ![g] = "library"]
                 /\ claimed' = [claimed EXCEPT ![g] = {}]
                 /\ auto' = [auto EXCEPT ![g] = FALSE]
                 /\ vouched' = [vouched EXCEPT ![g] = TRUE]
              \/ UNCHANGED <<fd, fds, claimed, auto, vouched>>
           /\ attached' \in {attached, FALSE}
           /\ pc' = [pc EXCEPT ![t] = "idle"]
           /\ \E r \in {"SUCCESS", "NO_MEM", "NO_DEVICE"} : ret' = [ret EXCEPT ![t] = r]
           /\ calls < MaxCalls /\ calls' = calls + 1
           /\ UNCHANGED <<present, owner, active, cached, lock, job, at, val, had>>
<1>1. PICK g \in Handles :
        /\ Begin(t, "open") /\ fd[g] = "none" /\ fds[g] = "closed" /\ attached
        /\ \/ /\ present /\ fd' = [fd EXCEPT ![g] = "own"]
              /\ fds' = [fds EXCEPT ![g] = "library"] /\ Fresh(g)
              /\ Return(t, "SUCCESS") /\ UNCHANGED attached
           \/ /\ present /\ Return(t, "NO_MEM")
              /\ UNCHANGED <<handles, claimed, auto, attached, vouched>>
           \/ /\ ~present /\ Return(t, "NO_DEVICE") /\ attached' = FALSE
              /\ UNCHANGED <<handles, claimed, auto, vouched>>
        /\ UNCHANGED <<present, owner, config, lock, job, at, val, had>>
  BY DEF Open
<1> QED
  BY <1>1, Zenon DEF Begin, Fresh, Return, handles, config

LEMMA EnterEffect ==
  ASSUME NEW t \in Threads, Enter(t)
  PROVE  \E op, h, i :
           /\ job' = [job EXCEPT ![t] = [@ EXCEPT !.op = op, !.h = h, !.i = i]]
           /\ op \in Ops /\ h \in Handles /\ i \in Ifaces
BY Zenon DEF Enter, Begin

LEMMA GetEffect ==
  ASSUME Typed, NEW t \in Threads, GetConfiguration(t)
  PROVE  \E h \in Handles :
           /\ pc[t] = "idle" /\ fd[h] # "none"
           /\ pc' = [pc EXCEPT ![t] = IF present THEN "cache" ELSE "idle"]
           /\ val' = [val EXCEPT ![t] = IF present THEN Value(active) ELSE @]
           /\ job' = [job EXCEPT ![t] = [@ EXCEPT !.op = "get", !.h = h]]
           /\ "get" \in Ops
           /\ UNCHANGED <<present, attached, owner, active, cached, fd, fds>>
           /\ UNCHANGED <<claimed, auto, lock, at, vouched, had>>
<1>1. PICK h \in Handles :
        /\ Begin(t, "get") /\ fd[h] # "none"
        /\ IF present
           THEN /\ pc' = [pc EXCEPT ![t] = "cache"]
                /\ val' = [val EXCEPT ![t] = Value(active)] /\ UNCHANGED ret
           ELSE Return(t, "NO_DEVICE") /\ UNCHANGED val
        /\ job' = [job EXCEPT ![t] = [@ EXCEPT !.op = "get", !.h = h]]
        /\ UNCHANGED <<device, owner, config, handles, claimed, auto, lock, at, history>>
  BY DEF GetConfiguration
<1>2. CASE present
  BY <1>1, <1>2 DEF Begin, device, config, handles, history
<1>3. CASE ~present
  <2>1. val' = [val EXCEPT ![t] = @]
    BY <1>1, <1>3 DEF Typed
  <2> QED
    BY <1>1, <1>3, <2>1 DEF Begin, Return, device, config, handles, history
<1> QED
  BY <1>2, <1>3

LEMMA ClaimedEffect ==
  ASSUME Typed, NEW t \in Threads, H(t) \in Handles, NEW i \in Ifaces, NEW r,
         Claimed(t, i, r)
  PROVE  \/ /\ pc[t] # "reclaim" /\ job[t].op = "claim"
            /\ \A h \in Handles, j \in Ifaces :
                 j \in claimed'[h] <=>
                   j \in claimed[h] \/ (h = H(t) /\ j = i /\ r = "SUCCESS")
            /\ pc' = [pc EXCEPT ![t] = "idle"]
         \/ /\ pc[t] = "reclaim" \/ job[t].op # "claim"
            /\ \A h \in Handles, j \in Ifaces :
                 j \in claimed'[h] <=>
                   j \in claimed[h] /\ ~ (h = H(t) /\ j = i /\ r # "SUCCESS")
            /\ pc' = [pc EXCEPT ![t] = "reclaim"] /\ at' = [at EXCEPT ![t] = i + 1]
<1>1. claimed \in [Handles -> SUBSET Ifaces]
  BY DEF Typed
<1>2. CASE pc[t] # "reclaim" /\ job[t].op = "claim"
  BY <1>1, <1>2, SMTT(30) DEF Claimed, Return, Unlock
<1>3. CASE ~(pc[t] # "reclaim" /\ job[t].op = "claim")
  BY <1>1, <1>3, SMTT(30) DEF Claimed
<1> QED
  BY <1>2, <1>3

\* a system call binds an interface to the handle, or does not
Binds(t, i, r) ==
  /\ \A j \in Ifaces :
       owner'[j] = IF j = i /\ r = "SUCCESS" THEN H(t) ELSE owner[j]
  /\ r = "SUCCESS" => owner[i] \notin Usbfs \ {H(t)}
  /\ present /\ owner[i] = "none" => r = "SUCCESS"
  /\ Claimed(t, i, r)

\* ... or asks first
Asks(t, i) ==
  /\ ~DisconnectClaim
  /\ pc' = [pc EXCEPT ![t] = "getdriver"] /\ at' = [at EXCEPT ![t] = i]
  /\ UNCHANGED <<owner, claimed, had>>

LEMMA BindEffect ==
  ASSUME ClaimsAssumption, Typed, NEW t \in Threads, H(t) \in Handles, NEW i \in Ifaces,
         Bound(i, H(t), BindResult(H(t), i)), Claimed(t, i, BindResult(H(t), i))
  PROVE  Binds(t, i, BindResult(H(t), i))
<1>1. owner \in [Ifaces -> {"none", "driver"} \cup Usbfs]
  BY DEF Typed
<1> QED
  BY <1>1, SMTT(30) DEF Binds, Bound, BindResult, ClaimsAssumption, Usbfs

LEMMA DetachAndClaimEffect ==
  ASSUME ClaimsAssumption, Typed, NEW t \in Threads, H(t) \in Handles, NEW i \in Ifaces,
         DetachAndClaim(t, i)
  PROVE  \/ /\ DisconnectClaim /\ Binds(t, i, TakeResult(i))
            /\ had' = had \/ (had' = Had(t, i) /\ owner'[i] = H(t))
         \/ Asks(t, i)
<1>1. owner \in [Ifaces -> {"none", "driver"} \cup Usbfs]
  BY DEF Typed
<1> QED
  BY <1>1, SMTT(30) DEF DetachAndClaim, Binds, Asks, Bound, TakeResult, ClaimsAssumption,
                        Usbfs

LEMMA ClaimEffect ==
  ASSUME ClaimsAssumption, Typed, NEW t \in Threads, H(t) \in Handles, I(t) \in Ifaces,
         Claim(t)
  PROVE  /\ pc[t] = "claim"
         /\ \/ /\ UNCHANGED <<owner, claimed, had>> /\ I(t) \in claimed[H(t)]
               /\ pc' = [pc EXCEPT ![t] = "idle"]
            \/ /\ \E r : Binds(t, I(t), r)
               /\ \/ had' = had
                  \/ auto[H(t)] /\ had' = Had(t, I(t)) /\ owner'[I(t)] = H(t)
            \/ Asks(t, I(t))
<1>1. CASE I(t) \in claimed[H(t)]
  BY <1>1 DEF Claim, Return
<1>2. CASE I(t) \notin claimed[H(t)] /\ auto[H(t)]
  BY <1>2, DetachAndClaimEffect DEF Claim
<1>3. CASE I(t) \notin claimed[H(t)] /\ ~auto[H(t)]
  BY <1>3, BindEffect DEF Claim
<1> QED
  BY <1>1, <1>2, <1>3

LEMMA ReclaimEffect ==
  ASSUME ClaimsAssumption, Typed, NEW t \in Threads, H(t) \in Handles, Reclaim(t)
  PROVE  /\ pc[t] = "reclaim"
         /\ \/ \E j \in Ifaces :
                 /\ IsNext(j, t)
                 /\ Asks(t, j) \/ (\E r : Binds(t, j, r))
            \/ /\ LoopEnds(t) /\ UNCHANGED <<owner, claimed, at, had>>
               /\ pc' = [pc EXCEPT ![t] = "idle"]
BY DetachAndClaimEffect DEF Reclaim

\* an interface stays in the mask of the handle it is bound to
LEMMA BindsClaims ==
  ASSUME Typed, NEW t \in Threads, H(t) \in Handles, NEW i \in Ifaces, NEW r,
         Binds(t, i, r),
         owner[i] # H(t) \/ (pc[t] # "reclaim" /\ job[t].op = "claim"),
         pc[t] = "reclaim" \/ job[t].op # "claim" => i \in claimed[H(t)],
         \A j \in Ifaces : owner[j] \in Handles => j \in claimed[owner[j]]
  PROVE  \A j \in Ifaces : owner'[j] \in Handles => j \in claimed'[owner'[j]]
BY ClaimedEffect, SMTT(30) DEF Binds

\* a thread that a step is not of
Same(u) ==
  pc'[u] = pc[u] /\ job'[u] = job[u] /\ at'[u] = at[u] /\ val'[u] = val[u]

(***************************************************************************)
(* The places, jobs and values of the threads keep their types.            *)
(***************************************************************************)
LEMMA ThreadTypes ==
  ASSUME ClaimsAssumption, TypeOK, Calls, NEW t \in Threads, Step(t)
  PROVE  /\ pc' \in [Threads -> PCs] /\ job' \in [Threads -> Job]
         /\ at' \in [Threads -> 1 .. N + 1] /\ val' \in [Threads -> Configs \cup {-1}]
         /\ ret' \in [Threads -> Results] /\ calls' \in 0 .. MaxCalls
<1>a. /\ job[t] \in Job /\ H(t) \in Handles /\ I(t) \in Ifaces
      /\ at[t] \in 1 .. N + 1 /\ CallOf(t)
  BY DEF TypeOK, H, I, Job, Calls
<1>p. /\ Locked \cup {"idle", "lock", "unbind", "setalt", "cache", "user.getdriver",
                    "user.disconnect", "user.attach"} \subseteq PCs
      /\ {"claim", "release", "alt", "reset", "reclaim", "getdriver", "disconnect", "bind",
          "reattach"} \subseteq Locked
  BY DEF PCs, Locked
<1>r. {"SUCCESS", "NO_DEVICE", "NOT_FOUND", "BUSY", "OTHER", "NO_MEM"} \subseteq Results
  BY DEF Results
<1>c. CallOf(t)
  BY DEF Calls
<1>t. /\ pc \in [Threads -> PCs] /\ at \in [Threads -> 1 .. N + 1]
      /\ val \in [Threads -> Configs \cup {-1}] /\ ret \in [Threads -> Results]
      /\ calls \in 0 .. MaxCalls /\ active \in Configs \cup {0} /\ job \in [Threads -> Job]
  BY DEF TypeOK
<1>n. N \in Nat /\ MaxCalls \in Nat
  BY DEF ClaimsAssumption
<1>v. \A c \in Configs \cup {0} : Value(c) \in Configs \cup {-1}
  BY DEF Value
<1> USE DEF CallOf, Asking, H, I, Ifaces
<1>1. CASE Enter(t)
  <2>1. job' \in [Threads -> Job]
    <3>1. PICK op, h, i :
            /\ job' = [job EXCEPT ![t] = [job[t] EXCEPT !.op = op, !.h = h, !.i = i]]
            /\ op \in Ops /\ h \in Handles /\ i \in Ifaces
      BY <1>1, EnterEffect
    <3> QED
      BY <1>t, <3>1 DEF Job
  <2> QED
    BY <1>1, <1>a, <1>p, <1>c, <1>r, <1>t, <1>n, <1>v, <2>1, SMTT(30) DEF
       Enter, Begin, FirstStep, device, handles, config, history
<1>2. CASE EnterRelease(t)
  <2>1. job' \in [Threads -> Job]
    <3>1. PICK h \in Handles, i \in Ifaces :
            /\ "release" \in Ops
            /\ job' = [job EXCEPT ![t] = [job[t] EXCEPT !.op = "release", !.h = h, !.i = i]]
      BY <1>2 DEF EnterRelease, Begin
    <3> QED
      BY <1>t, <3>1 DEF Job
  <2> QED
    BY <1>2, <1>a, <1>p, <1>c, <1>r, <1>t, <1>n, <1>v, <2>1, SMTT(30) DEF
       EnterRelease, Begin, device, config, handles, history
<1>3. CASE EnterGone(t)
  BY <1>a, <1>p, <1>c, <1>r, <1>t, <1>n, <1>v, <1>3, SMTT(30) DEF EnterGone,
     Begin, Return, device, config, handles, history
<1>4. CASE AltGone(t)
  BY <1>a, <1>p, <1>c, <1>r, <1>t, <1>n, <1>v, <1>4, SMTT(30) DEF AltGone,
     Begin, Return, device, config, handles, history
<1>5. CASE Lock(t)
  BY <1>a, <1>p, <1>c, <1>r, <1>t, <1>n, <1>v, <1>5, SMTT(30) DEF Lock,
     device, config, handles, threads, history
<1>6. CASE Claim(t)
  BY <1>a, <1>p, <1>c, <1>r, <1>t, <1>n, <1>v, <1>6, SMTT(30) DEF Claim,
     Unlock, Return, DetachAndClaim, Bound, TakeResult, Usbfs, Had, Claimed,
     BindResult, device, config, handles
<1>7. CASE GetDriver(t)
  BY <1>a, <1>p, <1>c, <1>r, <1>t, <1>n, <1>v, <1>7, SMTT(30) DEF GetDriver,
     Here, Usbfs, device, config, handles, threads, history
<1>8. CASE ClaimDisconnect(t)
  BY <1>a, <1>p, <1>c, <1>r, <1>t, <1>n, <1>v, <1>8, SMTT(30) DEF
     ClaimDisconnect, Disconnected, Had, Here, Claimed, Unlock, Return,
     device, config, handles
<1>9. CASE Bind(t)
  BY <1>a, <1>p, <1>c, <1>r, <1>t, <1>n, <1>v, <1>9, SMTT(30) DEF Bind,
     BindResult, Here, Bound, Claimed, Unlock, Return, device, config,
     handles, history
<1>10. CASE Release(t)
  BY <1>a, <1>p, <1>c, <1>r, <1>t, <1>n, <1>v, <1>10, SMTT(30) DEF Release,
     UnbindResult, Unlock, Return, Bound, device, config, handles, threads,
     history
<1>11. CASE Reattach(t)
  BY <1>a, <1>p, <1>c, <1>r, <1>t, <1>n, <1>v, <1>11, SMTT(30) DEF Reattach,
     Unlock, Return, device, config, handles, threads
<1>12. CASE AltChecked(t)
  BY <1>a, <1>p, <1>c, <1>r, <1>t, <1>n, <1>v, <1>12, SMTT(30) DEF AltChecked,
     Unlock, Return, device, config, handles, threads, history
<1>13. CASE SetAlt(t)
  BY <1>a, <1>p, <1>c, <1>r, <1>t, <1>n, <1>v, <1>13, SMTT(30) DEF SetAlt,
     Return, UnbindResult, device, config, handles, threads, history
<1>14. CASE ResetUnbind(t)
  BY <1>a, <1>p, <1>c, <1>r, <1>t, <1>n, <1>v, <1>14, SMTT(30) DEF
     ResetUnbind, IsNext, Bound, UnbindResult, LoopEnds, device, config,
     handles, history
<1>15. CASE ResetDone(t)
  BY <1>a, <1>p, <1>c, <1>r, <1>t, <1>n, <1>v, <1>15, SMTT(30) DEF ResetDone,
     Usbfs, device, config, handles
<1>16. CASE ResetFailed(t)
  BY <1>a, <1>p, <1>c, <1>r, <1>t, <1>n, <1>v, <1>16, SMTT(30) DEF
     ResetFailed, Return, Unlock, device, config, handles, threads
<1>17. CASE Reclaim(t)
  BY <1>a, <1>p, <1>c, <1>r, <1>t, <1>n, <1>v, <1>17, SMTT(30) DEF Reclaim,
     IsNext, DetachAndClaim, Bound, TakeResult, Usbfs, Had, Claimed, Unlock,
     Return, LoopEnds, device, config, handles
<1>18. CASE UserGetDriver(t)
  BY <1>a, <1>p, <1>c, <1>r, <1>t, <1>n, <1>v, <1>18, SMTT(30) DEF
     UserGetDriver, Usbfs, Return, device, config, handles, threads, history
<1>19. CASE UserDisconnect(t)
  BY <1>a, <1>p, <1>c, <1>r, <1>t, <1>n, <1>v, <1>19, SMTT(30) DEF
     UserDisconnect, Return, device, config, handles, threads, history
<1>20. CASE UserAttach(t)
  BY <1>a, <1>p, <1>c, <1>r, <1>t, <1>n, <1>v, <1>20, SMTT(30) DEF UserAttach,
     Return, device, config, handles, threads
<1>21. CASE SetAuto(t)
  BY <1>a, <1>p, <1>c, <1>r, <1>t, <1>n, <1>v, <1>21, SMTT(30) DEF SetAuto,
     Begin, device, config, handles
<1>22. CASE SetConfiguration(t)
  <2>1. job' \in [Threads -> Job]
    <3>1. PICK h \in Handles, c \in Configs \cup {0} :
            /\ "set" \in Ops
            /\ job' = [job EXCEPT ![t] = [job[t] EXCEPT !.op = "set", !.h = h, !.c = c]]
      BY <1>22 DEF SetConfiguration, Begin
    <3> QED
      BY <1>t, <3>1 DEF Job
  <2> QED
    BY <1>22, <1>a, <1>p, <1>c, <1>r, <1>t, <1>n, <1>v, <2>1, SMTT(30) DEF
       SetConfiguration, Begin, Return, device, handles, history
<1>23. CASE GetConfiguration(t)
  <2>1. job' \in [Threads -> Job]
    <3>1. PICK h \in Handles :
            /\ "get" \in Ops
            /\ job' = [job EXCEPT ![t] = [job[t] EXCEPT !.op = "get", !.h = h]]
      BY <1>23 DEF GetConfiguration, Begin
    <3> QED
      BY <1>t, <3>1 DEF Job
  <2> QED
    BY <1>23, <1>a, <1>p, <1>c, <1>r, <1>t, <1>n, <1>v, <2>1, SMTT(30) DEF
       GetConfiguration, Begin, Return, device, config, handles, history
<1>24. CASE CacheConfig(t)
  BY <1>a, <1>p, <1>c, <1>r, <1>t, <1>n, <1>v, <1>24, SMTT(30) DEF
     CacheConfig, Return, device, handles, threads, history
<1>25. CASE Open(t)
  <2>1. /\ pc' = [pc EXCEPT ![t] = "idle"]
        /\ \E r \in {"SUCCESS", "NO_MEM", "NO_DEVICE"} : ret' = [ret EXCEPT ![t] = r]
        /\ calls < MaxCalls /\ calls' = calls + 1 /\ UNCHANGED <<job, at, val>>
    BY <1>25, OpenEffect
  <2> QED
    BY <1>p, <1>r, <1>t, <1>n, <2>1, SMTT(30)
<1>26. CASE Wrap(t)
  BY <1>a, <1>p, <1>c, <1>r, <1>t, <1>n, <1>v, <1>26, SMTT(30) DEF Wrap,
     Begin, Fresh, Return, device, config
<1>27. CASE Close(t)
  BY <1>a, <1>p, <1>c, <1>r, <1>t, <1>n, <1>v, <1>27, SMTT(30) DEF Close,
     Begin, CloseFd, Dropped, Return, device, config
<1> QED
  BY <1>1, <1>2, <1>3, <1>4, <1>5, <1>6, <1>7, <1>8, <1>9, <1>10, <1>11,
     <1>12, <1>13, <1>14, <1>15, <1>16, <1>17, <1>18, <1>19, <1>20, <1>21,
     <1>22, <1>23, <1>24, <1>25, <1>26, <1>27
  DEF Step

(***************************************************************************)
(* The device, the kernel and the handles keep their types.                *)
(***************************************************************************)
LEMMA HandleTypes ==
  ASSUME ClaimsAssumption, TypeOK, Calls, NEW t \in Threads, Step(t)
  PROVE  /\ present' \in BOOLEAN /\ attached' \in BOOLEAN
         /\ owner' \in [Ifaces -> {"none", "driver"} \cup Usbfs]
         /\ active' \in Configs \cup {0} /\ cached' \in Configs \cup {-1}
         /\ fd' \in [Handles -> {"none", "own", "kept"}]
         /\ fds' \in [Handles -> {"closed", "library", "user"}]
         /\ claimed' \in [Handles -> SUBSET Ifaces] /\ auto' \in [Handles -> BOOLEAN]
         /\ lock' \in [Handles -> Threads \cup {Free}]
         /\ vouched' \in [Handles -> BOOLEAN] /\ had' \subseteq Ifaces
<1>a. /\ job[t] \in Job /\ H(t) \in Handles /\ I(t) \in Ifaces
      /\ at[t] \in 1 .. N + 1 /\ CallOf(t)
  BY DEF TypeOK, H, I, Job, Calls
<1>c. CallOf(t)
  BY DEF Calls
<1>i. Here(t) \in Ifaces \/ pc[t] \notin Asking
  BY <1>a, <1>c DEF Here, CallOf
<1>u. Handles \subseteq Usbfs
  BY DEF Usbfs
<1> USE DEF TypeOK, Asking
<1>1. CASE Enter(t)
  BY <1>a, <1>c, <1>i, <1>u, <1>1, SMTT(30) DEF Enter, Begin, FirstStep,
     device, config, handles, history
<1>2. CASE EnterRelease(t)
  BY <1>a, <1>c, <1>i, <1>u, <1>2, SMTT(30) DEF EnterRelease, Begin, device,
     config, handles, history
<1>3. CASE EnterGone(t)
  BY <1>a, <1>c, <1>i, <1>u, <1>3, SMTT(30) DEF EnterGone, Begin, Return,
     device, config, handles, history
<1>4. CASE AltGone(t)
  BY <1>a, <1>c, <1>i, <1>u, <1>4, SMTT(30) DEF AltGone, Begin, Return,
     device, config, handles, history
<1>5. CASE Lock(t)
  BY <1>a, <1>c, <1>i, <1>u, <1>5, SMTT(30) DEF Lock, device, config, handles,
     threads, history
<1>6. CASE Claim(t)
  BY <1>a, <1>c, <1>i, <1>u, <1>6, SMTT(30) DEF Claim, Unlock, Return,
     DetachAndClaim, Bound, TakeResult, Had, Claimed, BindResult, device,
     config, handles
<1>7. CASE GetDriver(t)
  BY <1>a, <1>c, <1>i, <1>u, <1>7, SMTT(30) DEF GetDriver, device, config,
     handles, threads, history
<1>8. CASE ClaimDisconnect(t)
  BY <1>a, <1>c, <1>i, <1>u, <1>8, SMTT(30) DEF ClaimDisconnect, Disconnected,
     Had, Claimed, Unlock, Return, device, config, handles
<1>9. CASE Bind(t)
  BY <1>a, <1>c, <1>i, <1>u, <1>9, SMTT(30) DEF Bind, BindResult, Bound,
     Claimed, Unlock, Return, device, config, handles, history
<1>10. CASE Release(t)
  BY <1>a, <1>c, <1>i, <1>u, <1>10, SMTT(30) DEF Release, UnbindResult,
     Unlock, Return, Bound, device, config, handles, threads, history
<1>11. CASE Reattach(t)
  BY <1>a, <1>c, <1>i, <1>u, <1>11, SMTT(30) DEF Reattach, Unlock, Return,
     device, config, handles, threads
<1>12. CASE AltChecked(t)
  BY <1>a, <1>c, <1>i, <1>u, <1>12, SMTT(30) DEF AltChecked, Unlock, Return,
     device, config, handles, threads, history
<1>13. CASE SetAlt(t)
  BY <1>a, <1>c, <1>i, <1>u, <1>13, SMTT(30) DEF SetAlt, Return, UnbindResult,
     device, config, handles, threads, history
<1>14. CASE ResetUnbind(t)
  BY <1>a, <1>c, <1>i, <1>u, <1>14, SMTT(30) DEF ResetUnbind, IsNext, Bound,
     UnbindResult, LoopEnds, device, config, handles, history
<1>15. CASE ResetDone(t)
  BY <1>a, <1>c, <1>i, <1>u, <1>15, SMTT(30) DEF ResetDone, device, config,
     handles
<1>16. CASE ResetFailed(t)
  BY <1>a, <1>c, <1>i, <1>u, <1>16, SMTT(30) DEF ResetFailed, Return, Unlock,
     device, config, handles, threads
<1>17. CASE Reclaim(t)
  BY <1>a, <1>c, <1>i, <1>u, <1>17, SMTT(30) DEF Reclaim, IsNext,
     DetachAndClaim, Bound, TakeResult, Had, Claimed, Unlock, Return,
     LoopEnds, device, config, handles
<1>18. CASE UserGetDriver(t)
  BY <1>a, <1>c, <1>i, <1>u, <1>18, SMTT(30) DEF UserGetDriver, Return,
     device, config, handles, threads, history
<1>19. CASE UserDisconnect(t)
  BY <1>a, <1>c, <1>i, <1>u, <1>19, SMTT(30) DEF UserDisconnect, Return,
     device, config, handles, threads, history
<1>20. CASE UserAttach(t)
  BY <1>a, <1>c, <1>i, <1>u, <1>20, SMTT(30) DEF UserAttach, Return, device,
     config, handles, threads
<1>21. CASE SetAuto(t)
  BY <1>a, <1>c, <1>i, <1>u, <1>21, SMTT(30) DEF SetAuto, Begin, device,
     config, handles
<1>22. CASE SetConfiguration(t)
  BY <1>a, <1>c, <1>i, <1>u, <1>22, SMTT(30) DEF SetConfiguration, Begin,
     Return, device, handles, history
<1>23. CASE GetConfiguration(t)
  <2>1. /\ UNCHANGED <<present, attached, owner, active, cached, fd, fds, claimed, auto, lock>>
        /\ UNCHANGED <<vouched, had>>
    BY <1>23, GetEffect DEF Typed
  <2> QED
    BY <2>1
<1>24. CASE CacheConfig(t)
  BY <1>a, <1>c, <1>i, <1>u, <1>24, SMTT(30) DEF CacheConfig, Return, device,
     handles, threads, history
<1>25. CASE Open(t)
  <2>1. PICK g \in Handles :
          /\ \/ /\ fd' = [fd EXCEPT ![g] = "own"]
                /\ fds' = [fds EXCEPT ![g] = "library"]
                /\ claimed' = [claimed EXCEPT ![g] = {}]
                /\ auto' = [auto EXCEPT ![g] = FALSE]
                /\ vouched' = [vouched EXCEPT ![g] = TRUE]
             \/ UNCHANGED <<fd, fds, claimed, auto, vouched>>
          /\ attached' \in {attached, FALSE}
          /\ UNCHANGED <<present, owner, active, cached, lock, had>>
    BY <1>25, OpenEffect
  <2>2. fd' \in [Handles -> {"none", "own", "kept"}]
    BY <2>1
  <2>3. fds' \in [Handles -> {"closed", "library", "user"}]
    BY <2>1
  <2>4. claimed' \in [Handles -> SUBSET Ifaces]
    BY <2>1
  <2>5. auto' \in [Handles -> BOOLEAN] /\ vouched' \in [Handles -> BOOLEAN]
    BY <2>1
  <2>6. /\ present' \in BOOLEAN /\ attached' \in BOOLEAN
        /\ owner' \in [Ifaces -> {"none", "driver"} \cup Usbfs]
        /\ active' \in Configs \cup {0} /\ cached' \in Configs \cup {-1}
        /\ lock' \in [Handles -> Threads \cup {Free}] /\ had' \subseteq Ifaces
    BY <2>1
  <2> QED
    BY <2>2, <2>3, <2>4, <2>5, <2>6
<1>26. CASE Wrap(t)
  <2>1. PICK h \in Handles :
          /\ fds' = [fds EXCEPT ![h] = "user"]
          /\ \/ fd' = [fd EXCEPT ![h] = "kept"] /\ Fresh(h)
             \/ UNCHANGED <<fd, claimed, auto, vouched>>
          /\ UNCHANGED <<device, owner, config, lock, had>>
    BY <1>26 DEF Wrap
  <2>2. fds' \in [Handles -> {"closed", "library", "user"}]
    BY <2>1
  <2>3. fd' \in [Handles -> {"none", "own", "kept"}]
    BY <2>1
  <2>4. claimed' \in [Handles -> SUBSET Ifaces]
    BY <2>1 DEF Fresh
  <2>5. auto' \in [Handles -> BOOLEAN] /\ vouched' \in [Handles -> BOOLEAN]
    BY <2>1 DEF Fresh
  <2>6. /\ present' \in BOOLEAN /\ attached' \in BOOLEAN
        /\ owner' \in [Ifaces -> {"none", "driver"} \cup Usbfs]
        /\ active' \in Configs \cup {0} /\ cached' \in Configs \cup {-1}
        /\ lock' \in [Handles -> Threads \cup {Free}] /\ had' \subseteq Ifaces
    BY <2>1 DEF device, config
  <2> QED
    BY <2>2, <2>3, <2>4, <2>5, <2>6
<1>27. CASE Close(t)
  BY <1>a, <1>c, <1>i, <1>u, <1>27, SMTT(30) DEF Close, Begin, CloseFd,
     Dropped, Return, device, config
<1> QED
  BY <1>1, <1>2, <1>3, <1>4, <1>5, <1>6, <1>7, <1>8, <1>9, <1>10, <1>11,
     <1>12, <1>13, <1>14, <1>15, <1>16, <1>17, <1>18, <1>19, <1>20, <1>21,
     <1>22, <1>23, <1>24, <1>25, <1>26, <1>27
  DEF Step

(***************************************************************************)
(* A call changes the place, the job, the loop and the value of its own    *)
(* thread.                                                                 *)
(***************************************************************************)
LEMMA OthersStay ==
  ASSUME Typed, NEW t \in Threads, Step(t)
  PROVE  present' = present /\ \A u \in Threads \ {t} : Same(u)
<1> USE DEF Same, device
<1>b. /\ pc \in [Threads -> PCs] /\ job \in [Threads -> Job]
      /\ at \in [Threads -> 1 .. N + 1] /\ val \in [Threads -> Configs \cup {-1}]
  BY DEF Typed
<1>1. CASE Enter(t)
  BY <1>b, <1>1, SMTT(30) DEF Enter, Begin
<1>2. CASE EnterRelease(t)
  BY <1>b, <1>2, SMTT(30) DEF EnterRelease, Begin
<1>3. CASE EnterGone(t)
  BY <1>b, <1>3, SMTT(30) DEF EnterGone, Begin, Return
<1>4. CASE AltGone(t)
  BY <1>b, <1>4, SMTT(30) DEF AltGone, Begin, Return
<1>5. CASE Lock(t)
  BY <1>b, <1>5, SMTT(30) DEF Lock, threads
<1>6. CASE Claim(t)
  BY <1>b, <1>6, SMTT(30) DEF Claim, Unlock, Return, DetachAndClaim, Claimed
<1>7. CASE GetDriver(t)
  BY <1>b, <1>7, SMTT(30) DEF GetDriver, threads
<1>8. CASE ClaimDisconnect(t)
  BY <1>b, <1>8, SMTT(30) DEF ClaimDisconnect, Claimed, Unlock, Return
<1>9. CASE Bind(t)
  BY <1>b, <1>9, SMTT(30) DEF Bind, Claimed, Unlock, Return
<1>10. CASE Release(t)
  BY <1>b, <1>10, SMTT(30) DEF Release, Unlock, Return, threads
<1>11. CASE Reattach(t)
  BY <1>b, <1>11, SMTT(30) DEF Reattach, Unlock, Return, threads
<1>12. CASE AltChecked(t)
  BY <1>b, <1>12, SMTT(30) DEF AltChecked, Unlock, Return, threads
<1>13. CASE SetAlt(t)
  BY <1>b, <1>13, SMTT(30) DEF SetAlt, Return, threads
<1>14. CASE ResetUnbind(t)
  BY <1>b, <1>14, SMTT(30) DEF ResetUnbind
<1>15. CASE ResetDone(t)
  BY <1>b, <1>15, SMTT(30) DEF ResetDone
<1>16. CASE ResetFailed(t)
  BY <1>b, <1>16, SMTT(30) DEF ResetFailed, Return, Unlock, threads
<1>17. CASE Reclaim(t)
  BY <1>b, <1>17, SMTT(30) DEF Reclaim, DetachAndClaim, Claimed, Unlock,
     Return
<1>18. CASE UserGetDriver(t)
  BY <1>b, <1>18, SMTT(30) DEF UserGetDriver, Return, threads
<1>19. CASE UserDisconnect(t)
  BY <1>b, <1>19, SMTT(30) DEF UserDisconnect, Return, threads
<1>20. CASE UserAttach(t)
  BY <1>b, <1>20, SMTT(30) DEF UserAttach, Return, threads
<1>21. CASE SetAuto(t)
  BY <1>b, <1>21, SMTT(30) DEF SetAuto, Begin
<1>22. CASE SetConfiguration(t)
  BY <1>b, <1>22, SMTT(30) DEF SetConfiguration, Begin, Return
<1>23. CASE GetConfiguration(t)
  <2>1. PICK h \in Handles :
          /\ pc' = [pc EXCEPT ![t] = IF present THEN "cache" ELSE "idle"]
          /\ val' = [val EXCEPT ![t] = IF present THEN Value(active) ELSE val[t]]
          /\ job' = [job EXCEPT ![t] = [job[t] EXCEPT !.op = "get", !.h = h]]
          /\ at' = at /\ present' = present
    BY <1>23, GetEffect
  <2>2. ASSUME NEW u \in Threads \ {t} PROVE job'[u] = job[u]
    BY <1>b, <2>1, <2>2
  <2>3. ASSUME NEW u \in Threads \ {t}
        PROVE  pc'[u] = pc[u] /\ at'[u] = at[u] /\ val'[u] = val[u]
    BY <1>b, <2>1, <2>3
  <2> QED
    BY <2>1, <2>2, <2>3 DEF Same
<1>24. CASE CacheConfig(t)
  BY <1>b, <1>24, SMTT(30) DEF CacheConfig, Return, threads
<1>25. CASE Open(t)
  <2>1. pc' = [pc EXCEPT ![t] = "idle"] /\ UNCHANGED <<present, job, at, val>>
    BY <1>25, OpenEffect
  <2> QED
    BY <1>b, <2>1
<1>26. CASE Wrap(t)
  BY <1>b, <1>26, SMTT(30) DEF Wrap, Begin, Return
<1>27. CASE Close(t)
  BY <1>b, <1>27, SMTT(30) DEF Close, Begin, Return
<1> QED
  BY <1>1, <1>2, <1>3, <1>4, <1>5, <1>6, <1>7, <1>8, <1>9, <1>10, <1>11,
     <1>12, <1>13, <1>14, <1>15, <1>16, <1>17, <1>18, <1>19, <1>20, <1>21,
     <1>22, <1>23, <1>24, <1>25, <1>26, <1>27
  DEF Step

(***************************************************************************)
(* A lock is taken when it is free, and given back by its holder.          *)
(***************************************************************************)
LEMMA LockEffect ==
  ASSUME Typed, Calls, NEW t \in Threads, Step(t)
  PROVE  \/ lock' = lock /\ (pc'[t] \in Locked => pc[t] \in Locked /\ H(t)' = H(t))
         \/ /\ pc[t] \in Locked /\ pc'[t] \notin Locked
            /\ lock' = [lock EXCEPT ![H(t)] = Free]
         \/ Lock(t) \/ AltGone(t)
<1>b. /\ pc \in [Threads -> PCs] /\ job \in [Threads -> Job]
  BY DEF Typed
<1>c. CallOf(t)
  BY DEF Calls
<1> USE DEF Locked, CallOf, Asking, H
<1>1. CASE Enter(t)
  BY <1>b, <1>c, <1>1, SMTT(30) DEF Enter, Begin, FirstStep, device, config,
     handles, history
<1>2. CASE EnterRelease(t)
  BY <1>b, <1>c, <1>2, SMTT(30) DEF EnterRelease, Begin, device, config,
     handles, history
<1>3. CASE EnterGone(t)
  BY <1>b, <1>c, <1>3, SMTT(30) DEF EnterGone, Begin, Return, device, config,
     handles, history
<1>4. CASE AltGone(t)
  BY <1>4
<1>5. CASE Lock(t)
  BY <1>5
<1>6. CASE Claim(t)
  BY <1>b, <1>c, <1>6, SMTT(30) DEF Claim, Unlock, Return, DetachAndClaim,
     Bound, Had, Claimed, device, config, handles
<1>7. CASE GetDriver(t)
  BY <1>b, <1>c, <1>7, SMTT(30) DEF GetDriver, device, config, handles,
     threads, history
<1>8. CASE ClaimDisconnect(t)
  BY <1>b, <1>c, <1>8, SMTT(30) DEF ClaimDisconnect, Disconnected, Had,
     Claimed, Unlock, Return, device, config, handles
<1>9. CASE Bind(t)
  BY <1>b, <1>c, <1>9, SMTT(30) DEF Bind, Bound, Claimed, Unlock, Return,
     device, config, handles, history
<1>10. CASE Release(t)
  BY <1>b, <1>c, <1>10, SMTT(30) DEF Release, Unlock, Return, Bound, device,
     config, handles, threads, history
<1>11. CASE Reattach(t)
  BY <1>b, <1>c, <1>11, SMTT(30) DEF Reattach, Unlock, Return, device, config,
     handles, threads
<1>12. CASE AltChecked(t)
  BY <1>b, <1>c, <1>12, SMTT(30) DEF AltChecked, Unlock, Return, device,
     config, handles, threads, history
<1>13. CASE SetAlt(t)
  BY <1>b, <1>c, <1>13, SMTT(30) DEF SetAlt, Return, device, config, handles,
     threads, history
<1>14. CASE ResetUnbind(t)
  BY <1>b, <1>c, <1>14, SMTT(30) DEF ResetUnbind, Bound, device, config,
     handles, history
<1>15. CASE ResetDone(t)
  BY <1>b, <1>c, <1>15, SMTT(30) DEF ResetDone, device, config, handles
<1>16. CASE ResetFailed(t)
  BY <1>b, <1>c, <1>16, SMTT(30) DEF ResetFailed, Return, Unlock, device,
     config, handles, threads
<1>17. CASE Reclaim(t)
  BY <1>b, <1>c, <1>17, SMTT(30) DEF Reclaim, DetachAndClaim, Bound, Had,
     Claimed, Unlock, Return, device, config, handles
<1>18. CASE UserGetDriver(t)
  BY <1>b, <1>c, <1>18, SMTT(30) DEF UserGetDriver, Return, device, config,
     handles, threads, history
<1>19. CASE UserDisconnect(t)
  BY <1>b, <1>c, <1>19, SMTT(30) DEF UserDisconnect, Return, device, config,
     handles, threads, history
<1>20. CASE UserAttach(t)
  BY <1>b, <1>c, <1>20, SMTT(30) DEF UserAttach, Return, device, config,
     handles, threads
<1>21. CASE SetAuto(t)
  BY <1>b, <1>c, <1>21, SMTT(30) DEF SetAuto, Begin, device, config, handles
<1>22. CASE SetConfiguration(t)
  BY <1>b, <1>c, <1>22, SMTT(30) DEF SetConfiguration, Begin, Return, device,
     handles, history
<1>23. CASE GetConfiguration(t)
  BY <1>b, <1>c, <1>23, SMTT(30) DEF GetConfiguration, Begin, Return, device,
     config, handles, history
<1>24. CASE CacheConfig(t)
  BY <1>b, <1>c, <1>24, SMTT(30) DEF CacheConfig, Return, device, handles,
     threads, history
<1>25. CASE Open(t)
  <2>1. pc' = [pc EXCEPT ![t] = "idle"] /\ lock' = lock
    BY <1>25, OpenEffect
  <2> QED
    BY <1>b, <2>1
<1>26. CASE Wrap(t)
  BY <1>b, <1>c, <1>26, SMTT(30) DEF Wrap, Begin, Fresh, Return, device,
     config
<1>27. CASE Close(t)
  BY <1>b, <1>c, <1>27, SMTT(30) DEF Close, Begin, CloseFd, Dropped, Return,
     device, config
<1> QED
  BY <1>1, <1>2, <1>3, <1>4, <1>5, <1>6, <1>7, <1>8, <1>9, <1>10, <1>11,
     <1>12, <1>13, <1>14, <1>15, <1>16, <1>17, <1>18, <1>19, <1>20, <1>21,
     <1>22, <1>23, <1>24, <1>25, <1>26, <1>27
  DEF Step

(***************************************************************************)
(* A call binds interfaces to its own handle, under the lock of the        *)
(* handle.                                                                 *)
(***************************************************************************)
LEMMA OwnerEffect ==
  ASSUME Typed, Calls, NEW t \in Threads, Step(t), NEW i \in Ifaces
  PROVE  \/ owner'[i] = owner[i]
         \/ owner'[i] \in {"none", "driver"}
         \/ owner'[i] = H(t) /\ pc[t] \in {"claim", "bind", "reclaim"}
<1>a. /\ job[t] \in Job /\ H(t) \in Handles /\ I(t) \in Ifaces
      /\ at[t] \in 1 .. N + 1 /\ CallOf(t)
  BY DEF Typed, H, I, Job, Calls
<1> USE DEF Typed
<1>1. CASE Enter(t)
  BY <1>a, <1>1, SMTT(30) DEF Enter, Begin, device, config, handles, history
<1>2. CASE EnterRelease(t)
  BY <1>a, <1>2, SMTT(30) DEF EnterRelease, Begin, device, config, handles,
     history
<1>3. CASE EnterGone(t)
  BY <1>a, <1>3, SMTT(30) DEF EnterGone, Begin, Return, device, config,
     handles, history
<1>4. CASE AltGone(t)
  BY <1>a, <1>4, SMTT(30) DEF AltGone, Begin, Return, device, config, handles,
     history
<1>5. CASE Lock(t)
  BY <1>a, <1>5, SMTT(30) DEF Lock, device, config, handles, threads, history
<1>6. CASE Claim(t)
  BY <1>a, <1>6, SMTT(30) DEF Claim, Unlock, Return, DetachAndClaim, Bound,
     Had, Claimed, device, config, handles
<1>7. CASE GetDriver(t)
  BY <1>a, <1>7, SMTT(30) DEF GetDriver, Here, device, config, handles,
     threads, history
<1>8. CASE ClaimDisconnect(t)
  BY <1>a, <1>8, SMTT(30) DEF ClaimDisconnect, Disconnected, Had, Here,
     Claimed, Unlock, Return, device, config, handles
<1>9. CASE Bind(t)
  BY <1>a, <1>9, SMTT(30) DEF Bind, Here, Bound, Claimed, Unlock, Return,
     device, config, handles, history
<1>10. CASE Release(t)
  BY <1>a, <1>10, SMTT(30) DEF Release, Unlock, Return, Bound, device, config,
     handles, threads, history
<1>11. CASE Reattach(t)
  BY <1>a, <1>11, SMTT(30) DEF Reattach, Unlock, Return, device, config,
     handles, threads
<1>12. CASE AltChecked(t)
  BY <1>a, <1>12, SMTT(30) DEF AltChecked, Unlock, Return, device, config,
     handles, threads, history
<1>13. CASE SetAlt(t)
  BY <1>a, <1>13, SMTT(30) DEF SetAlt, Return, device, config, handles,
     threads, history
<1>14. CASE ResetUnbind(t)
  BY <1>a, <1>14, SMTT(30) DEF ResetUnbind, Bound, device, config, handles,
     history
<1>15. CASE ResetDone(t)
  BY <1>a, <1>15, SMTT(30) DEF ResetDone, device, config, handles
<1>16. CASE ResetFailed(t)
  BY <1>a, <1>16, SMTT(30) DEF ResetFailed, Return, Unlock, device, config,
     handles, threads
<1>17. CASE Reclaim(t)
  BY <1>a, <1>17, SMTT(30) DEF Reclaim, DetachAndClaim, Bound, Had, Claimed,
     Unlock, Return, device, config, handles
<1>18. CASE UserGetDriver(t)
  BY <1>a, <1>18, SMTT(30) DEF UserGetDriver, Return, device, config, handles,
     threads, history
<1>19. CASE UserDisconnect(t)
  BY <1>a, <1>19, SMTT(30) DEF UserDisconnect, Return, device, config,
     handles, threads, history
<1>20. CASE UserAttach(t)
  BY <1>a, <1>20, SMTT(30) DEF UserAttach, Return, device, config, handles,
     threads
<1>21. CASE SetAuto(t)
  BY <1>a, <1>21, SMTT(30) DEF SetAuto, Begin, device, config, handles
<1>22. CASE SetConfiguration(t)
  BY <1>a, <1>22, SMTT(30) DEF SetConfiguration, Begin, Return, device,
     handles, history
<1>23. CASE GetConfiguration(t)
  BY <1>a, <1>23, SMTT(30) DEF GetConfiguration, Begin, Return, device,
     config, handles, history
<1>24. CASE CacheConfig(t)
  BY <1>a, <1>24, SMTT(30) DEF CacheConfig, Return, device, handles, threads,
     history
<1>25. CASE Open(t)
  BY <1>25, OpenEffect
<1>26. CASE Wrap(t)
  BY <1>a, <1>26, SMTT(30) DEF Wrap, Begin, Fresh, Return, device, config
<1>27. CASE Close(t)
  BY <1>a, <1>27, SMTT(30) DEF Close, Begin, CloseFd, Dropped, Return, device,
     config
<1> QED
  BY <1>1, <1>2, <1>3, <1>4, <1>5, <1>6, <1>7, <1>8, <1>9, <1>10, <1>11,
     <1>12, <1>13, <1>14, <1>15, <1>16, <1>17, <1>18, <1>19, <1>20, <1>21,
     <1>22, <1>23, <1>24, <1>25, <1>26, <1>27
  DEF Step

(***************************************************************************)
(* A mask changes under the lock, or with the handle.                      *)
(***************************************************************************)
LEMMA MaskEffect ==
  ASSUME Typed, Calls, NEW t \in Threads, Step(t), NEW h \in Handles
  PROVE  \/ claimed'[h] = claimed[h]
         \/ h = H(t) /\ pc[t] \in Locked
         \/ fd[h] = "none" /\ claimed'[h] = {} /\ pc[t] = "idle"
<1>a. /\ job[t] \in Job /\ H(t) \in Handles /\ I(t) \in Ifaces
      /\ at[t] \in 1 .. N + 1 /\ CallOf(t)
  BY DEF Typed, H, I, Job, Calls
<1> USE DEF Typed, Locked
<1>1. CASE Enter(t)
  BY <1>a, <1>1, SMTT(30) DEF Enter, Begin, device, config, handles, history
<1>2. CASE EnterRelease(t)
  BY <1>a, <1>2, SMTT(30) DEF EnterRelease, Begin, device, config, handles,
     history
<1>3. CASE EnterGone(t)
  BY <1>a, <1>3, SMTT(30) DEF EnterGone, Begin, Return, device, config,
     handles, history
<1>4. CASE AltGone(t)
  BY <1>a, <1>4, SMTT(30) DEF AltGone, Begin, Return, device, config, handles,
     history
<1>5. CASE Lock(t)
  BY <1>a, <1>5, SMTT(30) DEF Lock, device, config, handles, threads, history
<1>6. CASE Claim(t)
  BY <1>a, <1>6, SMTT(30) DEF Claim, Unlock, Return, DetachAndClaim, Bound,
     Had, Claimed, device, config, handles
<1>7. CASE GetDriver(t)
  BY <1>a, <1>7, SMTT(30) DEF GetDriver, device, config, handles, threads,
     history
<1>8. CASE ClaimDisconnect(t)
  BY <1>a, <1>8, SMTT(30) DEF ClaimDisconnect, Disconnected, Had, Claimed,
     Unlock, Return, device, config, handles
<1>9. CASE Bind(t)
  BY <1>a, <1>9, SMTT(30) DEF Bind, Bound, Claimed, Unlock, Return, device,
     config, handles, history
<1>10. CASE Release(t)
  BY <1>a, <1>10, SMTT(30) DEF Release, Unlock, Return, Bound, device, config,
     handles, threads, history
<1>11. CASE Reattach(t)
  BY <1>a, <1>11, SMTT(30) DEF Reattach, Unlock, Return, device, config,
     handles, threads
<1>12. CASE AltChecked(t)
  BY <1>a, <1>12, SMTT(30) DEF AltChecked, Unlock, Return, device, config,
     handles, threads, history
<1>13. CASE SetAlt(t)
  BY <1>a, <1>13, SMTT(30) DEF SetAlt, Return, device, config, handles,
     threads, history
<1>14. CASE ResetUnbind(t)
  BY <1>a, <1>14, SMTT(30) DEF ResetUnbind, Bound, device, config, handles,
     history
<1>15. CASE ResetDone(t)
  BY <1>a, <1>15, SMTT(30) DEF ResetDone, device, config, handles
<1>16. CASE ResetFailed(t)
  BY <1>a, <1>16, SMTT(30) DEF ResetFailed, Return, Unlock, device, config,
     handles, threads
<1>17. CASE Reclaim(t)
  BY <1>a, <1>17, SMTT(30) DEF Reclaim, DetachAndClaim, Bound, Had, Claimed,
     Unlock, Return, device, config, handles
<1>18. CASE UserGetDriver(t)
  BY <1>a, <1>18, SMTT(30) DEF UserGetDriver, Return, device, config, handles,
     threads, history
<1>19. CASE UserDisconnect(t)
  BY <1>a, <1>19, SMTT(30) DEF UserDisconnect, Return, device, config,
     handles, threads, history
<1>20. CASE UserAttach(t)
  BY <1>a, <1>20, SMTT(30) DEF UserAttach, Return, device, config, handles,
     threads
<1>21. CASE SetAuto(t)
  BY <1>a, <1>21, SMTT(30) DEF SetAuto, Begin, device, config, handles
<1>22. CASE SetConfiguration(t)
  BY <1>a, <1>22, SMTT(30) DEF SetConfiguration, Begin, Return, device,
     handles, history
<1>23. CASE GetConfiguration(t)
  BY <1>a, <1>23, SMTT(30) DEF GetConfiguration, Begin, Return, device,
     config, handles, history
<1>24. CASE CacheConfig(t)
  BY <1>a, <1>24, SMTT(30) DEF CacheConfig, Return, device, handles, threads,
     history
<1>25. CASE Open(t)
  <2>0. PICK g \in Handles :
          /\ fd[g] = "none" /\ fds[g] = "closed" /\ pc[t] = "idle"
          /\ \/ /\ fd' = [fd EXCEPT ![g] = "own"]
                /\ fds' = [fds EXCEPT ![g] = "library"]
                /\ claimed' = [claimed EXCEPT ![g] = {}]
                /\ vouched' = [vouched EXCEPT ![g] = TRUE]
             \/ UNCHANGED <<fd, fds, claimed, vouched>>
          /\ pc' = [pc EXCEPT ![t] = "idle"]
          /\ UNCHANGED <<owner, job, at>>
    BY <1>25, OpenEffect
  <2>1. claimed \in [Handles -> SUBSET Ifaces]
    BY DEF Typed
  <2>2. claimed'[h] = claimed[h] \/ (fd[h] = "none" /\ claimed'[h] = {})
    BY <2>0, <2>1
  <2> QED
    BY <2>0, <2>2
<1>26. CASE Wrap(t)
  BY <1>a, <1>26, SMTT(30) DEF Wrap, Begin, Fresh, Return, device, config
<1>27. CASE Close(t)
  BY <1>a, <1>27, SMTT(30) DEF Close, Begin, CloseFd, Dropped, Return, device,
     config
<1> QED
  BY <1>1, <1>2, <1>3, <1>4, <1>5, <1>6, <1>7, <1>8, <1>9, <1>10, <1>11,
     <1>12, <1>13, <1>14, <1>15, <1>16, <1>17, <1>18, <1>19, <1>20, <1>21,
     <1>22, <1>23, <1>24, <1>25, <1>26, <1>27
  DEF Step

(***************************************************************************)
(* A handle that a call uses stays open.                                   *)
(***************************************************************************)
LEMMA HandleEffect ==
  ASSUME Typed, Calls, NEW t \in Threads, Step(t), NEW h \in Handles
  PROVE  \/ fd'[h] = fd[h]
         \/ fd[h] = "none" /\ pc[t] = "idle"
         \/ fd'[h] = "none" /\ \A u \in Threads : pc[u] # "idle" => H(u) # h
<1>a. /\ job[t] \in Job /\ H(t) \in Handles /\ I(t) \in Ifaces
      /\ at[t] \in 1 .. N + 1 /\ CallOf(t)
  BY DEF Typed, H, I, Job, Calls
<1> USE DEF Typed, Unused
<1>1. CASE Enter(t)
  BY <1>a, <1>1, SMTT(30) DEF Enter, Begin, device, config, handles, history
<1>2. CASE EnterRelease(t)
  BY <1>a, <1>2, SMTT(30) DEF EnterRelease, Begin, device, config, handles,
     history
<1>3. CASE EnterGone(t)
  BY <1>a, <1>3, SMTT(30) DEF EnterGone, Begin, Return, device, config,
     handles, history
<1>4. CASE AltGone(t)
  BY <1>a, <1>4, SMTT(30) DEF AltGone, Begin, Return, device, config, handles,
     history
<1>5. CASE Lock(t)
  BY <1>a, <1>5, SMTT(30) DEF Lock, device, config, handles, threads, history
<1>6. CASE Claim(t)
  BY <1>a, <1>6, SMTT(30) DEF Claim, Unlock, Return, DetachAndClaim, Bound,
     Had, Claimed, device, config, handles
<1>7. CASE GetDriver(t)
  BY <1>a, <1>7, SMTT(30) DEF GetDriver, device, config, handles, threads,
     history
<1>8. CASE ClaimDisconnect(t)
  BY <1>a, <1>8, SMTT(30) DEF ClaimDisconnect, Disconnected, Had, Claimed,
     Unlock, Return, device, config, handles
<1>9. CASE Bind(t)
  BY <1>a, <1>9, SMTT(30) DEF Bind, Bound, Claimed, Unlock, Return, device,
     config, handles, history
<1>10. CASE Release(t)
  BY <1>a, <1>10, SMTT(30) DEF Release, Unlock, Return, Bound, device, config,
     handles, threads, history
<1>11. CASE Reattach(t)
  BY <1>a, <1>11, SMTT(30) DEF Reattach, Unlock, Return, device, config,
     handles, threads
<1>12. CASE AltChecked(t)
  BY <1>a, <1>12, SMTT(30) DEF AltChecked, Unlock, Return, device, config,
     handles, threads, history
<1>13. CASE SetAlt(t)
  BY <1>a, <1>13, SMTT(30) DEF SetAlt, Return, device, config, handles,
     threads, history
<1>14. CASE ResetUnbind(t)
  BY <1>a, <1>14, SMTT(30) DEF ResetUnbind, Bound, device, config, handles,
     history
<1>15. CASE ResetDone(t)
  BY <1>a, <1>15, SMTT(30) DEF ResetDone, device, config, handles
<1>16. CASE ResetFailed(t)
  BY <1>a, <1>16, SMTT(30) DEF ResetFailed, Return, Unlock, device, config,
     handles, threads
<1>17. CASE Reclaim(t)
  BY <1>a, <1>17, SMTT(30) DEF Reclaim, DetachAndClaim, Bound, Had, Claimed,
     Unlock, Return, device, config, handles
<1>18. CASE UserGetDriver(t)
  BY <1>a, <1>18, SMTT(30) DEF UserGetDriver, Return, device, config, handles,
     threads, history
<1>19. CASE UserDisconnect(t)
  BY <1>a, <1>19, SMTT(30) DEF UserDisconnect, Return, device, config,
     handles, threads, history
<1>20. CASE UserAttach(t)
  BY <1>a, <1>20, SMTT(30) DEF UserAttach, Return, device, config, handles,
     threads
<1>21. CASE SetAuto(t)
  BY <1>a, <1>21, SMTT(30) DEF SetAuto, Begin, device, config, handles
<1>22. CASE SetConfiguration(t)
  BY <1>a, <1>22, SMTT(30) DEF SetConfiguration, Begin, Return, device,
     handles, history
<1>23. CASE GetConfiguration(t)
  BY <1>a, <1>23, SMTT(30) DEF GetConfiguration, Begin, Return, device,
     config, handles, history
<1>24. CASE CacheConfig(t)
  BY <1>a, <1>24, SMTT(30) DEF CacheConfig, Return, device, handles, threads,
     history
<1>25. CASE Open(t)
  <2>0. PICK g \in Handles :
          /\ fd[g] = "none" /\ pc[t] = "idle"
          /\ fd' = [fd EXCEPT ![g] = "own"] \/ fd' = fd
    BY <1>25, OpenEffect
  <2>1. fd \in [Handles -> {"none", "own", "kept"}]
    BY DEF Typed
  <2> QED
    BY <2>0, <2>1
<1>26. CASE Wrap(t)
  BY <1>a, <1>26, SMTT(30) DEF Wrap, Begin, Fresh, Return, device, config
<1>27. CASE Close(t)
  BY <1>a, <1>27, SMTT(30) DEF Close, Begin, CloseFd, Dropped, Return, device,
     config
<1> QED
  BY <1>1, <1>2, <1>3, <1>4, <1>5, <1>6, <1>7, <1>8, <1>9, <1>10, <1>11,
     <1>12, <1>13, <1>14, <1>15, <1>16, <1>17, <1>18, <1>19, <1>20, <1>21,
     <1>22, <1>23, <1>24, <1>25, <1>26, <1>27
  DEF Step

(***************************************************************************)
(* Each step belongs to a call that has it.                                *)
(***************************************************************************)
LEMMA OwnCall ==
  ASSUME ClaimsAssumption, Typed, Calls, NEW t \in Threads, Step(t)
  PROVE  CallOf(t)'
<1>0. N \in Nat
  BY DEF ClaimsAssumption
<1>a. /\ job[t] \in Job /\ H(t) \in Handles /\ I(t) \in Ifaces
      /\ at[t] \in 1 .. N + 1 /\ CallOf(t)
  BY DEF Typed, H, I, Job, Calls
<1> USE DEF Typed, CallOf, Asking, H
<1>1. CASE Enter(t)
  BY <1>0, <1>a, <1>1, SMTT(30) DEF Job, Enter, Ifaces, Begin, FirstStep, handles
<1>2. CASE EnterRelease(t)
  BY <1>0, <1>a, <1>2, SMTT(30) DEF Job, EnterRelease, Ifaces, Begin, handles
<1>3. CASE EnterGone(t)
  BY <1>0, <1>a, <1>3, SMTT(30) DEF EnterGone, Begin, Return, handles
<1>4. CASE AltGone(t)
  BY <1>0, <1>a, <1>4, SMTT(30) DEF AltGone, Begin, Return, handles
<1>5. CASE Lock(t)
  BY <1>0, <1>a, <1>5, SMTT(30) DEF Lock, handles, threads
<1>6. CASE Claim(t)
  BY <1>0, <1>a, <1>6, SMTT(30) DEF Job, Claim, I, Unlock, Return, DetachAndClaim,
     Claimed, handles
<1>7. CASE GetDriver(t)
  BY <1>0, <1>a, <1>7, SMTT(30) DEF GetDriver, Here, I, handles, threads
<1>8. CASE ClaimDisconnect(t)
  BY <1>0, <1>a, <1>8, SMTT(30) DEF ClaimDisconnect, Here, I, Claimed, Unlock,
     Return, handles
<1>9. CASE Bind(t)
  BY <1>0, <1>a, <1>9, SMTT(30) DEF Bind, Here, I, Claimed, Unlock, Return,
     handles
<1>10. CASE Release(t)
  BY <1>0, <1>a, <1>10, SMTT(30) DEF Release, I, Unlock, Return, handles,
     threads
<1>11. CASE Reattach(t)
  BY <1>0, <1>a, <1>11, SMTT(30) DEF Reattach, I, Unlock, Return, handles,
     threads
<1>12. CASE AltChecked(t)
  BY <1>0, <1>a, <1>12, SMTT(30) DEF AltChecked, Unlock, I, Return, handles,
     threads
<1>13. CASE SetAlt(t)
  BY <1>0, <1>a, <1>13, SMTT(30) DEF SetAlt, Return, I, handles, threads
<1>14. CASE ResetUnbind(t)
  BY <1>0, <1>a, <1>14, SMTT(30) DEF ResetUnbind, Ifaces, IsNext, handles
<1>15. CASE ResetDone(t)
  BY <1>0, <1>a, <1>15, SMTT(30) DEF ResetDone, Ifaces, handles
<1>16. CASE ResetFailed(t)
  BY <1>0, <1>a, <1>16, SMTT(30) DEF ResetFailed, Return, Unlock, handles,
     threads
<1>17. CASE Reclaim(t)
  BY <1>0, <1>a, <1>17, SMTT(30) DEF Reclaim, Ifaces, IsNext, DetachAndClaim,
     Claimed, Unlock, Return, handles
<1>18. CASE UserGetDriver(t)
  BY <1>0, <1>a, <1>18, SMTT(30) DEF UserGetDriver, I, Return, handles,
     threads
<1>19. CASE UserDisconnect(t)
  BY <1>0, <1>a, <1>19, SMTT(30) DEF UserDisconnect, I, Return, handles,
     threads
<1>20. CASE UserAttach(t)
  BY <1>0, <1>a, <1>20, SMTT(30) DEF UserAttach, I, Return, handles, threads
<1>21. CASE SetAuto(t)
  BY <1>0, <1>a, <1>21, SMTT(30) DEF SetAuto, Begin, handles
<1>22. CASE SetConfiguration(t)
  BY <1>0, <1>a, <1>22, SMTT(30) DEF Job, SetConfiguration, Begin, Ifaces, Return,
     handles
<1>23. CASE GetConfiguration(t)
  <2>1. PICK h \in Handles :
          /\ fd[h] # "none" /\ fd' = fd /\ "get" \in Ops
          /\ pc' = [pc EXCEPT ![t] = IF present THEN "cache" ELSE "idle"]
          /\ job' = [job EXCEPT ![t] = [job[t] EXCEPT !.op = "get", !.h = h]]
    BY <1>23, GetEffect
  <2>2. /\ pc'[t] \in {"cache", "idle"} /\ job'[t].h = h
    BY <1>a, <2>1 DEF Typed, Job
  <2> QED
    BY <2>1, <2>2
<1>24. CASE CacheConfig(t)
  BY <1>0, <1>a, <1>24, SMTT(30) DEF CacheConfig, Return, handles, threads
<1>25. CASE Open(t)
  <2>1. pc'[t] = "idle"
    BY <1>25, OpenEffect
  <2> QED
    BY <2>1
<1>26. CASE Wrap(t)
  BY <1>0, <1>a, <1>26, SMTT(30) DEF Wrap, Begin, Fresh, Return
<1>27. CASE Close(t)
  BY <1>0, <1>a, <1>27, SMTT(30) DEF Close, Begin, CloseFd, Ifaces, Return
<1> QED
  BY <1>1, <1>2, <1>3, <1>4, <1>5, <1>6, <1>7, <1>8, <1>9, <1>10, <1>11,
     <1>12, <1>13, <1>14, <1>15, <1>16, <1>17, <1>18, <1>19, <1>20, <1>21,
     <1>22, <1>23, <1>24, <1>25, <1>26, <1>27
  DEF Step

(***************************************************************************)
(* What the mask of an open handle says is true after a step, or was not   *)
(* before.                                                                 *)
(***************************************************************************)
LEMMA OwnMask ==
  ASSUME ClaimsAssumption, Typed, Calls, Descriptors, NotBound, Masked, Keeping,
         NEW t \in Threads, Step(t), NEW h \in Handles, NEW i \in Ifaces,
         present', fd'[h] # "none", vouched'[h], i \in claimed'[h]
  PROVE  \/ owner'[i] = h \/ Pending(t, h, i)'
         \/ /\ i \in claimed[h] /\ fd[h] # "none" /\ vouched[h]
            /\ owner[i] # h /\ ~Pending(t, h, i)
<1>a. /\ job[t] \in Job /\ H(t) \in Handles /\ I(t) \in Ifaces
      /\ at[t] \in 1 .. N + 1 /\ CallOf(t)
  BY DEF Typed, H, I, Job, Calls
<1>b. /\ pc \in [Threads -> PCs] /\ job \in [Threads -> Job]
      /\ at \in [Threads -> 1 .. N + 1] /\ claimed \in [Handles -> SUBSET Ifaces]
      /\ owner \in [Ifaces -> {"none", "driver"} \cup Usbfs]
      /\ fd \in [Handles -> {"none", "own", "kept"}]
      /\ vouched \in [Handles -> BOOLEAN]
  BY DEF Typed
<1>c. NotBoundOf(t)
  BY DEF NotBound
<1>d. \A j \in Ifaces : owner[j] \in Handles => j \in claimed[owner[j]]
  BY DEF Masked
<1>e. /\ \A g \in Handles :
           /\ fd[g] = "own" <=> fds[g] = "library"
           /\ fd[g] = "kept" => fds[g] = "user"
      /\ \A j \in Ifaces : owner[j] \in Handles => fds[owner[j]] # "closed"
  BY DEF Descriptors
<1>f. /\ Handles \cap {"none", "driver", "other"} = {}
      /\ Ifaces \subseteq Int /\ N \in Int
  BY DEF ClaimsAssumption, Ifaces
<1> USE DEF Pending, Asking, H, I, NotBoundOf, CallOf
<1>1. CASE Enter(t)
  BY <1>a, <1>b, <1>c, <1>d, <1>e, <1>f, <1>1, SMTT(30) DEF Enter, Begin,
     FirstStep, device, config, handles, history
<1>2. CASE EnterRelease(t)
  BY <1>a, <1>b, <1>c, <1>d, <1>e, <1>f, <1>2, SMTT(30) DEF EnterRelease,
     Begin, device, config, handles, history
<1>3. CASE EnterGone(t)
  BY <1>a, <1>b, <1>c, <1>d, <1>e, <1>f, <1>3, SMTT(30) DEF EnterGone, Begin,
     Return, device, config, handles, history
<1>4. CASE AltGone(t)
  BY <1>a, <1>b, <1>c, <1>d, <1>e, <1>f, <1>4, SMTT(30) DEF AltGone, Begin,
     Return, device, config, handles, history
<1>5. CASE Lock(t)
  BY <1>a, <1>b, <1>c, <1>d, <1>e, <1>f, <1>5, SMTT(30) DEF Lock, device,
     config, handles, threads, history
<1>6. CASE Claim(t)
  BY <1>a, <1>b, <1>c, <1>d, <1>e, <1>f, <1>6, SMTT(30) DEF Claim, Unlock,
     Return, DetachAndClaim, Bound, TakeResult, Usbfs, Had, Claimed,
     BindResult, device, config, handles
<1>7. CASE GetDriver(t)
  BY <1>a, <1>b, <1>c, <1>d, <1>e, <1>f, <1>7, SMTT(30) DEF GetDriver, Here,
     Usbfs, device, config, handles, threads, history
<1>8. CASE ClaimDisconnect(t)
  BY <1>a, <1>b, <1>c, <1>d, <1>e, <1>f, <1>8, SMTT(30) DEF ClaimDisconnect,
     Disconnected, Had, Here, Claimed, Unlock, Return, device, config, handles
<1>9. CASE Bind(t)
  BY <1>a, <1>b, <1>c, <1>d, <1>e, <1>f, <1>9, SMTT(30) DEF Bind, BindResult,
     Here, Bound, Claimed, Unlock, Return, device, config, handles, history
<1>10. CASE Release(t)
  BY <1>a, <1>b, <1>c, <1>d, <1>e, <1>f, <1>10, SMTT(30) DEF Release,
     UnbindResult, Unlock, Return, Bound, device, config, handles, threads,
     history
<1>11. CASE Reattach(t)
  BY <1>a, <1>b, <1>c, <1>d, <1>e, <1>f, <1>11, SMTT(30) DEF Reattach, Unlock,
     Return, device, config, handles, threads
<1>12. CASE AltChecked(t)
  BY <1>a, <1>b, <1>c, <1>d, <1>e, <1>f, <1>12, SMTT(30) DEF AltChecked,
     Unlock, Return, device, config, handles, threads, history
<1>13. CASE SetAlt(t)
  BY <1>a, <1>b, <1>c, <1>d, <1>e, <1>f, <1>13, SMTT(30) DEF SetAlt, Return,
     UnbindResult, device, config, handles, threads, history
<1>14. CASE ResetUnbind(t)
  <2>1. CASE h = H(t)
    <3>1. pc'[t] \in {"unbind", "lock"} /\ job' = job
      BY <1>14, <1>b DEF ResetUnbind
    <3> QED
      BY <1>14, <1>a, <2>1, <3>1 DEF ResetUnbind
  <2>2. CASE h # H(t)
    BY <1>14, <1>a, <1>b, <2>2, SMTT(30) DEF ResetUnbind, Bound, UnbindResult,
       handles, history
  <2> QED
    BY <2>1, <2>2
<1>15. CASE ResetDone(t)
  <2>1. h = H(t)
    BY <1>15, <1>b DEF ResetDone
  <2>2. pc'[t] = "reclaim" /\ job' = job /\ at'[t] = 1
    BY <1>15, <1>b DEF ResetDone
  <2> QED
    BY <1>15, <1>a, <1>f, <2>1, <2>2 DEF ResetDone, Ifaces
<1>16. CASE ResetFailed(t)
  BY <1>a, <1>b, <1>c, <1>d, <1>e, <1>f, <1>16, SMTT(30) DEF ResetFailed,
     Return, Unlock, device, config, handles, threads
<1>17. CASE Reclaim(t)
  BY <1>a, <1>b, <1>c, <1>d, <1>e, <1>f, <1>17, SMTT(30) DEF Reclaim, IsNext,
     DetachAndClaim, Bound, TakeResult, Usbfs, Had, Claimed, Unlock, Return,
     LoopEnds, device, config, handles
<1>18. CASE UserGetDriver(t)
  BY <1>a, <1>b, <1>c, <1>d, <1>e, <1>f, <1>18, SMTT(30) DEF UserGetDriver,
     Usbfs, Return, device, config, handles, threads, history
<1>19. CASE UserDisconnect(t)
  BY <1>a, <1>b, <1>c, <1>d, <1>e, <1>f, <1>19, SMTT(30) DEF UserDisconnect,
     Return, device, config, handles, threads, history
<1>20. CASE UserAttach(t)
  BY <1>a, <1>b, <1>c, <1>d, <1>e, <1>f, <1>20, SMTT(30) DEF UserAttach,
     Return, device, config, handles, threads
<1>21. CASE SetAuto(t)
  BY <1>a, <1>b, <1>c, <1>d, <1>e, <1>f, <1>21, SMTT(30) DEF SetAuto, Begin,
     device, config, handles
<1>22. CASE SetConfiguration(t)
  BY <1>a, <1>b, <1>c, <1>d, <1>e, <1>f, <1>22, SMTT(30) DEF SetConfiguration,
     Begin, Value, Return, device, handles, history
<1>23. CASE GetConfiguration(t)
  BY <1>a, <1>b, <1>c, <1>d, <1>e, <1>f, <1>23, SMTT(30) DEF GetConfiguration,
     Begin, Value, Return, device, config, handles, history
<1>24. CASE CacheConfig(t)
  BY <1>a, <1>b, <1>c, <1>d, <1>e, <1>f, <1>24, SMTT(30) DEF CacheConfig,
     Return, device, handles, threads, history
<1>25. CASE Open(t)
  <2>0. PICK g \in Handles :
          /\ fd[g] = "none" /\ fds[g] = "closed" /\ pc[t] = "idle"
          /\ \/ /\ fd' = [fd EXCEPT ![g] = "own"]
                /\ fds' = [fds EXCEPT ![g] = "library"]
                /\ claimed' = [claimed EXCEPT ![g] = {}]
                /\ vouched' = [vouched EXCEPT ![g] = TRUE]
             \/ UNCHANGED <<fd, fds, claimed, vouched>>
          /\ pc' = [pc EXCEPT ![t] = "idle"]
          /\ UNCHANGED <<owner, job, at>>
    BY <1>25, OpenEffect
  <2>1. UNCHANGED <<owner, job, at>> /\ pc'[t] = "idle" /\ pc[t] = "idle"
    BY <1>b, <2>0
  <2>2. i \in claimed[h] /\ fd[h] # "none" /\ vouched[h]
    BY <1>b, <2>0
  <2> QED
    BY <2>1, <2>2
<1>26. CASE Wrap(t)
  BY <1>a, <1>b, <1>c, <1>d, <1>e, <1>f, <1>26, SMTT(30) DEF Wrap, Begin,
     Fresh, Return, device, config
<1>27. CASE Close(t)
  BY <1>a, <1>b, <1>c, <1>d, <1>e, <1>f, <1>27, SMTT(30) DEF Close, Begin,
     CloseFd, Dropped, Return, device, config
<1> QED
  BY <1>1, <1>2, <1>3, <1>4, <1>5, <1>6, <1>7, <1>8, <1>9, <1>10, <1>11,
     <1>12, <1>13, <1>14, <1>15, <1>16, <1>17, <1>18, <1>19, <1>20, <1>21,
     <1>22, <1>23, <1>24, <1>25, <1>26, <1>27
  DEF Step

(***************************************************************************)
(* An interface that the kernel holds for a handle is in its mask.         *)
(***************************************************************************)
LEMMA OwnBound ==
  ASSUME ClaimsAssumption, Typed, Calls, Descriptors, NotBound, Masked, Keeping,
         NEW t \in Threads, Step(t), NEW i \in Ifaces, owner'[i] \in Handles
  PROVE  i \in claimed'[owner'[i]]
<1>a. /\ job[t] \in Job /\ H(t) \in Handles /\ I(t) \in Ifaces
      /\ at[t] \in 1 .. N + 1 /\ CallOf(t)
  BY DEF Typed, H, I, Job, Calls
<1>b. /\ pc \in [Threads -> PCs] /\ job \in [Threads -> Job]
      /\ at \in [Threads -> 1 .. N + 1] /\ claimed \in [Handles -> SUBSET Ifaces]
      /\ owner \in [Ifaces -> {"none", "driver"} \cup Usbfs]
      /\ fd \in [Handles -> {"none", "own", "kept"}]
      /\ vouched \in [Handles -> BOOLEAN]
  BY DEF Typed
<1>c. NotBoundOf(t)
  BY DEF NotBound
<1>d. \A j \in Ifaces : owner[j] \in Handles => j \in claimed[owner[j]]
  BY DEF Masked
<1>e. /\ \A g \in Handles :
           /\ fd[g] = "own" <=> fds[g] = "library"
           /\ fd[g] = "kept" => fds[g] = "user"
      /\ \A j \in Ifaces : owner[j] \in Handles => fds[owner[j]] # "closed"
  BY DEF Descriptors
<1>f. /\ Handles \cap {"none", "driver", "other"} = {}
      /\ Ifaces \subseteq Int /\ N \in Int
  BY DEF ClaimsAssumption, Ifaces
<1> USE DEF Asking, H, I, NotBoundOf, CallOf
<1>1. CASE Enter(t)
  BY <1>a, <1>b, <1>c, <1>d, <1>e, <1>f, <1>1, SMTT(30) DEF Enter, Begin,
     FirstStep, device, config, handles, history
<1>2. CASE EnterRelease(t)
  BY <1>a, <1>b, <1>c, <1>d, <1>e, <1>f, <1>2, SMTT(30) DEF EnterRelease,
     Begin, device, config, handles, history
<1>3. CASE EnterGone(t)
  BY <1>a, <1>b, <1>c, <1>d, <1>e, <1>f, <1>3, SMTT(30) DEF EnterGone, Begin,
     Return, device, config, handles, history
<1>4. CASE AltGone(t)
  BY <1>a, <1>b, <1>c, <1>d, <1>e, <1>f, <1>4, SMTT(30) DEF AltGone, Begin,
     Return, device, config, handles, history
<1>5. CASE Lock(t)
  BY <1>a, <1>b, <1>c, <1>d, <1>e, <1>f, <1>5, SMTT(30) DEF Lock, device,
     config, handles, threads, history
<1>6. CASE Claim(t)
  <2>1. CASE UNCHANGED <<owner, claimed>>
    BY <2>1, <1>d
  <2>2. ASSUME NEW r, Binds(t, I(t), r), pc[t] = "claim" PROVE i \in claimed'[owner'[i]]
    BY <1>a, <1>d, <2>2, BindsClaims
  <2> QED
    BY <1>6, <1>a, <2>1, <2>2, ClaimEffect DEF Asks
<1>7. CASE GetDriver(t)
  BY <1>a, <1>b, <1>c, <1>d, <1>e, <1>f, <1>7, SMTT(30) DEF GetDriver, Here,
     Usbfs, device, config, handles, threads, history
<1>8. CASE ClaimDisconnect(t)
  BY <1>a, <1>b, <1>c, <1>d, <1>e, <1>f, <1>8, SMTT(30) DEF ClaimDisconnect,
     Disconnected, Had, Here, Claimed, Unlock, Return, device, config, handles
<1>9. CASE Bind(t)
  <2>1. Here(t) \in Ifaces
    BY <1>9, <1>a DEF Here, Bind
  <2>2. owner[Here(t)] # H(t) \/ job[t].op = "claim"
    BY <1>9, <1>a, <1>c, <1>f, <2>1, SMTT(30) DEF Here, Bind
  <2>3. Binds(t, Here(t), BindResult(H(t), Here(t))) /\ pc[t] # "reclaim"
    <3>1. /\ Bound(Here(t), H(t), BindResult(H(t), Here(t)))
          /\ Claimed(t, Here(t), BindResult(H(t), Here(t))) /\ pc[t] = "bind"
      BY <1>9 DEF Bind
    <3> QED
      BY <1>a, <2>1, <3>1, BindEffect
  <2>4. job[t].op # "claim" => Here(t) \in claimed[H(t)]
    BY <1>9, <1>a, <1>c, SMTT(30) DEF Here, Bind
  <2> QED
    BY <1>a, <1>d, <2>1, <2>2, <2>3, <2>4, BindsClaims
<1>10. CASE Release(t)
  BY <1>a, <1>b, <1>c, <1>d, <1>e, <1>f, <1>10, SMTT(30) DEF Release,
     UnbindResult, Unlock, Return, Bound, device, config, handles, threads,
     history
<1>11. CASE Reattach(t)
  BY <1>a, <1>b, <1>c, <1>d, <1>e, <1>f, <1>11, SMTT(30) DEF Reattach, Unlock,
     Return, device, config, handles, threads
<1>12. CASE AltChecked(t)
  BY <1>a, <1>b, <1>c, <1>d, <1>e, <1>f, <1>12, SMTT(30) DEF AltChecked,
     Unlock, Return, device, config, handles, threads, history
<1>13. CASE SetAlt(t)
  BY <1>a, <1>b, <1>c, <1>d, <1>e, <1>f, <1>13, SMTT(30) DEF SetAlt, Return,
     UnbindResult, device, config, handles, threads, history
<1>14. CASE ResetUnbind(t)
  BY <1>a, <1>b, <1>c, <1>d, <1>e, <1>f, <1>14, SMTT(30) DEF ResetUnbind,
     IsNext, Bound, UnbindResult, LoopEnds, device, config, handles, history
<1>15. CASE ResetDone(t)
  BY <1>a, <1>b, <1>c, <1>d, <1>e, <1>f, <1>15, SMTT(30) DEF ResetDone, Usbfs,
     device, config, handles
<1>16. CASE ResetFailed(t)
  BY <1>a, <1>b, <1>c, <1>d, <1>e, <1>f, <1>16, SMTT(30) DEF ResetFailed,
     Return, Unlock, device, config, handles, threads
<1>17. CASE Reclaim(t)
  <2>1. CASE UNCHANGED <<owner, claimed>>
    BY <2>1, <1>d
  <2>2. ASSUME NEW j \in Ifaces, NEW r, IsNext(j, t), Binds(t, j, r), pc[t] = "reclaim"
        PROVE  i \in claimed'[owner'[i]]
    <3>1. owner[j] # H(t)
      BY <1>a, <1>c, <2>2 DEF IsNext
    <3> QED
      BY <1>a, <1>d, <2>2, <3>1, BindsClaims DEF IsNext
  <2> QED
    BY <1>17, <1>a, <2>1, <2>2, ReclaimEffect DEF Asks
<1>18. CASE UserGetDriver(t)
  BY <1>a, <1>b, <1>c, <1>d, <1>e, <1>f, <1>18, SMTT(30) DEF UserGetDriver,
     Usbfs, Return, device, config, handles, threads, history
<1>19. CASE UserDisconnect(t)
  BY <1>a, <1>b, <1>c, <1>d, <1>e, <1>f, <1>19, SMTT(30) DEF UserDisconnect,
     Return, device, config, handles, threads, history
<1>20. CASE UserAttach(t)
  BY <1>a, <1>b, <1>c, <1>d, <1>e, <1>f, <1>20, SMTT(30) DEF UserAttach,
     Return, device, config, handles, threads
<1>21. CASE SetAuto(t)
  BY <1>a, <1>b, <1>c, <1>d, <1>e, <1>f, <1>21, SMTT(30) DEF SetAuto, Begin,
     device, config, handles
<1>22. CASE SetConfiguration(t)
  BY <1>a, <1>b, <1>c, <1>d, <1>e, <1>f, <1>22, SMTT(30) DEF SetConfiguration,
     Begin, Value, Return, device, handles, history
<1>23. CASE GetConfiguration(t)
  BY <1>a, <1>b, <1>c, <1>d, <1>e, <1>f, <1>23, SMTT(30) DEF GetConfiguration,
     Begin, Value, Return, device, config, handles, history
<1>24. CASE CacheConfig(t)
  BY <1>a, <1>b, <1>c, <1>d, <1>e, <1>f, <1>24, SMTT(30) DEF CacheConfig,
     Return, device, handles, threads, history
<1>25. CASE Open(t)
  <2>0. PICK g \in Handles :
          /\ fd[g] = "none" /\ fds[g] = "closed" /\ pc[t] = "idle"
          /\ \/ /\ fd' = [fd EXCEPT ![g] = "own"]
                /\ fds' = [fds EXCEPT ![g] = "library"]
                /\ claimed' = [claimed EXCEPT ![g] = {}]
                /\ vouched' = [vouched EXCEPT ![g] = TRUE]
             \/ UNCHANGED <<fd, fds, claimed, vouched>>
          /\ pc' = [pc EXCEPT ![t] = "idle"]
          /\ UNCHANGED <<owner, job, at>>
    BY <1>25, OpenEffect
  <2>1. /\ owner' = owner
        /\ claimed'[owner[i]] = claimed[owner[i]] \/ fds[owner[i]] = "closed"
    BY <1>b, <2>0
  <2> QED
    BY <1>d, <1>e, <2>1
<1>26. CASE Wrap(t)
  BY <1>a, <1>b, <1>c, <1>d, <1>e, <1>f, <1>26, SMTT(30) DEF Wrap, Begin,
     Fresh, Return, device, config
<1>27. CASE Close(t)
  BY <1>a, <1>b, <1>c, <1>d, <1>e, <1>f, <1>27, SMTT(30) DEF Close, Begin,
     CloseFd, Dropped, Return, device, config
<1> QED
  BY <1>1, <1>2, <1>3, <1>4, <1>5, <1>6, <1>7, <1>8, <1>9, <1>10, <1>11,
     <1>12, <1>13, <1>14, <1>15, <1>16, <1>17, <1>18, <1>19, <1>20, <1>21,
     <1>22, <1>23, <1>24, <1>25, <1>26, <1>27
  DEF Step

(***************************************************************************)
(* What a call is about to bind, or gave up, is not bound to its handle.   *)
(***************************************************************************)
LEMMA OwnNotBound ==
  ASSUME ClaimsAssumption, Typed, Calls, Descriptors, NotBound, Keeping,
         NEW t \in Threads, Step(t)
  PROVE  NotBoundOf(t)'
<1>a. /\ job[t] \in Job /\ H(t) \in Handles /\ I(t) \in Ifaces
      /\ at[t] \in 1 .. N + 1 /\ CallOf(t)
  BY DEF Typed, H, I, Job, Calls
<1>b. /\ pc \in [Threads -> PCs] /\ job \in [Threads -> Job]
      /\ at \in [Threads -> 1 .. N + 1] /\ claimed \in [Handles -> SUBSET Ifaces]
      /\ owner \in [Ifaces -> {"none", "driver"} \cup Usbfs]
      /\ fd \in [Handles -> {"none", "own", "kept"}]
      /\ vouched \in [Handles -> BOOLEAN]
  BY DEF Typed
<1>c. NotBoundOf(t)
  BY DEF NotBound
<1>e. /\ \A g \in Handles :
           /\ fd[g] = "own" <=> fds[g] = "library"
           /\ fd[g] = "kept" => fds[g] = "user"
      /\ \A j \in Ifaces : owner[j] \in Handles => fds[owner[j]] # "closed"
  BY DEF Descriptors
<1>f. /\ Handles \cap {"none", "driver", "other"} = {}
      /\ Ifaces \subseteq Int /\ N \in Int
  BY DEF ClaimsAssumption, Ifaces
<1> USE DEF Asking, H, I, Here, NotBoundOf, CallOf
<1>1. CASE Enter(t)
  BY <1>a, <1>b, <1>c, <1>e, <1>f, <1>1, SMTT(30) DEF Enter, Begin, FirstStep,
     device, config, handles, history
<1>2. CASE EnterRelease(t)
  BY <1>a, <1>b, <1>c, <1>e, <1>f, <1>2, SMTT(30) DEF EnterRelease, Begin,
     device, config, handles, history
<1>3. CASE EnterGone(t)
  BY <1>a, <1>b, <1>c, <1>e, <1>f, <1>3, SMTT(30) DEF EnterGone, Begin,
     Return, device, config, handles, history
<1>4. CASE AltGone(t)
  BY <1>a, <1>b, <1>c, <1>e, <1>f, <1>4, SMTT(30) DEF AltGone, Begin, Return,
     device, config, handles, history
<1>5. CASE Lock(t)
  BY <1>a, <1>b, <1>c, <1>e, <1>f, <1>5, SMTT(30) DEF Lock, device, config,
     handles, threads, history
<1>6. CASE Claim(t)
  BY <1>a, <1>b, <1>c, <1>e, <1>f, <1>6, SMTT(30) DEF Claim, Unlock, Return,
     DetachAndClaim, Bound, TakeResult, Usbfs, Had, Claimed, BindResult,
     device, config, handles
<1>7. CASE GetDriver(t)
  BY <1>a, <1>b, <1>c, <1>e, <1>f, <1>7, SMTT(30) DEF GetDriver, Usbfs,
     device, config, handles, threads, history
<1>8. CASE ClaimDisconnect(t)
  BY <1>a, <1>b, <1>c, <1>e, <1>f, <1>8, SMTT(30) DEF ClaimDisconnect,
     Disconnected, Had, Claimed, Unlock, Return, device, config, handles
<1>9. CASE Bind(t)
  BY <1>a, <1>b, <1>c, <1>e, <1>f, <1>9, SMTT(30) DEF Bind, BindResult, Bound,
     Claimed, Unlock, Return, device, config, handles, history
<1>10. CASE Release(t)
  BY <1>a, <1>b, <1>c, <1>e, <1>f, <1>10, SMTT(30) DEF Release, UnbindResult,
     Unlock, Return, Bound, device, config, handles, threads, history
<1>11. CASE Reattach(t)
  BY <1>a, <1>b, <1>c, <1>e, <1>f, <1>11, SMTT(30) DEF Reattach, Unlock,
     Return, device, config, handles, threads
<1>12. CASE AltChecked(t)
  BY <1>a, <1>b, <1>c, <1>e, <1>f, <1>12, SMTT(30) DEF AltChecked, Unlock,
     Return, device, config, handles, threads, history
<1>13. CASE SetAlt(t)
  BY <1>a, <1>b, <1>c, <1>e, <1>f, <1>13, SMTT(30) DEF SetAlt, Return,
     UnbindResult, device, config, handles, threads, history
<1>14. CASE ResetUnbind(t)
  BY <1>a, <1>b, <1>c, <1>e, <1>f, <1>14, SMTT(30) DEF ResetUnbind, IsNext,
     Bound, UnbindResult, LoopEnds, device, config, handles, history
<1>15. CASE ResetDone(t)
  BY <1>a, <1>b, <1>c, <1>e, <1>f, <1>15, SMTT(30) DEF ResetDone, Usbfs,
     device, config, handles
<1>16. CASE ResetFailed(t)
  BY <1>a, <1>b, <1>c, <1>e, <1>f, <1>16, SMTT(30) DEF ResetFailed, Return,
     Unlock, device, config, handles, threads
<1>17. CASE Reclaim(t)
  BY <1>a, <1>b, <1>c, <1>e, <1>f, <1>17, SMTT(30) DEF Reclaim, IsNext,
     DetachAndClaim, Bound, TakeResult, Usbfs, Had, Claimed, Unlock, Return,
     LoopEnds, device, config, handles
<1>18. CASE UserGetDriver(t)
  BY <1>a, <1>b, <1>c, <1>e, <1>f, <1>18, SMTT(30) DEF UserGetDriver, Usbfs,
     Return, device, config, handles, threads, history
<1>19. CASE UserDisconnect(t)
  BY <1>a, <1>b, <1>c, <1>e, <1>f, <1>19, SMTT(30) DEF UserDisconnect, Return,
     device, config, handles, threads, history
<1>20. CASE UserAttach(t)
  BY <1>a, <1>b, <1>c, <1>e, <1>f, <1>20, SMTT(30) DEF UserAttach, Return,
     device, config, handles, threads
<1>21. CASE SetAuto(t)
  BY <1>a, <1>b, <1>c, <1>e, <1>f, <1>21, SMTT(30) DEF SetAuto, Begin, device,
     config, handles
<1>22. CASE SetConfiguration(t)
  BY <1>a, <1>b, <1>c, <1>e, <1>f, <1>22, SMTT(30) DEF SetConfiguration,
     Begin, Value, Return, device, handles, history
<1>23. CASE GetConfiguration(t)
  BY <1>a, <1>b, <1>c, <1>e, <1>f, <1>23, SMTT(30) DEF GetConfiguration,
     Begin, Value, Return, device, config, handles, history
<1>24. CASE CacheConfig(t)
  BY <1>a, <1>b, <1>c, <1>e, <1>f, <1>24, SMTT(30) DEF CacheConfig, Return,
     device, handles, threads, history
<1>25. CASE Open(t)
  <2>1. pc'[t] = "idle"
    BY <1>25, <1>b, OpenEffect
  <2> QED
    BY <2>1
<1>26. CASE Wrap(t)
  BY <1>a, <1>b, <1>c, <1>e, <1>f, <1>26, SMTT(30) DEF Wrap, Begin, Fresh,
     Return, device, config
<1>27. CASE Close(t)
  BY <1>a, <1>b, <1>c, <1>e, <1>f, <1>27, SMTT(30) DEF Close, Begin, CloseFd,
     Dropped, Return, device, config
<1> QED
  BY <1>1, <1>2, <1>3, <1>4, <1>5, <1>6, <1>7, <1>8, <1>9, <1>10, <1>11,
     <1>12, <1>13, <1>14, <1>15, <1>16, <1>17, <1>18, <1>19, <1>20, <1>21,
     <1>22, <1>23, <1>24, <1>25, <1>26, <1>27
  DEF Step

(***************************************************************************)
(* A handle and its descriptor are opened and closed together.             *)
(***************************************************************************)
LEMMA OwnDescriptors ==
  ASSUME ClaimsAssumption, Typed, Calls, Descriptors, NEW t \in Threads, Step(t)
  PROVE  Descriptors'
<1>a. /\ job[t] \in Job /\ H(t) \in Handles /\ I(t) \in Ifaces
      /\ at[t] \in 1 .. N + 1 /\ CallOf(t)
  BY DEF Typed, H, I, Job, Calls
<1>b. /\ pc \in [Threads -> PCs] /\ job \in [Threads -> Job]
      /\ at \in [Threads -> 1 .. N + 1] /\ claimed \in [Handles -> SUBSET Ifaces]
      /\ owner \in [Ifaces -> {"none", "driver"} \cup Usbfs]
      /\ fd \in [Handles -> {"none", "own", "kept"}]
      /\ fds \in [Handles -> {"closed", "library", "user"}]
      /\ vouched \in [Handles -> BOOLEAN]
  BY DEF Typed
<1>c. Here(t) \in Ifaces \/ pc[t] \notin Asking
  BY <1>a DEF Here, CallOf
<1>d. had \subseteq Ifaces /\ Handles \cap {"none", "driver", "other"} = {}
  BY DEF Typed, ClaimsAssumption
<1> USE DEF Descriptors, Asking, CallOf
<1>1. CASE Enter(t)
  BY <1>a, <1>b, <1>c, <1>d, <1>1, SMTT(30) DEF Enter, Begin, FirstStep,
     device, config, handles, history
<1>2. CASE EnterRelease(t)
  BY <1>a, <1>b, <1>c, <1>d, <1>2, SMTT(30) DEF EnterRelease, Begin, device,
     config, handles, history
<1>3. CASE EnterGone(t)
  BY <1>a, <1>b, <1>c, <1>d, <1>3, SMTT(30) DEF EnterGone, Begin, Return,
     device, config, handles, history
<1>4. CASE AltGone(t)
  BY <1>a, <1>b, <1>c, <1>d, <1>4, SMTT(30) DEF AltGone, Begin, Return,
     device, config, handles, history
<1>5. CASE Lock(t)
  BY <1>a, <1>b, <1>c, <1>d, <1>5, SMTT(30) DEF Lock, H, device, config,
     handles, threads, history
<1>6. CASE Claim(t)
  BY <1>a, <1>b, <1>c, <1>d, <1>6, SMTT(30) DEF Claim, H, Unlock, Return,
     DetachAndClaim, Bound, TakeResult, Usbfs, Had, Claimed, BindResult,
     device, config, handles
<1>7. CASE GetDriver(t)
  BY <1>a, <1>b, <1>c, <1>d, <1>7, SMTT(30) DEF GetDriver, Usbfs, device,
     config, handles, threads, history
<1>8. CASE ClaimDisconnect(t)
  BY <1>a, <1>b, <1>c, <1>d, <1>8, SMTT(30) DEF ClaimDisconnect, Disconnected,
     Had, H, Claimed, Unlock, Return, device, config, handles
<1>9. CASE Bind(t)
  BY <1>a, <1>b, <1>c, <1>d, <1>9, SMTT(30) DEF Bind, BindResult, H, Bound,
     Claimed, Unlock, Return, device, config, handles, history
<1>10. CASE Release(t)
  BY <1>a, <1>b, <1>c, <1>d, <1>10, SMTT(30) DEF Release, UnbindResult, H,
     Unlock, Return, Bound, device, config, handles, threads, history
<1>11. CASE Reattach(t)
  BY <1>a, <1>b, <1>c, <1>d, <1>11, SMTT(30) DEF Reattach, H, Unlock, Return,
     device, config, handles, threads
<1>12. CASE AltChecked(t)
  BY <1>a, <1>b, <1>c, <1>d, <1>12, SMTT(30) DEF AltChecked, Unlock, H,
     Return, device, config, handles, threads, history
<1>13. CASE SetAlt(t)
  BY <1>a, <1>b, <1>c, <1>d, <1>13, SMTT(30) DEF SetAlt, Return, UnbindResult,
     H, device, config, handles, threads, history
<1>14. CASE ResetUnbind(t)
  BY <1>a, <1>b, <1>c, <1>d, <1>14, SMTT(30) DEF ResetUnbind, IsNext, H,
     Bound, UnbindResult, LoopEnds, device, config, handles, history
<1>15. CASE ResetDone(t)
  BY <1>a, <1>b, <1>c, <1>d, <1>15, SMTT(30) DEF ResetDone, Usbfs, H, device,
     config, handles
<1>16. CASE ResetFailed(t)
  BY <1>a, <1>b, <1>c, <1>d, <1>16, SMTT(30) DEF ResetFailed, Return, Unlock,
     H, device, config, handles, threads
<1>17. CASE Reclaim(t)
  BY <1>a, <1>b, <1>c, <1>d, <1>17, SMTT(30) DEF Reclaim, IsNext, H,
     DetachAndClaim, Bound, TakeResult, Usbfs, Had, Claimed, Unlock, Return,
     LoopEnds, device, config, handles
<1>18. CASE UserGetDriver(t)
  BY <1>a, <1>b, <1>c, <1>d, <1>18, SMTT(30) DEF UserGetDriver, Usbfs, Return,
     device, config, handles, threads, history
<1>19. CASE UserDisconnect(t)
  BY <1>a, <1>b, <1>c, <1>d, <1>19, SMTT(30) DEF UserDisconnect, Return,
     device, config, handles, threads, history
<1>20. CASE UserAttach(t)
  BY <1>a, <1>b, <1>c, <1>d, <1>20, SMTT(30) DEF UserAttach, Return, device,
     config, handles, threads
<1>21. CASE SetAuto(t)
  BY <1>a, <1>b, <1>c, <1>d, <1>21, SMTT(30) DEF SetAuto, Begin, H, device,
     config, handles
<1>22. CASE SetConfiguration(t)
  BY <1>a, <1>b, <1>c, <1>d, <1>22, SMTT(30) DEF SetConfiguration, Begin,
     Return, device, handles, history
<1>23. CASE GetConfiguration(t)
  BY <1>a, <1>b, <1>c, <1>d, <1>23, SMTT(30) DEF GetConfiguration, Begin,
     Return, device, config, handles, history
<1>24. CASE CacheConfig(t)
  BY <1>a, <1>b, <1>c, <1>d, <1>24, SMTT(30) DEF CacheConfig, Return, device,
     handles, threads, history
<1>25. CASE Open(t)
  <2>0. PICK g \in Handles :
          /\ fd[g] = "none" /\ fds[g] = "closed" /\ pc[t] = "idle" /\ "open" \in Ops
          /\ \/ /\ present /\ fd' = [fd EXCEPT ![g] = "own"]
                /\ fds' = [fds EXCEPT ![g] = "library"]
                /\ claimed' = [claimed EXCEPT ![g] = {}]
             \/ UNCHANGED <<fd, fds, claimed>>
          /\ pc' = [pc EXCEPT ![t] = "idle"]
          /\ UNCHANGED <<present, owner, active, cached, job, at, val, had>>
    BY <1>25, OpenEffect
  <2> QED
    BY <1>b, <2>0
<1>26. CASE Wrap(t)
  BY <1>a, <1>b, <1>c, <1>d, <1>26, SMTT(30) DEF Wrap, Begin, Fresh, Return,
     device, config
<1>27. CASE Close(t)
  BY <1>a, <1>b, <1>c, <1>d, <1>27, SMTT(30) DEF Close, Begin, H, CloseFd,
     Dropped, Return, device, config
<1> QED
  BY <1>1, <1>2, <1>3, <1>4, <1>5, <1>6, <1>7, <1>8, <1>9, <1>10, <1>11,
     <1>12, <1>13, <1>14, <1>15, <1>16, <1>17, <1>18, <1>19, <1>20, <1>21,
     <1>22, <1>23, <1>24, <1>25, <1>26, <1>27
  DEF Step

(***************************************************************************)
(* The library does not close a descriptor that is the user's.             *)
(***************************************************************************)
LEMMA KeptStays ==
  ASSUME Typed, Descriptors, NEW t \in Threads, Step(t), NEW h \in Handles, fds[h] = "user"
  PROVE  fds'[h] = "user"
<1>b. /\ fd \in [Handles -> {"none", "own", "kept"}] /\ fd[h] # "own"
      /\ fds \in [Handles -> {"closed", "library", "user"}]
  BY DEF Typed, Descriptors
<1>1. CASE Enter(t)
  BY <1>b, <1>1, SMTT(30) DEF Enter, Begin, handles
<1>2. CASE EnterRelease(t)
  BY <1>b, <1>2, SMTT(30) DEF EnterRelease, Begin, handles
<1>3. CASE EnterGone(t)
  BY <1>b, <1>3, SMTT(30) DEF EnterGone, Begin, handles
<1>4. CASE AltGone(t)
  BY <1>b, <1>4, SMTT(30) DEF AltGone, Begin, handles
<1>5. CASE Lock(t)
  BY <1>b, <1>5, SMTT(30) DEF Lock, handles
<1>6. CASE Claim(t)
  BY <1>b, <1>6, SMTT(30) DEF Claim, handles
<1>7. CASE GetDriver(t)
  BY <1>b, <1>7, SMTT(30) DEF GetDriver, handles
<1>8. CASE ClaimDisconnect(t)
  BY <1>b, <1>8, SMTT(30) DEF ClaimDisconnect, handles
<1>9. CASE Bind(t)
  BY <1>b, <1>9, SMTT(30) DEF Bind, handles
<1>10. CASE Release(t)
  BY <1>b, <1>10, SMTT(30) DEF Release, handles
<1>11. CASE Reattach(t)
  BY <1>b, <1>11, SMTT(30) DEF Reattach, handles
<1>12. CASE AltChecked(t)
  BY <1>b, <1>12, SMTT(30) DEF AltChecked, handles
<1>13. CASE SetAlt(t)
  BY <1>b, <1>13, SMTT(30) DEF SetAlt, handles
<1>14. CASE ResetUnbind(t)
  BY <1>b, <1>14, SMTT(30) DEF ResetUnbind, handles
<1>15. CASE ResetDone(t)
  BY <1>b, <1>15, SMTT(30) DEF ResetDone, handles
<1>16. CASE ResetFailed(t)
  BY <1>b, <1>16, SMTT(30) DEF ResetFailed, handles
<1>17. CASE Reclaim(t)
  BY <1>b, <1>17, SMTT(30) DEF Reclaim, handles
<1>18. CASE UserGetDriver(t)
  BY <1>b, <1>18, SMTT(30) DEF UserGetDriver, handles
<1>19. CASE UserDisconnect(t)
  BY <1>b, <1>19, SMTT(30) DEF UserDisconnect, handles
<1>20. CASE UserAttach(t)
  BY <1>b, <1>20, SMTT(30) DEF UserAttach, handles
<1>21. CASE SetAuto(t)
  BY <1>b, <1>21, SMTT(30) DEF SetAuto, Begin, handles
<1>22. CASE SetConfiguration(t)
  BY <1>b, <1>22, SMTT(30) DEF SetConfiguration, Begin, handles
<1>23. CASE GetConfiguration(t)
  BY <1>b, <1>23, SMTT(30) DEF GetConfiguration, Begin, handles
<1>24. CASE CacheConfig(t)
  BY <1>b, <1>24, SMTT(30) DEF CacheConfig, handles
<1>25. CASE Open(t)
  <2>0. PICK g \in Handles :
          /\ fd[g] = "none" /\ fds[g] = "closed" /\ pc[t] = "idle" /\ "open" \in Ops
          /\ \/ /\ present /\ fd' = [fd EXCEPT ![g] = "own"]
                /\ fds' = [fds EXCEPT ![g] = "library"]
                /\ claimed' = [claimed EXCEPT ![g] = {}]
             \/ UNCHANGED <<fd, fds, claimed>>
          /\ pc' = [pc EXCEPT ![t] = "idle"]
          /\ UNCHANGED <<present, owner, active, cached, job, at, val, had>>
    BY <1>25, OpenEffect
  <2> QED
    BY <1>b, <2>0
<1>26. CASE Wrap(t)
  BY <1>b, <1>26, SMTT(30) DEF Wrap, Begin, Fresh
<1>27. CASE Close(t)
  BY <1>b, <1>27, SMTT(30) DEF Close, Begin, CloseFd
<1> QED
  BY <1>1, <1>2, <1>3, <1>4, <1>5, <1>6, <1>7, <1>8, <1>9, <1>10, <1>11,
     <1>12, <1>13, <1>14, <1>15, <1>16, <1>17, <1>18, <1>19, <1>20, <1>21,
     <1>22, <1>23, <1>24, <1>25, <1>26, <1>27
  DEF Step

(***************************************************************************)
(* Who is bound through usbfs is unbound by a release, a close or a reset. *)
(***************************************************************************)
LEMMA StepTakes ==
  ASSUME ClaimsAssumption, Typed, Calls, "detach" \notin Ops, DisconnectClaim,
         NEW t \in Threads, Step(t),
         NEW i \in Ifaces, owner[i] \in Usbfs, owner'[i] # owner[i]
  PROVE  \/ pc[t] = "reset"
         \/ pc[t] \in {"release", "unbind"} /\ H(t) = owner[i]
         \/ owner[i] \in Handles /\ fds'[owner[i]] = "closed"
<1>a. /\ job[t] \in Job /\ H(t) \in Handles /\ I(t) \in Ifaces
      /\ at[t] \in 1 .. N + 1 /\ CallOf(t)
  BY DEF Typed, H, I, Job, Calls
<1>b. /\ pc \in [Threads -> PCs] /\ job \in [Threads -> Job]
      /\ at \in [Threads -> 1 .. N + 1] /\ claimed \in [Handles -> SUBSET Ifaces]
      /\ owner \in [Ifaces -> {"none", "driver"} \cup Usbfs]
      /\ fd \in [Handles -> {"none", "own", "kept"}]
      /\ fds \in [Handles -> {"closed", "library", "user"}]
      /\ vouched \in [Handles -> BOOLEAN]
  BY DEF Typed
<1>c. pc[t] \notin {"getdriver", "disconnect", "bind", "user.getdriver", "user.disconnect"}
  BY <1>a DEF CallOf, Asking, Job
<1>d. /\ Handles \cap {"none", "driver", "other"} = {}
      /\ Usbfs = Handles \cup {"other"}
  BY DEF ClaimsAssumption, Usbfs
<1>1. CASE Enter(t)
  BY <1>a, <1>b, <1>c, <1>d, <1>1, SMTT(30) DEF Enter, Begin, FirstStep,
     device, config, handles, history
<1>2. CASE EnterRelease(t)
  BY <1>a, <1>b, <1>c, <1>d, <1>2, SMTT(30) DEF EnterRelease, Begin, device,
     config, handles, history
<1>3. CASE EnterGone(t)
  BY <1>a, <1>b, <1>c, <1>d, <1>3, SMTT(30) DEF EnterGone, Begin, Return,
     device, config, handles, history
<1>4. CASE AltGone(t)
  BY <1>a, <1>b, <1>c, <1>d, <1>4, SMTT(30) DEF AltGone, Begin, Return,
     device, config, handles, history
<1>5. CASE Lock(t)
  BY <1>a, <1>b, <1>c, <1>d, <1>5, SMTT(30) DEF Lock, device, config, handles,
     threads, history
<1>6. CASE Claim(t)
  BY <1>a, <1>b, <1>c, <1>d, <1>6, SMTT(30) DEF Claim, Unlock, Return,
     DetachAndClaim, Bound, TakeResult, Had, Claimed, BindResult, device,
     config, handles
<1>7. CASE GetDriver(t)
  BY <1>a, <1>b, <1>c, <1>d, <1>7, SMTT(30) DEF GetDriver, device, config,
     handles, threads, history
<1>8. CASE ClaimDisconnect(t)
  BY <1>a, <1>b, <1>c, <1>d, <1>8, SMTT(30) DEF ClaimDisconnect, Disconnected,
     Had, Claimed, Unlock, Return, device, config, handles
<1>9. CASE Bind(t)
  BY <1>a, <1>b, <1>c, <1>d, <1>9, SMTT(30) DEF Bind, BindResult, Bound,
     Claimed, Unlock, Return, device, config, handles, history
<1>10. CASE Release(t)
  BY <1>a, <1>b, <1>c, <1>d, <1>10, SMTT(30) DEF Release, UnbindResult,
     Unlock, Return, Bound, device, config, handles, threads, history
<1>11. CASE Reattach(t)
  BY <1>a, <1>b, <1>c, <1>d, <1>11, SMTT(30) DEF Reattach, Unlock, Return,
     device, config, handles, threads
<1>12. CASE AltChecked(t)
  BY <1>a, <1>b, <1>c, <1>d, <1>12, SMTT(30) DEF AltChecked, Unlock, Return,
     device, config, handles, threads, history
<1>13. CASE SetAlt(t)
  BY <1>a, <1>b, <1>c, <1>d, <1>13, SMTT(30) DEF SetAlt, Return, UnbindResult,
     device, config, handles, threads, history
<1>14. CASE ResetUnbind(t)
  BY <1>a, <1>b, <1>c, <1>d, <1>14, SMTT(30) DEF ResetUnbind, IsNext, Bound,
     UnbindResult, LoopEnds, device, config, handles, history
<1>15. CASE ResetDone(t)
  BY <1>a, <1>b, <1>c, <1>d, <1>15, SMTT(30) DEF ResetDone, device, config,
     handles
<1>16. CASE ResetFailed(t)
  BY <1>a, <1>b, <1>c, <1>d, <1>16, SMTT(30) DEF ResetFailed, Return, Unlock,
     device, config, handles, threads
<1>17. CASE Reclaim(t)
  BY <1>a, <1>b, <1>c, <1>d, <1>17, SMTT(30) DEF Reclaim, IsNext,
     DetachAndClaim, Bound, TakeResult, Had, Claimed, Unlock, Return,
     LoopEnds, device, config, handles
<1>18. CASE UserGetDriver(t)
  BY <1>a, <1>b, <1>c, <1>d, <1>18, SMTT(30) DEF UserGetDriver, Return,
     device, config, handles, threads, history
<1>19. CASE UserDisconnect(t)
  BY <1>a, <1>b, <1>c, <1>d, <1>19, SMTT(30) DEF UserDisconnect, Return,
     device, config, handles, threads, history
<1>20. CASE UserAttach(t)
  BY <1>a, <1>b, <1>c, <1>d, <1>20, SMTT(30) DEF UserAttach, Return, device,
     config, handles, threads
<1>21. CASE SetAuto(t)
  BY <1>a, <1>b, <1>c, <1>d, <1>21, SMTT(30) DEF SetAuto, Begin, device,
     config, handles
<1>22. CASE SetConfiguration(t)
  BY <1>a, <1>b, <1>c, <1>d, <1>22, SMTT(30) DEF SetConfiguration, Begin,
     Return, device, handles, history
<1>23. CASE GetConfiguration(t)
  BY <1>a, <1>b, <1>c, <1>d, <1>23, SMTT(30) DEF GetConfiguration, Begin,
     Return, device, config, handles, history
<1>24. CASE CacheConfig(t)
  BY <1>a, <1>b, <1>c, <1>d, <1>24, SMTT(30) DEF CacheConfig, Return, device,
     handles, threads, history
<1>25. CASE Open(t)
  <2>0. PICK g \in Handles :
          /\ fd[g] = "none" /\ fds[g] = "closed" /\ pc[t] = "idle" /\ "open" \in Ops
          /\ \/ /\ present /\ fd' = [fd EXCEPT ![g] = "own"]
                /\ fds' = [fds EXCEPT ![g] = "library"]
                /\ claimed' = [claimed EXCEPT ![g] = {}]
             \/ UNCHANGED <<fd, fds, claimed>>
          /\ pc' = [pc EXCEPT ![t] = "idle"]
          /\ UNCHANGED <<present, owner, active, cached, job, at, val, had>>
    BY <1>25, OpenEffect
  <2> QED
    BY <2>0
<1>26. CASE Wrap(t)
  BY <1>a, <1>b, <1>c, <1>d, <1>26, SMTT(30) DEF Wrap, Begin, Fresh, Return,
     device, config
<1>27. CASE Close(t)
  BY <1>a, <1>b, <1>c, <1>d, <1>27, SMTT(30) DEF Close, Begin, CloseFd,
     Dropped, Return, device, config
<1> QED
  BY <1>1, <1>2, <1>3, <1>4, <1>5, <1>6, <1>7, <1>8, <1>9, <1>10, <1>11,
     <1>12, <1>13, <1>14, <1>15, <1>16, <1>17, <1>18, <1>19, <1>20, <1>21,
     <1>22, <1>23, <1>24, <1>25, <1>26, <1>27
  DEF Step

(***************************************************************************)
(* A value that is to be cached was read from the device, or written to    *)
(* it.                                                                     *)
(***************************************************************************)
LEMMA CacheEffect ==
  ASSUME Typed, Calls, NEW t \in Threads, Step(t)
  PROVE  \/ /\ UNCHANGED <<active, cached>> /\ (pc[t] = "cache" <=> pc'[t] = "cache")
            /\ pc'[t] = "cache" => val'[t] = val[t]
         \/ /\ pc[t] = "cache" /\ pc'[t] = "idle" /\ cached' = val[t] /\ active' = active
         \/ /\ pc[t] = "idle" /\ pc'[t] = "cache" /\ val'[t] = Value(active')
            /\ cached' = cached /\ (active' = active \/ "set" \in Ops)
<1>b. pc \in [Threads -> PCs] /\ val \in [Threads -> Configs \cup {-1}]
  BY DEF Typed
<1>l. pc[t] = "lock" => job[t].op # "cache"
  BY DEF Calls, CallOf
<1>1. CASE Enter(t)
  BY <1>b, <1>1, SMTT(30) DEF Enter, Begin, FirstStep, device, config,
     handles, history
<1>2. CASE EnterRelease(t)
  BY <1>b, <1>2, SMTT(30) DEF EnterRelease, Begin, device, config, handles,
     history
<1>3. CASE EnterGone(t)
  BY <1>b, <1>3, SMTT(30) DEF EnterGone, Begin, Return, device, config,
     handles, history
<1>4. CASE AltGone(t)
  BY <1>b, <1>4, SMTT(30) DEF AltGone, Begin, Return, device, config, handles,
     history
<1>5. CASE Lock(t)
  <2>1. pc[t] = "lock" /\ pc'[t] = job[t].op /\ UNCHANGED <<active, cached>>
    BY <1>5, <1>b DEF Lock, config
  <2> QED
    BY <2>1, <1>l
<1>6. CASE Claim(t)
  BY <1>b, <1>6, SMTT(30) DEF Claim, I, H, Unlock, Return, DetachAndClaim,
     Bound, TakeResult, Usbfs, Had, Claimed, BindResult, device, config,
     handles
<1>7. CASE GetDriver(t)
  BY <1>b, <1>7, SMTT(30) DEF GetDriver, Here, I, Usbfs, device, config,
     handles, threads, history
<1>8. CASE ClaimDisconnect(t)
  BY <1>b, <1>8, SMTT(30) DEF ClaimDisconnect, Disconnected, Had, H, Here, I,
     Claimed, Unlock, Return, device, config, handles
<1>9. CASE Bind(t)
  BY <1>b, <1>9, SMTT(30) DEF Bind, BindResult, H, Here, I, Bound, Claimed,
     Unlock, Return, device, config, handles, history
<1>10. CASE Release(t)
  BY <1>b, <1>10, SMTT(30) DEF Release, I, UnbindResult, H, Unlock, Return,
     Bound, device, config, handles, threads, history
<1>11. CASE Reattach(t)
  BY <1>b, <1>11, SMTT(30) DEF Reattach, I, H, Unlock, Return, device, config,
     handles, threads
<1>12. CASE AltChecked(t)
  BY <1>b, <1>12, SMTT(30) DEF AltChecked, Unlock, H, I, Return, device,
     config, handles, threads, history
<1>13. CASE SetAlt(t)
  BY <1>b, <1>13, SMTT(30) DEF SetAlt, Return, UnbindResult, H, I, device,
     config, handles, threads, history
<1>14. CASE ResetUnbind(t)
  BY <1>b, <1>14, SMTT(30) DEF ResetUnbind, IsNext, H, Bound, UnbindResult,
     LoopEnds, device, config, handles, history
<1>15. CASE ResetDone(t)
  BY <1>b, <1>15, SMTT(30) DEF ResetDone, Usbfs, H, device, config, handles
<1>16. CASE ResetFailed(t)
  BY <1>b, <1>16, SMTT(30) DEF ResetFailed, Return, Unlock, H, device, config,
     handles, threads
<1>17. CASE Reclaim(t)
  BY <1>b, <1>17, SMTT(30) DEF Reclaim, IsNext, H, DetachAndClaim, Bound,
     TakeResult, Usbfs, Had, Claimed, Unlock, Return, LoopEnds, device,
     config, handles
<1>18. CASE UserGetDriver(t)
  BY <1>b, <1>18, SMTT(30) DEF UserGetDriver, I, Usbfs, Return, device,
     config, handles, threads, history
<1>19. CASE UserDisconnect(t)
  BY <1>b, <1>19, SMTT(30) DEF UserDisconnect, I, Return, device, config,
     handles, threads, history
<1>20. CASE UserAttach(t)
  BY <1>b, <1>20, SMTT(30) DEF UserAttach, I, Return, device, config, handles,
     threads
<1>21. CASE SetAuto(t)
  BY <1>b, <1>21, SMTT(30) DEF SetAuto, Begin, H, device, config, handles
<1>22. CASE SetConfiguration(t)
  BY <1>b, <1>22, SMTT(30) DEF SetConfiguration, Begin, Return, device,
     handles, history
<1>23. CASE GetConfiguration(t)
  <2>1. PICK h \in Handles :
          /\ pc[t] = "idle" /\ UNCHANGED <<active, cached>>
          /\ pc' = [pc EXCEPT ![t] = IF present THEN "cache" ELSE "idle"]
          /\ val' = [val EXCEPT ![t] = IF present THEN Value(active) ELSE val[t]]
    BY <1>23, GetEffect
  <2> QED
    BY <1>b, <2>1
<1>24. CASE CacheConfig(t)
  BY <1>b, <1>24, SMTT(30) DEF CacheConfig, Return, device, handles, threads,
     history
<1>25. CASE Open(t)
  <2>0. PICK g \in Handles :
          /\ fd[g] = "none" /\ fds[g] = "closed" /\ pc[t] = "idle" /\ "open" \in Ops
          /\ \/ /\ present /\ fd' = [fd EXCEPT ![g] = "own"]
                /\ fds' = [fds EXCEPT ![g] = "library"]
                /\ claimed' = [claimed EXCEPT ![g] = {}]
             \/ UNCHANGED <<fd, fds, claimed>>
          /\ pc' = [pc EXCEPT ![t] = "idle"]
          /\ UNCHANGED <<present, owner, active, cached, job, at, val, had>>
    BY <1>25, OpenEffect
  <2> QED
    BY <1>b, <2>0
<1>26. CASE Wrap(t)
  BY <1>b, <1>26, SMTT(30) DEF Wrap, Begin, Fresh, Return, device, config
<1>27. CASE Close(t)
  BY <1>b, <1>27, SMTT(30) DEF Close, Begin, H, CloseFd, Dropped, Return,
     device, config
<1> QED
  BY <1>1, <1>2, <1>3, <1>4, <1>5, <1>6, <1>7, <1>8, <1>9, <1>10, <1>11,
     <1>12, <1>13, <1>14, <1>15, <1>16, <1>17, <1>18, <1>19, <1>20, <1>21,
     <1>22, <1>23, <1>24, <1>25, <1>26, <1>27
  DEF Step

(***************************************************************************)
(* Two calls that hold a lock do not use the same handle.                  *)
(***************************************************************************)
LEMMA Exclusive ==
  ASSUME Owns, Locking, NEW t \in Threads, NEW u \in Threads, t # u,
         pc[t] \in Locked, pc[u] \in Locked
  PROVE  H(t) # H(u)
BY DEF Owns

(***************************************************************************)
(* A driver that a call took off, or found taken off, is missing for a     *)
(* claim.                                                                  *)
(***************************************************************************)
LEMMA OwnMissing ==
  ASSUME ClaimsAssumption, Typed, Calls, Descriptors, Owns, NotBound, Masked, Missing, Keeping,
         OneHandle, {"open", "wrap"} \cap Ops = {},
         NEW t \in Threads, Step(t), NEW i \in Ifaces, i \in had', NEW h \in Handles
  PROVE  /\ owner'[i] \in {"none", h} /\ auto'[h]
         /\ fd'[h] # "none" =>
              \/ i \in claimed'[h]
              \/ pc'[t] = "bind" /\ Here(t)' = i
              \/ \E u \in Threads \ {t} : pc[u] = "bind" /\ Here(u) = i
<1>a. /\ job[t] \in Job /\ H(t) \in Handles /\ I(t) \in Ifaces
      /\ at[t] \in 1 .. N + 1 /\ CallOf(t)
  BY DEF Typed, H, I, Job, Calls
<1>b. /\ pc \in [Threads -> PCs] /\ job \in [Threads -> Job]
      /\ at \in [Threads -> 1 .. N + 1] /\ claimed \in [Handles -> SUBSET Ifaces]
      /\ owner \in [Ifaces -> {"none", "driver"} \cup Usbfs]
      /\ fd \in [Handles -> {"none", "own", "kept"}]
      /\ vouched \in [Handles -> BOOLEAN]
  BY DEF Typed
<1>c. NotBoundOf(t)
  BY DEF NotBound
<1>d. H(t) = h /\ \A g \in Handles : g = h
  BY <1>a DEF OneHandle
<1>e. auto \in [Handles -> BOOLEAN] /\ had \subseteq Ifaces
  BY DEF Typed
<1>f. /\ Handles \cap {"none", "driver", "other"} = {}
      /\ Ifaces \subseteq Int /\ N \in Int
  BY DEF ClaimsAssumption, Ifaces
<1>g. i \in had =>
        /\ owner[i] \in {"none", h} /\ auto[h] /\ present
        /\ fd[h] # "none" =>
             \/ i \in claimed[h]
             \/ pc[t] = "bind" /\ Here(t) = i
             \/ \E u \in Threads \ {t} : pc[u] = "bind" /\ Here(u) = i
  BY DEF Missing, Descriptors
<1>h. pc[t] \in Locked => \A u \in Threads \ {t} : pc[u] # "bind"
  BY <1>d, Exclusive DEF Keeping, Locking, OneThread, Locked, OneHandle, Typed, Job, H
<1>i. owner[i] = h => i \in claimed[h]
  BY DEF Masked
<1>j. Here(t) \in Ifaces \/ pc[t] \notin Asking
  BY <1>a DEF Here, CallOf
<1>k. \A u \in Threads \ {t} : pc'[u] = pc[u] /\ Here(u)' = Here(u)
  BY OthersStay DEF Same, Here, I
<1>q. Usbfs = Handles \cup {"other"}
  BY DEF Usbfs
<1> USE DEF Asking, NotBoundOf, CallOf, Locked
<1>1. CASE Enter(t)
  BY <1>a, <1>b, <1>c, <1>d, <1>e, <1>f, <1>g, <1>h, <1>i, <1>j, <1>k, <1>q,
     <1>1, SMTT(30) DEF Enter, Begin, FirstStep, device, config, handles,
     history
<1>2. CASE EnterRelease(t)
  BY <1>a, <1>b, <1>c, <1>d, <1>e, <1>f, <1>g, <1>h, <1>i, <1>j, <1>k, <1>q,
     <1>2, SMTT(30) DEF EnterRelease, Begin, device, config, handles, history
<1>3. CASE EnterGone(t)
  BY <1>a, <1>b, <1>c, <1>d, <1>e, <1>f, <1>g, <1>h, <1>i, <1>j, <1>k, <1>q,
     <1>3, SMTT(30) DEF EnterGone, Begin, Return, device, config, handles,
     history
<1>4. CASE AltGone(t)
  BY <1>a, <1>b, <1>c, <1>d, <1>e, <1>f, <1>g, <1>h, <1>i, <1>j, <1>k, <1>q,
     <1>4, SMTT(30) DEF AltGone, Begin, Return, device, config, handles,
     history
<1>5. CASE Lock(t)
  BY <1>a, <1>b, <1>c, <1>d, <1>e, <1>f, <1>g, <1>h, <1>i, <1>j, <1>k, <1>q,
     <1>5, SMTT(30) DEF Lock, device, config, handles, threads, history
<1>6. CASE Claim(t)
  BY <1>a, <1>b, <1>c, <1>d, <1>e, <1>f, <1>g, <1>h, <1>i, <1>j, <1>k, <1>q,
     <1>6, SMTT(30) DEF Claim, Unlock, Return, DetachAndClaim, Bound,
     TakeResult, Had, Claimed, BindResult, device, config, handles
<1>7. CASE GetDriver(t)
  BY <1>a, <1>b, <1>c, <1>d, <1>e, <1>f, <1>g, <1>h, <1>i, <1>j, <1>k, <1>q,
     <1>7, SMTT(30) DEF GetDriver, Here, device, config, handles, threads,
     history
<1>8. CASE ClaimDisconnect(t)
  <2>1. CASE present
    <3>1. /\ pc[t] = "disconnect" /\ Here(t) \in Ifaces
          /\ UNCHANGED <<job, at, claimed, auto, fd>>
          /\ owner' = [owner EXCEPT ![Here(t)] = "none"] /\ had' = Had(t, Here(t))
          /\ pc'[t] = "bind"
      BY <1>8, <1>b, <1>j, <2>1 DEF ClaimDisconnect, Disconnected, handles, Asking
    <3>2. Here(t)' = Here(t)
      BY <3>1 DEF Here, I
    <3>3. CASE i = Here(t)
      BY <1>b, <1>d, <1>g, <3>1, <3>2, <3>3 DEF Had
    <3>4. CASE i # Here(t)
      BY <1>b, <1>g, <3>1, <3>4 DEF Had
    <3> QED
      BY <3>3, <3>4
  <2>2. CASE ~present
    BY <1>8, <1>g, <2>2 DEF ClaimDisconnect
  <2> QED
    BY <2>1, <2>2
<1>9. CASE Bind(t)
  BY <1>a, <1>b, <1>c, <1>d, <1>e, <1>f, <1>g, <1>h, <1>i, <1>j, <1>k, <1>q,
     <1>9, SMTT(30) DEF Bind, BindResult, Here, Bound, Claimed, Unlock,
     Return, device, config, handles, history
<1>10. CASE Release(t)
  BY <1>a, <1>b, <1>c, <1>d, <1>e, <1>f, <1>g, <1>h, <1>i, <1>j, <1>k, <1>q,
     <1>10, SMTT(30) DEF Release, UnbindResult, Unlock, Return, Bound, device,
     config, handles, threads, history
<1>11. CASE Reattach(t)
  BY <1>a, <1>b, <1>c, <1>d, <1>e, <1>f, <1>g, <1>h, <1>i, <1>j, <1>k, <1>q,
     <1>11, SMTT(30) DEF Reattach, Unlock, Return, device, config, handles,
     threads
<1>12. CASE AltChecked(t)
  BY <1>a, <1>b, <1>c, <1>d, <1>e, <1>f, <1>g, <1>h, <1>i, <1>j, <1>k, <1>q,
     <1>12, SMTT(30) DEF AltChecked, Unlock, Return, device, config, handles,
     threads, history
<1>13. CASE SetAlt(t)
  BY <1>a, <1>b, <1>c, <1>d, <1>e, <1>f, <1>g, <1>h, <1>i, <1>j, <1>k, <1>q,
     <1>13, SMTT(30) DEF SetAlt, Return, UnbindResult, device, config,
     handles, threads, history
<1>14. CASE ResetUnbind(t)
  BY <1>a, <1>b, <1>c, <1>d, <1>e, <1>f, <1>g, <1>h, <1>i, <1>j, <1>k, <1>q,
     <1>14, SMTT(30) DEF ResetUnbind, IsNext, Bound, UnbindResult, LoopEnds,
     device, config, handles, history
<1>15. CASE ResetDone(t)
  BY <1>a, <1>b, <1>c, <1>d, <1>e, <1>f, <1>g, <1>h, <1>i, <1>j, <1>k, <1>q,
     <1>15, SMTT(30) DEF ResetDone, device, config, handles
<1>16. CASE ResetFailed(t)
  BY <1>a, <1>b, <1>c, <1>d, <1>e, <1>f, <1>g, <1>h, <1>i, <1>j, <1>k, <1>q,
     <1>16, SMTT(30) DEF ResetFailed, Return, Unlock, device, config, handles,
     threads
<1>17. CASE Reclaim(t)
  BY <1>a, <1>b, <1>c, <1>d, <1>e, <1>f, <1>g, <1>h, <1>i, <1>j, <1>k, <1>q,
     <1>17, SMTT(30) DEF Reclaim, IsNext, DetachAndClaim, Bound, TakeResult,
     Had, Claimed, Unlock, Return, LoopEnds, device, config, handles
<1>18. CASE UserGetDriver(t)
  BY <1>a, <1>b, <1>c, <1>d, <1>e, <1>f, <1>g, <1>h, <1>i, <1>j, <1>k, <1>q,
     <1>18, SMTT(30) DEF UserGetDriver, Return, device, config, handles,
     threads, history
<1>19. CASE UserDisconnect(t)
  BY <1>a, <1>b, <1>c, <1>d, <1>e, <1>f, <1>g, <1>h, <1>i, <1>j, <1>k, <1>q,
     <1>19, SMTT(30) DEF UserDisconnect, Return, device, config, handles,
     threads, history
<1>20. CASE UserAttach(t)
  BY <1>a, <1>b, <1>c, <1>d, <1>e, <1>f, <1>g, <1>h, <1>i, <1>j, <1>k, <1>q,
     <1>20, SMTT(30) DEF UserAttach, Return, device, config, handles, threads
<1>21. CASE SetAuto(t)
  BY <1>a, <1>b, <1>c, <1>d, <1>e, <1>f, <1>g, <1>h, <1>i, <1>j, <1>k, <1>q,
     <1>21, SMTT(30) DEF SetAuto, Begin, device, config, handles
<1>22. CASE SetConfiguration(t)
  BY <1>a, <1>b, <1>c, <1>d, <1>e, <1>f, <1>g, <1>h, <1>i, <1>j, <1>k, <1>q,
     <1>22, SMTT(30) DEF SetConfiguration, Begin, Value, Return, device,
     handles, history
<1>23. CASE GetConfiguration(t)
  BY <1>a, <1>b, <1>c, <1>d, <1>e, <1>f, <1>g, <1>h, <1>i, <1>j, <1>k, <1>q,
     <1>23, SMTT(30) DEF GetConfiguration, Begin, Value, Return, device,
     config, handles, history
<1>24. CASE CacheConfig(t)
  BY <1>a, <1>b, <1>c, <1>d, <1>e, <1>f, <1>g, <1>h, <1>i, <1>j, <1>k, <1>q,
     <1>24, SMTT(30) DEF CacheConfig, Return, device, handles, threads,
     history
<1>25. CASE Open(t)
  BY <1>25, OpenEffect
<1>26. CASE Wrap(t)
  BY <1>26 DEF Wrap, Begin
<1>27. CASE Close(t)
  BY <1>a, <1>b, <1>c, <1>d, <1>e, <1>f, <1>g, <1>h, <1>i, <1>j, <1>k, <1>q,
     <1>27, SMTT(30) DEF Close, Begin, CloseFd, Dropped, Return, device,
     config
<1> QED
  BY <1>1, <1>2, <1>3, <1>4, <1>5, <1>6, <1>7, <1>8, <1>9, <1>10, <1>11,
     <1>12, <1>13, <1>14, <1>15, <1>16, <1>17, <1>18, <1>19, <1>20, <1>21,
     <1>22, <1>23, <1>24, <1>25, <1>26, <1>27
  DEF Step

(***************************************************************************)
(* What happens without a call: the kernel, other programs and the monitor *)
(* leave the library's own state alone.                                    *)
(***************************************************************************)
Outer ==
  \/ \E i \in Ifaces : Outside(i)
  \/ \E h \in Handles : CloseKept(h)
  \/ Unplug \/ Disconnect \/ UNCHANGED vars

LEMMA OuterEffect ==
  ASSUME Typed, Outer
  PROVE  /\ UNCHANGED <<pc, job, at, val, fd, claimed, auto, lock, active, cached, vouched>>
         /\ present' => present
         /\ had' \subseteq had
         /\ \A i \in Ifaces :
              \/ owner'[i] = owner[i] /\ (i \in had' => i \in had)
              \/ /\ owner[i] \in {"none", "other"} /\ owner'[i] \in {"driver", "other"}
                 /\ i \notin had'
              \/ owner[i] = "other" /\ owner'[i] = "none"
              \/ owner'[i] = "none" /\ ~present'
              \/ /\ owner'[i] = "none" /\ owner[i] \in Handles /\ fd[owner[i]] = "none"
                 /\ i \notin had'
<1> USE DEF threads, handles, config, history, device
<1>1. owner \in [Ifaces -> {"none", "driver"} \cup Usbfs]
  BY DEF Typed
<1>2. CASE \E i \in Ifaces : Outside(i)
  BY <1>1, <1>2 DEF Outside
<1>3. CASE \E h \in Handles : CloseKept(h)
  BY <1>1, <1>3 DEF CloseKept, Dropped
<1>4. CASE Unplug
  BY <1>1, <1>4 DEF Unplug
<1>5. CASE Disconnect
  BY <1>5 DEF Disconnect
<1>6. CASE UNCHANGED vars
  BY <1>6 DEF vars
<1> QED
  BY <1>2, <1>3, <1>4, <1>5, <1>6 DEF Outer

LEMMA NextIsStepOrOuter ==
  ASSUME [Next]_vars
  PROVE  Outer \/ \E t \in Threads : Step(t)
BY DEF Next, Outer

LEMMA TypeStep ==
  ASSUME ClaimsAssumption, IInv, [Next]_vars
  PROVE  TypeOK'
<1>0. TypeOK /\ Typed /\ Calls
  BY DEF IInv, TypeOK, Typed
<1>1. CASE Outer
  <2>1. /\ present' \in BOOLEAN /\ attached' \in BOOLEAN
        /\ owner' \in [Ifaces -> {"none", "driver"} \cup Usbfs]
        /\ fds' \in [Handles -> {"closed", "library", "user"}]
        /\ had' \subseteq Ifaces
    <3> USE DEF TypeOK, handles, history, device, threads, config
    <3>1. CASE \E i \in Ifaces : Outside(i)
      BY <1>0, <3>1 DEF Outside, Usbfs
    <3>2. CASE \E h \in Handles : CloseKept(h)
      BY <1>0, <3>2 DEF CloseKept, Dropped
    <3>3. CASE Unplug
      BY <1>0, <3>3 DEF Unplug
    <3>4. CASE Disconnect
      BY <1>0, <3>4 DEF Disconnect
    <3>5. CASE UNCHANGED vars
      BY <1>0, <3>5 DEF vars
    <3> QED
      BY <1>1, <3>1, <3>2, <3>3, <3>4, <3>5 DEF Outer
  <2>2. UNCHANGED <<ret, calls>>
    BY <1>1 DEF Outer, Outside, CloseKept, Unplug, Disconnect, vars, threads
  <2> QED
    BY <1>0, <1>1, <2>1, <2>2, OuterEffect DEF TypeOK
<1>2. ASSUME NEW t \in Threads, Step(t) PROVE TypeOK'
  BY <1>0, <1>2, ThreadTypes, HandleTypes DEF TypeOK
<1> QED
  BY <1>1, <1>2, NextIsStepOrOuter

LEMMA DescriptorsStep ==
  ASSUME ClaimsAssumption, IInv, [Next]_vars
  PROVE  Descriptors'
<1>0. Typed /\ Calls /\ Descriptors
  BY DEF IInv, TypeOK, Typed
<1>1. CASE Outer
  <2> USE DEF Typed, Descriptors, handles, history, device, threads, config
  <2>1. CASE \E i \in Ifaces : Outside(i)
    BY <1>0, <2>1 DEF Outside, ClaimsAssumption
  <2>2. CASE \E h \in Handles : CloseKept(h)
    BY <1>0, <2>2 DEF CloseKept, Dropped, ClaimsAssumption
  <2>3. CASE Unplug
    BY <1>0, <2>3 DEF Unplug, ClaimsAssumption
  <2>4. CASE Disconnect
    BY <1>0, <2>4 DEF Disconnect
  <2>5. CASE UNCHANGED vars
    BY <1>0, <2>5 DEF vars
  <2> QED
    BY <1>1, <2>1, <2>2, <2>3, <2>4, <2>5 DEF Outer
<1>2. ASSUME NEW t \in Threads, Step(t) PROVE Descriptors'
  BY <1>0, <1>2, OwnDescriptors
<1> QED
  BY <1>1, <1>2, NextIsStepOrOuter

LEMMA CallsStep ==
  ASSUME ClaimsAssumption, IInv, [Next]_vars
  PROVE  Calls'
<1>0. Typed /\ Calls
  BY DEF IInv, TypeOK, Typed
<1>1. CASE Outer
  BY <1>0, <1>1, OuterEffect DEF Calls, CallOf, H
<1>2. ASSUME NEW t \in Threads, Step(t), NEW u \in Threads PROVE CallOf(u)'
  <2>1. CASE u = t
    BY <1>0, <1>2, <2>1, OwnCall
  <2>2. CASE u # t
    <3>1. pc'[u] = pc[u] /\ job'[u] = job[u] /\ at'[u] = at[u]
      BY <1>0, <1>2, <2>2, OthersStay DEF Same
    <3>2. CallOf(u) /\ H(u) \in Handles
      BY <1>0 DEF Calls, Typed, H, Job
    <3>3. pc[u] # "idle" => fd'[H(u)] # "none"
      BY <1>0, <1>2, <3>2, HandleEffect DEF CallOf
    <3> QED
      BY <3>1, <3>2, <3>3 DEF CallOf, H
  <2> QED
    BY <2>1, <2>2
<1> QED
  BY <1>1, <1>2, NextIsStepOrOuter DEF Calls

LEMMA OwnsStep ==
  ASSUME ClaimsAssumption, IInv, [Next]_vars
  PROVE  Owns'
<1>0. Typed /\ Calls /\ Owns
  BY DEF IInv, TypeOK, Typed
<1>1. CASE Outer
  BY <1>0, <1>1, OuterEffect DEF Owns, Locking, H
<1>2. ASSUME NEW t \in Threads, Step(t), Locking, NEW u \in Threads, pc'[u] \in Locked
      PROVE  lock'[H(u)'] = u
  <2>0. /\ lock \in [Handles -> Threads \cup {Free}] /\ H(t) \in Handles /\ H(u) \in Handles
        /\ pc \in [Threads -> PCs] /\ job \in [Threads -> Job]
    BY <1>0 DEF Typed, H, Job
  <2>1. pc[t] \in Locked => lock[H(t)] = t
    BY <1>0, <1>2 DEF Owns
  <2>2. CASE u = t
    <3>1. CASE Lock(t)
      BY <2>0, <2>2, <3>1 DEF Lock, H, threads
    <3>2. CASE AltGone(t)
      BY <1>2, <2>0, <2>2, <3>2 DEF AltGone, Return, Locked
    <3>3. CASE lock' = lock /\ (pc'[t] \in Locked => pc[t] \in Locked /\ H(t)' = H(t))
      BY <1>2, <2>1, <2>2, <3>3
    <3> QED
      BY <1>0, <1>2, <2>2, <3>1, <3>2, <3>3, LockEffect
  <2>3. CASE u # t
    <3>1. pc'[u] = pc[u] /\ H(u)' = H(u)
      BY <1>0, <1>2, <2>3, OthersStay DEF Same, H
    <3>2. lock[H(u)] = u
      BY <1>0, <1>2, <3>1 DEF Owns
    <3>3. ~AltGone(t)
      BY <1>2, <2>3 DEF Locking, OneThread, AltGone, Begin
    <3>4. CASE Lock(t)
      BY <2>0, <2>3, <3>1, <3>2, <3>4 DEF Lock, ClaimsAssumption
    <3>5. CASE pc[t] \in Locked /\ lock' = [lock EXCEPT ![H(t)] = Free]
      BY <2>0, <2>1, <2>3, <3>1, <3>2, <3>5
    <3>6. CASE lock' = lock
      BY <3>1, <3>2, <3>6
    <3> QED
      BY <1>0, <1>2, <3>3, <3>4, <3>5, <3>6, LockEffect
  <2> QED
    BY <2>2, <2>3
<1> QED
  BY <1>1, <1>2, NextIsStepOrOuter DEF Owns, Locking

LEMMA NotBoundStep ==
  ASSUME ClaimsAssumption, IInv, [Next]_vars
  PROVE  NotBound'
<1>0. Typed /\ Calls /\ Descriptors /\ Owns /\ NotBound
  BY DEF IInv, TypeOK, Typed
<1>1. CASE Outer
  <2>1. ASSUME Keeping, NEW t \in Threads PROVE NotBoundOf(t)'
    <3>1. NotBoundOf(t) /\ CallOf(t) /\ H(t) \in Handles /\ I(t) \in Ifaces
      BY <1>0, <2>1 DEF NotBound, Calls, Typed, H, I, Job
    <3>2. UNCHANGED <<pc, job, at, claimed>>
      BY <1>0, <1>1, OuterEffect
    <3>3. \A i \in Ifaces : owner'[i] = owner[i] \/ owner'[i] \notin Handles
      BY <1>0, <1>1, OuterEffect DEF ClaimsAssumption
    <3>4. Here(t) \in Ifaces \/ pc[t] \notin Asking
      BY <3>1 DEF Here, CallOf
    <3> QED
      BY <3>1, <3>2, <3>3, <3>4, SMTT(30) DEF NotBoundOf, H, I, Here, Asking
  <2> QED
    BY <2>1 DEF NotBound, Keeping
<1>2. ASSUME NEW t \in Threads, Step(t), Keeping, NEW u \in Threads PROVE NotBoundOf(u)'
  <2>1. CASE u = t
    BY <1>0, <1>2, <2>1, OwnNotBound
  <2>2. CASE u # t
    <3>1. pc'[u] = pc[u] /\ job'[u] = job[u] /\ at'[u] = at[u]
      BY <1>0, <1>2, <2>2, OthersStay DEF Same
    <3>2. /\ NotBoundOf(u) /\ CallOf(u) /\ H(u) \in Handles /\ I(u) \in Ifaces
          /\ job[u].op \in Ops /\ H(t) \in Handles
      BY <1>0, <1>2 DEF NotBound, Calls, Typed, H, I, Job
    <3>3. /\ {"alt", "detach"} \cap Ops = {} /\ (DisconnectClaim \/ OneHandle)
      BY <1>2, <2>2 DEF Keeping, OneThread
    <3>4. pc[t] \in Locked /\ pc[u] \in Locked => H(t) # H(u)
      BY <1>0, <2>2, <3>3, Exclusive DEF Locking
    <3>5. \A i \in Ifaces : \/ owner'[i] = owner[i] \/ owner'[i] \notin Handles
                            \/ owner'[i] = H(t) /\ pc[t] \in Locked
      BY <1>0, <1>2, OwnerEffect DEF Locked, ClaimsAssumption
    <3>6. pc[u] \in Locked => claimed'[H(u)] = claimed[H(u)]
      BY <1>0, <1>2, <3>2, <3>4, MaskEffect DEF CallOf, Locked
    <3>7. Here(u) \in Ifaces \/ pc[u] \notin Asking
      BY <3>2 DEF Here, CallOf
    <3>8. pc[u] = "disconnect" => OneHandle
      BY <3>2, <3>3 DEF CallOf, Asking
    <3>9. pc[u] # "user.disconnect"
      BY <3>2, <3>3 DEF CallOf
    <3>10. pc[u] \in Locked => \A i \in Ifaces : owner[i] # H(u) => owner'[i] # H(u)
      BY <3>2, <3>4, <3>5
    <3>11. pc[u] = "disconnect" => owner'[Here(u)] \notin Handles
      BY <3>2, <3>4, <3>5, <3>7, <3>8 DEF NotBoundOf, OneHandle, Asking, Locked
    <3> QED
      BY <3>1, <3>2, <3>6, <3>9, <3>10, <3>11, SMTT(30)
      DEF NotBoundOf, H, I, Here, Asking, Locked
  <2> QED
    BY <2>1, <2>2
<1> QED
  BY <1>1, <1>2, NextIsStepOrOuter DEF NotBound, Keeping

LEMMA MaskedStep ==
  ASSUME ClaimsAssumption, IInv, [Next]_vars
  PROVE  Masked'
<1>0. Typed /\ Calls /\ Descriptors /\ NotBound /\ Masked
  BY DEF IInv, TypeOK, Typed
<1>1. CASE Outer
  <2>1. UNCHANGED <<pc, job, at, fd, claimed, vouched>> /\ (present' => present)
    BY <1>0, <1>1, OuterEffect
  <2>2. \A i \in Ifaces :
          \/ owner'[i] = owner[i]
          \/ /\ owner'[i] \notin Handles
             /\ owner[i] \in Handles => ~present' \/ fd[owner[i]] = "none"
    BY <1>0, <1>1, OuterEffect DEF ClaimsAssumption
  <2>3. ASSUME Keeping, NEW i \in Ifaces, owner'[i] \in Handles PROVE i \in claimed'[owner'[i]]
    BY <1>0, <2>1, <2>2, <2>3 DEF Masked
  <2>4. ASSUME Keeping, NEW h \in Handles, present', fd'[h] # "none", vouched'[h],
               NEW i \in claimed'[h]
        PROVE  owner'[i] = h \/ \E t \in Threads : Pending(t, h, i)'
    <3>1. owner[i] = h \/ \E t \in Threads : Pending(t, h, i)
      BY <1>0, <2>1, <2>4 DEF Masked
    <3>2. i \in Ifaces
      BY <1>0, <2>1, <2>4 DEF Typed
    <3>3. CASE owner[i] = h
      BY <2>1, <2>2, <2>4, <3>2, <3>3
    <3>4. ASSUME NEW t \in Threads, Pending(t, h, i) PROVE Pending(t, h, i)'
      BY <2>1, <3>4 DEF Pending, H, I
    <3> QED
      BY <3>1, <3>3, <3>4
  <2> QED
    BY <2>3, <2>4 DEF Masked, Keeping
<1>2. ASSUME NEW t \in Threads, Step(t), Keeping PROVE Masked'
  <2>1. \A i \in Ifaces : owner'[i] \in Handles => i \in claimed'[owner'[i]]
    BY <1>0, <1>2, OwnBound
  <2>2. ASSUME NEW h \in Handles, present', fd'[h] # "none", vouched'[h], NEW i \in claimed'[h],
               i \in Ifaces
        PROVE  owner'[i] = h \/ \E u \in Threads : Pending(u, h, i)'
    <3>1. CASE \/ owner'[i] = h
               \/ Pending(t, h, i)'
      BY <3>1
    <3>2. CASE /\ i \in claimed[h] /\ fd[h] # "none" /\ vouched[h]
               /\ owner[i] # h /\ ~Pending(t, h, i)
      <4>1. present
        BY <1>0, <1>2, <2>2, OthersStay
      <4>2. PICK u \in Threads : Pending(u, h, i)
        BY <1>0, <1>2, <2>2, <3>2, <4>1 DEF Masked
      <4>3. u # t
        BY <3>2, <4>2
      <4>4. pc'[u] = pc[u] /\ job'[u] = job[u] /\ at'[u] = at[u]
        BY <1>0, <1>2, <4>3, OthersStay DEF Same
      <4> QED
        BY <4>2, <4>4 DEF Pending, H, I
    <3> QED
      BY <1>0, <1>2, <2>2, <3>1, <3>2, OwnMask
  <2>3. claimed' \in [Handles -> SUBSET Ifaces]
    BY TypeStep DEF TypeOK
  <2> QED
    BY <2>1, <2>2, <2>3 DEF Masked
<1> QED
  BY <1>1, <1>2, NextIsStepOrOuter DEF Masked, Keeping

LEMMA MissingStep ==
  ASSUME ClaimsAssumption, IInv, [Next]_vars
  PROVE  Missing'
<1>0. Typed /\ Calls /\ Descriptors /\ Owns /\ NotBound /\ Masked /\ Missing
  BY DEF IInv, TypeOK, Typed
<1>1. ASSUME Outer, Keeping, OneHandle, {"open", "wrap"} \cap Ops = {},
             NEW i \in had', NEW h \in Handles
      PROVE  /\ owner'[i] \in {"none", h} /\ auto'[h]
             /\ fd'[h] # "none" =>
                  i \in claimed'[h] \/ \E t \in Threads : pc'[t] = "bind" /\ Here(t)' = i
  <2>1. i \in had /\ i \in Ifaces
    BY <1>0, <1>1, OuterEffect DEF Typed
  <2>2. /\ owner[i] \in {"none", h} /\ auto[h]
        /\ fd[h] # "none" =>
             i \in claimed[h] \/ \E t \in Threads : pc[t] = "bind" /\ Here(t) = i
    BY <1>0, <1>1, <2>1 DEF Missing
  <2>3. owner'[i] = owner[i] \/ owner'[i] = "none"
    BY <1>0, <1>1, <2>1, OuterEffect
  <2>4. UNCHANGED <<pc, job, at, fd, claimed, auto>>
    BY <1>0, <1>1, OuterEffect
  <2> QED
    BY <2>2, <2>3, <2>4 DEF Here, I
<1>2. ASSUME NEW t \in Threads, Step(t), Keeping, OneHandle, {"open", "wrap"} \cap Ops = {},
             NEW i \in had', NEW h \in Handles
      PROVE  /\ owner'[i] \in {"none", h} /\ auto'[h]
             /\ fd'[h] # "none" =>
                  i \in claimed'[h] \/ \E u \in Threads : pc'[u] = "bind" /\ Here(u)' = i
  <2>1. i \in Ifaces
    BY <1>2, TypeStep DEF TypeOK
  <2>2. /\ owner'[i] \in {"none", h} /\ auto'[h]
        /\ fd'[h] # "none" =>
             \/ i \in claimed'[h]
             \/ pc'[t] = "bind" /\ Here(t)' = i
             \/ \E u \in Threads \ {t} : pc[u] = "bind" /\ Here(u) = i
    BY <1>0, <1>2, <2>1, OwnMissing
  <2>3. \A u \in Threads \ {t} : pc'[u] = pc[u] /\ Here(u)' = Here(u)
    BY <1>0, <1>2, OthersStay DEF Same, Here, I
  <2> QED
    BY <2>2, <2>3
<1> QED
  BY <1>1, <1>2, NextIsStepOrOuter DEF Missing, Keeping

LEMMA CachedStep ==
  ASSUME ClaimsAssumption, IInv, [Next]_vars
  PROVE  Cached'
<1>0. Typed /\ Calls /\ Cached
  BY DEF IInv, TypeOK, Typed
<1>1. CASE Outer
  BY <1>0, <1>1, OuterEffect DEF Cached, Caching, Value
<1>2. ASSUME NEW t \in Threads, Step(t), Caching, present'
      PROVE  /\ \A u \in Threads : pc'[u] = "cache" => val'[u] = Value(active')
             /\ (\A u \in Threads : pc'[u] # "cache") => cached' = Value(active')
  <2>1. /\ \A u \in Threads : pc[u] = "cache" => val[u] = Value(active)
        /\ (\A u \in Threads : pc[u] # "cache") => cached = Value(active)
    BY <1>0, <1>2, OthersStay DEF Cached
  <2>2. \A u \in Threads \ {t} : pc'[u] = pc[u] /\ val'[u] = val[u]
    BY <1>0, <1>2, OthersStay DEF Same
  <2>3. active' = active \/ \A u \in Threads : u = t
    BY <1>0, <1>2, CacheEffect DEF Caching, OneThread
  <2> QED
    BY <1>0, <1>2, <2>1, <2>2, <2>3, CacheEffect DEF Value
<1> QED
  BY <1>1, <1>2, NextIsStepOrOuter DEF Cached, Caching, Value

(***************************************************************************)
(* The invariant holds at the start: every handle is open, no thread has   *)
(* called anything yet.                                                    *)
(***************************************************************************)
LEMMA InitHolds ==
  ASSUME ClaimsAssumption, Init
  PROVE  IInv
<1> USE DEF Init
<1>1. NoJob \in Job
  <2>1. PICK op \in Ops, h \in Handles : TRUE
    BY DEF ClaimsAssumption
  <2>2. [op |-> op, h |-> h, i |-> 1, c |-> 0] \in Job
    BY DEF Job, Ifaces, ClaimsAssumption
  <2> QED
    BY <2>2 DEF NoJob
<1>2. TypeOK
  <2>1. "idle" \in PCs /\ "SUCCESS" \in Results /\ 1 \in 1 .. N + 1 /\ 0 \in 0 .. MaxCalls
    BY DEF PCs, Results, ClaimsAssumption
  <2>2. owner \in [Ifaces -> {"none", "driver"} \cup Usbfs]
    BY DEF Usbfs
  <2> QED
    BY <1>1, <2>1, <2>2 DEF TypeOK
<1>3. Calls
  BY DEF Calls, CallOf, Asking
<1>4. Descriptors
  BY DEF Descriptors, ClaimsAssumption
<1>5. Owns /\ NotBound
  BY DEF Owns, NotBound, NotBoundOf, Locked, Asking
<1>6. Masked
  BY DEF Masked, ClaimsAssumption
<1>7. Missing
  BY DEF Missing
<1>8. Cached
  BY DEF Cached, Value, ClaimsAssumption
<1> QED
  BY <1>2, <1>3, <1>4, <1>5, <1>6, <1>7, <1>8 DEF IInv

LEMMA StepHolds ==
  ASSUME ClaimsAssumption, IInv, [Next]_vars
  PROVE  IInv'
BY TypeStep, CallsStep, DescriptorsStep, OwnsStep, NotBoundStep, MaskedStep, MissingStep,
   CachedStep DEF IInv

(***************************************************************************)
(* The invariant holds whatever the calls, the kernel and other programs   *)
(* do.                                                                     *)
(***************************************************************************)
THEOREM Inductive ==
  ASSUME ClaimsAssumption
  PROVE  Spec => []IInv
<1>1. Init => IInv
  BY InitHolds
<1>2. IInv /\ [Next]_vars => IInv'
  BY StepHolds
<1> QED
  BY <1>1, <1>2, PTL DEF Spec

(***************************************************************************)
(* Every variable keeps its type, the mask of a handle among them.         *)
(***************************************************************************)
THEOREM TypeCorrect ==
  ASSUME ClaimsAssumption
  PROVE  Spec => []TypeOK
<1>1. IInv => TypeOK
  BY DEF IInv
<1> QED
  BY <1>1, Inductive, PTL

(***************************************************************************)
(* The lock of a handle does what it is for, unless libusb_set_interface_  *)
(* alt_setting, whose early return unlocks what it has not locked, is      *)
(* called while another thread uses the handle.                            *)
(***************************************************************************)
THEOREM LocksProtect ==
  ASSUME ClaimsAssumption, Locking
  PROVE  Spec => []LockProtects
<1>1. IInv => LockProtects
  BY Exclusive DEF IInv, LockProtects
<1> QED
  BY <1>1, Inductive, PTL

(***************************************************************************)
(* After any calls of one thread the mask of a handle is what the kernel   *)
(* holds for it; of several threads too, when none of them changes         *)
(* alternate settings or takes drivers off by hand, and the kernel takes a *)
(* driver off and binds in one call, or there is one handle only.          *)
(***************************************************************************)
THEOREM MasksAreOwned ==
  ASSUME ClaimsAssumption, Keeping
  PROVE  Spec => []MaskIsOwned
<1>1. ASSUME IInv PROVE MaskIsOwned
  <2>1. SUFFICES ASSUME NEW h \in Handles, present, fd[h] # "none", vouched[h], Unused(h)
                 PROVE  claimed[h] = {i \in Ifaces : owner[i] = h}
    BY DEF MaskIsOwned
  <2>2. claimed[h] \subseteq Ifaces
    BY <1>1 DEF IInv, TypeOK
  <2>3. \A t \in Threads, i \in Ifaces : ~Pending(t, h, i)
    BY <2>1 DEF Unused, Pending, Asking
  <2>4. /\ \A i \in Ifaces : owner[i] = h => i \in claimed[h]
        /\ \A i \in claimed[h] : owner[i] = h
    BY <1>1, <2>1, <2>2, <2>3 DEF IInv, Masked
  <2> QED
    BY <2>2, <2>4
<1> QED
  BY <1>1, Inductive, PTL

(***************************************************************************)
(* A driver that automatic detaching took off is missing only while its    *)
(* interface is claimed, as long as the device is not opened again.        *)
(***************************************************************************)
THEOREM DriversComeBack ==
  ASSUME ClaimsAssumption, Keeping, {"open", "wrap"} \cap Ops = {}
  PROVE  Spec => []DriverComesBack
<1>1. ASSUME IInv PROVE DriverComesBack
  <2>1. SUFFICES ASSUME NEW h \in Handles, NEW i \in had, Handles = {h}, fd[h] # "none", Unused(h)
                 PROVE  i \in claimed[h]
    BY DEF DriverComesBack
  <2>2. OneHandle
    BY <2>1 DEF OneHandle
  <2>3. i \in claimed[h] \/ \E t \in Threads : pc[t] = "bind" /\ Here(t) = i
    BY <1>1, <2>1, <2>2 DEF IInv, Missing
  <2>4. \A t \in Threads : H(t) = h
    BY <1>1, <2>1 DEF IInv, TypeOK, Job, H
  <2> QED
    BY <2>1, <2>3, <2>4 DEF Unused
<1> QED
  BY <1>1, Inductive, PTL

(***************************************************************************)
(* The cached configuration is the device's, if one thread calls, or none  *)
(* changes the configuration.                                              *)
(***************************************************************************)
THEOREM CachesAreActive ==
  ASSUME ClaimsAssumption, Caching
  PROVE  Spec => []CacheIsActive
<1>1. IInv => CacheIsActive
  BY DEF IInv, Cached, CacheIsActive
<1> QED
  BY <1>1, Inductive, PTL

(***************************************************************************)
(* Claiming never takes an interface from who claimed it, where the kernel *)
(* detaches a driver and claims in one call: whatever the threads do.      *)
(***************************************************************************)
THEOREM ClaimsAreKept ==
  ASSUME ClaimsAssumption, DisconnectClaim, "detach" \notin Ops
  PROVE  Spec => [][NeverSteals]_vars
<1>1. ASSUME IInv, Next PROVE NeverSteals
  <2>0. Typed /\ Calls
    BY <1>1 DEF IInv, TypeOK, Typed
  <2>1. ASSUME NEW t \in Threads, Step(t) PROVE NeverSteals
    BY <2>0, <2>1, StepTakes DEF NeverSteals
  <2>2. ASSUME NEW i \in Ifaces, Outside(i) PROVE NeverSteals
    <3>1. \A j \in Ifaces : j # i => owner'[j] = owner[j]
      BY <2>0, <2>2 DEF Outside, Typed
    <3> QED
      BY <2>2, <3>1 DEF NeverSteals
  <2>3. ASSUME NEW h \in Handles, CloseKept(h) PROVE NeverSteals
    BY <2>0, <2>3 DEF CloseKept, Dropped, NeverSteals, Typed
  <2>4. CASE Unplug
    BY <2>4 DEF Unplug, NeverSteals
  <2>5. CASE Disconnect
    BY <2>5 DEF Disconnect, NeverSteals
  <2> QED
    BY <1>1, <2>1, <2>2, <2>3, <2>4, <2>5 DEF Next
<1>2. IInv /\ [Next]_vars => [NeverSteals]_vars
  BY <1>1
<1> QED
  BY <1>2, Inductive, PTL DEF Spec

(***************************************************************************)
(* A handle and its descriptor go together, and the descriptor of a        *)
(* wrapped device is the user's to close.                                  *)
(***************************************************************************)
THEOREM DescriptorsOwned ==
  ASSUME ClaimsAssumption
  PROVE  Spec => [][DescriptorsAreOwned]_vars
<1>1. ASSUME IInv, Next PROVE DescriptorsAreOwned
  <2>0. Typed /\ Descriptors
    BY <1>1 DEF IInv, TypeOK, Typed
  <2>1. \A h \in Handles : fd'[h] = "own" <=> fds'[h] = "library"
    BY <1>1, DescriptorsStep DEF Descriptors
  <2>2. ASSUME NEW h \in Handles, fds[h] = "user", fds'[h] # "user" PROVE fd[h] = "none"
    <3>1. ~ \E t \in Threads : Step(t)
      BY <2>0, <2>2, KeptStays
    <3> QED
      BY <1>1, <2>0, <2>2, <3>1
      DEF Next, Outside, CloseKept, Unplug, Disconnect, handles, Typed
  <2> QED
    BY <2>1, <2>2 DEF DescriptorsAreOwned
<1>2. IInv /\ [Next]_vars => [DescriptorsAreOwned]_vars
  BY <1>1
<1> QED
  BY <1>2, Inductive, PTL DEF Spec

=============================================================================
