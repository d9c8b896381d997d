----------------------------- MODULE CoreProof ------------------------------
(***************************************************************************)
(* Proofs about Core, for every set of requests and ports, with one or two *)
(* interfaces, with and without stealing and reset, and for every bound.   *)
(***************************************************************************)
EXTENDS Core, FiniteSetTheorems, TLAPS

(***************************************************************************)
(* Who is who among the processes.                                         *)
(***************************************************************************)
LEMMA ProcKinds ==
  /\ Requests \subseteq Threads /\ Background \in Threads
  /\ Threads \subseteq Procs
  /\ \A r \in Requests : Watcher(r) \in Procs /\ Watcher(r) \notin Threads
  /\ \A q, r \in Requests : Watcher(q) = Watcher(r) => q = r
  /\ \A p \in Procs : p \notin Threads => \E r \in Requests : p = Watcher(r)
  /\ None \notin Procs
BY ProcsAssumption DEF Procs, Threads, Watchers, Watcher

(***************************************************************************)
(* Typing.  callsInProgress is a natural number because it counts the      *)
(* calls between their increment and their decrement, so a call that ends  *)
(* finds itself counted.                                                   *)
(***************************************************************************)
InProgress == {r \in Requests : pc[r] \in CallPCs}

CallsCounted == callsInProgress = Cardinality(InProgress)

LEMMA ProgressFinite ==
  /\ IsFiniteSet(InProgress)
  /\ Cardinality(InProgress) \in Nat
<1>1. IsFiniteSet(InProgress)
  BY ProcsAssumption, FS_Subset DEF InProgress
<1> QED
  BY <1>1, FS_CardinalityType

LEMMA SamePaths ==
  ASSUME PathsTypeOK, UNCHANGED pathVars
  PROVE  PathsTypeOK'
BY DEF PathsTypeOK, pathVars

\* a renumbering keeps the numbers of the table below the last one given
LEMMA SavedPaths ==
  ASSUME PathsTypeOK, NEW devs \in SUBSET Ports, SaveUsbPaths(devs)
  PROVE  PathsTypeOK'
<1> DEFINE n == Cardinality(Fresh(devs))
<1>1. n \in Nat
  BY PortsAssumption, FS_Subset, FS_CardinalityType DEF Fresh
<1>2. PICK new \in Numberings(devs) :
         /\ usbPaths' = Listed(Extended(new), devs)
         /\ biggestID' = biggestID + n
         /\ lastInfos' = DOMAIN usbPaths'
  BY DEF SaveUsbPaths
<1>3. new \in [biggestID + 1 .. biggestID + n -> Fresh(devs)]
  BY <1>2 DEF Numberings, Bijection, Injection
<1>4. PICK S \in SUBSET (1 .. biggestID) : usbPaths \in [S -> Ports]
  BY DEF PathsTypeOK
<1>5. biggestID \in Nat
  BY DEF PathsTypeOK
<1> HIDE DEF n
<1> DEFINE all == Extended(new)
           T == {id \in DOMAIN all : all[id] \in devs}
<1>6. DOMAIN all = S \cup (biggestID + 1 .. biggestID + n)
  BY <1>3, <1>4 DEF Extended
<1>7. usbPaths' = [id \in T |-> all[id]] /\ DOMAIN usbPaths' = T
  BY <1>2 DEF Listed, Restrict
<1> HIDE DEF all
<1>8. T \subseteq 1 .. biggestID + n
  <2>1. ASSUME NEW id \in T PROVE id \in S \cup (biggestID + 1 .. biggestID + n)
    BY <1>6
  <2>2. S \cup (biggestID + 1 .. biggestID + n) \subseteq 1 .. biggestID + n
    BY <1>1, <1>4, <1>5
  <2> HIDE DEF T
  <2> QED
    BY <2>1, <2>2
<1>9. usbPaths' \in [T -> Ports]
  BY <1>7
<1> QED
  BY <1>1, <1>2, <1>5, <1>7, <1>8, <1>9 DEF PathsTypeOK

\* the conversions: clients send texts, and the text of a number is read back
LEMMA SentTexts ==
  ASSUME PathsTypeOK
  PROVE  SentPaths \subseteq TextsOf(Nat)
BY ConfigAssumption DEF PathsTypeOK, SentPaths, TextsOf, Itoa

LEMMA AtoiItoa == \A n : Atoi(Itoa(n)) = n
BY DEF Atoi, Itoa

LEMMA ArgForms ==
  /\ NoArg \in Args
  /\ \A a \in Args, op \in Ops, ssid \in Nat, debug \in BOOLEAN, mode \in Modes :
       /\ [a EXCEPT !.op = op] \in Args
       /\ [a EXCEPT !.ssid = ssid, !.debug = debug] \in Args
       /\ [a EXCEPT !.op = op, !.ssid = ssid, !.debug = debug] \in Args
       /\ \A path \in TextsOf(Nat) :
            [a EXCEPT !.op = op, !.path = path, !.ssid = ssid, !.debug = debug] \in Args
       /\ [a EXCEPT !.op = op, !.ssid = ssid, !.debug = debug, !.mode = mode] \in Args
<1>1. NoArg \in Args
  <2>1. Itoa(0) \in TextsOf(Nat)
    BY ConfigAssumption DEF Itoa, TextsOf
  <2> QED
    BY <2>1, ConfigAssumption DEF NoArg, Args, Ops, Modes
<1>2. ASSUME NEW a \in Args, NEW op \in Ops, NEW ssid \in Nat, NEW debug \in BOOLEAN,
             NEW mode \in Modes
      PROVE  /\ [a EXCEPT !.op = op] \in Args
             /\ [a EXCEPT !.ssid = ssid, !.debug = debug] \in Args
             /\ [a EXCEPT !.op = op, !.ssid = ssid, !.debug = debug] \in Args
             /\ \A path \in TextsOf(Nat) :
                  [a EXCEPT !.op = op, !.path = path, !.ssid = ssid, !.debug = debug] \in Args
             /\ [a EXCEPT !.op = op, !.ssid = ssid, !.debug = debug, !.mode = mode] \in Args
  BY DEF Args
<1> QED
  BY <1>1, <1>2

LEMMA SessForms ==
  ASSUME TypeOK, NEW i
  PROVE  /\ \A missed \in SUBSET Requests :
              [sess EXCEPT ![i].dev = "closed", ![i].missed = missed]
                \in [1 .. latestSessionID -> Sessions]
         /\ \A n \in {0, 1} :
              [sess EXCEPT ![i].call = n] \in [1 .. latestSessionID -> Sessions]
         /\ \A r \in Requests \cup {None} :
              /\ [sess EXCEPT ![i].writeMutex = r] \in [1 .. latestSessionID -> Sessions]
              /\ [sess EXCEPT ![i].readMutex = r] \in [1 .. latestSessionID -> Sessions]
              /\ [sess EXCEPT ![i].writeMutex = None, ![i].missed = @ \ {r}]
                   \in [1 .. latestSessionID -> Sessions]
              /\ [sess EXCEPT ![i].readMutex = None, ![i].missed = @ \ {r}]
                   \in [1 .. latestSessionID -> Sessions]
<1>1. sess \in [1 .. latestSessionID -> Sessions]
  BY DEF TypeOK
<1>2. ASSUME NEW x \in Sessions, NEW missed \in SUBSET Requests
      PROVE  [x EXCEPT !.dev = "closed", !.missed = missed] \in Sessions
  BY DEF Sessions
<1>3. ASSUME NEW x \in Sessions, NEW n \in {0, 1}
      PROVE  [x EXCEPT !.call = n] \in Sessions
  BY DEF Sessions
<1>4. ASSUME NEW x \in Sessions, NEW r \in Requests \cup {None}
      PROVE  /\ [x EXCEPT !.writeMutex = r] \in Sessions
             /\ [x EXCEPT !.readMutex = r] \in Sessions
             /\ [x EXCEPT !.writeMutex = None, !.missed = @ \ {r}] \in Sessions
             /\ [x EXCEPT !.readMutex = None, !.missed = @ \ {r}] \in Sessions
  BY DEF Sessions
<1>5. \A x : x \in Sessions => [sess EXCEPT ![i] = x] \in [1 .. latestSessionID -> Sessions]
  BY <1>1
<1>6. i \in 1 .. latestSessionID => sess[i] \in Sessions
  BY <1>1
<1> QED
  BY <1>1, <1>2, <1>3, <1>4, <1>5, <1>6

\* the typing of what a process changes of its own
ProcTypes ==
  /\ pc \in [Procs -> PCs]
  /\ arg \in [Procs -> Args]
  /\ ctx \in [Requests -> {"none", "live", "closed", "returned"}]
  /\ libusbMutex \in Procs \cup {None}
  /\ callMutex \in Procs \cup {None}
  /\ lastInfosMutex \in Procs \cup {None}

SessTypes ==
  /\ latestSessionID \in Nat
  /\ sess \in [1 .. latestSessionID -> Sessions]
  /\ table \in [BOOLEAN -> SUBSET (1 .. latestSessionID)]

LEMMA TypeParts ==
  TypeOK <=> /\ PathsTypeOK /\ attached \subseteq Ports /\ callsInProgress \in Nat
             /\ ProcTypes /\ SessTypes
BY DEF TypeOK, ProcTypes, SessTypes

LEMMA RelReturnTypes ==
  ASSUME ProcTypes, NEW p \in Procs, NEW ok \in BOOLEAN, RelReturn(p, ok),
         UNCHANGED <<callMutex, lastInfosMutex>>
  PROVE  ProcTypes'
<1> USE DEF ProcTypes
<1>1. pc' \in [Procs -> PCs]
  BY DEF RelReturn, Return, PCs, EnumPCs, AcqPCs
<1>2. [arg EXCEPT ![p].ssid = 0, ![p].debug = FALSE] \in [Procs -> Args]
  BY ZenonT(60) DEF Args
<1>3. [arg EXCEPT ![p] = NoArg] \in [Procs -> Args]
  BY ArgForms
<1>4. arg' \in [Procs -> Args]
  BY <1>2, <1>3 DEF RelReturn, Return
<1>5. libusbMutex' \in Procs \cup {None}
  BY DEF RelReturn
<1>6. ctx' \in [Requests -> {"none", "live", "closed", "returned"}]
  BY DEF RelReturn, DropCtx
<1> QED
  BY <1>1, <1>4, <1>5, <1>6

\* typing survives a step part by part
LEMMA TypesNext ==
  ASSUME PathsTypeOK', attached' \subseteq Ports, callsInProgress' \in Nat,
         ProcTypes', SessTypes'
  PROVE  TypeOK'
BY DEF TypeOK, ProcTypes, SessTypes

LEMMA SameSessions ==
  ASSUME SessTypes, UNCHANGED sessVars
  PROVE  SessTypes'
BY DEF SessTypes, sessVars

LEMMA ReturnTypes ==
  ASSUME ProcTypes, NEW p \in Procs, Return(p)
  PROVE  pc' \in [Procs -> PCs] /\ arg' \in [Procs -> Args]
BY ArgForms DEF ProcTypes, Return, PCs

LEMMA SpawnTypes ==
  ASSUME ProcTypes, NEW r \in Requests, Spawn(r)
  PROVE  pc' \in [Procs -> PCs] /\ arg' \in [Procs -> Args]
<1>1. r \in Procs /\ Watcher(r) \in Procs /\ arg[r] \in Args
  BY ProcKinds DEF ProcTypes
<1>2. /\ arg[r].ssid \in Nat /\ arg[r].debug \in BOOLEAN /\ arg[r].mode \in Modes
      /\ "watch" \in Ops
  BY <1>1 DEF Args, Ops
<1>3. [NoArg EXCEPT !.op = "watch", !.ssid = arg[r].ssid, !.debug = arg[r].debug] \in Args
  BY <1>2, ArgForms
<1> QED
  BY <1>1, <1>3 DEF ProcTypes, Spawn, PCs, CallPCs

\* one lemma for each kind of step: it keeps TypeOK
LEMMA EnvironmentTypes ==
  ASSUME TypeOK, Environment
  PROVE  TypeOK'
<1> USE TypeParts, SamePaths, SameSessions, TypesNext
<1>1. ASSUME NEW port \in Ports, Plug(port) PROVE TypeOK'
  <2>1. ProcTypes'
    BY <1>1, ProcKinds DEF Plug, lockVars, procVars, ProcTypes, PCs
  <2> QED
    BY <1>1, <2>1 DEF Plug, Arrive, procVars
<1>2. ASSUME NEW port \in Ports, Unplug(port) PROVE TypeOK'
  <2>1. ProcTypes'
    BY <1>2, ProcKinds DEF Unplug, lockVars, procVars, ProcTypes, PCs
  <2> QED
    BY <1>2, <2>1 DEF Unplug, Arrive, procVars
<1>3. ASSUME NEW r \in Requests, StartEnumerate(r) PROVE TypeOK'
  <2>1. "enumerate" \in Ops
    BY DEF Ops
  <2>2. [NoArg EXCEPT !.op = "enumerate"] \in Args
    BY <2>1, ArgForms DEF Args
  <2>3. ProcTypes'
    BY <1>3, <2>1, <2>2, ProcKinds DEF StartEnumerate, Arrive, lockVars, ProcTypes, PCs, EnumPCs
  <2> QED
    BY <1>3, <2>3 DEF StartEnumerate, Arrive, procVars
<1>4. ASSUME NEW r \in Requests, NEW path \in SentPaths,
             NEW prev \in 0 .. latestSessionID, NEW debug \in Interfaces,
             StartAcquire(r, path, prev, debug)
      PROVE  TypeOK'
  <2>1. /\ path \in TextsOf(Nat) /\ prev \in Nat
        /\ debug \in BOOLEAN /\ "acquire" \in Ops
    BY SentTexts, ConfigAssumption DEF PathsTypeOK, SessTypes, Ops
  <2>2. [NoArg EXCEPT !.op = "acquire", !.path = path, !.ssid = prev, !.debug = debug] \in Args
    BY <2>1, ArgForms, ZenonT(60) DEF Args
  <2>3. ProcTypes'
    BY <1>4, <2>1, <2>2, ProcKinds DEF StartAcquire, Arrive, lockVars, ProcTypes, PCs, AcqPCs
  <2> QED
    BY <1>4, <2>3 DEF StartAcquire, Arrive, procVars
<1>5. ASSUME NEW r \in Requests, NEW s \in 1 .. latestSessionID,
             StartRelease(r, s)
      PROVE  TypeOK'
  <2>1. s \in Nat /\ sess[s].debug \in BOOLEAN /\ "release" \in Ops
    BY DEF SessTypes, Sessions, Ops
  <2>2. [NoArg EXCEPT !.op = "release", !.ssid = s, !.debug = sess[s].debug] \in Args
    BY <2>1, ArgForms, ZenonT(60) DEF Args
  <2>3. ProcTypes'
    BY <1>5, <2>1, <2>2, ProcKinds DEF StartRelease, Arrive, lockVars, ProcTypes, PCs, RelPCs
  <2> QED
    BY <1>5, <2>3 DEF StartRelease, Arrive, procVars
<1>6. ASSUME NEW r \in Requests, NEW s \in 1 .. latestSessionID,
             NEW mode \in CallModes,
             StartCall(r, s, mode)
      PROVE  TypeOK'
  <2>1. s \in Nat /\ sess[s].debug \in BOOLEAN /\ "call" \in Ops /\ mode \in Modes
    BY ConfigAssumption DEF SessTypes, Sessions, Ops
  <2>2. [NoArg EXCEPT !.op = "call", !.ssid = s, !.debug = sess[s].debug, !.mode = mode] \in Args
    BY <2>1, ArgForms, ZenonT(60) DEF Args
  <2>3. ProcTypes'
    BY <1>6, <2>1, <2>2, ProcKinds DEF StartCall, Arrive, lockVars, ProcTypes, PCs
  <2> QED
    BY <1>6, <2>3 DEF StartCall, Arrive, procVars
<1>7. ASSUME NEW r \in Requests, ClientClose(r) PROVE TypeOK'
  <2>1. ProcTypes'
    BY <1>7, ProcKinds DEF ClientClose, lockVars, ProcTypes, PCs
  <2> QED
    BY <1>7, <2>1 DEF ClientClose, Arrive, procVars
<1> QED
  BY <1>1, <1>2, <1>3, <1>4, <1>5, <1>6, <1>7 DEF Environment

LEMMA EnumerationTypes ==
  ASSUME TypeOK, BackgroundTick \/ \E p \in Threads : Enumerating(p)
  PROVE  TypeOK'
<1> USE TypeParts, SamePaths, SameSessions, TypesNext
<1>1. ASSUME BackgroundTick PROVE TypeOK'
  <2>1. "enumerate" \in Ops /\ arg[Background] \in Args
    BY ProcKinds DEF ProcTypes, Ops
  <2>2. [arg[Background] EXCEPT !.op = "enumerate"] \in Args
    BY <2>1, ArgForms DEF Args
  <2>3. ProcTypes'
    BY <1>1, <2>1, <2>2, ProcKinds DEF BackgroundTick, Goto, lockVars, ProcTypes, PCs, EnumPCs
  <2> QED
    BY <1>1, <2>3 DEF BackgroundTick, Arrive, procVars
<1>2. ASSUME NEW p \in Threads, EnumLock(p) PROVE TypeOK'
  <2>1. ProcTypes'
    BY <1>2, ProcKinds DEF EnumLock, Goto, ProcTypes, PCs, EnumPCs
  <2> QED
    BY <1>2, <2>1 DEF EnumLock, Arrive, procVars
<1>3. ASSUME NEW p \in Threads, EnumCalls(p) PROVE TypeOK'
  <2>1. ProcTypes'
    BY <1>3, ProcKinds DEF EnumCalls, Goto, ProcTypes, PCs, EnumPCs
  <2> QED
    BY <1>3, <2>1 DEF EnumCalls, Arrive, procVars
<1>4. ASSUME NEW p \in Threads, EnumBusError(p) PROVE TypeOK'
  <2>1. pc' \in [Procs -> PCs] /\ arg' \in [Procs -> Args]
    BY <1>4, ReturnTypes, ProcKinds DEF EnumBusError
  <2>2. ProcTypes'
    BY <1>4, <2>1, ProcKinds DEF EnumBusError, EnumUnlock, ProcTypes
  <2> QED
    BY <1>4, <2>2 DEF EnumBusError, Arrive, procVars
<1>5. ASSUME NEW p \in Threads, NEW devs \in SUBSET Ports,
             EnumBusOK(p, devs)
      PROVE  TypeOK'
  <2>1. ProcTypes'
    BY <1>5, ProcKinds DEF EnumBusOK, Goto, lockVars, ProcTypes, PCs, EnumPCs
  <2> QED
    BY <1>5, <2>1, SavedPaths DEF EnumBusOK, Arrive, procVars
<1>6. ASSUME NEW p \in Threads, NEW s \in 1 .. latestSessionID,
             NEW debug \in BOOLEAN,
             Reap(p, s, debug)
      PROVE  TypeOK'
  <2>1. s \in Nat /\ p \in Procs
    BY ProcKinds DEF SessTypes
  <2>2. [arg EXCEPT ![p].ssid = s, ![p].debug = debug] \in [Procs -> Args]
    BY <2>1, ZenonT(60) DEF ProcTypes, Args
  <2>3. ProcTypes'
    BY <1>6, <2>1, <2>2, ProcKinds DEF Reap, Goto, lockVars, ProcTypes, PCs, EnumPCs, RelPCs
  <2> QED
    BY <1>6, <2>3 DEF Reap, Arrive, procVars
<1>7. ASSUME NEW p \in Threads, EnumReturn(p) PROVE TypeOK'
  <2>1. pc' \in [Procs -> PCs] /\ arg' \in [Procs -> Args]
    BY <1>7, ReturnTypes, ProcKinds DEF EnumReturn
  <2>2. ProcTypes'
    BY <1>7, <2>1, ProcKinds DEF EnumReturn, EnumUnlock, ProcTypes
  <2> QED
    BY <1>7, <2>2 DEF EnumReturn, Arrive, procVars
<1> QED
  BY <1>1, <1>2, <1>3, <1>4, <1>5, <1>6, <1>7 DEF Enumerating

LEMMA ReleaseTypes ==
  ASSUME TypeOK, NEW q \in Procs, Releasing(q)
  PROVE  TypeOK'
<1> USE TypeParts, SamePaths, SameSessions, TypesNext
<1>1. ASSUME NEW p \in Procs, RelLoad(p) PROVE TypeOK'
  <2>1. ProcTypes'
    BY <1>1, RelReturnTypes DEF RelLoad, ProcTypes, PCs, RelPCs
  <2> QED
    BY <1>1, <2>1 DEF RelLoad, Arrive, procVars
<1>2. ASSUME NEW p \in Procs, RelDelete(p) PROVE TypeOK'
  <2>1. ProcTypes'
    BY <1>2, ProcKinds DEF RelDelete, Goto, lockVars, ProcTypes, PCs, RelPCs
  <2>2. SessTypes'
    BY <1>2, SessForms DEF RelDelete, SessTypes
  <2> QED
    BY <1>2, <2>1, <2>2 DEF RelDelete, Arrive, procVars
<1>3. ASSUME NEW p \in Procs, RelClose(p) PROVE TypeOK'
  <2>1. ProcTypes'
    <3>1. CASE /\ pc' = [pc EXCEPT ![p] = "relDrain"]
               /\ UNCHANGED <<arg, libusbMutex, ctx>>
      BY <1>3, <3>1 DEF RelClose, ProcTypes, PCs, RelPCs
    <3>2. CASE \E ok \in BOOLEAN : RelReturn(p, ok)
      BY <1>3, <3>2, RelReturnTypes DEF RelClose
    <3> QED
      BY <1>3, <3>1, <3>2 DEF RelClose
  <2>2. SessTypes'
    <3>1. PICK missed \in SUBSET (IF sess[arg[p].ssid].dev = "open"
                                  THEN Transferring(arg[p].ssid) ELSE sess[arg[p].ssid].missed) :
            sess' = [sess EXCEPT ![arg[p].ssid].dev = "closed", ![arg[p].ssid].missed = missed]
      BY <1>3 DEF RelClose
    <3>2. sess' \in [1 .. latestSessionID -> Sessions]
      <4>1. CASE arg[p].ssid \in 1 .. latestSessionID
        <5>1. sess[arg[p].ssid].missed \subseteq Requests
          BY <4>1 DEF SessTypes, Sessions
        <5>2. missed \subseteq Requests
          BY <5>1 DEF Transferring
        <5> QED
          BY <3>1, <5>2, SessForms
      <4>2. CASE arg[p].ssid \notin 1 .. latestSessionID
        BY <3>1, <4>2 DEF SessTypes
      <4> QED
        BY <4>1, <4>2
    <3> QED
      BY <1>3, <3>2 DEF RelClose, SessTypes
  <2> QED
    BY <1>3, <2>1, <2>2 DEF RelClose, Arrive, procVars
<1>4. ASSUME NEW p \in Procs, RelDrain(p) PROVE TypeOK'
  <2>1. ProcTypes'
    BY <1>4, RelReturnTypes DEF RelDrain
  <2> QED
    BY <1>4, <2>1 DEF RelDrain, Arrive, procVars
<1> QED
  BY <1>1, <1>2, <1>3, <1>4 DEF Releasing

LEMMA AcquireTypes ==
  ASSUME TypeOK, NEW q \in Requests, AcquireStep(q)
  PROVE  TypeOK'
<1> USE TypeParts, SamePaths, SameSessions, TypesNext
<1>1. ASSUME NEW r \in Requests, AcqCheck(r) PROVE TypeOK'
  <2>1. [arg EXCEPT ![r] = NoArg] \in [Procs -> Args]
    BY ArgForms DEF ProcTypes
  <2>2. pc' \in [Procs -> PCs]
    BY <1>1 DEF AcqCheck, Return, ProcTypes, PCs, AcqPCs, RelPCs
  <2>3. libusbMutex' \in Procs \cup {None}
    BY <1>1, ProcKinds DEF AcqCheck, Return, ProcTypes
  <2>4. arg' \in [Procs -> Args]
    BY <1>1, <2>1 DEF AcqCheck, Return, ProcTypes
  <2>5. ProcTypes'
    BY <1>1, <2>1, <2>2, <2>3, <2>4, ProcKinds DEF AcqCheck, ProcTypes
  <2> QED
    BY <1>1, <2>5 DEF AcqCheck, Arrive, procVars
<1>2. ASSUME NEW r \in Requests, AcqPrepare(r) PROVE TypeOK'
  <2>1. [arg EXCEPT ![r] = NoArg] \in [Procs -> Args]
    BY ArgForms DEF ProcTypes
  <2>2. \A b \in BOOLEAN : [arg EXCEPT ![r].reset = b] \in [Procs -> Args]
    BY DEF ProcTypes, Args
  <2>3. (Reset /\ SessionsOf(arg[r].path, ~arg[r].debug) = {}) \in BOOLEAN
    BY ConfigAssumption
  <2>4. arg' \in [Procs -> Args]
    BY <1>2, <2>1, <2>2, <2>3 DEF AcqPrepare, AcqFail, Return
  <2>5. ProcTypes'
    BY <1>2, <2>1, <2>2, <2>3, <2>4, ProcKinds DEF AcqPrepare, Return, AcqFail,
       ProcTypes, PCs, AcqPCs
  <2> QED
    BY <1>2, <2>5 DEF AcqPrepare, Arrive, procVars
<1>3. ASSUME NEW r \in Requests, AcqRetry(r) PROVE TypeOK'
  <2>1. [arg EXCEPT ![r] = NoArg] \in [Procs -> Args]
    BY ArgForms DEF ProcTypes
  <2>2. arg[r].tries < MaxTries => [arg EXCEPT ![r].tries = @ + 1] \in [Procs -> Args]
    BY ProcKinds, ConfigAssumption DEF ProcTypes, Args
  <2>3. ProcTypes'
    BY <1>3, <2>1, <2>2, ProcKinds DEF AcqRetry, Return, AcqFail, ProcTypes, PCs, AcqPCs
  <2> QED
    BY <1>3, <2>3 DEF AcqRetry, Arrive, procVars
<1>4. ASSUME NEW r \in Requests, AcqConnect(r) PROVE TypeOK'
  <2>1. pc' \in [Procs -> PCs] /\ arg' \in [Procs -> Args]
    BY <1>4, ReturnTypes, ProcKinds DEF AcqConnect
  <2>2. arg[r].path \in TextsOf(Nat) /\ arg[r].debug \in BOOLEAN
    BY ProcKinds DEF ProcTypes, Args
  <2>3. ProcTypes'
    BY <1>4, <2>1, <2>2, ProcKinds DEF AcqConnect, ProcTypes
  <2>4. SessTypes'
    <3>1. NewSession(arg[r].path, arg[r].debug) \in Sessions
      BY <2>2 DEF NewSession, Sessions
    <3>2. latestSessionID' = latestSessionID + 1 /\ latestSessionID' \in Nat
      BY <1>4 DEF AcqConnect, SessTypes
    <3>3. sess' \in [1 .. latestSessionID' -> Sessions]
      BY <1>4, <3>1, <3>2 DEF AcqConnect, SessTypes
    <3>4. table' \in [BOOLEAN -> SUBSET (1 .. latestSessionID')]
      BY <1>4, <2>2, <3>2 DEF AcqConnect, SessTypes
    <3> QED
      BY <3>2, <3>3, <3>4 DEF SessTypes
  <2> QED
    BY <1>4, <2>3, <2>4 DEF AcqConnect, Arrive, procVars
<1> QED
  BY <1>1, <1>2, <1>3, <1>4 DEF AcquireStep

LEMMA CallTypes ==
  ASSUME TypeOK, CallsCounted, NEW q \in Requests, CallStep(q)
  PROVE  TypeOK'
<1> USE TypeParts, SamePaths, SameSessions, TypesNext
<1>1. ASSUME NEW r \in Requests, CallBegin(r) PROVE TypeOK'
  <2>1. ProcTypes'
    BY <1>1, ProcKinds DEF CallBegin, Goto, lockVars, ProcTypes, PCs, CallPCs
  <2> QED
    BY <1>1, <2>1, ProgressFinite DEF CallBegin, Arrive, procVars
<1>2. ASSUME NEW r \in Requests, CallLoad(r) PROVE TypeOK'
  <2>1. ~Spawn(r) => UNCHANGED arg
    BY <1>2 DEF CallLoad
  <2>2. ~Spawn(r) => \/ pc' = [pc EXCEPT ![r] = "callCAS"]
                   \/ pc' = [pc EXCEPT ![r] = "callEnd"]
    BY <1>2 DEF CallLoad
  <2>3. pc' \in [Procs -> PCs] /\ arg' \in [Procs -> Args]
    BY <2>1, <2>2, SpawnTypes DEF ProcTypes, PCs, CallPCs
  <2>4. ProcTypes'
    BY <1>2, <2>1, <2>2, <2>3, ProcKinds DEF CallLoad, lockVars, ProcTypes
  <2> QED
    BY <1>2, <2>4 DEF CallLoad, Arrive, procVars
<1>3. ASSUME NEW r \in Requests, CallCAS(r) PROVE TypeOK'
  <2>1. ~Spawn(r) => UNCHANGED arg
    BY <1>3 DEF CallCAS
  <2>2. ~Spawn(r) => \/ pc' = [pc EXCEPT ![r] = "callCAS"]
                   \/ pc' = [pc EXCEPT ![r] = "callEnd"]
    BY <1>3 DEF CallCAS
  <2>3. pc' \in [Procs -> PCs] /\ arg' \in [Procs -> Args]
    BY <2>1, <2>2, SpawnTypes DEF ProcTypes, PCs, CallPCs
  <2>4. ProcTypes'
    BY <1>3, <2>1, <2>2, <2>3, ProcKinds DEF CallCAS, lockVars, ProcTypes
  <2>5. [sess EXCEPT ![Acquired(r)].call = 1] \in [1 .. latestSessionID -> Sessions]
    BY SessForms
  <2>6. SessTypes'
    BY <1>3, <2>5 DEF CallCAS, SessTypes
  <2> QED
    BY <1>3, <2>4, <2>6 DEF CallCAS, Arrive, procVars
<1>4. ASSUME NEW r \in Requests, WriteLock(r) PROVE TypeOK'
  <2>1. ProcTypes'
    BY <1>4, ProcKinds DEF WriteLock, Goto, lockVars, ProcTypes, PCs, CallPCs
  <2>2. SessTypes'
    BY <1>4, SessForms DEF WriteLock, SessTypes
  <2> QED
    BY <1>4, <2>1, <2>2 DEF WriteLock, Arrive, procVars
<1>5. ASSUME NEW r \in Requests, WriteDone(r) PROVE TypeOK'
  <2>1. pc' \in [Procs -> PCs]
    BY <1>5 DEF WriteDone, Goto, ProcTypes, PCs, CallPCs
  <2>2. ProcTypes'
    BY <1>5, <2>1, ProcKinds DEF WriteDone, Goto, lockVars, ProcTypes
  <2>3. SessTypes'
    BY <1>5, SessForms DEF WriteDone, SessTypes
  <2> QED
    BY <1>5, <2>2, <2>3 DEF WriteDone, Arrive, procVars
<1>6. ASSUME NEW r \in Requests, ReadRefused(r) PROVE TypeOK'
  <2>1. ProcTypes'
    BY <1>6, ProcKinds DEF ReadRefused, Goto, lockVars, ProcTypes, PCs, CallPCs
  <2> QED
    BY <1>6, <2>1 DEF ReadRefused, Arrive, procVars
<1>7. ASSUME NEW r \in Requests, ReadLock(r) PROVE TypeOK'
  <2>1. ProcTypes'
    BY <1>7, ProcKinds DEF ReadLock, Goto, lockVars, ProcTypes, PCs, CallPCs
  <2>2. SessTypes'
    BY <1>7, SessForms DEF ReadLock, SessTypes
  <2> QED
    BY <1>7, <2>1, <2>2 DEF ReadLock, Arrive, procVars
<1>8. ASSUME NEW r \in Requests, ReadDone(r) PROVE TypeOK'
  <2>1. ProcTypes'
    BY <1>8, ProcKinds DEF ReadDone, Goto, lockVars, ProcTypes, PCs, CallPCs
  <2>2. SessTypes'
    BY <1>8, SessForms DEF ReadDone, SessTypes
  <2> QED
    BY <1>8, <2>1, <2>2 DEF ReadDone, Arrive, procVars
<1>9. ASSUME NEW r \in Requests, CallFinish(r) PROVE TypeOK'
  <2>1. ProcTypes'
    BY <1>9, ProcKinds DEF CallFinish, Goto, lockVars, ProcTypes, PCs, CallPCs
  <2> QED
    BY <1>9, <2>1 DEF CallFinish, Arrive, procVars
<1>10. ASSUME NEW r \in Requests, CallUnflag(r) PROVE TypeOK'
  <2>1. ProcTypes'
    BY <1>10, ProcKinds DEF CallUnflag, Goto, lockVars, ProcTypes, PCs, CallPCs
  <2>2. SessTypes'
    BY <1>10, SessForms DEF CallUnflag, SessTypes
  <2> QED
    BY <1>10, <2>1, <2>2 DEF CallUnflag, Arrive, procVars
<1>11. ASSUME NEW r \in Requests, CallEnd(r) PROVE TypeOK'
  <2>1. pc' \in [Procs -> PCs] /\ arg' \in [Procs -> Args]
    BY <1>11, ReturnTypes, ProcKinds DEF CallEnd
  <2>2. ProcTypes'
    BY <1>11, <2>1, ProcKinds DEF CallEnd, lockVars, ProcTypes
  <2>3. callsInProgress' \in Nat
    <3>1. r \in InProgress
      BY <1>11 DEF CallEnd, InProgress, CallPCs
    <3>2. /\ Cardinality(InProgress \ {r}) = Cardinality(InProgress) - 1
          /\ Cardinality(InProgress \ {r}) \in Nat
      BY <3>1, ProgressFinite, FS_RemoveElement, FS_CardinalityType
    <3> QED
      BY <1>11, <3>2 DEF CallEnd, CallsCounted
  <2> QED
    BY <1>11, <2>2, <2>3 DEF CallEnd, Arrive, procVars
<1> QED
  BY <1>1, <1>2, <1>3, <1>4, <1>5, <1>6, <1>7, <1>8, <1>9, <1>10, <1>11 DEF CallStep

LEMMA WatchTypes ==
  ASSUME TypeOK, NEW q \in Requests, Watching(q)
  PROVE  TypeOK'
<1> USE TypeParts, SamePaths, SameSessions, TypesNext
<1>1. ASSUME NEW r \in Requests, WatchFinished(r) PROVE TypeOK'
  <2>1. pc' \in [Procs -> PCs] /\ arg' \in [Procs -> Args]
    BY <1>1, ReturnTypes, ProcKinds DEF WatchFinished
  <2>2. ProcTypes'
    BY <1>1, <2>1, ProcKinds DEF WatchFinished, DropCtx, lockVars, ProcTypes
  <2> QED
    BY <1>1, <2>2 DEF WatchFinished, Arrive, procVars
<1>2. ASSUME NEW r \in Requests, WatchClosed(r) PROVE TypeOK'
  <2>1. ProcTypes'
    BY <1>2, ProcKinds DEF WatchClosed, Goto, lockVars, ProcTypes, PCs, RelPCs
  <2> QED
    BY <1>2, <2>1 DEF WatchClosed, Arrive, procVars
<1> QED
  BY <1>1, <1>2 DEF Watching

LEMMA InitTypes == Init => TypeOK /\ CallsCounted
<1> SUFFICES ASSUME Init PROVE TypeOK /\ CallsCounted
  OBVIOUS
<1>1. PathsTypeOK
  BY SMTT(30) DEF Init, PathsInit, PathsTypeOK
<1>2. ProcTypes
  BY ArgForms DEF Init, ProcTypes, PCs
<1>3. SessTypes
  BY DEF Init, SessTypes
<1>4. InProgress = {}
  BY ProcKinds DEF Init, InProgress, CallPCs
<1> QED
  BY <1>1, <1>2, <1>3, <1>4, TypeParts, FS_EmptySet DEF Init, CallsCounted

LEMMA SameCount ==
  ASSUME CallsCounted, UNCHANGED callsInProgress, InProgress' = InProgress
  PROVE  CallsCounted'
BY DEF CallsCounted

\* a step enters a call in CallBegin and leaves it in CallEnd, nowhere else
LEMMA CountStep ==
  ASSUME TypeOK, CallsCounted, Next
  PROVE  CallsCounted'
<1> USE SameCount DEF InProgress, ProcTypes
<1> ProcTypes
  BY TypeParts
<1>1. ASSUME NEW port \in Ports, Plug(port) PROVE CallsCounted'
  BY <1>1, ProcKinds DEF Plug, procVars, CallPCs
<1>2. ASSUME NEW port \in Ports, Unplug(port) PROVE CallsCounted'
  BY <1>2, ProcKinds DEF Unplug, procVars, CallPCs
<1>3. ASSUME NEW r \in Requests, StartEnumerate(r) PROVE CallsCounted'
  BY <1>3, ProcKinds DEF StartEnumerate, Arrive, CallPCs
<1>4. ASSUME NEW r \in Requests, NEW path \in SentPaths,
             NEW prev \in 0 .. latestSessionID, NEW debug \in Interfaces,
             StartAcquire(r, path, prev, debug)
      PROVE  CallsCounted'
  BY <1>4, ProcKinds DEF StartAcquire, Arrive, CallPCs
<1>5. ASSUME NEW r \in Requests, NEW s \in 1 .. latestSessionID,
             StartRelease(r, s)
      PROVE  CallsCounted'
  BY <1>5, ProcKinds DEF StartRelease, Arrive, CallPCs
<1>6. ASSUME NEW r \in Requests, NEW s \in 1 .. latestSessionID,
             NEW mode \in CallModes,
             StartCall(r, s, mode)
      PROVE  CallsCounted'
  BY <1>6, ProcKinds DEF StartCall, Arrive, CallPCs
<1>7. ASSUME NEW r \in Requests, ClientClose(r) PROVE CallsCounted'
  BY <1>7, ProcKinds DEF ClientClose, CallPCs
<1>8. ASSUME BackgroundTick PROVE CallsCounted'
  BY <1>8, ProcKinds DEF BackgroundTick, Goto, CallPCs
<1>9. ASSUME NEW p \in Threads, EnumLock(p) PROVE CallsCounted'
  BY <1>9, ProcKinds DEF EnumLock, Goto, CallPCs
<1>10. ASSUME NEW p \in Threads, EnumCalls(p) PROVE CallsCounted'
  BY <1>10, ProcKinds DEF EnumCalls, Goto, CallPCs
<1>11. ASSUME NEW p \in Threads, EnumBusError(p) PROVE CallsCounted'
  BY <1>11, ProcKinds DEF EnumBusError, Return, CallPCs
<1>12. ASSUME NEW p \in Threads, NEW devs \in SUBSET Ports,
              EnumBusOK(p, devs)
       PROVE  CallsCounted'
  BY <1>12, ProcKinds DEF EnumBusOK, Goto, CallPCs
<1>13. ASSUME NEW p \in Threads, NEW s \in 1 .. latestSessionID,
              NEW debug \in BOOLEAN,
              Reap(p, s, debug)
       PROVE  CallsCounted'
  BY <1>13, ProcKinds DEF Reap, Goto, CallPCs
<1>14. ASSUME NEW p \in Threads, EnumReturn(p) PROVE CallsCounted'
  BY <1>14, ProcKinds DEF EnumReturn, Return, CallPCs
<1>15. ASSUME NEW p \in Procs, RelLoad(p) PROVE CallsCounted'
  BY <1>15, ProcKinds DEF RelLoad, Return, RelReturn, CallPCs
<1>16. ASSUME NEW p \in Procs, RelDelete(p) PROVE CallsCounted'
  BY <1>16, ProcKinds DEF RelDelete, Goto, CallPCs
<1>17. ASSUME NEW p \in Procs, RelClose(p) PROVE CallsCounted'
  BY <1>17, ProcKinds DEF RelClose, Return, RelReturn, CallPCs
<1>18. ASSUME NEW r \in Requests, AcqCheck(r) PROVE CallsCounted'
  BY <1>18, ProcKinds DEF AcqCheck, Return, CallPCs
<1>19. ASSUME NEW r \in Requests, AcqPrepare(r) PROVE CallsCounted'
  BY <1>19, ProcKinds DEF AcqPrepare, Return, AcqFail, CallPCs
<1>20. ASSUME NEW r \in Requests, AcqRetry(r) PROVE CallsCounted'
  BY <1>20, ProcKinds DEF AcqRetry, Return, AcqFail, CallPCs
<1>21. ASSUME NEW r \in Requests, AcqConnect(r) PROVE CallsCounted'
  BY <1>21, ProcKinds DEF AcqConnect, Return, CallPCs
<1>22. ASSUME NEW r \in Requests, CallBegin(r) PROVE CallsCounted'
  <2>1. r \notin InProgress /\ InProgress' = InProgress \cup {r}
    BY <1>22, ProcKinds DEF CallBegin, Goto, CallPCs
  <2>2. Cardinality(InProgress \cup {r}) = Cardinality(InProgress) + 1
    BY <2>1, ProgressFinite, FS_AddElement
  <2> QED
    BY <1>22, <2>1, <2>2 DEF CallBegin, CallsCounted
<1>23. ASSUME NEW r \in Requests, CallLoad(r) PROVE CallsCounted'
  BY <1>23, ProcKinds DEF CallLoad, Spawn, CallPCs
<1>24. ASSUME NEW r \in Requests, CallCAS(r) PROVE CallsCounted'
  BY <1>24, ProcKinds DEF CallCAS, Spawn, CallPCs
<1>25. ASSUME NEW r \in Requests, WriteLock(r) PROVE CallsCounted'
  BY <1>25, ProcKinds DEF WriteLock, Goto, CallPCs
<1>26. ASSUME NEW r \in Requests, WriteDone(r) PROVE CallsCounted'
  BY <1>26, ProcKinds DEF WriteDone, Goto, CallPCs
<1>27. ASSUME NEW r \in Requests, ReadRefused(r) PROVE CallsCounted'
  BY <1>27, ProcKinds DEF ReadRefused, Goto, CallPCs
<1>28. ASSUME NEW r \in Requests, ReadLock(r) PROVE CallsCounted'
  BY <1>28, ProcKinds DEF ReadLock, Goto, CallPCs
<1>29. ASSUME NEW r \in Requests, ReadDone(r) PROVE CallsCounted'
  BY <1>29, ProcKinds DEF ReadDone, Goto, CallPCs
<1>30. ASSUME NEW r \in Requests, CallFinish(r) PROVE CallsCounted'
  BY <1>30, ProcKinds DEF CallFinish, Goto, CallPCs
<1>31. ASSUME NEW r \in Requests, CallUnflag(r) PROVE CallsCounted'
  BY <1>31, ProcKinds DEF CallUnflag, Goto, CallPCs
<1>32. ASSUME NEW r \in Requests, CallEnd(r) PROVE CallsCounted'
  <2>1. r \in InProgress /\ InProgress' = InProgress \ {r}
    BY <1>32, ProcKinds DEF CallEnd, Return, CallPCs
  <2>2. Cardinality(InProgress \ {r}) = Cardinality(InProgress) - 1
    BY <2>1, ProgressFinite, FS_RemoveElement
  <2> QED
    BY <1>32, <2>1, <2>2 DEF CallEnd, CallsCounted
<1>33. ASSUME NEW r \in Requests, WatchFinished(r) PROVE CallsCounted'
  BY <1>33, ProcKinds DEF WatchFinished, Return, CallPCs
<1>34. ASSUME NEW r \in Requests, WatchClosed(r) PROVE CallsCounted'
  BY <1>34, ProcKinds DEF WatchClosed, Goto, CallPCs
<1>35. ASSUME NEW p \in Procs, RelDrain(p) PROVE CallsCounted'
  BY <1>35, ProcKinds DEF RelDrain, Return, RelReturn, CallPCs
<1> QED
  BY <1>1, <1>2, <1>3, <1>4, <1>5, <1>6, <1>7, <1>8, <1>9, <1>10, <1>11, <1>12, <1>13,
     <1>14, <1>15, <1>16, <1>17, <1>18, <1>19, <1>20, <1>21, <1>22, <1>23, <1>24, <1>25,
     <1>26, <1>27, <1>28, <1>29, <1>30, <1>31, <1>32, <1>33, <1>34, <1>35
     DEF Next, Environment, Enumerating, Releasing, AcquireStep, CallStep, Watching

LEMMA TypeStep ==
  ASSUME TypeOK, CallsCounted, [Next]_vars
  PROVE  TypeOK' /\ CallsCounted'
<1>1. CASE UNCHANGED vars
  BY <1>1 DEF vars, pathVars, lockVars, sessVars, procVars, TypeOK, PathsTypeOK,
     CallsCounted, InProgress
<1>2. CASE Next
  <2>1. TypeOK'
    BY <1>2, EnvironmentTypes, EnumerationTypes, ReleaseTypes, AcquireTypes, CallTypes,
       WatchTypes DEF Next
  <2> QED
    BY <1>2, <2>1, CountStep
<1> QED
  BY <1>1, <1>2

(***************************************************************************)
(* Every variable keeps its type, and Core.callsInProgress is the number   *)
(* of requests between the increment and the deferred decrement of Call.   *)
(***************************************************************************)
THEOREM TypeCorrect == Spec => [](TypeOK /\ CallsCounted)
<1>1. Init => TypeOK /\ CallsCounted
  BY InitTypes
<1>2. TypeOK /\ CallsCounted /\ [Next]_vars => TypeOK' /\ CallsCounted'
  BY TypeStep
<1> QED
  BY <1>1, <1>2, PTL DEF Spec
-----------------------------------------------------------------------------
(***************************************************************************)
(* The inductive invariant of Core, and what each step does to the parts   *)
(* of the state it speaks of: where a process can go and which mutexes it  *)
(* then holds, which steps begin or end a session, which touch the flag or *)
(* the handle of one.  The last part puts them together.                   *)
(***************************************************************************)
\* what a process is doing agrees with where it is
OpsAgree ==
  \A p \in Procs :
    /\ pc[p] \in EnumPCs => arg[p].op = "enumerate"
    /\ p \notin Threads => arg[p].op \in {"none", "watch"}
    /\ pc[p] \in AcqPCs => arg[p].op = "acquire"
    /\ pc[p] \in CallPCs \cup {"callBegin"} => arg[p].op = "call"
    /\ pc[p] = "watch" => arg[p].op = "watch"
    /\ pc[p] \in RelPCs => arg[p].op \in {"enumerate", "acquire", "release", "watch"}

\* an enumeration that has all three mutexes
InEnum(p) ==
  \/ pc[p] \in {"enumBus", "reap"}
  \/ pc[p] \in RelPCs /\ arg[p].op = "enumerate"

\* an acquire past its first checks
InAcquire(p) ==
  \/ pc[p] \in {"acqPrepare", "acqConnect"}
  \/ pc[p] \in RelPCs /\ arg[p].op = "acquire"

LocksHeld ==
  \A p \in Procs :
    /\ pc[p] = "enumCalls" \/ InEnum(p) \/ InAcquire(p) => libusbMutex = p
    /\ InEnum(p) => callMutex = p /\ lastInfosMutex = p

\* no call is counted while the buses are listed
BusQuiet == \A p \in Procs : pc[p] = "enumBus" => callsInProgress = 0

\* between the listing of the buses and the return of Enumerate sessions may
\* be left for a path that was dropped, at no other time
Reaping(p) == InEnum(p) /\ pc[p] # "enumBus"

Reaped ==
  (\A p \in Procs : ~Reaping(p)) =>
    \A debug \in BOOLEAN : \A s \in table[debug] : Atoi(sess[s].path) \in lastInfos

\* what an acquire relies on from its first checks to its last attempt
Relies(p) ==
  InAcquire(p) =>
    /\ \A s \in table[arg[p].debug] :
         sess[s].path = arg[p].path =>
           pc[p] \in {"relLoad", "relDelete"} /\ s = arg[p].ssid
    /\ pc[p] = "acqConnect" =>
         /\ Atoi(arg[p].path) \in lastInfos
         /\ arg[p].reset => \A s \in table[~arg[p].debug] : sess[s].path # arg[p].path

AcquireRelies == \A p \in Procs : Relies(p)

NamesListed == lastInfos = DOMAIN usbPaths /\ biggestID <= MaxPaths

\* a request spawns its watcher at most once
WatchersWait ==
  \A r \in Requests :
    pc[r] \in {"callBegin", "callLoad", "callCAS"} => pc[Watcher(r)] = "idle"

\* a call works on a session that was made, and on its own flag
FlagsHeld ==
  \A r \in Requests :
    /\ pc[r] \in CallPCs \cup {"callBegin"} => Acquired(r) \in 1 .. latestSessionID
    /\ InCall(r) => sess[Acquired(r)].call = 1
    /\ pc[r] = "callUnflag" => InCall(r)

\* the inductive invariant
CoreInv ==
  /\ TypeOK /\ CallsCounted
  /\ OpsAgree /\ LocksHeld /\ BusQuiet
  /\ NamesListed /\ OneSessionPerPath /\ Reaped /\ AcquireRelies
  /\ WatchersWait /\ FlagsHeld /\ OneCallPerSession /\ NoLostHandle

\* a step of p alone: the others stay where they are
Alone(p) == \A q \in Procs : q # p => pc'[q] = pc[q] /\ arg'[q] = arg[q]

\* what the steps with several outcomes do to their process
LEMMA RelLoadMoves ==
  ASSUME ProcTypes, NEW p \in Procs, RelLoad(p)
  PROVE  /\ Alone(p) /\ pc[p] = "relLoad"
         /\ UNCHANGED <<callMutex, lastInfosMutex, callsInProgress>>
         /\ \/ /\ pc'[p] = "relDelete" /\ arg'[p] = arg[p]
               /\ arg[p].ssid \in table[arg[p].debug]
               /\ UNCHANGED libusbMutex
            \/ /\ arg[p].op = "enumerate" /\ pc'[p] = "reap" /\ arg'[p].op = "enumerate"
               /\ UNCHANGED libusbMutex
            \/ /\ arg[p].op = "acquire" /\ pc'[p] = "idle" /\ arg'[p] = NoArg
               /\ libusbMutex' = None
            \/ /\ arg[p].op \notin {"enumerate", "acquire"} /\ pc'[p] = "idle"
               /\ arg'[p] = NoArg /\ UNCHANGED libusbMutex
<1> USE DEF ProcTypes, Alone
<1>1. CASE arg[p].ssid \in table[arg[p].debug]
  BY <1>1 DEF RelLoad
<1>2. CASE arg[p].ssid \notin table[arg[p].debug]
  <2>1. /\ RelReturn(p, FALSE) /\ pc[p] = "relLoad"
        /\ UNCHANGED <<callMutex, lastInfosMutex, callsInProgress>>
    BY <1>2 DEF RelLoad
  <2>2. CASE arg[p].op = "enumerate"
    BY <2>1, <2>2 DEF RelReturn, Args
  <2>3. CASE arg[p].op = "acquire"
    BY <2>1, <2>3 DEF RelReturn, Return
  <2>4. CASE arg[p].op \notin {"enumerate", "acquire"}
    BY <2>1, <2>4 DEF RelReturn, Return
  <2> QED
    BY <2>2, <2>3, <2>4
<1> QED
  BY <1>1, <1>2

\* the request is turned down, or goes on alone with the interface
LEMMA AcqCheckMoves ==
  ASSUME ProcTypes, SessTypes, NEW p \in Procs, AcqCheck(p)
  PROVE  /\ Alone(p) /\ pc[p] = "acqLock" /\ libusbMutex = None
         /\ UNCHANGED <<callMutex, lastInfosMutex, callsInProgress>>
         /\ \/ pc'[p] = "idle" /\ UNCHANGED libusbMutex
            \/ /\ pc'[p] = "relLoad" /\ arg'[p] = arg[p] /\ libusbMutex' = p
               /\ arg[p].ssid \in SessionsOf(arg[p].path, arg[p].debug)
            \/ /\ pc'[p] = "acqPrepare" /\ arg'[p] = arg[p] /\ libusbMutex' = p
               /\ SessionsOf(arg[p].path, arg[p].debug) = {}
<1> USE DEF ProcTypes, Alone
<1> DEFINE found == SessionsOf(arg[p].path, arg[p].debug)
<1>1. PICK prevSession \in IF found = {} THEN {0} ELSE found :
         \/ Return(p) /\ UNCHANGED libusbMutex
         \/ /\ prevSession = arg[p].ssid
            /\ libusbMutex' = p
            /\ pc' = [pc EXCEPT ![p] = IF arg[p].ssid # 0 THEN "relLoad" ELSE "acqPrepare"]
            /\ UNCHANGED arg
  BY DEF AcqCheck
<1>2. /\ pc[p] = "acqLock" /\ libusbMutex = None
      /\ UNCHANGED <<callMutex, lastInfosMutex, callsInProgress>>
  BY DEF AcqCheck
<1>3. found # {} => \A s \in found : s # 0
  BY DEF SessionsOf, SessTypes, Args
<1> HIDE DEF found
<1>4. CASE Return(p) /\ UNCHANGED libusbMutex
  BY <1>2, <1>4 DEF Return
<1> QED
  BY <1>1, <1>2, <1>3, <1>4 DEF found

\* a failed acquire gives libusbMutex back
LEMMA AcqFailMoves ==
  ASSUME ProcTypes, NEW p \in Procs, AcqFail(p)
  PROVE  Alone(p) /\ pc'[p] = "idle" /\ arg'[p] = NoArg /\ libusbMutex' = None
BY DEF ProcTypes, Alone, AcqFail, Return

\* the path is still presented, or the acquire fails
LEMMA AcqPrepareMoves ==
  ASSUME ProcTypes, NEW p \in Procs, AcqPrepare(p)
  PROVE  /\ Alone(p) /\ pc[p] = "acqPrepare"
         /\ UNCHANGED <<callMutex, lastInfosMutex, callsInProgress>>
         /\ \/ pc'[p] = "idle" /\ libusbMutex' = None
            \/ /\ pc'[p] = "acqConnect" /\ UNCHANGED libusbMutex
               /\ arg'[p].op = arg[p].op /\ arg'[p].path = arg[p].path
               /\ arg'[p].debug = arg[p].debug /\ arg'[p].ssid = arg[p].ssid
               /\ Atoi(arg[p].path) \in DOMAIN usbPaths
               /\ arg'[p].reset => SessionsOf(arg[p].path, ~arg[p].debug) = {}
<1>1. CASE Atoi(arg[p].path) \in DOMAIN usbPaths
  <2> DEFINE free == Reset /\ SessionsOf(arg[p].path, ~arg[p].debug) = {}
  <2>1. /\ pc[p] = "acqPrepare" /\ pc' = [pc EXCEPT ![p] = "acqConnect"]
        /\ arg' = [arg EXCEPT ![p].reset = free]
        /\ UNCHANGED <<libusbMutex, callMutex, lastInfosMutex, callsInProgress>>
    BY <1>1 DEF AcqPrepare
  <2>2. free => SessionsOf(arg[p].path, ~arg[p].debug) = {}
    OBVIOUS
  <2> HIDE DEF free
  <2> QED
    BY <1>1, <2>1, <2>2 DEF ProcTypes, Alone, Args
<1>2. CASE Atoi(arg[p].path) \notin DOMAIN usbPaths
  BY <1>2, AcqFailMoves DEF AcqPrepare
<1> QED
  BY <1>1, <1>2

\* another attempt, or the acquire fails
LEMMA AcqRetryMoves ==
  ASSUME ProcTypes, NEW p \in Procs, AcqRetry(p)
  PROVE  /\ Alone(p) /\ pc[p] = "acqConnect"
         /\ UNCHANGED <<callMutex, lastInfosMutex, callsInProgress>>
         /\ \/ pc'[p] = "idle" /\ libusbMutex' = None
            \/ /\ pc'[p] = "acqConnect" /\ UNCHANGED libusbMutex
               /\ arg'[p].op = arg[p].op /\ arg'[p].path = arg[p].path
               /\ arg'[p].debug = arg[p].debug /\ arg'[p].ssid = arg[p].ssid
               /\ arg'[p].reset = arg[p].reset
<1>1. CASE arg[p].tries < MaxTries
  BY <1>1 DEF AcqRetry, ProcTypes, Alone, Args
<1>2. CASE ~(arg[p].tries < MaxTries)
  BY <1>2, AcqFailMoves DEF AcqRetry
<1> QED
  BY <1>1, <1>2

\* a disconnected session goes to release
LEMMA ReapMoves ==
  ASSUME ProcTypes, NEW p \in Procs, NEW s, NEW debug, Reap(p, s, debug)
  PROVE  /\ Alone(p) /\ pc[p] = "reap" /\ pc'[p] = "relLoad" /\ arg'[p].op = arg[p].op
         /\ UNCHANGED <<lockVars, callsInProgress>>
BY DEF ProcTypes, Args, Alone, Reap, Goto

\* a call that may spawn its watcher
LEMMA CallMoves ==
  ASSUME ProcTypes, NEW r \in Requests, CallLoad(r) \/ CallCAS(r)
  PROVE  /\ \A q \in Procs : q # r /\ q # Watcher(r) => pc'[q] = pc[q] /\ arg'[q] = arg[q]
         /\ pc[r] \in {"callLoad", "callCAS"}
         /\ pc'[r] \in {"callCAS", "callRead", "callWrite", "callEnd"}
         /\ arg'[r] = arg[r]
         /\ \/ pc'[Watcher(r)] = pc[Watcher(r)] /\ arg'[Watcher(r)] = arg[Watcher(r)]
            \/ /\ pc'[Watcher(r)] = "watch" /\ arg'[Watcher(r)].op = "watch"
               /\ pc'[r] \in {"callRead", "callWrite"}
         /\ pc'[r] \in {"callRead", "callWrite"} =>
              pc[r] = "callCAS" \/ arg[r].mode = "write"
         /\ pc[r] = "callCAS" => CallCAS(r)
         /\ UNCHANGED <<lockVars, callsInProgress>>
<1> USE DEF ProcTypes
<1>1. r \in Procs /\ Watcher(r) \in Procs /\ r # Watcher(r)
  BY ProcKinds
<1>2. /\ pc[r] \in {"callLoad", "callCAS"}
      /\ pc[r] = "callCAS" => CallCAS(r)
      /\ UNCHANGED <<lockVars, callsInProgress>>
  <2>1. CallLoad(r) => pc[r] = "callLoad" /\ UNCHANGED <<lockVars, callsInProgress>>
    BY DEF CallLoad
  <2>2. CallCAS(r) => pc[r] = "callCAS" /\ UNCHANGED <<lockVars, callsInProgress>>
    BY DEF CallCAS
  <2> QED
    BY <2>1, <2>2
<1>3. \/ Spawn(r) /\ (pc[r] = "callLoad" => arg[r].mode = "write")
      \/ pc' = [pc EXCEPT ![r] = "callEnd"] /\ UNCHANGED arg
      \/ pc' = [pc EXCEPT ![r] = "callCAS"] /\ UNCHANGED arg
  BY DEF CallLoad, CallCAS
<1>4. CASE Spawn(r) /\ (pc[r] = "callLoad" => arg[r].mode = "write")
  BY <1>1, <1>2, <1>4 DEF Spawn, NoArg
<1>5. CASE \/ pc' = [pc EXCEPT ![r] = "callEnd"] /\ UNCHANGED arg
           \/ pc' = [pc EXCEPT ![r] = "callCAS"] /\ UNCHANGED arg
  BY <1>1, <1>2, <1>5
<1> QED
  BY <1>3, <1>4, <1>5

\* a release that is back in its caller
Back(p) ==
  \/ /\ arg[p].op = "enumerate" /\ pc'[p] = "reap" /\ arg'[p].op = "enumerate"
     /\ UNCHANGED libusbMutex
  \/ /\ arg[p].op = "acquire" /\ pc'[p] = "acqPrepare" /\ arg'[p] = arg[p]
     /\ UNCHANGED libusbMutex
  \/ /\ arg[p].op = "acquire" /\ pc'[p] = "idle" /\ arg'[p] = NoArg
     /\ libusbMutex' = None
  \/ /\ arg[p].op \notin {"enumerate", "acquire"} /\ pc'[p] = "idle"
     /\ arg'[p] = NoArg /\ UNCHANGED libusbMutex

LEMMA BackMoves ==
  ASSUME ProcTypes, NEW p \in Procs, NEW ok \in BOOLEAN, RelReturn(p, ok)
  PROVE  Alone(p) /\ Back(p)
<1> USE DEF ProcTypes, Alone, Back
<1>1. CASE arg[p].op = "enumerate"
  BY <1>1 DEF RelReturn, Args
<1>2. CASE arg[p].op = "acquire"
  BY <1>2 DEF RelReturn, Return
<1>3. CASE arg[p].op \notin {"enumerate", "acquire"}
  BY <1>3 DEF RelReturn, Return
<1> QED
  BY <1>1, <1>2, <1>3

\* RelClose goes back to its caller or waits for a read it missed
LEMMA RelCloseMoves ==
  ASSUME ProcTypes, NEW p \in Procs, RelClose(p)
  PROVE  /\ Alone(p) /\ pc[p] = "relClose"
         /\ UNCHANGED <<callMutex, lastInfosMutex, callsInProgress>>
         /\ \/ Back(p)
            \/ /\ pc'[p] = "relDrain" /\ arg'[p] = arg[p] /\ arg[p].op # "enumerate"
               /\ UNCHANGED libusbMutex
<1>1. /\ pc[p] = "relClose"
      /\ UNCHANGED <<callMutex, lastInfosMutex, callsInProgress>>
      /\ \/ \E ok \in BOOLEAN : RelReturn(p, ok)
         \/ /\ pc' = [pc EXCEPT ![p] = "relDrain"] /\ arg[p].op # "enumerate"
            /\ UNCHANGED <<arg, libusbMutex>>
  BY DEF RelClose
<1>2. CASE \E ok \in BOOLEAN : RelReturn(p, ok)
  BY <1>1, <1>2, BackMoves
<1>3. CASE /\ pc' = [pc EXCEPT ![p] = "relDrain"] /\ arg[p].op # "enumerate"
           /\ UNCHANGED <<arg, libusbMutex>>
  BY <1>1, <1>3 DEF ProcTypes, Alone
<1> QED
  BY <1>1, <1>2, <1>3

\* RelDrain goes back to its caller
LEMMA RelDrainMoves ==
  ASSUME ProcTypes, NEW p \in Procs, RelDrain(p)
  PROVE  /\ Alone(p) /\ pc[p] = "relDrain" /\ Back(p)
         /\ UNCHANGED <<callMutex, lastInfosMutex, callsInProgress>>
BY BackMoves DEF RelDrain

\* RelClose changes the handle of a session and the transfers missed on it
LEMMA CloseEffect ==
  ASSUME SessTypes, NEW p, RelClose(p)
  PROVE  /\ UNCHANGED <<pathVars, latestSessionID, table>>
         /\ \A s \in 1 .. latestSessionID :
              /\ sess'[s].path = sess[s].path /\ sess'[s].debug = sess[s].debug
              /\ sess'[s].call = sess[s].call
              /\ sess'[s].dev = IF s = arg[p].ssid THEN "closed" ELSE sess[s].dev
<1>1. PICK missed :
        sess' = [sess EXCEPT ![arg[p].ssid].dev = "closed", ![arg[p].ssid].missed = missed]
  BY DEF RelClose
<1>2. UNCHANGED <<pathVars, latestSessionID, table>>
  BY DEF RelClose
<1> QED
  BY <1>1, <1>2 DEF SessTypes, Sessions

\* the new session is in the table of its interface, under a new number
LEMMA ConnectMoves ==
  ASSUME ProcTypes, SessTypes, NEW p \in Procs, AcqConnect(p)
  PROVE  /\ Alone(p) /\ pc[p] = "acqConnect" /\ pc'[p] = "idle" /\ UNCHANGED pathVars
         /\ latestSessionID' = latestSessionID + 1
         /\ \A s \in 1 .. latestSessionID : sess'[s] = sess[s]
         /\ sess'[latestSessionID'].path = arg[p].path
         /\ sess'[latestSessionID'].debug = arg[p].debug
         /\ \A debug \in BOOLEAN :
              table'[debug] = IF debug = arg[p].debug THEN table[debug] \cup {latestSessionID'}
                              ELSE table[debug]
<1>1. Alone(p) /\ pc'[p] = "idle"
  BY DEF AcqConnect, Return, ProcTypes, Alone
<1>2. arg[p].debug \in BOOLEAN
  BY DEF ProcTypes, Args
<1>3. latestSessionID \in Nat /\ latestSessionID' = latestSessionID + 1
  BY DEF AcqConnect, SessTypes
<1>4. /\ latestSessionID' \notin 1 .. latestSessionID
      /\ 1 .. latestSessionID' = 1 .. latestSessionID \cup {latestSessionID'}
  BY <1>3
<1>5. \A s \in 1 .. latestSessionID' :
        sess'[s] = IF s = latestSessionID' THEN NewSession(arg[p].path, arg[p].debug)
                   ELSE sess[s]
  BY DEF AcqConnect
<1>6. /\ \A s \in 1 .. latestSessionID : sess'[s] = sess[s]
      /\ sess'[latestSessionID'] = NewSession(arg[p].path, arg[p].debug)
  BY <1>4, <1>5
<1>7. \A debug \in BOOLEAN :
        table'[debug] = IF debug = arg[p].debug THEN table[debug] \cup {latestSessionID'}
                        ELSE table[debug]
  BY <1>2 DEF AcqConnect, SessTypes
<1>8. pc[p] = "acqConnect" /\ UNCHANGED pathVars
  BY DEF AcqConnect
<1> QED
  BY <1>1, <1>3, <1>6, <1>7, <1>8 DEF NewSession

\* one entry of one interface goes
LEMMA DeleteMoves ==
  ASSUME ProcTypes, SessTypes, NEW p \in Procs, RelDelete(p)
  PROVE  /\ Alone(p) /\ pc[p] = "relDelete" /\ pc'[p] = "relClose" /\ arg'[p] = arg[p]
         /\ UNCHANGED <<pathVars, latestSessionID, sess>>
         /\ \A debug \in BOOLEAN :
              table'[debug] = IF debug = arg[p].debug THEN table[debug] \ {arg[p].ssid}
                              ELSE table[debug]
BY DEF RelDelete, Goto, ProcTypes, SessTypes, Alone, Args

\* what a process does stays in agreement with where it is
LEMMA OpsStep ==
  ASSUME ProcTypes, SessTypes, OpsAgree, Next
  PROVE  OpsAgree'
<1> USE DEF OpsAgree, EnumPCs, AcqPCs, RelPCs, CallPCs
<1>1. ASSUME NEW port \in Ports, Plug(port) PROVE OpsAgree'
  BY <1>1, ProcKinds DEF Plug, ProcTypes, procVars, NoArg, Args, Ops
<1>2. ASSUME NEW port \in Ports, Unplug(port) PROVE OpsAgree'
  BY <1>2, ProcKinds DEF Unplug, ProcTypes, procVars, NoArg, Args, Ops
<1>3. ASSUME NEW r \in Requests, StartEnumerate(r) PROVE OpsAgree'
  BY <1>3, ProcKinds DEF StartEnumerate, Arrive, ProcTypes, procVars, NoArg, Args, Ops
<1>4. ASSUME NEW r \in Requests, NEW path \in SentPaths,
             NEW prev \in 0 .. latestSessionID, NEW debug \in Interfaces,
             StartAcquire(r, path, prev, debug)
      PROVE  OpsAgree'
  BY <1>4, ProcKinds DEF StartAcquire, Arrive, ProcTypes, procVars, NoArg, Args, Ops
<1>5. ASSUME NEW r \in Requests, NEW s \in 1 .. latestSessionID, StartRelease(r, s)
      PROVE  OpsAgree'
  BY <1>5, ProcKinds DEF StartRelease, Arrive, ProcTypes, procVars, NoArg, Args, Ops
<1>6. ASSUME NEW r \in Requests, NEW s \in 1 .. latestSessionID,
             NEW mode \in CallModes, StartCall(r, s, mode)
      PROVE  OpsAgree'
  BY <1>6, ProcKinds DEF StartCall, Arrive, ProcTypes, procVars, NoArg, Args, Ops
<1>7. ASSUME NEW r \in Requests, ClientClose(r) PROVE OpsAgree'
  BY <1>7, ProcKinds DEF ClientClose, ProcTypes, procVars, NoArg, Args, Ops
<1>8. ASSUME BackgroundTick PROVE OpsAgree'
  BY <1>8, ProcKinds DEF BackgroundTick, Goto, ProcTypes, procVars, NoArg, Args, Ops
<1>9. ASSUME NEW p \in Threads, EnumLock(p) PROVE OpsAgree'
  BY <1>9, ProcKinds DEF EnumLock, Goto, ProcTypes, procVars, NoArg, Args, Ops
<1>10. ASSUME NEW p \in Threads, EnumCalls(p) PROVE OpsAgree'
  BY <1>10, ProcKinds DEF EnumCalls, Goto, ProcTypes, procVars, NoArg, Args, Ops
<1>11. ASSUME NEW p \in Threads, EnumBusError(p) PROVE OpsAgree'
  BY <1>11, ProcKinds DEF EnumBusError, Return, EnumUnlock, ProcTypes, procVars, NoArg,
     Args, Ops
<1>12. ASSUME NEW p \in Threads, NEW devs \in SUBSET Ports, EnumBusOK(p, devs)
       PROVE  OpsAgree'
  BY <1>12, ProcKinds DEF EnumBusOK, Goto, ProcTypes, procVars, NoArg, Args, Ops
<1>13. ASSUME NEW p \in Threads, NEW s \in 1 .. latestSessionID,
              NEW debug \in BOOLEAN, Reap(p, s, debug)
       PROVE  OpsAgree'
  BY <1>13, ProcKinds, ReapMoves DEF Alone, lockVars, NoArg
<1>14. ASSUME NEW p \in Threads, EnumReturn(p) PROVE OpsAgree'
  BY <1>14, ProcKinds DEF EnumReturn, Return, ProcTypes, procVars, NoArg, Args, Ops
<1>15. ASSUME NEW p \in Procs, RelLoad(p) PROVE OpsAgree'
  BY <1>15, ProcKinds, RelLoadMoves DEF Alone, lockVars, NoArg
<1>16. ASSUME NEW p \in Procs, RelDelete(p) PROVE OpsAgree'
  BY <1>16, ProcKinds DEF RelDelete, Goto, ProcTypes, procVars, NoArg, Args, Ops
<1>17. ASSUME NEW p \in Procs, RelClose(p) PROVE OpsAgree'
  BY <1>17, ProcKinds, RelCloseMoves DEF Alone, Back, NoArg
<1>18. ASSUME NEW r \in Requests, AcqCheck(r) PROVE OpsAgree'
  BY <1>18, ProcKinds, AcqCheckMoves DEF Alone, lockVars, NoArg
<1>19. ASSUME NEW r \in Requests, AcqPrepare(r) PROVE OpsAgree'
  BY <1>19, ProcKinds, AcqPrepareMoves DEF Alone, lockVars, NoArg
<1>20. ASSUME NEW r \in Requests, AcqRetry(r) PROVE OpsAgree'
  BY <1>20, ProcKinds, AcqRetryMoves DEF Alone, lockVars, NoArg
<1>21. ASSUME NEW r \in Requests, AcqConnect(r) PROVE OpsAgree'
  BY <1>21, ProcKinds DEF AcqConnect, Return, ProcTypes, procVars, NoArg, Args, Ops
<1>22. ASSUME NEW r \in Requests, CallBegin(r) PROVE OpsAgree'
  BY <1>22, ProcKinds DEF CallBegin, Goto, ProcTypes, procVars, NoArg, Args, Ops
<1>23. ASSUME NEW r \in Requests, CallLoad(r) PROVE OpsAgree'
  BY <1>23, ProcKinds, CallMoves DEF Alone, lockVars, NoArg
<1>24. ASSUME NEW r \in Requests, CallCAS(r) PROVE OpsAgree'
  BY <1>24, ProcKinds, CallMoves DEF Alone, lockVars, NoArg
<1>25. ASSUME NEW r \in Requests, WriteLock(r) PROVE OpsAgree'
  BY <1>25, ProcKinds DEF WriteLock, Goto, ProcTypes, procVars, NoArg, Args, Ops
<1>26. ASSUME NEW r \in Requests, WriteDone(r) PROVE OpsAgree'
  BY <1>26, ProcKinds DEF WriteDone, Goto, ProcTypes, procVars, NoArg, Args, Ops
<1>27. ASSUME NEW r \in Requests, ReadRefused(r) PROVE OpsAgree'
  BY <1>27, ProcKinds DEF ReadRefused, Goto, ProcTypes, procVars, NoArg, Args, Ops
<1>28. ASSUME NEW r \in Requests, ReadLock(r) PROVE OpsAgree'
  BY <1>28, ProcKinds DEF ReadLock, Goto, ProcTypes, procVars, NoArg, Args, Ops
<1>29. ASSUME NEW r \in Requests, ReadDone(r) PROVE OpsAgree'
  BY <1>29, ProcKinds DEF ReadDone, Goto, ProcTypes, procVars, NoArg, Args, Ops
<1>30. ASSUME NEW r \in Requests, CallFinish(r) PROVE OpsAgree'
  BY <1>30, ProcKinds DEF CallFinish, Goto, ProcTypes, procVars, NoArg, Args, Ops
<1>31. ASSUME NEW r \in Requests, CallUnflag(r) PROVE OpsAgree'
  BY <1>31, ProcKinds DEF CallUnflag, Goto, ProcTypes, procVars, NoArg, Args, Ops
<1>32. ASSUME NEW r \in Requests, CallEnd(r) PROVE OpsAgree'
  BY <1>32, ProcKinds DEF CallEnd, Return, ProcTypes, procVars, NoArg, Args, Ops
<1>33. ASSUME NEW r \in Requests, WatchFinished(r) PROVE OpsAgree'
  BY <1>33, ProcKinds DEF WatchFinished, Return, ProcTypes, procVars, NoArg, Args, Ops
<1>34. ASSUME NEW r \in Requests, WatchClosed(r) PROVE OpsAgree'
  BY <1>34, ProcKinds DEF WatchClosed, Goto, ProcTypes, procVars, NoArg, Args, Ops
<1>35. ASSUME NEW p \in Procs, RelDrain(p) PROVE OpsAgree'
  BY <1>35, ProcKinds, RelDrainMoves DEF Alone, Back, NoArg
<1> QED
  BY <1>1, <1>2, <1>3, <1>4, <1>5, <1>6, <1>7, <1>8, <1>9, <1>10, <1>11, <1>12, <1>13,
     <1>14, <1>15, <1>16, <1>17, <1>18, <1>19, <1>20, <1>21, <1>22, <1>23, <1>24, <1>25,
     <1>26, <1>27, <1>28, <1>29, <1>30, <1>31, <1>32, <1>33, <1>34, <1>35, SMTT(30)
     DEF Next, Environment, Enumerating, Releasing, AcquireStep, CallStep, Watching

\* whoever is past a Lock and before its Unlock is the holder
LEMMA LocksStep ==
  ASSUME ProcTypes, SessTypes, OpsAgree, OpsAgree', LocksHeld, Next
  PROVE  LocksHeld'
<1> USE DEF OpsAgree, LocksHeld, InEnum, InAcquire, EnumPCs, AcqPCs, RelPCs, CallPCs
<1>1. ASSUME NEW port \in Ports, Plug(port) PROVE LocksHeld'
  BY <1>1, ProcKinds DEF Plug, ProcTypes, procVars, lockVars, NoArg, Args, Ops
<1>2. ASSUME NEW port \in Ports, Unplug(port) PROVE LocksHeld'
  BY <1>2, ProcKinds DEF Unplug, ProcTypes, procVars, lockVars, NoArg, Args, Ops
<1>3. ASSUME NEW r \in Requests, StartEnumerate(r) PROVE LocksHeld'
  BY <1>3, ProcKinds DEF StartEnumerate, Arrive, ProcTypes, procVars, lockVars, NoArg,
     Args, Ops
<1>4. ASSUME NEW r \in Requests, NEW path \in SentPaths,
             NEW prev \in 0 .. latestSessionID, NEW debug \in Interfaces,
             StartAcquire(r, path, prev, debug)
      PROVE  LocksHeld'
  BY <1>4, ProcKinds DEF StartAcquire, Arrive, ProcTypes, procVars, lockVars, NoArg,
     Args, Ops
<1>5. ASSUME NEW r \in Requests, NEW s \in 1 .. latestSessionID, StartRelease(r, s)
      PROVE  LocksHeld'
  BY <1>5, ProcKinds DEF StartRelease, Arrive, ProcTypes, procVars, lockVars, NoArg,
     Args, Ops
<1>6. ASSUME NEW r \in Requests, NEW s \in 1 .. latestSessionID,
             NEW mode \in CallModes, StartCall(r, s, mode)
      PROVE  LocksHeld'
  BY <1>6, ProcKinds DEF StartCall, Arrive, ProcTypes, procVars, lockVars, NoArg, Args,
     Ops
<1>7. ASSUME NEW r \in Requests, ClientClose(r) PROVE LocksHeld'
  BY <1>7, ProcKinds DEF ClientClose, ProcTypes, procVars, lockVars, NoArg, Args, Ops
<1>8. ASSUME BackgroundTick PROVE LocksHeld'
  BY <1>8, ProcKinds DEF BackgroundTick, Goto, ProcTypes, procVars, lockVars, NoArg,
     Args, Ops
<1>9. ASSUME NEW p \in Threads, EnumLock(p) PROVE LocksHeld'
  BY <1>9, ProcKinds DEF EnumLock, Goto, ProcTypes, procVars, lockVars, NoArg, Args, Ops
<1>10. ASSUME NEW p \in Threads, EnumCalls(p) PROVE LocksHeld'
  BY <1>10, ProcKinds DEF EnumCalls, Goto, ProcTypes, procVars, lockVars, NoArg, Args,
     Ops
<1>11. ASSUME NEW p \in Threads, EnumBusError(p) PROVE LocksHeld'
  BY <1>11, ProcKinds DEF EnumBusError, Return, EnumUnlock, ProcTypes, procVars,
     lockVars, NoArg, Args, Ops
<1>12. ASSUME NEW p \in Threads, NEW devs \in SUBSET Ports, EnumBusOK(p, devs)
       PROVE  LocksHeld'
  BY <1>12, ProcKinds DEF EnumBusOK, Goto, ProcTypes, procVars, lockVars, NoArg, Args,
     Ops
<1>13. ASSUME NEW p \in Threads, NEW s \in 1 .. latestSessionID,
              NEW debug \in BOOLEAN, Reap(p, s, debug)
       PROVE  LocksHeld'
  BY <1>13, ProcKinds, ReapMoves DEF Alone, lockVars, NoArg
<1>14. ASSUME NEW p \in Threads, EnumReturn(p) PROVE LocksHeld'
  BY <1>14, ProcKinds DEF EnumReturn, Return, ProcTypes, procVars, lockVars, NoArg,
     Args, Ops
<1>15. ASSUME NEW p \in Procs, RelLoad(p) PROVE LocksHeld'
  BY <1>15, ProcKinds, RelLoadMoves DEF Alone, lockVars, NoArg
<1>16. ASSUME NEW p \in Procs, RelDelete(p) PROVE LocksHeld'
  BY <1>16, ProcKinds DEF RelDelete, Goto, ProcTypes, procVars, lockVars, NoArg, Args,
     Ops
<1>17. ASSUME NEW p \in Procs, RelClose(p) PROVE LocksHeld'
  BY <1>17, ProcKinds, RelCloseMoves DEF Alone, Back, NoArg
<1>18. ASSUME NEW r \in Requests, AcqCheck(r) PROVE LocksHeld'
  BY <1>18, ProcKinds, AcqCheckMoves DEF Alone, lockVars, NoArg
<1>19. ASSUME NEW r \in Requests, AcqPrepare(r) PROVE LocksHeld'
  BY <1>19, ProcKinds, AcqPrepareMoves DEF Alone, lockVars, NoArg
<1>20. ASSUME NEW r \in Requests, AcqRetry(r) PROVE LocksHeld'
  BY <1>20, ProcKinds, AcqRetryMoves DEF Alone, lockVars, NoArg
<1>21. ASSUME NEW r \in Requests, AcqConnect(r) PROVE LocksHeld'
  BY <1>21, ProcKinds DEF AcqConnect, Return, ProcTypes, procVars, lockVars, NoArg,
     Args, Ops
<1>22. ASSUME NEW r \in Requests, CallBegin(r) PROVE LocksHeld'
  BY <1>22, ProcKinds DEF CallBegin, Goto, ProcTypes, procVars, lockVars, NoArg, Args,
     Ops
<1>23. ASSUME NEW r \in Requests, CallLoad(r) PROVE LocksHeld'
  BY <1>23, ProcKinds, CallMoves DEF Alone, lockVars, NoArg
<1>24. ASSUME NEW r \in Requests, CallCAS(r) PROVE LocksHeld'
  BY <1>24, ProcKinds, CallMoves DEF Alone, lockVars, NoArg
<1>25. ASSUME NEW r \in Requests, WriteLock(r) PROVE LocksHeld'
  BY <1>25, ProcKinds DEF WriteLock, Goto, ProcTypes, procVars, lockVars, NoArg, Args,
     Ops
<1>26. ASSUME NEW r \in Requests, WriteDone(r) PROVE LocksHeld'
  BY <1>26, ProcKinds DEF WriteDone, Goto, ProcTypes, procVars, lockVars, NoArg, Args,
     Ops
<1>27. ASSUME NEW r \in Requests, ReadRefused(r) PROVE LocksHeld'
  BY <1>27, ProcKinds DEF ReadRefused, Goto, ProcTypes, procVars, lockVars, NoArg, Args,
     Ops
<1>28. ASSUME NEW r \in Requests, ReadLock(r) PROVE LocksHeld'
  BY <1>28, ProcKinds DEF ReadLock, Goto, ProcTypes, procVars, lockVars, NoArg, Args,
     Ops
<1>29. ASSUME NEW r \in Requests, ReadDone(r) PROVE LocksHeld'
  BY <1>29, ProcKinds DEF ReadDone, Goto, ProcTypes, procVars, lockVars, NoArg, Args,
     Ops
<1>30. ASSUME NEW r \in Requests, CallFinish(r) PROVE LocksHeld'
  BY <1>30, ProcKinds DEF CallFinish, Goto, ProcTypes, procVars, lockVars, NoArg, Args,
     Ops
<1>31. ASSUME NEW r \in Requests, CallUnflag(r) PROVE LocksHeld'
  BY <1>31, ProcKinds DEF CallUnflag, Goto, ProcTypes, procVars, lockVars, NoArg, Args,
     Ops
<1>32. ASSUME NEW r \in Requests, CallEnd(r) PROVE LocksHeld'
  BY <1>32, ProcKinds DEF CallEnd, Return, ProcTypes, procVars, lockVars, NoArg, Args,
     Ops
<1>33. ASSUME NEW r \in Requests, WatchFinished(r) PROVE LocksHeld'
  BY <1>33, ProcKinds DEF WatchFinished, Return, ProcTypes, procVars, lockVars, NoArg,
     Args, Ops
<1>34. ASSUME NEW r \in Requests, WatchClosed(r) PROVE LocksHeld'
  BY <1>34, ProcKinds DEF WatchClosed, Goto, ProcTypes, procVars, lockVars, NoArg, Args,
     Ops
<1>35. ASSUME NEW p \in Procs, RelDrain(p) PROVE LocksHeld'
  BY <1>35, ProcKinds, RelDrainMoves DEF Alone, Back, NoArg
<1> QED
  BY <1>1, <1>2, <1>3, <1>4, <1>5, <1>6, <1>7, <1>8, <1>9, <1>10, <1>11, <1>12, <1>13,
     <1>14, <1>15, <1>16, <1>17, <1>18, <1>19, <1>20, <1>21, <1>22, <1>23, <1>24, <1>25,
     <1>26, <1>27, <1>28, <1>29, <1>30, <1>31, <1>32, <1>33, <1>34, <1>35
     DEF Next, Environment, Enumerating, Releasing, AcquireStep, CallStep, Watching

\* a step that begins and ends no session and lists nothing
SessionsKept ==
  /\ UNCHANGED <<table, latestSessionID, pathVars>>
  /\ \A s \in 1 .. latestSessionID :
       sess'[s].path = sess[s].path /\ sess'[s].debug = sess[s].debug

\* a step that neither closes a handle nor touches the flag of a call
ObjectsKept ==
  /\ UNCHANGED latestSessionID
  /\ \A s \in 1 .. latestSessionID :
       sess'[s].dev = sess[s].dev /\ sess'[s].call = sess[s].call

\* which steps begin or end sessions, list devices, or touch session objects
LEMMA TableSteps ==
  ASSUME SessTypes, Next
  PROVE  /\ \/ SessionsKept
            \/ \E p \in Procs : RelDelete(p)
            \/ \E p \in Requests : AcqConnect(p)
            \/ \E p \in Threads, devs \in SUBSET Ports : EnumBusOK(p, devs)
         /\ \/ ObjectsKept
            \/ \E p \in Requests : AcqConnect(p)
            \/ \E p \in Procs : RelClose(p)
            \/ \E p \in Requests : CallCAS(p) \/ CallUnflag(p)
<1>1. ASSUME NEW port \in Ports, Plug(port) PROVE SessionsKept /\ ObjectsKept
  BY <1>1 DEF Plug, sessVars, procVars, SessTypes, Sessions, SessionsKept, ObjectsKept
<1>2. ASSUME NEW port \in Ports, Unplug(port) PROVE SessionsKept /\ ObjectsKept
  BY <1>2 DEF Unplug, sessVars, procVars, SessTypes, Sessions, SessionsKept, ObjectsKept
<1>3. ASSUME NEW r \in Requests, StartEnumerate(r) PROVE SessionsKept /\ ObjectsKept
  BY <1>3 DEF StartEnumerate, Arrive, sessVars, procVars, SessTypes, Sessions,
     SessionsKept, ObjectsKept
<1>4. ASSUME NEW r \in Requests, NEW path \in SentPaths,
             NEW prev \in 0 .. latestSessionID, NEW debug \in Interfaces,
             StartAcquire(r, path, prev, debug)
      PROVE  SessionsKept /\ ObjectsKept
  BY <1>4 DEF StartAcquire, Arrive, sessVars, procVars, SessTypes, Sessions,
     SessionsKept, ObjectsKept
<1>5. ASSUME NEW r \in Requests, NEW s \in 1 .. latestSessionID, StartRelease(r, s)
      PROVE  SessionsKept /\ ObjectsKept
  BY <1>5 DEF StartRelease, Arrive, sessVars, procVars, SessTypes, Sessions,
     SessionsKept, ObjectsKept
<1>6. ASSUME NEW r \in Requests, NEW s \in 1 .. latestSessionID,
             NEW mode \in CallModes, StartCall(r, s, mode)
      PROVE  SessionsKept /\ ObjectsKept
  BY <1>6 DEF StartCall, Arrive, sessVars, procVars, SessTypes, Sessions, SessionsKept,
     ObjectsKept
<1>7. ASSUME NEW r \in Requests, ClientClose(r) PROVE SessionsKept /\ ObjectsKept
  BY <1>7 DEF ClientClose, sessVars, procVars, SessTypes, Sessions, SessionsKept,
     ObjectsKept
<1>8. ASSUME BackgroundTick PROVE SessionsKept /\ ObjectsKept
  BY <1>8 DEF BackgroundTick, Goto, sessVars, procVars, SessTypes, Sessions,
     SessionsKept, ObjectsKept
<1>9. ASSUME NEW p \in Threads, EnumLock(p) PROVE SessionsKept /\ ObjectsKept
  BY <1>9 DEF EnumLock, Goto, sessVars, procVars, SessTypes, Sessions, SessionsKept,
     ObjectsKept
<1>10. ASSUME NEW p \in Threads, EnumCalls(p) PROVE SessionsKept /\ ObjectsKept
  BY <1>10 DEF EnumCalls, Goto, sessVars, procVars, SessTypes, Sessions, SessionsKept,
     ObjectsKept
<1>11. ASSUME NEW p \in Threads, EnumBusError(p) PROVE SessionsKept /\ ObjectsKept
  BY <1>11 DEF EnumBusError, Return, EnumUnlock, sessVars, procVars, SessTypes,
     Sessions, SessionsKept, ObjectsKept
<1>12. ASSUME NEW p \in Threads, NEW devs \in SUBSET Ports, EnumBusOK(p, devs)
       PROVE  /\ \E q \in Threads, ds \in SUBSET Ports : EnumBusOK(q, ds)
              /\ ObjectsKept
  BY <1>12 DEF EnumBusOK, Goto, sessVars, procVars, SessTypes, Sessions, ObjectsKept
<1>13. ASSUME NEW p \in Threads, NEW s \in 1 .. latestSessionID,
              NEW debug \in BOOLEAN, Reap(p, s, debug)
       PROVE  SessionsKept /\ ObjectsKept
  BY <1>13 DEF Reap, Goto, sessVars, procVars, SessTypes, Sessions, SessionsKept,
     ObjectsKept
<1>14. ASSUME NEW p \in Threads, EnumReturn(p) PROVE SessionsKept /\ ObjectsKept
  BY <1>14 DEF EnumReturn, Return, EnumUnlock, sessVars, procVars, SessTypes, Sessions,
     SessionsKept, ObjectsKept
<1>15. ASSUME NEW p \in Procs, RelLoad(p) PROVE SessionsKept /\ ObjectsKept
  BY <1>15 DEF RelLoad, RelReturn, Return, sessVars, procVars, SessTypes, Sessions,
     SessionsKept, ObjectsKept
<1>16. ASSUME NEW p \in Procs, RelDelete(p)
       PROVE  (\E q \in Procs : RelDelete(q)) /\ ObjectsKept
  BY <1>16 DEF RelDelete, Goto, sessVars, procVars, SessTypes, Sessions, ObjectsKept
<1>17. ASSUME NEW p \in Procs, RelClose(p)
       PROVE  SessionsKept /\ \E q \in Procs : RelClose(q)
  BY <1>17, CloseEffect DEF SessionsKept
<1>18. ASSUME NEW r \in Requests, AcqCheck(r) PROVE SessionsKept /\ ObjectsKept
  BY <1>18 DEF AcqCheck, Return, sessVars, procVars, SessTypes, Sessions, SessionsKept,
     ObjectsKept
<1>19. ASSUME NEW r \in Requests, AcqPrepare(r) PROVE SessionsKept /\ ObjectsKept
  BY <1>19 DEF AcqPrepare, AcqFail, Return, sessVars, procVars, SessTypes, Sessions,
     SessionsKept, ObjectsKept
<1>20. ASSUME NEW r \in Requests, AcqRetry(r) PROVE SessionsKept /\ ObjectsKept
  BY <1>20 DEF AcqRetry, AcqFail, Return, sessVars, procVars, SessTypes, Sessions,
     SessionsKept, ObjectsKept
<1>21. ASSUME NEW r \in Requests, AcqConnect(r)
       PROVE  \E q \in Requests : AcqConnect(q)
  BY <1>21
<1>22. ASSUME NEW r \in Requests, CallBegin(r) PROVE SessionsKept /\ ObjectsKept
  BY <1>22 DEF CallBegin, Goto, sessVars, procVars, SessTypes, Sessions, SessionsKept,
     ObjectsKept
<1>23. ASSUME NEW r \in Requests, CallLoad(r) PROVE SessionsKept /\ ObjectsKept
  BY <1>23 DEF CallLoad, Spawn, sessVars, procVars, SessTypes, Sessions, SessionsKept,
     ObjectsKept
<1>24. ASSUME NEW r \in Requests, CallCAS(r)
       PROVE  SessionsKept /\ \E q \in Requests : CallCAS(q)
  BY <1>24 DEF CallCAS, SessTypes, Sessions, SessionsKept
<1>25. ASSUME NEW r \in Requests, WriteLock(r) PROVE SessionsKept /\ ObjectsKept
  BY <1>25 DEF WriteLock, Goto, sessVars, procVars, SessTypes, Sessions, SessionsKept,
     ObjectsKept
<1>26. ASSUME NEW r \in Requests, WriteDone(r) PROVE SessionsKept /\ ObjectsKept
  BY <1>26 DEF WriteDone, Goto, sessVars, procVars, SessTypes, Sessions, SessionsKept,
     ObjectsKept
<1>27. ASSUME NEW r \in Requests, ReadRefused(r) PROVE SessionsKept /\ ObjectsKept
  BY <1>27 DEF ReadRefused, Goto, sessVars, procVars, SessTypes, Sessions, SessionsKept,
     ObjectsKept
<1>28. ASSUME NEW r \in Requests, ReadLock(r) PROVE SessionsKept /\ ObjectsKept
  BY <1>28 DEF ReadLock, Goto, sessVars, procVars, SessTypes, Sessions, SessionsKept,
     ObjectsKept
<1>29. ASSUME NEW r \in Requests, ReadDone(r) PROVE SessionsKept /\ ObjectsKept
  BY <1>29 DEF ReadDone, Goto, sessVars, procVars, SessTypes, Sessions, SessionsKept,
     ObjectsKept
<1>30. ASSUME NEW r \in Requests, CallFinish(r) PROVE SessionsKept /\ ObjectsKept
  BY <1>30 DEF CallFinish, Goto, sessVars, procVars, SessTypes, Sessions, SessionsKept,
     ObjectsKept
<1>31. ASSUME NEW r \in Requests, CallUnflag(r)
       PROVE  SessionsKept /\ \E q \in Requests : CallUnflag(q)
  BY <1>31 DEF CallUnflag, Goto, sessVars, procVars, SessTypes, Sessions, SessionsKept
<1>32. ASSUME NEW r \in Requests, CallEnd(r) PROVE SessionsKept /\ ObjectsKept
  BY <1>32 DEF CallEnd, Return, sessVars, procVars, SessTypes, Sessions, SessionsKept,
     ObjectsKept
<1>33. ASSUME NEW r \in Requests, WatchFinished(r) PROVE SessionsKept /\ ObjectsKept
  BY <1>33 DEF WatchFinished, Return, sessVars, procVars, SessTypes, Sessions,
     SessionsKept, ObjectsKept
<1>34. ASSUME NEW r \in Requests, WatchClosed(r) PROVE SessionsKept /\ ObjectsKept
  BY <1>34 DEF WatchClosed, Goto, sessVars, procVars, SessTypes, Sessions, SessionsKept,
     ObjectsKept
<1>35. ASSUME NEW p \in Procs, RelDrain(p) PROVE SessionsKept /\ ObjectsKept
  BY <1>35 DEF RelDrain, sessVars, SessTypes, Sessions, SessionsKept, ObjectsKept
<1> QED
  BY <1>1, <1>2, <1>3, <1>4, <1>5, <1>6, <1>7, <1>8, <1>9, <1>10, <1>11, <1>12, <1>13,
     <1>14, <1>15, <1>16, <1>17, <1>18, <1>19, <1>20, <1>21, <1>22, <1>23, <1>24, <1>25,
     <1>26, <1>27, <1>28, <1>29, <1>30, <1>31, <1>32, <1>33, <1>34, <1>35
     DEF Next, Environment, Enumerating, Releasing, AcquireStep, CallStep, Watching

\* how far an acquire that is under way has come
AcquireMove(p) ==
  /\ arg'[p].path = arg[p].path /\ arg'[p].debug = arg[p].debug
  /\ arg'[p].ssid = arg[p].ssid
  /\ \/ InAcquire(p) /\ pc'[p] = pc[p] /\ arg'[p].reset = arg[p].reset
     \/ InAcquire(p) /\ pc[p] = "relLoad" /\ pc'[p] = "relDelete"
     \/ InAcquire(p) /\ RelDelete(p)
     \/ InAcquire(p) /\ pc[p] = "relClose" /\ pc'[p] \in {"relDrain", "acqPrepare"}
     \/ InAcquire(p) /\ pc[p] = "relDrain" /\ pc'[p] = "acqPrepare"
     \/ /\ InAcquire(p) /\ pc[p] = "acqPrepare" /\ pc'[p] = "acqConnect"
        /\ Atoi(arg[p].path) \in DOMAIN usbPaths
        /\ arg'[p].reset => SessionsOf(arg[p].path, ~arg[p].debug) = {}
     \/ /\ pc'[p] = "relLoad"
        /\ arg[p].ssid \in SessionsOf(arg[p].path, arg[p].debug)
     \/ /\ pc'[p] = "acqPrepare"
        /\ SessionsOf(arg[p].path, arg[p].debug) = {}

\* where a step can take the processes the invariant speaks of
StepMoves ==
  /\ \A p \in Procs : InAcquire(p)' => AcquireMove(p)
  /\ \A p \in Procs : Reaping(p) => Reaping(p)' \/ EnumReturn(p)
  /\ \A p \in Procs : pc'[p] = "enumBus" => pc[p] = "enumBus" \/ EnumCalls(p)
  /\ callsInProgress' # callsInProgress => callMutex = None

\* every step moves the processes as StepMoves says
LEMMA Moves ==
  ASSUME ProcTypes, SessTypes, OpsAgree, Next
  PROVE  StepMoves
<1> USE DEF StepMoves, AcquireMove, OpsAgree, InEnum, InAcquire, Reaping, EnumPCs, AcqPCs,
       RelPCs, CallPCs
<1>1. ASSUME NEW port \in Ports, Plug(port) PROVE StepMoves
  BY <1>1, ProcKinds DEF Plug, ProcTypes, procVars, Args, NoArg
<1>2. ASSUME NEW port \in Ports, Unplug(port) PROVE StepMoves
  BY <1>2, ProcKinds DEF Unplug, ProcTypes, procVars, Args, NoArg
<1>3. ASSUME NEW r \in Requests, StartEnumerate(r) PROVE StepMoves
  BY <1>3, ProcKinds DEF StartEnumerate, Arrive, ProcTypes, procVars, Args, NoArg
<1>4. ASSUME NEW r \in Requests, NEW path \in SentPaths,
             NEW prev \in 0 .. latestSessionID, NEW debug \in Interfaces,
             StartAcquire(r, path, prev, debug)
      PROVE  StepMoves
  BY <1>4, ProcKinds DEF StartAcquire, Arrive, ProcTypes, procVars, Args, NoArg
<1>5. ASSUME NEW r \in Requests, NEW s \in 1 .. latestSessionID, StartRelease(r, s)
      PROVE  StepMoves
  BY <1>5, ProcKinds DEF StartRelease, Arrive, ProcTypes, procVars, Args, NoArg
<1>6. ASSUME NEW r \in Requests, NEW s \in 1 .. latestSessionID,
             NEW mode \in CallModes, StartCall(r, s, mode)
      PROVE  StepMoves
  BY <1>6, ProcKinds DEF StartCall, Arrive, ProcTypes, procVars, Args, NoArg
<1>7. ASSUME NEW r \in Requests, ClientClose(r) PROVE StepMoves
  BY <1>7, ProcKinds DEF ClientClose, ProcTypes, procVars, Args, NoArg
<1>8. ASSUME BackgroundTick PROVE StepMoves
  BY <1>8, ProcKinds DEF BackgroundTick, Goto, ProcTypes, procVars, Args, NoArg
<1>9. ASSUME NEW p \in Threads, EnumLock(p) PROVE StepMoves
  BY <1>9, ProcKinds DEF EnumLock, Goto, ProcTypes, procVars, Args, NoArg
<1>10. ASSUME NEW p \in Threads, EnumCalls(p) PROVE StepMoves
  BY <1>10, ProcKinds DEF EnumCalls, Goto, ProcTypes, procVars, Args, NoArg
<1>11. ASSUME NEW p \in Threads, EnumBusError(p) PROVE StepMoves
  BY <1>11, ProcKinds DEF EnumBusError, Return, EnumUnlock, ProcTypes, procVars, Args,
     NoArg
<1>12. ASSUME NEW p \in Threads, NEW devs \in SUBSET Ports, EnumBusOK(p, devs)
       PROVE  StepMoves
  BY <1>12, ProcKinds DEF EnumBusOK, Goto, ProcTypes, procVars, Args, NoArg
<1>13. ASSUME NEW p \in Threads, NEW s \in 1 .. latestSessionID,
              NEW debug \in BOOLEAN, Reap(p, s, debug)
       PROVE  StepMoves
  BY <1>13, ProcKinds, ReapMoves DEF Alone, lockVars
<1>14. ASSUME NEW p \in Threads, EnumReturn(p) PROVE StepMoves
  BY <1>14, ProcKinds DEF EnumReturn, Return, ProcTypes, procVars, Args, NoArg
<1>15. ASSUME NEW p \in Procs, RelLoad(p) PROVE StepMoves
  BY <1>15, ProcKinds, RelLoadMoves DEF Alone, lockVars
<1>16. ASSUME NEW p \in Procs, RelDelete(p) PROVE StepMoves
  <2>1. /\ Alone(p) /\ pc[p] = "relDelete" /\ pc'[p] = "relClose" /\ arg'[p] = arg[p]
        /\ UNCHANGED <<callMutex, callsInProgress>>
    BY <1>16 DEF RelDelete, Goto, Alone, ProcTypes, lockVars
  <2> QED
    BY <1>16, <2>1 DEF Alone
<1>17. ASSUME NEW p \in Procs, RelClose(p) PROVE StepMoves
  BY <1>17, ProcKinds, RelCloseMoves DEF Alone, Back, lockVars
<1>18. ASSUME NEW r \in Requests, AcqCheck(r) PROVE StepMoves
  BY <1>18, ProcKinds, AcqCheckMoves DEF Alone, lockVars
<1>19. ASSUME NEW r \in Requests, AcqPrepare(r) PROVE StepMoves
  BY <1>19, ProcKinds, AcqPrepareMoves DEF Alone, lockVars
<1>20. ASSUME NEW r \in Requests, AcqRetry(r) PROVE StepMoves
  BY <1>20, ProcKinds, AcqRetryMoves DEF Alone, lockVars
<1>21. ASSUME NEW r \in Requests, AcqConnect(r) PROVE StepMoves
  BY <1>21, ProcKinds DEF AcqConnect, Return, ProcTypes, procVars, Args, NoArg
<1>22. ASSUME NEW r \in Requests, CallBegin(r) PROVE StepMoves
  BY <1>22, ProcKinds DEF CallBegin, Goto, ProcTypes, procVars, Args, NoArg
<1>23. ASSUME NEW r \in Requests, CallLoad(r) PROVE StepMoves
  BY <1>23, ProcKinds, CallMoves DEF Alone, lockVars
<1>24. ASSUME NEW r \in Requests, CallCAS(r) PROVE StepMoves
  BY <1>24, ProcKinds, CallMoves DEF Alone, lockVars
<1>25. ASSUME NEW r \in Requests, WriteLock(r) PROVE StepMoves
  BY <1>25, ProcKinds DEF WriteLock, Goto, ProcTypes, procVars, Args, NoArg
<1>26. ASSUME NEW r \in Requests, WriteDone(r) PROVE StepMoves
  BY <1>26, ProcKinds DEF WriteDone, Goto, ProcTypes, procVars, Args, NoArg
<1>27. ASSUME NEW r \in Requests, ReadRefused(r) PROVE StepMoves
  BY <1>27, ProcKinds DEF ReadRefused, Goto, ProcTypes, procVars, Args, NoArg
<1>28. ASSUME NEW r \in Requests, ReadLock(r) PROVE StepMoves
  BY <1>28, ProcKinds DEF ReadLock, Goto, ProcTypes, procVars, Args, NoArg
<1>29. ASSUME NEW r \in Requests, ReadDone(r) PROVE StepMoves
  BY <1>29, ProcKinds DEF ReadDone, Goto, ProcTypes, procVars, Args, NoArg
<1>30. ASSUME NEW r \in Requests, CallFinish(r) PROVE StepMoves
  BY <1>30, ProcKinds DEF CallFinish, Goto, ProcTypes, procVars, Args, NoArg
<1>31. ASSUME NEW r \in Requests, CallUnflag(r) PROVE StepMoves
  BY <1>31, ProcKinds DEF CallUnflag, Goto, ProcTypes, procVars, Args, NoArg
<1>32. ASSUME NEW r \in Requests, CallEnd(r) PROVE StepMoves
  BY <1>32, ProcKinds DEF CallEnd, Return, ProcTypes, procVars, Args, NoArg
<1>33. ASSUME NEW r \in Requests, WatchFinished(r) PROVE StepMoves
  BY <1>33, ProcKinds DEF WatchFinished, Return, ProcTypes, procVars, Args, NoArg
<1>34. ASSUME NEW r \in Requests, WatchClosed(r) PROVE StepMoves
  BY <1>34, ProcKinds DEF WatchClosed, Goto, ProcTypes, procVars, Args, NoArg
<1>35. ASSUME NEW p \in Procs, RelDrain(p) PROVE StepMoves
  BY <1>35, ProcKinds, RelDrainMoves DEF Alone, Back, lockVars
<1> QED
  BY <1>1, <1>2, <1>3, <1>4, <1>5, <1>6, <1>7, <1>8, <1>9, <1>10, <1>11, <1>12, <1>13,
     <1>14, <1>15, <1>16, <1>17, <1>18, <1>19, <1>20, <1>21, <1>22, <1>23, <1>24, <1>25,
     <1>26, <1>27, <1>28, <1>29, <1>30, <1>31, <1>32, <1>33, <1>34, <1>35
     DEF Next, Environment, Enumerating, Releasing, AcquireStep, CallStep, Watching

\* a request inside Core.Call
Calling(r) == pc[r] \in CallPCs \cup {"callBegin"}

\* a call keeps to its session and its mode
CallerMoves ==
  /\ \A r \in Requests : Calling(r)' =>
       \/ pc'[r] = "callBegin" /\ arg'[r].ssid \in 1 .. latestSessionID
       \/ Calling(r) /\ arg'[r] = arg[r]
  /\ \A r \in Requests : InCall(r)' => InCall(r) \/ CallCAS(r)
  /\ \A r \in Requests : pc'[r] = "callUnflag" =>
       pc[r] = "callUnflag" \/ arg'[r].mode # "write"

\* every step moves the calls as CallerMoves says
LEMMA CallerSteps ==
  ASSUME ProcTypes, SessTypes, OpsAgree, Next
  PROVE  CallerMoves
<1> USE DEF OpsAgree, CallerMoves, Calling, InCall, EnumPCs, AcqPCs, RelPCs, CallPCs
<1>1. ASSUME NEW port \in Ports, Plug(port) PROVE CallerMoves
  BY <1>1, ProcKinds DEF Plug, ProcTypes, procVars, Args, NoArg
<1>2. ASSUME NEW port \in Ports, Unplug(port) PROVE CallerMoves
  BY <1>2, ProcKinds DEF Unplug, ProcTypes, procVars, Args, NoArg
<1>3. ASSUME NEW r \in Requests, StartEnumerate(r) PROVE CallerMoves
  BY <1>3, ProcKinds DEF StartEnumerate, Arrive, ProcTypes, procVars, Args, NoArg
<1>4. ASSUME NEW r \in Requests, NEW path \in SentPaths,
             NEW prev \in 0 .. latestSessionID, NEW debug \in Interfaces,
             StartAcquire(r, path, prev, debug)
      PROVE  CallerMoves
  BY <1>4, ProcKinds DEF StartAcquire, Arrive, ProcTypes, procVars, Args, NoArg
<1>5. ASSUME NEW r \in Requests, NEW s \in 1 .. latestSessionID, StartRelease(r, s)
      PROVE  CallerMoves
  BY <1>5, ProcKinds DEF StartRelease, Arrive, ProcTypes, procVars, Args, NoArg
<1>6. ASSUME NEW r \in Requests, NEW s \in 1 .. latestSessionID,
             NEW mode \in CallModes, StartCall(r, s, mode)
      PROVE  CallerMoves
  BY <1>6, ProcKinds DEF StartCall, Arrive, ProcTypes, procVars, Args, NoArg
<1>7. ASSUME NEW r \in Requests, ClientClose(r) PROVE CallerMoves
  BY <1>7, ProcKinds DEF ClientClose, ProcTypes, procVars, Args, NoArg
<1>8. ASSUME BackgroundTick PROVE CallerMoves
  BY <1>8, ProcKinds DEF BackgroundTick, Goto, ProcTypes, procVars, Args, NoArg
<1>9. ASSUME NEW p \in Threads, EnumLock(p) PROVE CallerMoves
  BY <1>9, ProcKinds DEF EnumLock, Goto, ProcTypes, procVars, Args, NoArg
<1>10. ASSUME NEW p \in Threads, EnumCalls(p) PROVE CallerMoves
  BY <1>10, ProcKinds DEF EnumCalls, Goto, ProcTypes, procVars, Args, NoArg
<1>11. ASSUME NEW p \in Threads, EnumBusError(p) PROVE CallerMoves
  BY <1>11, ProcKinds DEF EnumBusError, Return, EnumUnlock, ProcTypes, procVars, Args,
     NoArg
<1>12. ASSUME NEW p \in Threads, NEW devs \in SUBSET Ports, EnumBusOK(p, devs)
       PROVE  CallerMoves
  BY <1>12, ProcKinds DEF EnumBusOK, Goto, ProcTypes, procVars, Args, NoArg
<1>13. ASSUME NEW p \in Threads, NEW s \in 1 .. latestSessionID,
              NEW debug \in BOOLEAN, Reap(p, s, debug)
       PROVE  CallerMoves
  BY <1>13, ProcKinds, ReapMoves DEF Alone, lockVars, NoArg
<1>14. ASSUME NEW p \in Threads, EnumReturn(p) PROVE CallerMoves
  BY <1>14, ProcKinds DEF EnumReturn, Return, EnumUnlock, ProcTypes, procVars, Args,
     NoArg
<1>15. ASSUME NEW p \in Procs, RelLoad(p) PROVE CallerMoves
  BY <1>15, ProcKinds, RelLoadMoves DEF Alone, lockVars, NoArg
<1>16. ASSUME NEW p \in Procs, RelDelete(p) PROVE CallerMoves
  BY <1>16, ProcKinds DEF RelDelete, Goto, ProcTypes, procVars, Args, NoArg
<1>17. ASSUME NEW p \in Procs, RelClose(p) PROVE CallerMoves
  BY <1>17, ProcKinds, RelCloseMoves DEF Alone, Back, lockVars, NoArg
<1>18. ASSUME NEW r \in Requests, AcqCheck(r) PROVE CallerMoves
  BY <1>18, ProcKinds, AcqCheckMoves DEF Alone, lockVars, NoArg
<1>19. ASSUME NEW r \in Requests, AcqPrepare(r) PROVE CallerMoves
  BY <1>19, ProcKinds, AcqPrepareMoves DEF Alone, lockVars, NoArg
<1>20. ASSUME NEW r \in Requests, AcqRetry(r) PROVE CallerMoves
  BY <1>20, ProcKinds, AcqRetryMoves DEF Alone, lockVars, NoArg
<1>21. ASSUME NEW r \in Requests, AcqConnect(r) PROVE CallerMoves
  BY <1>21, ProcKinds DEF AcqConnect, Return, ProcTypes, procVars, Args, NoArg
<1>22. ASSUME NEW r \in Requests, CallBegin(r) PROVE CallerMoves
  BY <1>22, ProcKinds DEF CallBegin, Goto, ProcTypes, procVars, Args, NoArg
<1>23. ASSUME NEW r \in Requests, CallLoad(r) PROVE CallerMoves
  BY <1>23, ProcKinds, CallMoves DEF Alone, lockVars, NoArg
<1>24. ASSUME NEW r \in Requests, CallCAS(r) PROVE CallerMoves
  BY <1>24, ProcKinds, CallMoves DEF Alone, lockVars, NoArg
<1>25. ASSUME NEW r \in Requests, WriteLock(r) PROVE CallerMoves
  BY <1>25, ProcKinds DEF WriteLock, Goto, ProcTypes, procVars, Args, NoArg
<1>26. ASSUME NEW r \in Requests, WriteDone(r) PROVE CallerMoves
  BY <1>26, ProcKinds DEF WriteDone, Goto, ProcTypes, procVars, Args, NoArg
<1>27. ASSUME NEW r \in Requests, ReadRefused(r) PROVE CallerMoves
  BY <1>27, ProcKinds DEF ReadRefused, Goto, ProcTypes, procVars, Args, NoArg
<1>28. ASSUME NEW r \in Requests, ReadLock(r) PROVE CallerMoves
  BY <1>28, ProcKinds DEF ReadLock, Goto, ProcTypes, procVars, Args, NoArg
<1>29. ASSUME NEW r \in Requests, ReadDone(r) PROVE CallerMoves
  BY <1>29, ProcKinds DEF ReadDone, Goto, ProcTypes, procVars, Args, NoArg
<1>30. ASSUME NEW r \in Requests, CallFinish(r) PROVE CallerMoves
  BY <1>30, ProcKinds DEF CallFinish, Goto, ProcTypes, procVars, Args, NoArg
<1>31. ASSUME NEW r \in Requests, CallUnflag(r) PROVE CallerMoves
  BY <1>31, ProcKinds DEF CallUnflag, Goto, ProcTypes, procVars, Args, NoArg
<1>32. ASSUME NEW r \in Requests, CallEnd(r) PROVE CallerMoves
  BY <1>32, ProcKinds DEF CallEnd, Return, ProcTypes, procVars, Args, NoArg
<1>33. ASSUME NEW r \in Requests, WatchFinished(r) PROVE CallerMoves
  BY <1>33, ProcKinds DEF WatchFinished, Return, ProcTypes, procVars, Args, NoArg
<1>34. ASSUME NEW r \in Requests, WatchClosed(r) PROVE CallerMoves
  BY <1>34, ProcKinds DEF WatchClosed, Goto, ProcTypes, procVars, Args, NoArg
<1>35. ASSUME NEW p \in Procs, RelDrain(p) PROVE CallerMoves
  BY <1>35, ProcKinds, RelDrainMoves DEF Alone, Back, lockVars, NoArg
<1> QED
  BY <1>1, <1>2, <1>3, <1>4, <1>5, <1>6, <1>7, <1>8, <1>9, <1>10, <1>11, <1>12, <1>13,
     <1>14, <1>15, <1>16, <1>17, <1>18, <1>19, <1>20, <1>21, <1>22, <1>23, <1>24, <1>25,
     <1>26, <1>27, <1>28, <1>29, <1>30, <1>31, <1>32, <1>33, <1>34, <1>35
     DEF Next, Environment, Enumerating, Releasing, AcquireStep, CallStep, Watching
-----------------------------------------------------------------------------
(***************************************************************************)
(* Core is safe, and implements SessionOwner, for every set of requests    *)
(* and ports and for every bound.                                          *)
(***************************************************************************)
\* libusbMutex: enumerations and acquires exclude each other
LEMMA OneAtATime ==
  ASSUME LocksHeld, NEW p \in Procs, NEW q \in Procs,
         InEnum(p) \/ InAcquire(p), InEnum(q) \/ InAcquire(q)
  PROVE  p = q
BY DEF LocksHeld

\* OneSessionPerPath, NamesListed, Reaped and AcquireRelies
SessInv == OneSessionPerPath /\ NamesListed /\ Reaped /\ AcquireRelies

\* a step that leaves the sessions alone keeps SessInv
LEMMA KeptStep ==
  ASSUME ProcTypes, SessTypes, OpsAgree, LocksHeld, SessInv, StepMoves, SessionsKept
  PROVE  SessInv'
<1> USE DEF SessInv, SessionsKept, pathVars
<1>1. \A debug \in BOOLEAN : \A s \in table[debug] : s \in 1 .. latestSessionID
  BY DEF SessTypes
<1>2. \A debug \in BOOLEAN : \A s \in table'[debug] :
        s \in table[debug] /\ sess'[s].path = sess[s].path
  BY <1>1
<1>3. OneSessionPerPath' /\ NamesListed'
  BY <1>2 DEF OneSessionPerPath, NamesListed
<1>4. Reaped'
  <2>1. CASE \E p \in Procs : EnumReturn(p)
    BY <1>2, <2>1, AtoiItoa DEF EnumReturn, Disconnected, Reaped
  <2>2. CASE ~ \E p \in Procs : EnumReturn(p)
    BY <1>2, <2>2 DEF StepMoves, Reaped
  <2> QED
    BY <2>1, <2>2
<1>5. ASSUME NEW p \in Procs, InAcquire(p)'
      PROVE  Relies(p)'
  <2>1. AcquireMove(p) /\ Relies(p) /\ arg[p].debug \in BOOLEAN
    BY <1>5 DEF StepMoves, AcquireRelies, ProcTypes, Args
  <2>2. CASE InAcquire(p) /\ pc'[p] = pc[p] /\ arg'[p].reset = arg[p].reset
    BY <1>2, <2>1, <2>2 DEF AcquireMove, Relies
  <2>3. CASE InAcquire(p) /\ pc[p] = "relLoad" /\ pc'[p] = "relDelete"
    BY <1>2, <2>1, <2>3 DEF AcquireMove, Relies
  <2>4. CASE InAcquire(p) /\ RelDelete(p)
    <3>1. /\ pc[p] = "relDelete" /\ pc'[p] = "relClose"
          /\ table[arg[p].debug] = table[arg[p].debug] \ {arg[p].ssid}
      BY <2>1, <2>4, DeleteMoves
    <3> QED
      BY <1>2, <2>1, <2>4, <3>1 DEF AcquireMove, Relies
  <2>5. CASE \/ InAcquire(p) /\ pc[p] = "relClose" /\ pc'[p] \in {"relDrain", "acqPrepare"}
             \/ InAcquire(p) /\ pc[p] = "relDrain" /\ pc'[p] = "acqPrepare"
    BY <1>2, <2>1, <2>5 DEF AcquireMove, Relies
  <2>6. CASE /\ InAcquire(p) /\ pc[p] = "acqPrepare" /\ pc'[p] = "acqConnect"
             /\ Atoi(arg[p].path) \in DOMAIN usbPaths
             /\ arg'[p].reset => SessionsOf(arg[p].path, ~arg[p].debug) = {}
    BY <1>2, <2>1, <2>6 DEF AcquireMove, Relies, SessionsOf, NamesListed
  <2>7. CASE /\ pc'[p] = "relLoad"
             /\ arg[p].ssid \in SessionsOf(arg[p].path, arg[p].debug)
    BY <1>2, <2>1, <2>7 DEF AcquireMove, Relies, SessionsOf, OneSessionPerPath
  <2>8. CASE /\ pc'[p] = "acqPrepare"
             /\ SessionsOf(arg[p].path, arg[p].debug) = {}
    BY <1>2, <2>1, <2>8 DEF AcquireMove, Relies, SessionsOf
  <2> QED
    BY <2>1, <2>2, <2>3, <2>4, <2>5, <2>6, <2>7, <2>8 DEF AcquireMove
<1> QED
  BY <1>3, <1>4, <1>5 DEF AcquireRelies, Relies

\* RelDelete keeps SessInv
LEMMA DeleteStep ==
  ASSUME ProcTypes, SessTypes, SessInv, StepMoves, NEW q \in Procs, RelDelete(q)
  PROVE  SessInv'
<1> USE DEF SessInv, pathVars
<1>0. /\ Alone(q) /\ pc[q] = "relDelete" /\ pc'[q] = "relClose" /\ arg'[q] = arg[q]
      /\ UNCHANGED <<pathVars, latestSessionID, sess>>
      /\ \A debug \in BOOLEAN :
           table'[debug] = IF debug = arg[q].debug THEN table[debug] \ {arg[q].ssid}
                           ELSE table[debug]
  BY DeleteMoves
<1>1. \A debug \in BOOLEAN : \A s \in table'[debug] :
        s \in table[debug] /\ sess'[s].path = sess[s].path
  BY <1>0
<1>2. OneSessionPerPath' /\ NamesListed'
  BY <1>0, <1>1 DEF OneSessionPerPath, NamesListed
<1>3. Reaped'
  <2>1. ~ \E p \in Procs : EnumReturn(p)
    BY <1>0 DEF EnumReturn, Return, ProcTypes
  <2> QED
    BY <1>0, <1>1, <2>1 DEF StepMoves, Reaped
<1>4. ASSUME NEW p \in Procs, InAcquire(p)'
      PROVE  Relies(p)'
  <2>1. AcquireMove(p) /\ Relies(p) /\ arg[p].debug \in BOOLEAN
    BY <1>4 DEF StepMoves, AcquireRelies, ProcTypes, Args
  <2>2. CASE p = q
    <3>1. InAcquire(p) /\ pc[p] = "relDelete" /\ pc'[p] = "relClose" /\ arg'[p] = arg[p]
      BY <1>0, <1>4, <2>2 DEF InAcquire, RelPCs
    <3>2. \A s \in table[arg[p].debug] : sess[s].path = arg[p].path => s = arg[p].ssid
      BY <2>1, <3>1 DEF Relies
    <3>3. /\ table'[arg[p].debug] = table[arg[p].debug] \ {arg[p].ssid}
          /\ UNCHANGED sess
      BY <1>0, <2>1, <2>2
    <3> QED
      BY <3>1, <3>2, <3>3 DEF Relies
  <2>3. CASE p # q
    <3>1. pc'[p] = pc[p] /\ arg'[p] = arg[p] /\ InAcquire(p)
      BY <1>0, <1>4, <2>3 DEF Alone, InAcquire
    <3> QED
      BY <1>0, <1>1, <2>1, <3>1, ZenonT(60) DEF Relies
  <2> QED
    BY <2>2, <2>3
<1> QED
  BY <1>2, <1>3, <1>4 DEF AcquireRelies, Relies

\* AcqConnect keeps SessInv: the interface is free, the path is listed
LEMMA ConnectStep ==
  ASSUME ProcTypes, SessTypes, OpsAgree, LocksHeld, SessInv, NEW q \in Procs, AcqConnect(q)
  PROVE  SessInv'
<1> USE DEF SessInv, pathVars
<1> DEFINE new == latestSessionID'
<1>0. /\ Alone(q) /\ pc[q] = "acqConnect" /\ pc'[q] = "idle" /\ UNCHANGED pathVars
      /\ new = latestSessionID + 1
      /\ \A s \in 1 .. latestSessionID : sess'[s] = sess[s]
      /\ sess'[new].path = arg[q].path
      /\ \A debug \in BOOLEAN :
           table'[debug] = IF debug = arg[q].debug THEN table[debug] \cup {new}
                           ELSE table[debug]
  BY ConnectMoves
<1>1. InAcquire(q) /\ Relies(q) /\ arg[q].debug \in BOOLEAN
  BY <1>0 DEF OpsAgree, AcqPCs, InAcquire, AcquireRelies, ProcTypes, Args
<1>2. /\ \A s \in table[arg[q].debug] : sess[s].path # arg[q].path
      /\ Atoi(arg[q].path) \in lastInfos
  BY <1>0, <1>1 DEF Relies
<1>3. \A debug \in BOOLEAN : \A s \in table'[debug] :
        \/ s \in table[debug] /\ s # new /\ sess'[s].path = sess[s].path
        \/ s = new /\ debug = arg[q].debug /\ sess'[s].path = arg[q].path
  <2>1. \A debug \in BOOLEAN : \A s \in table[debug] : s \in 1 .. latestSessionID /\ s # new
    BY <1>0 DEF SessTypes
  <2> HIDE DEF new
  <2> QED
    BY <1>0, <2>1
<1>4. OneSessionPerPath' /\ NamesListed'
  BY <1>0, <1>2, <1>3 DEF OneSessionPerPath, NamesListed
<1>5. \A p \in Procs : ~Reaping(p)
  BY <1>0, <1>1, OneAtATime DEF Reaping, InEnum, RelPCs
<1>6. Reaped'
  BY <1>0, <1>2, <1>3, <1>5 DEF Reaped
<1>7. ASSUME NEW p \in Procs, InAcquire(p)'
      PROVE  FALSE
  BY <1>0, <1>1, <1>7, OneAtATime DEF Alone, InAcquire, RelPCs
<1> QED
  BY <1>4, <1>6, <1>7 DEF AcquireRelies, Relies

\* EnumBusOK keeps SessInv: sessions left behind are reaped next
LEMMA ListStep ==
  ASSUME ProcTypes, OpsAgree, LocksHeld, SessInv,
         NEW q \in Threads, NEW devs \in SUBSET Ports, EnumBusOK(q, devs)
  PROVE  SessInv'
<1>1. /\ q \in Procs /\ pc[q] = "enumBus" /\ pc'[q] = "reap" /\ UNCHANGED sessVars
      /\ \A p \in Procs : p # q => pc'[p] = pc[p] /\ arg'[p] = arg[p]
      /\ NamesListed'
  BY ProcKinds DEF EnumBusOK, Goto, ProcTypes, SaveUsbPaths, NamesListed
<1>2. OneSessionPerPath'
  BY <1>1 DEF SessInv, OneSessionPerPath, sessVars
<1>3. Reaped'
  BY <1>1 DEF Reaped, Reaping, InEnum
<1>4. ASSUME NEW p \in Procs, InAcquire(p)'
      PROVE  FALSE
  BY <1>1, <1>4, OneAtATime DEF InAcquire, InEnum, RelPCs
<1> QED
  BY <1>1, <1>2, <1>3, <1>4 DEF SessInv, AcquireRelies, Relies

\* callMutex keeps calls from beginning while the buses are listed
LEMMA QuietStep ==
  ASSUME ProcTypes, LocksHeld, BusQuiet, StepMoves
  PROVE  BusQuiet'
<1> SUFFICES ASSUME NEW p \in Procs, pc'[p] = "enumBus"
             PROVE  callsInProgress' = 0
  BY DEF BusQuiet
<1>1. CASE pc[p] = "enumBus"
  BY <1>1, ProcKinds DEF StepMoves, LocksHeld, InEnum, BusQuiet
<1>2. CASE EnumCalls(p)
  BY <1>2 DEF EnumCalls, Goto, ProcTypes
<1> QED
  BY <1>1, <1>2 DEF StepMoves

\* a watcher is spawned only once in a call
LEMMA WatchersStep ==
  ASSUME ProcTypes, SessTypes, OpsAgree, WatchersWait, Next
  PROVE  WatchersWait'
<1> USE DEF OpsAgree, WatchersWait, EnumPCs, AcqPCs, RelPCs, CallPCs
<1>1. ASSUME NEW port \in Ports, Plug(port) PROVE WatchersWait'
  BY <1>1, ProcKinds DEF Plug, ProcTypes, procVars, Args, NoArg
<1>2. ASSUME NEW port \in Ports, Unplug(port) PROVE WatchersWait'
  BY <1>2, ProcKinds DEF Unplug, ProcTypes, procVars, Args, NoArg
<1>3. ASSUME NEW r \in Requests, StartEnumerate(r) PROVE WatchersWait'
  BY <1>3, ProcKinds DEF StartEnumerate, Arrive, ProcTypes, procVars, Args, NoArg
<1>4. ASSUME NEW r \in Requests, NEW path \in SentPaths,
             NEW prev \in 0 .. latestSessionID, NEW debug \in Interfaces,
             StartAcquire(r, path, prev, debug)
      PROVE  WatchersWait'
  BY <1>4, ProcKinds DEF StartAcquire, Arrive, ProcTypes, procVars, Args, NoArg
<1>5. ASSUME NEW r \in Requests, NEW s \in 1 .. latestSessionID, StartRelease(r, s)
      PROVE  WatchersWait'
  BY <1>5, ProcKinds DEF StartRelease, Arrive, ProcTypes, procVars, Args, NoArg
<1>6. ASSUME NEW r \in Requests, NEW s \in 1 .. latestSessionID,
             NEW mode \in CallModes, StartCall(r, s, mode)
      PROVE  WatchersWait'
  BY <1>6, ProcKinds DEF StartCall, Arrive, ProcTypes, procVars, Args, NoArg
<1>7. ASSUME NEW r \in Requests, ClientClose(r) PROVE WatchersWait'
  BY <1>7, ProcKinds DEF ClientClose, ProcTypes, procVars, Args, NoArg
<1>8. ASSUME BackgroundTick PROVE WatchersWait'
  BY <1>8, ProcKinds DEF BackgroundTick, Goto, ProcTypes, procVars, Args, NoArg
<1>9. ASSUME NEW p \in Threads, EnumLock(p) PROVE WatchersWait'
  BY <1>9, ProcKinds DEF EnumLock, Goto, ProcTypes, procVars, Args, NoArg
<1>10. ASSUME NEW p \in Threads, EnumCalls(p) PROVE WatchersWait'
  BY <1>10, ProcKinds DEF EnumCalls, Goto, ProcTypes, procVars, Args, NoArg
<1>11. ASSUME NEW p \in Threads, EnumBusError(p) PROVE WatchersWait'
  BY <1>11, ProcKinds DEF EnumBusError, Return, EnumUnlock, ProcTypes, procVars, Args,
     NoArg
<1>12. ASSUME NEW p \in Threads, NEW devs \in SUBSET Ports, EnumBusOK(p, devs)
       PROVE  WatchersWait'
  BY <1>12, ProcKinds DEF EnumBusOK, Goto, ProcTypes, procVars, Args, NoArg
<1>13. ASSUME NEW p \in Threads, NEW s \in 1 .. latestSessionID,
              NEW debug \in BOOLEAN, Reap(p, s, debug)
       PROVE  WatchersWait'
  BY <1>13, ProcKinds, ReapMoves DEF Alone, lockVars, NoArg
<1>14. ASSUME NEW p \in Threads, EnumReturn(p) PROVE WatchersWait'
  BY <1>14, ProcKinds DEF EnumReturn, Return, EnumUnlock, ProcTypes, procVars, Args,
     NoArg
<1>15. ASSUME NEW p \in Procs, RelLoad(p) PROVE WatchersWait'
  BY <1>15, ProcKinds, RelLoadMoves DEF Alone, lockVars, NoArg
<1>16. ASSUME NEW p \in Procs, RelDelete(p) PROVE WatchersWait'
  BY <1>16, ProcKinds DEF RelDelete, Goto, ProcTypes, procVars, Args, NoArg
<1>17. ASSUME NEW p \in Procs, RelClose(p) PROVE WatchersWait'
  BY <1>17, ProcKinds, RelCloseMoves DEF Alone, Back, lockVars, NoArg
<1>18. ASSUME NEW r \in Requests, AcqCheck(r) PROVE WatchersWait'
  BY <1>18, ProcKinds, AcqCheckMoves DEF Alone, lockVars, NoArg
<1>19. ASSUME NEW r \in Requests, AcqPrepare(r) PROVE WatchersWait'
  BY <1>19, ProcKinds, AcqPrepareMoves DEF Alone, lockVars, NoArg
<1>20. ASSUME NEW r \in Requests, AcqRetry(r) PROVE WatchersWait'
  BY <1>20, ProcKinds, AcqRetryMoves DEF Alone, lockVars, NoArg
<1>21. ASSUME NEW r \in Requests, AcqConnect(r) PROVE WatchersWait'
  BY <1>21, ProcKinds DEF AcqConnect, Return, ProcTypes, procVars, Args, NoArg
<1>22. ASSUME NEW r \in Requests, CallBegin(r) PROVE WatchersWait'
  BY <1>22, ProcKinds DEF CallBegin, Goto, ProcTypes, procVars, Args, NoArg
<1>23. ASSUME NEW r \in Requests, CallLoad(r) PROVE WatchersWait'
  BY <1>23, ProcKinds, CallMoves DEF Alone, lockVars, NoArg
<1>24. ASSUME NEW r \in Requests, CallCAS(r) PROVE WatchersWait'
  BY <1>24, ProcKinds, CallMoves DEF Alone, lockVars, NoArg
<1>25. ASSUME NEW r \in Requests, WriteLock(r) PROVE WatchersWait'
  BY <1>25, ProcKinds DEF WriteLock, Goto, ProcTypes, procVars, Args, NoArg
<1>26. ASSUME NEW r \in Requests, WriteDone(r) PROVE WatchersWait'
  BY <1>26, ProcKinds DEF WriteDone, Goto, ProcTypes, procVars, Args, NoArg
<1>27. ASSUME NEW r \in Requests, ReadRefused(r) PROVE WatchersWait'
  BY <1>27, ProcKinds DEF ReadRefused, Goto, ProcTypes, procVars, Args, NoArg
<1>28. ASSUME NEW r \in Requests, ReadLock(r) PROVE WatchersWait'
  BY <1>28, ProcKinds DEF ReadLock, Goto, ProcTypes, procVars, Args, NoArg
<1>29. ASSUME NEW r \in Requests, ReadDone(r) PROVE WatchersWait'
  BY <1>29, ProcKinds DEF ReadDone, Goto, ProcTypes, procVars, Args, NoArg
<1>30. ASSUME NEW r \in Requests, CallFinish(r) PROVE WatchersWait'
  BY <1>30, ProcKinds DEF CallFinish, Goto, ProcTypes, procVars, Args, NoArg
<1>31. ASSUME NEW r \in Requests, CallUnflag(r) PROVE WatchersWait'
  BY <1>31, ProcKinds DEF CallUnflag, Goto, ProcTypes, procVars, Args, NoArg
<1>32. ASSUME NEW r \in Requests, CallEnd(r) PROVE WatchersWait'
  BY <1>32, ProcKinds DEF CallEnd, Return, ProcTypes, procVars, Args, NoArg
<1>33. ASSUME NEW r \in Requests, WatchFinished(r) PROVE WatchersWait'
  BY <1>33, ProcKinds DEF WatchFinished, Return, ProcTypes, procVars, Args, NoArg
<1>34. ASSUME NEW r \in Requests, WatchClosed(r) PROVE WatchersWait'
  BY <1>34, ProcKinds DEF WatchClosed, Goto, ProcTypes, procVars, Args, NoArg
<1>35. ASSUME NEW p \in Procs, RelDrain(p) PROVE WatchersWait'
  BY <1>35, ProcKinds, RelDrainMoves DEF Alone, Back, lockVars, NoArg
<1> QED
  BY <1>1, <1>2, <1>3, <1>4, <1>5, <1>6, <1>7, <1>8, <1>9, <1>10, <1>11, <1>12, <1>13,
     <1>14, <1>15, <1>16, <1>17, <1>18, <1>19, <1>20, <1>21, <1>22, <1>23, <1>24, <1>25,
     <1>26, <1>27, <1>28, <1>29, <1>30, <1>31, <1>32, <1>33, <1>34, <1>35
     DEF Next, Environment, Enumerating, Releasing, AcquireStep, CallStep, Watching

\* a handle that leaves the table is the one its process closes next
LEMMA HandlesStep ==
  ASSUME ProcTypes, SessTypes, WatchersWait, NoLostHandle, Next
  PROVE  NoLostHandle'
<1> USE DEF NoLostHandle, WatchersWait
<1>1. ASSUME NEW port \in Ports, Plug(port) PROVE NoLostHandle'
  BY <1>1, ProcKinds DEF Plug, ProcTypes, SessTypes, Sessions, sessVars, procVars
<1>2. ASSUME NEW port \in Ports, Unplug(port) PROVE NoLostHandle'
  BY <1>2, ProcKinds DEF Unplug, ProcTypes, SessTypes, Sessions, sessVars, procVars
<1>3. ASSUME NEW r \in Requests, StartEnumerate(r) PROVE NoLostHandle'
  BY <1>3, ProcKinds DEF StartEnumerate, Arrive, ProcTypes, SessTypes, Sessions,
     sessVars, procVars
<1>4. ASSUME NEW r \in Requests, NEW path \in SentPaths,
             NEW prev \in 0 .. latestSessionID, NEW debug \in Interfaces,
             StartAcquire(r, path, prev, debug)
      PROVE  NoLostHandle'
  BY <1>4, ProcKinds DEF StartAcquire, Arrive, ProcTypes, SessTypes, Sessions, sessVars,
     procVars
<1>5. ASSUME NEW r \in Requests, NEW s \in 1 .. latestSessionID, StartRelease(r, s)
      PROVE  NoLostHandle'
  BY <1>5, ProcKinds DEF StartRelease, Arrive, ProcTypes, SessTypes, Sessions, sessVars,
     procVars
<1>6. ASSUME NEW r \in Requests, NEW s \in 1 .. latestSessionID,
             NEW mode \in CallModes, StartCall(r, s, mode)
      PROVE  NoLostHandle'
  BY <1>6, ProcKinds DEF StartCall, Arrive, ProcTypes, SessTypes, Sessions, sessVars,
     procVars
<1>7. ASSUME NEW r \in Requests, ClientClose(r) PROVE NoLostHandle'
  BY <1>7, ProcKinds DEF ClientClose, ProcTypes, SessTypes, Sessions, sessVars, procVars
<1>8. ASSUME BackgroundTick PROVE NoLostHandle'
  BY <1>8, ProcKinds DEF BackgroundTick, Goto, ProcTypes, SessTypes, Sessions, sessVars,
     procVars
<1>9. ASSUME NEW p \in Threads, EnumLock(p) PROVE NoLostHandle'
  BY <1>9, ProcKinds DEF EnumLock, Goto, ProcTypes, SessTypes, Sessions, sessVars,
     procVars
<1>10. ASSUME NEW p \in Threads, EnumCalls(p) PROVE NoLostHandle'
  BY <1>10, ProcKinds DEF EnumCalls, Goto, ProcTypes, SessTypes, Sessions, sessVars,
     procVars
<1>11. ASSUME NEW p \in Threads, EnumBusError(p) PROVE NoLostHandle'
  BY <1>11, ProcKinds DEF EnumBusError, Return, EnumUnlock, ProcTypes, SessTypes,
     Sessions, sessVars, procVars
<1>12. ASSUME NEW p \in Threads, NEW devs \in SUBSET Ports, EnumBusOK(p, devs)
       PROVE  NoLostHandle'
  BY <1>12, ProcKinds DEF EnumBusOK, Goto, ProcTypes, SessTypes, Sessions, sessVars,
     procVars
<1>13. ASSUME NEW p \in Threads, NEW s \in 1 .. latestSessionID,
              NEW debug \in BOOLEAN, Reap(p, s, debug)
       PROVE  NoLostHandle'
  BY <1>13, ProcKinds DEF Reap, Goto, ProcTypes, SessTypes, Sessions, sessVars, procVars
<1>14. ASSUME NEW p \in Threads, EnumReturn(p) PROVE NoLostHandle'
  BY <1>14, ProcKinds DEF EnumReturn, Return, EnumUnlock, ProcTypes, SessTypes,
     Sessions, sessVars, procVars
<1>15. ASSUME NEW p \in Procs, RelLoad(p) PROVE NoLostHandle'
  BY <1>15, ProcKinds DEF RelLoad, RelReturn, Return, ProcTypes, SessTypes, Sessions,
     sessVars, procVars
<1>16. ASSUME NEW p \in Procs, RelDelete(p) PROVE NoLostHandle'
  BY <1>16, ProcKinds DEF RelDelete, Goto, ProcTypes, SessTypes, Sessions, sessVars,
     procVars
<1>17. ASSUME NEW p \in Procs, RelClose(p) PROVE NoLostHandle'
  BY <1>17, CloseEffect, RelCloseMoves DEF Alone
<1>18. ASSUME NEW r \in Requests, AcqCheck(r) PROVE NoLostHandle'
  <2>1. /\ r \in Procs /\ Alone(r) /\ pc[r] # "relClose"
        /\ UNCHANGED <<latestSessionID, sess, table>>
    BY <1>18, ProcKinds, AcqCheckMoves DEF AcqCheck, sessVars
  <2> QED
    BY <2>1 DEF Alone
<1>19. ASSUME NEW r \in Requests, AcqPrepare(r) PROVE NoLostHandle'
  <2>1. /\ r \in Procs /\ Alone(r) /\ pc[r] # "relClose"
        /\ UNCHANGED <<latestSessionID, sess, table>>
    BY <1>19, ProcKinds, AcqPrepareMoves DEF AcqPrepare, sessVars
  <2> QED
    BY <2>1 DEF Alone
<1>20. ASSUME NEW r \in Requests, AcqRetry(r) PROVE NoLostHandle'
  BY <1>20, ProcKinds, SMTT(30) DEF AcqRetry, AcqFail, Return, ProcTypes, SessTypes, Sessions,
     sessVars, procVars
<1>21. ASSUME NEW r \in Requests, AcqConnect(r) PROVE NoLostHandle'
  <2>1. r \in Procs /\ arg[r].debug \in BOOLEAN
    BY ProcKinds DEF ProcTypes, Args
  <2>2. /\ Alone(r) /\ pc[r] # "relClose"
        /\ latestSessionID' = latestSessionID + 1
        /\ \A s \in 1 .. latestSessionID : sess'[s] = sess[s]
        /\ sess'[latestSessionID'].debug = arg[r].debug
        /\ \A debug \in BOOLEAN :
             table'[debug] = IF debug = arg[r].debug THEN table[debug] \cup {latestSessionID'}
                             ELSE table[debug]
    BY <1>21, <2>1, ConnectMoves
  <2>3. ASSUME NEW s \in 1 .. latestSessionID', sess'[s].dev = "open"
        PROVE  \/ s \in table'[sess'[s].debug]
               \/ \E p \in Procs : pc'[p] = "relClose" /\ arg'[p].ssid = s
    <3>1. CASE s = latestSessionID'
      BY <2>1, <2>2, <3>1
    <3>2. CASE s # latestSessionID'
      <4>1. s \in 1 .. latestSessionID /\ sess[s].debug \in BOOLEAN
        BY <2>2, <2>3, <3>2 DEF SessTypes, Sessions
      <4>2. \/ s \in table[sess[s].debug]
            \/ \E p \in Procs : pc[p] = "relClose" /\ arg[p].ssid = s
        BY <2>2, <2>3, <4>1
      <4> QED
        BY <2>2, <4>1, <4>2 DEF Alone
    <3> QED
      BY <3>1, <3>2
  <2> QED
    BY <2>3
<1>22. ASSUME NEW r \in Requests, CallBegin(r) PROVE NoLostHandle'
  BY <1>22, ProcKinds DEF CallBegin, Goto, ProcTypes, SessTypes, Sessions, sessVars,
     procVars
<1>23. ASSUME NEW r \in Requests, CallLoad(r) PROVE NoLostHandle'
  BY <1>23, ProcKinds, SMTT(30) DEF CallLoad, Spawn, ProcTypes, SessTypes, Sessions, sessVars,
     procVars
<1>24. ASSUME NEW r \in Requests, CallCAS(r) PROVE NoLostHandle'
  <2>1. UNCHANGED <<latestSessionID, table>> /\ pc[r] = "callCAS"
    BY <1>24 DEF CallCAS
  <2>2. sess' = sess \/ sess' = [sess EXCEPT ![Acquired(r)].call = 1]
    BY <1>24 DEF CallCAS
  <2>3. \A s \in 1 .. latestSessionID :
          sess'[s].dev = sess[s].dev /\ sess'[s].debug = sess[s].debug
    BY <2>2 DEF SessTypes, Sessions
  <2>4. pc[Watcher(r)] = "idle"
    BY <2>1
  <2>5. \A q \in Procs : q # r /\ q # Watcher(r) => pc'[q] = pc[q] /\ arg'[q] = arg[q]
    BY <1>24, CallMoves
  <2>6. \A q \in Procs : pc[q] = "relClose" => pc'[q] = "relClose" /\ arg'[q] = arg[q]
    BY <2>1, <2>4, <2>5
  <2> QED
    BY <2>1, <2>3, <2>6
<1>25. ASSUME NEW r \in Requests, WriteLock(r) PROVE NoLostHandle'
  BY <1>25, ProcKinds DEF WriteLock, Goto, ProcTypes, SessTypes, Sessions, sessVars,
     procVars
<1>26. ASSUME NEW r \in Requests, WriteDone(r) PROVE NoLostHandle'
  BY <1>26, ProcKinds DEF WriteDone, Goto, ProcTypes, SessTypes, Sessions, sessVars,
     procVars
<1>27. ASSUME NEW r \in Requests, ReadRefused(r) PROVE NoLostHandle'
  BY <1>27, ProcKinds DEF ReadRefused, Goto, ProcTypes, SessTypes, Sessions, sessVars,
     procVars
<1>28. ASSUME NEW r \in Requests, ReadLock(r) PROVE NoLostHandle'
  BY <1>28, ProcKinds DEF ReadLock, Goto, ProcTypes, SessTypes, Sessions, sessVars,
     procVars
<1>29. ASSUME NEW r \in Requests, ReadDone(r) PROVE NoLostHandle'
  BY <1>29, ProcKinds DEF ReadDone, Goto, ProcTypes, SessTypes, Sessions, sessVars,
     procVars
<1>30. ASSUME NEW r \in Requests, CallFinish(r) PROVE NoLostHandle'
  BY <1>30, ProcKinds DEF CallFinish, Goto, ProcTypes, SessTypes, Sessions, sessVars,
     procVars
<1>31. ASSUME NEW r \in Requests, CallUnflag(r) PROVE NoLostHandle'
  BY <1>31, ProcKinds DEF CallUnflag, Goto, ProcTypes, SessTypes, Sessions, sessVars,
     procVars
<1>32. ASSUME NEW r \in Requests, CallEnd(r) PROVE NoLostHandle'
  BY <1>32, ProcKinds DEF CallEnd, Return, ProcTypes, SessTypes, Sessions, sessVars,
     procVars
<1>33. ASSUME NEW r \in Requests, WatchFinished(r) PROVE NoLostHandle'
  BY <1>33, ProcKinds DEF WatchFinished, Return, ProcTypes, SessTypes, Sessions,
     sessVars, procVars
<1>34. ASSUME NEW r \in Requests, WatchClosed(r) PROVE NoLostHandle'
  BY <1>34, ProcKinds DEF WatchClosed, Goto, ProcTypes, SessTypes, Sessions, sessVars,
     procVars
<1>35. ASSUME NEW p \in Procs, RelDrain(p) PROVE NoLostHandle'
  <2>1. /\ Alone(p) /\ pc[p] # "relClose"
        /\ UNCHANGED <<latestSessionID, sess, table>>
    BY <1>35, RelDrainMoves DEF RelDrain, sessVars
  <2> QED
    BY <2>1 DEF Alone
<1> QED
  BY <1>1, <1>2, <1>3, <1>4, <1>5, <1>6, <1>7, <1>8, <1>9, <1>10, <1>11, <1>12, <1>13,
     <1>14, <1>15, <1>16, <1>17, <1>18, <1>19, <1>20, <1>21, <1>22, <1>23, <1>24, <1>25,
     <1>26, <1>27, <1>28, <1>29, <1>30, <1>31, <1>32, <1>33, <1>34, <1>35
     DEF Next, Environment, Enumerating, Releasing, AcquireStep, CallStep, Watching

\* the compare-and-swap of a call that goes on finds 0 and leaves 1
LEMMA CASEffect ==
  ASSUME ProcTypes, SessTypes, NEW r \in Requests, CallCAS(r), InCall(r)',
         Acquired(r) \in 1 .. latestSessionID
  PROVE  sess[Acquired(r)].call = 0 /\ sess'[Acquired(r)].call = 1
<1>1. pc' # [pc EXCEPT ![r] = "callEnd"]
  BY ProcKinds DEF InCall, ProcTypes
<1>2. sess[Acquired(r)].call = 0 /\ sess' = [sess EXCEPT ![Acquired(r)].call = 1]
  BY <1>1 DEF CallCAS
<1> QED
  BY <1>2 DEF SessTypes, Sessions

\* the flag of a session in a call is set, so the next call is refused
LEMMA FlagsStep ==
  ASSUME ProcTypes, SessTypes, FlagsHeld, OneCallPerSession, CallerMoves, Next
  PROVE  FlagsHeld' /\ OneCallPerSession'
<1>1. latestSessionID' \in Nat /\ latestSessionID <= latestSessionID'
  BY TableSteps DEF SessionsKept, AcqConnect, RelDelete, EnumBusOK, sessVars, SessTypes
<1>2. ASSUME NEW r \in Requests, Calling(r)'
      PROVE  /\ Acquired(r)' \in 1 .. latestSessionID'
             /\ pc'[r] # "callBegin" => Calling(r) /\ Acquired(r)' = Acquired(r)
             /\ Calling(r) => Acquired(r) \in 1 .. latestSessionID
  <2>1. Calling(r) => Acquired(r) \in 1 .. latestSessionID
    BY DEF FlagsHeld, Calling
  <2>2. \/ pc'[r] = "callBegin" /\ Acquired(r)' \in 1 .. latestSessionID
        \/ Calling(r) /\ Acquired(r)' = Acquired(r)
    BY <1>2 DEF CallerMoves, Acquired
  <2> QED
    BY <1>1, <2>1, <2>2 DEF SessTypes, Acquired
<1>3. ASSUME NEW r \in Requests, InCall(r)'
      PROVE  /\ Acquired(r)' = Acquired(r) /\ Acquired(r) \in 1 .. latestSessionID
             /\ \/ InCall(r) /\ sess[Acquired(r)].call = 1
                \/ /\ CallCAS(r)
                   /\ sess[Acquired(r)].call = 0 /\ sess'[Acquired(r)].call = 1
  <2>1. Calling(r)' /\ pc'[r] # "callBegin"
    BY <1>3 DEF InCall, Calling, CallPCs
  <2>2. Acquired(r)' = Acquired(r) /\ Acquired(r) \in 1 .. latestSessionID
    BY <1>2, <2>1
  <2> QED
    BY <1>3, <2>2, CASEffect DEF CallerMoves, FlagsHeld
<1>4. ASSUME NEW q \in Requests, NEW r \in Requests, InCall(q)', InCall(r)',
             Acquired(q)' = Acquired(r)'
      PROVE  q = r
  <2>1. CASE InCall(q) /\ InCall(r)
    BY <1>3, <1>4, <2>1 DEF OneCallPerSession
  <2>2. CASE CallCAS(q) /\ CallCAS(r)
    BY <1>4, <2>2, CallMoves, ProcKinds DEF InCall
  <2> QED
    BY <1>3, <1>4, <2>1, <2>2
<1>5. ASSUME NEW r \in Requests, InCall(r)'
      PROVE  sess'[Acquired(r)'].call = 1
  <2>1. CASE CallCAS(r)
    BY <1>3, <1>5, <2>1, CASEffect
  <2>2. CASE InCall(r) /\ ObjectsKept
    BY <1>3, <1>5, <2>2 DEF ObjectsKept, FlagsHeld
  <2>3. ASSUME InCall(r), NEW p \in Requests, AcqConnect(p)
        PROVE  sess'[Acquired(r)'].call = 1
    BY <1>3, <1>5, <2>3, ConnectMoves, ProcKinds DEF FlagsHeld
  <2>4. ASSUME InCall(r), NEW p \in Procs, RelClose(p)
        PROVE  sess'[Acquired(r)'].call = 1
    BY <1>3, <1>5, <2>4, CloseEffect DEF FlagsHeld
  <2>5. ASSUME InCall(r), NEW p \in Requests, CallCAS(p)
        PROVE  sess'[Acquired(r)'].call = 1
    BY <1>3, <1>5, <2>5 DEF CallCAS, FlagsHeld, SessTypes, Sessions
  <2>6. ASSUME InCall(r), NEW p \in Requests, CallUnflag(p)
        PROVE  sess'[Acquired(r)'].call = 1
    <3>1. p # r
      BY <1>5, <2>6, ProcKinds DEF CallUnflag, Goto, InCall, ProcTypes
    <3>2. InCall(p)
      BY <2>6 DEF CallUnflag, Goto, FlagsHeld
    <3>3. Acquired(p) # Acquired(r)
      BY <2>6, <3>1, <3>2 DEF OneCallPerSession
    <3> QED
      BY <1>3, <1>5, <2>6, <3>3 DEF CallUnflag, FlagsHeld, SessTypes, Sessions
  <2> QED
    BY <1>3, <1>5, <2>1, <2>2, <2>3, <2>4, <2>5, <2>6, TableSteps
<1>6. ASSUME NEW r \in Requests, pc'[r] = "callUnflag"
      PROVE  InCall(r)'
  <2>1. Calling(r) /\ arg'[r] = arg[r]
    BY <1>6 DEF CallerMoves, Calling, CallPCs
  <2> QED
    BY <1>6, <2>1 DEF CallerMoves, FlagsHeld, InCall
<1> QED
  BY <1>2, <1>4, <1>5, <1>6 DEF FlagsHeld, OneCallPerSession, Calling

\* the invariant holds at the start ...
LEMMA CoreInvInit ==
  ASSUME Init
  PROVE  CoreInv
<1>1. TypeOK /\ CallsCounted
  BY InitTypes
<1>2. pc = [p \in Procs |-> "idle"] /\ arg = [p \in Procs |-> NoArg]
  BY DEF Init
<1>3. OpsAgree /\ LocksHeld /\ BusQuiet /\ WatchersWait
  BY <1>2, ProcKinds DEF OpsAgree, LocksHeld, BusQuiet, WatchersWait, InEnum, InAcquire,
     EnumPCs, AcqPCs, RelPCs, CallPCs, NoArg
<1>4. SessInv
  BY <1>2, ConfigAssumption DEF Init, PathsInit, SessInv, OneSessionPerPath,
     NamesListed, Reaped,
     AcquireRelies, Relies, InAcquire, RelPCs
<1>5. FlagsHeld /\ OneCallPerSession /\ NoLostHandle
  BY <1>2, ProcKinds DEF Init, FlagsHeld, OneCallPerSession, InCall, CallPCs,
     NoLostHandle
<1> QED
  BY <1>1, <1>3, <1>4, <1>5 DEF CoreInv, SessInv

\* ... every step keeps it ...
LEMMA CoreInvStep ==
  ASSUME CoreInv, [Next]_vars
  PROVE  CoreInv'
<1>1. CASE UNCHANGED vars
  BY <1>1, TypeStep DEF CoreInv, vars, pathVars, lockVars, sessVars, procVars, OpsAgree,
     LocksHeld,
     BusQuiet, InEnum, InAcquire, Reaping, NamesListed, OneSessionPerPath, Reaped, AcquireRelies,
     Relies, WatchersWait, FlagsHeld, InCall, Acquired, OneCallPerSession, NoLostHandle
<1>2. CASE Next
  <2>1. /\ ProcTypes /\ SessTypes /\ OpsAgree /\ LocksHeld /\ BusQuiet /\ SessInv
        /\ WatchersWait /\ FlagsHeld /\ OneCallPerSession /\ NoLostHandle
    BY TypeParts DEF CoreInv, SessInv
  <2>2. TypeOK' /\ CallsCounted'
    BY TypeStep DEF CoreInv
  <2>3. OpsAgree' /\ LocksHeld'
    BY <1>2, <2>1, OpsStep, LocksStep
  <2>4. StepMoves
    BY <1>2, <2>1, Moves
  <2>5. BusQuiet'
    BY <2>1, <2>4, QuietStep
  <2>6. SessInv'
    BY <1>2, <2>1, <2>4, TableSteps, KeptStep, DeleteStep, ConnectStep, ListStep,
       ProcKinds
  <2>7. WatchersWait' /\ NoLostHandle'
    BY <1>2, <2>1, WatchersStep, HandlesStep
  <2>8. FlagsHeld' /\ OneCallPerSession'
    BY <1>2, <2>1, CallerSteps, FlagsStep
  <2> QED
    BY <2>2, <2>3, <2>5, <2>6, <2>7, <2>8 DEF CoreInv, SessInv
<1> QED
  BY <1>1, <1>2

\* ... and it implies the properties
LEMMA CoreInvImplies ==
  ASSUME CoreInv
  PROVE  SessionsListed /\ AcquireStillRight /\ NoEnumerationDuringCall
<1>1. SessionsListed
  BY ProcKinds DEF CoreInv, LocksHeld, Reaping, Reaped, SessionsListed
<1>2. AcquireStillRight
  <2> SUFFICES ASSUME NEW r \in Requests, pc[r] = "acqConnect"
               PROVE  /\ Atoi(arg[r].path) \in lastInfos
                      /\ SessionsOf(arg[r].path, arg[r].debug) = {}
                      /\ arg[r].reset => SessionsOf(arg[r].path, ~arg[r].debug) = {}
    BY DEF AcquireStillRight
  <2>1. Relies(r) /\ InAcquire(r)
    BY ProcKinds DEF CoreInv, AcquireRelies, InAcquire
  <2> QED
    BY <2>1 DEF Relies, SessionsOf
<1>3. NoEnumerationDuringCall
  <2> SUFFICES ASSUME NEW p \in Threads, NEW r \in Requests, pc[p] = "enumBus"
               PROVE  pc[r] \notin CallPCs
    BY DEF NoEnumerationDuringCall, CallPCs
  <2>1. Cardinality(InProgress) = 0
    BY ProcKinds DEF CoreInv, BusQuiet, CallsCounted
  <2>2. InProgress = {}
    BY <2>1, ProgressFinite, FS_EmptySet
  <2> QED
    BY <2>2 DEF InProgress
<1> QED
  BY <1>1, <1>2, <1>3

(***************************************************************************)
(* The inductive invariant.                                                *)
(***************************************************************************)
THEOREM Invariance == Spec => []CoreInv
<1> QED
  BY CoreInvInit, CoreInvStep, PTL DEF Spec

(***************************************************************************)
(* No two sessions of an interface ever have the same path: no two clients *)
(* that send the paths they were listed own the same interface.            *)
(***************************************************************************)
THEOREM InterfacesHaveOneSession == Spec => []OneSessionPerPath
<1>1. CoreInv => OneSessionPerPath
  BY DEF CoreInv
<1> QED
  BY <1>1, Invariance, PTL

(***************************************************************************)
(* Between enumerations every session is for a listed device, in whatever  *)
(* text its client sent the path.                                          *)
(***************************************************************************)
THEOREM SessionsAreListed == Spec => []SessionsListed
BY CoreInvImplies, Invariance, PTL

(***************************************************************************)
(* What an acquire decided is still so in every attempt to connect: its    *)
(* number is listed and no other session has its path.                     *)
(***************************************************************************)
THEOREM AcquireStaysRight == Spec => []AcquireStillRight
BY CoreInvImplies, Invariance, PTL

(***************************************************************************)
(* The buses are not listed while a call uses its session.                 *)
(***************************************************************************)
THEOREM CallsExcludeEnumeration == Spec => []NoEnumerationDuringCall
BY CoreInvImplies, Invariance, PTL

(***************************************************************************)
(* Two calls that read never use a session at the same time.               *)
(***************************************************************************)
THEOREM CallsExcludeCalls == Spec => []OneCallPerSession
<1>1. CoreInv => OneCallPerSession
  BY DEF CoreInv
<1> QED
  BY <1>1, Invariance, PTL

(***************************************************************************)
(* A handle nobody began to close is in the table or about to be closed.   *)
(***************************************************************************)
THEOREM HandlesAreKept == Spec => []NoLostHandle
<1>1. CoreInv => NoLostHandle
  BY DEF CoreInv
<1> QED
  BY <1>1, Invariance, PTL

\* the owner a session stands for
Owner(debug, s) == [debug |-> debug, path |-> sess[s].path, session |-> s]

\* Owners without its union
LEMMA OwnerForms ==
  \A o : o \in Owners <=> \E debug \in BOOLEAN : \E s \in table[debug] : o = Owner(debug, s)
BY DEF Owners, Owner

\* sessions that stay keep their owners
LEMMA KeptOwners ==
  ASSUME SessTypes, UNCHANGED <<latestSessionID, table>>,
         \A s \in 1 .. latestSessionID : sess'[s].path = sess[s].path
  PROVE  UNCHANGED <<Owners, latestSessionID>>
<1>1. \A debug \in BOOLEAN : \A s \in table[debug] : sess'[s].path = sess[s].path
  BY DEF SessTypes
<1> QED
  BY <1>1 DEF Owners

\* RelDelete ends an ownership, or stutters when the entry is gone already
LEMMA DeleteOwner ==
  ASSUME ProcTypes, SessTypes, NEW p \in Procs, RelDelete(p)
  PROVE  [Ownership!Next]_(Ownership!vars)
<1> DEFINE debug == arg[p].debug
           s == arg[p].ssid
           o == Owner(debug, s)
<1>1. debug \in BOOLEAN
  BY DEF ProcTypes, Args
<1>2. /\ UNCHANGED <<latestSessionID, sess>>
      /\ \A d \in BOOLEAN : table'[d] = IF d = debug THEN table[d] \ {s} ELSE table[d]
  BY DeleteMoves
<1>3. \A x : x \in Owners' <=> \E d \in BOOLEAN : \E t \in table'[d] : x = Owner(d, t)
  BY <1>2 DEF Owners, Owner
<1>4. \A d \in BOOLEAN : \A t : Owner(d, t) = o <=> d = debug /\ t = s
  BY <1>1 DEF Owner
<1> HIDE DEF debug, s, o
<1>5. Owners' = Owners \ {o}
  <2>1. ASSUME NEW x \in Owners'
        PROVE  x \in Owners \ {o}
    <3>1. PICK d \in BOOLEAN : \E t \in table'[d] : x = Owner(d, t)
      BY <1>3
    <3>2. PICK t \in table'[d] : x = Owner(d, t)
      BY <3>1
    <3>3. t \in table[d] /\ ~(d = debug /\ t = s)
      BY <1>2, <3>2
    <3> QED
      BY <1>4, <3>2, <3>3, OwnerForms
  <2>2. ASSUME NEW x \in Owners, x # o
        PROVE  x \in Owners'
    <3>1. PICK d \in BOOLEAN : \E t \in table[d] : x = Owner(d, t)
      BY OwnerForms
    <3>2. PICK t \in table[d] : x = Owner(d, t)
      BY <3>1
    <3>3. t \in table'[d]
      BY <1>2, <1>4, <2>2, <3>2
    <3> QED
      BY <1>3, <3>2, <3>3
  <2> QED
    BY <2>1, <2>2
<1>6. CASE o \in Owners
  BY <1>2, <1>5, <1>6 DEF Ownership!Next, Ownership!End
<1>7. CASE o \notin Owners
  <2>1. Owners' = Owners
    BY <1>5, <1>7
  <2> QED
    BY <1>2, <2>1 DEF Ownership!vars
<1> QED
  BY <1>6, <1>7

\* AcqConnect takes a free interface with a new session
LEMMA ConnectOwner ==
  ASSUME CoreInv, NEW p \in Requests, AcqConnect(p)
  PROVE  Ownership!Next
<1> DEFINE debug == arg[p].debug
           path == arg[p].path
           new == latestSessionID'
<1>1. p \in Procs /\ ProcTypes /\ SessTypes /\ debug \in BOOLEAN
  BY ProcKinds, TypeParts DEF CoreInv, ProcTypes, Args
<1>2. /\ pc[p] = "acqConnect" /\ new = latestSessionID + 1
      /\ \A s \in 1 .. latestSessionID : sess'[s] = sess[s]
      /\ sess'[new].path = path
      /\ \A d \in BOOLEAN : table'[d] = IF d = debug THEN table[d] \cup {new} ELSE table[d]
  BY <1>1, ConnectMoves
<1>3. /\ Atoi(path) \in lastInfos
      /\ \A s \in table[debug] : sess[s].path # path
  BY <1>1, <1>2 DEF CoreInv, AcquireRelies, Relies, InAcquire
<1>4. path \in TextsOf(1 .. MaxPaths)
  <2>1. /\ biggestID \in Nat /\ lastInfos \subseteq 1 .. biggestID
        /\ biggestID <= MaxPaths /\ MaxPaths \in Nat
    BY ConfigAssumption DEF CoreInv, TypeOK, PathsTypeOK, NamesListed
  <2>2. path \in TextsOf(Nat) /\ Atoi(path) \in 1 .. biggestID
    BY <1>1, <1>3, <2>1 DEF ProcTypes, Args
  <2> HIDE DEF path
  <2>3. Atoi(path) \in 1 .. MaxPaths
    BY <2>1, <2>2
  <2> QED
    BY <2>2, <2>3 DEF TextsOf, Atoi
<1> DEFINE o == [debug |-> debug, path |-> path, session |-> new]
<1>5. \A d \in BOOLEAN : \A s \in table[d] : sess'[s] = sess[s]
  BY <1>1, <1>2 DEF SessTypes
<1>6. \A x : x \in Owners' <=>
        \E d \in BOOLEAN : \E s \in table'[d] :
          x = [debug |-> d, path |-> sess'[s].path, session |-> s]
  BY DEF Owners
<1> HIDE DEF new
<1>7. Owners' = Owners \cup {o}
  <2>1. ASSUME NEW x \in Owners'
        PROVE  x \in Owners \cup {o}
    <3>1. PICK d \in BOOLEAN :
            \E s \in table'[d] : x = [debug |-> d, path |-> sess'[s].path, session |-> s]
      BY <1>6
    <3>2. PICK s \in table'[d] : x = [debug |-> d, path |-> sess'[s].path, session |-> s]
      BY <3>1
    <3>3. CASE s \in table[d]
      BY <1>5, <3>2, <3>3, OwnerForms DEF Owner
    <3>4. CASE s \notin table[d]
      BY <1>2, <3>2, <3>4
    <3> QED
      BY <3>3, <3>4
  <2>2. ASSUME NEW x \in Owners
        PROVE  x \in Owners'
    <3>1. PICK d \in BOOLEAN : \E s \in table[d] : x = Owner(d, s)
      BY OwnerForms
    <3>2. PICK s \in table[d] : x = Owner(d, s)
      BY <3>1
    <3>3. s \in table'[d] /\ sess'[s] = sess[s]
      BY <1>2, <1>5
    <3> QED
      BY <1>6, <3>2, <3>3 DEF Owner
  <2>3. new \in table'[debug]
    BY <1>1, <1>2
  <2>4. o \in Owners'
    BY <1>1, <1>2, <1>6, <2>3
  <2> QED
    BY <2>1, <2>2, <2>4
<1>8. \A x \in Owners : <<x.debug, x.path>> # <<debug, path>>
  BY <1>3, OwnerForms DEF Owner
<1>9. Ownership!Take(debug, path)
  BY <1>2, <1>7, <1>8 DEF Ownership!Take, new
<1> QED
  BY <1>1, <1>4, <1>9 DEF Ownership!Next

\* every step is a step of SessionOwner or a stutter
LEMMA OwnershipStep ==
  ASSUME CoreInv, [Next]_vars
  PROVE  [Ownership!Next]_(Ownership!vars)
<1>1. ProcTypes /\ SessTypes
  BY TypeParts DEF CoreInv
<1>2. CASE UNCHANGED vars
  BY <1>2 DEF vars, sessVars, Ownership!vars, Owners
<1>3. CASE SessionsKept
  BY <1>1, <1>3, KeptOwners DEF SessionsKept, Ownership!vars
<1>4. ASSUME NEW p \in Threads, NEW devs \in SUBSET Ports, EnumBusOK(p, devs)
      PROVE  UNCHANGED Ownership!vars
  BY <1>1, <1>4, KeptOwners DEF EnumBusOK, sessVars, Ownership!vars
<1> QED
  BY <1>1, <1>2, <1>3, <1>4, TableSteps, DeleteOwner, ConnectOwner

(***************************************************************************)
(* The sessions of Core implement the ownership the README promises: what  *)
(* a client sees of acquire, steal, release, auto-release and disconnect   *)
(* is one owner of each path at a time, under a session nobody had before. *)
(***************************************************************************)
THEOREM SessionsImplementOwnership == Spec => OwnershipSpec
<1>1. Init => Ownership!Init
  BY DEF Init, Ownership!Init, Owners
<1> QED
  BY <1>1, OwnershipStep, Invariance, PTL DEF Spec, OwnershipSpec, Ownership!Spec
=============================================================================
