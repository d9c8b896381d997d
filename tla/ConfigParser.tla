---------------------------- MODULE ConfigParser ----------------------------
(***************************************************************************)
(* libusb/c/descriptor.c: a raw configuration descriptor is parsed into a  *)
(* tree of interfaces, alternate settings and endpoints, each with the     *)
(* class descriptors that follow it, all of it allocated on the way.  The  *)
(* descriptors come from the device: lengths may be wrong, interfaces and  *)
(* endpoints missing.  Every allocation may fail.                          *)
(***************************************************************************)
EXTENDS Integers, Sequences, FiniteSets

CONSTANTS MaxLen,                 \* descriptors after the first
          MaxInterfaces,          \* bNumInterfaces of the first one
          MaxEndpoints,           \* bNumEndpoints of an interface
          Lens,                   \* bLength: "ok", "bad", "long"
          MallocFails

ParserAssumption ==
  /\ MaxLen \in Nat /\ MaxInterfaces \in Nat /\ MaxEndpoints \in Nat
  /\ Lens \subseteq {"ok", "bad", "long"} /\ MallocFails \in BOOLEAN

VARIABLES
  input, promised,                \* the descriptors, bNumInterfaces as sent
  pc, at,                         \* the next descriptor
  i,                              \* the interface parse_configuration is at
  n, extra, interface,            \* struct libusb_config_descriptor
  heap,                           \* allocated blocks
  ret

vars == <<input, promised, pc, at, i, n, extra, interface, heap, ret>>

data == <<input, promised>>

Descriptors ==
  [t : {"IF"}, num : {0, 1}, eps : 0 .. MaxEndpoints, len : Lens]
  \cup [t : {"EP", "CS"}, num : {0}, eps : {0}, len : Lens]

NULL == <<0>>

\* alternate settings and endpoints are known by where they stood
Alts == [at : 1 .. MaxLen, eps : 0 .. MaxEndpoints, endpoint : Seq(0 .. MaxLen)]
Blocks ==
  {<<"config">>, <<"interfaces">>, <<"extra">>} \cup ({"alts"} \X (1 .. MaxInterfaces))
  \cup ({"eps", "altextra", "epextra"} \X (1 .. MaxLen))

TypeOK ==
  /\ pc \in {"config", "skip", "alt", "skipalt", "eps", "ep", "next", "done", "failed", "freed"}
  /\ at \in 1 .. MaxLen + 1 /\ i \in 1 .. MaxInterfaces + 1
  /\ n \in 0 .. promised /\ extra \subseteq 1 .. MaxLen
  /\ interface \in [1 .. promised -> Seq(Alts)]
  /\ heap \subseteq Blocks
  /\ ret \in {"none", "SUCCESS", "IO", "NO_MEM"}

Init ==
  /\ \E k \in 0 .. MaxLen : input \in [1 .. k -> Descriptors]
  /\ promised \in 0 .. MaxInterfaces
  /\ pc = "config" /\ at = 1 /\ i = 1 /\ n = 0 /\ extra = {}
  /\ interface = [k \in 1 .. promised |-> <<>>]
  /\ heap = {} /\ ret = "none"

-----------------------------------------------------------------------------

SizeOf == [IF |-> 9, EP |-> 7, CS |-> 3]

\* bytes from a descriptor to the end
RECURSIVE Size(_)
Size(q) == IF q > Len(input) THEN 0 ELSE SizeOf[input[q].t] + Size(q + 1)

Proper(q) == input[q].t # "CS"

\* where a loop over class descriptors stops: at a proper one, an invalid
\* length, a length past the end, the end
StopsAt(q) == q > Len(input) \/ Proper(q) \/ input[q].len # "ok"
Stop(p) == CHOOSE q \in p .. Len(input) + 1 : StopsAt(q) /\ \A k \in p .. q - 1 : ~StopsAt(k)
Skipped(p) == p .. Stop(p) - 1
Invalid(q) == q <= Len(input) /\ ~Proper(q) /\ input[q].len = "bad"
Long(q) == q <= Len(input) /\ input[q].len = "long"

Malloc(ok) == ok \in BOOLEAN /\ (~MallocFails => ok)

Goto(from, to) == pc = from /\ pc' = to

-----------------------------------------------------------------------------
(* Freeing *)

\* clear_interface
Cleared(seq) ==
  UNION {{<<"altextra", seq[a].at>>, <<"eps", seq[a].at>>}
           \cup (IF seq[a].endpoint = NULL THEN {}
                 ELSE {<<"epextra", seq[a].endpoint[e]>> : e \in 1 .. Len(seq[a].endpoint)})
         : a \in 1 .. Len(seq)}
ClearInterface(k) == Cleared(interface[k]) \cup {<<"alts", k>>}

\* clear_configuration goes by the number of interfaces
ClearConfiguration(m) ==
  UNION {ClearInterface(k) : k \in 1 .. m} \cup {<<"interfaces">>, <<"extra">>}

Fail(r) ==
  /\ pc' = "failed" /\ ret' = r
  /\ heap' = (heap \ ClearConfiguration(n)) \ {<<"config">>}
  /\ UNCHANGED <<data, at, i, n, extra, interface>>

\* libusb_free_config_descriptor
Free ==
  /\ Goto("done", "freed")
  /\ heap' = (heap \ ClearConfiguration(n)) \ {<<"config">>}
  /\ UNCHANGED <<data, at, i, n, extra, interface, ret>>

Done(m) ==
  /\ pc' = "done" /\ ret' = "SUCCESS" /\ n' = m

-----------------------------------------------------------------------------
(* parse_configuration *)

ParseConfiguration ==
  /\ pc = "config"
  /\ \E ok1, ok2 \in BOOLEAN :
       /\ Malloc(ok1) /\ Malloc(ok2)
       /\ IF ok1 /\ ok2
          THEN /\ heap' = {<<"config">>, <<"interfaces">>} /\ n' = promised
               /\ pc' = "skip" /\ UNCHANGED ret
          ELSE heap' = {} /\ pc' = "failed" /\ ret' = "NO_MEM" /\ UNCHANGED n
  /\ UNCHANGED <<data, at, i, extra, interface>>

\* the class descriptors before an interface are the configuration's
SkipToInterface ==
  LET q == Stop(at) IN
  /\ pc = "skip"
  /\ \/ i > n /\ Done(n) /\ UNCHANGED <<at, extra, heap>>
     \/ i <= n /\ Long(q) /\ ~Proper(q) /\ Done(i - 1) /\ UNCHANGED <<at, extra, heap>>
     \/ /\ i <= n /\ ~Invalid(q) /\ ~(Long(q) /\ ~Proper(q))
        /\ at' = q /\ extra' = extra \cup Skipped(at)
        /\ heap' = IF Skipped(at) = {} THEN heap ELSE heap \cup {<<"extra">>}
        /\ pc' = "alt" /\ UNCHANGED <<n, ret>>
  /\ UNCHANGED <<data, i, interface>>

SkipInvalid ==
  \/ pc = "skip" /\ i <= n /\ Invalid(Stop(at)) /\ Fail("IO")
  \/ MallocFails /\ pc = "skip" /\ i <= n /\ Skipped(at) # {} /\ Fail("NO_MEM")

\* parse_interface is over: nothing parsed ends the configuration
InterfaceDone ==
  IF interface'[i] = <<>>
  THEN Done(i - 1) /\ UNCHANGED i
  ELSE pc' = "skip" /\ i' = i + 1 /\ UNCHANGED <<n, ret>>

-----------------------------------------------------------------------------
(* parse_interface *)

Short == Size(at) < SizeOf["IF"]

\* room for one more setting is made before the descriptor is looked at
AddAlt ==
  /\ pc = "alt"
  /\ IF Short
     THEN UNCHANGED <<at, interface, heap>> /\ InterfaceDone
     ELSE /\ heap' = heap \cup {<<"alts", i>>}
          /\ \/ /\ input[at].t # "IF" \/ input[at].len = "long"
                /\ UNCHANGED <<at, interface>> /\ InterfaceDone
             \/ /\ input[at].t = "IF" /\ input[at].len = "ok"
                /\ interface' = [interface EXCEPT ![i] =
                     Append(@, [at |-> at, eps |-> input[at].eps, endpoint |-> NULL])]
                /\ at' = at + 1 /\ pc' = "skipalt"
                /\ UNCHANGED <<i, n, ret>>
  /\ UNCHANGED <<data, extra>>

AltInvalid ==
  /\ pc = "alt" /\ ~Short
  /\ \/ input[at].t = "IF" /\ input[at].len = "bad" /\ Fail("IO")
     \/ MallocFails /\ Fail("NO_MEM")

Current == interface[i][Len(interface[i])]
SetCurrent(alt) == interface' = [interface EXCEPT ![i][Len(interface[i])] = alt]

\* a descriptor past the end: return at once
SkipAlt ==
  LET q == Stop(at) IN
  /\ pc = "skipalt" /\ ~Invalid(q) /\ at' = q
  /\ UNCHANGED <<data, extra, interface>>
  /\ \/ Long(q) /\ ~Proper(q) /\ UNCHANGED heap /\ InterfaceDone
     \/ /\ ~(Long(q) /\ ~Proper(q)) /\ pc' = "eps"
        /\ heap' = IF Skipped(at) = {} THEN heap ELSE heap \cup {<<"altextra", Current.at>>}
        /\ UNCHANGED <<i, n, ret>>

SkipAltInvalid ==
  /\ pc = "skipalt"
  /\ \/ Invalid(Stop(at)) /\ Fail("IO")
     \/ MallocFails /\ Skipped(at) # {} /\ Fail("NO_MEM")

AddEndpoints ==
  /\ pc = "eps"
  /\ IF Current.eps = 0
     THEN pc' = "next" /\ UNCHANGED <<interface, heap>>
     ELSE /\ pc' = "ep" /\ heap' = heap \cup {<<"eps", Current.at>>}
          /\ SetCurrent([Current EXCEPT !.endpoint = <<>>])
  /\ UNCHANGED <<data, at, i, n, extra, ret>>

EndpointsNoMem == MallocFails /\ pc = "eps" /\ Current.eps > 0 /\ Fail("NO_MEM")

-----------------------------------------------------------------------------
(* parse_endpoint *)

Endpoints == Current.endpoint

\* the slip that keeps the promised number of endpoints
EndpointsEndKept ==
  /\ pc = "ep" /\ pc' = "next"
  /\ \/ Len(Endpoints) = Current.eps /\ UNCHANGED interface
     \/ /\ Len(Endpoints) < Current.eps /\ at <= Len(input)
        /\ (input[at].t # "EP" \/ input[at].len = "long")
        /\ UNCHANGED interface
  /\ UNCHANGED <<data, at, i, n, extra, heap, ret>>

\* no endpoint where one should be: the setting has fewer
EndpointsEnd ==
  /\ pc = "ep" /\ pc' = "next"
  /\ \/ Len(Endpoints) = Current.eps /\ UNCHANGED interface
     \/ /\ Len(Endpoints) < Current.eps /\ at <= Len(input)
        /\ (input[at].t # "EP" \/ input[at].len = "long")
        /\ SetCurrent([Current EXCEPT !.eps = Len(Endpoints)])
  /\ UNCHANGED <<data, at, i, n, extra, heap, ret>>

AddEndpoint ==
  LET q == Stop(at + 1) IN
  /\ pc = "ep" /\ Len(Endpoints) < Current.eps /\ at <= Len(input)
  /\ input[at].t = "EP" /\ input[at].len = "ok" /\ ~Invalid(q)
  /\ SetCurrent([Current EXCEPT !.endpoint = Append(@, at)])
  /\ at' = q
  /\ heap' = IF Skipped(at + 1) = {} \/ (Long(q) /\ ~Proper(q)) THEN heap
             ELSE heap \cup {<<"epextra", at>>}
  /\ UNCHANGED <<data, pc, i, n, extra, ret>>

\* a setting that promises endpoints where the data end is an error too
EndpointInvalid ==
  /\ pc = "ep" /\ Len(Endpoints) < Current.eps
  /\ \/ at > Len(input) /\ Fail("IO")
     \/ at <= Len(input) /\ input[at].t = "EP" /\ input[at].len = "bad" /\ Fail("IO")
     \/ /\ at <= Len(input) /\ input[at].t = "EP" /\ input[at].len = "ok"
        /\ \/ Invalid(Stop(at + 1)) /\ Fail("IO")
           \/ MallocFails /\ Skipped(at + 1) # {} /\ ~Long(Stop(at + 1)) /\ Fail("NO_MEM")

\* is what follows an alternate setting of this interface?
Alternate ==
  /\ ~Short /\ input[at].t = "IF"
  /\ input[at].num = input[interface[i][1].at].num

NextAlt ==
  /\ pc = "next"
  /\ IF Alternate THEN pc' = "alt" /\ UNCHANGED <<i, n, ret>>
     ELSE pc' = "skip" /\ i' = i + 1 /\ UNCHANGED <<n, ret>>
  /\ UNCHANGED <<data, at, extra, interface, heap>>

-----------------------------------------------------------------------------

Next ==
  \/ ParseConfiguration \/ SkipToInterface \/ SkipInvalid
  \/ AddAlt \/ AltInvalid \/ SkipAlt \/ SkipAltInvalid
  \/ AddEndpoints \/ EndpointsNoMem \/ EndpointsEnd \/ AddEndpoint \/ EndpointInvalid
  \/ NextAlt \/ Free

Spec == Init /\ [][Next]_vars

-----------------------------------------------------------------------------
(* Properties *)

Ifs == {q \in 1 .. Len(input) : input[q].t = "IF"}
NextIf(q) == IF \E k \in Ifs : k > q THEN CHOOSE k \in Ifs : k > q /\ \A j \in Ifs : j > q => j >= k
             ELSE Len(input) + 1
EpsOf(q) == {k \in q .. NextIf(q) - 1 : input[k].t = "EP"}
\* the settings that do not continue the interface before them
Starts == {q \in Ifs : \A p \in Ifs : NextIf(p) = q => input[p].num # input[q].num}

\* a device that keeps to the USB specification
WellFormed ==
  /\ \A q \in 1 .. Len(input) : input[q].len = "ok"
  /\ \A q \in Ifs : Cardinality(EpsOf(q)) = input[q].eps
  /\ Cardinality(Starts) = promised
  /\ \A q \in 1 .. Len(input) : input[q].t = "EP" => \E p \in Ifs : p < q

(***************************************************************************)
(* The tree of a well-formed configuration is the one its descriptors      *)
(* describe: each interface has its settings in order, each setting its    *)
(* endpoints, and no descriptor is left over (descriptor.c:323, :437).     *)
(***************************************************************************)
TreeIsTruth ==
  WellFormed /\ pc = "done" =>
    /\ n = promised
    /\ {interface[k][1].at : k \in 1 .. n} = Starts
    /\ \A k \in 1 .. n : \A a \in 1 .. Len(interface[k]) :
         LET alt == interface[k][a] IN
         /\ a > 1 => alt.at = NextIf(interface[k][a - 1].at)
         /\ a = Len(interface[k]) => NextIf(alt.at) \in Starts \cup {Len(input) + 1}
         /\ {alt.endpoint[e] : e \in 1 .. alt.eps} = EpsOf(alt.at)

(***************************************************************************)
(* A well-formed configuration is refused for want of memory only.         *)
(***************************************************************************)
WellFormedParses == WellFormed /\ pc = "failed" => ret = "NO_MEM"

(***************************************************************************)
(* A parse that fails, at whatever descriptor or allocation, leaves        *)
(* nothing allocated; the free function leaves nothing of a well-formed    *)
(* configuration (clear_configuration, clear_interface).                   *)
(***************************************************************************)
FreesAll == pc = "failed" \/ (pc = "freed" /\ WellFormed) => heap = {}

(***************************************************************************)
(* The array of endpoints has the length bNumEndpoints says                *)
(* (libusb.h, struct libusb_interface_descriptor), and nothing that the    *)
(* tree refers to was freed.                                               *)
(***************************************************************************)
CountsMatch ==
  pc = "done" =>
    \A k \in 1 .. n : \A a \in 1 .. Len(interface[k]) :
      LET alt == interface[k][a] IN
      /\ alt.eps = IF alt.endpoint = NULL THEN 0 ELSE Len(alt.endpoint)
      /\ alt.endpoint # NULL => <<"eps", alt.at>> \in heap

(***************************************************************************)
(* Whatever was parsed, nothing is left when it is freed.                  *)
(***************************************************************************)
NothingLeaks == pc = "freed" => heap = {}
=============================================================================
