------------------------------- MODULE Listen --------------------------------
(***************************************************************************)
(* core/core.go, Listen, and the listing it polls: a client sends what it  *)
(* knows of the devices and of their sessions, and gets an answer when     *)
(* that is not true any more.                                              *)
(*                                                                         *)
(* While a call is in progress a listing shows the devices of the last one *)
(* before the call (lastInfos), with the sessions of now.  The acquires,   *)
(* releases and calls of Core are single steps here; module Core has them  *)
(* in detail.                                                              *)
(***************************************************************************)
EXTENDS Naturals

CONSTANTS Devices,
          IterMax,                \* iterMax
          IterDelay,              \* iterDelay, milliseconds
          MaxChanges              \* bound: plugs, acquires, releases, failures, aborts

ListenAssumption == IterMax \in Nat \ {0} /\ IterDelay \in Nat /\ MaxChanges \in Nat

VARIABLES attached,               \* the devices that are there
          session,                \* the session of a device, 0 for none
          lastId,                 \* latestSessionID
          calling,                \* callsInProgress > 0
          lastInfos,              \* the devices of the last listing of the buses
          known,                  \* what the client knows, a set of entries
          listen,                 \* the request: its step, iteration and age
          changes                 \* counts up to MaxChanges

worldVars == <<attached, session, lastId, calling>>
vars == <<worldVars, lastInfos, known, listen, changes>>

Entry == [device : Devices, session : 0 .. MaxChanges]
Idle == [pc |-> "idle", i |-> 0, age |-> 0]

TypeOK ==
  /\ attached \subseteq Devices /\ lastInfos \subseteq Devices
  /\ lastId \in 0 .. MaxChanges
  /\ session \in [Devices -> 0 .. lastId]
  /\ calling \in BOOLEAN
  /\ known \subseteq Entry
  /\ listen \in [pc : {"idle", "poll", "equal"}, i : 0 .. IterMax, age : Nat]
  /\ changes \in 0 .. MaxChanges

Init ==
  /\ attached \in SUBSET Devices
  /\ session = [d \in Devices |-> 0]
  /\ lastId = 0 /\ calling = FALSE
  /\ lastInfos = {}
  /\ known = {}
  /\ listen = Idle
  /\ changes = 0
-----------------------------------------------------------------------------
Changing == changes < MaxChanges /\ changes' = changes + 1

PlugOrPull(d) ==
  /\ Changing
  /\ attached' = IF d \in attached THEN attached \ {d} ELSE attached \cup {d}
  /\ UNCHANGED <<session, lastId, calling, lastInfos, known, listen>>

\* a first session, or a stolen one
Acquire(d) ==
  /\ Changing
  /\ d \in attached \cap lastInfos
  /\ lastId' = lastId + 1
  /\ session' = [session EXCEPT ![d] = lastId']
  /\ UNCHANGED <<attached, calling, lastInfos, known, listen>>

Release(d) ==
  /\ Changing
  /\ session[d] # 0
  /\ session' = [session EXCEPT ![d] = 0]
  /\ UNCHANGED <<attached, lastId, calling, lastInfos, known, listen>>

\* calls begin and end; also those of sessions that are gone
Call ==
  /\ calling' = ~calling
  /\ UNCHANGED <<attached, session, lastId, lastInfos, known, listen, changes>>
-----------------------------------------------------------------------------
(* Enumerate, under libusbMutex and callMutex                              *)

Infos == IF calling THEN lastInfos ELSE attached

\* the slip of a listing without sessions while the buses are not asked
EntriesBare(infos) ==
  {[device |-> d, session |-> IF calling THEN 0 ELSE session[d]] : d \in infos}

Entries(infos) == {[device |-> d, session |-> session[d]] : d \in infos}

\* releaseDisconnected: sessions of devices that are not listed end
Connected(infos) == [d \in Devices |-> IF d \in infos THEN session[d] ELSE 0]

Listing ==
  /\ lastInfos' = Infos
  /\ session' = Connected(Infos)

\* it asks only if the last listing was not empty
BackgroundListen ==
  /\ lastInfos # {}
  /\ Listing
  /\ UNCHANGED <<attached, lastId, calling, known, listen, changes>>

\* a bus fails; the request ends with the error
ListingFails ==
  /\ Changing /\ ~calling
  /\ listen.pc = "poll"
  /\ listen' = Idle
  /\ UNCHANGED <<worldVars, lastInfos, known>>
-----------------------------------------------------------------------------
Request ==
  /\ listen.pc = "idle"
  /\ listen' = [Idle EXCEPT !.pc = "poll"]
  /\ UNCHANGED <<worldVars, lastInfos, known, changes>>

Different ==
  /\ listen.pc = "poll" /\ listen.i < IterMax
  /\ known # Entries(Infos)
  /\ Listing
  /\ known' = Entries(Infos)
  /\ listen' = Idle
  /\ UNCHANGED <<attached, lastId, calling, changes>>

Equal ==
  /\ listen.pc = "poll" /\ listen.i < IterMax
  /\ known = Entries(Infos)
  /\ Listing
  /\ listen' = [listen EXCEPT !.pc = "equal"]
  /\ UNCHANGED <<attached, lastId, calling, known, changes>>

Wait ==
  /\ listen.pc = "equal"
  /\ listen' = [pc |-> "poll", i |-> listen.i + 1, age |-> listen.age + IterDelay]
  /\ UNCHANGED <<worldVars, lastInfos, known, changes>>

\* the client went away; it may send another request
Closed ==
  /\ Changing
  /\ listen.pc = "equal"
  /\ listen' = Idle
  /\ UNCHANGED <<worldVars, lastInfos, known>>

\* every listing was equal: the entries go back as they came
Same ==
  /\ listen.pc = "poll" /\ listen.i = IterMax
  /\ listen' = Idle
  /\ UNCHANGED <<worldVars, lastInfos, known, changes>>
-----------------------------------------------------------------------------
Poll == Different \/ Equal \/ Wait \/ Same

Next ==
  \/ \E d \in Devices : PlugOrPull(d) \/ Acquire(d) \/ Release(d)
  \/ Call \/ BackgroundListen \/ ListingFails \/ Closed
  \/ Request \/ Poll

Spec == Init /\ [][Next]_vars
-----------------------------------------------------------------------------
(***************************************************************************)
(* A client that listens again and again, sending what it was told, comes  *)
(* to know the devices that are there, once no call is in progress for     *)
(* good: no change that falls between two polls or two requests is lost.   *)
(***************************************************************************)
DevicesSeen == known = Entries(attached)

(***************************************************************************)
(* It comes to know every session of the devices it knows of, also while   *)
(* calls are in progress for ever and the buses are not asked.             *)
(***************************************************************************)
SessionsSeen == \A e \in known : e.session = session[e.device]

(***************************************************************************)
(* A request that changed nothing for the client has waited the whole time *)
(* (or failed, or was closed): an answer is never the entries that were    *)
(* sent, for a reason that has nothing to do with them.                    *)
(***************************************************************************)
SameIsLate ==
  listen.pc # "idle" /\ listen'.pc = "idle" /\ known' = known /\ changes' = changes
    => listen.age = IterMax * IterDelay

(***************************************************************************)
(* "Listen to changes and returns either on change or after 30 second      *)
(* timeout." (README.md:88)                                                *)
(***************************************************************************)
ThirtySeconds == listen.age <= 30000
=============================================================================
