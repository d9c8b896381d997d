---------------------------- MODULE SessionOwner ----------------------------
(***************************************************************************)
(* What the bridge promises about ownership (README, /acquire: "claiming   *)
(* the device for yourself"; "if two applications call acquire on a newly  *)
(* connected device at the same time, only one of them succeed"): on each  *)
(* interface of each path there is at most one session, a session is       *)
(* always a new one, and a session that ended never comes back.  A path is *)
(* what a client sends; two texts are two paths, also where the bridge     *)
(* reads them as the same number (OneSessionPerDevice of Core).            *)
(***************************************************************************)
EXTENDS Naturals

CONSTANT Paths                    \* the texts clients send as paths

VARIABLES owners,                 \* who owns which interface of which path
          issued                  \* the last session handed out

vars == <<owners, issued>>

Init ==
  /\ owners = {}
  /\ issued = 0

\* somebody claims a free interface and gets a session nobody had before
Take(debug, path) ==
  /\ \A o \in owners : <<o.debug, o.path>> # <<debug, path>>
  /\ issued' = issued + 1
  /\ owners' = owners \cup {[debug |-> debug, path |-> path, session |-> issued']}

\* the session ends: released, auto-released, stolen or disconnected
End(o) ==
  /\ owners' = owners \ {o}
  /\ UNCHANGED issued

Next ==
  \/ \E debug \in BOOLEAN, path \in Paths : Take(debug, path)
  \/ \E o \in owners : End(o)

Spec == Init /\ [][Next]_vars
=============================================================================
