---------------------------- MODULE SessionsProps ----------------------------
(***************************************************************************)
(* What sessions and the handle pool promise.                              *)
(***************************************************************************)
EXTENDS Sessions

Holding == {"run", "stale", "closing"}

\* The variables have the types their comments say.
TypeOK ==
    /\ pc \in [Requests -> {"new", "prep", "wait", "done"} \cup Holding]
    /\ uses \in [Requests -> Handles \cup {NoHandle}]
    /\ cancelled \in [Requests -> BOOLEAN] /\ abort \in [Requests -> {"no", "stop", "done"}]
    /\ known \subseteq SessionSet /\ stamp \in [SessionSet -> 0..MaxEpoch]
    /\ handle \in [SessionSet -> Handles \cup {NoHandle}] /\ leaves \in [SessionSet -> BOOLEAN]
    /\ pool \subseteq Handles /\ epoch \in 0..MaxEpoch /\ stopping \in BOOLEAN
    /\ stops \subseteq (Requests \cup {"all"}) \X SessionSet

\* Every handle is free or used by one request (request_handle): none is lost
\* on any way out, none is given to two requests.
HandlesConserved ==
    \A h \in Handles :
        LET users == {r \in Requests : pc[r] \in Holding /\ uses[r] = h}
        IN IF h \in pool THEN users = {} ELSE Cardinality(users) = 1

\* stop_all_session reaches every request created before it, wherever it is:
\* one that still runs is cancelled, or its cancel is under way.  A request
\* whose own abort came too early is no longer listed (AbortedStops).
StopAllStops ==
    \A r \in Requests : pc[r] = "run" /\ Stale(SessionOf[r]) /\ abort[r] = "no"
        => cancelled[r] \/ <<"all", SessionOf[r]>> \in stops

\* A request whose abort_request has returned does not go on running.
AbortedStops == \A r \in Requests : abort[r] = "done" /\ pc[r] = "run" => cancelled[r]

\* A request that has come gets a handle in the end, or an answer why not, no
\* matter who is aborted, leaves or stops all sessions.
RequestsServed == \A r \in Requests : pc[r] = "prep" ~> pc[r] = "done"
=============================================================================
