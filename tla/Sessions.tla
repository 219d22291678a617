------------------------------- MODULE Sessions -------------------------------
(***************************************************************************)
(* Sessions and request handles of lmdeploy's serving layer: how a request *)
(* of the API server gets an inference handle, gives it back, and is       *)
(* aborted (lmdeploy/serve: managers/session_manager.py,                   *)
(* core/async_engine.py, openai/api_server.py, endpoints/management.py).   *)
(*                                                                         *)
(* One asyncio event loop: a step is what a coroutine does between two     *)
(* awaits.  The engine below is RequestFlow's subject; here it stops a     *)
(* request when told so, and a request that runs ends when it likes.       *)
(***************************************************************************)
EXTENDS Integers, FiniteSets

CONSTANTS
    Requests,
    SessionOf,  \* the session of each request
    Handles,    \* RequestHandlePool.handles
    NoHandle,
    MaxEpoch,   \* bound: how often all sessions are stopped
    Abortable   \* requests somebody may abort

ASSUME ConstantsAssumption ==
    /\ NoHandle \notin Handles /\ Handles # {} /\ IsFiniteSet(Handles)
    /\ MaxEpoch \in Nat /\ Abortable \subseteq Requests
    /\ SessionOf \in [Requests -> {SessionOf[r] : r \in Requests}]

SessionSet == {SessionOf[r] : r \in Requests}

VARIABLES
    pc,        \* where the coroutine of a request is
    uses,      \* the handle it runs on
    cancelled, \* the engine has cancelled it
    abort,     \* the abort_request for it: "no", "stop" (awaited), "done"
    known,     \* SessionManager.sessions
    stamp,     \* Session.epoch
    handle,    \* Session._handle
    leaves,    \* Session._remove_on_request_exit
    pool,      \* free handles
    epoch,     \* AsyncEngine.epoch
    stopping,  \* stop_all_session is waiting for its cancels
    stops      \* STOP requests at the engine: who asked, and the session

requestVars == <<pc, uses, cancelled>>
sessionVars == <<known, stamp, handle, leaves>>
abortVars   == <<abort, epoch, stopping, stops>>
vars == <<requestVars, sessionVars, pool, abortVars>>

At(r, place)     == pc' = [pc EXCEPT ![r] = place]
Stale(s)         == stamp[s] # epoch
Remove(sessions) == known' = known \ sessions

---------------------------------------------------------------------------
(* A request: create_session, preprocess, generate. *)

\* Preprocessing refuses a session whose handle is taken.
Create(r) ==
    LET s == SessionOf[r] IN
    /\ pc[r] = "new"
    /\ known' = known \cup {s}
    /\ stamp' = [stamp EXCEPT ![s] = epoch]
    /\ At(r, IF handle[s] # NoHandle THEN "done" ELSE "prep")
    /\ UNCHANGED <<uses, cancelled, handle, leaves, pool, abortVars>>

\* Preprocessing fails, or its client goes away: the session goes too.
PrepFails(r) ==
    /\ pc[r] = "prep" /\ At(r, "done") /\ Remove({SessionOf[r]})
    /\ UNCHANGED <<uses, cancelled, stamp, handle, leaves, pool, abortVars>>

\* Mutant: the epoch is not looked at again after a handle was awaited.
NeverStale(s) == FALSE

StaleAfterWait(s) == Stale(s)

\* With a handle in hand: a session that all were stopped since its creation
\* says so to its client, the others run.
Take(r, h) ==
    LET s == SessionOf[r] IN
    /\ handle' = [handle EXCEPT ![s] = h] /\ uses' = [uses EXCEPT ![r] = h]
    /\ pool' = pool \ {h}
    /\ IF StaleAfterWait(s) THEN At(r, "stale") /\ Remove({s}) ELSE At(r, "run") /\ UNCHANGED known

\* generate: stale sessions are dropped, conflicts refused, a free handle is
\* taken without an await.
Generate(r) ==
    LET s == SessionOf[r] IN
    /\ pc[r] = "prep"
    /\ \/ /\ Stale(s) /\ At(r, "done") /\ Remove({s})
          /\ UNCHANGED <<leaves, uses, handle, pool>>
       \/ /\ ~Stale(s) /\ leaves' = [leaves EXCEPT ![s] = TRUE]
          /\ \/ /\ handle[s] # NoHandle /\ At(r, "done") /\ UNCHANGED <<known, uses, handle, pool>>
             \/ /\ handle[s] = NoHandle /\ pool = {} /\ At(r, "wait")
                /\ UNCHANGED <<known, uses, handle, pool>>
             \/ handle[s] = NoHandle /\ \E h \in pool : Take(r, h)
    /\ UNCHANGED <<cancelled, stamp, abortVars>>

\* Any of the waiting gets a handle that was put back.
Acquire(r) ==
    /\ pc[r] = "wait" /\ \E h \in pool : Take(r, h)
    /\ UNCHANGED <<cancelled, stamp, leaves, abortVars>>

\* A client goes away while its request waits: nothing was acquired, the
\* server's cleanup drops the session.
LeaveWait(r) ==
    /\ pc[r] = "wait" /\ At(r, "done") /\ Remove({SessionOf[r]})
    /\ UNCHANGED <<uses, cancelled, stamp, handle, leaves, pool, abortVars>>

\* The stream ends, was cancelled, or lost its client: END is awaited.
Finish(r) ==
    /\ pc[r] = "run" /\ At(r, "closing")
    /\ UNCHANGED <<uses, cancelled, sessionVars, pool, abortVars>>

\* Mutant: a stale request forgets to give its handle back.
ReturnedIfRan(r) == IF pc[r] = "stale" THEN {} ELSE {handle[SessionOf[r]]} \ {NoHandle}

\* Mutant: a cancelled request forgets to.
ReturnedUnlessCancelled(r) == IF cancelled[r] THEN {} ELSE {handle[SessionOf[r]]} \ {NoHandle}

\* What the session holds goes back, whatever it is by now.
Returned(r) == {handle[SessionOf[r]]} \ {NoHandle}

\* The way out of request_handle.
Release(r) ==
    LET s == SessionOf[r] IN
    /\ pc[r] \in {"closing", "stale"} /\ At(r, "done")
    /\ pool' = pool \cup Returned(r)
    /\ handle' = [handle EXCEPT ![s] = NoHandle]
    /\ leaves' = [leaves EXCEPT ![s] = FALSE] /\ Remove({s})
    /\ UNCHANGED <<uses, cancelled, stamp, abortVars>>

---------------------------------------------------------------------------
(* Aborts. *)

\* The engine handles a STOP; what runs in the session is cancelled.
EngineStops(by, s) ==
    /\ <<by, s>> \in stops /\ stops' = stops \ {<<by, s>>}
    /\ cancelled' = [r \in Requests |-> cancelled[r] \/ (SessionOf[r] = s /\ pc[r] = "run")]
    /\ UNCHANGED <<pc, uses, sessionVars, pool, abort, epoch, stopping>>

\* abort_request for one request, found by its user's session id.
AbortOne(r) ==
    LET s == SessionOf[r] IN
    /\ r \in Abortable /\ abort[r] = "no" /\ s \in known
    /\ IF handle[s] # NoHandle
         THEN /\ stops' = stops \cup {<<r, s>>} /\ abort' = [abort EXCEPT ![r] = "stop"]
              /\ UNCHANGED known
         ELSE /\ abort' = [abort EXCEPT ![r] = "done"] /\ Remove({s}) /\ UNCHANGED stops
    /\ UNCHANGED <<requestVars, stamp, handle, leaves, pool, epoch, stopping>>

AbortOneReturns(r) ==
    /\ abort[r] = "stop" /\ <<r, SessionOf[r]>> \notin stops
    /\ abort' = [abort EXCEPT ![r] = "done"] /\ Remove({SessionOf[r]})
    /\ UNCHANGED <<requestVars, stamp, handle, leaves, pool, epoch, stopping, stops>>

\* Sessions with a handle are cancelled, all at once.
Cancellable == {s \in known : handle[s] # NoHandle}

\* stop_all_session raises the epoch first.
StopAll ==
    /\ ~stopping /\ epoch < MaxEpoch
    /\ epoch' = epoch + 1 /\ stopping' = TRUE
    /\ stops' = stops \cup {<<"all", s>> : s \in Cancellable}
    /\ UNCHANGED <<requestVars, sessionVars, pool, abort>>

\* All cancels answered: sessions without a handle are forgotten.
StopAllReturns ==
    /\ stopping /\ \A s \in SessionSet : <<"all", s>> \notin stops
    /\ stopping' = FALSE /\ Remove({s \in known : handle[s] = NoHandle})
    /\ UNCHANGED <<requestVars, stamp, handle, leaves, pool, abort, epoch, stops>>

---------------------------------------------------------------------------
(* The specification. *)

Init ==
    /\ pc = [r \in Requests |-> "new"] /\ uses = [r \in Requests |-> NoHandle]
    /\ cancelled = [r \in Requests |-> FALSE] /\ abort = [r \in Requests |-> "no"]
    /\ known = {} /\ stamp = [s \in SessionSet |-> 0]
    /\ handle = [s \in SessionSet |-> NoHandle] /\ leaves = [s \in SessionSet |-> FALSE]
    /\ pool = Handles /\ epoch = 0 /\ stopping = FALSE /\ stops = {}

Progress(r) == Generate(r) \/ Acquire(r) \/ Finish(r) \/ Release(r)
Next ==
    \/ \E r \in Requests : Create(r) \/ PrepFails(r) \/ LeaveWait(r) \/ Progress(r)
                             \/ AbortOne(r) \/ AbortOneReturns(r)
    \/ \E by \in Requests \cup {"all"}, s \in SessionSet : EngineStops(by, s)
    \/ StopAll \/ StopAllReturns
Spec == Init /\ [][Next]_vars

\* Requests that can go on do so.  Nobody has to come, leave or abort.
LiveSpec == Spec /\ \A r \in Requests : WF_vars(Progress(r))
=============================================================================
