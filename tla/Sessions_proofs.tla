---------------------------- MODULE Sessions_proofs ----------------------------
(***************************************************************************)
(* Proofs about sessions and the handle pool, for any number of requests   *)
(* and handles.                                                            *)
(***************************************************************************)
EXTENDS SessionsProps, FiniteSetTheorems, TLAPS

---------------------------------------------------------------------------
(* Types. *)

LEMMA OwnSession == ASSUME NEW r \in Requests PROVE SessionOf[r] \in SessionSet
BY DEF SessionSet

\* A request that takes a handle leaves every variable well typed.
LEMMA TypeTake ==
    ASSUME TypeOK, NEW r \in Requests, NEW h \in pool, Take(r, h)
    PROVE  /\ pc' \in [Requests -> {"new", "prep", "wait", "done"} \cup Holding]
           /\ uses' \in [Requests -> Handles \cup {NoHandle}]
           /\ known' \subseteq SessionSet
           /\ handle' \in [SessionSet -> Handles \cup {NoHandle}]
           /\ pool' \subseteq Handles
BY OwnSession DEF TypeOK, Take, At, Remove, Holding

LEMMA TypeInit == Init => TypeOK
<1>1. 0 \in 0..MaxEpoch
    BY ConstantsAssumption
<1> QED
    BY <1>1 DEF Init, TypeOK, Holding

LEMMA TypeStep == TypeOK /\ [Next]_vars => TypeOK'
<1> SUFFICES ASSUME TypeOK, [Next]_vars PROVE TypeOK'
    OBVIOUS
<1>1. ASSUME NEW r \in Requests, Create(r) PROVE TypeOK'
    BY <1>1, OwnSession DEF TypeOK, Create, At, Remove, Holding, abortVars
<1>2. ASSUME NEW r \in Requests, PrepFails(r) \/ LeaveWait(r) PROVE TypeOK'
    BY <1>2 DEF TypeOK, PrepFails, LeaveWait, At, Remove, Holding, abortVars
<1>3. ASSUME NEW r \in Requests, Generate(r) PROVE TypeOK'
    <2> DEFINE s == SessionOf[r]
    <2>1. /\ s \in SessionSet
          /\ cancelled' = cancelled /\ stamp' = stamp /\ abort' = abort /\ epoch' = epoch
          /\ stopping' = stopping /\ stops' = stops
        BY <1>3, OwnSession DEF Generate, abortVars
    <2>2. CASE /\ At(r, "done") /\ Remove({s})
               /\ UNCHANGED <<leaves, uses, handle, pool>>
        BY <2>1, <2>2 DEF TypeOK, At, Remove, Holding
    <2>3. CASE /\ leaves' = [leaves EXCEPT ![s] = TRUE]
               /\ At(r, "done") \/ At(r, "wait")
               /\ UNCHANGED <<known, uses, handle, pool>>
        BY <2>1, <2>3 DEF TypeOK, At, Holding
    <2>4. CASE leaves' = [leaves EXCEPT ![s] = TRUE] /\ \E h \in pool : Take(r, h)
        <3>1. PICK h \in pool : Take(r, h)
            BY <2>4
        <3>2. leaves' \in [SessionSet -> BOOLEAN]
            BY <2>1, <2>4 DEF TypeOK
        <3> QED
            BY <2>1, <3>1, <3>2, TypeTake DEF TypeOK
    <2> QED
        BY <1>3, <2>2, <2>3, <2>4 DEF Generate
<1>4. ASSUME NEW r \in Requests, Acquire(r) PROVE TypeOK'
    <2>1. PICK h \in pool : Take(r, h)
        BY <1>4 DEF Acquire
    <2> QED
        BY <1>4, <2>1, TypeTake DEF Acquire, TypeOK, abortVars
<1>5. ASSUME NEW r \in Requests, Finish(r) PROVE TypeOK'
    BY <1>5 DEF TypeOK, Finish, At, Holding, sessionVars, abortVars
<1>6. ASSUME NEW r \in Requests, Release(r) PROVE TypeOK'
    <2>1. Returned(r) \subseteq Handles
        BY OwnSession DEF Returned, TypeOK
    <2> QED
        BY <1>6, <2>1, OwnSession DEF TypeOK, Release, At, Remove, Holding, abortVars
<1>7. ASSUME NEW by \in Requests \cup {"all"}, NEW s \in SessionSet, EngineStops(by, s)
      PROVE  TypeOK'
    BY <1>7 DEF TypeOK, EngineStops, sessionVars
<1>8. ASSUME NEW r \in Requests, AbortOne(r) \/ AbortOneReturns(r) PROVE TypeOK'
    BY <1>8, OwnSession DEF TypeOK, AbortOne, AbortOneReturns, Remove, requestVars
<1>9. CASE StopAll
    <2>1. epoch' \in 0..MaxEpoch
        BY <1>9, ConstantsAssumption DEF StopAll, TypeOK
    <2>2. stops' \subseteq (Requests \cup {"all"}) \X SessionSet
        BY <1>9 DEF StopAll, TypeOK, Cancellable
    <2> QED
        BY <1>9, <2>1, <2>2 DEF TypeOK, StopAll, requestVars, sessionVars
<1>10. CASE StopAllReturns
    BY <1>10 DEF TypeOK, StopAllReturns, Remove, requestVars
<1>11. CASE UNCHANGED vars
    BY <1>11 DEF TypeOK, vars, requestVars, sessionVars, abortVars
<1> QED
    BY <1>1, <1>2, <1>3, <1>4, <1>5, <1>6, <1>7, <1>8, <1>9, <1>10, <1>11 DEF Next, Progress

\* Every variable keeps its type in every behaviour of the serving layer.
THEOREM TypeCorrect == Spec => []TypeOK
<1>1. Init => TypeOK
    BY TypeInit
<1>2. TypeOK /\ [Next]_vars => TypeOK'
    BY TypeStep
<1> QED
    BY <1>1, <1>2, PTL DEF Spec

---------------------------------------------------------------------------
(* Handles.  The API server gives every request a session of its own.      *)

OwnSessions == \A q, r \in Requests : SessionOf[q] = SessionOf[r] => q = r

Holders == {r \in Requests : pc[r] \in Holding}

\* A request holds the handle its session records, holders hold different
\* handles, and what is not in the pool is held.
Ownership ==
    /\ \A r \in Holders : handle[SessionOf[r]] = uses[r] /\ uses[r] \in Handles \ pool
    /\ \A r \in Requests \ Holders : handle[SessionOf[r]] = NoHandle
    /\ \A q, r \in Holders : uses[q] = uses[r] => q = r
    /\ \A h \in Handles \ pool : \E r \in Holders : uses[r] = h

LEMMA OwnershipInit == Init => Ownership
BY OwnSession DEF Init, Ownership, Holders, Holding

\* Nothing changes hands while the holders stay.
LEMMA OwnershipKept ==
    ASSUME Ownership, Holders' = Holders, UNCHANGED <<uses, handle, pool>>
    PROVE  Ownership'
BY DEF Ownership

\* A free handle goes to a request that has none.
LEMMA OwnershipTake ==
    ASSUME TypeOK, OwnSessions, Ownership, NEW r \in Requests, r \notin Holders,
           NEW h \in pool, Take(r, h)
    PROVE  Ownership'
<1> DEFINE s == SessionOf[r]
<1>1. Holders' = Holders \cup {r}
    BY DEF Take, At, Holders, Holding, TypeOK
<1>2. h \in Handles /\ s \in SessionSet
    BY OwnSession DEF TypeOK
<1>3. /\ uses'[r] = h
      /\ \A q \in Requests \ {r} : uses'[q] = uses[q]
    BY DEF Take, TypeOK
<1>4. /\ handle'[s] = h
      /\ \A q \in Requests \ {r} : handle'[SessionOf[q]] = handle[SessionOf[q]]
    BY <1>2, OwnSession DEF Take, TypeOK, OwnSessions
<1>5. pool' = pool \ {h}
    BY DEF Take
<1>6. Holders \subseteq Requests
    BY DEF Holders
<1> QED
    BY <1>1, <1>2, <1>3, <1>4, <1>5, <1>6 DEF Ownership

\* A holder gives back exactly what it holds.
LEMMA OwnershipRelease ==
    ASSUME TypeOK, OwnSessions, Ownership, NEW r \in Requests, Release(r)
    PROVE  Ownership'
<1> DEFINE s == SessionOf[r]
<1>1. r \in Holders /\ Holders \subseteq Requests
    BY DEF Release, Holders, Holding
<1>2. Holders' = Holders \ {r}
    BY DEF Release, At, Holders, Holding, TypeOK
<1>3. handle[s] = uses[r] /\ uses[r] \in Handles \ pool /\ uses[r] # NoHandle
    BY <1>1, ConstantsAssumption DEF Ownership
<1>4. pool' = pool \cup {uses[r]} /\ uses' = uses
    BY <1>3 DEF Release, Returned
<1>5. /\ handle'[s] = NoHandle
      /\ \A q \in Requests \ {r} : handle'[SessionOf[q]] = handle[SessionOf[q]]
    BY OwnSession DEF Release, TypeOK, OwnSessions
<1> QED
    BY <1>1, <1>2, <1>3, <1>4, <1>5 DEF Ownership

LEMMA OwnershipStep ==
    ASSUME OwnSessions, TypeOK, Ownership, [Next]_vars
    PROVE  Ownership'
<1>1. ASSUME NEW r \in Requests,
             Create(r) \/ PrepFails(r) \/ LeaveWait(r) \/ Finish(r)
      PROVE  Ownership'
    <2>1. Holders' = Holders
        BY <1>1 DEF Create, PrepFails, LeaveWait, Finish, At, Holders, Holding, TypeOK
    <2>2. UNCHANGED <<uses, handle, pool>>
        BY <1>1 DEF Create, PrepFails, LeaveWait, Finish, sessionVars
    <2> QED
        BY <2>1, <2>2, OwnershipKept
<1>2. ASSUME NEW r \in Requests, Generate(r) PROVE Ownership'
    <2>1. r \notin Holders
        BY <1>2 DEF Generate, Holders, Holding
    <2>2. CASE \E h \in pool : Take(r, h)
        BY <2>1, <2>2, OwnershipTake
    <2>3. CASE (At(r, "done") \/ At(r, "wait")) /\ UNCHANGED <<uses, handle, pool>>
        <3>1. Holders' = Holders
            BY <2>1, <2>3 DEF At, Holders, Holding, TypeOK
        <3> QED
            BY <2>3, <3>1, OwnershipKept
    <2> QED
        BY <1>2, <2>2, <2>3 DEF Generate
<1>3. ASSUME NEW r \in Requests, Acquire(r) PROVE Ownership'
    <2>1. r \notin Holders
        BY <1>3 DEF Acquire, Holders, Holding
    <2> QED
        BY <1>3, <2>1, OwnershipTake DEF Acquire
<1>4. ASSUME NEW r \in Requests, Release(r) PROVE Ownership'
    BY <1>4, OwnershipRelease
<1>5. ASSUME UNCHANGED <<pc, uses, handle, pool>> PROVE Ownership'
    BY <1>5, OwnershipKept DEF Holders
<1>6. ASSUME NEW by \in Requests \cup {"all"}, NEW s \in SessionSet, EngineStops(by, s)
      PROVE  Ownership'
    BY <1>6, <1>5 DEF EngineStops, sessionVars
<1>7. ASSUME NEW r \in Requests, AbortOne(r) \/ AbortOneReturns(r) PROVE Ownership'
    BY <1>7, <1>5 DEF AbortOne, AbortOneReturns, requestVars
<1>8. CASE StopAll \/ StopAllReturns
    BY <1>8, <1>5 DEF StopAll, StopAllReturns, requestVars, sessionVars
<1>9. CASE UNCHANGED vars
    BY <1>9, <1>5 DEF vars, requestVars, sessionVars
<1> QED
    BY <1>1, <1>2, <1>3, <1>4, <1>6, <1>7, <1>8, <1>9 DEF Next, Progress

LEMMA OwnershipConserves ==
    ASSUME Ownership PROVE HandlesConserved
<1> SUFFICES ASSUME NEW h \in Handles
             PROVE  LET users == {r \in Requests : pc[r] \in Holding /\ uses[r] = h}
                    IN IF h \in pool THEN users = {} ELSE Cardinality(users) = 1
    BY DEF HandlesConserved
<1> DEFINE users == {r \in Requests : pc[r] \in Holding /\ uses[r] = h}
<1>1. users = {r \in Holders : uses[r] = h}
    BY DEF Holders
<1>2. CASE h \in pool
    BY <1>1, <1>2 DEF Ownership
<1>3. CASE h \notin pool
    <2>1. PICK r \in Holders : uses[r] = h
        BY <1>3 DEF Ownership
    <2>2. users = {r}
        BY <1>1, <2>1 DEF Ownership
    <2> QED
        BY <1>3, <2>2, FS_Singleton
<1> QED
    BY <1>2, <1>3

\* However requests end, are refused, go stale, are left or aborted, a handle
\* is free or held by exactly one request (Session.request_handle,
\* RequestHandlePool).
THEOREM HandlesSafe == ASSUME OwnSessions PROVE Spec => []HandlesConserved
<1>1. Init => Ownership
    BY OwnershipInit
<1>2. TypeOK /\ Ownership /\ [Next]_vars => Ownership'
    BY OwnershipStep
<1>3. Ownership => HandlesConserved
    BY OwnershipConserves
<1> QED
    BY <1>1, <1>2, <1>3, TypeCorrect, PTL DEF Spec

---------------------------------------------------------------------------
(* One stop of all sessions. *)

\* Until all are stopped, a request that may still run is listed; the stop
\* waits only once there was one.
Listed ==
    /\ epoch = 0 => \A r \in Requests :
          pc[r] \in {"prep", "wait", "run"} /\ abort[r] = "no" => SessionOf[r] \in known
    /\ stopping => epoch # 0

StopInv == Listed /\ StopAllStops

LEMMA StopInit == Init => StopInv
BY DEF Init, StopInv, Listed, StopAllStops

\* A step of one request concerns its own session only.
LEMMA StopOwn ==
    ASSUME OwnSessions, TypeOK, StopInv, NEW r \in Requests,
           \A q \in Requests \ {r} : pc'[q] = pc[q] /\ abort'[q] = abort[q],
           \A q \in Requests \ {r} : stamp'[SessionOf[q]] = stamp[SessionOf[q]],
           \A q \in Requests \ {r} : SessionOf[q] \in known => SessionOf[q] \in known',
           UNCHANGED <<epoch, stopping, cancelled>>,
           stops \subseteq stops',
           pc'[r] \in {"prep", "wait", "run"} /\ abort'[r] = "no" /\ epoch = 0 =>
               SessionOf[r] \in known',
           pc'[r] = "run" /\ abort'[r] = "no" /\ stamp'[SessionOf[r]] # epoch =>
               cancelled[r] \/ <<"all", SessionOf[r]>> \in stops'
    PROVE  StopInv'
<1>1. Listed'
    BY DEF StopInv, Listed
<1>2. StopAllStops'
    BY DEF StopInv, StopAllStops, Stale
<1> QED
    BY <1>1, <1>2 DEF StopInv

LEMMA StopTake ==
    ASSUME OwnSessions, TypeOK, StopInv, NEW r \in Requests, pc[r] \in {"prep", "wait"},
           NEW h \in pool, Take(r, h), UNCHANGED <<cancelled, stamp, abortVars>>
    PROVE  StopInv'
<1>1. \A q \in Requests \ {r} : pc'[q] = pc[q] /\ SessionOf[q] # SessionOf[r]
    BY DEF Take, At, TypeOK, OwnSessions
<1>2. CASE Stale(SessionOf[r])
    <2>1. pc'[r] = "stale" /\ known' = known \ {SessionOf[r]}
        BY <1>2 DEF Take, StaleAfterWait, At, Remove, TypeOK
    <2> QED
        BY <1>1, <2>1, StopOwn DEF abortVars
<1>3. CASE ~Stale(SessionOf[r])
    <2>1. pc'[r] = "run" /\ known' = known
        BY <1>3 DEF Take, StaleAfterWait, At, TypeOK
    <2>2. epoch = 0 /\ abort[r] = "no" => SessionOf[r] \in known
        BY DEF StopInv, Listed
    <2> QED
        BY <1>1, <1>3, <2>1, <2>2, StopOwn DEF abortVars, Stale
<1> QED
    BY <1>2, <1>3

LEMMA StopStep ==
    ASSUME OwnSessions, MaxEpoch <= 1, TypeOK, Ownership, StopInv, [Next]_vars
    PROVE  StopInv'
<1>1. ASSUME NEW r \in Requests, Create(r) PROVE StopInv'
    <2>1. /\ \A q \in Requests \ {r} : pc'[q] = pc[q] /\ SessionOf[q] # SessionOf[r]
          /\ \A q \in Requests \ {r} : stamp'[SessionOf[q]] = stamp[SessionOf[q]]
          /\ pc'[r] \in {"done", "prep"} /\ SessionOf[r] \in known' /\ known \subseteq known'
        BY <1>1, OwnSession DEF Create, At, TypeOK, OwnSessions
    <2> QED
        BY <1>1, <2>1, StopOwn DEF Create, abortVars
<1>2. ASSUME NEW r \in Requests, PrepFails(r) \/ LeaveWait(r) \/ Release(r) PROVE StopInv'
    <2>1. /\ \A q \in Requests \ {r} : pc'[q] = pc[q] /\ SessionOf[q] # SessionOf[r]
          /\ pc'[r] = "done" /\ known' = known \ {SessionOf[r]}
        BY <1>2 DEF PrepFails, LeaveWait, Release, At, Remove, TypeOK, OwnSessions
    <2> QED
        BY <1>2, <2>1, StopOwn DEF PrepFails, LeaveWait, Release, abortVars
<1>3. ASSUME NEW r \in Requests, Generate(r) PROVE StopInv'
    <2>1. pc[r] = "prep" /\ UNCHANGED <<cancelled, stamp, abortVars>>
        BY <1>3 DEF Generate
    <2>2. CASE \E h \in pool : Take(r, h)
        BY <2>1, <2>2, StopTake
    <2>3. CASE At(r, "done") /\ Remove({SessionOf[r]})
        <3>1. /\ \A q \in Requests \ {r} : pc'[q] = pc[q] /\ SessionOf[q] # SessionOf[r]
              /\ pc'[r] = "done" /\ known' = known \ {SessionOf[r]}
            BY <2>3 DEF At, Remove, TypeOK, OwnSessions
        <3> QED
            BY <2>1, <3>1, StopOwn DEF abortVars
    <2>4. CASE (At(r, "done") \/ At(r, "wait")) /\ known' = known
        <3>1. /\ \A q \in Requests \ {r} : pc'[q] = pc[q]
              /\ pc'[r] \in {"done", "wait"}
            BY <2>4 DEF At, TypeOK
        <3>2. epoch = 0 /\ abort[r] = "no" => SessionOf[r] \in known
            BY <2>1 DEF StopInv, Listed
        <3> QED
            BY <2>1, <2>4, <3>1, <3>2, StopOwn DEF abortVars
    <2> QED
        BY <1>3, <2>2, <2>3, <2>4 DEF Generate
<1>4. ASSUME NEW r \in Requests, Acquire(r) PROVE StopInv'
    BY <1>4, StopTake DEF Acquire
<1>5. ASSUME NEW r \in Requests, Finish(r) PROVE StopInv'
    <2>1. (\A q \in Requests \ {r} : pc'[q] = pc[q]) /\ pc'[r] = "closing"
        BY <1>5 DEF Finish, At, TypeOK
    <2> QED
        BY <1>5, <2>1, StopOwn DEF Finish, sessionVars, abortVars
<1>6. ASSUME NEW by \in Requests \cup {"all"}, NEW s \in SessionSet, EngineStops(by, s)
      PROVE  StopInv'
    <2>1. Listed'
        BY <1>6 DEF EngineStops, sessionVars, StopInv, Listed
    <2>2. ASSUME NEW r \in Requests, pc[r] = "run", Stale(SessionOf[r]), abort[r] = "no"
          PROVE  cancelled'[r] \/ <<"all", SessionOf[r]>> \in stops'
        <3>1. cancelled[r] \/ <<"all", SessionOf[r]>> \in stops
            BY <2>2 DEF StopInv, StopAllStops
        <3>2. CASE s = SessionOf[r]
            BY <1>6, <2>2, <3>2 DEF EngineStops
        <3>3. CASE s # SessionOf[r]
            BY <1>6, <3>1, <3>3 DEF EngineStops
        <3> QED
            BY <3>2, <3>3
    <2>3. StopAllStops'
        BY <1>6, <2>2 DEF EngineStops, sessionVars, StopAllStops, Stale
    <2> QED
        BY <2>1, <2>3 DEF StopInv
<1>7. ASSUME NEW r \in Requests, AbortOne(r) \/ AbortOneReturns(r) PROVE StopInv'
    <2>1. /\ \A q \in Requests \ {r} : abort'[q] = abort[q] /\ SessionOf[q] # SessionOf[r]
          /\ abort'[r] \in {"stop", "done"}
          /\ known' \in {known, known \ {SessionOf[r]}}
        BY <1>7 DEF AbortOne, AbortOneReturns, Remove, TypeOK, OwnSessions
    <2>2. UNCHANGED <<pc, stamp, epoch, stopping, cancelled>> /\ stops \subseteq stops'
        BY <1>7 DEF AbortOne, AbortOneReturns, requestVars
    <2> QED
        BY <2>1, <2>2, StopOwn
<1>8. CASE StopAll
    <2>1. epoch = 0 /\ epoch' = 1
        BY <1>8, ConstantsAssumption DEF StopAll, TypeOK
    <2>2. ASSUME NEW r \in Requests, pc[r] = "run", abort[r] = "no"
          PROVE  <<"all", SessionOf[r]>> \in stops'
        <3>1. SessionOf[r] \in known
            BY <2>1, <2>2 DEF StopInv, Listed
        <3>2. r \in Holders
            BY <2>2 DEF Holders, Holding
        <3>3. handle[SessionOf[r]] # NoHandle
            BY <3>2, ConstantsAssumption DEF Ownership
        <3> QED
            BY <1>8, <3>1, <3>3 DEF StopAll, Cancellable
    <2>3. UNCHANGED <<pc, abort>>
        BY <1>8 DEF StopAll, requestVars
    <2> QED
        BY <2>1, <2>2, <2>3 DEF StopInv, Listed, StopAllStops
<1>9. CASE StopAllReturns
    <2>1. epoch # 0
        BY <1>9 DEF StopAllReturns, StopInv, Listed
    <2> QED
        BY <1>9, <2>1 DEF StopAllReturns, StopInv, Listed, StopAllStops, Stale, requestVars
<1>10. CASE UNCHANGED vars
    BY <1>10 DEF vars, requestVars, sessionVars, abortVars, StopInv, Listed, StopAllStops, Stale
<1> QED
    BY <1>1, <1>2, <1>3, <1>4, <1>5, <1>6, <1>7, <1>8, <1>9, <1>10 DEF Next, Progress

\* The first stop of all sessions reaches every request that runs, wherever it
\* was when the stop came (AsyncEngine.stop_all_session, the epochs of
\* generate).  A second stop may miss one: async_abort_all forgets sessions.
THEOREM StopAllReaches ==
    ASSUME OwnSessions, MaxEpoch <= 1 PROVE Spec => []StopAllStops
<1>1. Init => Ownership /\ StopInv
    BY OwnershipInit, StopInit
<1>2. TypeOK /\ Ownership /\ StopInv /\ [Next]_vars => (Ownership /\ StopInv)'
    BY OwnershipStep, StopStep
<1>3. StopInv => StopAllStops
    BY DEF StopInv
<1> QED
    BY <1>1, <1>2, <1>3, TypeCorrect, PTL DEF Spec
=============================================================================
