------------------------ MODULE MessageProcessorProofs ------------------------
(***************************************************************************)
(* Proofs about MessageProcessor, for every finite set of requests, every  *)
(* assignment of users and tiers, every size of the pools, with database   *)
(* failures and without.                                                   *)
(***************************************************************************)
EXTENDS MessageProcessor, FiniteSetTheorems, TLAPS

-----------------------------------------------------------------------------
(* Type correctness *)

\* The three steps of WorkerPools keep the counters in their ranges: the clamp
\* in release() is what keeps the active counter from going below zero.
LEMMA PoolStepsTypeOK ==
  ASSUME PoolsTypeOK, NEW p \in Pools, NEW error \in BOOLEAN,
         Acquire(p) \/ Release(p, error) \/ AcquireAndRelease(p)
  PROVE  PoolsTypeOK'
BY DEF PoolsTypeOK, Acquire, Release, AcquireAndRelease, CanAcquire, Pools

\* A routing decision is a pool or "shed".
LEMMA RouteType ==
  ASSUME NEW tier
  PROVE  Route(tier) \subseteq Pools \cup {"shed"}
BY DEF Route, RouteEnterprise, RoutePremium, RouteFree, Pools

\* The part of the control state the other proofs rest on: a request has left
\* the normal path only after its slot was given back, it has a pool from the
\* moment it waits for one, and it has no response before it is done.
Control ==
  \A r \in Requests :
    /\ pc[r] \in {"idle", "fetch", "wait", "limit", "notify", "record", "context",
                  "llm", "count", "touch"} => path[r] = "normal"
    /\ pc[r] \in DatabaseCalls \cup {"wait", "llm"} => pool[r] \in Pools
    /\ pc[r] # "done" => resp[r] = None
    /\ pc[r] \in {"context", "storeUser", "llm", "storeReply", "count", "touch"} =>
         session[r] \in SessionIds

IInv == TypeOK /\ Control

LEMMA InitIInv == Init => IInv
<1> SUFFICES ASSUME Init PROVE IInv
  OBVIOUS
<1>1. PoolsTypeOK
  BY MaxWorkersAssumption DEF Init, PoolsInit, PoolsTypeOK
<1>2. TypeOK
  BY <1>1, RequestsAssumption
  DEF Init, TypeOK, Labels, Paths, Responses, SessionIds, None
<1>3. Control
  BY DEF Init, Control, DatabaseCalls, Labels
<1>. QED BY <1>2, <1>3 DEF IInv

\* The two ways into _process_with_worker, for a request that was routed.
LEMMA EnterPoolIInv ==
  ASSUME IInv, NEW r \in Requests, NEW p \in Pools,
         NEW tracked \in SUBSET ({r} \X EventTypes),
         pc[r] \in {"fetch", "wait"},
         pool' = [pool EXCEPT ![r] = p],
         EnterSafe(r, p, tracked) \/ EnterBlocked(r, p, tracked),
         UNCHANGED <<session, resp, storeVars, text>>
  PROVE  IInv'
<1>1. PoolsTypeOK'
  BY PoolStepsTypeOK DEF EnterSafe, EnterBlocked, IInv, TypeOK
<1>2. TypeOK'
  <2>1. events' \subseteq Requests \X EventTypes
    BY DEF EnterSafe, EnterBlocked, IInv, TypeOK, EventTypes
  <2>2. pc' \in [Requests -> Labels] /\ path' \in [Requests -> Paths]
    BY DEF EnterSafe, EnterBlocked, IInv, TypeOK, Goto, Labels, Paths
  <2>. QED
    BY <1>1, <2>1, <2>2 DEF IInv, TypeOK, storeVars
<1>3. Control'
  BY DEF EnterSafe, EnterBlocked, IInv, TypeOK, Control, Goto, DatabaseCalls, Labels
<1>. QED BY <1>2, <1>3 DEF IInv

LEMMA AdmissionIInv ==
  ASSUME IInv, NEW r \in Requests, Admission(r), UNCHANGED text
  PROVE  IInv'
<1>. USE DEF At, Goto, Return, Track
<1>1. CASE FetchFails(r)
  BY <1>1 DEF FetchFails, IInv, TypeOK, PoolsTypeOK, Control, Labels, Responses,
              storeVars, poolVars, DatabaseCalls
<1>2. CASE FetchUnknown(r)
  BY <1>2 DEF FetchUnknown, IInv, TypeOK, PoolsTypeOK, Control, Labels, Responses,
              storeVars, poolVars, DatabaseCalls
<1>3. CASE RouteShed(r)
  BY <1>3 DEF RouteShed, RoutedTo, IInv, TypeOK, PoolsTypeOK, Control, Labels, Responses,
              EventTypes, storeVars, poolVars, DatabaseCalls
<1>4. CASE RouteAndEnter(r)
  <2>1. PICK p \in Pools :
          /\ RoutedTo(r, p)
          /\ pool' = [pool EXCEPT ![r] = p]
          /\ \/ EnterSafe(r, p, {<<r, "pool_routed">>})
             \/ EnterBlocked(r, p, {<<r, "pool_routed">>})
          /\ UNCHANGED <<session, resp, storeVars>>
    BY <1>4 DEF RouteAndEnter
  <2>2. {<<r, "pool_routed">>} \in SUBSET ({r} \X EventTypes)
    BY DEF EventTypes
  <2>. QED
    BY <2>1, <2>2, EnterPoolIInv DEF RoutedTo
<1>5. CASE RouteAndWait(r)
  BY <1>5 DEF RouteAndWait, RoutedTo, IInv, TypeOK, PoolsTypeOK, Control, Labels,
              EventTypes, storeVars, poolVars, DatabaseCalls
<1>6. CASE PollAcquires(r)
  <2>1. pool[r] \in Pools /\ pool' = [pool EXCEPT ![r] = pool[r]]
    BY <1>6 DEF PollAcquires, IInv, TypeOK, Control
  <2>2. {} \in SUBSET ({r} \X EventTypes)
    OBVIOUS
  <2>3. /\ pc[r] \in {"fetch", "wait"}
        /\ EnterSafe(r, pool[r], {}) \/ EnterBlocked(r, pool[r], {})
        /\ UNCHANGED <<session, resp, storeVars>>
    BY <1>6 DEF PollAcquires
  <2>. QED
    BY <2>1, <2>2, <2>3, EnterPoolIInv
<1>7. CASE PollTimesOut(r)
  BY <1>7 DEF PollTimesOut, IInv, TypeOK, PoolsTypeOK, Control, Labels, Responses,
              storeVars, poolVars, DatabaseCalls
<1>. QED
  BY <1>1, <1>2, <1>3, <1>4, <1>5, <1>6, <1>7 DEF Admission

LEMMA RejectIInv ==
  ASSUME IInv, NEW r \in Requests, NEW how \in {"first", "silent"},
         pc[r] \in {"limit", "notify"}, Reject(r, how), UNCHANGED text
  PROVE  IInv'
<1>1. PoolsTypeOK'
  BY PoolStepsTypeOK DEF Reject, IInv, TypeOK, Control, DatabaseCalls, Labels
<1>2. TypeOK'
  BY <1>1 DEF Reject, IInv, TypeOK, Goto, Track, Labels, Paths, EventTypes, storeVars
<1>3. Control'
  BY DEF Reject, IInv, TypeOK, Control, Goto, DatabaseCalls, Labels
<1>. QED BY <1>2, <1>3 DEF IInv

LEMMA LimitCheckIInv ==
  ASSUME IInv, NEW r \in Requests, LimitCheck(r), UNCHANGED text
  PROVE  IInv'
<1>. USE DEF At, Goto
<1>1. CASE CountAllows(r) \/ CountRejectsFirst(r) \/ Record(r)
  BY <1>1 DEF CountAllows, CountRejectsFirst, Record, IInv, TypeOK, PoolsTypeOK, Control,
              Labels, storeVars, poolVars, DatabaseCalls
<1>2. CASE CountRejectsAgain(r) \/ Notify(r)
  BY <1>2, RejectIInv DEF CountRejectsAgain, Notify
<1>. QED
  BY <1>1, <1>2 DEF LimitCheck

\* What a task may write, for itself or before an exception, keeps the types.
LEMMA WritesTypeOK ==
  ASSUME TypeOK, NEW r \in Requests, NEW sender \in {"user", "assistant"},
         \/ WriteSession(r)
         \/ session[r] \in SessionIds /\ WriteMessage(r, sender)
         \/ session[r] \in SessionIds /\ WriteCount(r)
         \/ UNCHANGED storeVars
  PROVE  /\ sessions' \subseteq SessionIds
         /\ messages' \subseteq [session : SessionIds, request : Requests,
                                 role : {"user", "assistant"}]
         /\ messageCount' \in [SessionIds -> Nat]
BY DEF TypeOK, WriteSession, WriteMessage, WriteCount, storeVars, SessionIds

LEMMA ExchangeIInv ==
  ASSUME IInv, NEW r \in Requests, Exchange(r), UNCHANGED text
  PROVE  IInv'
<1>. USE DEF At, Goto
<1>1. CASE FindNoSession(r) \/ LoadContext(r) \/ Generate(r)
  BY <1>1 DEF FindNoSession, LoadContext, Generate, IInv, TypeOK, PoolsTypeOK, Control,
              Labels, storeVars, poolVars, DatabaseCalls
<1>2. ASSUME NEW s \in SessionIds, EnterSession(r, s), pc[r] \in {"find", "insert"},
             UNCHANGED storeVars \/ WriteSession(r)
      PROVE  IInv'
  <2>1. TypeOK'
    BY <1>2, WritesTypeOK
    DEF EnterSession, Return, IInv, TypeOK, PoolsTypeOK, Labels, Responses, poolVars
  <2>2. Control'
    BY <1>2 DEF EnterSession, Return, IInv, TypeOK, Control, Labels, DatabaseCalls
  <2>. QED BY <2>1, <2>2 DEF IInv
<1>3. CASE FindSession(r)
  BY <1>2, <1>3 DEF FindSession, ActiveSessions, IInv, TypeOK
<1>4. CASE InsertSession(r)
  BY <1>2, <1>4 DEF InsertSession, SessionIds
<1>5. CASE StoreUser(r)
  <2>1. TypeOK'
    BY <1>5, WritesTypeOK
    DEF StoreUser, IInv, TypeOK, PoolsTypeOK, Control, Labels, poolVars
  <2>2. Control'
    BY <1>5 DEF StoreUser, IInv, TypeOK, Control, Labels, DatabaseCalls
  <2>. QED BY <2>1, <2>2 DEF IInv
<1>6. CASE StoreReply(r)
  <2>1. TypeOK'
    BY <1>6, WritesTypeOK
    DEF StoreReply, Return, IInv, TypeOK, PoolsTypeOK, Control, Labels, Responses, poolVars
  <2>2. Control'
    BY <1>6 DEF StoreReply, Return, IInv, TypeOK, Control, Labels, DatabaseCalls
  <2>. QED BY <2>1, <2>2 DEF IInv
<1>7. CASE Count(r)
  <2>1. TypeOK'
    BY <1>7, WritesTypeOK
    DEF Count, IInv, TypeOK, PoolsTypeOK, Control, Labels, poolVars
  <2>2. Control'
    BY <1>7 DEF Count, IInv, TypeOK, Control, Labels, DatabaseCalls
  <2>. QED BY <2>1, <2>2 DEF IInv
<1>8. CASE Touch(r)
  <2>1. PoolsTypeOK'
    BY <1>8, PoolStepsTypeOK DEF Touch, IInv, TypeOK, Control, DatabaseCalls, Labels
  <2>2. TypeOK'
    BY <1>8, <2>1
    DEF Touch, Track, Return, IInv, TypeOK, Labels, Responses, EventTypes, storeVars
  <2>3. Control'
    BY <1>8 DEF Touch, Return, IInv, TypeOK, Control, Labels, DatabaseCalls
  <2>. QED BY <2>2, <2>3 DEF IInv
<1>. QED
  BY <1>1, <1>3, <1>4, <1>5, <1>6, <1>7, <1>8 DEF Exchange

LEMMA RaiseIInv ==
  ASSUME IInv, NEW r \in Requests, Raise(r), UNCHANGED text
  PROVE  IInv'
<1>1. PoolsTypeOK'
  BY PoolStepsTypeOK DEF Raise, IInv, TypeOK, Control
<1>2. /\ sessions' \subseteq SessionIds
      /\ messages' \subseteq [session : SessionIds, request : Requests,
                              role : {"user", "assistant"}]
      /\ messageCount' \in [SessionIds -> Nat]
  BY WritesTypeOK DEF Raise, MaybeApplied, At, IInv, Control
<1>3. TypeOK'
  BY <1>1, <1>2
  DEF Raise, Track, Goto, Return, IInv, TypeOK, Labels, Responses, EventTypes
<1>4. Control'
  BY DEF Raise, Goto, Return, IInv, TypeOK, Control, Labels, DatabaseCalls
<1>. QED BY <1>3, <1>4 DEF IInv

LEMMA NextIInv == IInv /\ [Next]_vars => IInv'
<1> SUFFICES ASSUME IInv, [Next]_vars PROVE IInv'
  OBVIOUS
<1>1. ASSUME NEW r \in Requests, Submit(r) PROVE IInv'
  <2>1. text' \in [Requests -> Texts \cup {NoText}]
    <3>1. PICK t \in TextsOf[r] : text' = [text EXCEPT ![r] = t]
      BY <1>1 DEF Submit
    <3>2. t \in Texts
      BY <3>1, RequestsAssumption
    <3>. QED BY <3>1, <3>2 DEF IInv, TypeOK
  <2>. QED
    BY <1>1, <2>1 DEF Submit, At, Goto, IInv, TypeOK, PoolsTypeOK, Control, Labels,
                      storeVars, poolVars, DatabaseCalls
<1>2. ASSUME NEW r \in Requests, Step(r) PROVE IInv'
  BY <1>2, AdmissionIInv, LimitCheckIInv, ExchangeIInv, RaiseIInv DEF Step
<1>3. CASE UNCHANGED vars
  BY <1>3 DEF vars, taskVars, storeVars, poolVars, IInv, TypeOK, PoolsTypeOK, Control
<1>. QED
  BY <1>1, <1>2, <1>3 DEF Next, AllAnswered

\* Every reachable state is well typed; in particular no pool's counters and
\* no session's message_count ever become negative.
THEOREM TypeCorrect == Spec => []TypeOK
<1>1. IInv => TypeOK
  BY DEF IInv
<1>. QED
  BY <1>1, InitIInv, NextIInv, PTL DEF Spec
=============================================================================
