------------------------- MODULE ProcessorPoolProofs -------------------------
(***************************************************************************)
(* Proofs about the slots of the pools in MessageProcessor.                *)
(*                                                                         *)
(* Every argument rests on one lemma, PoolUse: whatever a request does in  *)
(* a step, it takes a slot, gives back the one it holds, gives back one it *)
(* does not hold, or touches no slot.  Only the exception handler does the *)
(* third.                                                                  *)
(***************************************************************************)
EXTENDS MessageProcessorProofs

\* Only r's own control state changes in its step.
OthersKeep(r) ==
  \A x \in Requests \ {r} :
    pc'[x] = pc[x] /\ path'[x] = path[x] /\ pool'[x] = pool[x] /\ resp'[x] = resp[x]

Keeps ==
  /\ UNCHANGED <<value, active>>
  /\ \A p \in Pools : Holders(p)' = Holders(p) /\ ReleasedTwice(p)' = ReleasedTwice(p)

Takes(r, q) ==
  /\ Acquire(q)
  /\ r \notin Holders(q)
  /\ \A p \in Pools : ReleasedTwice(p)' = ReleasedTwice(p)
  /\ \A p \in Pools : Holders(p)' = IF p = q THEN Holders(q) \cup {r} ELSE Holders(p)

Gives(r, q) ==
  /\ \E error \in BOOLEAN : Release(q, error)
  /\ r \in Holders(q)
  /\ \A p \in Pools : ReleasedTwice(p)' = ReleasedTwice(p)
  /\ \A p \in Pools : Holders(p)' = IF p = q THEN Holders(q) \ {r} ELSE Holders(p)

GivesAgain(r, q) ==
  /\ Faulty
  /\ Release(q, TRUE)
  /\ r \notin ReleasedTwice(q)
  /\ \A p \in Pools : Holders(p)' = Holders(p)
  /\ \A p \in Pools :
       ReleasedTwice(p)' = IF p = q THEN ReleasedTwice(q) \cup {r} ELSE ReleasedTwice(p)

SlotStep(r) ==
  \/ Keeps
  \/ \E q \in Pools : Takes(r, q) \/ Gives(r, q) \/ GivesAgain(r, q)

-----------------------------------------------------------------------------

\* A step that leaves the pools alone, or takes and returns a slot at once,
\* and in which r neither starts nor stops holding one.
LEMMA KeepsByControl ==
  ASSUME IInv, NEW r \in Requests, OthersKeep(r),
         UNCHANGED <<value, active>>,
         ~Holding(r), ~Holding(r)', resp'[r] # "confused", resp[r] # "confused"
  PROVE  Keeps
BY DEF Keeps, Holders, ReleasedTwice, Holding, OthersKeep

\* The same for a request that goes on holding its slot.
LEMMA KeepsHolding ==
  ASSUME IInv, NEW r \in Requests, OthersKeep(r),
         UNCHANGED <<value, active>>,
         Holding(r), Holding(r)', UNCHANGED <<pool, resp>>, resp[r] = None
  PROVE  Keeps
BY DEF Keeps, Holders, ReleasedTwice, Holding, OthersKeep, None

LEMMA AdmissionSlots ==
  ASSUME IInv, NEW r \in Requests, Admission(r)
  PROVE  SlotStep(r)
<1>. USE DEF At, Goto, Return
<1>1. pc[r] \in {"fetch", "wait"} /\ ~Holding(r) /\ resp[r] = None /\ path[r] = "normal"
  BY DEF Admission, FetchFails, FetchUnknown, RouteShed, RouteAndEnter, RouteAndWait,
         RoutedTo, PollAcquires, PollTimesOut, IInv, Control, Holding, DatabaseCalls, Labels
<1>2. CASE FetchFails(r) \/ FetchUnknown(r) \/ RouteShed(r) \/ RouteAndWait(r) \/ PollTimesOut(r)
  <2>1. OthersKeep(r) /\ UNCHANGED <<value, active>> /\ ~Holding(r)' /\ resp'[r] # "confused"
    BY <1>1, <1>2
    DEF FetchFails, FetchUnknown, RouteShed, RouteAndWait, PollTimesOut, OthersKeep,
        poolVars, Holding, DatabaseCalls, Labels, IInv, TypeOK, None
  <2>. QED
    BY <1>1, <2>1, KeepsByControl DEF SlotStep, None
<1>3. ASSUME NEW p \in Pools, NEW tracked,
             pool' = [pool EXCEPT ![r] = p], resp' = resp,
             EnterSafe(r, p, tracked)
      PROVE  Takes(r, p)
  <2>1. OthersKeep(r) /\ Holding(r)' /\ pool'[r] = p /\ Acquire(p)
    BY <1>1, <1>3
    DEF EnterSafe, OthersKeep, Holding, DatabaseCalls, Labels, IInv, TypeOK
  <2>. QED
    BY <1>1, <1>3, <2>1 DEF Takes, OthersKeep, Holders, ReleasedTwice, Holding, None
<1>4. ASSUME NEW p \in Pools, NEW tracked,
             pool' = [pool EXCEPT ![r] = p], resp' = resp,
             EnterBlocked(r, p, tracked)
      PROVE  Keeps
  <2>1. OthersKeep(r) /\ UNCHANGED <<value, active>> /\ ~Holding(r)' /\ resp'[r] # "confused"
    BY <1>1, <1>4
    DEF EnterBlocked, AcquireAndRelease, OthersKeep, Holding, IInv, TypeOK, None
  <2>. QED
    BY <1>1, <2>1, KeepsByControl DEF None
<1>5. CASE RouteAndEnter(r)
  BY <1>3, <1>4, <1>5 DEF RouteAndEnter, SlotStep
<1>6. CASE PollAcquires(r)
  <2>1. pool[r] \in Pools /\ pool' = [pool EXCEPT ![r] = pool[r]] /\ resp' = resp
    BY <1>6 DEF PollAcquires, IInv, TypeOK, Control
  <2>. QED
    BY <1>3, <1>4, <1>6, <2>1 DEF PollAcquires, SlotStep
<1>. QED
  BY <1>2, <1>5, <1>6 DEF Admission

\* A request that holds a slot gives it back and stops holding one.
LEMMA GivesByControl ==
  ASSUME IInv, NEW r \in Requests, OthersKeep(r), NEW error \in BOOLEAN,
         Holding(r), Release(pool[r], error), pool' = pool, ~Holding(r)',
         resp[r] = None, resp'[r] = "confused" => path'[r] = "normal"
  PROVE  SlotStep(r)
<1>1. pool[r] \in Pools /\ r \in Holders(pool[r])
  BY DEF IInv, Control, Holding, Holders
<1>2. Gives(r, pool[r])
  BY <1>1 DEF Gives, OthersKeep, Holders, ReleasedTwice, Holding, None
<1>. QED
  BY <1>1, <1>2 DEF SlotStep

LEMMA LimitCheckSlots ==
  ASSUME IInv, NEW r \in Requests, LimitCheck(r)
  PROVE  SlotStep(r)
<1>. USE DEF At, Goto
<1>1. Holding(r) /\ resp[r] = None
  BY DEF LimitCheck, CountAllows, CountRejectsFirst, CountRejectsAgain, Notify, Record,
         IInv, Control, Holding, DatabaseCalls, Labels
<1>2. CASE CountAllows(r) \/ CountRejectsFirst(r) \/ Record(r)
  <2>1. OthersKeep(r) /\ UNCHANGED <<value, active>> /\ Holding(r)' /\ UNCHANGED <<pool, resp>>
    BY <1>1, <1>2
    DEF CountAllows, CountRejectsFirst, Record, OthersKeep, poolVars, Holding,
        DatabaseCalls, Labels, IInv, TypeOK
  <2>. QED
    BY <1>1, <2>1, KeepsHolding DEF SlotStep
<1>3. CASE CountRejectsAgain(r) \/ Notify(r)
  <2>1. /\ OthersKeep(r) /\ Release(pool[r], FALSE) /\ ~Holding(r)'
        /\ pool' = pool /\ resp' = resp
    BY <1>3
    DEF CountRejectsAgain, Notify, Reject, OthersKeep, Holding, IInv, TypeOK, Paths
  <2>. QED
    BY <1>1, <2>1, GivesByControl DEF None
<1>. QED
  BY <1>2, <1>3 DEF LimitCheck

LEMMA ExchangeSlots ==
  ASSUME IInv, NEW r \in Requests, Exchange(r)
  PROVE  SlotStep(r)
<1>. USE DEF At, Goto, Return
<1>1. resp[r] = None /\ pc[r] \in DatabaseCalls \cup {"llm"}
  BY DEF Exchange, FindSession, FindNoSession, InsertSession, LoadContext, StoreUser,
         Generate, StoreReply, Count, Touch, IInv, Control, DatabaseCalls, Labels
<1>2. CASE Touch(r)
  <2>1. /\ OthersKeep(r) /\ Release(pool[r], FALSE) /\ Holding(r) /\ ~Holding(r)'
        /\ pool' = pool /\ resp'[r] # "confused"
    BY <1>1, <1>2
    DEF Touch, OthersKeep, Holding, IInv, TypeOK, Control, DatabaseCalls, Labels
  <2>. QED
    BY <1>1, <2>1, GivesByControl
<1>3. CASE ~Touch(r)
  <2>1. /\ OthersKeep(r) /\ UNCHANGED <<value, active, pool, path>>
        /\ resp'[r] # "confused"
        /\ path[r] = "normal" => resp' = resp /\ pc'[r] \in DatabaseCalls \cup {"llm"}
    BY <1>1, <1>3
    DEF Exchange, FindSession, FindNoSession, InsertSession, EnterSession, LoadContext,
        StoreUser, Generate, StoreReply, Count, OthersKeep, poolVars, IInv, TypeOK,
        DatabaseCalls, Labels, None
  <2>2. CASE path[r] = "normal"
    BY <1>1, <2>1, <2>2, KeepsHolding DEF Holding, SlotStep
  <2>3. CASE path[r] # "normal"
    BY <1>1, <2>1, <2>3, KeepsByControl DEF Holding, SlotStep, None
  <2>. QED
    BY <2>2, <2>3
<1>. QED
  BY <1>2, <1>3

\* The exception handler gives a slot back whether or not one is held.
LEMMA RaiseSlots ==
  ASSUME IInv, NEW r \in Requests, Raise(r)
  PROVE  SlotStep(r)
<1>. USE DEF Goto, Return
<1>1. /\ OthersKeep(r) /\ Release(pool[r], TRUE) /\ ~Holding(r)' /\ Faulty
      /\ pool' = pool /\ path' = path /\ resp[r] = None /\ resp'[r] = "confused"
      /\ pool[r] \in Pools /\ pc[r] \in DatabaseCalls
  BY DEF Raise, OthersKeep, Holding, IInv, TypeOK, Control, DatabaseCalls, Labels
<1>2. CASE path[r] = "normal"
  BY <1>1, <1>2, GivesByControl DEF Holding
<1>3. CASE path[r] # "normal"
  <2>1. GivesAgain(r, pool[r])
    BY <1>1, <1>3 DEF GivesAgain, OthersKeep, Holders, ReleasedTwice, Holding, None
  <2>. QED
    BY <1>1, <2>1 DEF SlotStep
<1>. QED
  BY <1>2, <1>3

LEMMA PoolUse ==
  ASSUME IInv, NEW r \in Requests, Submit(r) \/ Step(r)
  PROVE  SlotStep(r)
<1>1. CASE Submit(r)
  <2>1. /\ OthersKeep(r) /\ UNCHANGED <<value, active>> /\ ~Holding(r) /\ ~Holding(r)'
        /\ resp'[r] = None /\ resp[r] = None
    BY <1>1
    DEF Submit, At, Goto, OthersKeep, poolVars, Holding, DatabaseCalls, Labels, IInv,
        TypeOK, Control
  <2>. QED
    BY <2>1, KeepsByControl DEF SlotStep, None
<1>2. CASE Step(r)
  BY <1>2, AdmissionSlots, LimitCheckSlots, ExchangeSlots, RaiseSlots DEF Step
<1>. QED
  BY <1>1, <1>2

-----------------------------------------------------------------------------
(* The semaphore's account *)

LEMMA FiniteUse ==
  ASSUME NEW p \in Pools
  PROVE  /\ IsFiniteSet(Holders(p)) /\ IsFiniteSet(ReleasedTwice(p))
         /\ Cardinality(Holders(p)) \in Nat /\ Cardinality(ReleasedTwice(p)) \in Nat
<1>1. Holders(p) \subseteq Requests /\ ReleasedTwice(p) \subseteq Requests
  BY DEF Holders, ReleasedTwice
<1>. QED
  BY <1>1, RequestsAssumption, FS_Subset, FS_CardinalityType

\* How many hold a slot of p, and how many gave back one too many, after a step
\* that changes either.
LEMMA UseCounts ==
  ASSUME NEW r \in Requests, NEW q \in Pools, NEW p \in Pools
  PROVE  /\ Takes(r, q) =>
              /\ Cardinality(Holders(p))' = Cardinality(Holders(p)) + (IF p = q THEN 1 ELSE 0)
              /\ Cardinality(ReleasedTwice(p))' = Cardinality(ReleasedTwice(p))
         /\ Gives(r, q) =>
              /\ Cardinality(Holders(p))' = Cardinality(Holders(p)) - (IF p = q THEN 1 ELSE 0)
              /\ Cardinality(ReleasedTwice(p))' = Cardinality(ReleasedTwice(p))
         /\ GivesAgain(r, q) =>
              /\ Cardinality(Holders(p))' = Cardinality(Holders(p))
              /\ Cardinality(ReleasedTwice(p))' =
                   Cardinality(ReleasedTwice(p)) + (IF p = q THEN 1 ELSE 0)
<1>1. IsFiniteSet(Holders(p)) /\ IsFiniteSet(ReleasedTwice(p))
      /\ Cardinality(Holders(p)) \in Nat /\ Cardinality(ReleasedTwice(p)) \in Nat
  BY FiniteUse
<1>2. ASSUME Takes(r, q)
      PROVE  /\ Cardinality(Holders(p))' = Cardinality(Holders(p)) + (IF p = q THEN 1 ELSE 0)
             /\ Cardinality(ReleasedTwice(p))' = Cardinality(ReleasedTwice(p))
  BY <1>1, <1>2, FS_AddElement DEF Takes
<1>3. ASSUME Gives(r, q)
      PROVE  /\ Cardinality(Holders(p))' = Cardinality(Holders(p)) - (IF p = q THEN 1 ELSE 0)
             /\ Cardinality(ReleasedTwice(p))' = Cardinality(ReleasedTwice(p))
  BY <1>1, <1>3, FS_RemoveElement DEF Gives
<1>4. ASSUME GivesAgain(r, q)
      PROVE  /\ Cardinality(Holders(p))' = Cardinality(Holders(p))
             /\ Cardinality(ReleasedTwice(p))' =
                  Cardinality(ReleasedTwice(p)) + (IF p = q THEN 1 ELSE 0)
  BY <1>1, <1>4, FS_AddElement DEF GivesAgain
<1>. QED
  BY <1>2, <1>3, <1>4

LEMMA InitAccounts == Init => SlotAccounting /\ CountersAgree
<1> SUFFICES ASSUME Init, NEW p \in Pools
             PROVE  /\ value[p] + Cardinality(Holders(p)) =
                         MaxWorkers[p] + Cardinality(ReleasedTwice(p))
                    /\ active[p] = Cardinality(Holders(p))
  BY DEF SlotAccounting, CountersAgree
<1>1. Holders(p) = {} /\ ReleasedTwice(p) = {}
  BY DEF Init, Holders, Holding, ReleasedTwice, DatabaseCalls, Labels, None
<1>. QED
  BY <1>1, FS_EmptySet, MaxWorkersAssumption DEF Init, PoolsInit

LEMMA StepAccounts ==
  ASSUME IInv, SlotAccounting, CountersAgree, NEW r \in Requests, SlotStep(r)
  PROVE  SlotAccounting' /\ CountersAgree'
<1> SUFFICES ASSUME NEW p \in Pools
             PROVE  /\ value'[p] + Cardinality(Holders(p))' =
                         MaxWorkers[p] + Cardinality(ReleasedTwice(p))'
                    /\ ReleasedTwice(p)' = {} => active'[p] = Cardinality(Holders(p))'
  BY DEF SlotAccounting, CountersAgree
<1>1. /\ value[p] + Cardinality(Holders(p)) = MaxWorkers[p] + Cardinality(ReleasedTwice(p))
      /\ ReleasedTwice(p) = {} => active[p] = Cardinality(Holders(p))
  BY DEF SlotAccounting, CountersAgree
<1>2. /\ value \in [Pools -> Nat] /\ active \in [Pools -> Nat] /\ MaxWorkers[p] \in Nat
      /\ Cardinality(Holders(p)) \in Nat /\ Cardinality(ReleasedTwice(p)) \in Nat
  BY FiniteUse, MaxWorkersAssumption DEF IInv, TypeOK, PoolsTypeOK
<1>3. CASE Keeps
  BY <1>1, <1>3 DEF Keeps
<1>4. ASSUME NEW q \in Pools, Takes(r, q)
      PROVE  /\ value'[p] + Cardinality(Holders(p))' =
                  MaxWorkers[p] + Cardinality(ReleasedTwice(p))'
             /\ ReleasedTwice(p)' = {} => active'[p] = Cardinality(Holders(p))'
  <2>1. ReleasedTwice(p)' = ReleasedTwice(p) /\ Acquire(q)
    BY <1>4 DEF Takes
  <2>. QED
    BY <1>1, <1>2, <1>4, <2>1, UseCounts DEF Acquire
<1>5. ASSUME NEW q \in Pools, Gives(r, q)
      PROVE  /\ value'[p] + Cardinality(Holders(p))' =
                  MaxWorkers[p] + Cardinality(ReleasedTwice(p))'
             /\ ReleasedTwice(p)' = {} => active'[p] = Cardinality(Holders(p))'
  <2>1. PICK error \in BOOLEAN : Release(q, error)
    BY <1>5 DEF Gives
  <2>2. ReleasedTwice(p)' = ReleasedTwice(p) /\ Cardinality(Holders(q)) > 0
    BY <1>5, FiniteUse, FS_EmptySet DEF Gives
  <2>3. p = q => Cardinality(Holders(p)) > 0
    BY <2>2
  <2>. QED
    BY <1>1, <1>2, <1>5, <2>1, <2>2, <2>3, UseCounts DEF Release
<1>6. ASSUME NEW q \in Pools, GivesAgain(r, q)
      PROVE  /\ value'[p] + Cardinality(Holders(p))' =
                  MaxWorkers[p] + Cardinality(ReleasedTwice(p))'
             /\ ReleasedTwice(p)' = {} => active'[p] = Cardinality(Holders(p))'
  <2>1. ReleasedTwice(p)' = {} => p # q /\ ReleasedTwice(p) = {}
    BY <1>6 DEF GivesAgain
  <2>2. Release(q, TRUE)
    BY <1>6 DEF GivesAgain
  <2>. QED
    BY <1>1, <1>2, <1>6, <2>1, <2>2, UseCounts DEF Release
<1>. QED
  BY <1>3, <1>4, <1>5, <1>6 DEF SlotStep

LEMMA StutterAccounts ==
  ASSUME SlotAccounting, CountersAgree, UNCHANGED vars
  PROVE  SlotAccounting' /\ CountersAgree'
BY DEF SlotAccounting, CountersAgree, Holders, Holding, ReleasedTwice, vars, taskVars,
       poolVars

LEMMA NextAccounts ==
  IInv /\ SlotAccounting /\ CountersAgree /\ [Next]_vars => SlotAccounting' /\ CountersAgree'
BY PoolUse, StepAccounts, StutterAccounts DEF Next, AllAnswered

\* In every reachable state, for any number of requests and any sizes of the
\* pools, each pool's semaphore stands at max_workers, less the requests that
\* hold one of its slots, plus those that were released twice: no slot is ever
\* lost, and the exception handler's second release is the only way to gain one.
THEOREM SlotAccountingHolds == Spec => []SlotAccounting
<1>1. Init => IInv /\ SlotAccounting /\ CountersAgree
  BY InitIInv, InitAccounts
<1>2. IInv /\ SlotAccounting /\ CountersAgree /\ [Next]_vars
        => (IInv /\ SlotAccounting /\ CountersAgree)'
  BY NextIInv, NextAccounts
<1>. QED
  BY <1>1, <1>2, PTL DEF Spec

\* The counter that routing and health scores read is exact until a request of
\* that pool is released twice.
THEOREM CountersAgreeHolds == Spec => []CountersAgree
<1>1. Init => IInv /\ SlotAccounting /\ CountersAgree
  BY InitIInv, InitAccounts
<1>2. IInv /\ SlotAccounting /\ CountersAgree /\ [Next]_vars
        => (IInv /\ SlotAccounting /\ CountersAgree)'
  BY NextIInv, NextAccounts
<1>. QED
  BY <1>1, <1>2, PTL DEF Spec

-----------------------------------------------------------------------------
(* The counter against the semaphore *)

\* release() raises the semaphore by one and lowers the counter by at most one,
\* so the two together never fall below the pool's size.
CounterCovers == \A p \in Pools : value[p] + active[p] >= MaxWorkers[p]

LEMMA StepCounterCovers ==
  ASSUME IInv, CounterCovers, NEW r \in Requests, SlotStep(r)
  PROVE  CounterCovers'
<1>1. ASSUME NEW q \in Pools, Acquire(q) PROVE CounterCovers'
  BY <1>1, MaxWorkersAssumption DEF CounterCovers, Acquire, IInv, TypeOK, PoolsTypeOK
<1>2. ASSUME NEW q \in Pools, NEW error \in BOOLEAN, Release(q, error) PROVE CounterCovers'
  <2> SUFFICES ASSUME NEW p \in Pools
               PROVE  value'[p] + active'[p] >= MaxWorkers[p]
    BY DEF CounterCovers
  <2>1. /\ value[p] \in Nat /\ active[p] \in Nat /\ MaxWorkers[p] \in Nat
        /\ value[p] + active[p] >= MaxWorkers[p]
    BY MaxWorkersAssumption DEF IInv, TypeOK, PoolsTypeOK, CounterCovers
  <2>2. /\ value'[p] = IF p = q THEN value[p] + 1 ELSE value[p]
        /\ active'[p] = IF p = q THEN (IF active[p] > 0 THEN active[p] - 1 ELSE 0)
                       ELSE active[p]
    BY <1>2 DEF Release, IInv, TypeOK, PoolsTypeOK
  <2>. QED
    BY <2>1, <2>2
<1>3. CASE Keeps
  BY <1>3 DEF Keeps, CounterCovers
<1>. QED
  BY <1>1, <1>2, <1>3 DEF SlotStep, Takes, Gives, GivesAgain

\* A request that sees a free worker in the counter finds a slot in the
\* semaphore: check and acquire cannot disagree in the harmful direction, even
\* after double releases.
THEOREM AvailableIsAcquirableHolds == Spec => []AvailableIsAcquirable
<1>1. Init => IInv /\ CounterCovers
  BY InitIInv, MaxWorkersAssumption DEF Init, PoolsInit, CounterCovers
<1>2. IInv /\ CounterCovers /\ [Next]_vars => (IInv /\ CounterCovers)'
  <2>1. UNCHANGED vars /\ CounterCovers => CounterCovers'
    BY DEF vars, poolVars, CounterCovers
  <2>. QED
    BY <2>1, NextIInv, PoolUse, StepCounterCovers DEF Next, AllAnswered
<1>3. IInv /\ CounterCovers => AvailableIsAcquirable
  BY MaxWorkersAssumption
  DEF IInv, TypeOK, PoolsTypeOK, CounterCovers, AvailableIsAcquirable, Available, CanAcquire
<1>. QED
  BY <1>1, <1>2, <1>3, PTL DEF Spec

-----------------------------------------------------------------------------
(* Who waits, and where *)

\* A pool that the router picked and that is full is a fallback: below a
\* threshold, or with a worker available, the pool can be acquired.
LEMMA FullChoiceIsFallback ==
  ASSUME IInv, CounterCovers, NEW tier, NEW p \in Pools, p \in Route(tier), ~CanAcquire(p)
  PROVE  p = IF tier = "enterprise" THEN "general" ELSE "overflow"
<1>1. value[p] = 0 /\ active[p] \in Nat /\ MaxWorkers[p] \in Nat \ {0}
      /\ active[p] >= MaxWorkers[p]
  BY MaxWorkersAssumption DEF IInv, TypeOK, PoolsTypeOK, CounterCovers, CanAcquire
<1>2. ~(Available(p) > 0) /\ ~UtilizationAtMost(p, 60) /\ ~UtilizationAtMost(p, 80)
  BY <1>1 DEF Available, UtilizationAtMost
<1>. QED
  BY <1>2 DEF Route, RouteEnterprise, RoutePremium, RouteFree, Pools

LEMMA NextWaits ==
  ASSUME IInv, CounterCovers, WaitsOnlyForFallback, [Next]_vars
  PROVE  WaitsOnlyForFallback'
<1>1. ASSUME NEW r \in Requests, Submit(r) \/ Step(r), ~RouteAndWait(r)
      PROVE  \A x \in Requests : pc'[x] = "wait" => pc[x] = "wait" /\ pool'[x] = pool[x]
  BY <1>1
  DEF Submit, Step, Admission, FetchFails, FetchUnknown, RouteShed, RouteAndEnter,
      PollAcquires, PollTimesOut, EnterSafe, EnterBlocked, LimitCheck, CountAllows,
      CountRejectsFirst, CountRejectsAgain, Notify, Reject, Record, Exchange, FindSession,
      FindNoSession, InsertSession, EnterSession, LoadContext, StoreUser, Generate,
      StoreReply, Count, Touch, Raise, At, Goto, Return, IInv, TypeOK
<1>2. ASSUME NEW r \in Requests, RouteAndWait(r)
      PROVE  WaitsOnlyForFallback'
  <2>1. PICK p \in Pools :
          /\ p \in Route(TierOf[UserOf[r]]) /\ ~CanAcquire(p)
          /\ pool' = [pool EXCEPT ![r] = p] /\ pc' = [pc EXCEPT ![r] = "wait"]
    BY <1>2 DEF RouteAndWait, RoutedTo, Goto
  <2>2. p = IF TierOf[UserOf[r]] = "enterprise" THEN "general" ELSE "overflow"
    BY <2>1, FullChoiceIsFallback
  <2>. QED
    BY <2>1, <2>2 DEF WaitsOnlyForFallback, At, IInv, TypeOK
<1>3. CASE UNCHANGED vars
  BY <1>3 DEF WaitsOnlyForFallback, At, vars, taskVars
<1>. QED
  BY <1>1, <1>2, <1>3 DEF Next, AllAnswered, WaitsOnlyForFallback, At

\* No request ever waits for the priority pool, and none but an enterprise
\* request for the general pool, although it looks at a counter when it is
\* routed and at the semaphore when it acquires.
THEOREM WaitsOnlyForFallbackHolds == Spec => []WaitsOnlyForFallback
<1>1. Init => IInv /\ CounterCovers /\ WaitsOnlyForFallback
  BY InitIInv, MaxWorkersAssumption
  DEF Init, PoolsInit, CounterCovers, WaitsOnlyForFallback, At
<1>2. IInv /\ CounterCovers /\ WaitsOnlyForFallback /\ [Next]_vars
        => (IInv /\ CounterCovers /\ WaitsOnlyForFallback)'
  <2>1. UNCHANGED vars /\ CounterCovers => CounterCovers'
    BY DEF vars, poolVars, CounterCovers
  <2>2. IInv /\ CounterCovers /\ [Next]_vars => (IInv /\ CounterCovers)'
    BY <2>1, NextIInv, PoolUse, StepCounterCovers DEF Next, AllAnswered
  <2>. QED
    BY <2>2, NextWaits
<1>. QED
  BY <1>1, <1>2, PTL DEF Spec

\* The priority pool's slots go to enterprise users, and the overflow pool's
\* to nobody else's.
PoolsByTier ==
  \A r \in Requests :
    /\ pool[r] = "priority" => TierOf[UserOf[r]] = "enterprise"
    /\ pool[r] = "overflow" => TierOf[UserOf[r]] # "enterprise"

\* A request's pool is set once, to what the router decided for its tier.
LEMMA PoolsAreRouted ==
  ASSUME IInv, NEW r \in Requests, Submit(r) \/ Step(r)
  PROVE  \/ pool' = pool
         \/ \E p \in Pools :
              p \in Route(TierOf[UserOf[r]]) /\ pool' = [pool EXCEPT ![r] = p]
<1>1. CASE Submit(r) \/ Admission(r)
  BY <1>1
  DEF Submit, Admission, FetchFails, FetchUnknown, RouteShed, RouteAndEnter, RouteAndWait,
      RoutedTo, PollAcquires, PollTimesOut
<1>2. CASE LimitCheck(r)
  BY <1>2
  DEF LimitCheck, CountAllows, CountRejectsFirst, CountRejectsAgain, Notify, Reject, Record
<1>3. CASE Exchange(r) \/ Raise(r)
  BY <1>3
  DEF Exchange, FindSession, FindNoSession, InsertSession, EnterSession, LoadContext,
      StoreUser, Generate, StoreReply, Count, Touch, Raise
<1>. QED
  BY <1>1, <1>2, <1>3 DEF Step

\* So every request is in a pool of its tier, blocked and limited ones too, from
\* its routing on.
THEOREM PoolsByTierHolds == Spec => []PoolsByTier
<1>1. Init => PoolsByTier
  BY DEF Init, PoolsByTier, None
<1>2. IInv /\ PoolsByTier /\ [Next]_vars => PoolsByTier'
  <2> SUFFICES ASSUME IInv, PoolsByTier, [Next]_vars PROVE PoolsByTier'
    OBVIOUS
  <2>1. CASE pool' = pool
    BY <2>1 DEF PoolsByTier
  <2>2. ASSUME NEW r \in Requests, NEW p \in Route(TierOf[UserOf[r]]),
               pool' = [pool EXCEPT ![r] = p]
        PROVE  PoolsByTier'
    <3>1. /\ p = "priority" => TierOf[UserOf[r]] = "enterprise"
          /\ p = "overflow" => TierOf[UserOf[r]] # "enterprise"
      BY DEF Route, RouteEnterprise, RoutePremium, RouteFree
    <3>. QED
      BY <2>2, <3>1 DEF PoolsByTier, IInv, TypeOK
  <2>. QED
    BY <2>1, <2>2, PoolsAreRouted DEF Next, AllAnswered, vars, taskVars
<1>. QED
  BY <1>1, <1>2, InitIInv, NextIInv, PTL DEF Spec

-----------------------------------------------------------------------------
(* The refinement of SlotPool, when no database call fails *)

NoneConfused == \A r \in Requests : resp[r] # "confused"

LEMMA NextNoneConfused ==
  ASSUME ~Faulty, IInv, NoneConfused, [Next]_vars
  PROVE  NoneConfused'
<1>1. ASSUME NEW r \in Requests, Step(r) PROVE NoneConfused'
  <2>1. CASE Admission(r)
    BY <2>1 DEF NoneConfused, Admission, FetchFails, FetchUnknown, RouteShed, RouteAndEnter,
                RouteAndWait, PollAcquires, PollTimesOut, Return, IInv, TypeOK
  <2>2. CASE LimitCheck(r)
    BY <2>2 DEF NoneConfused, LimitCheck, CountAllows, CountRejectsFirst, CountRejectsAgain,
                Notify, Reject, Record, Return, IInv, TypeOK
  <2>3. CASE Exchange(r)
    BY <2>3 DEF NoneConfused, Exchange, FindSession, FindNoSession, InsertSession,
                EnterSession, LoadContext, StoreUser, Generate, StoreReply, Count, Touch,
                Return, IInv, TypeOK
  <2>. QED
    BY <1>1, <2>1, <2>2, <2>3 DEF NoneConfused, Step, Raise, Return, IInv, TypeOK
<1>2. ASSUME NEW r \in Requests, Submit(r) PROVE NoneConfused'
  BY <1>2 DEF NoneConfused, Submit, IInv, TypeOK
<1>. QED
  BY <1>1, <1>2 DEF NoneConfused, Next, AllAnswered, vars, taskVars

\* The requests that were routed and have not ended.
Routed == {r \in Requests : pc[r] \in DatabaseCalls \cup {"wait", "llm"}}

\* Those are in a pool that they may use: what one of them takes when its turn
\* comes, or gives back once more, is a slot of such a pool.
Entitled == \A r \in Routed : pool[r] \in PoolsOf[r]

\* Every routing decision is a pool for the request's tier.
LEMMA RouteEntitles ==
  ASSUME NEW r \in Requests, UserOf[r] \in KnownUsers, NEW p \in Pools,
         p \in Route(TierOf[UserOf[r]])
  PROVE  p \in PoolsOf[r]
BY DEF Route, RouteEnterprise, RoutePremium, RouteFree, PoolsOf, Pools

\* Only the two ways out of the routing put a request into a pool.
LEMMA StaysRouted ==
  ASSUME IInv, NEW r \in Requests, Submit(r) \/ Step(r), ~RouteAndWait(r), ~RouteAndEnter(r)
  PROVE  \A x \in Routed' : x \in Routed /\ pool'[x] = pool[x]
<1>. USE DEF At, Goto, Return, Routed, DatabaseCalls, Labels
<1>1. CASE Submit(r) \/ Admission(r)
  BY <1>1
  DEF Submit, Admission, FetchFails, FetchUnknown, RouteShed, PollAcquires, PollTimesOut,
      EnterSafe, EnterBlocked, IInv, TypeOK
<1>2. CASE LimitCheck(r)
  BY <1>2
  DEF LimitCheck, CountAllows, CountRejectsFirst, CountRejectsAgain, Notify, Reject, Record,
      IInv, TypeOK
<1>3. CASE Exchange(r) \/ Raise(r)
  BY <1>3
  DEF Exchange, FindSession, FindNoSession, InsertSession, EnterSession, LoadContext,
      StoreUser, Generate, StoreReply, Count, Touch, Raise, IInv, TypeOK
<1>. QED
  BY <1>1, <1>2, <1>3 DEF Step

LEMMA NextEntitled ==
  ASSUME IInv, Entitled, [Next]_vars
  PROVE  Entitled'
<1>1. PoolsOf' = PoolsOf
  BY DEF PoolsOf
<1>2. ASSUME NEW r \in Requests, RouteAndWait(r) \/ RouteAndEnter(r) PROVE Entitled'
  <2>1. PICK p \in Pools : /\ UserOf[r] \in KnownUsers /\ p \in Route(TierOf[UserOf[r]])
                           /\ pool' = [pool EXCEPT ![r] = p]
    BY <1>2 DEF RouteAndWait, RouteAndEnter, RoutedTo
  <2>2. pool'[r] \in PoolsOf[r]
    BY <2>1, RouteEntitles DEF IInv, TypeOK
  <2>3. \A x \in Requests \ {r} : pc'[x] = pc[x] /\ pool'[x] = pool[x]
    BY <1>2, <2>1 DEF RouteAndWait, RouteAndEnter, EnterSafe, EnterBlocked, Goto, IInv, TypeOK
  <2>. QED
    BY <1>1, <2>2, <2>3 DEF Entitled, Routed
<1>3. ASSUME NEW r \in Requests, Submit(r) \/ Step(r) PROVE Entitled'
  BY <1>1, <1>2, <1>3, StaysRouted DEF Entitled
<1>4. CASE UNCHANGED vars
  BY <1>1, <1>4 DEF Entitled, Routed, vars, taskVars
<1>. QED
  BY <1>3, <1>4 DEF Next, AllAnswered

\* Where a step of r takes r in the abstract pools: nowhere, out, or from the
\* waiting room into a pool that it acquired.
Moves(r) ==
  /\ OthersKeep(r)
  /\ \/ Place'[r] = Place[r]
     \/ Place'[r] = "gone"
     \/ \E q \in Pools : /\ Place[r] = "waiting" /\ Place'[r] = q
                         /\ q \in PoolsOf[r] /\ CanAcquire(q)

LEMMA AdmissionMoves ==
  ASSUME IInv, Entitled, NEW r \in Requests, Submit(r) \/ Admission(r)
  PROVE  Moves(r)
<1>. USE DEF At, Goto, Return
<1>1. pc[r] \in {"idle", "fetch", "wait"} /\ ~Holding(r) /\ Place[r] = "waiting"
  BY DEF Submit, Admission, FetchFails, FetchUnknown, RouteShed, RouteAndEnter, RouteAndWait,
         RoutedTo, PollAcquires, PollTimesOut, Holding, DatabaseCalls, Labels, Place
<1>2. CASE Submit(r) \/ FetchFails(r) \/ FetchUnknown(r) \/ RouteShed(r)
           \/ RouteAndWait(r) \/ PollTimesOut(r)
  <2>1. OthersKeep(r) /\ ~Holding(r)' /\ pc'[r] \in {"fetch", "wait", "done"}
    BY <1>2
    DEF Submit, FetchFails, FetchUnknown, RouteShed, RouteAndWait, PollTimesOut, OthersKeep,
        Holding, DatabaseCalls, Labels, IInv, TypeOK
  <2>. QED
    BY <1>1, <2>1 DEF Moves, Place
<1>3. ASSUME NEW p \in Pools, NEW tracked, p \in PoolsOf[r],
             pool' = [pool EXCEPT ![r] = p], resp' = resp,
             EnterSafe(r, p, tracked)
      PROVE  Moves(r)
  <2>1. OthersKeep(r) /\ Holding(r)' /\ pool'[r] = p /\ CanAcquire(p)
    BY <1>1, <1>3
    DEF EnterSafe, Acquire, OthersKeep, Holding, DatabaseCalls, Labels, IInv, TypeOK, Control
  <2>2. Place'[r] = p
    BY <2>1 DEF Place
  <2>. QED
    BY <1>1, <1>3, <2>1, <2>2 DEF Moves
<1>4. ASSUME NEW p \in Pools, NEW tracked,
             pool' = [pool EXCEPT ![r] = p], resp' = resp,
             EnterBlocked(r, p, tracked)
      PROVE  Moves(r)
  <2>1. OthersKeep(r) /\ ~Holding(r)' /\ pc'[r] = "find"
    BY <1>4 DEF EnterBlocked, OthersKeep, Holding, IInv, TypeOK
  <2>2. Place'[r] = "gone"
    BY <2>1 DEF Place
  <2>. QED
    BY <2>1, <2>2 DEF Moves
<1>5. CASE RouteAndEnter(r)
  <2>1. PICK p \in Pools :
          /\ UserOf[r] \in KnownUsers /\ p \in Route(TierOf[UserOf[r]])
          /\ pool' = [pool EXCEPT ![r] = p] /\ resp' = resp
          /\ \/ EnterSafe(r, p, {<<r, "pool_routed">>})
             \/ EnterBlocked(r, p, {<<r, "pool_routed">>})
    BY <1>5 DEF RouteAndEnter, RoutedTo
  <2>. QED
    BY <1>3, <1>4, <2>1, RouteEntitles
<1>6. CASE PollAcquires(r)
  <2>1. /\ pool[r] \in Pools /\ pool[r] \in PoolsOf[r]
        /\ pool' = [pool EXCEPT ![r] = pool[r]] /\ resp' = resp
        /\ EnterSafe(r, pool[r], {}) \/ EnterBlocked(r, pool[r], {})
    BY <1>6 DEF PollAcquires, IInv, TypeOK, Control, Entitled, Routed
  <2>. QED
    BY <1>3, <1>4, <2>1
<1>. QED
  BY <1>2, <1>5, <1>6 DEF Admission

LEMMA WorkMoves ==
  ASSUME IInv, NEW r \in Requests, LimitCheck(r) \/ Exchange(r) \/ Raise(r)
  PROVE  Moves(r)
<1>. USE DEF At, Goto, Return
<1>1. /\ pc[r] \in DatabaseCalls \cup {"llm"}
      /\ OthersKeep(r) /\ pool' = pool
      /\ pc'[r] \in DatabaseCalls \cup {"llm", "done"}
      /\ path'[r] = path[r] \/ path'[r] # "normal"
  BY DEF LimitCheck, CountAllows, CountRejectsFirst, CountRejectsAgain, Notify, Reject,
         Record, Exchange, FindSession, FindNoSession, InsertSession, EnterSession,
         LoadContext, StoreUser, Generate, StoreReply, Count, Touch, Raise, OthersKeep,
         IInv, TypeOK, DatabaseCalls, Labels
<1>2. CASE Holding(r)
  <2>1. Place[r] = pool[r]
    BY <1>2 DEF Place
  <2>2. Place'[r] \in {pool[r], "gone"}
    BY <1>1 DEF Place, DatabaseCalls, Labels
  <2>. QED
    BY <1>1, <2>1, <2>2 DEF Moves
<1>3. CASE ~Holding(r)
  <2>1. ~Holding(r)' /\ pc'[r] \notin {"idle", "fetch", "wait"}
    BY <1>1, <1>3 DEF Holding, DatabaseCalls, Labels
  <2>2. Place'[r] = "gone"
    BY <2>1 DEF Place
  <2>. QED
    BY <1>1, <2>2 DEF Moves
<1>. QED
  BY <1>2, <1>3

\* There is room in the abstract pools for a move of one request, because the
\* semaphore's account is exact.
LEMMA MoveHasRoom ==
  ASSUME IInv, SlotAccounting, NEW r \in Requests, Moves(r)
  PROVE  \/ Place' = Place
         \/ Place[r] # "gone" /\ Place' = [Place EXCEPT ![r] = "gone"]
         \/ \E q \in Pools :
              /\ q \in PoolsOf[r] /\ Place[r] = "waiting" /\ Place' = [Place EXCEPT ![r] = q]
              /\ Cardinality({x \in Requests : Place[x] = q})
                   < MaxWorkers[q] + Cardinality(ReleasedTwice(q))
<1>1. Place' = [Place EXCEPT ![r] = Place'[r]]
  <2>1. \A x \in Requests \ {r} : Place'[x] = Place[x]
    BY DEF Moves, OthersKeep, Place, Holding
  <2>. QED
    BY <2>1 DEF Place
<1>2. CASE Place'[r] = Place[r]
  BY <1>1, <1>2 DEF Place
<1>3. CASE Place'[r] = "gone" /\ Place[r] # "gone"
  BY <1>1, <1>3
<1>4. ASSUME NEW q \in Pools, CanAcquire(q)
      PROVE  Cardinality({x \in Requests : Place[x] = q})
               < MaxWorkers[q] + Cardinality(ReleasedTwice(q))
  <2>1. {x \in Requests : Place[x] = q} = Holders(q)
    BY DEF Holders, Place, Pools
  <2>2. /\ value[q] + Cardinality(Holders(q)) = MaxWorkers[q] + Cardinality(ReleasedTwice(q))
        /\ value[q] \in Nat /\ value[q] > 0
    BY <1>4 DEF SlotAccounting, CanAcquire, IInv, TypeOK, PoolsTypeOK
  <2>3. /\ Cardinality(Holders(q)) \in Nat /\ Cardinality(ReleasedTwice(q)) \in Nat
        /\ MaxWorkers[q] \in Nat
    BY FiniteUse, MaxWorkersAssumption
  <2>. QED
    BY <2>1, <2>2, <2>3
<1>. QED
  BY <1>1, <1>2, <1>3, <1>4 DEF Moves

RefinementInv == IInv /\ SlotAccounting /\ CountersAgree /\ NoneConfused /\ Entitled

\* Without failures nobody was released twice, and the room is SlotPool's.
LEMMA MoveImplements ==
  ASSUME RefinementInv, NEW r \in Requests, Moves(r)
  PROVE  SlotUse!Next \/ Place' = Place
<1>1. \A S : SlotUse!Cardinality(S) = Cardinality(S)
  BY DEF SlotUse!Cardinality, Cardinality
<1>2. \A q \in Pools : MaxWorkers[q] + Cardinality(ReleasedTwice(q)) = MaxWorkers[q]
  <2>1. \A q \in Pools : ReleasedTwice(q) = {}
    BY DEF RefinementInv, NoneConfused, ReleasedTwice
  <2>. QED
    BY <2>1, FS_EmptySet, MaxWorkersAssumption
<1>3. CASE Place[r] # "gone" /\ Place' = [Place EXCEPT ![r] = "gone"]
  BY <1>3 DEF SlotUse!Next, SlotUse!Leave
<1>4. ASSUME NEW q \in Pools, q \in PoolsOf[r], Place[r] = "waiting",
             Place' = [Place EXCEPT ![r] = q],
             Cardinality({x \in Requests : Place[x] = q})
               < MaxWorkers[q] + Cardinality(ReleasedTwice(q))
      PROVE  SlotUse!Next
  <2>1. SlotUse!Cardinality(SlotUse!Served(q)) < MaxWorkers[q]
    BY <1>1, <1>2, <1>4 DEF SlotUse!Served
  <2>2. SlotUse!Take(r, q)
    BY <1>4, <2>1 DEF SlotUse!Take
  <2>. QED
    BY <2>2 DEF SlotUse!Next
<1>. QED
  BY <1>3, <1>4, MoveHasRoom DEF RefinementInv

\* Without database failures the code's bookkeeping with semaphores, counters,
\* polling and timeouts implements the abstract pools: every behaviour starts
\* as they do and every step is a step of theirs or changes nothing there.
THEOREM UsesSlotsSafely ==
  ASSUME ~Faulty
  PROVE  Spec => SlotUse!Init /\ [][SlotUse!Next]_Place
<1>1. Init => SlotUse!Init
  BY DEF Init, SlotUse!Init, Place, Holding, DatabaseCalls, Labels
<1>2. Init => RefinementInv
  BY InitIInv, InitAccounts
  DEF RefinementInv, Init, NoneConfused, Entitled, Routed, DatabaseCalls, Labels, None
<1>3. RefinementInv /\ [Next]_vars => RefinementInv'
  BY NextIInv, NextAccounts, NextNoneConfused, NextEntitled DEF RefinementInv
<1>4. RefinementInv /\ [Next]_vars => [SlotUse!Next]_Place
  <2> SUFFICES ASSUME RefinementInv, [Next]_vars
               PROVE  SlotUse!Next \/ Place' = Place
    OBVIOUS
  <2>1. ASSUME NEW r \in Requests, Submit(r) \/ Step(r)
        PROVE  SlotUse!Next \/ Place' = Place
    BY <2>1, AdmissionMoves, WorkMoves, MoveImplements DEF Step, RefinementInv
  <2>2. CASE UNCHANGED vars
    BY <2>2 DEF vars, taskVars, Place, Holding
  <2>. QED
    BY <2>1, <2>2 DEF Next, AllAnswered
<1>. QED
  BY <1>1, <1>2, <1>3, <1>4, PTL DEF Spec

-----------------------------------------------------------------------------
(* The refinement of GrowingPool, whatever fails *)

\* Only the exception handler answers "confused".
LEMMA OnlyRaiseConfuses ==
  ASSUME IInv, NEW r \in Requests, Submit(r) \/ Step(r), ~Raise(r)
  PROVE  resp'[r] # "confused" \/ resp'[r] = resp[r]
<1>1. CASE Submit(r) \/ Admission(r)
  BY <1>1 DEF Submit, Admission, FetchFails, FetchUnknown, RouteShed, RouteAndEnter,
              RouteAndWait, PollAcquires, PollTimesOut, Return, IInv, TypeOK
<1>2. CASE LimitCheck(r)
  BY <1>2 DEF LimitCheck, CountAllows, CountRejectsFirst, CountRejectsAgain,
              Notify, Reject, Record, Return, IInv, TypeOK
<1>3. CASE Exchange(r)
  BY <1>3 DEF Exchange, FindSession, FindNoSession, InsertSession, EnterSession, LoadContext,
              StoreUser, Generate, StoreReply, Count, Touch, Return, IInv, TypeOK
<1>. QED
  BY <1>1, <1>2, <1>3 DEF Step

\* And only of a request that is not served does it release a slot too many.
LEMMA SurplusKept ==
  ASSUME IInv, NEW r \in Requests, Submit(r) \/ Step(r), ~(Raise(r) /\ path[r] # "normal")
  PROVE  Surplus' = Surplus
<1>1. \A p \in Pools : ReleasedTwice(p)' = ReleasedTwice(p)
  <2>1. CASE Keeps \/ \E q \in Pools : Takes(r, q) \/ Gives(r, q)
    BY <2>1 DEF Keeps, Takes, Gives
  <2>2. ASSUME NEW q \in Pools, GivesAgain(r, q) PROVE FALSE
    <3>1. resp'[r] = "confused" /\ path'[r] # "normal" /\ r \notin ReleasedTwice(q)
          /\ pool'[r] = q
      BY <2>2 DEF GivesAgain, ReleasedTwice
    <3>2. pc[r] # "done" /\ resp[r] = None
      BY DEF Submit, Step, Admission, FetchFails, FetchUnknown, RouteShed, RouteAndEnter,
             RouteAndWait, RoutedTo, PollAcquires, PollTimesOut, LimitCheck, CountAllows,
             CountRejectsFirst, CountRejectsAgain, Notify, Record, Exchange, FindSession,
             FindNoSession, InsertSession, LoadContext, StoreUser, Generate, StoreReply, Count,
             Touch, Raise, At, IInv, Control, DatabaseCalls, Labels
    <3>3. Raise(r)
      BY <3>1, <3>2, OnlyRaiseConfuses DEF None
    <3>. QED
      BY <3>1, <3>3 DEF Raise
  <2>. QED
    BY <2>1, <2>2, PoolUse DEF SlotStep
<1>. QED
  BY <1>1 DEF Surplus

\* That release is a failure of a client that left its pool.
LEMMA RaiseFails ==
  ASSUME IInv, Entitled, NEW r \in Requests, Raise(r), path[r] # "normal"
  PROVE  Degraded!Fail(r, pool[r]) /\ pool[r] \in Pools
<1>1. /\ OthersKeep(r) /\ ~Holding(r) /\ ~Holding(r)' /\ pool' = pool /\ path' = path
      /\ resp[r] = None /\ resp'[r] = "confused" /\ pool[r] \in Pools
      /\ pc[r] \in DatabaseCalls /\ pc'[r] = "done"
  BY DEF Raise, Goto, Return, OthersKeep, Holding, IInv, TypeOK, Control, DatabaseCalls, Labels
<1>2. Place' = Place /\ Place[r] = "gone"
  <2>1. \A x \in Requests : Place'[x] = Place[x]
    BY <1>1 DEF OthersKeep, Place, Holding, DatabaseCalls, Labels
  <2>2. Place[r] = "gone"
    BY <1>1 DEF Place, DatabaseCalls, Labels
  <2>. QED
    BY <2>1, <2>2 DEF Place
<1>3. pool[r] \in PoolsOf[r]
  BY <1>1 DEF Entitled, Routed
<1>4. \A q \in Pools : r \notin Surplus[q]
  BY <1>1 DEF Surplus, ReleasedTwice, None
<1>5. Surplus' = [Surplus EXCEPT ![pool[r]] = @ \cup {r}]
  <2>1. \A p \in Pools :
          ReleasedTwice(p)' = IF p = pool[r] THEN ReleasedTwice(p) \cup {r} ELSE ReleasedTwice(p)
    BY <1>1 DEF OthersKeep, ReleasedTwice
  <2>. QED
    BY <1>1, <2>1 DEF Surplus
<1>. QED
  BY <1>1, <1>2, <1>3, <1>4, <1>5 DEF Degraded!Fail

\* Any other step moves the request as it would without failures.
LEMMA MoveKeepsPromise ==
  ASSUME IInv, SlotAccounting, NEW r \in Requests, Moves(r), Surplus' = Surplus
  PROVE  Degraded!NextGrowing \/ UNCHANGED <<Place, Surplus>>
<1>1. \A S : Degraded!Cardinality(S) = Cardinality(S)
  BY DEF Degraded!Cardinality, Cardinality
<1>2. CASE Place[r] # "gone" /\ Place' = [Place EXCEPT ![r] = "gone"]
  BY <1>2 DEF Degraded!NextGrowing, Degraded!Leave
<1>3. ASSUME NEW q \in Pools, q \in PoolsOf[r], Place[r] = "waiting",
             Place' = [Place EXCEPT ![r] = q],
             Cardinality({x \in Requests : Place[x] = q})
               < MaxWorkers[q] + Cardinality(ReleasedTwice(q))
      PROVE  Degraded!NextGrowing
  <2>1. Degraded!Cardinality(Degraded!Served(q))
          < MaxWorkers[q] + Degraded!Cardinality(Surplus[q])
    BY <1>1, <1>3 DEF Degraded!Served, Surplus
  <2>2. Degraded!TakeAny(r, q)
    BY <1>3, <2>1 DEF Degraded!TakeAny
  <2>. QED
    BY <2>2 DEF Degraded!NextGrowing
<1>. QED
  BY <1>2, <1>3, MoveHasRoom

\* Whatever calls fail, the code's bookkeeping implements the abstract pools
\* that grow: a pool never serves more requests than its workers and one for
\* each request that failed after it gave its slot back, and each request does
\* so at most once, to a pool of its tier.
THEOREM DegradesAsPromisedHolds == Spec => DegradesAsPromised
<1> DEFINE Inv == IInv /\ SlotAccounting /\ CountersAgree /\ Entitled
<1>1. Init => Degraded!InitGrowing
  <2> SUFFICES ASSUME Init PROVE Degraded!InitGrowing
    OBVIOUS
  <2>1. Place = [r \in Requests |-> "waiting"]
    BY DEF Init, Place, Holding, DatabaseCalls, Labels
  <2>2. Surplus = [p \in Pools |-> {}]
    BY DEF Init, Surplus, ReleasedTwice, None
  <2>. QED
    BY <2>1, <2>2 DEF Degraded!InitGrowing, Degraded!Init
<1>2. Init => Inv
  BY InitIInv, InitAccounts DEF Init, Entitled, Routed, DatabaseCalls, Labels
<1>3. Inv /\ [Next]_vars => Inv'
  BY NextIInv, NextAccounts, NextEntitled
<1>4. Inv /\ [Next]_vars => [Degraded!NextGrowing]_<<Place, Surplus>>
  <2> SUFFICES ASSUME Inv, [Next]_vars
               PROVE  Degraded!NextGrowing \/ UNCHANGED <<Place, Surplus>>
    OBVIOUS
  <2>1. ASSUME NEW r \in Requests, Raise(r), path[r] # "normal"
        PROVE  Degraded!NextGrowing
    BY <2>1, RaiseFails DEF Degraded!NextGrowing
  <2>2. ASSUME NEW r \in Requests, Submit(r) \/ Step(r), ~(Raise(r) /\ path[r] # "normal")
        PROVE  Degraded!NextGrowing \/ UNCHANGED <<Place, Surplus>>
    BY <2>2, AdmissionMoves, WorkMoves, SurplusKept, MoveKeepsPromise DEF Step
  <2>3. CASE UNCHANGED vars
    BY <2>3 DEF vars, taskVars, Place, Holding, Surplus, ReleasedTwice
  <2>. QED
    BY <2>1, <2>2, <2>3 DEF Next, AllAnswered
<1>. QED
  BY <1>1, <1>2, <1>3, <1>4, PTL DEF Spec, DegradesAsPromised, Degraded!SpecGrowing
=============================================================================
