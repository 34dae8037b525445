----------------------------- MODULE WorkerPools -----------------------------
(***************************************************************************)
(* The worker pools of app/balancer/pools.py: three counting semaphores,   *)
(* each with an active-worker counter kept beside it and two of the        *)
(* request metrics (latencies are abstracted away).                        *)
(*                                                                         *)
(* WorkerPool.acquire and WorkerPool.release are single steps here: on the *)
(* event loop neither ever suspends.  AsyncPool models them one await at a *)
(* time and shows that.                                                    *)
(***************************************************************************)
EXTENDS Integers, FiniteSets

CONSTANT MaxWorkers     \* pool name -> max_workers

Pools == {"priority", "general", "overflow"}

ASSUME MaxWorkersAssumption == MaxWorkers \in [Pools -> Nat \ {0}]

VARIABLES
  value,      \* pool -> _semaphore._value
  active,     \* pool -> _active_count
  total,      \* pool -> metrics.requests_total
  errors      \* pool -> metrics.requests_errors

poolVars == <<value, active, total, errors>>

PoolsTypeOK ==
  /\ value  \in [Pools -> Nat]
  /\ active \in [Pools -> Nat]
  /\ total  \in [Pools -> Nat]
  /\ errors \in [Pools -> Nat]

PoolsInit ==
  /\ value  = MaxWorkers
  /\ active = [p \in Pools |-> 0]
  /\ total  = [p \in Pools |-> 0]
  /\ errors = [p \in Pools |-> 0]

-----------------------------------------------------------------------------

\* The property "available"; negative when more workers run than the pool has.
Available(p) == MaxWorkers[p] - active[p]

\* "utilization <= percent / 100".  The code divides and compares floats; for
\* these thresholds the rounded quotient compares as the exact one does.
UtilizationAtMost(p, percent) == 100 * active[p] <= percent * MaxWorkers[p]

CanAcquire(p) == value[p] > 0

\* A successful acquire(); a failed one changes nothing.
Acquire(p) ==
  /\ CanAcquire(p)
  /\ value'  = [value EXCEPT ![p] = @ - 1]
  /\ active' = [active EXCEPT ![p] = @ + 1]
  /\ UNCHANGED <<total, errors>>

\* Mutants of release(): without the clamp; with the semaphore, or the
\* counter, left alone when the request failed.
ReleaseUnclamped(p, error) ==
  /\ value'  = [value EXCEPT ![p] = @ + 1]
  /\ active' = [active EXCEPT ![p] = @ - 1]
  /\ total'  = [total EXCEPT ![p] = @ + 1]
  /\ errors' = [errors EXCEPT ![p] = IF error THEN @ + 1 ELSE @]

ReleaseKeepsSlot(p, error) ==
  /\ value'  = [value EXCEPT ![p] = IF error THEN @ ELSE @ + 1]
  /\ active' = [active EXCEPT ![p] = IF @ > 0 THEN @ - 1 ELSE 0]
  /\ total'  = [total EXCEPT ![p] = @ + 1]
  /\ errors' = [errors EXCEPT ![p] = IF error THEN @ + 1 ELSE @]

ReleaseKeepsCount(p, error) ==
  /\ value'  = [value EXCEPT ![p] = @ + 1]
  /\ active' = [active EXCEPT ![p] = IF @ > 0 /\ ~error THEN @ - 1 ELSE @]
  /\ total'  = [total EXCEPT ![p] = @ + 1]
  /\ errors' = [errors EXCEPT ![p] = IF error THEN @ + 1 ELSE @]

\* release(): the counter is clamped at 0, the semaphore is not bounded.
Release(p, error) ==
  /\ value'  = [value EXCEPT ![p] = @ + 1]
  /\ active' = [active EXCEPT ![p] = IF @ > 0 THEN @ - 1 ELSE 0]
  /\ total'  = [total EXCEPT ![p] = @ + 1]
  /\ errors' = [errors EXCEPT ![p] = IF error THEN @ + 1 ELSE @]

\* Mutant: the blocked request gives its slot back past the metrics.
AcquireAndReleaseUnmetered(p) == CanAcquire(p) /\ UNCHANGED poolVars

\* acquire() and release() by the same task with no await in between.
AcquireAndRelease(p) ==
  /\ CanAcquire(p)
  /\ total' = [total EXCEPT ![p] = @ + 1]
  /\ UNCHANGED <<value, active, errors>>
=============================================================================
