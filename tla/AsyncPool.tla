------------------------------- MODULE AsyncPool -------------------------------
(***************************************************************************)
(* One WorkerPool of app/balancer/pools.py under the asyncio event loop,   *)
(* one primitive at a time: the semaphore, the lock and the counter that   *)
(* acquire() and release() use, and the polling of _wait_and_acquire under *)
(* asyncio.wait_for in app/workers/processor.py.                           *)
(*                                                                         *)
(* The loop runs one task until it suspends.  Semaphore.acquire and        *)
(* Lock.acquire suspend when they must wait, and only then; the semaphore, *)
(* the lock and the timer are modelled from asyncio of Python 3.13.  This  *)
(* is what entitles WorkerPools to take acquire() and release() as single  *)
(* steps.                                                                  *)
(*                                                                         *)
(* A request that was blocked or limited goes on after it gave its slot    *)
(* back, and when a later call raises, the handler of process() releases   *)
(* once more: the semaphore is not bounded, and the counter is clamped.    *)
(***************************************************************************)
EXTENDS Integers, Sequences, FiniteSets

CONSTANTS
  Tasks,       \* requests routed to the pool
  MaxWorkers   \* max_workers

\* The event loop itself, which runs between two tasks.
Loop == "loop"

ASSUME AsyncPoolAssumption ==
  /\ IsFiniteSet(Tasks) /\ Loop \notin Tasks
  /\ MaxWorkers \in Nat \ {0}

VARIABLES
  running,     \* the task the loop is running, or "loop"
  pc,          \* task -> the statement it is about to execute or waits in
  polling,     \* task -> is it under wait_for?
  timedOut,    \* task -> has the timer of its wait_for cancelled it?
  releases,    \* task -> how many times it has called release(), for the properties
  value,       \* _semaphore._value
  semQueue,    \* _semaphore._waiters
  locked,      \* _lock._locked
  lockQueue,   \* _lock._waiters
  active       \* _active_count

poolVars == <<value, semQueue, locked, lockQueue, active>>
taskVars == <<polling, timedOut, releases>>
vars == <<running, pc, taskVars, poolVars>>

\* The statements, in the order of the code.  A task whose next statement
\* comes after an await that suspended is at a label that ends in Wait, or is
\* woken at one that ends in Woken; "after" is any await after release().
Labels == {"idle", "check", "take", "semWait", "semWoken", "lock", "lockWait",
           "lockWoken", "increment", "unlock", "sleep", "work", "relock", "relockWait",
           "relockWoken", "decrement", "reunlock", "post", "after", "done"}

TypeOK ==
  /\ running \in Tasks \cup {Loop}
  /\ pc \in [Tasks -> Labels]
  /\ polling \in [Tasks -> BOOLEAN]
  /\ timedOut \in [Tasks -> BOOLEAN]
  /\ releases \in [Tasks -> 0 .. 2]
  /\ value \in 0 .. MaxWorkers + Cardinality(Tasks)
  /\ semQueue \in Seq(Tasks) /\ lockQueue \in Seq(Tasks)
  /\ locked \in BOOLEAN
  /\ active \in 0 .. Cardinality(Tasks)

Init ==
  /\ running = Loop
  /\ pc = [t \in Tasks |-> "idle"]
  /\ polling = [t \in Tasks |-> FALSE]
  /\ timedOut = [t \in Tasks |-> FALSE]
  /\ releases = [t \in Tasks |-> 0]
  /\ value = MaxWorkers /\ semQueue = <<>>
  /\ locked = FALSE /\ lockQueue = <<>>
  /\ active = 0

-----------------------------------------------------------------------------
(* Control *)

\* The running task executes the statement at a label and goes on.
Runs(t, label) == running = t /\ pc[t] = label

GoesOn(t, label) ==
  /\ pc' = [pc EXCEPT ![t] = label]
  /\ UNCHANGED <<running, taskVars>>

Suspends(t, label) ==
  /\ pc' = [pc EXCEPT ![t] = label]
  /\ running' = Loop
  /\ UNCHANGED taskVars

\* The statement after an await, by the label of the await.  An await after
\* release() that leads to another release() has raised.
Resumption ==
  [l \in {"idle", "sleep", "semWoken", "lockWoken", "work", "relockWoken", "after"} |->
     CASE l = "idle" -> "check"
       [] l = "sleep" -> "check"
       [] l = "semWoken" -> "lock"
       [] l = "lockWoken" -> "increment"
       [] l \in {"work", "after"} -> "relock"
       [] l = "relockWoken" -> "decrement"]

\* The loop resumes a task whose await has ended.
Resume(t) ==
  /\ running = Loop
  /\ pc[t] \in DOMAIN Resumption
  /\ ~timedOut[t]
  /\ running' = t
  /\ pc' = [pc EXCEPT ![t] = Resumption[pc[t]]]
  /\ UNCHANGED <<taskVars, poolVars>>

-----------------------------------------------------------------------------
(* acquire() *)

\* Mutants of the check: a free slot is seen but not taken from the semaphore;
\* the waiting request polls without sleeping.
CheckTakesNothing(t) ==
  /\ Runs(t, "check")
  /\ \/ value > 0 /\ GoesOn(t, "lock")
     \/ value <= 0 /\ polling[t] /\ Suspends(t, "sleep")
     \/ /\ value <= 0 /\ ~polling[t]
        /\ polling' = [polling EXCEPT ![t] = TRUE]
        /\ UNCHANGED <<running, pc, timedOut, releases>>
  /\ UNCHANGED poolVars

CheckSpins(t) ==
  /\ Runs(t, "check")
  /\ \/ value > 0 /\ GoesOn(t, "take")
     \/ value <= 0 /\ polling[t] /\ GoesOn(t, "check")
     \/ /\ value <= 0 /\ ~polling[t]
        /\ polling' = [polling EXCEPT ![t] = TRUE]
        /\ UNCHANGED <<running, pc, timedOut, releases>>
  /\ UNCHANGED poolVars

\* "acquired = self._semaphore._value > 0".  When it fails, the request first
\* enters wait_for and tries again at once, then sleeps between its tries.
Check(t) ==
  /\ Runs(t, "check")
  /\ \/ value > 0 /\ GoesOn(t, "take")
     \/ value <= 0 /\ polling[t] /\ Suspends(t, "sleep")
     \/ /\ value <= 0 /\ ~polling[t]
        /\ polling' = [polling EXCEPT ![t] = TRUE]
        /\ UNCHANGED <<running, pc, timedOut, releases>>
  /\ UNCHANGED poolVars

\* Semaphore.acquire
TakeSemaphore(t) ==
  /\ Runs(t, "take")
  /\ IF value > 0 /\ semQueue = <<>>
     THEN /\ value' = value - 1
          /\ GoesOn(t, "lock")
          /\ UNCHANGED semQueue
     ELSE /\ semQueue' = Append(semQueue, t)
          /\ Suspends(t, "semWait")
          /\ UNCHANGED value
  /\ UNCHANGED <<locked, lockQueue, active>>

\* Lock.acquire, on the way from one label to another
TakeLock(t, from, wait, to) ==
  /\ Runs(t, from)
  /\ IF ~locked /\ lockQueue = <<>>
     THEN /\ locked' = TRUE
          /\ GoesOn(t, to)
          /\ UNCHANGED lockQueue
     ELSE /\ lockQueue' = Append(lockQueue, t)
          /\ Suspends(t, wait)
          /\ UNCHANGED locked
  /\ UNCHANGED <<value, semQueue, active>>

\* Lock.release: the first waiter, if there is one, gets the lock.
DropLock(t, from, to) ==
  /\ Runs(t, from)
  /\ IF lockQueue = <<>>
     THEN /\ locked' = FALSE
          /\ GoesOn(t, to)
          /\ UNCHANGED lockQueue
     ELSE LET first == Head(lockQueue) IN
          /\ lockQueue' = Tail(lockQueue)
          /\ pc' = [pc EXCEPT ![t] = to,
                              ![first] = IF @ = "lockWait" THEN "lockWoken" ELSE "relockWoken"]
          /\ UNCHANGED <<running, taskVars, locked>>
  /\ UNCHANGED <<value, semQueue, active>>

\* Mutant: something is awaited while the lock is held.
IncrementAwaits(t) ==
  /\ Runs(t, "increment")
  /\ active' = active + 1
  /\ Suspends(t, "unlock")
  /\ UNCHANGED <<value, semQueue, locked, lockQueue>>

Increment(t) ==
  /\ Runs(t, "increment")
  /\ active' = active + 1
  /\ GoesOn(t, "unlock")
  /\ UNCHANGED <<value, semQueue, locked, lockQueue>>

\* The slot is held: the request's work suspends, or its text is blocked and it
\* calls release() without an await in between.
StartWork(t) ==
  /\ Runs(t, "work")
  /\ Suspends(t, "work") \/ GoesOn(t, "relock")
  /\ UNCHANGED poolVars

Acquire(t) ==
  \/ Check(t) \/ TakeSemaphore(t)
  \/ TakeLock(t, "lock", "lockWait", "increment") \/ Increment(t)
  \/ DropLock(t, "unlock", "work") \/ StartWork(t)

-----------------------------------------------------------------------------
(* release() *)

Decrement(t) ==
  /\ Runs(t, "decrement")
  /\ active' = IF active > 0 THEN active - 1 ELSE 0
  /\ GoesOn(t, "reunlock")
  /\ UNCHANGED <<value, semQueue, locked, lockQueue>>

\* Where a request goes from release(): from the end of its work or from the
\* handler to its answer, from a blocked or limited path to further awaits.
NextAfterRelease(t) == IF releases[t] = 0 THEN {"after", "done"} ELSE {"done"}

\* Semaphore.release: the first waiter, if there is one, gets the slot.
Post(t) ==
  /\ Runs(t, "post")
  /\ running' = Loop
  /\ releases' = [releases EXCEPT ![t] = @ + 1]
  /\ \E next \in NextAfterRelease(t) :
       IF semQueue = <<>>
       THEN /\ value' = value + 1
            /\ pc' = [pc EXCEPT ![t] = next]
            /\ UNCHANGED semQueue
       ELSE /\ semQueue' = Tail(semQueue)
            /\ pc' = [pc EXCEPT ![t] = next, ![Head(semQueue)] = "semWoken"]
            /\ UNCHANGED value
  /\ UNCHANGED <<polling, timedOut, locked, lockQueue, active>>

\* The awaits after release() returned, and the request is answered.
Answer(t) ==
  /\ running = Loop
  /\ pc[t] = "after"
  /\ pc' = [pc EXCEPT ![t] = "done"]
  /\ UNCHANGED <<running, taskVars, poolVars>>

Release(t) ==
  \/ TakeLock(t, "relock", "relockWait", "decrement") \/ Decrement(t)
  \/ DropLock(t, "reunlock", "post") \/ Post(t)

-----------------------------------------------------------------------------
(* wait_for *)

\* The timer of wait_for goes off before _wait_and_acquire returned: its task
\* is cancelled in its sleep, even one that just ended.  The cancellation
\* cannot hit acquire(), which never suspends.
Timeout(t) ==
  /\ running = Loop
  /\ polling[t] /\ ~timedOut[t]
  /\ pc[t] = "sleep"
  /\ timedOut' = [timedOut EXCEPT ![t] = TRUE]
  /\ UNCHANGED <<running, pc, polling, releases, poolVars>>

\* Mutant: the request that timed out gives back a slot it never had.
CancelledReleases(t) ==
  /\ running = Loop
  /\ timedOut[t]
  /\ pc[t] = "sleep"
  /\ pc' = [pc EXCEPT ![t] = "done"]
  /\ value' = value + 1
  /\ UNCHANGED <<running, taskVars, semQueue, locked, lockQueue, active>>

\* The CancelledError ends the sleep, wait_for turns it into a TimeoutError,
\* and the request is shed.
Cancelled(t) ==
  /\ running = Loop
  /\ timedOut[t]
  /\ pc[t] = "sleep"
  /\ pc' = [pc EXCEPT ![t] = "done"]
  /\ UNCHANGED <<running, taskVars, poolVars>>

AllDone == (\A t \in Tasks : pc[t] = "done") /\ UNCHANGED vars

Next ==
  \/ \E t \in Tasks :
       Resume(t) \/ Acquire(t) \/ Release(t) \/ Answer(t) \/ Timeout(t) \/ Cancelled(t)
  \/ AllDone

Spec == Init /\ [][Next]_vars

\* The loop runs its ready tasks in turn, and a task runs until it suspends;
\* a timer that was set goes off.
Fairness ==
  \A t \in Tasks :
    /\ WF_vars(Acquire(t) \/ Release(t))
    /\ SF_vars(Resume(t) \/ Answer(t))
    /\ SF_vars(Timeout(t))
    /\ SF_vars(Cancelled(t))

FairSpec == Spec /\ Fairness

-----------------------------------------------------------------------------
(* Properties *)

\* No task is ever suspended inside acquire() or release(): between the check
\* and the increment, and between the decrement and the semaphore's release,
\* no other request runs, so both are atomic although they await.
NeverSuspendsInside ==
  running = Loop => \A t \in Tasks : pc[t] \in {"idle", "sleep", "work", "after", "done"}

\* Whenever another task could look, the semaphore has a slot for every worker
\* and for every request that was released twice, less those at work; the
\* counter is the number of requests at work, too low by at most the requests
\* that were released twice; and the lock is free.  A request whose wait timed
\* out took nothing with it, even if a slot came free as its timer went off.
AtWork == {t \in Tasks : pc[t] = "work"}
ReleasedTwice == {t \in Tasks : releases[t] = 2}

ConsistentWhenSeen ==
  running = Loop =>
    /\ value + Cardinality(AtWork) = MaxWorkers + Cardinality(ReleasedTwice)
    /\ active <= Cardinality(AtWork)
    /\ Cardinality(AtWork) <= active + Cardinality(ReleasedTwice)
    /\ ~locked

\* A request that is running, or waits for a slot, is done in the end: its
\* turn comes, or its timer goes off.
EveryoneLeaves == \A t \in Tasks : pc[t] = "check" ~> pc[t] = "done"

\* The pool implements the abstract one: its clients are at work in it from
\* taking the semaphore to releasing it, and each that is released once more
\* adds a slot to it for good.
Place == [t \in Tasks |->
  IF releases[t] > 0 \/ pc[t] = "done" THEN "gone"
  ELSE IF pc[t] \in {"idle", "check", "take", "semWait", "sleep"} THEN "waiting"
  ELSE "pool"]

Surplus == [p \in {"pool"} |-> ReleasedTwice]

SlotUse == INSTANCE GrowingPool WITH
  Clients <- Tasks, Slots <- {"pool"}, Capacity <- [p \in {"pool"} |-> MaxWorkers],
  MayUse <- [t \in Tasks |-> {"pool"}], place <- Place, extra <- Surplus

ImplementsGrowingPool == SlotUse!FairGrowing
=============================================================================
