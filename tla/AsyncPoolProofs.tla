---------------------------- MODULE AsyncPoolProofs ----------------------------
(***************************************************************************)
(* Proofs about AsyncPool, for any finite number of tasks and any size of  *)
(* the pool: acquire() and release() never suspend, which is what entitles *)
(* WorkerPools to take each as a single step, and the semaphore with its   *)
(* counter implements the abstract pool, which grows by a slot for each    *)
(* task that is released twice.                                            *)
(*                                                                         *)
(* The argument goes in a circle that the invariant closes: a task tries   *)
(* the semaphore only after it saw a free slot, and the lock only when     *)
(* nobody is between taking and dropping it, since whoever was there never *)
(* gave up control.  So both queues stay empty.                            *)
(***************************************************************************)
EXTENDS AsyncPool, FiniteSetTheorems, TLAPS

-----------------------------------------------------------------------------
(* The inductive invariant *)

\* Where a task is that is not running, and where one is that is.
Outside == {"idle", "sleep", "work", "after", "done"}
Inside  == {"check", "take", "lock", "increment", "unlock", "work",
            "relock", "decrement", "reunlock", "post"}

\* The labels at which a task holds a slot of the semaphore or is counted as
\* active, unless it has given that back before; and those with the lock.
HasSlot    == {"lock", "increment", "unlock", "work", "relock", "decrement", "reunlock", "post"}
IsCounted  == {"unlock", "work", "relock", "decrement"}
HasLock    == {"increment", "unlock", "decrement", "reunlock"}

Served  == {t \in Tasks : releases[t] = 0 /\ pc[t] \in HasSlot}
Counted == {t \in Tasks : releases[t] = 0 /\ pc[t] \in IsCounted}

\* The tasks that were, or are, subtracted from the counter a second time.
Subtracted ==
  {t \in Tasks : \/ releases[t] = 2
                 \/ releases[t] = 1 /\ pc[t] \in {"reunlock", "post"}}

Types ==
  /\ running \in Tasks \cup {Loop}
  /\ pc \in [Tasks -> Labels]
  /\ polling \in [Tasks -> BOOLEAN] /\ timedOut \in [Tasks -> BOOLEAN]
  /\ releases \in [Tasks -> 0 .. 2]
  /\ value \in Nat /\ active \in Nat /\ locked \in BOOLEAN

\* Only the running task is inside acquire() or release().
OneInside ==
  /\ \A t \in Tasks : t # running => pc[t] \in Outside
  /\ running \in Tasks => pc[running] \in Inside

\* Nobody ever waits for the semaphore or the lock.
NobodyQueues ==
  /\ semQueue = <<>> /\ lockQueue = <<>>
  /\ \A t \in Tasks : pc[t] = "take" => value > 0
  /\ locked <=> \E t \in Tasks : pc[t] \in HasLock

\* A task releases once more only from the awaits after its release.
Releasing ==
  \A t \in Tasks :
    /\ releases[t] = 0 => pc[t] # "after"
    /\ releases[t] = 1 =>
         pc[t] \in {"after", "relock", "decrement", "reunlock", "post", "done"}
    /\ releases[t] = 2 => pc[t] = "done"

\* The semaphore and the counter, statement by statement.
Accounts ==
  /\ value + Cardinality(Served) = MaxWorkers + Cardinality(ReleasedTwice)
  /\ active <= Cardinality(Counted)
  /\ Cardinality(Counted) <= active + Cardinality(Subtracted)

Inv == Types /\ OneInside /\ NobodyQueues /\ Releasing /\ Accounts

-----------------------------------------------------------------------------

LEMMA FiniteTasks ==
  /\ \A S \in SUBSET Tasks : IsFiniteSet(S) /\ Cardinality(S) \in Nat
  /\ {Served, Counted, Subtracted, ReleasedTwice} \subseteq SUBSET Tasks
  /\ {Served', Counted', Subtracted', ReleasedTwice'} \subseteq SUBSET Tasks
<1>1. \A S \in SUBSET Tasks : IsFiniteSet(S) /\ Cardinality(S) \in Nat
  BY AsyncPoolAssumption, FS_Subset, FS_CardinalityType
<1>. QED
  BY <1>1 DEF Served, Counted, Subtracted, ReleasedTwice

\* What becomes of a head count when one task enters or leaves the set.
LEMMA HeadCount ==
  ASSUME NEW S \in SUBSET Tasks, NEW T \in SUBSET Tasks, NEW t \in Tasks,
         \A x \in Tasks \ {t} : x \in S <=> x \in T
  PROVE  /\ t \in T /\ t \notin S => Cardinality(T) = Cardinality(S) + 1
         /\ t \notin T /\ t \in S => Cardinality(T) = Cardinality(S) - 1
         /\ (t \in T <=> t \in S) => Cardinality(T) = Cardinality(S)
<1>1. IsFiniteSet(S)
  BY FiniteTasks
<1>2. ASSUME t \in T, t \notin S PROVE T = S \cup {t}
  BY <1>2
<1>3. ASSUME t \notin T, t \in S PROVE T = S \ {t}
  BY <1>3
<1>4. ASSUME t \in T <=> t \in S PROVE T = S
  BY <1>4
<1>. QED
  BY <1>1, <1>2, <1>3, <1>4, FS_AddElement, FS_RemoveElement

LEMMA InitInv == Init => Inv
<1> SUFFICES ASSUME Init PROVE Inv
  OBVIOUS
<1>. USE DEF Init
<1>1. Types
  <2>1. releases \in [Tasks -> 0 .. 2] /\ value \in Nat /\ active \in Nat
    BY AsyncPoolAssumption
  <2>2. pc \in [Tasks -> Labels] /\ running \in Tasks \cup {Loop}
    BY DEF Labels
  <2>3. /\ polling \in [Tasks -> BOOLEAN] /\ timedOut \in [Tasks -> BOOLEAN]
        /\ locked \in BOOLEAN
    OBVIOUS
  <2>. QED
    BY <2>1, <2>2, <2>3 DEF Types
<1>2. OneInside
  BY AsyncPoolAssumption DEF OneInside, Outside
<1>3. NobodyQueues
  BY DEF NobodyQueues, HasLock
<1>4. Served = {} /\ Counted = {} /\ Subtracted = {} /\ ReleasedTwice = {}
  BY DEF Served, Counted, Subtracted, ReleasedTwice, HasSlot, IsCounted
<1>5. Accounts
  BY <1>4, AsyncPoolAssumption, FS_EmptySet DEF Accounts
<1>6. Releasing
  BY DEF Releasing
<1>. QED
  BY <1>1, <1>2, <1>3, <1>5, <1>6 DEF Inv

\* The moves between statements: of which task, to where, and what becomes of
\* the loop, the semaphore, the counter and the lock.
Move(t, from, to, next) ==
  /\ pc[t] = from
  /\ pc' = [pc EXCEPT ![t] = to]
  /\ running' = next
  /\ UNCHANGED <<polling, semQueue, lockQueue>>

Moves(t) ==
  \* resumed, back from its work or from a call after it, or answered
  \/ /\ running = Loop
     /\ \E from \in {"idle", "sleep"} : Move(t, from, "check", t)
     /\ UNCHANGED <<releases, timedOut, value, active, locked>>
  \/ /\ running = Loop
     /\ \E from \in {"work", "after"} : Move(t, from, "relock", t)
     /\ UNCHANGED <<releases, timedOut, value, active, locked>>
  \/ /\ running = Loop
     /\ \E from \in {"sleep", "after"} : Move(t, from, "done", Loop)
     /\ UNCHANGED <<releases, timedOut, value, active, locked>>
  \* in acquire()
  \/ /\ running = t /\ value > 0
     /\ Move(t, "check", "take", t)
     /\ UNCHANGED <<releases, timedOut, value, active, locked>>
  \/ /\ running = t
     /\ Move(t, "check", "sleep", Loop)
     /\ UNCHANGED <<releases, timedOut, value, active, locked>>
  \/ /\ running = t /\ value > 0 /\ value' = value - 1
     /\ Move(t, "take", "lock", t)
     /\ UNCHANGED <<releases, timedOut, active, locked>>
  \/ /\ running = t /\ locked' = TRUE
     /\ \/ Move(t, "lock", "increment", t)
        \/ Move(t, "relock", "decrement", t)
     /\ UNCHANGED <<releases, timedOut, value, active>>
  \/ /\ running = t /\ active' = active + 1
     /\ Move(t, "increment", "unlock", t)
     /\ UNCHANGED <<releases, timedOut, value, locked>>
  \/ /\ running = t /\ locked' = FALSE
     /\ \/ Move(t, "unlock", "work", t)
        \/ Move(t, "reunlock", "post", t)
     /\ UNCHANGED <<releases, timedOut, value, active>>
  \/ /\ running = t
     /\ Move(t, "work", "work", Loop) \/ Move(t, "work", "relock", t)
     /\ UNCHANGED <<releases, timedOut, value, active, locked>>
  \* in release()
  \/ /\ running = t /\ active' = IF active > 0 THEN active - 1 ELSE 0
     /\ Move(t, "decrement", "reunlock", t)
     /\ UNCHANGED <<releases, timedOut, value, locked>>
  \/ /\ running = t /\ value' = value + 1
     /\ \E to \in NextAfterRelease(t) : Move(t, "post", to, Loop)
     /\ releases' = [releases EXCEPT ![t] = @ + 1]
     /\ UNCHANGED <<timedOut, active, locked>>

Waits ==
  /\ UNCHANGED <<running, pc, releases, poolVars>>
  /\ polling' \in [Tasks -> BOOLEAN] /\ timedOut' \in [Tasks -> BOOLEAN]

\* In a state of the invariant nothing else happens: no task has to queue.
LEMMA StepsAreMoves ==
  ASSUME Inv, NEW t \in Tasks,
         Resume(t) \/ Acquire(t) \/ Release(t) \/ Answer(t) \/ Timeout(t) \/ Cancelled(t)
  PROVE  Moves(t) \/ Waits
<1>. USE DEF Inv, Types, Moves, Move, Runs, GoesOn, Suspends, taskVars, poolVars
<1>1. CASE Resume(t)
  <2>1. running = Loop /\ t # running /\ pc[t] \in {"idle", "sleep", "work", "after"}
    BY <1>1, AsyncPoolAssumption DEF Resume, Resumption, OneInside, Outside
  <2>2. /\ pc[t] \in {"idle", "sleep"} => Resumption[pc[t]] = "check"
        /\ pc[t] \in {"work", "after"} => Resumption[pc[t]] = "relock"
    BY <2>1 DEF Resumption
  <2>. QED
    BY <1>1, <2>1, <2>2 DEF Resume
<1>2. CASE Check(t)
  BY <1>2 DEF Check, Waits
<1>3. CASE TakeSemaphore(t)
  BY <1>3 DEF TakeSemaphore, NobodyQueues
<1>4. ASSUME pc[t] \in {"lock", "relock"}, running = t PROVE ~locked
  BY <1>4 DEF NobodyQueues, OneInside, HasLock, Outside
<1>5. CASE TakeLock(t, "lock", "lockWait", "increment")
  BY <1>4, <1>5 DEF TakeLock, NobodyQueues
<1>6. CASE TakeLock(t, "relock", "relockWait", "decrement")
  BY <1>4, <1>6 DEF TakeLock, NobodyQueues
<1>7. CASE DropLock(t, "unlock", "work") \/ DropLock(t, "reunlock", "post")
  BY <1>7 DEF DropLock, NobodyQueues
<1>8. CASE Increment(t) \/ Decrement(t) \/ StartWork(t)
  BY <1>8 DEF Increment, Decrement, StartWork
<1>9. CASE Post(t)
  BY <1>9 DEF Post, NobodyQueues
<1>10. CASE Timeout(t)
  BY <1>10 DEF Timeout, Waits
<1>11. CASE Cancelled(t) \/ Answer(t)
  BY <1>11 DEF Cancelled, Answer
<1>. QED
  BY <1>1, <1>2, <1>3, <1>5, <1>6, <1>7, <1>8, <1>9, <1>10, <1>11 DEF Acquire, Release

LEMMA MovesInv ==
  ASSUME Inv, NEW t \in Tasks, Moves(t)
  PROVE  Inv'
<1>. USE DEF Inv
<1>1. PICK to \in Labels : pc' = [pc EXCEPT ![t] = to]
  BY DEF Moves, Move, Labels, NextAfterRelease
<1>2. running \in {t, Loop} /\ running' \in {t, Loop} /\ Loop \notin Tasks
  BY AsyncPoolAssumption DEF Moves, Move
<1>3. pc'[t] = to
  BY <1>1 DEF Types
<1>4. \A x \in Tasks \ {t} : pc'[x] = pc[x] /\ releases'[x] = releases[x]
  BY <1>1 DEF Moves, Types
<1>5. /\ value \in Nat /\ active \in Nat /\ MaxWorkers \in Nat
      /\ Cardinality(Served) \in Nat /\ Cardinality(ReleasedTwice) \in Nat
      /\ Cardinality(Counted) \in Nat /\ Cardinality(Subtracted) \in Nat
      /\ t \in Counted => Cardinality(Counted) > 0
  BY FiniteTasks, FS_EmptySet, AsyncPoolAssumption DEF Types
\* The semaphore is taken and given back, and the counter goes up and down,
\* just where the task enters and leaves the sets that stand for it.
<1>6. \/ /\ t \in Served' /\ t \notin Served /\ (t \in ReleasedTwice' <=> t \in ReleasedTwice)
         /\ value > 0 /\ value' = value - 1
      \/ /\ t \notin Served' /\ t \in Served /\ (t \in ReleasedTwice' <=> t \in ReleasedTwice)
         /\ value' = value + 1
      \/ /\ (t \in Served' <=> t \in Served) /\ t \in ReleasedTwice' /\ t \notin ReleasedTwice
         /\ value' = value + 1
      \/ /\ (t \in Served' <=> t \in Served) /\ (t \in ReleasedTwice' <=> t \in ReleasedTwice)
         /\ value' = value
  BY <1>3 DEF Moves, Move, NextAfterRelease, Served, ReleasedTwice, HasSlot, Types, Releasing
<1>7. \/ /\ t \in Counted' /\ t \notin Counted /\ (t \in Subtracted' <=> t \in Subtracted)
         /\ active' = active + 1
      \/ /\ t \notin Counted' /\ t \in Counted /\ (t \in Subtracted' <=> t \in Subtracted)
         /\ active' = IF active > 0 THEN active - 1 ELSE 0
      \/ /\ (t \in Counted' <=> t \in Counted) /\ t \in Subtracted' /\ t \notin Subtracted
         /\ active' = IF active > 0 THEN active - 1 ELSE 0
      \/ /\ (t \in Counted' <=> t \in Counted) /\ (t \in Subtracted' <=> t \in Subtracted)
         /\ active' = active
  BY <1>3 DEF Moves, Move, NextAfterRelease, Counted, Subtracted, IsCounted, Types, Releasing
<1>8. Accounts'
  <2>1. \A x \in Tasks \ {t} :
           /\ x \in Served <=> x \in Served'
           /\ x \in ReleasedTwice <=> x \in ReleasedTwice'
           /\ x \in Counted <=> x \in Counted'
           /\ x \in Subtracted <=> x \in Subtracted'
    BY <1>4 DEF Served, ReleasedTwice, Counted, Subtracted
  <2>2. /\ t \in Served' /\ t \notin Served => Cardinality(Served') = Cardinality(Served) + 1
        /\ t \notin Served' /\ t \in Served => Cardinality(Served') = Cardinality(Served) - 1
        /\ (t \in Served' <=> t \in Served) => Cardinality(Served') = Cardinality(Served)
    BY <2>1, FiniteTasks, HeadCount
  <2>3. /\ t \in ReleasedTwice' /\ t \notin ReleasedTwice =>
             Cardinality(ReleasedTwice') = Cardinality(ReleasedTwice) + 1
        /\ (t \in ReleasedTwice' <=> t \in ReleasedTwice) =>
             Cardinality(ReleasedTwice') = Cardinality(ReleasedTwice)
    BY <2>1, FiniteTasks, HeadCount
  <2>4. /\ t \in Counted' /\ t \notin Counted => Cardinality(Counted') = Cardinality(Counted) + 1
        /\ t \notin Counted' /\ t \in Counted => Cardinality(Counted') = Cardinality(Counted) - 1
        /\ (t \in Counted' <=> t \in Counted) => Cardinality(Counted') = Cardinality(Counted)
    BY <2>1, FiniteTasks, HeadCount
  <2>5. /\ t \in Subtracted' /\ t \notin Subtracted =>
             Cardinality(Subtracted') = Cardinality(Subtracted) + 1
        /\ (t \in Subtracted' <=> t \in Subtracted) =>
             Cardinality(Subtracted') = Cardinality(Subtracted)
    BY <2>1, FiniteTasks, HeadCount
  <2>6. value' + Cardinality(Served') = MaxWorkers + Cardinality(ReleasedTwice')
    BY <1>5, <1>6, <2>2, <2>3 DEF Accounts
  <2>7. /\ active' <= Cardinality(Counted')
        /\ Cardinality(Counted') <= active' + Cardinality(Subtracted')
    BY <1>5, <1>7, <2>4, <2>5 DEF Accounts
  <2>. QED
    BY <2>6, <2>7 DEF Accounts
<1>9. Types'
  <2>1. value' \in Nat /\ active' \in Nat
    BY <1>5, <1>6, <1>7
  <2>2. pc' \in [Tasks -> Labels] /\ running' \in Tasks \cup {Loop}
    BY <1>1, <1>2 DEF Types
  <2>3. locked' \in BOOLEAN /\ UNCHANGED <<polling, timedOut>>
    BY DEF Moves, Move, Types
  <2>4. releases' \in [Tasks -> 0 .. 2]
    BY DEF Moves, Move, Types, Releasing
  <2>. QED
    BY <2>1, <2>2, <2>3, <2>4 DEF Types
<1>10. OneInside'
  BY <1>1, <1>2 DEF Types, OneInside, Outside, Inside, Moves, Move, NextAfterRelease
<1>11. NobodyQueues'
  <2>1. \A x \in Tasks \ {t} : pc[x] \notin HasLock \cup {"take"} /\ pc'[x] = pc[x]
    BY <1>1, <1>2 DEF Types, OneInside, Outside, HasLock, Moves, Move
  <2>. QED
    BY <2>1, <1>3 DEF NobodyQueues, HasLock, Types, Moves, Move, NextAfterRelease
<1>12. Releasing'
  BY <1>3, <1>4 DEF Releasing, Types, Moves, Move, NextAfterRelease
<1>. QED
  BY <1>8, <1>9, <1>10, <1>11, <1>12

LEMMA NextInv == Inv /\ [Next]_vars => Inv'
<1> SUFFICES ASSUME Inv, [Next]_vars PROVE Inv'
  OBVIOUS
<1>1. CASE Waits \/ UNCHANGED vars
  <2>1. UNCHANGED <<running, pc, releases, poolVars>>
    BY <1>1 DEF Waits, vars, taskVars
  <2>2. UNCHANGED <<Served, Counted, Subtracted, ReleasedTwice>>
    BY <2>1 DEF Served, Counted, Subtracted, ReleasedTwice
  <2>3. Types'
    BY <1>1 DEF Inv, Types, Waits, vars, taskVars, poolVars
  <2>. QED
    BY <2>1, <2>2, <2>3 DEF Inv, OneInside, NobodyQueues, Releasing, Accounts, poolVars
<1>2. ASSUME NEW t \in Tasks, Moves(t) PROVE Inv'
  BY <1>2, MovesInv
<1>. QED
  BY <1>1, <1>2, StepsAreMoves DEF Next, AllDone

LEMMA InvHolds == Spec => []Inv
BY InitInv, NextInv, PTL DEF Spec

-----------------------------------------------------------------------------
(* What the invariant says *)

\* Every reachable state is well typed: the semaphore stays within the size of
\* the pool and a slot for each task, the counter within the number of tasks,
\* and no task releases more than twice.
THEOREM TypeOKHolds == Spec => []TypeOK
<1>1. Inv => TypeOK
  <2> SUFFICES ASSUME Inv PROVE TypeOK
    OBVIOUS
  <2>1. \A S \in SUBSET Tasks : Cardinality(S) \in Nat /\ Cardinality(S) <= Cardinality(Tasks)
    BY FiniteTasks, AsyncPoolAssumption, FS_Subset
  <2>2. /\ Cardinality(Tasks) \in Nat
        /\ Cardinality(Served) \in Nat /\ Cardinality(ReleasedTwice) \in 0 .. Cardinality(Tasks)
        /\ Cardinality(Counted) \in 0 .. Cardinality(Tasks)
    BY <2>1, FiniteTasks
  <2>3. value \in 0 .. MaxWorkers + Cardinality(Tasks) /\ active \in 0 .. Cardinality(Tasks)
    BY <2>2, AsyncPoolAssumption DEF Inv, Types, Accounts
  <2>. QED
    BY <2>3 DEF Inv, Types, NobodyQueues, TypeOK
<1>. QED
  BY <1>1, InvHolds, PTL

\* No task is ever suspended inside acquire() or release(), although both await
\* a semaphore and a lock.
THEOREM NeverSuspendsInsideHolds == Spec => []NeverSuspendsInside
<1>1. Inv => NeverSuspendsInside
  BY AsyncPoolAssumption DEF Inv, OneInside, Outside, NeverSuspendsInside
<1>. QED
  BY <1>1, InvHolds, PTL

\* Whenever another task could look, the semaphore and the counter are those of
\* the tasks at work, but for what was released twice, and the lock is free.
THEOREM ConsistentWhenSeenHolds == Spec => []ConsistentWhenSeen
<1>1. Inv => ConsistentWhenSeen
  <2> SUFFICES ASSUME Inv, running = Loop
               PROVE  /\ value + Cardinality(AtWork) = MaxWorkers + Cardinality(ReleasedTwice)
                      /\ active <= Cardinality(AtWork)
                      /\ Cardinality(AtWork) <= active + Cardinality(ReleasedTwice)
                      /\ ~locked
    BY DEF ConsistentWhenSeen
  <2>1. \A t \in Tasks : pc[t] \in Outside
    BY AsyncPoolAssumption DEF Inv, OneInside
  <2>2. Served = AtWork /\ Counted = AtWork
    BY <2>1 DEF Served, Counted, AtWork, Outside, HasSlot, IsCounted, Inv, Releasing, Types
  <2>3. Subtracted = ReleasedTwice
    BY <2>1 DEF Subtracted, ReleasedTwice, Outside
  <2>4. ~locked
    BY <2>1 DEF Inv, NobodyQueues, Outside, HasLock
  <2>. QED
    BY <2>2, <2>3, <2>4 DEF Inv, Accounts
<1>. QED
  BY <1>1, InvHolds, PTL

-----------------------------------------------------------------------------
(* The refinement of GrowingPool *)

\* A move is a step of the abstract pool or leaves its state as it is.
LEMMA MoveImplements ==
  ASSUME Inv, NEW t \in Tasks, Moves(t)
  PROVE  SlotUse!NextGrowing \/ UNCHANGED <<Place, Surplus>>
<1>1. PICK to \in Labels : pc' = [pc EXCEPT ![t] = to] /\ pc'[t] = to
  BY DEF Moves, Move, Labels, NextAfterRelease, Inv, Types
<1>2. \A x \in Tasks \ {t} : pc'[x] = pc[x] /\ releases'[x] = releases[x]
  BY <1>1 DEF Moves, Inv, Types
<1>3. Place' = [Place EXCEPT ![t] = Place'[t]]
  BY <1>2 DEF Place
<1>4. CASE UNCHANGED releases /\ Place'[t] = Place[t]
  <2>1. Place' = Place
    BY <1>3, <1>4 DEF Place
  <2>2. Surplus' = Surplus
    BY <1>4 DEF Surplus, ReleasedTwice
  <2>. QED
    BY <2>1, <2>2
<1>5. CASE pc[t] = "post" /\ releases[t] = 1
  <2>1. ReleasedTwice' = ReleasedTwice \cup {t} /\ t \notin ReleasedTwice
    BY <1>2, <1>5 DEF Moves, Move, Inv, Types, ReleasedTwice
  <2>2. Place[t] = "gone" /\ Place' = Place
    <3>1. Place[t] = "gone" /\ Place'[t] = "gone"
      BY <1>5 DEF Moves, Move, Inv, Types, Place
    <3>. QED
      BY <1>3, <3>1 DEF Place
  <2>3. Surplus' = [Surplus EXCEPT !["pool"] = @ \cup {t}] /\ t \notin Surplus["pool"]
    BY <2>1 DEF Surplus
  <2>4. SlotUse!Fail(t, "pool")
    BY <2>2, <2>3 DEF SlotUse!Fail
  <2>. QED
    BY <2>4 DEF SlotUse!NextGrowing
<1>6. CASE /\ Place'[t] = "gone" /\ Place[t] # "gone"
           /\ UNCHANGED ReleasedTwice
  BY <1>3, <1>6 DEF SlotUse!NextGrowing, SlotUse!Leave, Surplus
<1>7. CASE pc[t] = "take" /\ to = "lock" /\ value > 0 /\ UNCHANGED releases
  <2>1. Place[t] = "waiting" /\ Place' = [Place EXCEPT ![t] = "pool"]
    <3>1. releases[t] = 0 /\ releases'[t] = 0
      BY <1>7 DEF Inv, Releasing, Types
    <3>2. Place[t] = "waiting" /\ Place'[t] = "pool"
      BY <1>1, <1>7, <3>1 DEF Place
    <3>. QED
      BY <1>3, <3>2
  <2>2. SlotUse!Served("pool") = Served
    <3>1. \A x \in Tasks : pc[x] \in Outside \cup Inside
      BY DEF Inv, OneInside
    <3>2. \A x \in Tasks : Place[x] = "pool" <=> x \in Served
      BY <3>1 DEF Place, Outside, Inside, Served, HasSlot, Inv, Releasing, Types
    <3>. QED
      BY <3>2 DEF SlotUse!Served, Served
  <2>3. Cardinality(Served) < MaxWorkers + Cardinality(ReleasedTwice)
    BY <1>7, AsyncPoolAssumption, FiniteTasks DEF Inv, Types, Accounts
  <2>4. SlotUse!Cardinality(SlotUse!Served("pool")) < MaxWorkers + SlotUse!Cardinality(Surplus["pool"])
    <3>1. \A S : SlotUse!Cardinality(S) = Cardinality(S)
      BY DEF SlotUse!Cardinality, Cardinality
    <3>. QED
      BY <2>2, <2>3, <3>1 DEF Surplus
  <2>5. UNCHANGED Surplus
    BY <1>7 DEF Surplus, ReleasedTwice
  <2>6. SlotUse!TakeAny(t, "pool")
    BY <2>1, <2>4, <2>5 DEF SlotUse!TakeAny
  <2>. QED
    BY <2>6 DEF SlotUse!NextGrowing
<1>8. CASE pc[t] = "post" /\ releases[t] = 0
  <2>1. UNCHANGED ReleasedTwice
    BY <1>2, <1>8 DEF Moves, Move, Inv, Types, ReleasedTwice
  <2>2. Place'[t] = "gone" /\ Place[t] # "gone"
    BY <1>8 DEF Moves, Move, Inv, Types, Place
  <2>. QED
    BY <1>6, <2>1, <2>2
<1>9. CASE pc[t] # "post"
  <2>1. UNCHANGED releases
    BY <1>9 DEF Moves, Move
  <2>2. UNCHANGED ReleasedTwice
    BY <2>1 DEF ReleasedTwice
  <2>3. \/ pc[t] = "take" /\ to = "lock" /\ value > 0
        \/ Place'[t] = Place[t]
        \/ Place'[t] = "gone" /\ Place[t] # "gone"
    <3>1. \/ pc[t] \in {"idle", "sleep"} /\ to = "check"
          \/ pc[t] \in {"work", "after"} /\ to = "relock"
          \/ pc[t] \in {"sleep", "after"} /\ to = "done"
          \/ pc[t] = "check" /\ to \in {"take", "sleep"}
          \/ pc[t] = "take" /\ to = "lock" /\ value > 0
          \/ /\ pc[t] \in {"lock", "increment", "unlock", "work", "relock", "decrement", "reunlock"}
             /\ to \in {"increment", "unlock", "work", "decrement", "reunlock", "post"}
      BY <1>1, <1>9 DEF Moves, Move, Inv, Types
    <3>2. \/ releases[t] = 0 /\ releases'[t] = 0 /\ pc[t] # "after"
          \/ releases[t] > 0 /\ releases'[t] > 0
      BY <2>1 DEF Inv, Releasing, Types
    <3>. QED
      BY <1>1, <3>1, <3>2 DEF Place
  <2>. QED
    BY <1>4, <1>6, <1>7, <2>1, <2>2, <2>3
<1>. QED
  BY <1>5, <1>8, <1>9 DEF Inv, Types, Releasing

\* The semaphore, the lock, the counter and the polling implement the abstract
\* pool: every behaviour starts as it does, and every step is one of its steps
\* or changes nothing there.
THEOREM ImplementsGrowingPoolSafely == Spec => SlotUse!SpecGrowing
<1>1. Init => SlotUse!InitGrowing
  BY DEF Init, SlotUse!InitGrowing, SlotUse!Init, Place, Surplus, ReleasedTwice
<1>2. Inv /\ [Next]_vars => [SlotUse!NextGrowing]_<<Place, Surplus>>
  <2> SUFFICES ASSUME Inv, [Next]_vars PROVE SlotUse!NextGrowing \/ UNCHANGED <<Place, Surplus>>
    OBVIOUS
  <2>1. CASE Waits \/ UNCHANGED vars
    BY <2>1 DEF Waits, vars, taskVars, Place, Surplus, ReleasedTwice
  <2>. QED
    BY <2>1, StepsAreMoves, MoveImplements DEF Next, AllDone
<1>. QED
  BY <1>1, <1>2, InvHolds, PTL DEF Spec, SlotUse!SpecGrowing
=============================================================================
