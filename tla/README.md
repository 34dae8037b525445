# Verification of the Ira backend

TLA+ models of the chat backend in `src/app` and of the seeder beside it, checked with TLC on small
instances, and theorems about them checked with TLAPS. File and line numbers
below are those of `src/app` unless another directory is named.

## 1. The system

One Python 3.13 process runs FastAPI on one asyncio event loop. A request to
`POST /chat` is one task; it talks to MongoDB (users, sessions, messages,
analytics) and Redis (rate limits, health) and shares three worker pools with
the other requests. Nothing is shared between processes but the two databases.

| Component | Source | State it keeps | Operations | Hard behaviour |
|---|---|---|---|---|
| Worker pools | `balancer/pools.py` | per pool a semaphore, a lock, an active counter, metrics | `acquire`, `release`, read-only properties | check-then-acquire across awaits, clamped counter beside an unbounded semaphore |
| Tier router | `balancer/router.py` | none | `route` | decides on counters that change while the request waits; random shedding |
| Message processor | `workers/processor.py`, `db/queries.py` | none of its own; the task's locals | `process` | releases on many paths, a handler around all of them, two-second wait, four separate writes |
| Rate limiter | `ratelimit/limiter.py` | per user two sorted sets and a flag in Redis | `check_rate_limit` | two transactions with an await between them, timestamps taken early, key expiry |
| Analytics pipeline | `analytics/pipeline.py` | bounded queue, flush task, drop counter | `track`, `_flush_loop`, `start_pipeline`, `stop_pipeline` | cancellation of a task that holds a batch, two consumers, swallowed failures |
| Health tracker | `balancer/health.py` | 60 snapshots per pool | sampling task, `trend` | samples taken with awaits in between, swallowed failures, cancellation |
| Safety filter | `safety/` | none | `check_safety` | order of the categories, a confidence that starts at the threshold |
| Chat API | `api/` | none | `/chat`, read-only endpoints | what a client may conclude from a status |
| Lifespan, connections | `main.py`, `db/mongo.py`, `db/redis.py` | two cached clients | start, stop | two tasks to stop before the connections they use are closed |
| Reporting queries | `db/queries.py` | none | six queries | identifiers that are ObjectIds in one collection and strings in the others, order of the messages |
| Seeder | `scripts/seed.py` | the four collections | `seed` | killed between two stages, run again |

How they interact: `/chat` awaits `MessageProcessor.process`, which fetches the
user, calls `TierRouter.route` (synchronous; reads the pools' counters), takes
a slot with `WorkerPool.acquire` or polls for one under `asyncio.wait_for`,
calls the safety filter (synchronous), awaits `check_rate_limit`, finds or
creates the session, stores the exchange and gives the slot back. Everything
calls `analytics.track`, which never blocks. The lifespan starts the flush task
before the first request and stops it after the last one.

What makes each of them correct:

- pools: no slot is lost or invented, the counter that routing reads is the
  number of slots in use, `acquire` and `release` are atomic for other requests;
- router: nobody waits for the priority pool, each tier stays in its pools, a
  worker believed available is available;
- processor: every request is answered and gives its slot back on every path;
  what is stored matches what the client was told, whichever write fails;
- limiter: how far concurrency can exceed the limit, no rejection below it,
  one message per period, no silence without a message;
- pipeline: events are in one place, in order, counted when dropped; the
  shutdown ends and leaves nothing in the queue;
- health tracker and lifespan: the pools are sampled side by side and for ever,
  the trend goes the way the scores go, no task uses a closed connection;
- chat API: an answer other than 200 means that nothing was stored, an answer
  with a session that the whole exchange was; the analytics tell every outcome;
- safety filter: a request whose text matches a pattern is not answered and
  spends nothing, wherever it came through the filter; one without a match is not blocked;
- seeder and queries: a run that completes leaves what it promises, a run that
  does not leaves no dangling references; a context is the newest messages in
  order, read in two round trips or joined in one; the reports add up.

The hazards behind these properties are in `PROJECT.json`, each at its line.

## 2. Modules

| Module | Models | How its state and actions correspond |
|---|---|---|
| `WorkerPools` | `pools.py` | `value` is `_semaphore._value`, `active` is `_active_count`, `total`/`errors` are the metrics; `Acquire`, `Release`, `AcquireAndRelease` are conjuncts of the processor's actions |
| `TierRouter` | `router.py` | `Route(tier)` is the set of decisions `route()` may return in the present state |
| `MessageProcessor` | `processor.py`, the queries it uses | `pc[r]` is the await at which request `r` is suspended, `path[r]` the return it is bound for, `text[r]` what it carries; `events` are the calls of `track()`; an action is what the task does from one suspension to the next. Extends the two above and `SafetyFilter` |
| `SlotPool` | abstract | what the pools promise: a client takes a slot it may use while there is one, leaves once, does not stay forever |
| `GrowingPool` | abstract | the same when clients may fail after they left: each of them adds at most one slot to a pool of its own, for good |
| `AsyncPool` | one pool under the event loop | one action per asyncio primitive (semaphore, lock, sleep, the timer of `wait_for`); a task may go on after `release()` and release once more, as the handler of `processor.py:141` does. Shows that `acquire` and `release` never suspend, which is what lets `WorkerPools` take them as single steps |
| `RateLimiter` | `limiter.py` for one user | `zmin`/`zday` are the scores of the sorted sets, `expMin`/`expDay`/`notifiedUntil` the expiry times; one action per call to Redis, `Tick` for time |
| `AnalyticsPipeline` | `pipeline.py` | `queue`, `dropCount` as in the code; `batch[t]` is what task `t`'s pending insert was given; histories `accepted`, `refused`, `lost`, `abandoned`. Actions without a specification of their own |
| `HealthTracker` | `health.py` | `history` as in the code, with a snapshot reduced to its health score; `turn` the pool whose snapshot is being published; `Trend(h)` is `trend()` of a history. Actions without a specification of their own |
| `Lifespan` | `main.py`, `mongo.py`, `redis.py` | composes the two above with `open`, the connections: `Connect`, `Ready` or `StartupFails`, then `StopTracker`, the drain, `CloseRedis`, `CloseMongo` |
| `SafetyFilter` | `filter.py` | a text is its length and, per pattern, the length of the first match; `CheckSafety(text)` is `check_safety()` in exact tenths |
| `ChatApi` | `routes.py` | `Status(r)` and `SessionIdOf(r)` are what the client of request `r` is answered, as functions of the processor's state |
| `Seeder` | `seed.py` | `stage` and `done` say how far a run is, `db` is what the collections hold, `known` the sessions it collected for the messages |
| `Queries` | `queries.py` | each query as a function of `db`; one that returns any of several documents is the set of them |
| `MCMessageProcessor`, `MCRateLimiter`, `MCLifespan`, `MCQueries` | | instances for TLC |
| `MessageProcessorProofs`, `ProcessorPoolProofs`, `ProcessorStoreProofs`, `RateLimiterProofs`, `LifespanProofs`, `AsyncPoolProofs`, `SeederProofs` | | theorems |
| `Induction` | | the lemmas about naturals and finite sets that the proofs share |

Operators whose comment begins with "Mutant" are wrong on purpose: each replaces
the definition below it to show that a property notices the mistake. No other
definition uses them.

Modelling decisions a reader should know of:

- A call to a database is one step of the model, at its return: what the call
  did and what the task does next happen together. Two calls of two tasks are
  ordered by their effects, which is all another task can see.
- With `Faulty`, a call may raise at any of these awaits, applied or not
  (`MaybeApplied`, `Raise`). `CancelledError` is not an `Exception`: the handler
  of `processor.py:138` does not see it. The server does not cancel the handler
  of a client that went away, so no request is cancelled in the model.
- In `MessageProcessor` the limiter's verdict is a free choice, so its properties
  hold whatever it decides; `RateLimiter` has the limiter itself. The filter's
  verdict is `CheckSafety` of the request's text, which is any of `TextsOf`, chosen when
  the request arrives.
- `events` of `MessageProcessor` are the calls of `track()`, as a set. Whether the queue
  takes an event or drops it is the subject of `AnalyticsPipeline`.
- A blocked request takes its slot and gives it back in one step of the processor,
  since `check_safety` and `release` do not suspend; `AsyncPool` has the steps in between.
- `find_one` without a sort may return any of several active sessions.
- The free tier's draw is a free choice between the outcomes the floats allow;
  at exactly full the computed probability is 0.9999999999999998, so passing is
  possible there (`MayPass`).
- In `RateLimiter` no two checks of a user read the same time: `time.time()` has
  enough digits, and members of the sorted sets are named by it. The clock is
  the server's and Redis's alike.
- An insert of analytics events is unordered, so that a failed one may have
  stored any part of the batch. The same holds for the seeder's batches.
- A shutdown that cancels the health tracker sees `CancelledError` at whichever
  await the task is; the `except Exception` of `health.py:80` does not catch it.
- Confidences (`SafetyFilter`) and trends (`HealthTracker`) are exact rationals,
  scaled to integers. In the code they are floats: 0.7 plus something that is
  not negative is not below 0.7 there either, while a trend within rounding of
  0.05 may fall on either side of it.
- In `Seeder` an ObjectId and its string are different values, since comparing
  the two is what `Queries` is about. A run has the database for itself.
- Messages of equal time are read in the order of their identifiers (`Newer` in
  `Queries`), one of the orders the server may choose. A sort with a limit is
  modelled by ranks: the i-th result is the message that i - 1 are newer than.

## 3. Runs

| Run | Instance | Checks |
|---|---|---|
| `processor_pools` | 2 enterprise requests, 1 premium, pools of 1, 2 texts, failures | `TypeOK`, `SlotAccounting`, `CountersAgree`, `AvailableIsAcquirable`, `WaitsOnlyForFallback`, `MetricsMatchEvents`, `DegradesAsPromised` |
| `processor_store` | 3 requests of a free user, 1 of an unknown one, 2 texts, failures | `ExchangesWellFormed`, `CountWithinMessages`, `AnswerMatchesStore`, `EventsTellOutcome`, `MatchesAreBlocked` |
| `processor_progress` | as the first, no failures, fairness | `Answered`, `UsesSlotsAsPromised` |
| `limiter` | 2 checks, limits 1 and 2, windows 5 and 7, failures, time to 9 | `TypeOK`, `OverAdmissionBounded`, `WindowBounded`, `RejectionJustified`, `OneNoticePerPeriod`, `SilentAfterNotice` |
| `lifespan` | 3 events, queue 2, batches of 2, 2 pools, 2 scores further apart than the threshold, window 3 with halves of 1, failures, fairness | `InOnePlace`, `OneInserter`, `StopDrains`, `RoundsAligned`, `TrendFollowsScores`, `UsesOpenConnections`, `Flushed`, `StopEnds`, `KeepsSampling` |
| `seeded_data` | 4 users of 2 kinds, 2 sessions, 4 messages at 2 times, batches of 2, 2 runs, crashes | `TypeOK`, `SeededIsComplete`, `NothingDangles`, `ContextIsNewest`, `ReportsAddUp` |
| `async_pool` | 3 tasks, 1 worker, second releases, fairness | `NeverSuspendsInside`, `ConsistentWhenSeen`, `EveryoneLeaves`, `ImplementsGrowingPool` |

Bounds. A pool of one worker is full with one request; two requests of one tier
and one of the next then meet on the fallback pool and one must wait, which is
every situation a slot can be in (held, given back, waited for, given back
twice). The invariants about pools are proved for all sizes. Three requests of
one user are enough for two sessions and a request that finds both. With two
checks the overshoot of the limiter shows its law (one per concurrent check
beyond the first, and one more per delayed check); the clock runs long enough
for both windows, the minute key and the flag to expire. A tier without a daily
limit is covered by the proofs only, which leave `LimitDay` open. Three events
fill the queue and overflow it, or make a batch whose insert stores a part of it and another that waits. Two pools are enough for a
round of samples to be cut in its middle. Their windows hold every content that two scores
can give three samples, one more than the two halves of the trend need, so that the window moves and a
half taken one second off holds another sample; longer halves, sums and scores nearer than
the threshold are the theorem's. Two texts are enough for the processor's requests: one without a match, and one whose match is
a tenth of it, in the second category; `NeverBelowThreshold` covers the others. Two runs of the seeder are one that is killed and
one that finds what it left; two batches per stage let the kill fall between
them; four messages of two sessions at two times have ties and exceed the
message limit of 2. `Limit = 1` lets the seeder collect fewer sessions than
there are, as 100,000 of a million are. No state constraint is used; `MaxClock` bounds
time in the guard of `Tick`, and each request runs once. Symmetry is used only
in runs that check no liveness; `DegradesAsPromised`, a property of steps, treats the
requests alike.

The `TypeOK` of `Lifespan` (which combines `PipelineTypeOK` and `TrackerTypeOK`)
and of `AsyncPool` are theorems; no run spends an invariant on them, since the
properties beside them fail, or TLC stops, when a type is wrong.

Fairness. `MessageProcessor` has weak fairness of each request's `Step`: a
suspended task is resumed when its call, sleep or timer ends, and nothing else
is assumed, in particular not that a waiting request's poll ever finds a slot
(its timeout is then the enabled step). Submitting is not fair. `AsyncPool` has
weak fairness for a task that runs and strong fairness for resuming it and for
its timer, because the loop is busy with other tasks in between; asyncio runs
its ready queue in order. `Lifespan` has weak fairness of the flush task, of the
monitor while the server is up, and of the shutdown once it began, and none for
startup, handlers or the operator who stops the server. `Seeder` assumes none:
nobody promises that the job is started.

Runs that refute what the documentation says (`findings` in `PROJECT.json`):

| Run | Claim | What happens |
|---|---|---|
| `overfull_pool` | "General pool (50 workers)", `src/README.md:79` | a blocked or rate-limited request released its slot before storing the exchange; when that raises, `processor.py:141` releases again, and the pool has a slot too many for good |
| `paid_shed` | "never shed", `src/README.md:78`, `router.py:5-6` | any tier is shed after waiting two seconds (`processor.py:127-134`) |
| `second_session` | "New session created when no active session exists", `src/README.md:104` | two concurrent first messages create two sessions (`processor.py:271`, `286`) |
| `pipeline_loss` | "Graceful shutdown drains the entire queue before exit", `src/README.md:100` | the batch whose insert is in flight is cancelled with the flush task |
| `half_seeded` | "Check if already seeded", `src/scripts/seed.py:181` | a run killed after its first stage leaves all users; every later run counts the users only and skips |

More disagreements follow from the exact form of properties that hold:

- `OverAdmissionBounded` is tight: counting (`limiter.py:65`) and recording (`limiter.py:99`) are
  two transactions, and each concurrent check beyond the first can let one request
  more through, although `src/README.md:86` says "Atomic pipeline operations for
  correctness under concurrency".
- `OneNoticePerPeriod` is about consecutive requests: two concurrent rejections
  both find the flag unset and both send the message, although `src/README.md:87` promises
  one per five minutes.
- `SilentAfterNotice` allows silence after a SETEX that was applied and raised:
  the user was then never told.
- `MatchesAreBlocked` holds for a match of a tenth of the text: the confidence of a match starts at
  the threshold (`filter.py:99`) and decides nothing, although
  `src/README.md:94` says "Confidence scoring prevents over-blocking on partial
  matches".
- `SessionWithMessages` (`Queries`) has neither conversion that `get_active_session_with_context`
  makes: with the string that the signature of `get_session_with_messages` asks for
  it finds no session (`queries.py:83`), with an ObjectId no messages (`queries.py:88`),
  although its docstring says "Fetch a session with its most recent messages"
  (`queries.py:76`). Nothing in `app/` calls it. This follows from the types of the identifiers alone,
  whatever the database, and is left to the reader of the definition.
- `EventsTellOutcome` excepts requests that were shed after waiting: they leave no
  `load_shed` event (`processor.py:128`).
- `aggregate_tier_activity` counts recently active users; its docstring
  (`queries.py:131`) says active sessions and average message counts.
- `Status` (`ChatApi`) is 200 for a request that meets a limit for the first time
  (`routes.py:59`), although `src/README.md:203` shows that answer as "429 Rate
  Limited - first time".
- No code ends a session, so that "30-minute inactivity gap" (`src/README.md:102`)
  describes nothing that could be modelled.

## 4. Proofs

Every property that a passing run checks, liveness apart, is also a theorem, for every value of
the constants that satisfies these assumptions:

| Theorems about | hold for | from |
|---|---|---|
| requests, pools, store, answers | any finite set of requests, any users, tiers and failures, pools of at least one worker | `MaxWorkersAssumption`, `RequestsAssumption` |
| the filter | any patterns and texts, beside any requests and failures | `FilterAssumption` |
| the limiter | any finite number of checks, any limits and windows, keys that outlive their windows; a tier without a day limit too | `LimiterAssumption` |
| the application's lifespan | any events, queue, batches, window and trend lengths, at least one pool, no pool listed twice | `PipelineAssumption`, `TrackerAssumption` |
| one pool's primitives | any finite set of tasks, any number of workers | `AsyncPoolAssumption` |
| the seeder and the queries | any numbers of documents that the batch size divides, any contents, any number of runs, any limit and cutoff | `SeederAssumption`, `QueriesAssumption` |

`MessageProcessorProofs`. `TypeCorrect`: the type invariant is
not inductive by itself: `Release(pool[r], ..)` needs a pool, and `WriteMessage`
a session. `IInv` adds `Control`, which says which labels imply that a pool or
a session is there, and which path leads to which label. `Init`
implies it and each action preserves it, one step per action.

`ProcessorPoolProofs`: `SlotAccounting`, `CountersAgree`, `AvailableIsAcquirable`,
`WaitsOnlyForFallback`, and that requests stay in pools of their tier (`PoolsByTier`,
which `DegradesAsPromised` contains for the served ones). The clamp at 0 makes the
counter wrong after a double release, so `AvailableIsAcquirable` cannot be
proved from `CountersAgree`; the lemma `PoolUse` follows the changes of the sets
of holders and of twice-released requests together with the semaphore and
bounds the counter from below by the number of holders.
`UsesSlotsSafely`: without database failures, initial states and steps of the
processor are initial states and steps (or stutters) of `SlotPool` under the
mapping `Place`: the pools never serve more requests than they have workers.
`DegradesAsPromisedHolds` has no such hypothesis: with any failures the processor
implements `GrowingPool`, so that a pool serves at most one request more for each
that failed after it gave its slot back. It needs besides that requests are in
pools of their tier from their routing to their end (`Entitled`), and that only the
handler's release of a request that is no longer served is a second one
(`SurplusKept`).

`ProcessorStoreProofs`: what requests leave behind. None of its six invariants
is inductive by itself, because each relates what is there once requests have ended, and a
step is taken by one that has not. `Progress(r)` and `MessagesPlaced` say, label by label and
path by path, how much of `r`'s exchange is stored; they imply
`ExchangesWellFormed` and `AnswerMatchesStore`. `EventsInv` gives the events that
`r` has tracked so far, for `EventsTellOutcome`. `CountInv` bounds a session's count
from both sides by the messages of the requests that are past the update
(`PastCount`) and of those that surely made it (`Counted`), since a failed update may
have been applied. `MetricsMatchEvents` is
inductive beside `EventsInv`, by the two kinds of steps `Unmetered` and `Metered`.
`StepsFrameOthers`, that a step changes only its own request's row, carries all of them over to the
other requests. `MatchesAreBlockedHolds` rests on two facts about the filter: the first match
exists because the indices are naturals (`FirstHitHits` from `LeastExists`), and no match is worth less than the
threshold (`NeverBelowThreshold`); so the verdict is whether there is a match
(`MatchesDecide`). `FilterInv` carries it from the step that screens a request, at its
routing or after its wait, to its end: one whose text matches leaves the filter on the blocked
path, if it gets there at all, and no other is ever on that path; its events follow from
`EventsTellOutcome`'s invariant.

`RateLimiterProofs`. `TypesHold`: a check that is under way has a timestamp,
which the type invariant does not say and `Record` needs (`TypeInv`).
`OverAdmissionBoundedHolds`: for each of the two windows there are three kinds of
steps (`ThreeKindsOfSteps`): one adds nothing, one turns an admitted check into a
score and keeps the sum, one admits a check into a window that it just counted,
where the sum starts afresh from less than the limit plus every check.
`WindowBoundedHolds`: while a stretch of time lasts, all that was recorded in it is
still in the minute window (`RecentKept`: the key outlives what it holds), which
`OverAdmissionBounded` bounds; once it is over, no check gets a timestamp in it
any more and each one under way can add one record (`Stretches`).
`OneNoticePerPeriodHolds`, `SilentAfterNoticeHolds`: `NoticeInv` ties the flag to the
newest notice, and says that a check on its way to set the flag found it expired.
`RejectionsJustified`: a window holds nothing that was not recorded (`Kept`), and
counting more can only exceed more.

`LifespanProofs`. `Phases` says, for each state of the server, which tasks exist,
what they may be doing and which connections are open; with it
`UsesOpenConnections`, `OneInserter` and `StopDrains` follow from `Batches` (only a
task that is inserting holds a batch). `QueueIsNewest` and `Places` follow every
event from the queue into exactly one of the batches, the store, the lost or the
abandoned; counting these disjoint sets gives `InOnePlace`. `Rounds` orders the
histories' lengths around `turn`, for `RoundsAligned`. `TrendFitsEveryHistory` is
about `trend()`: for every sequence of scores, whatever its length, the size of the halves and
the threshold. Its sums are a recursive function (`PartialSums`); that a gap of d between the
halves, score by score, is one of d times their length between the sums (`GapIsGain`) is proved with `UpTo` of `Induction`.
`TrendFollowsScoresHolds` applies it to what a run has sampled, which the type invariant
bounds.

`AsyncPoolProofs`. That `acquire` and `release` never suspend rests on itself: a task
tries the semaphore only after it saw a free slot and the lock only when nobody
is between taking and dropping it, because whoever was there did not suspend.
`Inv` closes this circle: one task at most is inside (`OneInside`), both queues are
empty (`NobodyQueues`), a task has released as often as where it is says (`Releasing`), and
semaphore and counter differ from the tasks they stand for by exactly what the task
inside is doing and by the second releases (`Accounts`). Every step is one of a few moves
(`StepsAreMoves`), which keep `Inv` and are steps or stutters of `GrowingPool`
(`MoveImplements`): `ImplementsGrowingPoolSafely` is the safety part of
`ImplementsGrowingPool`. No run checks the theorem's formula by itself: the run checks it with
fairness.

`SeederProofs`. `Stages` says how much each collection holds at each stage: all of
those before it, the batches that are done of its own, nothing of those after it,
since the drop came first. `SeededIsComplete` follows; `NothingDangles` is carried
along, since the users are dropped first and nothing is inserted before what it
refers to. The
queries rest on `OneEach`, that no two documents share an id: so the ranks of a
session's messages are a permutation of 0 to their number minus one (`RanksAreOrder`),
which gives `ContextIsNewest` (`RecentIsContext`, for both queries), and the rows of a report do not overlap, so that
their counts add up to that of the union (`CountsAddUp`, one tier at a time).

`Induction` counts the first n numbers and has the three lemmas with which induction over data is done here: a
set of naturals that is not empty has a least element; a set that contains 0, and
each number up to n with its predecessor, contains all of them; and a set that contains the
empty set, and every part of a finite set S with some part one element smaller,
contains S. They are about sets, which can be
cited, where the library's theorems are about predicates, which cannot.

Model-checked only: all liveness (`Answered`, `EveryoneLeaves`, `Flushed`, `StopEnds`,
`KeepsSampling`, and the fairness part of `UsesSlotsAsPromised` and
`ImplementsGrowingPool`), which is out of the prover's reach. `UsesSlotsSafely` needs the
absence of failures because with them the claim is false (`overfull_pool`).

## 5. Not modelled

Latencies and health scores (the trend takes them as given; nothing acts on
them); what Redis holds of the pools' health, which nothing reads; the text of
messages and the regular expressions of the safety filter; `last_active_at` of
users; the endpoints that only read; the index definitions;
`ratelimit/middleware.py`, which is not installed; logging; the benchmark, which
only measures; `explain_query`. The seeder's model has the database for itself,
although `src/docker-compose.yml` starts it together with the application. A crash of the
process loses the queue and the pools, as `src/README.md:114` says; on disk it
leaves what a failure at the same await leaves, which `Faulty` covers.

## 6. Plan

Done, in this order: pools, router and processor with the slot accounting and
its proof; the store and progress properties; `SlotPool` and the refinement;
`AsyncPool`; `RateLimiter`; `AnalyticsPipeline`; `HealthTracker` and `Lifespan`;
`Seeder` and `Queries`; `SafetyFilter` and `ChatApi`; the proofs of all the invariants
and of the safety parts of the refinements.

Next, by importance:

1. The seeder beside a serving application.
2. Larger pools in a run, at which the router's 60% and 80% thresholds are apart,
   with free and premium requests together.
3. `last_active_at` of users, whose updates may be applied out of order.
