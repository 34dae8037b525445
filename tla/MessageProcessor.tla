--------------------------- MODULE MessageProcessor ---------------------------
(***************************************************************************)
(* MessageProcessor.process of app/workers/processor.py: what one server   *)
(* process does with the chat requests it is handling at the same time.    *)
(*                                                                         *)
(* A request is one asyncio task.  An action is what the task does from    *)
(* one await that suspends to the next; awaits that never suspend (those   *)
(* on the pools, see AsyncPool) split nothing.  pc[r] names the await at   *)
(* which request r is suspended.                                           *)
(*                                                                         *)
(* A request carries a text, which the safety filter judges.  The rate     *)
(* limiter's verdict is a free choice here.  Faulty says whether a call to *)
(* MongoDB or Redis may raise; a write that raises may or may not have     *)
(* been applied.                                                           *)
(***************************************************************************)
EXTENDS TierRouter, SafetyFilter

CONSTANTS
  Requests,     \* chat requests, one task each
  Users,        \* user ids that requests may carry
  KnownUsers,   \* those with a document in db.users
  UserOf,       \* request -> user id
  TierOf,       \* known user -> tier
  TextsOf,      \* request -> the texts that it may carry
  Faulty        \* may calls to the two databases raise?

ASSUME RequestsAssumption ==
  /\ IsFiniteSet(Requests)
  /\ Requests \cap Users = {}
  /\ KnownUsers \subseteq Users
  /\ UserOf \in [Requests -> Users]
  /\ TierOf \in [KnownUsers -> Tiers]
  /\ TextsOf \in [Requests -> SUBSET Texts]
  /\ Faulty \in BOOLEAN

VARIABLES
  pc,            \* request -> the await it is suspended at
  path,          \* request -> which return of _process_with_worker it is bound for
  pool,          \* request -> the pool it was routed to
  session,       \* request -> the session it works in
  resp,          \* request -> the kind of its response
  text,          \* request -> the text that it carries
  sessions,      \* db.sessions: the active sessions
  messages,      \* db.messages
  messageCount,  \* session -> its message_count
  events         \* the calls of analytics.track(), by request

taskVars  == <<pc, path, pool, session, resp, text>>
storeVars == <<sessions, messages, messageCount>>
vars      == <<taskVars, storeVars, events, poolVars>>

\* A session is named for what made it: a request that inserted it, or, for
\* one that was there before the server started, its user.
SessionIds == Requests \cup Users
Owner(s)   == IF s \in Users THEN s ELSE UserOf[s]

None == "none"

Labels == {"idle", "fetch", "wait", "limit", "notify", "record", "find", "insert",
           "context", "storeUser", "llm", "storeReply", "count", "touch", "done"}
Paths  == {"normal", "blocked", "first", "silent"}
Responses == {None, "ok", "unknown", "shed", "confused", "blocked", "limited",
              "silent", "http500"}
EventTypes == {"pool_routed", "load_shed", "safety_blocked", "rate_limited",
               "message_processed", "error"}

TypeOK ==
  /\ PoolsTypeOK
  /\ pc \in [Requests -> Labels]
  /\ path \in [Requests -> Paths]
  /\ pool \in [Requests -> Pools \cup {None}]
  /\ session \in [Requests -> SessionIds \cup {None}]
  /\ resp \in [Requests -> Responses]
  /\ text \in [Requests -> Texts \cup {NoText}]
  /\ sessions \subseteq SessionIds
  /\ messages \subseteq [session : SessionIds, request : Requests, role : {"user", "assistant"}]
  /\ messageCount \in [SessionIds -> Nat]
  /\ events \subseteq Requests \X EventTypes

Init ==
  /\ PoolsInit
  /\ pc = [r \in Requests |-> "idle"]
  /\ path = [r \in Requests |-> "normal"]
  /\ pool = [r \in Requests |-> None]
  /\ session = [r \in Requests |-> None]
  /\ resp = [r \in Requests |-> None]
  /\ text = [r \in Requests |-> NoText]
  /\ sessions \in SUBSET KnownUsers
  /\ messages = {}
  /\ messageCount = [s \in SessionIds |-> 0]
  /\ events = {}

-----------------------------------------------------------------------------
(* Building blocks *)

At(r, label)   == pc[r] = label
Goto(r, label) == pc' = [pc EXCEPT ![r] = label]

\* A call of track(): whether the queue has room for the event is the business
\* of AnalyticsPipeline.
Track(r, type) == events' = events \cup {<<r, type>>}

Return(r, kind) ==
  /\ Goto(r, "done")
  /\ resp' = [resp EXCEPT ![r] = kind]

WriteSession(r) ==
  /\ sessions' = sessions \cup {r}
  /\ UNCHANGED <<messages, messageCount>>

WriteMessage(r, sender) ==
  /\ messages' = messages \cup {[session |-> session[r], request |-> r, role |-> sender]}
  /\ UNCHANGED <<sessions, messageCount>>

\* Mutant: the count is recomputed from the messages instead of incremented.
WriteCountRecounts(r) ==
  /\ messageCount' = [messageCount EXCEPT ![session[r]] =
                        Cardinality({m \in messages : m.session = session[r]})]
  /\ UNCHANGED <<sessions, messages>>

WriteCount(r) ==
  /\ messageCount' = [messageCount EXCEPT ![session[r]] = @ + 2]
  /\ UNCHANGED <<sessions, messages>>

-----------------------------------------------------------------------------
(* Admission: fetch the user, route, take a slot or wait for one *)

Submit(r) ==
  /\ At(r, "idle")
  /\ Goto(r, "fetch")
  /\ \E t \in TextsOf[r] : text' = [text EXCEPT ![r] = t]
  /\ UNCHANGED <<path, pool, session, resp, storeVars, events, poolVars>>

\* Outside the try block: the exception leaves process() altogether.
FetchFails(r) ==
  /\ Faulty
  /\ At(r, "fetch")
  /\ Return(r, "http500")
  /\ UNCHANGED <<path, pool, session, storeVars, events, poolVars>>

FetchUnknown(r) ==
  /\ At(r, "fetch")
  /\ UserOf[r] \notin KnownUsers
  /\ Return(r, "unknown")
  /\ UNCHANGED <<path, pool, session, storeVars, events, poolVars>>

RoutedTo(r, decision) ==
  /\ At(r, "fetch")
  /\ UserOf[r] \in KnownUsers
  /\ decision \in Route(TierOf[UserOf[r]])

\* Mutant: a shed request leaves no trace in the analytics.
RouteShedUntracked(r) ==
  /\ RoutedTo(r, "shed")
  /\ Return(r, "shed")
  /\ UNCHANGED <<path, pool, session, storeVars, events, poolVars>>

RouteShed(r) ==
  /\ RoutedTo(r, "shed")
  /\ Return(r, "shed")
  /\ Track(r, "load_shed")
  /\ UNCHANGED <<path, pool, session, storeVars, poolVars>>

\* With a slot of p taken: a safe message goes on to the rate limiter, an
\* unsafe one gives the slot back before the interaction is stored.
EnterSafe(r, p, tracked) ==
  /\ CheckSafety(text[r]).safe
  /\ Acquire(p)
  /\ Goto(r, "limit")
  /\ events' = events \cup tracked
  /\ UNCHANGED path

EnterBlocked(r, p, tracked) ==
  /\ ~CheckSafety(text[r]).safe
  /\ AcquireAndRelease(p)
  /\ Goto(r, "find")
  /\ path' = [path EXCEPT ![r] = "blocked"]
  /\ events' = events \cup tracked \cup {<<r, "safety_blocked">>}

RouteAndEnter(r) ==
  \E p \in Pools :
    /\ RoutedTo(r, p)
    /\ pool' = [pool EXCEPT ![r] = p]
    /\ \/ EnterSafe(r, p, {<<r, "pool_routed">>})
       \/ EnterBlocked(r, p, {<<r, "pool_routed">>})
    /\ UNCHANGED <<session, resp, storeVars>>

RouteAndWait(r) ==
  \E p \in Pools :
    /\ RoutedTo(r, p)
    /\ ~CanAcquire(p)
    /\ pool' = [pool EXCEPT ![r] = p]
    /\ Goto(r, "wait")
    /\ Track(r, "pool_routed")
    /\ UNCHANGED <<path, session, resp, storeVars, poolVars>>

\* A poll that finds the pool full changes nothing.
PollAcquires(r) ==
  /\ At(r, "wait")
  /\ \/ EnterSafe(r, pool[r], {})
     \/ EnterBlocked(r, pool[r], {})
  /\ UNCHANGED <<pool, session, resp, storeVars>>

\* Mutants of the timeout: the slot that came free at the same moment goes
\* with the cancelled poll; the timeout is swallowed and the request goes on.
PollTimesOutTakesSlot(r) ==
  /\ At(r, "wait")
  /\ Return(r, "shed")
  /\ Acquire(pool[r]) \/ UNCHANGED poolVars
  /\ UNCHANGED <<path, pool, session, storeVars, events>>

PollTimesOutGoesOn(r) ==
  /\ At(r, "wait")
  /\ Goto(r, "limit")
  /\ UNCHANGED <<path, pool, session, resp, storeVars, events, poolVars>>

PollTimesOut(r) ==
  /\ At(r, "wait")
  /\ Return(r, "shed")
  /\ UNCHANGED <<path, pool, session, storeVars, events, poolVars>>

-----------------------------------------------------------------------------
(* The rate limit check *)

Reject(r, how) ==
  /\ Release(pool[r], FALSE)
  /\ Track(r, "rate_limited")
  /\ path' = [path EXCEPT ![r] = how]
  /\ Goto(r, "find")
  /\ UNCHANGED <<pool, session, resp, storeVars>>

CountAllows(r) ==
  /\ At(r, "limit")
  /\ Goto(r, "record")
  /\ UNCHANGED <<path, pool, session, resp, storeVars, events, poolVars>>

CountRejectsFirst(r) ==
  /\ At(r, "limit")
  /\ Goto(r, "notify")
  /\ UNCHANGED <<path, pool, session, resp, storeVars, events, poolVars>>

CountRejectsAgain(r) ==
  /\ At(r, "limit")
  /\ Reject(r, "silent")

\* Mutant: after marking the user as notified the check is made again.
NotifyChecksAgain(r) ==
  /\ At(r, "notify")
  /\ Goto(r, "limit")
  /\ UNCHANGED <<path, pool, session, resp, storeVars, events, poolVars>>

Notify(r) ==
  /\ At(r, "notify")
  /\ Reject(r, "first")

Record(r) ==
  /\ At(r, "record")
  /\ Goto(r, "find")
  /\ UNCHANGED <<path, pool, session, resp, storeVars, events, poolVars>>

-----------------------------------------------------------------------------
(* The session and the exchange stored in it *)

ActiveSessions(u) == {s \in sessions : Owner(s) = u}

EnterSession(r, s) ==
  /\ session' = [session EXCEPT ![r] = s]
  /\ \/ path[r] = "normal" /\ Goto(r, "context") /\ UNCHANGED resp
     \/ path[r] \in {"blocked", "first"} /\ Goto(r, "storeUser") /\ UNCHANGED resp
     \/ path[r] = "silent" /\ Return(r, "silent")
  /\ UNCHANGED <<path, pool, events, poolVars>>

FindSession(r) ==
  /\ At(r, "find")
  /\ \E s \in ActiveSessions(UserOf[r]) : EnterSession(r, s)
  /\ UNCHANGED storeVars

FindNoSession(r) ==
  /\ At(r, "find")
  /\ ActiveSessions(UserOf[r]) = {}
  /\ Goto(r, "insert")
  /\ UNCHANGED <<path, pool, session, resp, storeVars, events, poolVars>>

\* Mutant: the new session's document is never inserted.
InsertSessionForgets(r) ==
  /\ At(r, "insert")
  /\ EnterSession(r, r)
  /\ UNCHANGED storeVars

InsertSession(r) ==
  /\ At(r, "insert")
  /\ WriteSession(r)
  /\ EnterSession(r, r)

LoadContext(r) ==
  /\ At(r, "context")
  /\ Goto(r, "storeUser")
  /\ UNCHANGED <<path, pool, session, resp, storeVars, events, poolVars>>

StoreUser(r) ==
  /\ At(r, "storeUser")
  /\ WriteMessage(r, "user")
  /\ Goto(r, IF path[r] = "normal" THEN "llm" ELSE "storeReply")
  /\ UNCHANGED <<path, pool, session, resp, events, poolVars>>

Generate(r) ==
  /\ At(r, "llm")
  /\ Goto(r, "storeReply")
  /\ UNCHANGED <<path, pool, session, resp, storeVars, events, poolVars>>

\* Mutant: the reply is returned without being stored.
StoreReplyForgets(r) ==
  /\ At(r, "storeReply")
  /\ \/ path[r] = "normal" /\ Goto(r, "count") /\ UNCHANGED resp
     \/ path[r] = "blocked" /\ Return(r, "blocked")
     \/ path[r] = "first" /\ Return(r, "limited")
  /\ UNCHANGED <<path, pool, session, storeVars, events, poolVars>>

StoreReply(r) ==
  /\ At(r, "storeReply")
  /\ WriteMessage(r, "assistant")
  /\ \/ path[r] = "normal" /\ Goto(r, "count") /\ UNCHANGED resp
     \/ path[r] = "blocked" /\ Return(r, "blocked")
     \/ path[r] = "first" /\ Return(r, "limited")
  /\ UNCHANGED <<path, pool, session, events, poolVars>>

Count(r) ==
  /\ At(r, "count")
  /\ WriteCount(r)
  /\ Goto(r, "touch")
  /\ UNCHANGED <<path, pool, session, resp, events, poolVars>>

\* The update of users.last_active_at, then the way out.
Touch(r) ==
  /\ At(r, "touch")
  /\ Release(pool[r], FALSE)
  /\ Track(r, "message_processed")
  /\ Return(r, "ok")
  /\ UNCHANGED <<path, pool, session, storeVars>>

-----------------------------------------------------------------------------
(* A database call that raises inside the try block *)

DatabaseCalls == Labels \ {"idle", "fetch", "wait", "llm", "done"}

MaybeApplied(r) ==
  \/ UNCHANGED storeVars
  \/ At(r, "insert") /\ WriteSession(r)
  \/ At(r, "storeUser") /\ WriteMessage(r, "user")
  \/ At(r, "storeReply") /\ WriteMessage(r, "assistant")
  \/ At(r, "count") /\ WriteCount(r)

\* The handler releases whether or not the slot was given back before.
Raise(r) ==
  /\ Faulty
  /\ pc[r] \in DatabaseCalls
  /\ MaybeApplied(r)
  /\ Release(pool[r], TRUE)
  /\ Track(r, "error")
  /\ Return(r, "confused")
  /\ UNCHANGED <<path, pool, session>>

-----------------------------------------------------------------------------

Admission(r) ==
  \/ FetchFails(r) \/ FetchUnknown(r) \/ RouteShed(r)
  \/ RouteAndEnter(r) \/ RouteAndWait(r)
  \/ PollAcquires(r) \/ PollTimesOut(r)

LimitCheck(r) ==
  \/ CountAllows(r) \/ CountRejectsFirst(r) \/ CountRejectsAgain(r)
  \/ Notify(r) \/ Record(r)

Exchange(r) ==
  \/ FindSession(r) \/ FindNoSession(r) \/ InsertSession(r)
  \/ LoadContext(r) \/ StoreUser(r) \/ Generate(r) \/ StoreReply(r)
  \/ Count(r) \/ Touch(r)

Step(r) ==
  /\ Admission(r) \/ LimitCheck(r) \/ Exchange(r) \/ Raise(r)
  /\ UNCHANGED text

\* A server with nothing to do waits for its next request; this one has none.
AllAnswered ==
  /\ \A r \in Requests : At(r, "done")
  /\ UNCHANGED vars

Next ==
  \/ \E r \in Requests : Submit(r) \/ Step(r)
  \/ AllAnswered

Spec == Init /\ [][Next]_vars

\* Every suspended task is resumed: its call returns or raises, its sleep or
\* its timeout ends.  Clients need not send anything.
Fairness == \A r \in Requests : WF_vars(Step(r))

FairSpec == Spec /\ Fairness

-----------------------------------------------------------------------------
(* Properties *)

\* The requests that hold a slot: past acquire(), on the path that keeps the
\* slot until the end, and not yet past release().
Holding(r) ==
  /\ pc[r] \in DatabaseCalls \cup {"llm"}
  /\ path[r] = "normal"

Holders(p) == {r \in Requests : pool[r] = p /\ Holding(r)}

\* The requests whose slot was given back and then given back once more by
\* the exception handler.
ReleasedTwice(p) ==
  {r \in Requests : pool[r] = p /\ path[r] # "normal" /\ resp[r] = "confused"}

\* The semaphore's account is exact: every pool has max_workers slots, less
\* those requests hold, plus one for every request that was released twice.
\* In particular no slot is lost, whatever times out or raises.
SlotAccounting ==
  \A p \in Pools :
    value[p] + Cardinality(Holders(p)) = MaxWorkers[p] + Cardinality(ReleasedTwice(p))

\* The counter that routing, utilization and health scores read is the number
\* of requests holding a slot, as long as no request of the pool was released
\* twice.
CountersAgree ==
  \A p \in Pools :
    ReleasedTwice(p) = {} => active[p] = Cardinality(Holders(p))

\* What the router believes to be available can be acquired at once: acting on
\* the counter, which a double release and the clamp at 0 bend, never sends a
\* request that saw a free worker into the waiting loop.
AvailableIsAcquirable ==
  \A p \in Pools : Available(p) > 0 => CanAcquire(p)

\* Only two kinds of request ever wait for a slot: an enterprise request on
\* the general pool, any other on the overflow pool.  Nobody waits for the
\* priority pool, although the state may have changed since it was routed.
WaitsOnlyForFallback ==
  \A r \in Requests :
    At(r, "wait") =>
      pool[r] = IF TierOf[UserOf[r]] = "enterprise" THEN "general" ELSE "overflow"

\* The pool metrics and the analytics events, which are updated in different
\* places, tell the same story: a pool counts one request for every event that
\* ends a request's work in it, and one error for every "error" event.
EventsOf(p, types) == {e \in events : pool[e[1]] = p /\ e[2] \in types}

MetricsMatchEvents ==
  \A p \in Pools :
    /\ total[p] = Cardinality(EventsOf(p,
                    {"message_processed", "safety_blocked", "rate_limited", "error"}))
    /\ errors[p] = Cardinality(EventsOf(p, {"error"}))

\* What is stored of a request is in one session of its own user, and its
\* reply is never there without its message.
ExchangesWellFormed ==
  \A m \in messages :
    /\ m.session \in sessions
    /\ m.session = session[m.request]
    /\ Owner(m.session) = UserOf[m.request]
    /\ m.role = "assistant" => [m EXCEPT !.role = "user"] \in messages

\* A session's message_count, written after and apart from the messages, never
\* runs ahead of the ordinary exchanges stored in the session and covers every
\* exchange whose client was answered with it.
MessagesOf(s, R) == {m \in messages : m.session = s /\ m.request \in R}

CountWithinMessages ==
  \A s \in SessionIds :
    /\ messageCount[s] <= Cardinality(MessagesOf(s, {r \in Requests : path[r] = "normal"}))
    /\ messageCount[s] >= Cardinality(MessagesOf(s, {r \in Requests : resp[r] = "ok"}))

\* Every request that was submitted is answered, whatever the other requests
\* do: neither the pools nor the waiting loop can hold it forever.
Answered ==
  \A r \in Requests : pc[r] = "fetch" ~> pc[r] = "done"

-----------------------------------------------------------------------------
(* What the documentation says, for the runs that refute it *)

\* A pool runs at most max_workers requests: "General pool (50 workers)".
PoolSizeRespected ==
  \A p \in Pools : Cardinality(Holders(p)) <= MaxWorkers[p]

\* "Enterprise -> priority pool (always). If full, steal from general (never
\* shed)"; "Premium -> general pool. If >80% full, use overflow. Never shed".
PaidNeverShed ==
  \A r \in Requests : resp[r] = "shed" => TierOf[UserOf[r]] = "free"

\* "New session created when no active session exists for a user".
SessionOnlyWhenNone ==
  [][\A r \in Requests :
       r \in sessions' \ sessions => ActiveSessions(UserOf[r]) = {}]_vars

-----------------------------------------------------------------------------
(* Refinement: without database failures the requests use their pools as   *)
(* SlotPool promises.  A request blocked by the safety filter takes and    *)
(* returns its slot within one step, so there it only leaves.              *)

Place == [r \in Requests |->
  IF Holding(r) THEN pool[r]
  ELSE IF pc[r] \in {"idle", "fetch", "wait"} THEN "waiting"
  ELSE "gone"]

PoolsOf == [r \in Requests |->
  IF UserOf[r] \notin KnownUsers THEN {}
  ELSE IF TierOf[UserOf[r]] = "enterprise" THEN {"priority", "general"}
  ELSE {"general", "overflow"}]

SlotUse == INSTANCE SlotPool WITH
  Clients <- Requests, Slots <- Pools, Capacity <- MaxWorkers,
  MayUse <- PoolsOf, place <- Place

\* The requests' use of the pools is a behaviour of the abstract pools: no
\* pool runs more requests than it has workers, nobody uses a pool that is
\* not for its tier, and every slot taken is given back once.
UsesSlotsAsPromised == SlotUse!Spec

\* The requests that the exception handler released once more, pool by pool.
Surplus == [p \in Pools |-> ReleasedTwice(p)]

Degraded == INSTANCE GrowingPool WITH
  Clients <- Requests, Slots <- Pools, Capacity <- MaxWorkers,
  MayUse <- PoolsOf, place <- Place, extra <- Surplus

\* With failing calls too the requests keep the pools' promise, except that
\* each of them may add one slot to the one pool that it left.
DegradesAsPromised == Degraded!SpecGrowing
=============================================================================
