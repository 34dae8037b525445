------------------------- MODULE ProcessorStoreProofs -------------------------
(***************************************************************************)
(* Proofs about what requests leave behind: the sessions and messages in   *)
(* the database, the analytics events, the metrics of the pools, and how   *)
(* these agree with what the clients were answered; and about the safety   *)
(* filter that each of them passes.                                        *)
(*                                                                         *)
(* Each invariant is a table over the control state of one request.  A     *)
(* step changes the row of the request that takes it; the lemma            *)
(* StepsFrameOthers says that it leaves the other rows alone.              *)
(***************************************************************************)
EXTENDS ChatApi, MessageProcessorProofs, Induction

-----------------------------------------------------------------------------
(* What a step leaves alone *)

\* A step of r adds to the store and to the events, and only on r's behalf.
FramesOthers(r) ==
  /\ \A x \in Requests \ {r} :
       /\ pc'[x] = pc[x] /\ path'[x] = path[x] /\ pool'[x] = pool[x]
       /\ session'[x] = session[x] /\ resp'[x] = resp[x]
  /\ sessions \subseteq sessions'
  /\ messages \subseteq messages' /\ \A m \in messages' \ messages : m.request = r
  /\ events \subseteq events' /\ \A e \in events' \ events : e[1] = r

LEMMA StepsFrameOthers ==
  ASSUME IInv, NEW r \in Requests,
         Submit(r) \/ Admission(r) \/ LimitCheck(r) \/ Exchange(r) \/ Raise(r)
  PROVE  FramesOthers(r)
<1>. USE DEF At, Goto, Return, Track, FramesOthers, storeVars
<1>1. CASE Submit(r) \/ Admission(r)
  BY <1>1
  DEF Submit, Admission, FetchFails, FetchUnknown, RouteShed, RouteAndEnter, RouteAndWait,
      PollAcquires, PollTimesOut, EnterSafe, EnterBlocked, IInv, TypeOK
<1>2. ASSUME NEW how \in {"first", "silent"}, Reject(r, how)
      PROVE  FramesOthers(r)
  <2>. DEFINE rejected == <<r, "rate_limited">>
  <2>1. events' = events \cup {rejected} /\ rejected[1] = r
    BY <1>2 DEF Reject
  <2>2. /\ path' = [path EXCEPT ![r] = how] /\ pc' = [pc EXCEPT ![r] = "find"]
        /\ UNCHANGED <<pool, session, resp, sessions, messages>>
    BY <1>2 DEF Reject
  <2>. HIDE DEF rejected
  <2>. QED
    BY <2>1, <2>2 DEF IInv, TypeOK
<1>3. CASE LimitCheck(r)
  <2>1. CASE CountAllows(r) \/ CountRejectsFirst(r) \/ Record(r)
    BY <2>1 DEF CountAllows, CountRejectsFirst, Record, IInv, TypeOK
  <2>2. CASE CountRejectsAgain(r) \/ Notify(r)
    BY <2>2, <1>2 DEF CountRejectsAgain, Notify
  <2>. QED
    BY <1>3, <2>1, <2>2 DEF LimitCheck
<1>4. CASE FindSession(r) \/ FindNoSession(r) \/ InsertSession(r)
  BY <1>4
  DEF FindSession, FindNoSession, InsertSession, EnterSession, WriteSession, IInv, TypeOK
<1>5. CASE LoadContext(r) \/ StoreUser(r) \/ Generate(r) \/ StoreReply(r) \/ Count(r)
  BY <1>5
  DEF LoadContext, StoreUser, Generate, StoreReply, Count, WriteMessage, WriteCount,
      IInv, TypeOK
<1>6. CASE Touch(r)
  <2>. DEFINE processed == <<r, "message_processed">>
  <2>1. events' = events \cup {processed} /\ processed[1] = r
    BY <1>6 DEF Touch
  <2>2. /\ pc' = [pc EXCEPT ![r] = "done"] /\ resp' = [resp EXCEPT ![r] = "ok"]
        /\ UNCHANGED <<path, pool, session, sessions, messages>>
    BY <1>6 DEF Touch
  <2>. HIDE DEF processed
  <2>. QED
    BY <2>1, <2>2 DEF IInv, TypeOK
<1>7. CASE Raise(r)
  BY <1>7
  DEF Raise, MaybeApplied, WriteSession, WriteMessage, WriteCount, IInv, TypeOK
<1>. QED
  BY <1>1, <1>3, <1>4, <1>5, <1>6, <1>7 DEF Exchange

-----------------------------------------------------------------------------
(* The exchanges in the store *)

NoMessages(r) == \A m \in messages : m.request # r

HasMessage(r, sender) == [session |-> session[r], request |-> r, role |-> sender] \in messages

\* The session that r works in is in the collection, and its user's.
Settled(r) == session[r] \in sessions /\ Owner(session[r]) = UserOf[r]

\* How far the exchange of r is stored, by where r is or how it was answered.
\* Nothing is said of a request whose handler ran: it may be at any stage.
Progress(r) ==
  /\ \/ pc[r] \in {"idle", "fetch", "wait", "limit", "notify", "record", "find", "insert",
                   "context", "storeUser"}
     \/ resp[r] \in {"unknown", "shed", "silent", "http500"}
     => NoMessages(r)
  /\ \/ pc[r] \in {"llm", "storeReply", "count", "touch"}
     \/ resp[r] \in {"ok", "blocked", "limited"}
     => HasMessage(r, "user")
  /\ \/ pc[r] \in {"count", "touch"}
     \/ resp[r] \in {"ok", "blocked", "limited"}
     => HasMessage(r, "assistant")
  /\ \/ pc[r] \in {"context", "storeUser", "llm", "storeReply", "count", "touch"}
     \/ resp[r] \in {"ok", "blocked", "limited", "silent"}
     => Settled(r)

MessagesPlaced ==
  \A m \in messages :
    /\ m.session = session[m.request]
    /\ Settled(m.request)
    /\ m.role = "assistant" => HasMessage(m.request, "user")

StoreInv == MessagesPlaced /\ \A r \in Requests : Progress(r)

\* The session a request inserted is its user's; so is one named for the user.
LEMMA OwnSession ==
  ASSUME NEW r \in Requests
  PROVE  Owner(r) = UserOf[r]
BY RequestsAssumption DEF Owner

LEMMA InitStore == Init => StoreInv
BY DEF Init, StoreInv, MessagesPlaced, Progress, NoMessages, None

\* The rows of the other requests stay true.
LEMMA OthersProgress ==
  ASSUME StoreInv, NEW r \in Requests, FramesOthers(r)
  PROVE  \A x \in Requests \ {r} : Progress(x)'
<1> SUFFICES ASSUME NEW x \in Requests \ {r} PROVE Progress(x)'
  OBVIOUS
<1>1. /\ pc'[x] = pc[x] /\ resp'[x] = resp[x] /\ session'[x] = session[x]
      /\ Progress(x)
  BY DEF FramesOthers, StoreInv
<1>2. NoMessages(x) => NoMessages(x)'
  BY DEF FramesOthers, NoMessages
<1>3. \A sender : HasMessage(x, sender) => HasMessage(x, sender)'
  BY <1>1 DEF FramesOthers, HasMessage
<1>4. Settled(x) => Settled(x)'
  BY <1>1 DEF FramesOthers, Settled, Owner
<1>. QED
  BY <1>1, <1>2, <1>3, <1>4 DEF Progress

\* So do the messages that were there, unless r changes its session: it does
\* that only before it has any.
LEMMA OldMessagesPlaced ==
  ASSUME IInv, StoreInv, NEW r \in Requests, FramesOthers(r),
         session'[r] = session[r] \/ NoMessages(r)
  PROVE  \A m \in messages :
           /\ m.session = session'[m.request]
           /\ Settled(m.request)'
           /\ m.role = "assistant" => HasMessage(m.request, "user")'
<1> SUFFICES ASSUME NEW m \in messages
             PROVE  /\ m.session = session'[m.request]
                    /\ Settled(m.request)'
                    /\ m.role = "assistant" => HasMessage(m.request, "user")'
  OBVIOUS
<1>1. m.request \in Requests
  BY DEF IInv, TypeOK
<1>2. session'[m.request] = session[m.request]
  BY <1>1 DEF FramesOthers, NoMessages
<1>. QED
  BY <1>2 DEF StoreInv, MessagesPlaced, FramesOthers, Settled, Owner, HasMessage

\* A request that is not yet past finding its session has nothing stored, and
\* a step that writes nothing and leaves it there, or ends it, keeps that.
LEMMA EarlyStore ==
  ASSUME IInv, StoreInv, NEW r \in Requests, Submit(r) \/ Admission(r) \/ LimitCheck(r)
  PROVE  StoreInv'
<1>1. FramesOthers(r)
  BY StepsFrameOthers
<1>2. /\ messages' = messages /\ session' = session
      /\ pc[r] \in {"idle", "fetch", "wait", "limit", "notify", "record"}
      /\ \/ /\ pc'[r] \in {"fetch", "wait", "limit", "notify", "record", "find"}
            /\ resp'[r] = resp[r]
         \/ pc'[r] = "done" /\ resp'[r] \in {"http500", "unknown", "shed"}
  <2>. USE DEF At, Goto, Return, IInv, TypeOK, storeVars
  <2>1. CASE Submit(r) \/ Admission(r)
    BY <2>1
    DEF Submit, Admission, FetchFails, FetchUnknown, RouteShed, RouteAndEnter, RouteAndWait,
        RoutedTo, PollAcquires, PollTimesOut, EnterSafe, EnterBlocked
  <2>2. CASE LimitCheck(r)
    BY <2>2
    DEF LimitCheck, CountAllows, CountRejectsFirst, CountRejectsAgain, Notify, Reject, Record
  <2>. QED
    BY <2>1, <2>2
<1>3. NoMessages(r) /\ resp[r] = None
  BY <1>2 DEF StoreInv, Progress, IInv, Control
<1>4. Progress(r)'
  BY <1>2, <1>3 DEF Progress, NoMessages, None
<1>5. MessagesPlaced'
  BY <1>1, <1>2, OldMessagesPlaced DEF MessagesPlaced
<1>. QED
  BY <1>1, <1>4, <1>5, OthersProgress DEF StoreInv

\* Finding or inserting the session gives r one that is its user's.
LEMMA EnterSessionStore ==
  ASSUME IInv, StoreInv, NEW r \in Requests, FindSession(r) \/ InsertSession(r)
  PROVE  StoreInv'
<1>1. FramesOthers(r)
  BY StepsFrameOthers DEF Exchange
<1>2. PICK s \in SessionIds :
        /\ EnterSession(r, s) /\ s \in sessions' /\ Owner(s) = UserOf[r]
        /\ messages' = messages /\ pc[r] \in {"find", "insert"}
  BY OwnSession
  DEF FindSession, InsertSession, ActiveSessions, WriteSession, At, storeVars, IInv, TypeOK,
      SessionIds
<1>3. NoMessages(r) /\ resp[r] = None
  BY <1>2 DEF StoreInv, Progress, IInv, Control
<1>4. /\ session'[r] = s
      /\ \/ pc'[r] \in {"context", "storeUser"} /\ resp'[r] = None
         \/ pc'[r] = "done" /\ resp'[r] = "silent"
  BY <1>2, <1>3 DEF EnterSession, Goto, Return, IInv, TypeOK
<1>5. Progress(r)'
  BY <1>2, <1>3, <1>4 DEF Progress, NoMessages, Settled, Owner, None
<1>6. MessagesPlaced'
  BY <1>1, <1>2, <1>3, OldMessagesPlaced DEF MessagesPlaced
<1>. QED
  BY <1>1, <1>5, <1>6, OthersProgress DEF StoreInv

\* A message that r writes, in order, is placed as it should be.
LEMMA NewMessagePlaced ==
  ASSUME IInv, StoreInv, NEW r \in Requests, FramesOthers(r), session' = session,
         \/ pc[r] = "storeUser" /\ WriteMessage(r, "user")
         \/ pc[r] = "storeReply" /\ WriteMessage(r, "assistant")
  PROVE  MessagesPlaced' /\ Settled(r)' /\ HasMessage(r, "user")'
<1>1. Settled(r)'
  BY DEF StoreInv, Progress, Settled, Owner, FramesOthers
<1>2. HasMessage(r, "user")'
  BY DEF StoreInv, Progress, HasMessage, WriteMessage
<1>3. \A m \in messages' \ messages : m.session = session'[r] /\ m.request = r
  BY DEF WriteMessage
<1>. QED
  BY <1>1, <1>2, <1>3, OldMessagesPlaced DEF MessagesPlaced

LEMMA ExchangeStore ==
  ASSUME IInv, StoreInv, NEW r \in Requests, Exchange(r)
  PROVE  StoreInv'
<1>1. FramesOthers(r)
  BY StepsFrameOthers
<1>2. CASE FindSession(r) \/ InsertSession(r)
  BY <1>2, EnterSessionStore
<1>3. ASSUME FindNoSession(r) \/ LoadContext(r) \/ Generate(r) \/ Count(r) \/ Touch(r)
      PROVE  StoreInv'
  <2>1. /\ messages' = messages /\ session' = session
        /\ \/ pc[r] = "find" /\ pc'[r] = "insert" /\ resp'[r] = resp[r]
           \/ pc[r] = "context" /\ pc'[r] = "storeUser" /\ resp'[r] = resp[r]
           \/ pc[r] = "llm" /\ pc'[r] = "storeReply" /\ resp'[r] = resp[r]
           \/ pc[r] = "count" /\ pc'[r] = "touch" /\ resp'[r] = resp[r]
           \/ pc[r] = "touch" /\ pc'[r] = "done" /\ resp'[r] = "ok"
    BY <1>3
    DEF FindNoSession, LoadContext, Generate, Count, Touch, WriteCount, At, Goto, Return,
        IInv, TypeOK, storeVars
  <2>2. pc[r] # "done" /\ resp[r] = None
    BY <2>1 DEF IInv, Control
  <2>3. Settled(r) => Settled(r)'
    BY <1>1, <2>1 DEF FramesOthers, Settled, Owner
  <2>4. Progress(r)'
    BY <2>1, <2>2, <2>3 DEF StoreInv, Progress, NoMessages, HasMessage, None
  <2>5. MessagesPlaced'
    BY <1>1, <2>1, OldMessagesPlaced DEF MessagesPlaced
  <2>. QED
    BY <1>1, <2>4, <2>5, OthersProgress DEF StoreInv
<1>4. CASE StoreUser(r)
  <2>1. /\ pc[r] = "storeUser" /\ WriteMessage(r, "user") /\ session' = session
        /\ pc'[r] \in {"llm", "storeReply"} /\ resp'[r] = None
    BY <1>4 DEF StoreUser, At, Goto, IInv, TypeOK, Control
  <2>2. Progress(r)'
    BY <1>1, <2>1, NewMessagePlaced DEF Progress, None
  <2>. QED
    BY <1>1, <2>1, <2>2, NewMessagePlaced, OthersProgress DEF StoreInv
<1>5. CASE StoreReply(r)
  <2>1. /\ pc[r] = "storeReply" /\ WriteMessage(r, "assistant") /\ session' = session
        /\ \/ pc'[r] = "count" /\ resp'[r] = None
           \/ pc'[r] = "done" /\ resp'[r] \in {"blocked", "limited"}
    BY <1>5 DEF StoreReply, Return, At, Goto, IInv, TypeOK, Control
  <2>2. HasMessage(r, "assistant")'
    BY <2>1 DEF WriteMessage, HasMessage
  <2>3. Progress(r)'
    BY <1>1, <2>1, <2>2, NewMessagePlaced DEF Progress, None
  <2>. QED
    BY <1>1, <2>1, <2>3, NewMessagePlaced, OthersProgress DEF StoreInv
<1>. QED
  BY <1>2, <1>3, <1>4, <1>5 DEF Exchange

\* A call that raises may have written the message it was to write.
LEMMA RaiseStore ==
  ASSUME IInv, StoreInv, NEW r \in Requests, Raise(r)
  PROVE  StoreInv'
<1>1. FramesOthers(r)
  BY StepsFrameOthers
<1>2. session' = session /\ pc'[r] = "done" /\ resp'[r] = "confused"
  BY DEF Raise, Goto, Return, IInv, TypeOK
<1>3. MessagesPlaced'
  <2>1. CASE messages' = messages
    BY <1>1, <1>2, <2>1, OldMessagesPlaced DEF MessagesPlaced
  <2>2. CASE messages' # messages
    BY <1>1, <1>2, <2>2, NewMessagePlaced
    DEF Raise, MaybeApplied, WriteSession, WriteCount, At, storeVars
  <2>. QED
    BY <2>1, <2>2
<1>4. Progress(r)'
  BY <1>2 DEF Progress
<1>. QED
  BY <1>1, <1>3, <1>4, OthersProgress DEF StoreInv

LEMMA NextStore == IInv /\ StoreInv /\ [Next]_vars => StoreInv'
<1> SUFFICES ASSUME IInv, StoreInv, [Next]_vars PROVE StoreInv'
  OBVIOUS
<1>1. ASSUME NEW r \in Requests, Submit(r) \/ Step(r) PROVE StoreInv'
  BY <1>1, EarlyStore, ExchangeStore, RaiseStore DEF Step
<1>2. CASE UNCHANGED vars
  BY <1>2
  DEF vars, taskVars, storeVars, StoreInv, MessagesPlaced, Progress, NoMessages, HasMessage,
      Settled, Owner
<1>. QED
  BY <1>1, <1>2 DEF Next, AllAnswered

\* What is stored of a request is in one session of its own user, and the reply
\* is never there without the message, whatever fails in between.
THEOREM ExchangesWellFormedHolds == Spec => []ExchangesWellFormed
<1>1. IInv /\ StoreInv => ExchangesWellFormed
  <2> SUFFICES ASSUME IInv, StoreInv, NEW m \in messages
               PROVE  /\ m.session \in sessions
                      /\ m.session = session[m.request]
                      /\ Owner(m.session) = UserOf[m.request]
                      /\ m.role = "assistant" => [m EXCEPT !.role = "user"] \in messages
    BY DEF ExchangesWellFormed
  <2>1. m \in [session : SessionIds, request : Requests, role : {"user", "assistant"}]
    BY DEF IInv, TypeOK
  <2>2. m.session = session[m.request] /\ Settled(m.request)
    BY DEF StoreInv, MessagesPlaced
  <2>3. [m EXCEPT !.role = "user"]
          = [session |-> m.session, request |-> m.request, role |-> "user"]
    BY <2>1
  <2>. QED
    BY <2>2, <2>3 DEF StoreInv, MessagesPlaced, HasMessage, Settled
<1>. QED
  BY <1>1, InitIInv, NextIInv, InitStore, NextStore, PTL DEF Spec

\* The status and the session a client is given tell what was stored: nothing
\* when it was turned away, both sides of the exchange when it got an answer.
THEOREM AnswerMatchesStoreHolds == Spec => []AnswerMatchesStore
<1>1. IInv /\ StoreInv => AnswerMatchesStore
  <2> SUFFICES ASSUME IInv, StoreInv, NEW r \in Requests
               PROVE  /\ resp[r] # None /\ Status(r) # 200 => Stored(r) = {}
                      /\ Answered200(r) /\ SessionIdOf(r) # NoSession =>
                           /\ {m.role : m \in Stored(r)} = {"user", "assistant"}
                           /\ \A m \in Stored(r) : m.session = SessionIdOf(r)
                      /\ SessionIdOf(r) # NoSession => SessionIdOf(r) \in sessions
    BY DEF AnswerMatchesStore
  <2>1. Progress(r) /\ resp[r] \in Responses
    BY DEF StoreInv, IInv, TypeOK
  <2>2. ASSUME resp[r] # None, Status(r) # 200
        PROVE  Stored(r) = {}
    <3>1. resp[r] \in {"shed", "silent", "http500"}
      BY <2>1, <2>2 DEF Status, Responses
    <3>. QED
      BY <2>1, <3>1 DEF Progress, NoMessages, Stored
  <2>3. ASSUME SessionIdOf(r) # NoSession
        PROVE  /\ resp[r] \in {"ok", "blocked", "limited", "silent"}
               /\ SessionIdOf(r) = session[r] /\ session[r] \in sessions
    BY <2>1, <2>3 DEF SessionIdOf, Progress, Settled
  <2>4. ASSUME Answered200(r), SessionIdOf(r) # NoSession
        PROVE  /\ {m.role : m \in Stored(r)} = {"user", "assistant"}
               /\ \A m \in Stored(r) : m.session = SessionIdOf(r)
    <3>1. resp[r] \in {"ok", "blocked", "limited"}
      BY <2>3, <2>4 DEF Answered200, Status
    <3>2. HasMessage(r, "user") /\ HasMessage(r, "assistant")
      BY <2>1, <3>1 DEF Progress
    <3>3. \A m \in Stored(r) : m.role \in {"user", "assistant"} /\ m.session = session[r]
      BY DEF Stored, StoreInv, MessagesPlaced, IInv, TypeOK
    <3>4. ASSUME NEW sender \in {"user", "assistant"}
          PROVE  \E m \in Stored(r) : m.role = sender
      BY <3>2 DEF HasMessage, Stored
    <3>. QED
      BY <2>3, <2>4, <3>3, <3>4
  <2>. QED
    BY <2>2, <2>3, <2>4
<1>. QED
  BY <1>1, InitIInv, NextIInv, InitStore, NextStore, PTL DEF Spec

-----------------------------------------------------------------------------
(* The events of each request *)

\* The events that tell how r went, so far.
Told(r) ==
  Beginning[path[r]] \cup
    (CASE resp[r] = "ok"       -> {"message_processed"}
       [] resp[r] = "confused" -> {"error"}
       [] resp[r] = "shed" /\ pool[r] = None -> {"load_shed"}
       [] OTHER                -> {})

EventsInv ==
  \A r \in Requests :
    /\ pc[r] \in {"idle", "fetch"} => pool[r] = None
    /\ resp[r] = "ok" => path[r] = "normal"
    /\ \A type \in EventTypes \ {"pool_routed"} : <<r, type>> \in events <=> type \in Told(r)

\* What a step of r adds to the events of r, "pool_routed" apart.
Adds(r, types) ==
  \A type \in EventTypes \ {"pool_routed"} :
    <<r, type>> \in events' <=> <<r, type>> \in events \/ type \in types

LEMMA AdmissionAdds ==
  ASSUME IInv, EventsInv, NEW r \in Requests, Submit(r) \/ Admission(r)
  PROVE  \/ /\ Adds(r, {}) /\ path'[r] = path[r] /\ resp'[r] \in {None, "unknown", "http500"}
            /\ pc'[r] \in {"idle", "fetch"} => pool'[r] = None
         \/ /\ Adds(r, {}) /\ path'[r] = path[r] /\ resp'[r] = "shed" /\ pool'[r] # None
            /\ pc'[r] = "done"
         \/ /\ Adds(r, {"load_shed"}) /\ path'[r] = path[r] /\ resp'[r] = "shed"
            /\ pool'[r] = None /\ pc'[r] = "done"
         \/ /\ Adds(r, {"safety_blocked"}) /\ path'[r] = "blocked" /\ resp'[r] = None
            /\ pc'[r] = "find"
<1>. USE DEF At, Goto, Return, Track, IInv, TypeOK, Control, DatabaseCalls, Labels, Adds
<1>1. CASE Submit(r) \/ FetchFails(r) \/ FetchUnknown(r)
  BY <1>1 DEF Submit, FetchFails, FetchUnknown, EventsInv
<1>2. CASE RouteShed(r)
  BY <1>2 DEF RouteShed, RoutedTo, EventsInv
<1>3. ASSUME NEW p \in Pools, NEW tracked \in SUBSET {<<r, "pool_routed">>},
             EnterSafe(r, p, tracked) \/ EnterBlocked(r, p, tracked),
             pc[r] \in {"fetch", "wait"}, UNCHANGED resp
      PROVE  \/ /\ Adds(r, {}) /\ path'[r] = path[r] /\ resp'[r] = None
                /\ pc'[r] \notin {"idle", "fetch"}
             \/ /\ Adds(r, {"safety_blocked"}) /\ path'[r] = "blocked" /\ resp'[r] = None
                /\ pc'[r] = "find"
  BY <1>3 DEF EnterSafe, EnterBlocked
<1>4. CASE RouteAndEnter(r)
  BY <1>3, <1>4 DEF RouteAndEnter, RoutedTo
<1>5. CASE RouteAndWait(r)
  BY <1>5 DEF RouteAndWait, RoutedTo
<1>6. CASE PollAcquires(r)
  BY <1>3, <1>6 DEF PollAcquires
<1>7. CASE PollTimesOut(r)
  BY <1>7 DEF PollTimesOut, None, Pools
<1>. QED
  BY <1>1, <1>2, <1>4, <1>5, <1>6, <1>7 DEF Admission

LEMMA LaterAdds ==
  ASSUME IInv, NEW r \in Requests, LimitCheck(r) \/ Exchange(r) \/ Raise(r)
  PROVE  /\ pc'[r] \notin {"idle", "fetch"} /\ pool'[r] = pool[r] /\ pool[r] # None
         /\ \/ /\ Adds(r, {}) /\ path'[r] = path[r]
               /\ resp'[r] \in {None, "silent", "blocked", "limited"}
            \/ /\ Adds(r, {"rate_limited"}) /\ path'[r] \in {"first", "silent"}
               /\ resp'[r] = None /\ path[r] = "normal"
            \/ /\ Adds(r, {"message_processed"}) /\ path'[r] = path[r] /\ resp'[r] = "ok"
               /\ path[r] = "normal"
            \/ /\ Adds(r, {"error"}) /\ path'[r] = path[r] /\ resp'[r] = "confused"
<1>. USE DEF At, Goto, Return, Track, IInv, TypeOK, Control, DatabaseCalls, Labels, Adds,
             None, Pools
<1>1. ASSUME NEW how \in {"first", "silent"}, pc[r] \in {"limit", "notify"}, Reject(r, how)
      PROVE  /\ pc'[r] \notin {"idle", "fetch"} /\ pool'[r] = pool[r] /\ pool[r] # None
             /\ Adds(r, {"rate_limited"}) /\ path'[r] \in {"first", "silent"}
             /\ resp'[r] = None /\ path[r] = "normal"
  BY <1>1 DEF Reject
<1>2. CASE LimitCheck(r)
  BY <1>1, <1>2
  DEF LimitCheck, CountAllows, CountRejectsFirst, CountRejectsAgain, Notify, Record
<1>3. CASE FindSession(r) \/ FindNoSession(r) \/ InsertSession(r)
  BY <1>3 DEF FindSession, FindNoSession, InsertSession, EnterSession
<1>4. CASE LoadContext(r) \/ StoreUser(r) \/ Generate(r) \/ StoreReply(r) \/ Count(r)
  BY <1>4 DEF LoadContext, StoreUser, Generate, StoreReply, Count
<1>5. CASE Touch(r)
  BY <1>5 DEF Touch
<1>6. CASE Raise(r)
  BY <1>6 DEF Raise
<1>. QED
  BY <1>2, <1>3, <1>4, <1>5, <1>6 DEF Exchange

LEMMA InitEvents == Init => EventsInv
BY DEF Init, EventsInv, Told, Beginning, None, EventTypes

LEMMA NextEvents == IInv /\ EventsInv /\ [Next]_vars => EventsInv'
<1> SUFFICES ASSUME IInv, EventsInv, [Next]_vars PROVE EventsInv'
  OBVIOUS
<1>. DEFINE Row(x) ==
       /\ pc[x] \in {"idle", "fetch"} => pool[x] = None
       /\ resp[x] = "ok" => path[x] = "normal"
       /\ \A type \in EventTypes \ {"pool_routed"} : <<x, type>> \in events <=> type \in Told(x)
<1>1. ASSUME NEW r \in Requests, Submit(r) \/ Step(r) PROVE EventsInv'
  <2>1. FramesOthers(r)
    BY <1>1, StepsFrameOthers DEF Step
  <2>2. \A x \in Requests \ {r} : Row(x)'
    <3> SUFFICES ASSUME NEW x \in Requests \ {r} PROVE Row(x)'
      OBVIOUS
    <3>1. /\ pc'[x] = pc[x] /\ path'[x] = path[x] /\ pool'[x] = pool[x] /\ resp'[x] = resp[x]
      BY <2>1 DEF FramesOthers
    <3>2. \A type : <<x, type>> \in events' <=> <<x, type>> \in events
      BY <2>1 DEF FramesOthers
    <3>. QED
      BY <3>1, <3>2 DEF EventsInv, Told
  <2>3. resp[r] = None /\ path[r] \in Paths
    BY <1>1 DEF IInv, Control, TypeOK, Step, Submit, Admission, LimitCheck, Exchange, Raise,
                FetchFails, FetchUnknown, RouteShed, RouteAndEnter, RouteAndWait, RoutedTo,
                PollAcquires, PollTimesOut, CountAllows, CountRejectsFirst,
                CountRejectsAgain, Notify, Record, FindSession, FindNoSession,
                InsertSession, LoadContext, StoreUser, Generate, StoreReply, Count, Touch,
                At, DatabaseCalls
  <2>4. \A type \in EventTypes \ {"pool_routed"} :
          <<r, type>> \in events <=> type \in Beginning[path[r]]
    BY <2>3 DEF EventsInv, Told, None
  <2>5. CASE Submit(r) \/ Admission(r)
    <3>1. path[r] = "normal"
      BY <2>5 DEF IInv, Control, Submit, Admission, FetchFails, FetchUnknown, RouteShed,
                  RouteAndEnter, RouteAndWait, RoutedTo, PollAcquires, PollTimesOut, At
    <3>2. Row(r)'
      BY <2>4, <2>5, <3>1, AdmissionAdds DEF Adds, Told, Beginning, None
    <3>. QED
      BY <2>2, <3>2 DEF EventsInv
  <2>6. CASE LimitCheck(r) \/ Exchange(r) \/ Raise(r)
    <3>1. Row(r)'
      BY <2>3, <2>4, <2>6, LaterAdds DEF Adds, Told, Beginning, None, Paths
    <3>. QED
      BY <2>2, <3>1 DEF EventsInv
  <2>. QED
    BY <1>1, <2>5, <2>6 DEF Step
<1>2. CASE UNCHANGED vars
  BY <1>2 DEF vars, taskVars, EventsInv, Told
<1>. QED
  BY <1>1, <1>2 DEF Next, AllAnswered

LEMMA OutcomeTold ==
  ASSUME IInv, EventsInv, NEW r \in Requests
  PROVE  Outcome(r) = Told(r)
<1>1. Told(r) \subseteq EventTypes \ {"pool_routed"}
  BY DEF Told, Beginning, EventTypes, IInv, TypeOK, Paths
<1>2. \A type : type \in Outcome(r) <=> type # "pool_routed" /\ <<r, type>> \in events
  <2>1. \A e \in events : e = <<e[1], e[2]>> /\ e[2] \in EventTypes
    BY DEF IInv, TypeOK
  <2>. QED
    BY <2>1 DEF Outcome
<1>3. \A type : <<r, type>> \in events => type \in EventTypes
  BY DEF IInv, TypeOK
<1>. QED
  BY <1>1, <1>2, <1>3 DEF EventsInv

\* The analytics tell how every request ended: one event for each outcome, and
\* no other.
THEOREM EventsTellOutcomeHolds == Spec => []EventsTellOutcome
<1>1. IInv /\ EventsInv => EventsTellOutcome
  BY OutcomeTold DEF EventsTellOutcome, Told
<1>. QED
  BY <1>1, InitIInv, NextIInv, InitEvents, NextEvents, PTL DEF Spec

-----------------------------------------------------------------------------
(* The message counts *)

\* The ordinary requests that are past writing the count of their session, and
\* those of them that are sure to have written it.
PastCount == {r \in Requests : path[r] = "normal" /\ pc[r] \in {"touch", "done"}}
Counted   == {r \in Requests : pc[r] = "touch" \/ resp[r] = "ok"}

CountInv ==
  \A s \in SessionIds :
    /\ messageCount[s] <= Cardinality(MessagesOf(s, PastCount))
    /\ messageCount[s] >= Cardinality(MessagesOf(s, Counted))

LEMMA TwoMore ==
  ASSUME NEW S, IsFiniteSet(S), NEW one, NEW other
  PROVE  /\ IsFiniteSet(S \cup {one, other})
         /\ Cardinality(S \cup {one, other}) <= Cardinality(S) + 2
         /\ one \notin S /\ other \notin S /\ one # other =>
              Cardinality(S \cup {one, other}) = Cardinality(S) + 2
<1>1. /\ IsFiniteSet(S \cup {one})
      /\ Cardinality(S \cup {one})
           = IF one \in S THEN Cardinality(S) ELSE Cardinality(S) + 1
  BY FS_AddElement
<1>2. /\ IsFiniteSet((S \cup {one}) \cup {other})
      /\ Cardinality((S \cup {one}) \cup {other})
           = IF other \in S \cup {one}
             THEN Cardinality(S \cup {one}) ELSE Cardinality(S \cup {one}) + 1
  BY <1>1, FS_AddElement
<1>3. (S \cup {one}) \cup {other} = S \cup {one, other}
  OBVIOUS
<1>4. Cardinality(S) \in Nat
  BY FS_CardinalityType
<1>. QED
  BY <1>1, <1>2, <1>3, <1>4

\* The messages stay finitely many, whatever the number of users.
LEMMA NextFiniteMessages ==
  ASSUME IInv, IsFiniteSet(messages), [Next]_vars
  PROVE  IsFiniteSet(messages')
<1>1. ASSUME NEW r \in Requests, NEW sender, WriteMessage(r, sender)
      PROVE  IsFiniteSet(messages')
  BY <1>1, FS_AddElement DEF WriteMessage
<1>2. ASSUME NEW r \in Requests, Step(r), messages' # messages
      PROVE  \E sender : WriteMessage(r, sender)
  <2>1. CASE Admission(r)
    BY <1>2, <2>1
    DEF Admission, FetchFails, FetchUnknown, RouteShed, RouteAndEnter, RouteAndWait,
        PollAcquires, PollTimesOut, storeVars
  <2>2. CASE LimitCheck(r)
    BY <1>2, <2>2
    DEF LimitCheck, CountAllows, CountRejectsFirst, CountRejectsAgain, Notify, Record,
        Reject, storeVars
  <2>3. CASE Exchange(r)
    BY <1>2, <2>3
    DEF Exchange, FindSession, FindNoSession, InsertSession, LoadContext, StoreUser,
        Generate, StoreReply, Count, Touch, WriteSession, WriteCount, storeVars
  <2>4. CASE Raise(r)
    BY <1>2, <2>4 DEF Raise, MaybeApplied, WriteSession, WriteCount, storeVars
  <2>. QED
    BY <1>2, <2>1, <2>2, <2>3, <2>4 DEF Step
<1>3. ASSUME NEW r \in Requests, Submit(r) PROVE messages' = messages
  BY <1>3 DEF Submit, storeVars
<1>. QED
  BY <1>1, <1>2, <1>3 DEF Next, AllAnswered, vars, storeVars

\* What a step of r does to the counts and to the two sets of requests.  Only
\* Count and a call that raises in its place write a count.
LEMMA CountSteps ==
  ASSUME IInv, NEW r \in Requests, Submit(r) \/ Step(r)
  PROVE  /\ PastCount \subseteq PastCount'
         /\ r \notin Counted' \/ (r \in Counted /\ messages' = messages) \/ Count(r)
         /\ \/ messageCount' = messageCount
            \/ Count(r)
            \/ /\ pc[r] = "count" /\ WriteCount(r) /\ UNCHANGED <<session, path>>
               /\ pc'[r] = "done" /\ resp'[r] = "confused"
<1>1. FramesOthers(r)
  BY StepsFrameOthers DEF Step
<1>2. /\ r \in PastCount => r \in PastCount'
      /\ r \notin Counted' \/ (r \in Counted /\ messages' = messages) \/ Count(r)
      /\ \/ messageCount' = messageCount
         \/ Count(r)
         \/ /\ pc[r] = "count" /\ WriteCount(r) /\ UNCHANGED <<session, path>>
            /\ pc'[r] = "done" /\ resp'[r] = "confused"
  <2>. USE DEF At, Goto, Return, IInv, TypeOK, Control, DatabaseCalls, Labels, PastCount,
               Counted, None, storeVars
  <2>1. CASE Submit(r) \/ FetchFails(r) \/ FetchUnknown(r) \/ RouteShed(r) \/ PollTimesOut(r)
    BY <2>1 DEF Submit, FetchFails, FetchUnknown, RouteShed, RoutedTo, PollTimesOut
  <2>2. CASE RouteAndEnter(r) \/ RouteAndWait(r) \/ PollAcquires(r)
    BY <2>2
    DEF RouteAndEnter, RouteAndWait, PollAcquires, RoutedTo, EnterSafe, EnterBlocked
  <2>3. CASE CountAllows(r) \/ CountRejectsFirst(r) \/ Record(r)
    BY <2>3 DEF CountAllows, CountRejectsFirst, Record
  <2>4. CASE CountRejectsAgain(r) \/ Notify(r)
    BY <2>4 DEF CountRejectsAgain, Notify, Reject
  <2>5. CASE FindSession(r) \/ FindNoSession(r) \/ InsertSession(r)
    BY <2>5 DEF FindSession, FindNoSession, InsertSession, EnterSession, WriteSession
  <2>6. CASE LoadContext(r) \/ StoreUser(r) \/ Generate(r) \/ StoreReply(r)
    BY <2>6 DEF LoadContext, StoreUser, Generate, StoreReply, WriteMessage
  <2>7. CASE Count(r)
    BY <2>7 DEF Count
  <2>8. CASE Touch(r)
    BY <2>8 DEF Touch
  <2>9. CASE Raise(r)
    BY <2>9 DEF Raise, MaybeApplied, WriteSession, WriteMessage, WriteCount
  <2>. QED
    BY <2>1, <2>2, <2>3, <2>4, <2>5, <2>6, <2>7, <2>8, <2>9
    DEF Step, Admission, LimitCheck, Exchange
<1>. QED
  BY <1>1, <1>2 DEF FramesOthers, PastCount

\* The two messages of a request about to be counted, all that it has.
LEMMA TwoMessages ==
  ASSUME IInv, StoreInv, NEW r \in Requests, pc[r] = "count"
  PROVE  \E asked, answered :
           /\ asked # answered
           /\ asked.request = r /\ answered.request = r
           /\ asked.session = session[r] /\ answered.session = session[r]
           /\ {m \in messages : m.request = r} = {asked, answered}
<1>. DEFINE asked    == [session |-> session[r], request |-> r, role |-> "user"]
            answered == [session |-> session[r], request |-> r, role |-> "assistant"]
<1>1. asked \in messages /\ answered \in messages
  BY DEF StoreInv, Progress, HasMessage
<1>2. asked # answered
  BY ONLY asked.role = "user", answered.role = "assistant"
<1>3. ASSUME NEW m \in messages, m.request = r PROVE m \in {asked, answered}
  BY <1>3 DEF StoreInv, MessagesPlaced, IInv, TypeOK
<1>. QED
  BY <1>1, <1>2, <1>3

\* The upper bound after a step of r: the ordinary messages of a session can
\* only become more, and two more are there when its count goes up by two.
LEMMA NextCountUpper ==
  ASSUME IInv, StoreInv, CountInv, IsFiniteSet(messages), IsFiniteSet(messages'),
         NEW r \in Requests, Submit(r) \/ Step(r), NEW s \in SessionIds
  PROVE  messageCount'[s] <= Cardinality(MessagesOf(s, PastCount)')
<1>1. /\ messages \subseteq messages'
      /\ PastCount \subseteq PastCount'
  BY StepsFrameOthers, CountSteps DEF Step, FramesOthers
<1>2. /\ MessagesOf(s, PastCount) \subseteq MessagesOf(s, PastCount)'
      /\ IsFiniteSet(MessagesOf(s, PastCount)') /\ IsFiniteSet(MessagesOf(s, PastCount))
  BY <1>1, FS_Subset DEF MessagesOf
<1>3. /\ Cardinality(MessagesOf(s, PastCount)) \in Nat
      /\ Cardinality(MessagesOf(s, PastCount)') \in Nat
      /\ messageCount[s] \in Nat
      /\ messageCount[s] <= Cardinality(MessagesOf(s, PastCount))
  BY <1>2, FS_CardinalityType DEF CountInv, IInv, TypeOK
<1>4. CASE messageCount'[s] = messageCount[s]
  BY <1>2, <1>3, <1>4, FS_Subset
<1>5. CASE messageCount'[s] # messageCount[s]
  <2>1. /\ pc[r] = "count" /\ path[r] = "normal" /\ WriteCount(r) /\ r \in PastCount'
    BY <1>5, CountSteps
    DEF Count, At, Goto, PastCount, IInv, TypeOK, Control
  <2>2. s = session[r] /\ messageCount'[s] = messageCount[s] + 2
    BY <1>5, <2>1 DEF WriteCount, IInv, TypeOK, Control
  <2>3. PICK asked, answered :
          /\ asked # answered
          /\ asked.request = r /\ answered.request = r
          /\ asked.session = session[r] /\ answered.session = session[r]
          /\ {m \in messages : m.request = r} = {asked, answered}
    BY <2>1, TwoMessages
  <2>4. MessagesOf(s, PastCount) \cup {asked, answered} \subseteq MessagesOf(s, PastCount)'
    BY <1>1, <1>2, <2>1, <2>2, <2>3 DEF MessagesOf
  <2>5. asked \notin MessagesOf(s, PastCount) /\ answered \notin MessagesOf(s, PastCount)
    BY <2>1, <2>3 DEF MessagesOf, PastCount
  <2>6. Cardinality(MessagesOf(s, PastCount) \cup {asked, answered})
          = Cardinality(MessagesOf(s, PastCount)) + 2
    BY <1>2, <2>3, <2>5, TwoMore
  <2>7. Cardinality(MessagesOf(s, PastCount)) + 2 <= Cardinality(MessagesOf(s, PastCount)')
    BY <1>2, <2>4, <2>6, FS_Subset
  <2>. QED
    BY <1>3, <2>2, <2>7
<1>. QED
  BY <1>4, <1>5

\* The lower bound: only Count itself adds messages to those surely counted.
LEMMA NextCountLower ==
  ASSUME IInv, StoreInv, CountInv, IsFiniteSet(messages), IsFiniteSet(messages'),
         NEW r \in Requests, Submit(r) \/ Step(r), NEW s \in SessionIds
  PROVE  messageCount'[s] >= Cardinality(MessagesOf(s, Counted)')
<1>1. FramesOthers(r)
  BY StepsFrameOthers DEF Step
<1>2. IsFiniteSet(MessagesOf(s, Counted)') /\ IsFiniteSet(MessagesOf(s, Counted))
  BY FS_Subset DEF MessagesOf
<1>3. /\ Cardinality(MessagesOf(s, Counted)) \in Nat
      /\ Cardinality(MessagesOf(s, Counted)') \in Nat
      /\ messageCount[s] \in Nat
      /\ messageCount[s] >= Cardinality(MessagesOf(s, Counted))
  BY <1>2, FS_CardinalityType DEF CountInv, IInv, TypeOK
<1>4. \A x \in Requests \ {r} : x \in Counted' <=> x \in Counted
  BY <1>1 DEF FramesOthers, Counted
<1>5. CASE ~Count(r)
  <2>1. MessagesOf(s, Counted)' \subseteq MessagesOf(s, Counted)
    <3>1. r \notin Counted' \/ (r \in Counted /\ messages' = messages)
      BY <1>5, CountSteps
    <3>2. Counted' \subseteq Requests
      BY DEF Counted
    <3>. QED
      BY <1>1, <1>4, <3>1, <3>2 DEF FramesOthers, MessagesOf
  <2>2. messageCount'[s] >= messageCount[s]
    BY <1>5, CountSteps DEF WriteCount, IInv, TypeOK, Control
  <2>3. messageCount'[s] \in Nat
    BY NextIInv DEF Next, IInv, TypeOK
  <2>. QED
    BY <1>2, <1>3, <2>1, <2>2, <2>3, FS_Subset
<1>6. CASE Count(r)
  <2>1. pc[r] = "count" /\ WriteCount(r) /\ messages' = messages
    BY <1>6 DEF Count, At, WriteCount
  <2>2. PICK asked, answered :
          /\ asked # answered
          /\ asked.request = r /\ answered.request = r
          /\ asked.session = session[r] /\ answered.session = session[r]
          /\ {m \in messages : m.request = r} = {asked, answered}
    BY <2>1, TwoMessages
  <2>3. CASE s = session[r]
    <3>1. messageCount'[s] = messageCount[s] + 2
      BY <2>1, <2>3 DEF WriteCount, IInv, TypeOK, Control
    <3>2. MessagesOf(s, Counted)' \subseteq MessagesOf(s, Counted) \cup {asked, answered}
      <4>1. Counted' \subseteq Requests
        BY DEF Counted
      <4>. QED
        BY <1>4, <2>1, <2>2, <4>1 DEF MessagesOf
    <3>3. /\ IsFiniteSet(MessagesOf(s, Counted) \cup {asked, answered})
          /\ Cardinality(MessagesOf(s, Counted) \cup {asked, answered})
               <= Cardinality(MessagesOf(s, Counted)) + 2
      BY <1>2, TwoMore
    <3>4. /\ Cardinality(MessagesOf(s, Counted)')
               <= Cardinality(MessagesOf(s, Counted) \cup {asked, answered})
          /\ Cardinality(MessagesOf(s, Counted) \cup {asked, answered}) \in Nat
      BY <3>2, <3>3, FS_Subset, FS_CardinalityType
    <3>. QED
      BY <1>3, <3>1, <3>3, <3>4
  <2>4. CASE s # session[r]
    <3>1. messageCount'[s] = messageCount[s]
      BY <2>1, <2>4 DEF WriteCount, IInv, TypeOK, Control
    <3>2. MessagesOf(s, Counted)' \subseteq MessagesOf(s, Counted)
      <4>1. Counted' \subseteq Requests
        BY DEF Counted
      <4>. QED
        BY <1>4, <2>1, <2>2, <2>4, <4>1 DEF MessagesOf
    <3>. QED
      BY <1>2, <1>3, <3>1, <3>2, FS_Subset
  <2>. QED
    BY <2>3, <2>4
<1>. QED
  BY <1>5, <1>6

LEMMA InitCounts == Init => IsFiniteSet(messages) /\ CountInv
<1> SUFFICES ASSUME Init PROVE IsFiniteSet(messages) /\ CountInv
  OBVIOUS
<1>1. \A s, R : MessagesOf(s, R) = {}
  BY DEF Init, MessagesOf
<1>. QED
  BY <1>1, FS_EmptySet DEF Init, CountInv

LEMMA NextCounts ==
  IInv /\ StoreInv /\ IsFiniteSet(messages) /\ CountInv /\ [Next]_vars
    => IsFiniteSet(messages)' /\ CountInv'
<1> SUFFICES ASSUME IInv, StoreInv, IsFiniteSet(messages), CountInv, [Next]_vars
             PROVE  IsFiniteSet(messages)' /\ CountInv'
  OBVIOUS
<1>1. IsFiniteSet(messages')
  BY NextFiniteMessages
<1>2. ASSUME NEW r \in Requests, Submit(r) \/ Step(r) PROVE CountInv'
  BY <1>1, <1>2, NextCountUpper, NextCountLower DEF CountInv
<1>3. CASE UNCHANGED vars
  BY <1>3 DEF vars, taskVars, storeVars, CountInv, MessagesOf, PastCount, Counted
<1>. QED
  BY <1>1, <1>2, <1>3 DEF Next, AllAnswered

\* A session's message_count never runs ahead of the ordinary exchanges stored
\* in it and covers every exchange whose client was answered with it, whatever
\* fails and however the requests of a user interleave.
THEOREM CountWithinMessagesHolds == Spec => []CountWithinMessages
<1>1. IInv /\ IsFiniteSet(messages) /\ CountInv => CountWithinMessages
  <2> SUFFICES ASSUME IInv, IsFiniteSet(messages), CountInv, NEW s \in SessionIds
               PROVE  /\ messageCount[s]
                           <= Cardinality(MessagesOf(s, {r \in Requests : path[r] = "normal"}))
                      /\ messageCount[s]
                           >= Cardinality(MessagesOf(s, {r \in Requests : resp[r] = "ok"}))
    BY DEF CountWithinMessages
  <2>. DEFINE Normal == MessagesOf(s, {r \in Requests : path[r] = "normal"})
              Ok     == MessagesOf(s, {r \in Requests : resp[r] = "ok"})
  <2>1. MessagesOf(s, PastCount) \subseteq Normal /\ Ok \subseteq MessagesOf(s, Counted)
    BY DEF MessagesOf, PastCount, Counted
  <2>2. IsFiniteSet(Normal) /\ IsFiniteSet(MessagesOf(s, Counted))
    BY FS_Subset DEF MessagesOf
  <2>. HIDE DEF Normal, Ok
  <2>3. /\ Cardinality(MessagesOf(s, PastCount)) <= Cardinality(Normal)
        /\ Cardinality(Ok) <= Cardinality(MessagesOf(s, Counted))
    BY <2>1, <2>2, FS_Subset
  <2>4. /\ Cardinality(MessagesOf(s, PastCount)) \in Nat /\ Cardinality(Normal) \in Nat
        /\ Cardinality(Ok) \in Nat /\ Cardinality(MessagesOf(s, Counted)) \in Nat
    BY <2>1, <2>2, FS_Subset, FS_CardinalityType
  <2>5. messageCount[s] \in Nat
    BY DEF IInv, TypeOK
  <2>. QED
    BY <2>3, <2>4, <2>5 DEF CountInv, Normal, Ok
<1>. QED
  BY <1>1, InitIInv, NextIInv, InitStore, NextStore, InitCounts, NextCounts, PTL DEF Spec

-----------------------------------------------------------------------------
(* The metrics of the pools *)

\* The events that end a request's work in its pool.
Ending == {"message_processed", "safety_blocked", "rate_limited", "error"}

\* A step of r that the metrics do not see: no ending event, and r is in the
\* same pool or has none behind it.
Unmetered(r) ==
  /\ UNCHANGED <<total, errors>>
  /\ \A e \in events' \ events : e[2] \notin Ending
  /\ pool'[r] = pool[r] \/ \A e \in events : e[1] = r => e[2] \notin Ending

\* A step of r that ends its work in its pool, with the event that says so.
Metered(r, type) ==
  /\ type \in Ending
  /\ pool'[r] \in Pools
  /\ total' = [total EXCEPT ![pool'[r]] = @ + 1]
  /\ errors' = [errors EXCEPT ![pool'[r]] = IF type = "error" THEN @ + 1 ELSE @]
  /\ <<r, type>> \notin events /\ <<r, type>> \in events'
  /\ \A e \in events' \ events : e = <<r, type>> \/ e[2] \notin Ending
  /\ pool'[r] = pool[r] \/ \A e \in events : e[1] = r => e[2] \notin Ending

LEMMA NoEndingYet ==
  ASSUME IInv, EventsInv, NEW r \in Requests, path[r] = "normal", resp[r] = None
  PROVE  \A e \in events : e[1] = r => e[2] \notin Ending
<1> SUFFICES ASSUME NEW e \in events, e[1] = r, e[2] \in Ending PROVE FALSE
  OBVIOUS
<1>1. e = <<r, e[2]>> /\ e[2] \in EventTypes \ {"pool_routed"}
  BY DEF IInv, TypeOK, EventTypes, Ending
<1>2. e[2] \in Told(r)
  BY <1>1 DEF EventsInv
<1>. QED
  BY <1>2 DEF Told, Beginning, None

LEMMA AdmissionMetered ==
  ASSUME IInv, EventsInv, NEW r \in Requests, Submit(r) \/ Admission(r)
  PROVE  Unmetered(r) \/ Metered(r, "safety_blocked")
<1>. USE DEF At, Goto, Return, Track
<1>1. path[r] = "normal" /\ resp[r] = None /\ pc[r] \in {"idle", "fetch", "wait"}
  BY DEF IInv, Control, Submit, Admission, FetchFails, FetchUnknown, RouteShed,
         RouteAndEnter, RouteAndWait, RoutedTo, PollAcquires, PollTimesOut
<1>2. \A e \in events : e[1] = r => e[2] \notin Ending
  BY <1>1, NoEndingYet
<1>3. CASE Submit(r) \/ FetchFails(r) \/ FetchUnknown(r) \/ PollTimesOut(r)
  BY <1>2, <1>3
  DEF Submit, FetchFails, FetchUnknown, PollTimesOut, Unmetered, poolVars
<1>4. CASE RouteShed(r) \/ RouteAndWait(r)
  <2>1. PICK type \in {"load_shed", "pool_routed"} : events' = events \cup {<<r, type>>}
    BY <1>4 DEF RouteShed, RouteAndWait
  <2>2. \A e \in events' \ events : e[2] = type
    BY <2>1
  <2>3. UNCHANGED <<total, errors>>
    BY <1>4 DEF RouteShed, RouteAndWait, poolVars
  <2>. QED
    BY <1>2, <2>2, <2>3 DEF Unmetered, Ending
<1>5. ASSUME NEW p \in Pools, NEW tracked \in SUBSET {<<r, "pool_routed">>},
             pool'[r] = p, EnterSafe(r, p, tracked) \/ EnterBlocked(r, p, tracked)
      PROVE  Unmetered(r) \/ Metered(r, "safety_blocked")
  <2>1. \A e \in tracked : e[2] \notin Ending
    BY DEF Ending
  <2>2. CASE EnterSafe(r, p, tracked)
    BY <1>2, <2>1, <2>2 DEF EnterSafe, Acquire, Unmetered
  <2>3. CASE EnterBlocked(r, p, tracked)
    <3>. DEFINE blocked == <<r, "safety_blocked">>
    <3>1. /\ events' = events \cup tracked \cup {blocked}
          /\ total' = [total EXCEPT ![p] = @ + 1] /\ errors' = errors
      BY <2>3 DEF EnterBlocked, AcquireAndRelease
    <3>2. blocked \notin events
      BY <1>2 DEF Ending
    <3>3. errors' = [errors EXCEPT ![p] = IF "safety_blocked" = "error" THEN @ + 1 ELSE @]
      BY <3>1 DEF IInv, TypeOK, PoolsTypeOK
    <3>. QED
      BY <1>2, <1>5, <2>1, <3>1, <3>2, <3>3 DEF Metered, Ending
  <2>. QED
    BY <1>5, <2>2, <2>3
<1>6. CASE RouteAndEnter(r)
  <2>1. PICK p \in Pools :
          /\ pool' = [pool EXCEPT ![r] = p]
          /\ \/ EnterSafe(r, p, {<<r, "pool_routed">>})
             \/ EnterBlocked(r, p, {<<r, "pool_routed">>})
    BY <1>6 DEF RouteAndEnter
  <2>2. pool'[r] = p
    BY <2>1 DEF IInv, TypeOK
  <2>. QED
    BY <1>5, <2>1, <2>2
<1>7. CASE PollAcquires(r)
  <2>1. /\ pool[r] \in Pools /\ pool'[r] = pool[r]
        /\ EnterSafe(r, pool[r], {}) \/ EnterBlocked(r, pool[r], {})
    BY <1>7 DEF PollAcquires, IInv, Control
  <2>. QED
    BY <1>5, <2>1
<1>. QED
  BY <1>3, <1>4, <1>6, <1>7 DEF Admission

LEMMA LaterMetered ==
  ASSUME IInv, EventsInv, NEW r \in Requests, LimitCheck(r) \/ Exchange(r) \/ Raise(r)
  PROVE  \/ Unmetered(r)
         \/ Metered(r, "rate_limited")
         \/ Metered(r, "message_processed")
         \/ Metered(r, "error")
<1>. USE DEF At, Goto, Return, Track
<1>1. /\ pc[r] \in DatabaseCalls \cup {"llm"}
      /\ resp[r] = None /\ pool[r] \in Pools
  BY DEF IInv, Control, LimitCheck, Exchange, Raise, CountAllows, CountRejectsFirst,
         CountRejectsAgain, Notify, Record, FindSession, FindNoSession, InsertSession,
         LoadContext, StoreUser, Generate, StoreReply, Count, Touch, DatabaseCalls, Labels
<1>2. ASSUME NEW type \in Ending, NEW error \in BOOLEAN, error <=> type = "error",
             <<r, type>> \notin events, Track(r, type), Release(pool[r], error),
             UNCHANGED pool
      PROVE  Metered(r, type)
  <2>. DEFINE ended == <<r, type>>
  <2>1. events' = events \cup {ended} /\ ended \notin events
    BY <1>2
  <2>. QED
    BY <1>1, <1>2, <2>1 DEF Metered, Release
<1>3. CASE CountRejectsAgain(r) \/ Notify(r)
  <2>1. path[r] = "normal"
    BY <1>3 DEF CountRejectsAgain, Notify, IInv, Control
  <2>2. <<r, "rate_limited">> \notin events
    BY <1>1, <2>1, NoEndingYet DEF Ending
  <2>3. Track(r, "rate_limited") /\ Release(pool[r], FALSE) /\ UNCHANGED pool
    BY <1>3 DEF CountRejectsAgain, Notify, Reject
  <2>. QED
    BY <1>2, <2>2, <2>3 DEF Ending
<1>4. CASE Touch(r)
  <2>1. path[r] = "normal"
    BY <1>4 DEF Touch, IInv, Control
  <2>2. <<r, "message_processed">> \notin events
    BY <1>1, <2>1, NoEndingYet DEF Ending
  <2>. QED
    BY <1>2, <1>4, <2>2 DEF Touch, Ending
<1>5. CASE Raise(r)
  <2>1. <<r, "error">> \notin events
    <3>1. "error" \notin Told(r)
      BY <1>1 DEF Told, Beginning, IInv, TypeOK, Paths, None
    <3>. QED
      BY <3>1 DEF EventsInv, EventTypes
  <2>. QED
    BY <1>2, <1>5, <2>1 DEF Raise, Ending
<1>6. CASE CountAllows(r) \/ CountRejectsFirst(r) \/ Record(r)
  BY <1>6 DEF CountAllows, CountRejectsFirst, Record, Unmetered, poolVars
<1>7. CASE FindSession(r) \/ FindNoSession(r) \/ InsertSession(r)
  BY <1>7 DEF FindSession, FindNoSession, InsertSession, EnterSession, Unmetered, poolVars
<1>8. CASE LoadContext(r) \/ StoreUser(r) \/ Generate(r) \/ StoreReply(r) \/ Count(r)
  BY <1>8 DEF LoadContext, StoreUser, Generate, StoreReply, Count, Unmetered, poolVars
<1>. QED
  BY <1>3, <1>4, <1>5, <1>6, <1>7, <1>8 DEF LimitCheck, Exchange

\* The events of a pool, counted, after either kind of step.
LEMMA UnmeteredEvents ==
  ASSUME IInv, NEW r \in Requests, FramesOthers(r), Unmetered(r),
         NEW p \in Pools, NEW types \in SUBSET Ending
  PROVE  EventsOf(p, types)' = EventsOf(p, types)
<1>1. \A e \in events : e[1] \in Requests
  BY DEF IInv, TypeOK
<1>. QED
  BY <1>1 DEF FramesOthers, Unmetered, EventsOf

LEMMA MeteredEvents ==
  ASSUME IInv, IsFiniteSet(events), NEW r \in Requests, FramesOthers(r),
         NEW type, Metered(r, type),
         NEW p \in Pools, NEW types \in SUBSET Ending
  PROVE  /\ Cardinality(EventsOf(p, types)) \in Nat
         /\ Cardinality(EventsOf(p, types)')
              = IF p = pool'[r] /\ type \in types
                THEN Cardinality(EventsOf(p, types)) + 1
                ELSE Cardinality(EventsOf(p, types))
<1>. DEFINE ended == <<r, type>>
<1>1. \A e \in events : e[1] \in Requests
  BY DEF IInv, TypeOK
<1>2. /\ ended[1] = r /\ ended[2] = type
      /\ ended \notin events /\ ended \in events'
      /\ \A e \in events' \ events : e = ended \/ e[2] \notin Ending
  BY DEF Metered
<1>3. IsFiniteSet(EventsOf(p, types)) /\ ended \notin EventsOf(p, types)
  BY <1>2, FS_Subset DEF EventsOf
<1>. HIDE DEF ended
<1>4. \A e \in events : e[2] \in Ending => pool'[e[1]] = pool[e[1]]
  BY <1>1 DEF FramesOthers, Metered
<1>5. events \subseteq events'
  BY DEF FramesOthers
<1>6. CASE p = pool'[r] /\ type \in types
  <2>1. EventsOf(p, types)' = EventsOf(p, types) \cup {ended}
    BY <1>2, <1>4, <1>5, <1>6 DEF EventsOf
  <2>. QED
    BY <1>3, <1>6, <2>1, FS_AddElement, FS_CardinalityType
<1>7. CASE ~(p = pool'[r] /\ type \in types)
  <2>1. EventsOf(p, types)' = EventsOf(p, types)
    BY <1>2, <1>4, <1>5, <1>7 DEF EventsOf
  <2>. QED
    BY <1>3, <1>7, <2>1, FS_CardinalityType
<1>. QED
  BY <1>6, <1>7

LEMMA EventsFinite == TypeOK => IsFiniteSet(events)
<1>1. IsFiniteSet(EventTypes)
  <2>1. IsFiniteSet({}) /\ EventTypes = ((((({} \cup {"pool_routed"}) \cup {"load_shed"})
          \cup {"safety_blocked"}) \cup {"rate_limited"}) \cup {"message_processed"}) \cup {"error"}
    BY FS_EmptySet DEF EventTypes
  <2>. QED
    BY <2>1, FS_AddElement
<1>. QED
  BY <1>1, RequestsAssumption, FS_Product, FS_Subset DEF TypeOK

LEMMA NextMetrics ==
  IInv /\ EventsInv /\ MetricsMatchEvents /\ [Next]_vars => MetricsMatchEvents'
<1> SUFFICES ASSUME IInv, EventsInv, MetricsMatchEvents, [Next]_vars
             PROVE  MetricsMatchEvents'
  OBVIOUS
<1>1. \A p \in Pools : /\ total[p] = Cardinality(EventsOf(p, Ending))
                       /\ errors[p] = Cardinality(EventsOf(p, {"error"}))
  BY DEF MetricsMatchEvents, Ending
<1>2. ASSUME NEW r \in Requests, Submit(r) \/ Step(r), NEW p \in Pools
      PROVE  /\ total'[p] = Cardinality(EventsOf(p, Ending)')
             /\ errors'[p] = Cardinality(EventsOf(p, {"error"})')
  <2>1. FramesOthers(r)
    BY <1>2, StepsFrameOthers DEF Step
  <2>2. {"error"} \in SUBSET Ending /\ Ending \in SUBSET Ending
    BY DEF Ending
  <2>3. CASE Unmetered(r)
    BY <1>1, <2>1, <2>2, <2>3, UnmeteredEvents DEF Unmetered
  <2>4. ASSUME NEW type, Metered(r, type)
        PROVE  /\ total'[p] = Cardinality(EventsOf(p, Ending)')
               /\ errors'[p] = Cardinality(EventsOf(p, {"error"})')
    <3>1. IsFiniteSet(events)
      BY EventsFinite DEF IInv
    <3>2. /\ Cardinality(EventsOf(p, Ending)')
               = IF p = pool'[r] THEN Cardinality(EventsOf(p, Ending)) + 1
                 ELSE Cardinality(EventsOf(p, Ending))
          /\ Cardinality(EventsOf(p, {"error"})')
               = IF p = pool'[r] /\ type = "error"
                 THEN Cardinality(EventsOf(p, {"error"})) + 1
                 ELSE Cardinality(EventsOf(p, {"error"}))
      <4>1. type \in Ending
        BY <2>4 DEF Metered
      <4>. QED
        BY <2>1, <2>2, <2>4, <3>1, <4>1, MeteredEvents
    <3>3. total \in [Pools -> Nat] /\ errors \in [Pools -> Nat]
      BY DEF IInv, TypeOK, PoolsTypeOK
    <3>. QED
      BY <1>1, <2>4, <3>2, <3>3 DEF Metered
  <2>. QED
    BY <1>2, <2>3, <2>4, AdmissionMetered, LaterMetered DEF Step
<1>3. CASE UNCHANGED vars
  BY <1>3 DEF vars, taskVars, poolVars, MetricsMatchEvents, EventsOf
<1>. QED
  BY <1>2, <1>3 DEF Next, AllAnswered, MetricsMatchEvents, Ending

\* The metrics of the pools and the analytics events, which are updated in
\* different places, tell the same story, request by request.
THEOREM MetricsMatchEventsHolds == Spec => []MetricsMatchEvents
<1>1. Init => MetricsMatchEvents
  <2> SUFFICES ASSUME Init PROVE MetricsMatchEvents
    OBVIOUS
  <2>1. \A p, types : EventsOf(p, types) = {}
    BY DEF Init, EventsOf
  <2>. QED
    BY <2>1, FS_EmptySet DEF Init, PoolsInit, MetricsMatchEvents
<1>. QED
  BY <1>1, InitIInv, NextIInv, InitEvents, NextEvents, NextMetrics, PTL DEF Spec

-----------------------------------------------------------------------------
(* The safety filter *)

\* The first match of a text is one of its matches.
LEMMA FirstHitHits ==
  ASSUME NEW t, Hits(t) # {}
  PROVE  FirstHit(t) \in Hits(t)
<1>1. Hits(t) \in SUBSET Nat
  BY DEF Hits, Patterns
<1>2. \E i \in Hits(t) : \A j \in Hits(t) : i <= j
  BY <1>1, LeastExists
<1>. QED
  BY <1>2 DEF FirstHit

\* No match is worth less than the threshold.
LEMMA NeverBelowThreshold ==
  ASSUME NEW t, t.length \in Nat, NEW match \in Nat
  PROVE  ~BelowThreshold(t, match)
<1>. DEFINE n == t.length
<1>1. n \in Nat
  OBVIOUS
<1>2. ~(IF 7 * n + 3 * match < 10 * n THEN 7 * n + 3 * match ELSE 10 * n) < 7 * n
  BY <1>1, SMT
<1>. QED
  BY <1>2 DEF BelowThreshold, Confidence

\* Whatever a request carries is safe exactly when no pattern matches it.
LEMMA MatchesDecide ==
  ASSUME NEW t \in Texts \cup {NoText}
  PROVE  CheckSafety(t).safe <=> Hits(t) = {}
<1>1. CASE Hits(t) = {}
  BY <1>1 DEF CheckSafety
<1>2. CASE Hits(t) # {}
  <2>. DEFINE first == FirstHit(t)
  <2>1. first \in Patterns /\ t.hits[first] > 0
    BY <1>2, FirstHitHits DEF Hits
  <2>2. t \in Texts
    BY <2>1 DEF NoText
  <2>3. t.length \in Nat /\ t.hits[first] \in Nat
    BY <2>1, <2>2, FilterAssumption
  <2>4. ~BelowThreshold(t, t.hits[first])
    BY <2>3, NeverBelowThreshold
  <2>5. CheckSafety(t).safe = BelowThreshold(t, t.hits[first])
    BY <1>2 DEF CheckSafety
  <2>. QED
    BY <1>2, <2>4, <2>5
<1>. QED
  BY <1>1, <1>2

\* A request whose text matches leaves the filter on the blocked path or, from
\* before it, with an answer that says so; any other is never on that path.
FilterInv ==
  \A r \in Requests :
    /\ Hits(text[r]) # {} =>
         \/ /\ path[r] = "normal" /\ pc[r] \in {"idle", "fetch", "wait", "done"}
            /\ resp[r] \in {None, "unknown", "shed", "http500"}
         \/ path[r] = "blocked" /\ resp[r] \in {None, "blocked", "confused"}
    /\ Hits(text[r]) = {} => path[r] # "blocked" /\ resp[r] # "blocked"

\* The two ways past the filter, by whether the text matches.
LEMMA AdmissionScreens ==
  ASSUME IInv, NEW r \in Requests, Admission(r)
  PROVE  \/ /\ path'[r] = "normal" /\ pc'[r] \in {"wait", "done"}
            /\ resp'[r] \in {None, "unknown", "shed", "http500"}
         \/ Hits(text[r]) = {} /\ path'[r] = "normal" /\ resp'[r] = None
         \/ Hits(text[r]) # {} /\ path'[r] = "blocked" /\ resp'[r] = None
<1>. USE DEF At, Goto, Return, IInv, TypeOK, Control
<1>1. CASE FetchFails(r) \/ FetchUnknown(r) \/ RouteShed(r) \/ RouteAndWait(r)
           \/ PollTimesOut(r)
  BY <1>1 DEF FetchFails, FetchUnknown, RouteShed, RouteAndWait, PollTimesOut, RoutedTo
<1>2. ASSUME NEW p, NEW tracked, pc[r] \in {"fetch", "wait"}, UNCHANGED resp,
             EnterSafe(r, p, tracked) \/ EnterBlocked(r, p, tracked)
      PROVE  \/ Hits(text[r]) = {} /\ path'[r] = "normal" /\ resp'[r] = None
             \/ Hits(text[r]) # {} /\ path'[r] = "blocked" /\ resp'[r] = None
  <2>1. path[r] = "normal" /\ resp[r] = None /\ path \in [Requests -> Paths]
    BY <1>2
  <2>2. CheckSafety(text[r]).safe <=> Hits(text[r]) = {}
    BY MatchesDecide
  <2>. QED
    BY <1>2, <2>1, <2>2 DEF EnterSafe, EnterBlocked
<1>3. CASE RouteAndEnter(r) \/ PollAcquires(r)
  BY <1>2, <1>3 DEF RouteAndEnter, RoutedTo, PollAcquires
<1>. QED
  BY <1>1, <1>3 DEF Admission

\* Later steps: past the filter nothing turns a path into the blocked one, and
\* the blocked path leads to its own answer or to the exception handler's.
LEMMA LaterStays ==
  ASSUME IInv, NEW r \in Requests, LimitCheck(r) \/ Exchange(r) \/ Raise(r)
  PROVE  /\ pc[r] \notin {"idle", "fetch", "wait", "done"}
         /\ path[r] = "blocked" =>
              path'[r] = "blocked" /\ resp'[r] \in {None, "blocked", "confused"}
         /\ path[r] # "blocked" => path'[r] # "blocked" /\ resp'[r] # "blocked"
<1>. USE DEF At, Goto, Return, IInv, TypeOK, Control, DatabaseCalls, Labels, None
<1>1. CASE LimitCheck(r)
  BY <1>1 DEF LimitCheck, CountAllows, CountRejectsFirst, CountRejectsAgain, Notify,
              Record, Reject
<1>2. CASE FindSession(r) \/ FindNoSession(r) \/ InsertSession(r)
  BY <1>2 DEF FindSession, FindNoSession, InsertSession, EnterSession
<1>3. CASE LoadContext(r) \/ StoreUser(r) \/ Generate(r) \/ StoreReply(r) \/ Count(r)
  BY <1>3 DEF LoadContext, StoreUser, Generate, StoreReply, Count
<1>4. CASE Touch(r) \/ Raise(r)
  BY <1>4 DEF Touch, Raise
<1>. QED
  BY <1>1, <1>2, <1>3, <1>4 DEF Exchange

LEMMA NextFilter == IInv /\ FilterInv /\ [Next]_vars => FilterInv'
<1> SUFFICES ASSUME IInv, FilterInv, [Next]_vars PROVE FilterInv'
  OBVIOUS
<1>. DEFINE Row(x) ==
       /\ Hits(text[x]) # {} =>
            \/ /\ path[x] = "normal" /\ pc[x] \in {"idle", "fetch", "wait", "done"}
               /\ resp[x] \in {None, "unknown", "shed", "http500"}
            \/ path[x] = "blocked" /\ resp[x] \in {None, "blocked", "confused"}
       /\ Hits(text[x]) = {} => path[x] # "blocked" /\ resp[x] # "blocked"
<1>1. ASSUME NEW r \in Requests, Submit(r) \/ Step(r) PROVE FilterInv'
  <2>1. ASSUME NEW x \in Requests \ {r} PROVE Row(x)'
    <3>1. /\ pc'[x] = pc[x] /\ path'[x] = path[x] /\ resp'[x] = resp[x]
      BY <1>1, StepsFrameOthers DEF Step, FramesOthers
    <3>2. text'[x] = text[x]
      BY <1>1 DEF Submit, Step, IInv, TypeOK
    <3>. QED
      BY <3>1, <3>2 DEF FilterInv
  <2>2. CASE Submit(r)
    <3>1. pc'[r] = "fetch" /\ path'[r] = "normal" /\ resp'[r] = None
      BY <2>2 DEF Submit, At, Goto, IInv, TypeOK, Control
    <3>. QED
      BY <2>1, <3>1 DEF FilterInv, None
  <2>3. CASE Step(r)
    <3>1. text'[r] = text[r]
      BY <2>3 DEF Step
    <3>2. CASE Admission(r)
      <4>1. Row(r)'
        BY <3>1, <3>2, AdmissionScreens DEF None
      <4>. QED
        BY <2>1, <4>1 DEF FilterInv
    <3>3. CASE LimitCheck(r) \/ Exchange(r) \/ Raise(r)
      <4>1. Row(r)'
        BY <3>1, <3>3, LaterStays DEF FilterInv
      <4>. QED
        BY <2>1, <4>1 DEF FilterInv
    <3>. QED
      BY <2>3, <3>2, <3>3 DEF Step
  <2>. QED
    BY <1>1, <2>2, <2>3
<1>2. CASE UNCHANGED vars
  BY <1>2 DEF vars, taskVars, FilterInv
<1>. QED
  BY <1>1, <1>2 DEF Next, AllAnswered

\* Whatever the texts and however large the banks of patterns: a request whose
\* text matches any pattern, however slightly, never holds a slot across an
\* await, is not limited and is not answered; a request whose text matches none
\* is never blocked (filter.py 79-107, processor.py 167-192).
THEOREM MatchesAreBlockedHolds == Spec => []MatchesAreBlocked
<1>1. Init => FilterInv
  BY DEF Init, FilterInv, None
<1>2. IInv /\ EventsInv /\ FilterInv => MatchesAreBlocked
  <2> SUFFICES ASSUME IInv, EventsInv, FilterInv, NEW r \in Requests
               PROVE  IF Hits(text[r]) # {}
                      THEN /\ \A p \in Pools : r \notin Holders(p)
                           /\ resp[r] \notin {"ok", "limited", "silent"}
                           /\ Outcome(r) \cap {"rate_limited", "message_processed"} = {}
                      ELSE resp[r] # "blocked" /\ "safety_blocked" \notin Outcome(r)
    BY DEF MatchesAreBlocked
  <2>1. Outcome(r) = Told(r) /\ path[r] \in Paths
    BY OutcomeTold DEF IInv, TypeOK
  <2>2. CASE Hits(text[r]) # {}
    <3>1. \/ /\ path[r] = "normal" /\ pc[r] \in {"idle", "fetch", "wait", "done"}
             /\ resp[r] \in {None, "unknown", "shed", "http500"}
          \/ path[r] = "blocked" /\ resp[r] \in {None, "blocked", "confused"}
      BY <2>2 DEF FilterInv
    <3>2. Outcome(r) \cap {"rate_limited", "message_processed"} = {}
      BY <2>1, <3>1 DEF Told, Beginning, None
    <3>3. \A p \in Pools : r \notin Holders(p)
      BY <3>1 DEF Holders, Holding, DatabaseCalls, Labels
    <3>4. resp[r] \notin {"ok", "limited", "silent"}
      BY <3>1 DEF None
    <3>. QED
      BY <2>2, <3>2, <3>3, <3>4
  <2>3. CASE Hits(text[r]) = {}
    <3>1. path[r] # "blocked" /\ resp[r] # "blocked"
      BY <2>3 DEF FilterInv
    <3>2. "safety_blocked" \notin Outcome(r)
      BY <2>1, <3>1 DEF Told, Beginning, Paths
    <3>. QED
      BY <2>3, <3>1, <3>2
  <2>. QED
    BY <2>2, <2>3
<1>. QED
  BY <1>1, <1>2, InitIInv, NextIInv, InitEvents, NextEvents, NextFilter, PTL DEF Spec
=============================================================================
