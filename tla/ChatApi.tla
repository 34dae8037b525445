-------------------------------- MODULE ChatApi --------------------------------
(***************************************************************************)
(* POST /chat of app/api/routes.py: what a client is answered, as a        *)
(* function of the response that process() returned.                       *)
(***************************************************************************)
EXTENDS MessageProcessor

NoSession == "no session"

\* The session_id of a ChatResponse.
SessionIdOf(r) ==
  IF resp[r] \in {"ok", "blocked", "limited", "silent"} THEN session[r] ELSE NoSession

Status(r) ==
  CASE resp[r] = "shed"    -> 503
    [] resp[r] = "silent"  -> 429
    [] resp[r] = "http500" -> 500
    [] OTHER               -> 200

-----------------------------------------------------------------------------
(* Properties *)

Answered200(r) == resp[r] # None /\ Status(r) = 200

Stored(r) == {m \in messages : m.request = r}

\* What a client may conclude from its answer: told to come back later or that
\* the server failed, that nothing of the request was stored, so that sending
\* it again repeats nothing; given 200 and a session, that both sides of the
\* exchange are stored in it.
AnswerMatchesStore ==
  \A r \in Requests :
    /\ resp[r] # None /\ Status(r) # 200 => Stored(r) = {}
    /\ Answered200(r) /\ SessionIdOf(r) # NoSession =>
         /\ {m.role : m \in Stored(r)} = {"user", "assistant"}
         /\ \A m \in Stored(r) : m.session = SessionIdOf(r)
    /\ SessionIdOf(r) # NoSession => SessionIdOf(r) \in sessions

\* The analytics tell how every request ended: one event for each outcome, two
\* for a blocked or limited request that failed afterwards.  Only a request
\* that was shed after waiting, or that left before it was routed, has none.
Outcome(r) == {e[2] : e \in {f \in events : f[1] = r}} \ {"pool_routed"}

Beginning == [normal |-> {}, blocked |-> {"safety_blocked"},
              first |-> {"rate_limited"}, silent |-> {"rate_limited"}]

EventsTellOutcome ==
  \A r \in Requests :
    At(r, "done") =>
      Outcome(r) = Beginning[path[r]] \cup
        (CASE resp[r] = "ok"       -> {"message_processed"}
           [] resp[r] = "confused" -> {"error"}
           [] resp[r] = "shed" /\ pool[r] = None -> {"load_shed"}
           [] OTHER                -> {})

\* A request whose text matches a pattern, however slightly, never holds a slot
\* across an await, spends nothing of its user's rate limit and is not answered;
\* one whose text matches none is never blocked: the threshold that every match
\* reaches decides this, wherever the request came through the filter.
MatchesAreBlocked ==
  \A r \in Requests :
    IF Hits(text[r]) # {}
    THEN /\ \A p \in Pools : r \notin Holders(p)
         /\ resp[r] \notin {"ok", "limited", "silent"}
         /\ Outcome(r) \cap {"rate_limited", "message_processed"} = {}
    ELSE resp[r] # "blocked" /\ "safety_blocked" \notin Outcome(r)
=============================================================================
