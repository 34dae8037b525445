-------------------------------- MODULE Queries --------------------------------
(***************************************************************************)
(* The queries of app/db/queries.py, as functions of the collections they  *)
(* read, over the documents that Seeder describes.  A query that returns   *)
(* any one of several documents is the set of its possible results.        *)
(***************************************************************************)
EXTENDS Seeder, SequencesExt

CONSTANTS
  MessageLimit,   \* message_limit
  Cutoff          \* the oldest last_active_at or created_at that is recent

ASSUME QueriesAssumption == MessageLimit \in Nat \ {0} /\ Cutoff \in Nat

Least(a, b) == IF a < b THEN a ELSE b

\* The order of the messages: by created_at, and among equal times, where the
\* index decides, by their identifiers.
Newer(m, n) ==
  \/ m.at > n.at
  \/ /\ m.at = n.at
     /\ \/ m.id.oid[1] < n.id.oid[1]
        \/ m.id.oid[1] = n.id.oid[1] /\ m.id.oid[2] < n.id.oid[2]

\* Mutant: the oldest messages instead of the newest.
NewestFirstBackwards(ms) ==
  [i \in 1 .. Least(MessageLimit, Cardinality(ms)) |->
     CHOOSE m \in ms : Cardinality({n \in ms : Newer(m, n)}) = i - 1]

\* sort("created_at", -1).limit(MessageLimit): the i-th result is the message
\* that i - 1 of them are newer than.
NewestFirst(ms) ==
  [i \in 1 .. Least(MessageLimit, Cardinality(ms)) |->
     CHOOSE m \in ms : Cardinality({n \in ms : Newer(n, m)}) = i - 1]

MessagesOf(sid) == {m \in db.messages : m.session = sid}

ActiveSessions(user) == {s \in db.sessions : s.user = user /\ s.active}

RecentMessages(sid) == Reverse(NewestFirst(MessagesOf(sid)))

ActiveSessionWithContext(user) ==
  {[session |-> s, recent |-> NewestFirst(MessagesOf(AsString(s.id)))] :
     s \in ActiveSessions(user)}

\* Neither the match nor the lookup converts between ObjectId and string, so that
\* the string of the signature finds no session, and an ObjectId no messages.
\* Nothing in app/ calls this query.
SessionWithMessages(id) ==
  {[session |-> s, recent |-> NewestFirst(MessagesOf(s.id))] :
     s \in {t \in db.sessions : t.id = id}}

-----------------------------------------------------------------------------
(* The two reports, one row per tier that has users *)

UsersOf(tier) == {u \in db.users : u.kind.tier = tier}
TiersThere    == {u.kind.tier : u \in db.users}

TierActivity ==
  [tier \in TiersThere |->
     [total_users |-> Cardinality(UsersOf(tier)),
      recently_active |-> Cardinality({u \in UsersOf(tier) : u.kind.seen >= Cutoff})]]

\* Mutant: the lookup does not restrict the messages to the row's users.
MessagesByTierOfAll ==
  [tier \in TiersThere |->
     [user_count |-> Cardinality(UsersOf(tier)),
      message_count |-> Cardinality({m \in db.messages : m.at >= Cutoff})]]

MessagesByTier ==
  [tier \in TiersThere |->
     [user_count |-> Cardinality(UsersOf(tier)),
      message_count |-> Cardinality({m \in db.messages :
                          m.at >= Cutoff /\ \E u \in UsersOf(tier) : u.id = m.user})]]

-----------------------------------------------------------------------------
(* Properties *)

\* The newest messages of a session, as many as fit, in the order in which they
\* were written.
IsContext(context, sid) ==
  /\ Len(context) = Least(MessageLimit, Cardinality(MessagesOf(sid)))
  /\ \A i, j \in DOMAIN context : i < j => context[i].at <= context[j].at
  /\ \A m \in MessagesOf(sid) \ Range(context), i \in DOMAIN context :
       m.at <= context[i].at

\* In whatever order the messages were stored, the context that
\* get_recent_messages returns is the newest of the session, and the join of
\* get_active_session_with_context has the same of the active session it picks,
\* newest first.
ContextIsNewest ==
  /\ \A s \in db.sessions : IsContext(RecentMessages(AsString(s.id)), AsString(s.id))
  /\ \A u \in db.users : \A r \in ActiveSessionWithContext(u.id) :
       IsContext(Reverse(r.recent), AsString(r.session.id))

\* The reports account for every user once and for every recent message of a
\* user once, also in a database whose seeding was cut short.
ReportsAddUp ==
  /\ DOMAIN TierActivity = DOMAIN MessagesByTier
  /\ \A tier \in TiersThere :
       /\ TierActivity[tier].total_users = MessagesByTier[tier].user_count
       /\ TierActivity[tier].recently_active <= TierActivity[tier].total_users
  /\ MapThenSumSet(LAMBDA tier : MessagesByTier[tier].message_count, TiersThere)
       = Cardinality({m \in db.messages :
           m.at >= Cutoff /\ \E u \in db.users : u.id = m.user})
=============================================================================
