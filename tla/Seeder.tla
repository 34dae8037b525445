-------------------------------- MODULE Seeder --------------------------------
(***************************************************************************)
(* scripts/seed.py: a one-shot job that fills the database in four stages, *)
(* users, personalities, sessions and messages, one batch per insert_many. *)
(*                                                                         *)
(* A run that raises or is killed leaves behind what it has written, part  *)
(* of its last batch included; somebody may start the job again.  What the *)
(* random generators draw is a free choice.  One run at a time; the        *)
(* application is not writing meanwhile.                                   *)
(***************************************************************************)
EXTENDS Integers, FiniteSets, Sequences

CONSTANTS
  NumUsers, NumSessions, NumMessages,  \* NUM_USERS (= NUM_PERSONALITIES), ...
  BatchSize,                           \* BATCH_SIZE
  Limit,                               \* of the sessions collected: 100_000
  UserKinds,                           \* what a user's document may say
  Times,                               \* values of a message's created_at
  MaxRuns                              \* bound on the runs of the job

\* num_batches rounds down: the code's numbers are multiples of the batch size.
ASSUME SeederAssumption ==
  /\ BatchSize \in Nat \ {0} /\ Limit \in Nat \ {0}
  /\ \A n \in {NumUsers, NumSessions, NumMessages} :
       n \in Nat \ {0} /\ n % BatchSize = 0
  /\ Times \subseteq Nat /\ Times # {} /\ UserKinds # {}
  /\ MaxRuns \in Nat

VARIABLES
  stage,     \* where the job is: idle, check, a stage of the seeding, or over
  done,      \* the steps of the stage that are complete
  run,       \* how often the job was started
  known,     \* session_ids: the sessions collected for the messages
  outcome,   \* how the last run ended: none yet, skipped or seeded
  db         \* the documents of the four collections

vars == <<stage, done, run, known, outcome, db>>

Collections == <<"users", "personalities", "sessions", "messages">>
Names       == {Collections[i] : i \in DOMAIN Collections}

\* An ObjectId and its string are different values.
ObjectId(n)  == [oid |-> <<run, n>>]
AsString(id) == [str |-> id.oid]
Ids          == [oid : (0 .. run) \X (0 .. NumSessions + NumMessages)]

TypeOK ==
  /\ stage \in {"idle", "check", "drop", "collect", "over"} \cup Names
  /\ done \in Nat /\ run \in 0 .. MaxRuns
  /\ stage = "messages" => known # {} /\ known \subseteq db.sessions
  /\ outcome \in {"none", "skipped", "seeded"}
  /\ db.users \subseteq [id : 0 .. NumUsers - 1, kind : UserKinds]
  /\ db.personalities \subseteq [user : 0 .. NumUsers - 1]
  /\ db.sessions \subseteq [id : Ids, user : 0 .. NumUsers - 1, active : BOOLEAN]
  /\ db.messages \subseteq
       [id : Ids, session : {AsString(id) : id \in Ids}, user : 0 .. NumUsers - 1, at : Times]

\* An empty database, or one that was used before with a user of its own.
Init ==
  /\ stage = "idle" /\ done = 0 /\ run = 0
  /\ known = {} /\ outcome = "none"
  /\ \/ db = [c \in Names |-> {}]
     \/ \E kind \in UserKinds, at \in Times : db =
          [users |-> {[id |-> 0, kind |-> kind]},
           personalities |-> {[user |-> 0]},
           sessions |-> {[id |-> ObjectId(0), user |-> 0, active |-> TRUE]},
           messages |-> {[id |-> ObjectId(0), session |-> AsString(ObjectId(0)), user |-> 0,
                          at |-> at]}]

-----------------------------------------------------------------------------

\* "docker-compose up", or by hand.
Start ==
  /\ stage \in {"idle", "over"}
  /\ run < MaxRuns
  /\ run' = run + 1
  /\ stage' = "check"
  /\ outcome' = "none" /\ known' = {}
  /\ UNCHANGED <<done, db>>

CheckSkips ==
  /\ stage = "check"
  /\ Cardinality(db.users) >= NumUsers
  /\ stage' = "over" /\ outcome' = "skipped"
  /\ UNCHANGED <<done, run, known, db>>

CheckSeeds ==
  /\ stage = "check"
  /\ Cardinality(db.users) < NumUsers
  /\ stage' = "drop" /\ done' = 0
  /\ UNCHANGED <<run, known, outcome, db>>

\* Mutants: the users are dropped last; the sessions are not dropped.
DropOrderUsersLast  == <<"personalities", "sessions", "messages", "users">>
DropOrderNoSessions == <<"users", "personalities", "messages">>

DropOrder == Collections

\* One collection after the other; dropping the analytics, which no query here
\* reads, and create_indexes() follow the last.
Drop ==
  /\ stage = "drop"
  /\ db' = [db EXCEPT ![DropOrder[done + 1]] = {}]
  /\ \/ done + 1 < Len(DropOrder) /\ done' = done + 1 /\ UNCHANGED stage
     \/ done + 1 = Len(DropOrder) /\ done' = 0 /\ stage' = "users"
  /\ UNCHANGED <<run, known, outcome>>

-----------------------------------------------------------------------------

\* Mutant: the indexes count from one.
IndexesFromOne == done * BatchSize + 1 .. done * BatchSize + BatchSize

\* base + i for i in range(batch_size).
Indexes == done * BatchSize .. done * BatchSize + BatchSize - 1

\* The batches a stage may generate next.
Batches ==
  CASE stage = "users" ->
         {{[id |-> i, kind |-> kind[i]] : i \in Indexes} : kind \in [Indexes -> UserKinds]}
    [] stage = "personalities" -> {{[user |-> i] : i \in Indexes}}
    [] stage = "sessions" ->
         {{[id |-> ObjectId(i), user |-> d[i][1], active |-> d[i][2]] : i \in Indexes} :
            d \in [Indexes -> (0 .. NumUsers - 1) \X BOOLEAN]}
    [] stage = "messages" ->
         {{[id |-> ObjectId(i), session |-> AsString(d[i][1].id), user |-> d[i][1].user,
            at |-> d[i][2]] : i \in Indexes} : d \in [Indexes -> known \X Times]}

Total ==
  CASE stage \in {"users", "personalities"} -> NumUsers
    [] stage = "sessions" -> NumSessions
    [] stage = "messages" -> NumMessages

After ==
  CASE stage = "users" -> "personalities"
    [] stage = "personalities" -> "sessions"
    [] stage = "sessions" -> "collect"
    [] stage = "messages" -> "over"

InsertBatch ==
  /\ stage \in Names
  /\ \E batch \in Batches : db' = [db EXCEPT ![stage] = @ \cup batch]
  /\ \/ /\ (done + 1) * BatchSize < Total
        /\ done' = done + 1
        /\ UNCHANGED <<stage, outcome>>
     \/ /\ (done + 1) * BatchSize >= Total
        /\ done' = 0
        /\ stage' = After
        /\ outcome' = IF stage = "messages" THEN "seeded" ELSE outcome
  /\ UNCHANGED <<run, known>>

\* find({}).limit(100_000), in any order.
Collect ==
  /\ stage = "collect"
  /\ known' \in SUBSET db.sessions
  /\ Cardinality(known') = IF Cardinality(db.sessions) < Limit
                             THEN Cardinality(db.sessions) ELSE Limit
  /\ stage' = "messages"
  /\ UNCHANGED <<done, run, outcome, db>>

\* A call raises or the process is killed, with part of a batch inserted.
Crash ==
  /\ stage \notin {"idle", "over"}
  /\ \/ UNCHANGED db
     \/ stage \in Names /\ \E batch \in Batches : \E in \in SUBSET batch :
          db' = [db EXCEPT ![stage] = @ \cup in]
  /\ stage' = "idle" /\ done' = 0 /\ known' = {}
  /\ UNCHANGED <<run, outcome>>

\* Nobody starts the job any more.
Rest == stage \in {"idle", "over"} /\ UNCHANGED vars

Next ==
  \/ Start \/ CheckSkips \/ CheckSeeds \/ Drop \/ InsertBatch \/ Collect
  \/ Crash \/ Rest

Spec == Init /\ [][Next]_vars

-----------------------------------------------------------------------------
(* Properties *)

Complete ==
  /\ {u.id : u \in db.users} = 0 .. NumUsers - 1
  /\ Cardinality(db.users) = NumUsers
  /\ {p.user : p \in db.personalities} = {u.id : u \in db.users}
  /\ Cardinality(db.sessions) = NumSessions
  /\ Cardinality(db.messages) = NumMessages

\* A run that seeded left exactly the promised numbers of documents and one
\* personality per user, whatever earlier runs had left behind.
SeededIsComplete == outcome = "seeded" => Complete

\* While there are users in the database every message and session refers to
\* documents that are there, and to the same user.  A run killed while it
\* drops a database leaves messages of dropped sessions behind, but never with
\* a user that the application could serve.
NothingDangles ==
  db.users # {} =>
    /\ \A s \in db.sessions : \E u \in db.users : u.id = s.user
    /\ \A m \in db.messages : \E s \in db.sessions :
         AsString(s.id) = m.session /\ s.user = m.user

-----------------------------------------------------------------------------
(* What the script says, for the run that refutes it *)

\* "Check if already seeded": a run that skips found a seeded database.
SkippedIsSeeded == outcome = "skipped" => Complete
=============================================================================
