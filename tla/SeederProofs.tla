----------------------------- MODULE SeederProofs -----------------------------
(***************************************************************************)
(* Proofs about Seeder and the queries over what it writes, for any        *)
(* numbers of users, sessions and messages that the batch size divides,    *)
(* any contents of the documents and any number of runs, each of which may *)
(* stop anywhere: the state is well typed, a run that seeded left exactly  *)
(* what it promises, and no document dangles while there are users; the    *)
(* context of a session is the newest of its messages, for any limit, the  *)
(* two ways to read it agree, and the reports add up, for any cutoff.      *)
(*                                                                         *)
(* The invariant says, stage by stage, how much each collection holds: the *)
(* collections before the stage's are full, its own has the batches that   *)
(* are done, and those after it are empty, since the drop came first.  The *)
(* queries rest besides on OneEach: a document's id is its own, so ranks   *)
(* of messages are a permutation, and the rows of a report do not overlap. *)
(***************************************************************************)
EXTENDS Queries, Induction, FunctionTheorems

-----------------------------------------------------------------------------
(* The inductive invariant *)

\* The documents that the stage has written.
Written == done * BatchSize

\* The first ids that this run creates.
IdsOf(n) == {ObjectId(i) : i \in 0 .. n - 1}

\* A set of documents has one of each of these ids, and no other.
Keyed(docs, ids) ==
  /\ {d.id : d \in docs} = ids
  /\ \A c, d \in docs : c.id = d.id => c = d

\* The collections hold what this run has written, as many of each.
Holds(users, personalities, sessions, messages) ==
  /\ Keyed(db.users, 0 .. users - 1)
  /\ {p.user : p \in db.personalities} = 0 .. personalities - 1
  /\ Keyed(db.sessions, IdsOf(sessions))
  /\ Keyed(db.messages, IdsOf(messages))

Stages ==
  /\ stage = "drop" => /\ done \in 0 .. 3
                       /\ \A i \in 1 .. done : db[Collections[i]] = {}
  /\ stage \in Names => Written < Total
  /\ stage = "users" => Holds(Written, 0, 0, 0)
  /\ stage = "personalities" => Holds(NumUsers, Written, 0, 0)
  /\ stage = "sessions" => Holds(NumUsers, NumUsers, Written, 0)
  /\ stage = "collect" => Holds(NumUsers, NumUsers, NumSessions, 0) /\ done = 0
  /\ stage = "messages" => Holds(NumUsers, NumUsers, NumSessions, Written)
  /\ outcome # "none" => stage = "over"
  /\ outcome = "seeded" => Holds(NumUsers, NumUsers, NumSessions, NumMessages)

\* The collections are there, and their documents are of the right kind.
DbTyped ==
  /\ DOMAIN db = Names
  /\ db.users \subseteq [id : 0 .. NumUsers - 1, kind : UserKinds]
  /\ db.personalities \subseteq [user : 0 .. NumUsers - 1]
  /\ db.sessions \subseteq [id : Ids, user : 0 .. NumUsers - 1, active : BOOLEAN]
  /\ db.messages \subseteq
       [id : Ids, session : {AsString(id) : id \in Ids}, user : 0 .. NumUsers - 1, at : Times]

ControlTyped ==
  /\ stage \in {"idle", "check", "drop", "collect", "over"} \cup Names
  /\ done \in Nat /\ run \in 0 .. MaxRuns
  /\ outcome \in {"none", "skipped", "seeded"}
  /\ stage = "messages" => known # {} /\ known \subseteq db.sessions

Inv == ControlTyped /\ DbTyped /\ Stages /\ NothingDangles

-----------------------------------------------------------------------------
(* Counting documents by their ids *)

LEMMA NamesAre == Names = {"users", "personalities", "sessions", "messages"}
BY DEF Names, Collections

\* As many documents as ids.
LEMMA KeyedCount ==
  ASSUME NEW docs, NEW ids, IsFiniteSet(ids), Keyed(docs, ids)
  PROVE  Cardinality(docs) = Cardinality(ids)
<1>. DEFINE idOf == [d \in docs |-> d.id]
<1>1. idOf \in [docs -> ids] /\ \A c, d \in docs : idOf[c] = idOf[d] => c = d
  BY DEF Keyed
<1>2. \A i \in ids : \E d \in docs : idOf[d] = i
  BY DEF Keyed
<1>3. idOf \in Bijection(docs, ids)
  BY <1>1, <1>2 DEF Bijection, Injection, Surjection, IsInjective
<1>4. ExistsBijection(ids, docs)
  BY <1>3, Fun_ExistsBijSymmetric DEF ExistsBijection
<1>. QED
  BY <1>4, FS_Bijection

LEMMA KeyedUnion ==
  ASSUME NEW docs, NEW ids, Keyed(docs, ids), NEW docs2, NEW ids2, Keyed(docs2, ids2),
         ids \cap ids2 = {}
  PROVE  Keyed(docs \cup docs2, ids \cup ids2)
BY DEF Keyed

LEMMA NothingKeyed ==
  /\ \A docs : Keyed(docs, {}) <=> docs = {}
  /\ 0 .. 0 - 1 = {} /\ IdsOf(0) = {}
BY DEF Keyed, IdsOf

LEMMA CountIds ==
  ASSUME NEW n \in Nat
  PROVE  /\ IsFiniteSet(0 .. n - 1) /\ Cardinality(0 .. n - 1) = n
         /\ IsFiniteSet(IdsOf(n)) /\ Cardinality(IdsOf(n)) = n
<1>1. IsFiniteSet(0 .. n - 1) /\ Cardinality(0 .. n - 1) = n
  BY FS_Interval
<1>. DEFINE new == [i \in 0 .. n - 1 |-> ObjectId(i)]
<1>2. \A i, j \in 0 .. n - 1 : new[i] = new[j] => i = j
  BY DEF ObjectId
<1>3. new \in [0 .. n - 1 -> IdsOf(n)] /\ \A id \in IdsOf(n) : \E i \in 0 .. n - 1 : new[i] = id
  BY DEF IdsOf
<1>4. new \in Bijection(0 .. n - 1, IdsOf(n))
  BY <1>2, <1>3 DEF Bijection, Injection, Surjection, IsInjective
<1>. QED
  BY <1>1, <1>4, FS_Bijection DEF ExistsBijection

\* In the end the collections have the promised numbers of documents.
LEMMA FullIsComplete ==
  Holds(NumUsers, NumUsers, NumSessions, NumMessages) => Complete
<1>1. NumUsers \in Nat /\ NumSessions \in Nat /\ NumMessages \in Nat
  BY SeederAssumption
<1>2. /\ \A n \in Nat : IsFiniteSet(0 .. n - 1) /\ Cardinality(0 .. n - 1) = n
      /\ \A n \in Nat : IsFiniteSet(IdsOf(n)) /\ Cardinality(IdsOf(n)) = n
  BY CountIds
<1>3. \A docs, ids : IsFiniteSet(ids) /\ Keyed(docs, ids) => Cardinality(docs) = Cardinality(ids)
  BY KeyedCount
<1>4. ASSUME Holds(NumUsers, NumUsers, NumSessions, NumMessages) PROVE Complete
  <2>1. /\ Keyed(db.users, 0 .. NumUsers - 1)
        /\ {p.user : p \in db.personalities} = 0 .. NumUsers - 1
        /\ Keyed(db.sessions, IdsOf(NumSessions))
        /\ Keyed(db.messages, IdsOf(NumMessages))
    BY <1>4 DEF Holds
  <2>2. {u.id : u \in db.users} = 0 .. NumUsers - 1
    BY <2>1 DEF Keyed
  <2>3. /\ Cardinality(db.users) = NumUsers
        /\ Cardinality(db.sessions) = NumSessions
        /\ Cardinality(db.messages) = NumMessages
    BY <1>1, <1>2, <1>3, <2>1
  <2>. QED
    BY <2>1, <2>2, <2>3 DEF Complete
<1>. QED
  BY <1>4

-----------------------------------------------------------------------------
(* The batches *)

\* A stage that is not over has a whole batch left to write.
LEMMA WholeBatchLeft ==
  ASSUME NEW d \in Nat, NEW total \in Nat, total % BatchSize = 0, d * BatchSize < total
  PROVE  d * BatchSize + BatchSize <= total
<1>1. BatchSize \in Nat /\ BatchSize > 0
  BY SeederAssumption
<1>2. PICK q \in Nat : total = q * BatchSize
  BY <1>1
<1>3. d < q
  BY <1>1, <1>2
<1>4. (d + 1) * BatchSize <= q * BatchSize
  BY <1>1, <1>3
<1>. QED
  BY <1>1, <1>2, <1>4

LEMMA NextBatch ==
  ASSUME Inv, stage \in Names
  PROVE  /\ Written \in Nat /\ Total \in Nat /\ BatchSize \in Nat \ {0}
         /\ Written + BatchSize <= Total
         /\ Indexes = Written .. Written + BatchSize - 1
         /\ (done + 1) * BatchSize = Written + BatchSize
<1>1. done \in Nat /\ BatchSize \in Nat \ {0}
  BY SeederAssumption DEF Inv, ControlTyped
<1>2. Total \in Nat /\ Total % BatchSize = 0
  BY SeederAssumption, NamesAre DEF Total
<1>3. done * BatchSize \in Nat /\ (done + 1) * BatchSize = done * BatchSize + BatchSize
  BY <1>1
<1>4. done * BatchSize < Total
  BY DEF Inv, Stages, Written
<1>. QED
  BY <1>1, <1>2, <1>3, <1>4, WholeBatchLeft DEF Written, Indexes

\* The ids of a batch follow those of the batches before it.
LEMMA IdsFollow ==
  ASSUME NEW n \in Nat, NEW b \in Nat
  PROVE  /\ (0 .. n - 1) \cup (n .. n + b - 1) = 0 .. (n + b) - 1
         /\ (0 .. n - 1) \cap (n .. n + b - 1) = {}
         /\ IdsOf(n) \cup {ObjectId(i) : i \in n .. n + b - 1} = IdsOf(n + b)
         /\ IdsOf(n) \cap {ObjectId(i) : i \in n .. n + b - 1} = {}
<1>1. /\ (0 .. n - 1) \cup (n .. n + b - 1) = 0 .. (n + b) - 1
      /\ (0 .. n - 1) \cap (n .. n + b - 1) = {}
  OBVIOUS
<1>2. \A i, j : ObjectId(i) = ObjectId(j) => i = j
  BY DEF ObjectId
<1>3. IdsOf(n) \cap {ObjectId(i) : i \in n .. n + b - 1} = {}
  BY <1>1, <1>2 DEF IdsOf
<1>4. IdsOf(n) \cup {ObjectId(i) : i \in n .. n + b - 1} = IdsOf(n + b)
  BY <1>1 DEF IdsOf
<1>. QED
  BY <1>1, <1>3, <1>4

\* What a batch consists of, stage by stage: documents of the right kind, one
\* for each of the next ids; every message belongs to a session that is there.
LEMMA UsersBatch ==
  ASSUME Inv, stage = "users", NEW batch \in Batches
  PROVE  Keyed(batch, Indexes) /\ batch \subseteq [id : 0 .. NumUsers - 1, kind : UserKinds]
<1>1. PICK kind \in [Indexes -> UserKinds] : batch = {[id |-> i, kind |-> kind[i]] : i \in Indexes}
  BY DEF Batches
<1>2. Indexes \subseteq 0 .. NumUsers - 1
  BY NextBatch, NamesAre, SeederAssumption DEF Total
<1>3. \A u \in batch : \E i \in Indexes : u.id = i /\ u = [id |-> i, kind |-> kind[i]]
  BY <1>1
<1>4. ASSUME NEW i \in Indexes PROVE \E u \in batch : u.id = i
  <2>1. [id |-> i, kind |-> kind[i]] \in batch
    BY <1>1
  <2>. QED
    BY <2>1
<1>5. {u.id : u \in batch} = Indexes
  BY <1>3, <1>4
<1>6. batch \subseteq [id : 0 .. NumUsers - 1, kind : UserKinds]
  BY <1>1, <1>2
<1>. QED
  BY <1>3, <1>5, <1>6 DEF Keyed

LEMMA PersonalitiesBatch ==
  ASSUME Inv, stage = "personalities", NEW batch \in Batches
  PROVE  {p.user : p \in batch} = Indexes /\ batch \subseteq [user : 0 .. NumUsers - 1]
<1>1. batch = {[user |-> i] : i \in Indexes}
  BY DEF Batches
<1>2. Indexes \subseteq 0 .. NumUsers - 1
  BY NextBatch, NamesAre, SeederAssumption DEF Total
<1>3. \A p \in batch : \E i \in Indexes : p.user = i
  BY <1>1
<1>4. ASSUME NEW i \in Indexes PROVE \E p \in batch : p.user = i
  <2>1. [user |-> i] \in batch
    BY <1>1
  <2>. QED
    BY <2>1
<1>5. {p.user : p \in batch} = Indexes
  BY <1>3, <1>4
<1>. QED
  BY <1>1, <1>2, <1>5

LEMMA NewIdsTyped ==
  ASSUME Inv, stage \in {"sessions", "messages"}
  PROVE  /\ \A i \in Indexes : ObjectId(i) \in Ids
         /\ \A i, j : ObjectId(i) = ObjectId(j) => i = j
<1>1. stage \in Names
  BY NamesAre
<1>2. Total \in Nat /\ Total <= NumSessions + NumMessages
  BY SeederAssumption DEF Total
<1>3. Indexes \subseteq 0 .. NumSessions + NumMessages
  <2>1. NumSessions \in Nat /\ NumMessages \in Nat
    BY SeederAssumption
  <2>. HIDE DEF Written, Total
  <2>. QED
    BY <1>1, <1>2, <2>1, NextBatch
<1>4. run \in 0 .. run
  BY DEF Inv, ControlTyped
<1>. QED
  BY <1>3, <1>4 DEF ObjectId, Ids

LEMMA SessionsBatch ==
  ASSUME Inv, stage = "sessions", NEW batch \in Batches
  PROVE  /\ Keyed(batch, {ObjectId(i) : i \in Indexes})
         /\ batch \subseteq [id : Ids, user : 0 .. NumUsers - 1, active : BOOLEAN]
<1>1. PICK d \in [Indexes -> (0 .. NumUsers - 1) \X BOOLEAN] :
        batch = {[id |-> ObjectId(i), user |-> d[i][1], active |-> d[i][2]] : i \in Indexes}
  BY DEF Batches
<1>2. \A i \in Indexes : d[i][1] \in 0 .. NumUsers - 1 /\ d[i][2] \in BOOLEAN
  OBVIOUS
<1>3. \A i \in Indexes :
        [id |-> ObjectId(i), user |-> d[i][1], active |-> d[i][2]]
          \in [id : Ids, user : 0 .. NumUsers - 1, active : BOOLEAN]
  BY <1>2, NewIdsTyped
<1>4. \A c \in batch : \E i \in Indexes :
        c.id = ObjectId(i) /\ c = [id |-> ObjectId(i), user |-> d[i][1], active |-> d[i][2]]
  BY <1>1
<1>5. \A c1, c2 \in batch : c1.id = c2.id => c1 = c2
  BY <1>4, NewIdsTyped
<1>6. ASSUME NEW i \in Indexes PROVE \E c \in batch : c.id = ObjectId(i)
  <2>1. [id |-> ObjectId(i), user |-> d[i][1], active |-> d[i][2]] \in batch
    BY <1>1
  <2>. QED
    BY <2>1
<1>7. {c.id : c \in batch} = {ObjectId(i) : i \in Indexes}
  BY <1>4, <1>6
<1>. QED
  BY <1>1, <1>3, <1>5, <1>7 DEF Keyed

LEMMA MessagesBatch ==
  ASSUME Inv, stage = "messages", NEW batch \in Batches
  PROVE  /\ Keyed(batch, {ObjectId(i) : i \in Indexes})
         /\ batch \subseteq [id : Ids, session : {AsString(id) : id \in Ids},
                             user : 0 .. NumUsers - 1, at : Times]
         /\ \A m \in batch : \E s \in db.sessions :
              AsString(s.id) = m.session /\ s.user = m.user
<1>. DEFINE Message(i, d) == [id |-> ObjectId(i), session |-> AsString(d[i][1].id),
                              user |-> d[i][1].user, at |-> d[i][2]]
<1>1. PICK d \in [Indexes -> known \X Times] : batch = {Message(i, d) : i \in Indexes}
  BY DEF Batches
<1>2. \A i \in Indexes : d[i][1] \in db.sessions /\ d[i][2] \in Times
  BY DEF Inv, ControlTyped
<1>3. \A i \in Indexes : d[i][1].id \in Ids /\ d[i][1].user \in 0 .. NumUsers - 1
  BY <1>2 DEF Inv, DbTyped
<1>4. \A i \in Indexes :
        Message(i, d) \in [id : Ids, session : {AsString(id) : id \in Ids},
                           user : 0 .. NumUsers - 1, at : Times]
  BY <1>2, <1>3, NewIdsTyped
<1>5. \A m \in batch : \E i \in Indexes : m.id = ObjectId(i) /\ m = Message(i, d)
  BY <1>1
<1>6. \A m1, m2 \in batch : m1.id = m2.id => m1 = m2
  BY <1>5, NewIdsTyped
<1>7. {m.id : m \in batch} = {ObjectId(i) : i \in Indexes}
  <2>1. ASSUME NEW i \in Indexes PROVE \E m \in batch : m.id = ObjectId(i)
    <3>1. Message(i, d) \in batch
      BY <1>1
    <3>. QED
      BY <3>1
  <2>. QED
    BY <1>5, <2>1
<1>8. \A m \in batch : \E s \in db.sessions : AsString(s.id) = m.session /\ s.user = m.user
  <2> SUFFICES ASSUME NEW m \in batch
               PROVE  \E s \in db.sessions : AsString(s.id) = m.session /\ s.user = m.user
    OBVIOUS
  <2>1. PICK i \in Indexes : m = Message(i, d)
    BY <1>5
  <2>2. m.session = AsString(d[i][1].id) /\ m.user = d[i][1].user
    BY <2>1
  <2>3. d[i][1] \in db.sessions
    BY <1>2
  <2>. QED
    BY <2>2, <2>3
<1>9. Keyed(batch, {ObjectId(i) : i \in Indexes})
  BY <1>6, <1>7 DEF Keyed
<1>10. batch \subseteq [id : Ids, session : {AsString(id) : id \in Ids},
                       user : 0 .. NumUsers - 1, at : Times]
  BY <1>4, <1>5
<1>. QED
  BY <1>8, <1>9, <1>10

-----------------------------------------------------------------------------
(* The steps *)

LEMMA InitInv == Init => Inv
<1> SUFFICES ASSUME Init PROVE Inv
  OBVIOUS
<1>1. ControlTyped /\ Stages
  BY SeederAssumption, NamesAre DEF Init, ControlTyped, Stages
<1>2. CASE db = [c \in Names |-> {}]
  <2>1. DOMAIN db = Names /\ \A c \in Names : db[c] = {}
    BY <1>2
  <2>2. DbTyped /\ NothingDangles
    BY <2>1, NamesAre DEF DbTyped, NothingDangles
  <2>. QED
    BY <1>1, <2>2 DEF Inv
<1>3. ASSUME NEW kind \in UserKinds, NEW at \in Times,
             db = [users |-> {[id |-> 0, kind |-> kind]},
                   personalities |-> {[user |-> 0]},
                   sessions |-> {[id |-> ObjectId(0), user |-> 0, active |-> TRUE]},
                   messages |-> {[id |-> ObjectId(0), session |-> AsString(ObjectId(0)),
                                  user |-> 0, at |-> at]}]
      PROVE  Inv
  <2>1. DOMAIN db = Names
    BY <1>3, NamesAre
  <2>2. /\ db.users = {[id |-> 0, kind |-> kind]} /\ db.personalities = {[user |-> 0]}
        /\ db.sessions = {[id |-> ObjectId(0), user |-> 0, active |-> TRUE]}
        /\ db.messages = {[id |-> ObjectId(0), session |-> AsString(ObjectId(0)),
                           user |-> 0, at |-> at]}
    BY <1>3
  <2>3. ObjectId(0) \in Ids /\ 0 \in 0 .. NumUsers - 1
    <3>1. run = 0 /\ NumUsers \in Nat \ {0} /\ NumSessions \in Nat /\ NumMessages \in Nat
      BY SeederAssumption DEF Init
    <3>. QED
      BY <3>1 DEF ObjectId, Ids
  <2>4. db.sessions \subseteq [id : Ids, user : 0 .. NumUsers - 1, active : BOOLEAN]
    BY <2>2, <2>3
  <2>5. DbTyped
    BY <2>1, <2>2, <2>3, <2>4 DEF DbTyped
  <2>6. NothingDangles
    BY <2>2 DEF NothingDangles
  <2>. QED
    BY <1>1, <2>5, <2>6 DEF Inv
<1>. QED
  BY <1>2, <1>3 DEF Init

\* Some of a batch, or all of it, is inserted.
Inserts(batch) == db' = [db EXCEPT ![stage] = @ \cup batch]

\* What was inserted is typed, and dangles from nothing.
LEMMA InsertedFits ==
  ASSUME Inv, stage \in Names, NEW batch \in Batches, NEW new \in SUBSET batch,
         Inserts(new), run' = run
  PROVE  DbTyped' /\ NothingDangles'
<1>1. DOMAIN db = Names /\ DOMAIN db' = Names
  BY DEF Inv, DbTyped, Inserts
<1>2. \A c \in Names : db'[c] = IF c = stage THEN db[c] \cup new ELSE db[c]
  BY <1>1 DEF Inserts
<1>3. Ids' = Ids
  BY DEF Ids
<1>4. CASE stage = "users"
  <2>1. /\ db'.users = db.users \cup new /\ db'.personalities = db.personalities
        /\ db'.sessions = db.sessions /\ db'.messages = db.messages
    BY <1>2, <1>4, NamesAre
  <2>2. db.sessions = {} /\ db.messages = {}
    BY <1>4, NothingKeyed DEF Inv, Stages, Holds
  <2>3. NothingDangles'
    BY <2>1, <2>2 DEF NothingDangles
  <2>4. new \subseteq [id : 0 .. NumUsers - 1, kind : UserKinds]
    BY <1>4, UsersBatch
  <2>. QED
    BY <1>1, <1>3, <2>1, <2>3, <2>4 DEF Inv, DbTyped
<1>5. CASE stage = "personalities"
  <2>1. /\ db'.users = db.users /\ db'.personalities = db.personalities \cup new
        /\ db'.sessions = db.sessions /\ db'.messages = db.messages
    BY <1>2, <1>5, NamesAre
  <2>2. NothingDangles'
    BY <2>1 DEF Inv, NothingDangles
  <2>3. new \subseteq [user : 0 .. NumUsers - 1]
    BY <1>5, PersonalitiesBatch
  <2>. QED
    BY <1>1, <1>3, <2>1, <2>2, <2>3 DEF Inv, DbTyped
<1>6. CASE stage = "sessions"
  <2>1. /\ db'.users = db.users /\ db'.personalities = db.personalities
        /\ db'.sessions = db.sessions \cup new /\ db'.messages = db.messages
    BY <1>2, <1>6, NamesAre
  <2>2. new \subseteq [id : Ids, user : 0 .. NumUsers - 1, active : BOOLEAN]
    BY <1>6, SessionsBatch
  <2>3. \A s \in db'.sessions : s.user \in 0 .. NumUsers - 1
    BY <2>1, <2>2 DEF Inv, DbTyped
  <2>4. Keyed(db.users, 0 .. NumUsers - 1) /\ db.messages = {}
    BY <1>6, NothingKeyed DEF Inv, Stages, Holds
  <2>5. \A i \in 0 .. NumUsers - 1 : \E u \in db.users : u.id = i
    BY <2>4 DEF Keyed
  <2>6. NothingDangles'
    BY <2>1, <2>3, <2>4, <2>5 DEF NothingDangles
  <2>. QED
    BY <1>1, <1>3, <2>1, <2>2, <2>6 DEF Inv, DbTyped
<1>7. CASE stage = "messages"
  <2>1. /\ db'.users = db.users /\ db'.personalities = db.personalities
        /\ db'.sessions = db.sessions /\ db'.messages = db.messages \cup new
    BY <1>2, <1>7, NamesAre
  <2>2. /\ new \subseteq [id : Ids, session : {AsString(id) : id \in Ids},
                          user : 0 .. NumUsers - 1, at : Times]
        /\ \A m \in new : \E s \in db.sessions : AsString(s.id) = m.session /\ s.user = m.user
    BY <1>7, MessagesBatch
  <2>3. NothingDangles'
    BY <2>1, <2>2 DEF Inv, NothingDangles
  <2>. QED
    BY <1>1, <1>3, <2>1, <2>2, <2>3 DEF Inv, DbTyped
<1>. QED
  BY <1>4, <1>5, <1>6, <1>7, NamesAre

\* A batch goes after those before it: what the collections hold grows by it.
LEMMA BatchInserted ==
  ASSUME Inv, stage \in Names, NEW batch \in Batches, Inserts(batch), run' = run
  PROVE  \A n \in Nat : n = Written + BatchSize =>
           /\ stage = "users" => Holds(n, 0, 0, 0)'
           /\ stage = "personalities" => Holds(NumUsers, n, 0, 0)'
           /\ stage = "sessions" => Holds(NumUsers, NumUsers, n, 0)'
           /\ stage = "messages" => Holds(NumUsers, NumUsers, NumSessions, n)'
<1> SUFFICES ASSUME NEW n \in Nat, n = Written + BatchSize
             PROVE  /\ stage = "users" => Holds(n, 0, 0, 0)'
                    /\ stage = "personalities" => Holds(NumUsers, n, 0, 0)'
                    /\ stage = "sessions" => Holds(NumUsers, NumUsers, n, 0)'
                    /\ stage = "messages" => Holds(NumUsers, NumUsers, NumSessions, n)'
  OBVIOUS
<1>1. DOMAIN db = Names
  BY DEF Inv, DbTyped
<1>2. \A c \in Names : db'[c] = IF c = stage THEN db[c] \cup batch ELSE db[c]
  BY <1>1 DEF Inserts
<1>3. /\ (0 .. Written - 1) \cup Indexes = 0 .. n - 1
      /\ (0 .. Written - 1) \cap Indexes = {}
      /\ IdsOf(Written) \cup {ObjectId(i) : i \in Indexes} = IdsOf(n)
      /\ IdsOf(Written) \cap {ObjectId(i) : i \in Indexes} = {}
  <2>1. /\ Written \in Nat /\ BatchSize \in Nat
        /\ Indexes = Written .. Written + BatchSize - 1
    BY NextBatch
  <2>2. /\ (0 .. Written - 1) \cup (Written .. Written + BatchSize - 1) = 0 .. n - 1
        /\ (0 .. Written - 1) \cap (Written .. Written + BatchSize - 1) = {}
        /\ IdsOf(Written) \cup {ObjectId(i) : i \in Written .. Written + BatchSize - 1} = IdsOf(n)
        /\ IdsOf(Written) \cap {ObjectId(i) : i \in Written .. Written + BatchSize - 1} = {}
    BY <2>1, IdsFollow
  <2>. QED
    BY <2>1, <2>2
<1>4. \A k : IdsOf(k)' = IdsOf(k)
  BY DEF IdsOf, ObjectId
<1>5. ASSUME stage = "users" PROVE Holds(n, 0, 0, 0)'
  <2>1. /\ db'.users = db.users \cup batch /\ db'.personalities = db.personalities
        /\ db'.sessions = db.sessions /\ db'.messages = db.messages
    BY <1>2, <1>5, NamesAre
  <2>2. Keyed(db.users, 0 .. Written - 1) /\ Keyed(batch, Indexes)
    BY <1>5, UsersBatch DEF Inv, Stages, Holds
  <2>3. Keyed(db.users \cup batch, (0 .. Written - 1) \cup Indexes)
    BY <1>3, <2>2, KeyedUnion
  <2>4. Keyed(db.users \cup batch, 0 .. n - 1)
    BY <1>3, <2>3
  <2>. QED
    BY <1>4, <1>5, <2>1, <2>4 DEF Inv, Stages, Holds, Keyed
<1>6. ASSUME stage = "personalities" PROVE Holds(NumUsers, n, 0, 0)'
  <2>1. /\ db'.users = db.users /\ db'.personalities = db.personalities \cup batch
        /\ db'.sessions = db.sessions /\ db'.messages = db.messages
    BY <1>2, <1>6, NamesAre
  <2>2. {p.user : p \in db.personalities} = 0 .. Written - 1 /\ {p.user : p \in batch} = Indexes
    BY <1>6, PersonalitiesBatch DEF Inv, Stages, Holds
  <2>3. {p.user : p \in db.personalities \cup batch} = 0 .. n - 1
    BY <1>3, <2>2
  <2>. QED
    BY <1>4, <1>6, <2>1, <2>3 DEF Inv, Stages, Holds, Keyed
<1>7. ASSUME stage = "sessions" PROVE Holds(NumUsers, NumUsers, n, 0)'
  <2>1. /\ db'.users = db.users /\ db'.personalities = db.personalities
        /\ db'.sessions = db.sessions \cup batch /\ db'.messages = db.messages
    BY <1>2, <1>7, NamesAre
  <2>2. Keyed(db.sessions, IdsOf(Written)) /\ Keyed(batch, {ObjectId(i) : i \in Indexes})
    BY <1>7, SessionsBatch DEF Inv, Stages, Holds
  <2>3. Keyed(db.sessions \cup batch, IdsOf(n))
    BY <1>3, <2>2, KeyedUnion
  <2>. QED
    BY <1>4, <1>7, <2>1, <2>3 DEF Inv, Stages, Holds, Keyed
<1>8. ASSUME stage = "messages" PROVE Holds(NumUsers, NumUsers, NumSessions, n)'
  <2>1. /\ db'.users = db.users /\ db'.personalities = db.personalities
        /\ db'.sessions = db.sessions /\ db'.messages = db.messages \cup batch
    BY <1>2, <1>8, NamesAre
  <2>2. Keyed(db.messages, IdsOf(Written)) /\ Keyed(batch, {ObjectId(i) : i \in Indexes})
    BY <1>8, MessagesBatch DEF Inv, Stages, Holds
  <2>3. Keyed(db.messages \cup batch, IdsOf(n))
    BY <1>3, <2>2, KeyedUnion
  <2>. QED
    BY <1>4, <1>8, <2>1, <2>3 DEF Inv, Stages, Holds, Keyed
<1>. QED
  BY <1>5, <1>6, <1>7, <1>8

LEMMA InsertBatchInv ==
  ASSUME Inv, InsertBatch
  PROVE  Inv'
<1>1. PICK batch \in Batches : Inserts(batch)
  BY DEF InsertBatch, Inserts
<1>2. stage \in Names /\ run' = run /\ known' = known
  BY DEF InsertBatch
<1>3. DbTyped' /\ NothingDangles'
  BY <1>1, <1>2, InsertedFits
<1>4. /\ Written \in Nat /\ Total \in Nat /\ BatchSize \in Nat \ {0}
      /\ Written + BatchSize <= Total /\ (done + 1) * BatchSize = Written + BatchSize
  BY <1>2, NextBatch
<1>5. PICK n \in Nat : n = Written + BatchSize
  BY <1>4
<1>6. /\ stage = "users" => Holds(n, 0, 0, 0)'
      /\ stage = "personalities" => Holds(NumUsers, n, 0, 0)'
      /\ stage = "sessions" => Holds(NumUsers, NumUsers, n, 0)'
      /\ stage = "messages" => Holds(NumUsers, NumUsers, NumSessions, n)'
  BY <1>1, <1>2, <1>5, BatchInserted
<1>7. outcome = "none"
  BY <1>2, NamesAre DEF Inv, Stages
<1>8. ASSUME stage = "messages" PROVE known' # {} /\ known' \subseteq db'.sessions
  <2>1. db'.sessions = db.sessions
    BY <1>1, <1>8, NamesAre DEF Inserts, Inv, DbTyped
  <2>. QED
    BY <1>2, <1>8, <2>1 DEF Inv, ControlTyped
<1>9. CASE /\ (done + 1) * BatchSize < Total
           /\ done' = done + 1
           /\ UNCHANGED <<stage, outcome>>
  <2>1. Written' = n /\ Total' = Total /\ n < Total
    BY <1>4, <1>5, <1>9 DEF Written, Total
  <2>2. ControlTyped'
    BY <1>2, <1>8, <1>9 DEF Inv, ControlTyped
  <2>3. Stages'
    BY <1>2, <1>6, <1>7, <1>9, <2>1, NamesAre DEF Stages
  <2>. QED
    BY <1>3, <2>2, <2>3 DEF Inv
<1>10. CASE /\ (done + 1) * BatchSize >= Total
            /\ done' = 0
            /\ stage' = After
            /\ outcome' = IF stage = "messages" THEN "seeded" ELSE outcome
  <2>1. n = Total /\ Written' = 0
    BY <1>4, <1>5, <1>10 DEF Written
  <2>2. /\ stage = "users" => Total = NumUsers /\ stage' = "personalities"
        /\ stage = "personalities" => Total = NumUsers /\ stage' = "sessions"
        /\ stage = "sessions" => Total = NumSessions /\ stage' = "collect"
        /\ stage = "messages" => Total = NumMessages /\ stage' = "over"
    BY <1>10 DEF Total, After
  <2>3. /\ stage' = "personalities" => Total' = NumUsers
        /\ stage' = "sessions" => Total' = NumSessions
    BY DEF Total
  <2>4. NumUsers > 0 /\ NumSessions > 0
    BY SeederAssumption
  <2>5. ControlTyped'
    BY <1>2, <1>7, <1>10, <2>2, NamesAre DEF Inv, ControlTyped
  <2>6. Stages'
    BY <1>2, <1>6, <1>7, <1>10, <2>1, <2>2, <2>3, <2>4, NamesAre DEF Stages
  <2>. QED
    BY <1>3, <2>5, <2>6 DEF Inv
<1>. QED
  BY <1>9, <1>10 DEF InsertBatch

LEMMA DropInv ==
  ASSUME Inv, Drop
  PROVE  Inv'
<1>1. /\ stage = "drop" /\ done \in 0 .. 3 /\ run' = run /\ outcome' = outcome /\ known' = known
      /\ outcome = "none" /\ DOMAIN db = Names
  BY NamesAre DEF Inv, Stages, DbTyped, Drop
<1>2. /\ Collections[1] = "users" /\ Collections[2] = "personalities"
      /\ Collections[3] = "sessions" /\ Collections[4] = "messages"
      /\ Len(DropOrder) = 4 /\ DropOrder = Collections
  BY DEF Collections, DropOrder
<1>3. Collections[done + 1] \in Names
  <2>1. done + 1 \in {1, 2, 3, 4}
    BY <1>1
  <2>. QED
    BY <1>2, <2>1, NamesAre
<1>4. db' = [db EXCEPT ![Collections[done + 1]] = {}]
  BY <1>2 DEF Drop
<1>5. /\ DOMAIN db' = Names
      /\ \A c \in Names : db'[c] = IF c = Collections[done + 1] THEN {} ELSE db[c]
  BY <1>1, <1>3, <1>4
<1>6. \A i \in 1 .. done + 1 : db'[Collections[i]] = {}
  <2>1. \A i \in 1 .. done : db[Collections[i]] = {} /\ Collections[i] \in Names
    <3>1. \A i \in 1 .. done : i \in {1, 2, 3, 4}
      BY <1>1
    <3>. QED
      BY <1>1, <1>2, <3>1, NamesAre DEF Inv, Stages
  <2>2. \A i \in 1 .. done + 1 : i \in 1 .. done \/ i = done + 1
    BY <1>1
  <2>. QED
    BY <1>3, <1>5, <2>1, <2>2
<1>7. Ids' = Ids
  BY <1>1 DEF Ids
<1>8. DbTyped'
  <2>1. \A c \in Names : db'[c] \in SUBSET db[c]
    BY <1>5
  <2>. QED
    BY <1>5, <1>7, <2>1, NamesAre DEF Inv, DbTyped
\* The users are the first to go.
<1>9. db'.users = {}
  BY <1>1, <1>2, <1>6
<1>10. NothingDangles'
  BY <1>9 DEF NothingDangles
<1>11. CASE done + 1 < Len(DropOrder) /\ done' = done + 1 /\ UNCHANGED stage
  <2>1. ControlTyped'
    BY <1>1, <1>11, NamesAre DEF Inv, ControlTyped
  <2>2. done' \in 0 .. 3
    BY <1>1, <1>2, <1>11
  <2>3. Stages'
    BY <1>1, <1>6, <1>11, <2>2, NamesAre DEF Stages
  <2>. QED
    BY <1>8, <1>10, <2>1, <2>3 DEF Inv
<1>12. CASE done + 1 = Len(DropOrder) /\ done' = 0 /\ stage' = "users"
  <2>1. done = 3
    BY <1>1, <1>2, <1>12
  <2>2. /\ db'.users = {} /\ db'.personalities = {}
        /\ db'.sessions = {} /\ db'.messages = {}
    BY <1>2, <1>6, <2>1
  <2>3. Holds(0, 0, 0, 0)'
    <3>1. 0 .. 0 - 1 = {} /\ IdsOf(0)' = {}
      BY DEF IdsOf
    <3>. QED
      BY <2>2, <3>1 DEF Holds, Keyed
  <2>4. Written' = 0 /\ Total' = NumUsers /\ NumUsers > 0
    BY <1>12, SeederAssumption DEF Written, Total
  <2>5. Stages'
    BY <1>1, <1>12, <2>3, <2>4, NamesAre DEF Stages
  <2>6. ControlTyped'
    BY <1>1, <1>12, NamesAre DEF Inv, ControlTyped
  <2>. QED
    BY <1>8, <1>10, <2>5, <2>6 DEF Inv
<1>. QED
  BY <1>11, <1>12 DEF Drop

LEMMA CollectInv ==
  ASSUME Inv, Collect
  PROVE  Inv'
<1>1. /\ stage = "collect" /\ stage' = "messages" /\ done = 0 /\ done' = 0
      /\ UNCHANGED <<run, outcome, db>> /\ outcome = "none"
      /\ Holds(NumUsers, NumUsers, NumSessions, 0)
  BY NamesAre DEF Inv, Stages, Collect
<1>2. known' # {} /\ known' \subseteq db.sessions
  <2>1. Keyed(db.sessions, IdsOf(NumSessions)) /\ NumSessions \in Nat \ {0} /\ Limit \in Nat \ {0}
    BY <1>1, SeederAssumption DEF Holds
  <2>2. Cardinality(db.sessions) = NumSessions
    BY <2>1, KeyedCount, CountIds
  <2>3. Cardinality(known') # 0
    BY <2>1, <2>2 DEF Collect
  <2>. QED
    BY <2>3, FS_EmptySet DEF Collect
<1>3. ControlTyped'
  BY <1>1, <1>2, NamesAre DEF Inv, ControlTyped
<1>4. DbTyped' /\ NothingDangles'
  BY <1>1 DEF Inv, DbTyped, NothingDangles, Ids
<1>5. Holds(NumUsers, NumUsers, NumSessions, 0)'
  BY <1>1 DEF Holds, IdsOf, ObjectId
<1>6. Written' = 0 /\ Total' = NumMessages /\ NumMessages > 0
  BY <1>1, SeederAssumption DEF Written, Total
<1>7. Stages'
  BY <1>1, <1>5, <1>6, NamesAre DEF Stages
<1>. QED
  BY <1>3, <1>4, <1>7 DEF Inv

\* Where a run stops, and where it starts, little has to hold of the collections.
LEMMA AtRestInv ==
  ASSUME Inv, DbTyped', NothingDangles', ControlTyped',
         \/ stage' \in {"idle", "check"}
         \/ stage' = "drop" /\ done' = 0
         \/ stage' = "over" /\ outcome' = "skipped",
         outcome' # "none" => stage' = "over",
         outcome' # "seeded"
  PROVE  Inv'
<1>1. Stages'
  BY NamesAre DEF Stages
<1>. QED
  BY <1>1 DEF Inv

LEMMA CrashInv ==
  ASSUME Inv, Crash
  PROVE  Inv'
<1>1. /\ stage \notin {"idle", "over"} /\ stage' = "idle" /\ done' = 0 /\ known' = {}
      /\ run' = run /\ outcome' = outcome /\ outcome = "none"
  BY DEF Inv, Stages, Crash
<1>2. ControlTyped'
  BY <1>1, NamesAre DEF Inv, ControlTyped
<1>3. CASE UNCHANGED db
  <2>1. DbTyped' /\ NothingDangles'
    BY <1>1, <1>3 DEF Inv, DbTyped, NothingDangles, Ids
  <2>. QED
    BY <1>1, <1>2, <2>1, AtRestInv
<1>4. ASSUME stage \in Names, NEW batch \in Batches, NEW new \in SUBSET batch,
             db' = [db EXCEPT ![stage] = @ \cup new]
      PROVE  Inv'
  <2>1. DbTyped' /\ NothingDangles'
    BY <1>1, <1>4, InsertedFits DEF Inserts
  <2>. QED
    BY <1>1, <1>2, <2>1, AtRestInv
<1>. QED
  BY <1>3, <1>4 DEF Crash

LEMMA StartInv ==
  ASSUME Inv, Start \/ CheckSkips \/ CheckSeeds
  PROVE  Inv'
<1>1. CASE Start
  <2>1. run \in Nat /\ run' = run + 1 /\ MaxRuns \in Nat /\ run < MaxRuns
    BY <1>1, SeederAssumption DEF Start, Inv, ControlTyped
  <2>2. Ids \subseteq Ids'
    BY <2>1 DEF Ids
  <2>3. db' = db
    BY <1>1 DEF Start
  <2>4. DbTyped'
    BY <2>2, <2>3 DEF Inv, DbTyped
  <2>5. NothingDangles'
    BY <2>3 DEF Inv, NothingDangles
  <2>6. ControlTyped'
    BY <1>1, <2>1, NamesAre DEF Start, Inv, ControlTyped
  <2>. QED
    BY <1>1, <2>4, <2>5, <2>6, AtRestInv DEF Start
<1>2. CASE CheckSkips \/ CheckSeeds
  <2>1. /\ UNCHANGED <<run, known, db>> /\ outcome = "none"
        /\ \/ stage' = "over" /\ outcome' = "skipped" /\ done' = done
           \/ stage' = "drop" /\ outcome' = outcome /\ done' = 0
    BY <1>2 DEF CheckSkips, CheckSeeds, Inv, Stages
  <2>2. DbTyped' /\ NothingDangles'
    BY <2>1 DEF Inv, DbTyped, NothingDangles, Ids
  <2>3. ControlTyped'
    BY <2>1, NamesAre DEF Inv, ControlTyped
  <2>. QED
    BY <2>1, <2>2, <2>3, AtRestInv
<1>. QED
  BY <1>1, <1>2

LEMMA NextInv == Inv /\ [Next]_vars => Inv'
<1> SUFFICES ASSUME Inv, [Next]_vars PROVE Inv'
  OBVIOUS
<1>1. CASE UNCHANGED vars
  <2>1. stage' = stage /\ done' = done /\ run' = run /\ known' = known
        /\ outcome' = outcome /\ db' = db
    BY <1>1 DEF vars
  <2>2. ControlTyped' /\ DbTyped' /\ NothingDangles'
    BY <2>1 DEF Inv, ControlTyped, DbTyped, NothingDangles, Ids
  <2>3. /\ \A u, p, s, m : Holds(u, p, s, m)' <=> Holds(u, p, s, m)
        /\ Written' = Written /\ Total' = Total
    BY <2>1 DEF Holds, IdsOf, ObjectId, Written, Total
  <2>4. Stages'
    BY <2>1, <2>3 DEF Inv, Stages
  <2>. QED
    BY <2>2, <2>4 DEF Inv
<1>. QED
  BY <1>1, InsertBatchInv, DropInv, CollectInv, CrashInv, StartInv DEF Next, Rest

LEMMA InvHolds == Spec => []Inv
BY InitInv, NextInv, PTL DEF Spec

-----------------------------------------------------------------------------
(* What the invariant says *)

\* Every reachable state is well typed: the collections hold documents of the
\* right kind whose users are among the seeded ones, and the messages' stage
\* has sessions to choose from.
THEOREM TypeOKHolds == Spec => []TypeOK
<1>1. Inv => TypeOK
  BY DEF Inv, ControlTyped, DbTyped, TypeOK
<1>. QED
  BY <1>1, InvHolds, PTL

\* A run that seeded left exactly the promised documents, however many runs
\* were cut short before it.
THEOREM SeededIsCompleteHolds == Spec => []SeededIsComplete
<1>1. Inv => SeededIsComplete
  BY FullIsComplete DEF Inv, Stages, SeededIsComplete
<1>. QED
  BY <1>1, InvHolds, PTL

\* While there are users no session lacks its user and no message its session,
\* wherever runs were killed.
THEOREM NothingDanglesHolds == Spec => []NothingDangles
<1>1. Inv => NothingDangles
  BY DEF Inv
<1>. QED
  BY <1>1, InvHolds, PTL

-----------------------------------------------------------------------------
(* No two documents have the same id, which the reading of them rests on *)

\* A document's id tells it from the others of its collection.
OneEach ==
  /\ \A u, v \in db.users : u.id = v.id => u = v
  /\ \A m, n \in db.messages : m.id = n.id => m = n

\* What is inserted, or a part of it, has other ids than what is there.
LEMMA InsertedOneEach ==
  ASSUME Inv, OneEach, stage \in Names, NEW batch \in Batches, NEW new \in SUBSET batch,
         Inserts(new)
  PROVE  OneEach'
<1>1. DOMAIN db = Names
  BY DEF Inv, DbTyped
<1>2. \A c \in Names : db'[c] = IF c = stage THEN db[c] \cup new ELSE db[c]
  BY <1>1 DEF Inserts
<1>3. /\ (0 .. Written - 1) \cap Indexes = {}
      /\ IdsOf(Written) \cap {ObjectId(i) : i \in Indexes} = {}
  <2>1. /\ Written \in Nat /\ BatchSize \in Nat
        /\ Indexes = Written .. Written + BatchSize - 1
    BY NextBatch
  <2> QED
    BY <2>1, IdsFollow
<1>4. CASE stage = "users"
  <2>1. db'.users = db.users \cup new /\ db'.messages = db.messages
    BY <1>2, <1>4, NamesAre
  <2>2. Keyed(db.users, 0 .. Written - 1) /\ Keyed(batch, Indexes)
    BY <1>4, UsersBatch DEF Inv, Stages, Holds
  <2>3. Keyed(db.users \cup batch, (0 .. Written - 1) \cup Indexes)
    BY <1>3, <2>2, KeyedUnion
  <2> QED
    BY <2>1, <2>3 DEF Keyed, OneEach
<1>5. CASE stage = "messages"
  <2>1. db'.users = db.users /\ db'.messages = db.messages \cup new
    BY <1>2, <1>5, NamesAre
  <2>2. Keyed(db.messages, IdsOf(Written)) /\ Keyed(batch, {ObjectId(i) : i \in Indexes})
    BY <1>5, MessagesBatch DEF Inv, Stages, Holds
  <2>3. Keyed(db.messages \cup batch, IdsOf(Written) \cup {ObjectId(i) : i \in Indexes})
    BY <1>3, <2>2, KeyedUnion
  <2> QED
    BY <2>1, <2>3 DEF Keyed, OneEach
<1>6. CASE stage \in {"personalities", "sessions"}
  <2>1. db'.users = db.users /\ db'.messages = db.messages
    BY <1>2, <1>6, NamesAre
  <2> QED
    BY <2>1 DEF OneEach
<1> QED
  BY <1>4, <1>5, <1>6, NamesAre

\* Every step keeps the ids apart.
LEMMA NextOneEach ==
  ASSUME Inv, OneEach, [Next]_vars
  PROVE  OneEach'
<1>1. CASE UNCHANGED db
  BY <1>1 DEF OneEach
<1>2. CASE Drop
  <2>1. \A c \in Names : db'[c] \subseteq db[c]
    BY <1>2 DEF Inv, DbTyped, Drop
  <2> QED
    BY <2>1, NamesAre DEF OneEach
<1>3. ASSUME NEW batch \in Batches, NEW new \in SUBSET batch, stage \in Names, Inserts(new)
      PROVE  OneEach'
  BY <1>3, InsertedOneEach
<1>4. CASE InsertBatch
  BY <1>3, <1>4 DEF InsertBatch, Inserts
<1>5. CASE Crash
  BY <1>1, <1>3, <1>5 DEF Crash, Inserts
<1> QED
  BY <1>1, <1>2, <1>4, <1>5 DEF Next, vars, Start, CheckSkips, CheckSeeds, Collect, Rest

\* In every state each user and each message has an id of its own.
LEMMA OneEachHolds == Spec => []OneEach
<1>1. Init => OneEach
  <2> SUFFICES ASSUME Init PROVE OneEach
    OBVIOUS
  <2>1. CASE db = [c \in Names |-> {}]
    <3>1. db.users = {} /\ db.messages = {}
      BY <2>1, NamesAre
    <3> QED
      BY <3>1 DEF OneEach
  <2>2. CASE db # [c \in Names |-> {}]
    BY <2>2 DEF Init, OneEach
  <2> QED
    BY <2>1, <2>2
<1> QED
  BY <1>1, NextOneEach, InvHolds, PTL DEF Spec

\* Two different ids differ in a component.
LEMMA IdsArePairs ==
  ASSUME NEW i \in Ids, run \in Nat
  PROVE  /\ i.oid \in (0 .. run) \X (0 .. NumSessions + NumMessages)
         /\ i.oid[1] \in Nat /\ i.oid[2] \in Nat
         /\ \A j \in Ids : i.oid[1] = j.oid[1] /\ i.oid[2] = j.oid[2] => i = j
<1> DEFINE Oids == (0 .. run) \X (0 .. NumSessions + NumMessages)
<1>1. \A j \in Ids : j \in [oid : Oids]
  BY DEF Ids
<1>2. \A j \in Ids : j = [oid |-> j.oid] /\ j.oid \in Oids
  <2> HIDE DEF Oids
  <2> QED
    BY <1>1
<1>3. \A p \in Oids : p = <<p[1], p[2]>> /\ p[1] \in 0 .. run /\ p[2] \in 0 .. NumSessions + NumMessages
  OBVIOUS
<1>4. i.oid[1] \in Nat /\ i.oid[2] \in Nat
  <2> HIDE DEF Oids
  <2>1. i.oid[1] \in 0 .. run /\ i.oid[2] \in 0 .. NumSessions + NumMessages
    BY <1>2, <1>3
  <2> QED
    BY <2>1, SeederAssumption
<1>5. ASSUME NEW j \in Ids, i.oid[1] = j.oid[1], i.oid[2] = j.oid[2] PROVE i = j
  <2> HIDE DEF Oids
  <2>1. i.oid = j.oid
    BY <1>2, <1>3, <1>5
  <2> QED
    BY <1>2, <2>1
<1> QED
  BY <1>2, <1>4, <1>5

\* There are finitely many users and messages.
LEMMA FiniteDocuments ==
  ASSUME Inv, OneEach
  PROVE  IsFiniteSet(db.users) /\ IsFiniteSet(db.messages)
<1>1. IsFiniteSet(db.users)
  <2> DEFINE idOf == [u \in db.users |-> u.id]
  <2>1. idOf \in Injection(db.users, 0 .. NumUsers - 1)
    BY DEF Inv, DbTyped, OneEach, Injection, IsInjective
  <2>2. IsFiniteSet(0 .. NumUsers - 1)
    BY SeederAssumption, FS_Interval
  <2> QED
    BY <2>1, <2>2, FS_Injection
<1>2. IsFiniteSet(db.messages)
  <2> DEFINE idOf == [m \in db.messages |-> m.id.oid]
  <2> DEFINE Oids == (0 .. run) \X (0 .. NumSessions + NumMessages)
  <2>1. \A m, n \in db.messages : m.id.oid \in Oids /\ (m.id.oid = n.id.oid => m = n)
    <3>1. run \in Nat /\ \A m \in db.messages : m.id \in Ids
      BY DEF Inv, ControlTyped, DbTyped
    <3> QED
      BY <3>1, IdsArePairs DEF OneEach
  <2>2. idOf \in Injection(db.messages, Oids)
    <3> HIDE DEF Oids
    <3>1. idOf \in [db.messages -> Oids]
      BY <2>1
    <3>2. \A m, n \in db.messages : idOf[m] = idOf[n] => m = n
      BY <2>1
    <3> HIDE DEF idOf
    <3> QED
      BY <3>1, <3>2 DEF Injection, IsInjective
  <2>3. IsFiniteSet(Oids)
    <3>1. run \in Int /\ NumSessions + NumMessages \in Int
      <4>1. NumSessions \in Nat /\ NumMessages \in Nat
        BY SeederAssumption
      <4>2. run \in 0 .. MaxRuns
        BY DEF Inv, ControlTyped
      <4> QED
        BY <4>1, <4>2
    <3> QED
      <4>1. IsFiniteSet(0 .. run) /\ IsFiniteSet(0 .. NumSessions + NumMessages)
        BY <3>1, FS_Interval
      <4> QED
        BY <4>1, FS_Product
  <2> HIDE DEF idOf, Oids
  <2> QED
    BY <2>2, <2>3, FS_Injection
<1> QED
  BY <1>1, <1>2

-----------------------------------------------------------------------------
(* The newest messages *)

\* The messages a seeder can write.
Messages == [id : Ids, session : {AsString(id) : id \in Ids}, user : 0 .. NumUsers - 1, at : Times]

\* Newer orders messages with different ids, one before the other.
LEMMA NewerOrders ==
  ASSUME run \in Nat, NEW ms \in SUBSET Messages, \A m, n \in ms : m.id = n.id => m = n
  PROVE  /\ \A m \in ms : ~Newer(m, m)
         /\ \A m, n \in ms : m # n => Newer(m, n) \/ Newer(n, m)
         /\ \A l, m, n \in ms : Newer(l, m) /\ Newer(m, n) => Newer(l, n)
<1>1. \A m, n \in ms : /\ m.at \in Nat /\ m.id.oid[1] \in Nat /\ m.id.oid[2] \in Nat
                       /\ m.id.oid[1] = n.id.oid[1] /\ m.id.oid[2] = n.id.oid[2] => m = n
  <2>1. \A m \in ms : m.at \in Nat /\ m.id \in Ids
    BY SeederAssumption DEF Messages
  <2> QED
    BY <2>1, IdsArePairs
<1>2. \A m \in ms : ~Newer(m, m)
  BY <1>1 DEF Newer
<1>3. ASSUME NEW m \in ms, NEW n \in ms, m # n PROVE Newer(m, n) \/ Newer(n, m)
  <2>1. m.id.oid[1] # n.id.oid[1] \/ m.id.oid[2] # n.id.oid[2]
    BY <1>1, <1>3
  <2> QED
    BY <1>1, <2>1 DEF Newer
<1>4. ASSUME NEW l \in ms, NEW m \in ms, NEW n \in ms, Newer(l, m), Newer(m, n)
      PROVE  Newer(l, n)
  BY <1>1, <1>4 DEF Newer
<1> QED
  BY <1>2, <1>3, <1>4

\* How many messages are newer than m.
Rank(ms, m) == Cardinality({n \in ms : Newer(n, m)})

\* Ranks are different, without gaps, and grow towards the older messages.
LEMMA RanksAreOrder ==
  ASSUME run \in Nat, NEW ms \in SUBSET Messages, \A m, n \in ms : m.id = n.id => m = n,
         IsFiniteSet(ms)
  PROVE  /\ \A m \in ms : Rank(ms, m) \in 0 .. Cardinality(ms) - 1
         /\ \A m, n \in ms : Newer(m, n) => Rank(ms, m) < Rank(ms, n)
         /\ \A m, n \in ms : Rank(ms, m) = Rank(ms, n) => m = n
         /\ \A k \in 0 .. Cardinality(ms) - 1 : \E m \in ms : Rank(ms, m) = k
<1> DEFINE Above(m) == {n \in ms : Newer(n, m)}
<1>1. /\ \A m \in ms : ~Newer(m, m)
      /\ \A m, n \in ms : m # n => Newer(m, n) \/ Newer(n, m)
      /\ \A l, m, n \in ms : Newer(l, m) /\ Newer(m, n) => Newer(l, n)
  BY NewerOrders
<1>2. \A m \in ms : IsFiniteSet(Above(m)) /\ Cardinality(Above(m)) \in Nat
  BY FS_Subset, FS_CardinalityType
<1>3. Cardinality(ms) \in Nat
  BY FS_CardinalityType
<1>4. \A m \in ms : Rank(ms, m) = Cardinality(Above(m))
  BY DEF Rank
<1>5. ASSUME NEW m \in ms PROVE Rank(ms, m) \in 0 .. Cardinality(ms) - 1
  <2>1. Above(m) \in SUBSET ms /\ Above(m) # ms
    BY <1>1
  <2>2. Cardinality(Above(m)) <= Cardinality(ms) /\ Cardinality(Above(m)) # Cardinality(ms)
    <3> HIDE DEF Above
    <3> QED
      BY <2>1, FS_Subset
  <2> HIDE DEF Above
  <2> QED
    BY <1>2, <1>3, <1>4, <2>2
<1>6. ASSUME NEW m \in ms, NEW n \in ms, Newer(m, n) PROVE Rank(ms, m) < Rank(ms, n)
  <2>1. Above(m) \in SUBSET Above(n) /\ Above(m) # Above(n)
    BY <1>1, <1>6
  <2>2. Cardinality(Above(m)) <= Cardinality(Above(n))
        /\ Cardinality(Above(m)) # Cardinality(Above(n))
    <3> HIDE DEF Above
    <3> QED
      BY <1>2, <2>1, FS_Subset
  <2> HIDE DEF Above
  <2> QED
    BY <1>2, <1>4, <2>2
<1> HIDE DEF Above
<1>7. ASSUME NEW m \in ms, NEW n \in ms, Rank(ms, m) = Rank(ms, n) PROVE m = n
  <2>1. Rank(ms, m) \in Nat
    BY <1>2, <1>4
  <2>2. ~(Rank(ms, m) < Rank(ms, n)) /\ ~(Rank(ms, n) < Rank(ms, m))
    BY <1>7, <2>1
  <2> QED
    BY <1>1, <1>6, <2>2
<1>8. \A k \in 0 .. Cardinality(ms) - 1 : \E m \in ms : Rank(ms, m) = k
  <2> DEFINE Places == 0 .. Cardinality(ms) - 1
  <2> DEFINE rank == [m \in ms |-> Rank(ms, m)]
  <2>1. rank \in Injection(ms, Places)
    BY <1>5, <1>7 DEF Injection, IsInjective
  <2>2. IsFiniteSet(Places) /\ Cardinality(Places) = Cardinality(ms)
    BY <1>3, CountUpTo
  <2>3. rank \in Surjection(ms, Places)
    <3> HIDE DEF rank, Places
    <3> QED
      BY <2>1, <2>2, FS_Injection
  <2> QED
    BY <2>3 DEF Surjection
<1> QED
  BY <1>5, <1>6, <1>7, <1>8

\* The newest messages by their ranks.
LEMMA NewestFirstRanks ==
  ASSUME run \in Nat, NEW ms \in SUBSET Messages, \A m, n \in ms : m.id = n.id => m = n,
         IsFiniteSet(ms)
  PROVE  LET k == Least(MessageLimit, Cardinality(ms)) IN
         /\ k \in 0 .. Cardinality(ms)
         /\ NewestFirst(ms) \in Seq(ms) /\ Len(NewestFirst(ms)) = k
         /\ \A i \in 1 .. k : Rank(ms, NewestFirst(ms)[i]) = i - 1
<1> DEFINE k == Least(MessageLimit, Cardinality(ms))
<1> DEFINE Nth(i) == CHOOSE m \in ms : Rank(ms, m) = i - 1
<1>1. Cardinality(ms) \in Nat
  BY FS_CardinalityType
<1>2. k \in 0 .. Cardinality(ms)
  BY <1>1, QueriesAssumption DEF Least
<1>3. NewestFirst(ms) = [i \in 1 .. k |-> Nth(i)]
  BY DEF NewestFirst, Rank
<1> HIDE DEF k
<1>4. ASSUME NEW i \in 1 .. k PROVE Nth(i) \in ms /\ Rank(ms, Nth(i)) = i - 1
  <2>1. i - 1 \in 0 .. Cardinality(ms) - 1
    BY <1>1, <1>2
  <2>2. \E m \in ms : Rank(ms, m) = i - 1
    BY <2>1, RanksAreOrder
  <2> QED
    BY <2>2
<1> HIDE DEF Nth
<1>5. NewestFirst(ms) \in [1 .. k -> ms]
  BY <1>3, <1>4
<1>6. NewestFirst(ms) \in Seq(ms) /\ Len(NewestFirst(ms)) = k
  BY <1>1, <1>2, <1>5
<1>7. \A i \in 1 .. k : Rank(ms, NewestFirst(ms)[i]) = i - 1
  BY <1>3, <1>4
<1> QED
  BY <1>2, <1>6, <1>7 DEF k

\* The messages of a session that a database holds are a finite set of messages.
LEMMA SessionMessages ==
  ASSUME Inv, OneEach, NEW sid
  PROVE  /\ run \in Nat /\ MessagesOf(sid) \in SUBSET Messages /\ IsFiniteSet(MessagesOf(sid))
         /\ \A m, n \in MessagesOf(sid) : m.id = n.id => m = n
<1>1. MessagesOf(sid) \in SUBSET db.messages
  BY DEF MessagesOf
<1>2. run \in Nat /\ db.messages \in SUBSET Messages
  BY SeederAssumption DEF Inv, ControlTyped, DbTyped, Messages
<1>3. \A m, n \in db.messages : m.id = n.id => m = n
  BY DEF OneEach
<1>4. IsFiniteSet(MessagesOf(sid))
  BY <1>1, FiniteDocuments, FS_Subset
<1> QED
  BY <1>1, <1>2, <1>3, <1>4

\* What a session's newest messages are, turned round, is its context.
LEMMA RecentIsContext ==
  ASSUME Inv, OneEach, NEW sid
  PROVE  IsContext(RecentMessages(sid), sid)
<1> DEFINE ms == MessagesOf(sid)
<1> DEFINE k == Least(MessageLimit, Cardinality(ms))
<1> DEFINE first == NewestFirst(ms)
<1> DEFINE context == RecentMessages(sid)
<1>1. /\ run \in Nat /\ ms \in SUBSET Messages /\ IsFiniteSet(ms)
      /\ \A m, n \in ms : m.id = n.id => m = n
  BY SessionMessages
<1>2. /\ k \in 0 .. Cardinality(ms) /\ Cardinality(ms) \in Nat
      /\ first \in Seq(ms) /\ Len(first) = k
      /\ \A i \in 1 .. k : Rank(ms, first[i]) = i - 1
  BY <1>1, NewestFirstRanks, FS_CardinalityType
<1>3. context = [i \in 1 .. k |-> first[k - i + 1]]
  BY <1>2 DEF RecentMessages, Reverse
<1>4. /\ \A m \in ms : m.at \in Nat /\ Rank(ms, m) \in Nat
      /\ \A m, n \in ms : Rank(ms, m) <= Rank(ms, n) => m.at >= n.at
  <2>1. \A m \in ms : m.at \in Nat
    BY <1>1, SeederAssumption DEF Messages
  <2>2. /\ \A m \in ms : Rank(ms, m) \in 0 .. Cardinality(ms) - 1
        /\ \A m, n \in ms : Newer(m, n) => Rank(ms, m) < Rank(ms, n)
    BY <1>1, RanksAreOrder
  <2>3. ASSUME NEW m \in ms, NEW n \in ms, Rank(ms, m) <= Rank(ms, n) PROVE m.at >= n.at
    <3>1. ~Newer(n, m)
      BY <2>2, <2>3
    <3> QED
      BY <2>1, <3>1 DEF Newer
  <2> QED
    BY <2>1, <2>2, <2>3
<1> HIDE DEF ms, k, first, context
<1>5. \A i \in 1 .. k : /\ context[i] \in ms /\ Rank(ms, context[i]) = k - i
                        /\ context[i] = first[k - i + 1]
  BY <1>2, <1>3
<1>6. Len(context) = k /\ DOMAIN context = 1 .. k
  BY <1>2, <1>3
<1>7. ASSUME NEW i \in DOMAIN context, NEW j \in DOMAIN context, i < j
      PROVE  context[i].at <= context[j].at
  <2>1. /\ context[i] \in ms /\ Rank(ms, context[i]) = k - i
        /\ context[j] \in ms /\ Rank(ms, context[j]) = k - j
    BY <1>5, <1>6
  <2>2. Rank(ms, context[j]) <= Rank(ms, context[i])
    <3>1. k \in Nat /\ i \in Nat /\ j \in Nat
      BY <1>2, <1>6
    <3> QED
      BY <1>7, <2>1, <3>1
  <2> QED
    BY <1>4, <2>1, <2>2
<1>8. ASSUME NEW m \in ms \ Range(context), NEW i \in DOMAIN context
      PROVE  m.at <= context[i].at
  <2>1. Rank(ms, m) >= k
    <3> SUFFICES ASSUME Rank(ms, m) < k PROVE FALSE
      BY <1>2, <1>4
    <3>1. k - Rank(ms, m) \in 1 .. k
      BY <1>2, <1>4
    <3>2. Rank(ms, context[k - Rank(ms, m)]) = Rank(ms, m) /\ context[k - Rank(ms, m)] \in ms
      BY <1>2, <1>4, <1>5, <3>1
    <3>3. context[k - Rank(ms, m)] = m
      BY <1>1, <3>2, RanksAreOrder
    <3> QED
      BY <1>6, <3>1, <3>3 DEF Range
  <2>2. Rank(ms, context[i]) <= Rank(ms, m) /\ context[i] \in ms
    BY <1>2, <1>4, <1>5, <1>6, <2>1
  <2> QED
    BY <1>4, <2>2
<1> QED
  BY <1>6, <1>7, <1>8 DEF ms, k, context, IsContext

\* The context that a session's answers are generated from is the newest of its
\* messages, in the order they were written, and so is the one that the join
\* returns: for every database the seeder leaves, complete or not, and any limit.
THEOREM ContextIsNewestHolds == Spec => []ContextIsNewest
<1>1. ASSUME Inv, OneEach PROVE ContextIsNewest
  <2>1. ASSUME NEW u \in db.users, NEW r \in ActiveSessionWithContext(u.id)
        PROVE  IsContext(Reverse(r.recent), AsString(r.session.id))
    <3>1. PICK s \in ActiveSessions(u.id) :
            r = [session |-> s, recent |-> NewestFirst(MessagesOf(AsString(s.id)))]
      BY <2>1 DEF ActiveSessionWithContext
    <3>2. r.session = s /\ Reverse(r.recent) = RecentMessages(AsString(s.id))
      BY <3>1 DEF RecentMessages
    <3>. QED
      BY <1>1, <3>2, RecentIsContext
  <2>. QED
    BY <1>1, <2>1, RecentIsContext DEF ContextIsNewest
<1> QED
  BY <1>1, InvHolds, OneEachHolds, PTL

-----------------------------------------------------------------------------
(* The reports *)

\* The element of T that a fold takes first.
First(T) == CHOOSE x \in T : TRUE

\* What f makes of T when it adds the rows' counts up one at a time.
NextSum(f, rows, T) ==
  IF T = {} THEN 0 ELSE rows[First(T)].message_count + f[T \ {First(T)}]

\* f does so for every subset of S.
Sums(f, rows, S) == f = [T \in SUBSET S |-> NextSum(f, rows, T)]

\* f does so for the subsets of S of up to k elements.
SumsUpTo(f, c, S, k) ==
  /\ f = [T \in SUBSET S |-> f[T]]
  /\ \A T \in SUBSET S : Cardinality(T) <= k => f[T] = NextSum(f, c, T)

\* There is a function that adds the counts up over the subsets of a finite set.
LEMMA SumExists ==
  ASSUME NEW S, IsFiniteSet(S), NEW c
  PROVE  \E f : Sums(f, c, S)
<1> DEFINE n == Cardinality(S)
<1> DEFINE Good == {k \in 0 .. n : \E f : SumsUpTo(f, c, S, k)}
<1>1. n \in Nat
  BY FS_CardinalityType
<1>2. \A T \in SUBSET S : IsFiniteSet(T) /\ Cardinality(T) \in 0 .. n
  BY <1>1, FS_Subset, FS_CardinalityType
<1>3. \A T \in SUBSET S : T # {} => /\ First(T) \in T /\ T \ {First(T)} \in SUBSET S
                                    /\ Cardinality(T \ {First(T)}) = Cardinality(T) - 1
  <2> SUFFICES ASSUME NEW T \in SUBSET S, T # {}
               PROVE  /\ First(T) \in T /\ T \ {First(T)} \in SUBSET S
                      /\ Cardinality(T \ {First(T)}) = Cardinality(T) - 1
    OBVIOUS
  <2>1. First(T) \in T
    BY DEF First
  <2> QED
    BY <1>2, <2>1, FS_RemoveElement
<1>4. 0 \in Good
  <2> DEFINE f == [T \in SUBSET S |-> 0]
  <2>1. \A T \in SUBSET S : Cardinality(T) <= 0 => T = {}
    BY <1>2, FS_EmptySet
  <2>2. SumsUpTo(f, c, S, 0)
    BY <2>1 DEF NextSum, SumsUpTo
  <2> HIDE DEF f
  <2> QED
    BY <1>1, <2>2
<1>5. ASSUME NEW k \in 1 .. n, k - 1 \in Good PROVE k \in Good
  <2>1. PICK f : SumsUpTo(f, c, S, k - 1)
    BY <1>5
  <2> DEFINE g == [T \in SUBSET S |-> IF Cardinality(T) <= k - 1 THEN f[T] ELSE NextSum(f, c, T)]
  <2>2. ASSUME NEW T \in SUBSET S, Cardinality(T) <= k PROVE g[T] = NextSum(g, c, T)
    <3>1. CASE T = {}
      <4>1. Cardinality(T) <= k - 1
        BY <3>1, FS_EmptySet
      <4> QED
        BY <2>1, <3>1, <4>1 DEF NextSum, SumsUpTo
    <3>2. CASE T # {}
      <4>1. /\ T \ {First(T)} \in SUBSET S
            /\ Cardinality(T \ {First(T)}) <= k - 1
        BY <1>2, <1>3, <2>2, <3>2
      <4>2. g[T \ {First(T)}] = f[T \ {First(T)}]
        BY <4>1
      <4>3. g[T] = NextSum(f, c, T)
        BY <2>1 DEF SumsUpTo
      <4> HIDE DEF g
      <4> QED
        BY <3>2, <4>2, <4>3 DEF NextSum
    <3> QED
      BY <3>1, <3>2
  <2>3. g = [T \in SUBSET S |-> g[T]]
    OBVIOUS
  <2> HIDE DEF g
  <2>4. SumsUpTo(g, c, S, k)
    BY <2>2, <2>3 DEF SumsUpTo
  <2> QED
    BY <2>4
<1> HIDE DEF Good
<1>6. n \in Good
  <2>1. \A k \in 0 .. n : k \in Good
    BY <1>1, <1>4, <1>5, UpTo
  <2> QED
    BY <1>1, <2>1
<1>7. PICK f : SumsUpTo(f, c, S, n)
  BY <1>6 DEF Good
<1>8. ASSUME NEW T \in SUBSET S PROVE f[T] = NextSum(f, c, T)
  <2>1. Cardinality(T) <= n
    BY <1>1, <1>2
  <2> QED
    BY <1>7, <2>1 DEF SumsUpTo
<1>9. Sums(f, c, S)
  BY <1>7, <1>8 DEF SumsUpTo, Sums
<1> QED
  BY <1>9

\* The sum that the reports are held against is that function's.
SumOfRows(rows, S) == (CHOOSE f : Sums(f, rows, S))[S]

\* It is the sum that ReportsAddUp is stated with.
LEMMA MapThenSumIs ==
  MapThenSumSet(LAMBDA tier : MessagesByTier[tier].message_count, TiersThere)
    = SumOfRows(MessagesByTier, TiersThere)
BY DEF SumOfRows, Sums, MapThenSumSet, MapThenFoldSet, NextSum, First

\* That function, by what it says of every subset.
LEMMA SumIs ==
  ASSUME NEW S, IsFiniteSet(S), NEW c
  PROVE  \E f : /\ \A T \in SUBSET S : f[T] = NextSum(f, c, T)
                /\ SumOfRows(c, S) = f[S]
<1> DEFINE f == CHOOSE g : Sums(g, c, S)
<1>1. Sums(f, c, S)
  BY SumExists
<1>2. SumOfRows(c, S) = f[S]
  BY DEF SumOfRows
<1> HIDE DEF f
<1>3. \A T \in SUBSET S : f[T] = NextSum(f, c, T)
  BY <1>1 DEF Sums
<1> QED
  BY <1>2, <1>3

\* Counts of sets that do not overlap add up to the count of their union.
LEMMA CountsAddUp ==
  ASSUME NEW S, IsFiniteSet(S), NEW F, \A x \in S : IsFiniteSet(F[x]),
         \A x, y \in S : x # y => F[x] \cap F[y] = {},
         NEW c, \A x \in S : c[x].message_count = Cardinality(F[x])
  PROVE  SumOfRows(c, S) = Cardinality(UNION {F[x] : x \in S})
<1>1. PICK f : /\ \A T \in SUBSET S : f[T] = NextSum(f, c, T)
               /\ SumOfRows(c, S) = f[S]
  BY SumIs
<1> DEFINE All(T) == UNION {F[x] : x \in T}
<1> DEFINE Good == {T \in SUBSET S : IsFiniteSet(All(T)) /\ f[T] = Cardinality(All(T))}
<1>2. All({}) = {}
  OBVIOUS
<1>3. {} \in Good
  <2>1. f[{}] = 0
    BY <1>1 DEF NextSum
  <2> QED
    BY <1>2, <2>1, FS_EmptySet
<1>4. ASSUME NEW T \in SUBSET S, T # {}, T \ {First(T)} \in Good PROVE T \in Good
  <2> DEFINE x == First(T)
  <2> DEFINE rest == T \ {x}
  <2>1. x \in T
    BY <1>4 DEF First
  <2>2. f[T] = c[x].message_count + f[rest]
    BY <1>1, <1>4 DEF NextSum
  <2> HIDE DEF x
  <2>3. All(T) = F[x] \cup All(rest)
    BY <2>1
  <2>4. F[x] \cap All(rest) = {}
    BY <2>1
  <2>5. IsFiniteSet(All(rest)) /\ f[rest] = Cardinality(All(rest))
    BY <1>4 DEF x
  <2>6. IsFiniteSet(F[x]) /\ c[x].message_count = Cardinality(F[x])
    BY <2>1
  <2> HIDE DEF All, rest
  <2>7. /\ IsFiniteSet(All(T))
        /\ Cardinality(All(T)) = Cardinality(F[x]) + Cardinality(All(rest))
                                   - Cardinality(F[x] \cap All(rest))
    BY <2>3, <2>5, <2>6, FS_Union
  <2>8. /\ Cardinality(F[x] \cap All(rest)) = 0
        /\ Cardinality(F[x]) \in Nat /\ Cardinality(All(rest)) \in Nat
    BY <2>4, <2>5, <2>6, FS_EmptySet, FS_CardinalityType
  <2>9. f[T] = Cardinality(All(T))
    BY <2>2, <2>5, <2>6, <2>7, <2>8
  <2> QED
    BY <2>7, <2>9
<1>5. S \in Good
  <2> HIDE DEF Good
  <2> QED
    <3>1. \A T \in SUBSET S : T # {} => \E x \in T : T \ {x} \in Good => T \in Good
      BY <1>4 DEF First
    <3> QED
      BY <1>3, <3>1, ByElements
<1> QED
  BY <1>1, <1>5

\* The reports account for every user once and for every recent message of a
\* user once, whatever the seeder left and wherever the cutoff is.
THEOREM ReportsAddUpHolds == Spec => []ReportsAddUp
<1> SUFFICES ASSUME Inv, OneEach PROVE ReportsAddUp
  BY InvHolds, OneEachHolds, PTL
<1> DEFINE Recent(us) == {m \in db.messages : m.at >= Cutoff /\ \E u \in us : u.id = m.user}
<1> DEFINE F == [tier \in TiersThere |-> Recent(UsersOf(tier))]
<1>1. /\ IsFiniteSet(db.users) /\ IsFiniteSet(db.messages)
      /\ \A tier : UsersOf(tier) \in SUBSET db.users /\ IsFiniteSet(UsersOf(tier))
  BY FiniteDocuments, FS_Subset DEF UsersOf
<1>2. IsFiniteSet(TiersThere)
  <2> DEFINE tierOf == [u \in db.users |-> u.kind.tier]
  <2>1. tierOf \in Surjection(db.users, TiersThere)
    BY DEF TiersThere, Surjection
  <2> QED
    BY <1>1, <2>1, FS_Surjection
<1>3. \A tier \in TiersThere :
        TierActivity[tier].total_users = MessagesByTier[tier].user_count
  BY DEF TierActivity, MessagesByTier
<1>4. ASSUME NEW tier \in TiersThere
      PROVE  TierActivity[tier].recently_active <= TierActivity[tier].total_users
  <2> DEFINE seen == {u \in UsersOf(tier) : u.kind.seen >= Cutoff}
  <2>1. Cardinality(seen) <= Cardinality(UsersOf(tier))
    BY <1>1, FS_Subset
  <2> QED
    BY <2>1 DEF TierActivity
<1>5. ASSUME NEW tier \in TiersThere
      PROVE  /\ IsFiniteSet(F[tier])
             /\ MessagesByTier[tier].message_count = Cardinality(F[tier])
  <2>1. F[tier] \in SUBSET db.messages
    OBVIOUS
  <2>2. IsFiniteSet(F[tier])
    BY <1>1, <2>1, FS_Subset
  <2> QED
    BY <2>2 DEF MessagesByTier
<1>6. ASSUME NEW t1 \in TiersThere, NEW t2 \in TiersThere, t1 # t2
      PROVE  F[t1] \cap F[t2] = {}
  BY <1>6 DEF OneEach, UsersOf
<1>7. UNION {F[tier] : tier \in TiersThere} = Recent(db.users)
  <2>1. UNION {F[tier] : tier \in TiersThere}
          = {m \in db.messages : \E tier \in TiersThere : m \in Recent(UsersOf(tier))}
    OBVIOUS
  <2>2. \A m : (\E tier \in TiersThere : m \in Recent(UsersOf(tier))) <=> m \in Recent(db.users)
    BY DEF TiersThere, UsersOf
  <2> HIDE DEF F
  <2> QED
    BY <2>1, <2>2
<1> HIDE DEF F
<1>8. SumOfRows(MessagesByTier, TiersThere) = Cardinality(Recent(db.users))
  BY <1>2, <1>5, <1>6, <1>7, CountsAddUp
<1>9. DOMAIN TierActivity = DOMAIN MessagesByTier
  BY DEF TierActivity, MessagesByTier
<1> QED
  BY <1>3, <1>4, <1>8, <1>9, MapThenSumIs DEF ReportsAddUp
=============================================================================
