---------------------------- MODULE LifespanProofs ----------------------------
(***************************************************************************)
(* Proofs about Lifespan: where the analytics events are, that two tasks   *)
(* never insert at once, what the shutdown leaves behind, that no task     *)
(* uses a closed connection, that the samples of the pools are taken in    *)
(* rounds and that the trend follows them.  They hold for every size of    *)
(* the queue and of the batches, every number of pools and events, failing *)
(* inserts or not.                                                         *)
(***************************************************************************)
EXTENDS Lifespan, Induction, SequenceTheorems, FunctionTheorems

-----------------------------------------------------------------------------
(* The inductive invariant *)

\* How far the lifespan is decides which tasks there are, what they may be
\* doing and which connections they find open.
Phases ==
  /\ server = "starting" => flusher = "none" /\ monitor = "none"
  /\ flusher = "none" => server \in {"starting", "down"} /\ queue = <<>>
  /\ flusher \in {"ready", "inserting", "sleeping"} => server \in {"up", "stopping", "cancelling"}
  /\ monitor \in {"ready", "publishing", "sleeping"} => server \in {"up", "stopping"}
  /\ server \in {"up", "stopping", "cancelling", "draining"} => open = Connections
  /\ server = "drained" => "mongo" \in open
  /\ server = "down" /\ flusher # "none" => open = {}
  /\ drain = "inserting" => server = "draining"
  /\ server \in {"drained", "down"} => queue = <<>>

\* A batch is held only by a task that is inserting it, and only the end of the
\* flush task abandons one.
Batches ==
  /\ batch["flusher"] # <<>> => flusher = "inserting"
  /\ batch["shutdown"] # <<>> => drain = "inserting"
  /\ flusher # "over" => abandoned = {}
  /\ IsFiniteSet(abandoned) /\ Cardinality(abandoned) <= BatchSize

Distinct(s) == \A i, j \in 1 .. Len(s) : s[i] = s[j] => i = j

\* How many of the accepted events were taken out of the queue.
Gone == Len(accepted) - Len(queue)

TakenEvents == {accepted[i] : i \in 1 .. Gone}

\* The queue is the newest part of what was accepted.
QueueIsNewest ==
  /\ Distinct(accepted)
  /\ Len(queue) <= Len(accepted)
  /\ \A i \in 1 .. Len(queue) : queue[i] = accepted[Gone + i]

\* Each event that was taken is in one of these, and in no two.
Places ==
  /\ TakenEvents = stored \cup lost \cup abandoned
                     \cup Elements(batch["flusher"]) \cup Elements(batch["shutdown"])
  /\ Distinct(batch["flusher"]) /\ Distinct(batch["shutdown"])
  /\ Elements(batch["flusher"]) \cap Elements(batch["shutdown"]) = {}
  /\ \A t \in Tasks : Elements(batch[t]) \cap (stored \cup lost \cup abandoned) = {}
  /\ stored \cap lost = {} /\ stored \cap abandoned = {} /\ lost \cap abandoned = {}

Drops ==
  /\ IsFiniteSet(refused) /\ dropCount = Cardinality(refused)
  /\ refused # {} => Len(accepted) >= QueueSize

PipelineInv == PipelineTypeOK /\ Phases /\ Batches /\ QueueIsNewest /\ Places /\ Drops

\* The pools up to turn are one sample ahead of those after it, or the window
\* of both is full; between two rounds no pool is ahead.
Rounds ==
  /\ monitor \in {"none", "ready"} => turn = 0
  /\ monitor = "publishing" => turn >= 1
  /\ monitor = "sleeping" => turn = Len(PoolOrder)
  /\ \A i, j \in 1 .. Len(PoolOrder) :
       LET m == Len(history[PoolOrder[i]])
           n == Len(history[PoolOrder[j]])
       IN  /\ i <= turn /\ j <= turn => m = n
           /\ i > turn /\ j > turn => m = n
           /\ i <= turn /\ j > turn => m = n + 1 \/ (m = Window /\ n = Window)

TrackerInv == TrackerTypeOK /\ Rounds

-----------------------------------------------------------------------------
(* Sequences without repetitions *)

LEMMA EmptyElements == Elements(<<>>) = {}
BY DEF Elements

\* A sequence has at most as many elements as places, and exactly as many when
\* it repeats none.
LEMMA CountElements ==
  ASSUME NEW S, NEW s \in Seq(S)
  PROVE  /\ IsFiniteSet(Elements(s)) /\ Elements(s) \subseteq S
         /\ Cardinality(Elements(s)) \in Nat
         /\ Cardinality(Elements(s)) <= Len(s)
         /\ Distinct(s) => Cardinality(Elements(s)) = Len(s)
<1>1. Len(s) \in Nat /\ s \in [1 .. Len(s) -> S]
  BY LenProperties
<1>2. s \in Surjection(1 .. Len(s), Elements(s))
  <2>1. s \in [1 .. Len(s) -> Elements(s)]
    BY <1>1 DEF Elements
  <2>2. \A y \in Elements(s) : \E x \in 1 .. Len(s) : s[x] = y
    BY DEF Elements
  <2>. QED
    BY <2>1, <2>2, Fun_IsSurj
<1>3. IsFiniteSet(1 .. Len(s)) /\ Cardinality(1 .. Len(s)) = Len(s)
  BY <1>1, CountUpTo
<1>4. /\ IsFiniteSet(Elements(s)) /\ Cardinality(Elements(s)) <= Len(s)
      /\ Cardinality(Elements(s)) = Len(s) <=> s \in Injection(1 .. Len(s), Elements(s))
  BY <1>2, <1>3, FS_Surjection
<1>5. Distinct(s) => s \in Injection(1 .. Len(s), Elements(s))
  BY <1>2, Fun_IsInj DEF Distinct, Surjection
<1>. QED
  BY <1>1, <1>4, <1>5, FS_CardinalityType DEF Elements

-----------------------------------------------------------------------------
(* What each kind of step does to the events *)

PipelineData == PipelineTypeOK /\ QueueIsNewest /\ Places /\ Drops

LEMMA TrackData ==
  ASSUME PipelineData, NEW e \in Events, Track(e)
  PROVE  PipelineData'
<1>. USE DEF PipelineData
<1>1. /\ queue \in Seq(Events) /\ accepted \in Seq(Events)
      /\ Len(queue) \in Nat /\ Len(accepted) \in Nat /\ QueueSize \in Nat
      /\ Len(queue) <= Len(accepted)
      /\ UNCHANGED <<server, flusher, drain, batch, stored, lost, abandoned>>
  BY PipelineAssumption, LenProperties DEF PipelineTypeOK, QueueIsNewest, Track
<1>2. CASE HasRoom /\ queue' = Append(queue, e) /\ accepted' = Append(accepted, e)
           /\ UNCHANGED <<dropCount, refused>>
  <2>1. /\ queue' \in Seq(Events) /\ Len(queue') = Len(queue) + 1
        /\ \A i \in 1 .. Len(queue) : queue'[i] = queue[i]
        /\ queue'[Len(queue) + 1] = e
    BY <1>1, <1>2, AppendProperties
  <2>2. /\ accepted' \in Seq(Events) /\ Len(accepted') = Len(accepted) + 1
        /\ \A i \in 1 .. Len(accepted) : accepted'[i] = accepted[i]
        /\ accepted'[Len(accepted) + 1] = e
    BY <1>1, <1>2, AppendProperties
  <2>3. PipelineTypeOK'
    BY <1>1, <1>2, <2>1, <2>2 DEF PipelineTypeOK, HasRoom
  <2>4. \A i \in 1 .. Len(accepted) : accepted[i] # e
    BY DEF Track, Elements
  <2>5. Distinct(accepted')
    BY <1>1, <2>2, <2>4 DEF QueueIsNewest, Distinct
  <2>6. Gone' = Gone /\ Gone \in Nat /\ Gone <= Len(accepted)
    BY <1>1, <2>1, <2>2 DEF Gone
  <2>7. QueueIsNewest'
    <3> SUFFICES ASSUME NEW i \in 1 .. Len(queue')
                 PROVE  queue'[i] = accepted'[Gone' + i]
      BY <1>1, <2>1, <2>2, <2>5 DEF QueueIsNewest
    <3>1. CASE i \in 1 .. Len(queue)
      <4>1. Gone + i \in 1 .. Len(accepted)
        BY <1>1, <3>1 DEF Gone
      <4>. QED
        BY <2>1, <2>2, <2>6, <3>1, <4>1 DEF QueueIsNewest
    <3>2. CASE i = Len(queue) + 1
      <4>1. Gone + i = Len(accepted) + 1
        BY <1>1, <3>2 DEF Gone
      <4>. QED
        BY <2>1, <2>2, <2>6, <3>2, <4>1
    <3>. QED
      BY <1>1, <2>1, <3>1, <3>2
  <2>8. TakenEvents' = TakenEvents
    <3>1. \A i \in 1 .. Gone : i \in 1 .. Len(accepted)
      BY <1>1, <2>6
    <3>2. \A i \in 1 .. Gone : accepted'[i] = accepted[i]
      BY <2>2, <3>1
    <3>. QED
      BY <2>6, <3>2 DEF TakenEvents
  <2>9. Places'
    BY <1>1, <2>8 DEF Places
  <2>10. Drops'
    BY <1>1, <1>2, <2>2 DEF Drops
  <2>. QED
    BY <2>3, <2>7, <2>9, <2>10
<1>3. CASE ~HasRoom /\ dropCount' = dropCount + 1 /\ refused' = refused \cup {e}
           /\ UNCHANGED <<queue, accepted>>
  <2>1. e \notin refused
    BY DEF Track
  <2>2. Drops'
    BY <1>1, <1>3, <2>1, FS_AddElement DEF Drops, HasRoom
  <2>3. PipelineTypeOK'
    BY <1>1, <1>3 DEF PipelineTypeOK
  <2>4. Gone' = Gone /\ TakenEvents' = TakenEvents
    BY <1>1, <1>3 DEF Gone, TakenEvents
  <2>5. QueueIsNewest' /\ Places'
    BY <1>1, <1>3, <2>4 DEF QueueIsNewest, Places
  <2>. QED
    BY <2>2, <2>3, <2>5
<1>. QED
  BY <1>2, <1>3 DEF Track

\* The batch that a task takes is the oldest part of the queue.
LEMMA BatchTaken ==
  ASSUME PipelineTypeOK, NEW t \in Tasks, TakeBatch(t)
  PROVE  \E n \in Nat :
           /\ n <= Len(queue) /\ n <= BatchSize
           /\ n = 0 <=> queue = <<>>
           /\ batch'[t] \in Seq(Events) /\ Len(batch'[t]) = n
           /\ \A i \in 1 .. n : batch'[t][i] = queue[i]
           /\ queue' \in Seq(Events) /\ Len(queue') = Len(queue) - n
           /\ \A i \in 1 .. Len(queue) - n : queue'[i] = queue[n + i]
<1>1. /\ queue \in Seq(Events) /\ Len(queue) \in Nat /\ BatchSize \in Nat \ {0}
      /\ \A i \in 1 .. Len(queue) : queue[i] \in Events
  BY PipelineAssumption, LenProperties, ElementOfSeq DEF PipelineTypeOK
<1>2. PICK n \in Nat : n = BatchLength /\ n <= Len(queue) /\ n <= BatchSize
  BY <1>1 DEF BatchLength
<1>3. n = 0 <=> queue = <<>>
  BY <1>1, <1>2, EmptySeq DEF BatchLength
<1>4. batch'[t] = SubSeq(queue, 1, n) /\ queue' = SubSeq(queue, n + 1, Len(queue))
  BY <1>2 DEF TakeBatch, PipelineTypeOK
<1>5. /\ SubSeq(queue, 1, n) \in Seq(Events)
      /\ Len(SubSeq(queue, 1, n)) = IF 1 <= n THEN n - 1 + 1 ELSE 0
      /\ \A i \in 1 .. n - 1 + 1 : SubSeq(queue, 1, n)[i] = queue[1 + i - 1]
  <2>1. \A i \in 1 .. n : queue[i] \in Events
    BY <1>1, <1>2
  <2>. QED
    BY <2>1, SubSeqProperties
<1>6. /\ SubSeq(queue, n + 1, Len(queue)) \in Seq(Events)
      /\ Len(SubSeq(queue, n + 1, Len(queue)))
           = IF n + 1 <= Len(queue) THEN Len(queue) - (n + 1) + 1 ELSE 0
      /\ \A i \in 1 .. Len(queue) - (n + 1) + 1 :
           SubSeq(queue, n + 1, Len(queue))[i] = queue[(n + 1) + i - 1]
  <2>1. \A i \in n + 1 .. Len(queue) : queue[i] \in Events
    BY <1>1, <1>2
  <2>. QED
    BY <1>1, <1>2, <2>1, SubSeqProperties
<1>7. /\ Len(batch'[t]) = n
      /\ \A i \in 1 .. n : batch'[t][i] = queue[i]
  BY <1>2, <1>4, <1>5
<1>8. /\ Len(queue') = Len(queue) - n
      /\ \A i \in 1 .. Len(queue) - n : queue'[i] = queue[n + i]
  <2>1. \A i \in 1 .. Len(queue) - n : i \in 1 .. Len(queue) - (n + 1) + 1 /\ (n + 1) + i - 1 = n + i
    BY <1>1, <1>2
  <2>2. (IF n + 1 <= Len(queue) THEN Len(queue) - (n + 1) + 1 ELSE 0) = Len(queue) - n
    BY <1>1, <1>2
  <2>. QED
    BY <1>4, <1>6, <2>1, <2>2
<1>. QED
  BY <1>2, <1>3, <1>4, <1>5, <1>6, <1>7, <1>8

LEMMA TakeData ==
  ASSUME PipelineData, NEW t \in Tasks, batch[t] = <<>>, TakeBatch(t),
         UNCHANGED <<dropCount, accepted, refused>>,
         server' \in ServerStates,
         flusher' \in {"none", "ready", "inserting", "sleeping", "over"},
         drain' \in {"taking", "inserting"}
  PROVE  /\ PipelineData' /\ UNCHANGED abandoned
         /\ \A u \in Tasks \ {t} : batch'[u] = batch[u]
         /\ batch'[t] = <<>> <=> queue = <<>>
<1>. USE DEF PipelineData
<1>1. PICK n \in Nat :
        /\ n <= Len(queue) /\ n <= BatchSize
        /\ n = 0 <=> queue = <<>>
        /\ batch'[t] \in Seq(Events) /\ Len(batch'[t]) = n
        /\ \A i \in 1 .. n : batch'[t][i] = queue[i]
        /\ queue' \in Seq(Events) /\ Len(queue') = Len(queue) - n
        /\ \A i \in 1 .. Len(queue) - n : queue'[i] = queue[n + i]
  BY BatchTaken
<1>2. /\ Len(queue) \in Nat /\ Len(accepted) \in Nat /\ Len(queue) <= Len(accepted)
      /\ QueueSize \in Nat /\ Len(queue) <= QueueSize
  BY PipelineAssumption, LenProperties DEF PipelineTypeOK, QueueIsNewest
<1>3. /\ batch' = [batch EXCEPT ![t] = batch'[t]]
      /\ \A u \in Tasks \ {t} : batch'[u] = batch[u]
      /\ UNCHANGED <<stored, lost, abandoned>>
  BY DEF TakeBatch, PipelineTypeOK
<1>4. PipelineTypeOK'
  <2>1. batch' \in [Tasks -> Seq(Events)] /\ \A u \in Tasks : Len(batch'[u]) <= BatchSize
    BY <1>1, <1>3 DEF PipelineTypeOK
  <2>2. queue' \in Seq(Events) /\ Len(queue') <= QueueSize
    BY <1>1, <1>2
  <2>. QED
    BY <1>3, <2>1, <2>2 DEF PipelineTypeOK
<1>5. /\ Gone \in Nat /\ Gone' = Gone + n /\ Gone + n <= Len(accepted)
      /\ \A i \in 1 .. n : batch'[t][i] = accepted[Gone + i]
      /\ \A i \in 1 .. n : Gone + i \in 1 .. Len(accepted)
  <2>1. Gone \in Nat /\ Gone' = Gone + n /\ Gone + n <= Len(accepted)
    BY <1>1, <1>2 DEF Gone
  <2>2. ASSUME NEW i \in 1 .. n
        PROVE  batch'[t][i] = accepted[Gone + i] /\ Gone + i \in 1 .. Len(accepted)
    <3>1. i \in 1 .. Len(queue) /\ Gone + i \in 1 .. Len(accepted)
      BY <1>1, <1>2, <2>1
    <3>. QED
      BY <1>1, <3>1 DEF QueueIsNewest
  <2>. QED
    BY <2>1, <2>2
<1>6. QueueIsNewest'
  <2>1. ASSUME NEW i \in 1 .. Len(queue) - n PROVE queue'[i] = accepted[Gone' + i]
    <3>1. n + i \in 1 .. Len(queue) /\ Gone + (n + i) = Gone' + i
      BY <1>1, <1>2, <1>5
    <3>. QED
      BY <1>1, <3>1 DEF QueueIsNewest
  <2>. QED
    BY <1>1, <1>2, <2>1 DEF QueueIsNewest
<1>7. TakenEvents' = TakenEvents \cup Elements(batch'[t])
  <2>1. \A x \in TakenEvents' : x \in TakenEvents \cup Elements(batch'[t])
    <3> SUFFICES ASSUME NEW i \in 1 .. Gone + n
                 PROVE  accepted[i] \in TakenEvents \cup Elements(batch'[t])
      BY <1>5 DEF TakenEvents
    <3>1. CASE i <= Gone
      BY <1>5, <3>1 DEF TakenEvents
    <3>2. CASE i > Gone
      <4>1. i - Gone \in 1 .. n /\ Gone + (i - Gone) = i
        BY <1>5, <3>2
      <4>2. accepted[i] = batch'[t][i - Gone]
        BY <1>5, <4>1
      <4>. QED
        BY <1>1, <4>1, <4>2 DEF Elements
    <3>. QED
      BY <1>5, <3>1, <3>2
  <2>2. TakenEvents \subseteq TakenEvents'
    BY <1>5 DEF TakenEvents
  <2>3. ASSUME NEW i \in 1 .. n PROVE batch'[t][i] \in TakenEvents'
    <3>1. Gone + i \in 1 .. Gone + n
      BY <1>5
    <3>. QED
      BY <1>5, <3>1 DEF TakenEvents
  <2>4. Elements(batch'[t]) \subseteq TakenEvents'
    BY <1>1, <2>3 DEF Elements
  <2>. QED
    BY <2>1, <2>2, <2>4
<1>8. Elements(batch'[t]) \cap TakenEvents = {}
  <2> SUFFICES ASSUME NEW i \in 1 .. n, NEW j \in 1 .. Gone, batch'[t][i] = accepted[j]
               PROVE  FALSE
    BY <1>1 DEF Elements, TakenEvents
  <2>1. j \in 1 .. Len(accepted) /\ j # Gone + i
    BY <1>5
  <2>. QED
    BY <1>5, <2>1 DEF QueueIsNewest, Distinct
<1>9. Distinct(batch'[t])
  <2> SUFFICES ASSUME NEW i \in 1 .. n, NEW j \in 1 .. n, batch'[t][i] = batch'[t][j]
               PROVE  i = j
    BY <1>1 DEF Distinct
  <2>1. accepted[Gone + i] = accepted[Gone + j]
    BY <1>5
  <2>2. Gone + i \in 1 .. Len(accepted) /\ Gone + j \in 1 .. Len(accepted)
    BY <1>5
  <2>3. Gone + i = Gone + j
    BY <2>1, <2>2 DEF QueueIsNewest, Distinct
  <2>. QED
    BY <1>5, <2>3
<1>10. Places'
  <2>1. Elements(batch[t]) = {}
    BY EmptyElements
  <2>2. CASE t = "flusher"
    BY <1>3, <1>7, <1>8, <1>9, <2>1, <2>2 DEF Places, Tasks
  <2>3. CASE t = "shutdown"
    BY <1>3, <1>7, <1>8, <1>9, <2>1, <2>3 DEF Places, Tasks
  <2>. QED
    BY <2>2, <2>3 DEF Tasks
<1>11. Drops'
  BY DEF Drops
<1>12. batch'[t] = <<>> <=> queue = <<>>
  BY <1>1, EmptySeq
<1>. QED
  BY <1>3, <1>4, <1>6, <1>10, <1>11, <1>12

\* An insert that ended, or was cancelled, moves what was in the batch to the
\* collection or among the events left out.
LEMMA InsertData ==
  ASSUME PipelineData, NEW t \in Tasks,
         NEW in \in SUBSET Elements(batch[t]), stored' = stored \cup in,
         \/ lost' = lost \cup (Elements(batch[t]) \ in) /\ UNCHANGED abandoned
         \/ abandoned = {} /\ abandoned' = Elements(batch[t]) \ in /\ UNCHANGED lost,
         batch' = [batch EXCEPT ![t] = <<>>],
         UNCHANGED <<queue, dropCount, accepted, refused>>,
         server' \in ServerStates,
         flusher' \in {"none", "ready", "inserting", "sleeping", "over"},
         drain' \in {"taking", "inserting"}
  PROVE  PipelineData' /\ batch'[t] = <<>> /\ \A u \in Tasks \ {t} : batch'[u] = batch[u]
<1>. USE DEF PipelineData
<1>1. batch'[t] = <<>> /\ \A u \in Tasks \ {t} : batch'[u] = batch[u]
  BY DEF PipelineTypeOK
<1>2. Elements(batch[t]) \subseteq Events
  BY CountElements DEF PipelineTypeOK
<1>3. <<>> \in Seq(Events) /\ Len(<<>>) = 0 /\ BatchSize \in Nat
  BY EmptySeq, PipelineAssumption
<1>4. PipelineTypeOK'
  BY <1>2, <1>3 DEF PipelineTypeOK
<1>5. Gone' = Gone /\ TakenEvents' = TakenEvents
  BY DEF Gone, TakenEvents
<1>6. QueueIsNewest' /\ Drops'
  BY <1>5 DEF QueueIsNewest, Drops
<1>7. Elements(batch'[t]) = {} /\ Distinct(batch'[t])
  BY <1>1, <1>3, EmptyElements DEF Distinct
<1>8. CASE t = "flusher"
  BY <1>1, <1>4, <1>5, <1>6, <1>7, <1>8 DEF Places, Tasks
<1>9. CASE t = "shutdown"
  BY <1>1, <1>4, <1>5, <1>6, <1>7, <1>9 DEF Places, Tasks
<1>. QED
  BY <1>8, <1>9 DEF Tasks

LEMMA MoveData ==
  ASSUME PipelineData,
         UNCHANGED <<queue, batch, stored, dropCount, accepted, refused, lost, abandoned>>,
         server' \in ServerStates,
         flusher' \in {"none", "ready", "inserting", "sleeping", "over"},
         drain' \in {"taking", "inserting"}
  PROVE  PipelineData'
<1>1. Gone' = Gone /\ TakenEvents' = TakenEvents
  BY DEF Gone, TakenEvents
<1>. QED
  BY <1>1 DEF PipelineData, PipelineTypeOK, QueueIsNewest, Places, Drops

-----------------------------------------------------------------------------
(* Every step keeps the invariant *)

Inv == PipelineInv /\ TrackerInv /\ open \subseteq Connections

\* The steps of the health tracker touch nothing of the pipeline.
LEMMA TrackerSteps ==
  ASSUME PipelineInv, UNCHANGED <<pipelineVars, open>>,
         \/ server = "up" /\ Monitor
         \/ server = "stopping" /\ TrackerCancelled
         \/ UNCHANGED trackerVars
  PROVE  PipelineInv'
<1>1. PipelineData'
  BY MoveData DEF PipelineInv, PipelineData, PipelineTypeOK, pipelineVars
<1>2. Phases'
  BY DEF PipelineInv, PipelineTypeOK, Phases, pipelineVars, trackerVars, Monitor, BeginRound,
         PublishEnds, Sample, TrackerCancelled
<1>3. Batches'
  BY DEF PipelineInv, Batches, pipelineVars
<1>. QED
  BY <1>1, <1>2, <1>3 DEF PipelineInv, PipelineData

\* The steps of the lifespan from one state to the next move no event.
LEMMA LifespanSteps ==
  ASSUME PipelineInv, open \subseteq Connections,
         monitor \in {"none", "ready", "publishing", "sleeping", "over"},
         \/ Connect \/ StartupFails \/ Ready \/ BeginShutdown \/ TrackerStopped
         \/ CloseRedis \/ CloseMongo
         \/ (FlusherJoined \/ DrainEnds) /\ UNCHANGED <<trackerVars, open>>
  PROVE  PipelineInv'
<1>. USE DEF Connect, StartupFails, Ready, BeginShutdown, TrackerStopped, CloseRedis,
             CloseMongo, FlusherJoined, DrainEnds, StopPipeline, StartPipeline, StartTracker,
             Goto, pipelineVars, trackerVars, PipelineInv
<1>1. /\ server' \in ServerStates
      /\ flusher' \in {"none", "ready", "inserting", "sleeping", "over"}
      /\ drain' \in {"taking", "inserting"}
  BY DEF PipelineTypeOK, ServerStates
<1>2. PipelineData'
  BY <1>1, MoveData DEF PipelineData
<1>3. Phases'
  <2>1. CASE Connect \/ StartupFails \/ Ready \/ BeginShutdown
    BY <2>1 DEF Phases, PipelineTypeOK, ServerStates, Connections
  <2>2. CASE TrackerStopped \/ CloseRedis \/ CloseMongo
    BY <2>2 DEF Phases, PipelineTypeOK, ServerStates, Connections
  <2>3. CASE (FlusherJoined \/ DrainEnds) /\ UNCHANGED <<trackerVars, open>>
    BY <2>3 DEF Phases, PipelineTypeOK, ServerStates, Connections
  <2>. QED
    BY <2>1, <2>2, <2>3
<1>4. Batches'
  BY DEF Phases, Batches
<1>. QED
  BY <1>2, <1>3, <1>4 DEF PipelineData

LEMMA ServeSteps ==
  ASSUME PipelineInv, NEW e \in Events, Track(e), UNCHANGED <<trackerVars, open>>
  PROVE  PipelineInv'
<1>1. PipelineData'
  BY TrackData DEF PipelineInv, PipelineData
<1>2. Phases'
  BY DEF PipelineInv, Phases, Track, trackerVars
<1>3. Batches'
  BY DEF PipelineInv, Batches, Track
<1>. QED
  BY <1>1, <1>2, <1>3 DEF PipelineInv, PipelineData

LEMMA FlusherSteps ==
  ASSUME PipelineInv, Flusher, UNCHANGED <<trackerVars, open>>
  PROVE  PipelineInv'
<1>. USE DEF PipelineInv
<1>1. "flusher" \in Tasks /\ "shutdown" \in Tasks /\ "shutdown" # "flusher"
      /\ server \in ServerStates /\ drain \in {"taking", "inserting"}
  BY DEF Tasks, PipelineTypeOK
<1>2. CASE FlusherTakes
  <2>1. /\ TakeBatch("flusher") /\ batch["flusher"] = <<>>
        /\ flusher' \in {"inserting", "sleeping"} /\ (flusher' = "inserting" <=> queue # <<>>)
        /\ UNCHANGED <<server, drain, dropCount, accepted, refused>>
    BY <1>2 DEF FlusherTakes, AfterTaking, Batches
  <2>2. /\ PipelineData' /\ UNCHANGED abandoned
        /\ batch'["shutdown"] = batch["shutdown"]
        /\ batch'["flusher"] = <<>> <=> queue = <<>>
    BY <1>1, <2>1, TakeData DEF PipelineData
  <2>3. Phases'
    BY <1>2, <2>1 DEF FlusherTakes, Phases, trackerVars
  <2>4. Batches'
    BY <1>2, <2>1, <2>2 DEF FlusherTakes, Batches
  <2>. QED
    BY <2>2, <2>3, <2>4 DEF PipelineData
<1>3. CASE FlusherInserts
  <2>1. PICK in \in SUBSET Elements(batch["flusher"]) :
          /\ stored' = stored \cup in
          /\ lost' = lost \cup (Elements(batch["flusher"]) \ in)
    BY <1>3 DEF FlusherInserts, FinishInsert
  <2>2. /\ batch' = [batch EXCEPT !["flusher"] = <<>>] /\ flusher' = "sleeping"
        /\ UNCHANGED <<queue, abandoned, server, drain, dropCount, accepted, refused>>
    BY <1>3 DEF FlusherInserts, FinishInsert
  <2>3. /\ PipelineData' /\ batch'["flusher"] = <<>>
        /\ batch'["shutdown"] = batch["shutdown"]
    BY <1>1, <2>1, <2>2, InsertData DEF PipelineData
  <2>4. Phases'
    BY <1>3, <2>2 DEF FlusherInserts, Phases, trackerVars
  <2>5. Batches'
    BY <1>3, <2>2, <2>3 DEF FlusherInserts, Batches
  <2>. QED
    BY <2>3, <2>4, <2>5 DEF PipelineData
<1>4. CASE FlusherCancelled
  <2>1. PICK in \in SUBSET Elements(batch["flusher"]) :
          /\ stored' = stored \cup in
          /\ abandoned' = Elements(batch["flusher"]) \ in
    BY <1>4 DEF FlusherCancelled
  <2>2. /\ batch' = [batch EXCEPT !["flusher"] = <<>>] /\ flusher' = "over"
        /\ server = "cancelling" /\ flusher # "over"
        /\ UNCHANGED <<queue, lost, server, drain, dropCount, accepted, refused>>
    BY <1>4 DEF FlusherCancelled
  <2>3. abandoned = {}
    BY <2>2 DEF Batches
  <2>4. /\ PipelineData' /\ batch'["flusher"] = <<>>
        /\ batch'["shutdown"] = batch["shutdown"]
    BY <1>1, <2>1, <2>2, <2>3, InsertData DEF PipelineData
  <2>5. Phases'
    BY <2>2 DEF Phases, trackerVars
  <2>6. IsFiniteSet(abandoned') /\ Cardinality(abandoned') <= BatchSize
    <3>1. /\ batch["flusher"] \in Seq(Events) /\ Len(batch["flusher"]) <= BatchSize
          /\ Len(batch["flusher"]) \in Nat /\ BatchSize \in Nat
      BY <1>1, LenProperties, PipelineAssumption DEF PipelineTypeOK
    <3>2. /\ IsFiniteSet(Elements(batch["flusher"]))
          /\ Cardinality(Elements(batch["flusher"])) \in Nat
          /\ Cardinality(Elements(batch["flusher"])) <= Len(batch["flusher"])
      BY <3>1, CountElements
    <3>3. /\ IsFiniteSet(abandoned') /\ Cardinality(abandoned') \in Nat
          /\ Cardinality(abandoned') <= Cardinality(Elements(batch["flusher"]))
      <4>1. abandoned' \in SUBSET Elements(batch["flusher"])
        BY <2>1
      <4>. QED
        BY <3>2, <4>1, FS_Subset, FS_CardinalityType
    <3>. QED
      BY <3>1, <3>2, <3>3
  <2>7. Batches'
    BY <2>2, <2>4, <2>6 DEF Batches
  <2>. QED
    BY <2>4, <2>5, <2>7 DEF PipelineData
<1>. QED
  BY <1>2, <1>3, <1>4 DEF Flusher

LEMMA DrainSteps ==
  ASSUME PipelineInv, DrainTakes \/ DrainInserts, UNCHANGED <<trackerVars, open>>
  PROVE  PipelineInv'
<1>. USE DEF PipelineInv
<1>1. "flusher" \in Tasks /\ "shutdown" \in Tasks /\ "shutdown" # "flusher"
      /\ server \in ServerStates
      /\ flusher \in {"none", "ready", "inserting", "sleeping", "over"}
  BY DEF Tasks, PipelineTypeOK
<1>2. CASE DrainTakes
  <2>1. /\ TakeBatch("shutdown") /\ batch["shutdown"] = <<>> /\ drain' = "inserting"
        /\ server = "draining" /\ queue # <<>>
        /\ UNCHANGED <<server, flusher, dropCount, accepted, refused>>
    BY <1>2 DEF DrainTakes, Batches
  <2>2. /\ PipelineData' /\ UNCHANGED abandoned
        /\ batch'["flusher"] = batch["flusher"]
    BY <1>1, <2>1, TakeData DEF PipelineData
  <2>3. Phases'
    BY <2>1 DEF Phases, trackerVars
  <2>4. Batches'
    BY <2>1, <2>2 DEF Batches
  <2>. QED
    BY <2>2, <2>3, <2>4 DEF PipelineData
<1>3. CASE DrainInserts
  <2>1. PICK in \in SUBSET Elements(batch["shutdown"]) :
          /\ stored' = stored \cup in
          /\ lost' = lost \cup (Elements(batch["shutdown"]) \ in)
    BY <1>3 DEF DrainInserts, FinishInsert
  <2>2. /\ batch' = [batch EXCEPT !["shutdown"] = <<>>] /\ drain' = "taking"
        /\ UNCHANGED <<queue, abandoned, server, flusher, dropCount, accepted, refused>>
    BY <1>3 DEF DrainInserts, FinishInsert
  <2>3. /\ PipelineData' /\ batch'["shutdown"] = <<>>
        /\ batch'["flusher"] = batch["flusher"]
    BY <1>1, <2>1, <2>2, InsertData DEF PipelineData
  <2>4. Phases'
    BY <1>3, <2>2 DEF DrainInserts, Phases, trackerVars
  <2>5. Batches'
    BY <1>3, <2>2, <2>3 DEF DrainInserts, Batches
  <2>. QED
    BY <2>3, <2>4, <2>5 DEF PipelineData
<1>. QED
  BY <1>2, <1>3

-----------------------------------------------------------------------------
(* The samples of the pools *)

LEMMA BoundedSequences ==
  ASSUME NEW S, NEW n \in Nat, NEW s
  PROVE  s \in BoundedSeq(S, n) <=> s \in Seq(S) /\ Len(s) <= n
<1>1. ASSUME s \in BoundedSeq(S, n) PROVE s \in Seq(S) /\ Len(s) <= n
  <2>1. PICK m \in 0 .. n : s \in [1 .. m -> S]
    BY <1>1 DEF BoundedSeq, SeqOf
  <2>. QED
    BY <2>1
<1>2. ASSUME s \in Seq(S), Len(s) <= n PROVE s \in BoundedSeq(S, n)
  <2>1. Len(s) \in 0 .. n /\ s \in [1 .. Len(s) -> S]
    BY <1>2, LenProperties
  <2>. QED
    BY <2>1 DEF BoundedSeq, SeqOf
<1>. QED
  BY <1>1, <1>2

\* How many samples the window of the i-th pool holds.
Samples(i) == Len(history[PoolOrder[i]])

LEMMA OrderType ==
  /\ Len(PoolOrder) \in Nat \ {0} /\ Window \in Nat \ {0}
  /\ \A i \in 1 .. Len(PoolOrder) : PoolOrder[i] \in Tracked
  /\ \A i, j \in 1 .. Len(PoolOrder) : PoolOrder[i] = PoolOrder[j] => i = j
BY TrackerAssumption, LenProperties, EmptySeq DEF Tracked, Range, IsInjective

LEMMA SamplesType ==
  ASSUME TrackerTypeOK, NEW i \in 1 .. Len(PoolOrder)
  PROVE  Samples(i) \in Nat /\ Samples(i) <= Window
BY OrderType, BoundedSequences, LenProperties DEF TrackerTypeOK, Samples

\* A turn of the loop adds a sample to the window of one pool, unless it is
\* full.
LEMMA SampleCounts ==
  ASSUME TrackerTypeOK, NEW i \in 1 .. Len(PoolOrder), Sample(i)
  PROVE  /\ TrackerTypeOK'
         /\ \A k \in 1 .. Len(PoolOrder) \ {i} : Samples(k)' = Samples(k)
         /\ Samples(i)' = IF Samples(i) = Window THEN Window ELSE Samples(i) + 1
<1>. DEFINE p == PoolOrder[i]
<1>1. p \in Tracked /\ history[p] \in Seq(Scores) /\ Len(history[p]) \in Nat
      /\ Len(history[p]) <= Window
  BY OrderType, BoundedSequences, LenProperties DEF TrackerTypeOK
<1>2. PICK score \in Scores :
        history' = [history EXCEPT ![p] =
                      IF Len(Append(history[p], score)) > Window
                      THEN Tail(Append(history[p], score)) ELSE Append(history[p], score)]
  BY DEF Sample
<1>. DEFINE longer == Append(history[p], score)
<1>3. /\ longer \in Seq(Scores) /\ longer # <<>> /\ Len(longer) = Len(history[p]) + 1
  BY <1>1, AppendProperties
<1>4. Tail(longer) \in Seq(Scores) /\ Len(Tail(longer)) = Len(history[p])
  BY <1>1, <1>3, HeadTailProperties
<1>5. history'[p] = IF Len(longer) > Window THEN Tail(longer) ELSE longer
  BY <1>1, <1>2 DEF TrackerTypeOK
<1>. HIDE DEF longer
<1>6. /\ history'[p] \in Seq(Scores)
      /\ Len(history'[p]) = IF Len(history[p]) = Window THEN Window ELSE Len(history[p]) + 1
      /\ Len(history'[p]) <= Window
  BY <1>1, <1>3, <1>4, <1>5, OrderType
<1>7. history'[p] \in BoundedSeq(Scores, Window)
  BY <1>6, BoundedSequences, OrderType
<1>8. /\ history' = [history EXCEPT ![p] = history'[p]]
      /\ \A q \in Tracked \ {p} : history'[q] = history[q]
  BY <1>1, <1>2 DEF TrackerTypeOK
<1>9. TrackerTypeOK'
  BY <1>7, <1>8, OrderType DEF TrackerTypeOK, Sample
<1>10. ASSUME NEW k \in 1 .. Len(PoolOrder) \ {i} PROVE Samples(k)' = Samples(k)
  <2>1. PoolOrder[k] \in Tracked \ {p}
    BY OrderType
  <2>. QED
    BY <1>8, <2>1 DEF Samples
<1>. QED
  BY <1>6, <1>9, <1>10 DEF Samples

LEMMA SampleRounds ==
  ASSUME TrackerInv, NEW i \in 1 .. Len(PoolOrder), Sample(i),
         \/ i = 1 /\ turn \in {0, Len(PoolOrder)}
         \/ i = turn + 1
  PROVE  TrackerInv'
<1>. USE DEF TrackerInv
<1>1. /\ TrackerTypeOK'
      /\ \A k \in 1 .. Len(PoolOrder) \ {i} : Samples(k)' = Samples(k)
      /\ Samples(i)' = IF Samples(i) = Window THEN Window ELSE Samples(i) + 1
  BY SampleCounts
<1>2. turn' = i /\ monitor' = "publishing" /\ turn \in Nat /\ turn <= Len(PoolOrder)
  BY OrderType DEF Sample, TrackerTypeOK
<1>3. \A k \in 1 .. Len(PoolOrder) : Samples(k) \in Nat /\ Samples(k) <= Window
  BY SamplesType
<1>4. \A k, l \in 1 .. Len(PoolOrder) :
        /\ k <= turn /\ l <= turn => Samples(k) = Samples(l)
        /\ k > turn /\ l > turn => Samples(k) = Samples(l)
        /\ k <= turn /\ l > turn =>
             Samples(k) = Samples(l) + 1 \/ (Samples(k) = Window /\ Samples(l) = Window)
  BY DEF Rounds, Samples
<1>5. \A k, l \in 1 .. Len(PoolOrder) :
        /\ k <= i /\ l <= i => Samples(k)' = Samples(l)'
        /\ k > i /\ l > i => Samples(k)' = Samples(l)'
        /\ k <= i /\ l > i =>
             Samples(k)' = Samples(l)' + 1 \/ (Samples(k)' = Window /\ Samples(l)' = Window)
  <2>1. CASE i = 1 /\ turn \in {0, Len(PoolOrder)}
    <3>1. \A k, l \in 1 .. Len(PoolOrder) : Samples(k) = Samples(l)
      BY <1>2, <1>4, <2>1
    <3>. QED
      BY <1>1, <1>3, <2>1, <3>1
  <2>2. CASE i = turn + 1
    BY <1>1, <1>2, <1>3, <1>4, <2>2, OrderType
  <2>. QED
    BY <2>1, <2>2
<1>. QED
  BY <1>1, <1>2, <1>5 DEF Rounds, Samples

LEMMA TrackerNext ==
  ASSUME TrackerInv,
         \/ server = "starting" /\ monitor = "none" /\ StartTracker
         \/ Monitor \/ TrackerCancelled \/ UNCHANGED trackerVars
  PROVE  TrackerInv'
<1>. USE DEF TrackerInv
<1>1. CASE BeginRound
  <2>1. turn \in {0, Len(PoolOrder)} /\ 1 \in 1 .. Len(PoolOrder)
    BY <1>1, OrderType DEF BeginRound, Rounds
  <2>. QED
    BY <1>1, <2>1, SampleRounds DEF BeginRound
<1>2. CASE PublishEnds
  <2>1. CASE turn < Len(PoolOrder) /\ Sample(turn + 1)
    <3>1. turn + 1 \in 1 .. Len(PoolOrder)
      BY <2>1, OrderType DEF TrackerTypeOK
    <3>. QED
      BY <2>1, <3>1, SampleRounds
  <2>2. CASE turn = Len(PoolOrder) /\ monitor' = "sleeping" /\ UNCHANGED <<turn, history>>
    BY <2>2 DEF TrackerTypeOK, Rounds
  <2>. QED
    BY <1>2, <2>1, <2>2 DEF PublishEnds
<1>3. CASE \/ server = "starting" /\ monitor = "none" /\ StartTracker
           \/ TrackerCancelled \/ UNCHANGED trackerVars
  BY <1>3 DEF StartTracker, TrackerCancelled, trackerVars, TrackerTypeOK, Rounds
<1>. QED
  BY <1>1, <1>2, <1>3 DEF Monitor

-----------------------------------------------------------------------------

LEMMA InitInv == Init => Inv
<1> SUFFICES ASSUME Init PROVE Inv
  OBVIOUS
<1>. USE DEF Init, PipelineInit
<1>1. /\ <<>> \in Seq(Events) /\ Len(<<>>) = 0
      /\ QueueSize \in Nat \ {0} /\ BatchSize \in Nat \ {0}
      /\ IsFiniteSet({}) /\ Cardinality({}) = 0
  BY EmptySeq, PipelineAssumption, FS_EmptySet
<1>2. PipelineTypeOK
  BY <1>1 DEF PipelineTypeOK, ServerStates
<1>3. Phases
  BY DEF Phases, TrackerInit
<1>4. Batches
  BY <1>1 DEF Batches, Tasks
<1>5. QueueIsNewest
  BY <1>1 DEF QueueIsNewest, Distinct, Gone
<1>6. Places
  <2>1. /\ batch["flusher"] = <<>> /\ batch["shutdown"] = <<>>
        /\ \A t \in Tasks : batch[t] = <<>>
    BY DEF Tasks
  <2>2. TakenEvents = {}
    BY <1>1 DEF TakenEvents, Gone
  <2>3. Distinct(<<>>)
    BY <1>1 DEF Distinct
  <2>. QED
    BY <2>1, <2>2, <2>3, EmptyElements DEF Places
<1>7. Drops
  BY <1>1 DEF Drops
<1>8. TrackerTypeOK
  <2>1. <<>> \in Seq(Scores) /\ Len(<<>>) <= Window /\ Window \in Nat
    BY <1>1, EmptySeq, OrderType
  <2>2. <<>> \in BoundedSeq(Scores, Window)
    BY <2>1, BoundedSequences
  <2>. QED
    BY <2>2, OrderType DEF TrackerInit, TrackerTypeOK
<1>9. Rounds
  <2>1. \A i \in 1 .. Len(PoolOrder) : history[PoolOrder[i]] = <<>>
    BY OrderType DEF TrackerInit
  <2>. QED
    BY <2>1 DEF Rounds, TrackerInit
<1>. QED
  BY <1>2, <1>3, <1>4, <1>5, <1>6, <1>7, <1>8, <1>9 DEF Inv, PipelineInv, TrackerInv

LEMMA NextInv == Inv /\ [Next]_vars => Inv'
<1> SUFFICES ASSUME Inv, [Next]_vars PROVE Inv'
  OBVIOUS
<1>. USE DEF Inv
<1>1. open' \subseteq Connections
  BY DEF Next, Startup, Serve, RunTasks, BeginShutdown, Shutdown, Down, Connect, StartupFails,
         Ready, StopTracker, TrackerStopped, DrainQueue, CloseRedis, CloseMongo, vars
<1>2. monitor \in {"none", "ready", "publishing", "sleeping", "over"}
  BY DEF TrackerInv, TrackerTypeOK
<1>3. CASE Startup
  <2>1. PipelineInv'
    BY <1>2, <1>3, LifespanSteps DEF Startup
  <2>2. \/ server = "starting" /\ monitor = "none" /\ StartTracker
        \/ UNCHANGED trackerVars
    BY <1>3 DEF Startup, Connect, StartupFails, Ready, StartPipeline, PipelineInv, Phases,
                trackerVars
  <2>. QED
    BY <1>1, <2>1, <2>2, TrackerNext
<1>4. CASE Serve
  BY <1>1, <1>4, ServeSteps, TrackerNext DEF Serve
<1>5. CASE RunTasks
  <2>1. CASE Flusher /\ UNCHANGED <<trackerVars, open>>
    BY <1>1, <2>1, FlusherSteps, TrackerNext
  <2>2. CASE server = "up" /\ Monitor /\ UNCHANGED <<pipelineVars, open>>
    BY <1>1, <2>2, TrackerSteps, TrackerNext
  <2>. QED
    BY <1>5, <2>1, <2>2 DEF RunTasks
<1>6. CASE BeginShutdown \/ TrackerStopped \/ CloseRedis \/ CloseMongo
  <2>1. UNCHANGED trackerVars
    BY <1>6 DEF BeginShutdown, TrackerStopped, CloseRedis, CloseMongo, trackerVars
  <2>. QED
    BY <1>1, <1>2, <1>6, <2>1, LifespanSteps, TrackerNext
<1>7. CASE StopTracker
  BY <1>1, <1>7, TrackerSteps, TrackerNext DEF StopTracker
<1>8. CASE DrainQueue
  BY <1>1, <1>2, <1>8, LifespanSteps, DrainSteps, TrackerNext DEF DrainQueue, Drain
<1>9. CASE UNCHANGED vars
  BY <1>1, <1>9, TrackerSteps, TrackerNext DEF vars
<1>. QED
  BY <1>3, <1>4, <1>5, <1>6, <1>7, <1>8, <1>9 DEF Next, Shutdown, Down

LEMMA InvHolds == Spec => []Inv
BY InitInv, NextInv, PTL DEF Spec

-----------------------------------------------------------------------------
(* What the invariant says *)

\* Every reachable state is well typed: the queue and the batches keep within
\* their sizes, and no pool's window ever holds more samples than it should.
THEOREM TypeOKHolds == Spec => []TypeOK
<1>1. Inv => TypeOK
  BY DEF Inv, PipelineInv, TrackerInv, TypeOK
<1>. QED
  BY <1>1, InvHolds, PTL

\* No task is in a call to a server whose connection the shutdown has closed.
THEOREM UsesOpenConnectionsHolds == Spec => []UsesOpenConnections
<1>1. Inv => UsesOpenConnections
  BY DEF Inv, PipelineInv, PipelineTypeOK, Phases, UsesOpenConnections, Connections
<1>. QED
  BY <1>1, InvHolds, PTL

\* The flush task and the shutdown never insert at the same time.
THEOREM OneInserterHolds == Spec => []OneInserter
<1>1. Inv => OneInserter
  BY DEF Inv, PipelineInv, Phases, Batches, OneInserter
<1>. QED
  BY <1>1, InvHolds, PTL

\* The shutdown leaves nothing in the queue or in a batch, and what it lost
\* itself is part of one batch.
THEOREM StopDrainsHolds == Spec => []StopDrains
<1>1. Inv => StopDrains
  BY DEF Inv, PipelineInv, Phases, Batches, StopDrains, Tasks
<1>. QED
  BY <1>1, InvHolds, PTL

\* The pools are sampled in rounds, whichever calls to Redis fail and whenever
\* the tracker is stopped.
THEOREM RoundsAlignedHolds == Spec => []RoundsAligned
<1>1. Inv => RoundsAligned
  <2> SUFFICES ASSUME Inv, NEW i \in DOMAIN PoolOrder, NEW j \in DOMAIN PoolOrder,
                      Samples(i) # Samples(j)
               PROVE  /\ monitor \in {"publishing", "over"}
                      /\ i < j => i <= turn /\ turn < j /\ Samples(i) = Samples(j) + 1
    BY DEF RoundsAligned, Samples
  <2>1. DOMAIN PoolOrder = 1 .. Len(PoolOrder)
    BY TrackerAssumption, LenProperties
  <2>2. \A k, l \in 1 .. Len(PoolOrder) :
          /\ k <= turn /\ l <= turn => Samples(k) = Samples(l)
          /\ k > turn /\ l > turn => Samples(k) = Samples(l)
          /\ k <= turn /\ l > turn =>
               Samples(k) = Samples(l) + 1 \/ (Samples(k) = Window /\ Samples(l) = Window)
    BY DEF Inv, TrackerInv, Rounds, Samples
  <2>3. /\ turn \in Nat /\ turn <= Len(PoolOrder)
        /\ monitor \in {"none", "ready"} => turn = 0
        /\ monitor = "sleeping" => turn = Len(PoolOrder)
        /\ monitor \in {"none", "ready", "publishing", "sleeping", "over"}
    BY OrderType DEF Inv, TrackerInv, TrackerTypeOK, Rounds
  <2>4. i \in 1 .. Len(PoolOrder) /\ j \in 1 .. Len(PoolOrder) /\ Len(PoolOrder) \in Nat
    BY <2>1, OrderType
  <2>5. ~(i <= turn /\ j <= turn) /\ ~(i > turn /\ j > turn)
    BY <2>1, <2>2
  <2>6. monitor \in {"publishing", "over"}
    BY <2>3, <2>4, <2>5
  <2>7. i <= turn /\ j > turn => Samples(i) = Samples(j) + 1
    BY <2>1, <2>2
  <2>. QED
    BY <2>3, <2>4, <2>5, <2>6, <2>7
<1>. QED
  BY <1>1, InvHolds, PTL

LEMMA DisjointUnion ==
  ASSUME NEW S, IsFiniteSet(S), NEW T, IsFiniteSet(T), S \cap T = {}
  PROVE  /\ IsFiniteSet(S \cup T)
         /\ Cardinality(S \cup T) = Cardinality(S) + Cardinality(T)
         /\ Cardinality(S) \in Nat /\ Cardinality(T) \in Nat
<1>1. IsFiniteSet({}) /\ Cardinality({}) = 0
  BY FS_EmptySet
<1>2. Cardinality(S) \in Nat /\ Cardinality(T) \in Nat
  BY FS_CardinalityType
<1>3. /\ IsFiniteSet(S \cup T)
      /\ Cardinality(S \cup T) = Cardinality(S) + Cardinality(T) - Cardinality(S \cap T)
  BY FS_Union
<1>4. Cardinality(S \cap T) = 0
  BY <1>1
<1>. QED
  BY <1>2, <1>3, <1>4

\* The part of the accepted events that left the queue, as a sequence.
LEMMA TakenIsPrefix ==
  ASSUME PipelineInv
  PROVE  /\ Taken \in Seq(Events) /\ Len(Taken) = Gone /\ Distinct(Taken)
         /\ Elements(Taken) = TakenEvents
         /\ queue = SubSeq(accepted, Len(accepted) - Len(queue) + 1, Len(accepted))
<1>. USE DEF PipelineInv
<1>1. /\ queue \in Seq(Events) /\ accepted \in Seq(Events)
      /\ Len(queue) \in Nat /\ Len(accepted) \in Nat /\ Len(queue) <= Len(accepted)
      /\ Gone \in Nat /\ Gone <= Len(accepted)
      /\ \A i \in 1 .. Len(accepted) : accepted[i] \in Events
  BY LenProperties, ElementOfSeq DEF PipelineTypeOK, QueueIsNewest, Gone
<1>2. /\ Taken = SubSeq(accepted, 1, Gone)
      /\ \A i \in 1 .. Gone : accepted[i] \in Events
  BY <1>1 DEF Taken, Gone
<1>3. /\ SubSeq(accepted, 1, Gone) \in Seq(Events)
      /\ Len(SubSeq(accepted, 1, Gone)) = IF 1 <= Gone THEN Gone - 1 + 1 ELSE 0
      /\ \A i \in 1 .. Gone - 1 + 1 : SubSeq(accepted, 1, Gone)[i] = accepted[1 + i - 1]
  BY <1>1, <1>2, SubSeqProperties
<1>4. /\ Taken \in Seq(Events) /\ Len(Taken) = Gone
      /\ \A i \in 1 .. Gone : Taken[i] = accepted[i]
  BY <1>1, <1>2, <1>3
<1>5. Distinct(Taken)
  BY <1>1, <1>4 DEF QueueIsNewest, Distinct
<1>6. Elements(Taken) = TakenEvents
  BY <1>4 DEF Elements, TakenEvents
<1>7. queue = SubSeq(accepted, Gone + 1, Len(accepted))
  <2>1. /\ SubSeq(accepted, Gone + 1, Len(accepted)) \in Seq(Events)
        /\ Len(SubSeq(accepted, Gone + 1, Len(accepted)))
             = IF Gone + 1 <= Len(accepted) THEN Len(accepted) - (Gone + 1) + 1 ELSE 0
        /\ \A i \in 1 .. Len(accepted) - (Gone + 1) + 1 :
             SubSeq(accepted, Gone + 1, Len(accepted))[i] = accepted[(Gone + 1) + i - 1]
    <3>1. \A i \in Gone + 1 .. Len(accepted) : accepted[i] \in Events
      BY <1>1
    <3>. QED
      BY <1>1, <3>1, SubSeqProperties
  <2>2. Len(SubSeq(accepted, Gone + 1, Len(accepted))) = Len(queue)
    BY <1>1, <2>1 DEF Gone
  <2>3. ASSUME NEW i \in 1 .. Len(queue)
        PROVE  queue[i] = SubSeq(accepted, Gone + 1, Len(accepted))[i]
    <3>1. i \in 1 .. Len(accepted) - (Gone + 1) + 1 /\ (Gone + 1) + i - 1 = Gone + i
      BY <1>1 DEF Gone
    <3>. QED
      BY <2>1, <3>1 DEF QueueIsNewest
  <2>. QED
    BY <1>1, <2>1, <2>2, <2>3, SeqEqual
<1>. QED
  BY <1>4, <1>5, <1>6, <1>7 DEF Gone

\* Every event the queue accepted is in one place, once, and events leave the
\* queue in the order they came, whatever is stopped or fails.
THEOREM InOnePlaceHolds == Spec => []InOnePlace
<1>1. Inv => InOnePlace
  <2> SUFFICES ASSUME PipelineInv PROVE InOnePlace
    BY DEF Inv
  <2>. DEFINE flushing == Elements(batch["flusher"])
              draining == Elements(batch["shutdown"])
              out      == stored \cup lost \cup abandoned
  <2>1. /\ batch["flusher"] \in Seq(Events) /\ batch["shutdown"] \in Seq(Events)
        /\ \A t \in Tasks : Elements(batch[t]) \in {flushing, draining}
        /\ Tasks = {"flusher", "shutdown"}
    BY DEF PipelineInv, PipelineTypeOK, Tasks
  <2>2. TakenEvents = out \cup (flushing \cup draining)
    BY DEF PipelineInv, Places
  <2>3. UNION {Elements(batch[t]) : t \in Tasks} = flushing \cup draining
    BY <2>1
  <2>4. /\ IsFiniteSet(TakenEvents) /\ Cardinality(TakenEvents) = Gone
    BY TakenIsPrefix, CountElements
  <2>5. /\ stored \in SUBSET TakenEvents /\ lost \in SUBSET TakenEvents
        /\ abandoned \in SUBSET TakenEvents
        /\ flushing \in SUBSET TakenEvents /\ draining \in SUBSET TakenEvents
    BY <2>2
  <2>6. /\ IsFiniteSet(stored) /\ IsFiniteSet(lost) /\ IsFiniteSet(abandoned)
        /\ IsFiniteSet(flushing) /\ IsFiniteSet(draining)
    BY <2>4, <2>5, FS_Subset
  <2>7. /\ stored \cap lost = {} /\ (stored \cup lost) \cap abandoned = {}
        /\ flushing \cap draining = {} /\ out \cap (flushing \cup draining) = {}
    BY <2>1 DEF PipelineInv, Places
  <2>8. /\ Cardinality(flushing) = Len(batch["flusher"])
        /\ Cardinality(draining) = Len(batch["shutdown"])
    BY <2>1, CountElements DEF PipelineInv, Places
  <2>. HIDE DEF flushing, draining
  <2>9. /\ IsFiniteSet(stored \cup lost)
        /\ Cardinality(stored \cup lost) = Cardinality(stored) + Cardinality(lost)
        /\ Cardinality(stored) \in Nat /\ Cardinality(lost) \in Nat
    BY <2>6, <2>7, DisjointUnion
  <2>10. /\ IsFiniteSet(out)
         /\ Cardinality(out) = Cardinality(stored \cup lost) + Cardinality(abandoned)
         /\ Cardinality(abandoned) \in Nat
    BY <2>6, <2>7, <2>9, DisjointUnion
  <2>11. /\ IsFiniteSet(flushing \cup draining)
         /\ Cardinality(flushing \cup draining) = Cardinality(flushing) + Cardinality(draining)
         /\ Cardinality(flushing) \in Nat /\ Cardinality(draining) \in Nat
    BY <2>6, <2>7, DisjointUnion
  <2>12. Cardinality(TakenEvents) = Cardinality(out) + Cardinality(flushing \cup draining)
    <3>. HIDE DEF out
    <3>. QED
      BY <2>2, <2>7, <2>10, <2>11, DisjointUnion
  <2>. HIDE DEF out
  <2>13. Len(Taken) = Cardinality(stored) + Cardinality(lost) + Cardinality(abandoned)
                        + Len(batch["flusher"]) + Len(batch["shutdown"])
    <3>1. Len(Taken) = Cardinality(TakenEvents)
      BY <2>4, TakenIsPrefix
    <3>2. Cardinality(TakenEvents)
            = Cardinality(stored) + Cardinality(lost) + Cardinality(abandoned)
                + Cardinality(flushing) + Cardinality(draining)
      BY <2>9, <2>10, <2>11, <2>12
    <3>. QED
      BY <2>8, <3>1, <3>2
  <2>14. Elements(Taken) = stored \cup lost \cup abandoned
                              \cup UNION {Elements(batch[t]) : t \in Tasks}
    BY <2>2, <2>3, TakenIsPrefix DEF out
  <2>. QED
    BY <2>13, <2>14, TakenIsPrefix DEF out, InOnePlace, PipelineInv, QueueIsNewest, Drops
<1>. QED
  BY <1>1, InvHolds, PTL

-----------------------------------------------------------------------------
(* The trend *)

\* f holds the sums of the first scores of s, up to n of them.
IsSums(f, s, n) ==
  /\ f \in [0 .. n -> Int]
  /\ f[0] = 0
  /\ \A i \in 1 .. n : f[i] = f[i - 1] + s[i]

\* The recursive function that adds the scores up is there, and its values are
\* integers.
LEMMA SumsExist ==
  ASSUME NEW s \in Seq(Int)
  PROVE  IsSums(PartialSums(s), s, Len(s))
<1> DEFINE n == Len(s)
<1> DEFINE Good == {m \in 0 .. n : \E f : IsSums(f, s, m)}
<1>1. n \in Nat /\ \A i \in 1 .. n : s[i] \in Int
  OBVIOUS
<1>2. 0 \in Good
  <2>1. IsSums([i \in 0 .. 0 |-> 0], s, 0)
    BY DEF IsSums
  <2> QED
    BY <1>1, <2>1
<1>3. ASSUME NEW m \in 1 .. n, m - 1 \in Good PROVE m \in Good
  <2>1. PICK f : IsSums(f, s, m - 1)
    BY <1>3
  <2> DEFINE g == [i \in 0 .. m |-> IF i = m THEN f[m - 1] + s[m] ELSE f[i]]
  <2>2. f \in [0 .. m - 1 -> Int] /\ s[m] \in Int /\ m \in Nat \ {0}
    BY <1>1, <2>1 DEF IsSums
  <2>3. g \in [0 .. m -> Int] /\ g[0] = 0
    BY <2>1, <2>2 DEF IsSums
  <2>4. ASSUME NEW i \in 1 .. m PROVE g[i] = g[i - 1] + s[i]
    <3>1. i \in 0 .. m /\ i - 1 \in 0 .. m /\ i - 1 # m /\ (i # m => i \in 1 .. m - 1)
      BY <2>2
    <3>2. g[i - 1] = f[i - 1] /\ g[i] = IF i = m THEN f[m - 1] + s[m] ELSE f[i]
      BY <3>1
    <3> HIDE DEF g
    <3> QED
      BY <2>1, <3>1, <3>2 DEF IsSums
  <2> HIDE DEF g
  <2>5. IsSums(g, s, m)
    BY <2>3, <2>4 DEF IsSums
  <2> QED
    BY <2>5
<1> HIDE DEF Good
<1>4. \A m \in 0 .. n : m \in Good
  BY <1>1, <1>2, <1>3, UpTo
<1>5. PICK f : IsSums(f, s, n)
  BY <1>1, <1>4 DEF Good
<1>6. f = [i \in 0 .. n |-> IF i = 0 THEN 0 ELSE f[i - 1] + s[i]]
  BY <1>1, <1>5 DEF IsSums
<1>7. PartialSums(s) = [i \in 0 .. n |-> IF i = 0 THEN 0 ELSE PartialSums(s)[i - 1] + s[i]]
  BY <1>6 DEF PartialSums
<1> DEFINE p == PartialSums(s)
<1> DEFINE Typed == {m \in 0 .. n : p[m] \in Int}
<1>8. 0 \in Typed /\ \A i \in 1 .. n : i - 1 \in Typed => i \in Typed
  <2> HIDE DEF p
  <2>1. p = [i \in 0 .. n |-> IF i = 0 THEN 0 ELSE p[i - 1] + s[i]]
    BY <1>7 DEF p
  <2>2. p[0] = 0
    BY <1>1, <2>1
  <2>3. ASSUME NEW i \in 1 .. n, p[i - 1] \in Int PROVE p[i] \in Int
    <3>1. i \in 0 .. n /\ i # 0
      BY <1>1
    <3>2. p[i] = p[i - 1] + s[i]
      BY <2>1, <3>1
    <3> QED
      BY <1>1, <2>3, <3>2
  <2> QED
    BY <1>1, <2>2, <2>3
<1> HIDE DEF p
<1>9. \A m \in 0 .. n : p[m] \in Int
  <2> HIDE DEF Typed
  <2>1. \A m \in 0 .. n : m \in Typed
    BY <1>1, <1>8, UpTo
  <2> QED
    BY <2>1 DEF Typed
<1>10. p = [i \in 0 .. n |-> IF i = 0 THEN 0 ELSE p[i - 1] + s[i]]
  BY <1>7 DEF p
<1>11. IsSums(p, s, n)
  <2>1. p \in [0 .. n -> Int]
    <3>1. DOMAIN p = 0 .. n /\ p = [i \in DOMAIN p |-> p[i]]
      BY <1>10
    <3> QED
      BY <1>9, <3>1
  <2>2. p[0] = 0
    BY <1>1, <1>10
  <2>3. ASSUME NEW i \in 1 .. n PROVE p[i] = p[i - 1] + s[i]
    <3>1. i \in 0 .. n /\ i # 0
      BY <1>1
    <3> QED
      BY <1>10, <3>1
  <2> QED
    BY <2>1, <2>2, <2>3 DEF IsSums
<1> QED
  BY <1>11 DEF p

LEMMA AddBoth ==
  ASSUME NEW x \in Int, NEW y \in Int, NEW p \in Int, NEW q \in Int,
         NEW u \in Int, NEW d \in Int, x >= y + u, p >= q + d
  PROVE  x + p >= (y + q) + (u + d)
OBVIOUS

\* Scores that are each at least d above others add up to at least d more each.
LEMMA SumGap ==
  ASSUME NEW s \in Seq(Int), NEW t \in Seq(Int), Len(s) = Len(t), NEW d \in Int,
         \A i \in 1 .. Len(s) : s[i] >= t[i] + d
  PROVE  /\ SumOf(s) \in Int /\ SumOf(t) \in Int
         /\ SumOf(s) >= SumOf(t) + Len(s) * d
<1> DEFINE n == Len(s)
<1> DEFINE a == PartialSums(s)
<1> DEFINE b == PartialSums(t)
<1>1. n \in Nat /\ \A i \in 1 .. n : s[i] \in Int /\ t[i] \in Int
  OBVIOUS
<1>2. IsSums(a, s, n) /\ IsSums(b, t, n)
  BY SumsExist
<1> HIDE DEF a, b
<1> DEFINE Good == {i \in 0 .. n : a[i] >= b[i] + i * d}
<1>3. 0 \in Good
  BY <1>1, <1>2 DEF IsSums
<1>4. ASSUME NEW i \in 1 .. n, i - 1 \in Good PROVE i \in Good
  <2>1. a[i - 1] \in Int /\ b[i - 1] \in Int /\ a[i] \in Int /\ b[i] \in Int
    <3>1. i - 1 \in 0 .. n /\ i \in 0 .. n
      BY <1>1
    <3>2. a \in [0 .. n -> Int] /\ b \in [0 .. n -> Int]
      BY <1>2 DEF IsSums
    <3> QED
      BY <3>1, <3>2
  <2>2. a[i] = a[i - 1] + s[i] /\ b[i] = b[i - 1] + t[i]
    BY <1>2 DEF IsSums
  <2>3. (i - 1) * d + d = i * d /\ (i - 1) * d \in Int
    BY <1>1
  <2>4. a[i - 1] >= b[i - 1] + (i - 1) * d
    BY <1>4
  <2>5. s[i] \in Int /\ t[i] \in Int /\ s[i] >= t[i] + d
    BY <1>1
  <2>6. a[i] >= b[i] + i * d
    <3> DEFINE u == (i - 1) * d
    <3> DEFINE v == i * d
    <3>1. u \in Int /\ v \in Int /\ u + d = v /\ a[i - 1] >= b[i - 1] + u
      BY <1>1, <2>3, <2>4
    <3> HIDE DEF u, v
    <3>2. a[i - 1] + s[i] >= (b[i - 1] + t[i]) + (u + d)
      BY <2>1, <2>5, <3>1, AddBoth
    <3>3. a[i] >= b[i] + v
      BY <2>2, <3>1, <3>2
    <3> QED
      BY <3>3 DEF v
  <2> QED
    BY <1>1, <2>6
<1> HIDE DEF Good
<1>5. n \in Good
  <2>1. \A i \in 0 .. n : i \in Good
    BY <1>1, <1>3, <1>4, UpTo
  <2> QED
    BY <1>1, <2>1
<1>6. a[n] \in Int /\ b[n] \in Int /\ a[n] >= b[n] + n * d
  BY <1>1, <1>2, <1>5 DEF Good, IsSums
<1> QED
  BY <1>6 DEF SumOf, a, b

\* The last k samples.
LEMMA LastSamples ==
  ASSUME NEW h \in Seq(Int), NEW k \in Nat \ {0}, k <= Len(h)
  PROVE  /\ LastOf(h, k) \in Seq(Int) /\ Len(LastOf(h, k)) = k
         /\ \A i \in 1 .. k : LastOf(h, k)[i] = h[Len(h) - k + i]
<1>1. Len(h) \in Nat /\ \A i \in 1 .. Len(h) : h[i] \in Int
  OBVIOUS
<1>2. Len(h) - k + 1 \in Int /\ \A i \in Len(h) - k + 1 .. Len(h) : h[i] \in Int
  BY <1>1
<1> QED
  BY <1>1, <1>2, SubSeqProperties DEF LastOf

\* The two halves that trend() compares, sample by sample.
NewerHalf(h) == LastOf(h, Recent)
OlderHalf(h) == SubSeq(LastOf(h, 2 * Recent), 1, Recent)

LEMMA Halves ==
  ASSUME NEW h \in Seq(Int), Len(h) >= 2 * Recent
  PROVE  /\ NewerHalf(h) \in Seq(Int) /\ Len(NewerHalf(h)) = Recent
         /\ OlderHalf(h) \in Seq(Int) /\ Len(OlderHalf(h)) = Recent
         /\ \A i \in 1 .. Recent : /\ NewerHalf(h)[i] = h[Len(h) - Recent + i]
                                   /\ OlderHalf(h)[i] = h[Len(h) - 2 * Recent + i]
<1> DEFINE last == LastOf(h, 2 * Recent)
<1>1. /\ Len(h) \in Nat /\ Recent \in Nat \ {0} /\ Recent <= Len(h)
      /\ 2 * Recent \in Nat \ {0} /\ 2 * Recent <= Len(h)
  BY TrackerAssumption
<1>2. /\ NewerHalf(h) \in Seq(Int) /\ Len(NewerHalf(h)) = Recent
      /\ \A i \in 1 .. Recent : NewerHalf(h)[i] = h[Len(h) - Recent + i]
  BY <1>1, LastSamples DEF NewerHalf
<1>3. /\ last \in Seq(Int) /\ Len(last) = 2 * Recent
      /\ \A i \in 1 .. 2 * Recent : last[i] = h[Len(h) - 2 * Recent + i]
  BY <1>1, LastSamples
<1> HIDE DEF last
<1>4. 1 \in Int /\ Recent \in Int /\ \A i \in 1 .. Recent : last[i] \in Int
  BY <1>1, <1>3
<1>5. /\ SubSeq(last, 1, Recent) \in Seq(Int)
      /\ Len(SubSeq(last, 1, Recent)) = IF 1 <= Recent THEN Recent - 1 + 1 ELSE 0
      /\ \A i \in 1 .. Recent - 1 + 1 : SubSeq(last, 1, Recent)[i] = last[1 + i - 1]
  BY <1>4, SubSeqProperties
<1>6. OlderHalf(h) = SubSeq(last, 1, Recent)
  BY DEF OlderHalf, last
<1>7. /\ OlderHalf(h) \in Seq(Int) /\ Len(OlderHalf(h)) = Recent
      /\ \A i \in 1 .. Recent : OlderHalf(h)[i] = last[i]
  <2> HIDE DEF last
  <2>1. 1 <= Recent /\ Recent - 1 + 1 = Recent /\ \A i \in 1 .. Recent : 1 + i - 1 = i
    BY <1>1
  <2> QED
    BY <1>5, <1>6, <2>1
<1>8. ASSUME NEW i \in 1 .. Recent PROVE OlderHalf(h)[i] = h[Len(h) - 2 * Recent + i]
  <2>1. i \in 1 .. 2 * Recent
    BY <1>1
  <2>2. OlderHalf(h)[i] = last[i]
    BY <1>7
  <2> QED
    BY <1>3, <2>1, <2>2
<1> QED
  BY <1>2, <1>7, <1>8

LEMMA SumType ==
  ASSUME NEW s \in Seq(Int)
  PROVE  SumOf(s) \in Int
<1>1. Len(s) \in 0 .. Len(s)
  OBVIOUS
<1>. QED
  BY <1>1, SumsExist DEF IsSums, SumOf

LEMMA Multiple ==
  ASSUME NEW d \in Int
  PROVE  Recent * d \in Int
BY TrackerAssumption

\* When the scores of one half are all at least d above those of the other, so
\* that a negative d bounds how far they are below, the gain says so.
LEMMA GapIsGain ==
  ASSUME NEW h \in Seq(Int), Len(h) >= 2 * Recent, NEW d \in Int
  PROVE  /\ Gain(h) \in Int
         /\ (\A i \in 1 .. Recent : NewerHalf(h)[i] >= OlderHalf(h)[i] + d)
              => Gain(h) >= Recent * d
         /\ (\A i \in 1 .. Recent : OlderHalf(h)[i] >= NewerHalf(h)[i] + d)
              => -Gain(h) >= Recent * d
<1>. DEFINE newer == NewerHalf(h)
<1>. DEFINE older == OlderHalf(h)
<1>1. /\ newer \in Seq(Int) /\ Len(newer) = Recent
      /\ older \in Seq(Int) /\ Len(older) = Recent
  BY Halves
<1>2. Gain(h) = SumOf(newer) - SumOf(older)
  <2>1. ~(Len(h) < 2 * Recent)
    BY TrackerAssumption
  <2>. QED
    BY <2>1 DEF Gain, NewerHalf, OlderHalf
<1>. HIDE DEF newer, older
<1>3. SumOf(newer) \in Int /\ SumOf(older) \in Int
  BY <1>1, SumType
<1>4. ASSUME \A i \in 1 .. Recent : newer[i] >= older[i] + d
      PROVE  Gain(h) >= Recent * d
  <2>1. SumOf(newer) >= SumOf(older) + Recent * d
    BY <1>1, <1>4, SumGap
  <2>. QED
    BY <1>2, <1>3, <2>1, Multiple
<1>5. ASSUME \A i \in 1 .. Recent : older[i] >= newer[i] + d
      PROVE  -Gain(h) >= Recent * d
  <2>1. SumOf(older) >= SumOf(newer) + Recent * d
    BY <1>1, <1>5, SumGap
  <2>. QED
    BY <1>2, <1>3, <2>1, Multiple
<1>. QED
  BY <1>2, <1>3, <1>4, <1>5 DEF newer, older

\* The trend fits its history, whatever the scores and however many, and however
\* long the halves and large the threshold are (health.py 44-58).
THEOREM TrendFitsEveryHistory ==
  ASSUME NEW h \in Seq(Int)
  PROVE  TrendFits(h)
<1>. DEFINE n == Len(h)
<1>. DEFINE Above(i, j) == h[i] > h[j] + Threshold
<1>. DEFINE NewerPart == n - Recent + 1 .. n
<1>. DEFINE OlderPart == n - 2 * Recent + 1 .. n - Recent
<1>1. /\ n \in Nat /\ Recent \in Nat \ {0} /\ Threshold \in Nat
      /\ \A i \in 1 .. n : h[i] \in Int
  BY TrackerAssumption
<1>2. Recent * Threshold \in Nat /\ (-Recent) * Threshold = -(Recent * Threshold)
  BY <1>1
<1>3. CASE n < 2 * Recent
  <2>1. Gain(h) = 0
    BY <1>3 DEF Gain
  <2>2. Trend(h) = "stable"
    BY <1>2, <2>1 DEF Trend
  <2>. QED
    BY <1>1, <1>3, <2>2 DEF TrendFits
<1>4. CASE n >= 2 * Recent
  <2>1. ASSUME NEW i \in 1 .. Recent
        PROVE  /\ n - Recent + i \in NewerPart /\ NewerHalf(h)[i] = h[n - Recent + i]
               /\ n - 2 * Recent + i \in OlderPart /\ OlderHalf(h)[i] = h[n - 2 * Recent + i]
               /\ h[n - Recent + i] \in Int /\ h[n - 2 * Recent + i] \in Int
    <3>1. /\ n - Recent + i \in NewerPart /\ n - Recent + i \in 1 .. n
          /\ n - 2 * Recent + i \in OlderPart /\ n - 2 * Recent + i \in 1 .. n
      BY <1>1, <1>4
    <3>2. /\ NewerHalf(h)[i] = h[n - Recent + i]
          /\ OlderHalf(h)[i] = h[n - 2 * Recent + i]
      BY <1>4, Halves
    <3>. QED
      BY <1>1, <3>1, <3>2
  <2>2. PICK more \in Int : more = Threshold + 1
    BY <1>1
  <2>3. PICK less \in Int : less = -Threshold
    BY <1>1
  <2>4. /\ Gain(h) \in Int
        /\ Recent * more = Recent * Threshold + Recent
        /\ Recent * less = -(Recent * Threshold)
    BY <1>1, <1>4, <2>2, <2>3, GapIsGain
  \* From here on the product of the threshold is a number like any other.
  <2>5. /\ Gain(h) >= Recent * more => Gain(h) > Recent * Threshold
        /\ -Gain(h) >= Recent * more =>
             Gain(h) < -(Recent * Threshold) /\ ~(Gain(h) > Recent * Threshold)
    <3>1. \A g, m \in Int : \A t \in Nat :
            m = t + Recent =>
              /\ g >= m => g > t
              /\ -g >= m => g < -t /\ ~(g > t)
      BY <1>1
    <3>2. Recent * more \in Int /\ Recent * Threshold \in Nat
      BY <1>2, <2>2, Multiple
    <3>. QED
      BY <2>4, <3>1, <3>2
  <2>. HIDE DEF n, NewerPart, OlderPart
  <2>6. ASSUME \A i \in NewerPart, j \in OlderPart : ~Above(i, j)
        PROVE  Trend(h) # "improving"
    <3>1. \A i \in 1 .. Recent : OlderHalf(h)[i] >= NewerHalf(h)[i] + less
      <4> SUFFICES ASSUME NEW i \in 1 .. Recent
                   PROVE  OlderHalf(h)[i] >= NewerHalf(h)[i] + less
        OBVIOUS
      <4>1. ~(h[n - Recent + i] > h[n - 2 * Recent + i] + Threshold)
        BY <2>1, <2>6
      <4>2. /\ NewerHalf(h)[i] = h[n - Recent + i] /\ h[n - Recent + i] \in Int
            /\ OlderHalf(h)[i] = h[n - 2 * Recent + i] /\ h[n - 2 * Recent + i] \in Int
        BY <2>1
      <4>. QED
        BY <1>1, <2>3, <4>1, <4>2
    <3>2. -Gain(h) >= Recent * less
      BY <1>4, <3>1, GapIsGain DEF n
    <3>. QED
      BY <1>2, <2>4, <3>2 DEF Trend
  <2>7. ASSUME \A i \in NewerPart, j \in OlderPart : ~Above(j, i)
        PROVE  Trend(h) # "degrading"
    <3>1. \A i \in 1 .. Recent : NewerHalf(h)[i] >= OlderHalf(h)[i] + less
      <4> SUFFICES ASSUME NEW i \in 1 .. Recent
                   PROVE  NewerHalf(h)[i] >= OlderHalf(h)[i] + less
        OBVIOUS
      <4>1. ~(h[n - 2 * Recent + i] > h[n - Recent + i] + Threshold)
        BY <2>1, <2>7
      <4>2. /\ NewerHalf(h)[i] = h[n - Recent + i] /\ h[n - Recent + i] \in Int
            /\ OlderHalf(h)[i] = h[n - 2 * Recent + i] /\ h[n - 2 * Recent + i] \in Int
        BY <2>1
      <4>. QED
        BY <1>1, <2>3, <4>1, <4>2
    <3>2. Gain(h) >= Recent * less
      BY <1>4, <3>1, GapIsGain DEF n
    <3>. QED
      BY <1>2, <2>4, <3>2 DEF Trend
  <2>8. ASSUME \A i \in NewerPart, j \in OlderPart : Above(i, j)
        PROVE  Trend(h) = "improving"
    <3>1. \A i \in 1 .. Recent : NewerHalf(h)[i] >= OlderHalf(h)[i] + more
      <4> SUFFICES ASSUME NEW i \in 1 .. Recent
                   PROVE  NewerHalf(h)[i] >= OlderHalf(h)[i] + more
        OBVIOUS
      <4>1. h[n - Recent + i] > h[n - 2 * Recent + i] + Threshold
        BY <2>1, <2>8
      <4>2. /\ NewerHalf(h)[i] = h[n - Recent + i] /\ h[n - Recent + i] \in Int
            /\ OlderHalf(h)[i] = h[n - 2 * Recent + i] /\ h[n - 2 * Recent + i] \in Int
        BY <2>1
      <4>. QED
        BY <1>1, <2>2, <4>1, <4>2
    <3>2. Gain(h) >= Recent * more
      BY <1>4, <3>1, GapIsGain DEF n
    <3>3. Gain(h) > Recent * Threshold
      BY <2>5, <3>2
    <3>. QED
      BY <3>3 DEF Trend
  <2>9. ASSUME \A i \in NewerPart, j \in OlderPart : Above(j, i)
        PROVE  Trend(h) = "degrading"
    <3>1. \A i \in 1 .. Recent : OlderHalf(h)[i] >= NewerHalf(h)[i] + more
      <4> SUFFICES ASSUME NEW i \in 1 .. Recent
                   PROVE  OlderHalf(h)[i] >= NewerHalf(h)[i] + more
        OBVIOUS
      <4>1. h[n - 2 * Recent + i] > h[n - Recent + i] + Threshold
        BY <2>1, <2>9
      <4>2. /\ NewerHalf(h)[i] = h[n - Recent + i] /\ h[n - Recent + i] \in Int
            /\ OlderHalf(h)[i] = h[n - 2 * Recent + i] /\ h[n - 2 * Recent + i] \in Int
        BY <2>1
      <4>. QED
        BY <1>1, <2>2, <4>1, <4>2
    <3>2. -Gain(h) >= Recent * more
      BY <1>4, <3>1, GapIsGain DEF n
    <3>3. Gain(h) < -(Recent * Threshold) /\ ~(Gain(h) > Recent * Threshold)
      BY <2>5, <3>2
    <3>. QED
      BY <1>2, <3>3 DEF Trend
  <2>10. ~(n < 2 * Recent)
    BY <1>1, <1>4
  <2>. QED
    BY <2>6, <2>7, <2>8, <2>9, <2>10 DEF TrendFits, n, NewerPart, OlderPart
<1>. QED
  BY <1>1, <1>3, <1>4

\* The trend that GET /health/pools shows of a pool fits the scores that were
\* sampled of it and that its window still holds, in every reachable state.
THEOREM TrendFollowsScoresHolds == Spec => []TrendFollowsScores
<1>1. Inv => TrendFollowsScores
  <2> SUFFICES ASSUME Inv, NEW p \in Tracked PROVE TrendFits(history[p])
    BY DEF TrendFollowsScores
  <2>1. history[p] \in Seq(Scores)
    BY BoundedSequences, OrderType DEF Inv, TrackerInv, TrackerTypeOK
  <2>2. history[p] \in Seq(Int)
    <3>1. Scores \subseteq Int
      BY TrackerAssumption
    <3>. QED
      BY <2>1, <3>1, SeqMonotonic
  <2>. QED
    BY <2>2, TrendFitsEveryHistory
<1>. QED
  BY <1>1, InvHolds, PTL
=============================================================================
