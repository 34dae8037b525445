--------------------------- MODULE AnalyticsPipeline ---------------------------
(***************************************************************************)
(* app/analytics/pipeline.py: request handlers put events into a bounded   *)
(* queue, the flush task moves them to db.analytics in batches, and the    *)
(* shutdown cancels that task and drains the queue itself.  Lifespan makes *)
(* a system of these actions.                                              *)
(*                                                                         *)
(* Two tasks take batches, the flush task and the shutdown; both run       *)
(* _flush_batch, whose only await is the insert.  Handlers have finished   *)
(* before the lifespan's shutdown begins.                                  *)
(***************************************************************************)
EXTENDS Integers, Sequences, FiniteSets

CONSTANTS
  Events,      \* events the handlers may track, each once
  QueueSize,   \* settings.analytics_queue_size
  BatchSize,   \* settings.analytics_batch_size
  Faulty       \* may an insert raise?

ASSUME PipelineAssumption ==
  /\ QueueSize \in Nat \ {0}
  /\ BatchSize \in Nat \ {0}
  /\ Faulty \in BOOLEAN

VARIABLES
  server,     \* how far the lifespan is, see ServerStates
  flusher,    \* the flush task: none, ready, inserting, sleeping or over
  drain,      \* the shutdown's drain: taking or inserting
  queue,      \* _queue
  batch,      \* task -> the batch its insert was given
  stored,     \* db.analytics
  dropCount,  \* _drop_count
  accepted,   \* history: the events put into the queue, in order
  refused,    \* history: the events dropped at a full queue
  lost,       \* history: the events an insert that raised left out
  abandoned   \* history: the events of a cancelled insert that were left out

pipelineVars == <<server, flusher, drain, queue, batch, stored, dropCount, accepted, refused, lost, abandoned>>

Tasks == {"flusher", "shutdown"}

\* The elements of a sequence.
Elements(s) == {s[i] : i \in 1 .. Len(s)}

ServerStates == {"starting", "up", "stopping", "cancelling", "draining", "drained", "down"}

PipelineTypeOK ==
  /\ server \in ServerStates
  /\ flusher \in {"none", "ready", "inserting", "sleeping", "over"}
  /\ drain \in {"taking", "inserting"}
  /\ queue \in Seq(Events) /\ Len(queue) <= QueueSize
  /\ batch \in [Tasks -> Seq(Events)]
  /\ \A t \in Tasks : Len(batch[t]) <= BatchSize
  /\ stored \subseteq Events
  /\ dropCount \in Nat
  /\ accepted \in Seq(Events)
  /\ refused \subseteq Events /\ lost \subseteq Events /\ abandoned \subseteq Events

PipelineInit ==
  /\ server = "starting" /\ flusher = "none" /\ drain = "taking"
  /\ queue = <<>> /\ batch = [t \in Tasks |-> <<>>]
  /\ stored = {} /\ dropCount = 0
  /\ accepted = <<>> /\ refused = {} /\ lost = {} /\ abandoned = {}

-----------------------------------------------------------------------------

\* start_pipeline(): the task is created; it runs later.
StartPipeline ==
  /\ server = "starting"
  /\ server' = "up"
  /\ flusher' = "ready"
  /\ UNCHANGED <<drain, queue, batch, stored, dropCount, accepted, refused, lost, abandoned>>

HasRoom == Len(queue) < QueueSize

\* track(): put_nowait, or count a drop.
Track(e) ==
  /\ server = "up"
  /\ e \notin Elements(accepted) \cup refused
  /\ \/ /\ HasRoom
        /\ queue' = Append(queue, e)
        /\ accepted' = Append(accepted, e)
        /\ UNCHANGED <<dropCount, refused>>
     \/ /\ ~HasRoom
        /\ dropCount' = dropCount + 1
        /\ refused' = refused \cup {e}
        /\ UNCHANGED <<queue, accepted>>
  /\ UNCHANGED <<server, flusher, drain, batch, stored, lost, abandoned>>

BatchLength == IF Len(queue) < BatchSize THEN Len(queue) ELSE BatchSize

\* _flush_batch up to its insert: at most BatchSize events, from the front.
TakeBatch(t) ==
  /\ batch' = [batch EXCEPT ![t] = SubSeq(queue, 1, BatchLength)]
  /\ queue' = SubSeq(queue, BatchLength + 1, Len(queue))
  /\ UNCHANGED <<stored, lost, abandoned>>

\* Mutant: a batch whose insert raised goes back into the queue, although part
\* of it may be in the collection.
FinishInsertRequeues(t) ==
  /\ \E in \in SUBSET Elements(batch[t]) :
       /\ in = Elements(batch[t]) \/ Faulty
       /\ stored' = stored \cup in
       /\ queue' = IF in = Elements(batch[t]) THEN queue ELSE queue \o batch[t]
  /\ batch' = [batch EXCEPT ![t] = <<>>]
  /\ UNCHANGED <<lost, abandoned>>

\* The insert ends: all of the batch is in the collection, or, when it raised
\* and the exception was swallowed, any part of it.
FinishInsert(t) ==
  /\ \E in \in SUBSET Elements(batch[t]) :
       /\ in = Elements(batch[t]) \/ Faulty
       /\ stored' = stored \cup in
       /\ lost' = lost \cup (Elements(batch[t]) \ in)
  /\ batch' = [batch EXCEPT ![t] = <<>>]
  /\ UNCHANGED <<queue, abandoned>>

-----------------------------------------------------------------------------
(* The flush task *)

\* Mutant: the loop ends when it finds nothing to flush.
AfterTakingEnds == IF queue = <<>> THEN "over" ELSE "inserting"

AfterTaking == IF queue = <<>> THEN "sleeping" ELSE "inserting"

\* From its start or the end of its sleep.  It sees _running as True: the
\* shutdown, which clears it, cancels the task in the same step.
FlusherTakes ==
  /\ server \in {"up", "stopping"}
  /\ flusher \in {"ready", "sleeping"}
  /\ TakeBatch("flusher")
  /\ flusher' = AfterTaking
  /\ UNCHANGED <<server, drain, dropCount, accepted, refused>>

FlusherInserts ==
  /\ server \in {"up", "stopping"}
  /\ flusher = "inserting"
  /\ FinishInsert("flusher")
  /\ flusher' = "sleeping"
  /\ UNCHANGED <<server, drain, dropCount, accepted, refused>>

-----------------------------------------------------------------------------
(* stop_pipeline() *)

\* The shutdown goes on to the next state.
Goto(next) ==
  /\ server' = next
  /\ UNCHANGED <<flusher, drain, queue, batch, stored, dropCount, accepted, refused, lost,
                 abandoned>>

StopPipeline == server = "stopping" /\ Goto("cancelling")

\* CancelledError is raised at the task's await.  It is not an Exception, so
\* _flush_batch does not catch it; the driver may or may not carry out the
\* insert it was given.
FlusherCancelled ==
  /\ server = "cancelling"
  /\ flusher # "over"
  /\ flusher' = "over"
  /\ \E in \in SUBSET Elements(batch["flusher"]) :
       /\ in \in {{}, Elements(batch["flusher"])} \/ Faulty
       /\ stored' = stored \cup in
       /\ abandoned' = Elements(batch["flusher"]) \ in
  /\ batch' = [batch EXCEPT !["flusher"] = <<>>]
  /\ UNCHANGED <<server, drain, queue, dropCount, accepted, refused, lost>>

\* Mutant: the shutdown does not await the task it cancelled.
FlusherNotAwaited == server = "cancelling" /\ Goto("draining")

\* "await _flush_task" returns only when the task is over.
FlusherJoined == server = "cancelling" /\ flusher = "over" /\ Goto("draining")

DrainTakes ==
  /\ server = "draining"
  /\ drain = "taking"
  /\ queue # <<>>
  /\ TakeBatch("shutdown")
  /\ drain' = "inserting"
  /\ UNCHANGED <<server, flusher, dropCount, accepted, refused>>

DrainInserts ==
  /\ server = "draining"
  /\ drain = "inserting"
  /\ FinishInsert("shutdown")
  /\ drain' = "taking"
  /\ UNCHANGED <<server, flusher, dropCount, accepted, refused>>

\* Mutants: a short batch ends the drain; an empty one does not end it.
DrainEndsEarly ==
  /\ server = "draining" /\ drain = "taking"
  /\ Len(queue) <= BatchSize
  /\ Goto("drained")

DrainGoesOn ==
  /\ server = "draining" /\ drain = "taking"
  /\ queue = <<>>
  /\ UNCHANGED pipelineVars

\* A batch of length 0 ends the drain.
DrainEnds ==
  /\ server = "draining" /\ drain = "taking"
  /\ queue = <<>>
  /\ Goto("drained")

Flusher == FlusherTakes \/ FlusherInserts \/ FlusherCancelled
Drain   == FlusherJoined \/ DrainTakes \/ DrainInserts \/ DrainEnds

-----------------------------------------------------------------------------
(* Properties *)

Taken == SubSeq(accepted, 1, Len(accepted) - Len(queue))

\* Every event the queue accepted is in one place, and events leave the queue
\* in the order they came: the queue is the newest part of what was accepted,
\* and the rest is, each event once, stored, in a batch being inserted, or
\* left out by a failed or a cancelled insert.  The drop counter is the number
\* of the events that were refused instead, and none was before the queue had
\* been given as many as it holds.
InOnePlace ==
  /\ Len(queue) <= Len(accepted)
  /\ queue = SubSeq(accepted, Len(accepted) - Len(queue) + 1, Len(accepted))
  /\ Elements(Taken) = stored \cup lost \cup abandoned \cup UNION {Elements(batch[t]) : t \in Tasks}
  /\ Len(Taken) = Cardinality(stored) + Cardinality(lost) + Cardinality(abandoned)
                    + Len(batch["flusher"]) + Len(batch["shutdown"])
  /\ dropCount = Cardinality(refused)
  /\ refused # {} => Len(accepted) >= QueueSize

\* The flush task and the shutdown never insert at the same time, so that no
\* batch of the drain overtakes one of the flush task.
OneInserter == ~(batch["flusher"] # <<>> /\ batch["shutdown"] # <<>>)

\* Once the shutdown has drained the queue nothing is left in the queue or in a batch, and
\* what the shutdown itself lost is part of one batch, the one that was being
\* inserted when it began.
StopDrains ==
  server \in {"drained", "down"} =>
    /\ queue = <<>> /\ \A t \in Tasks : batch[t] = <<>>
    /\ Cardinality(abandoned) <= BatchSize

\* An event that was accepted does not stay in the queue: the flush task gets
\* to it, or the shutdown does.
Flushed ==
  \A e \in Events : e \in Elements(queue) ~> e \in stored \cup lost \cup abandoned

-----------------------------------------------------------------------------
(* What the documentation says, for the run that refutes it *)

\* "Graceful shutdown drains the entire queue before exit": unless an insert
\* failed, every event that was accepted is in the collection at the end.
ShutdownKeepsAll == server = "drained" => Elements(accepted) \subseteq stored \cup lost
=============================================================================
