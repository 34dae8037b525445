-------------------------------- MODULE Lifespan --------------------------------
(***************************************************************************)
(* The lifespan of app/main.py with the connections of app/db/mongo.py and *)
(* app/db/redis.py: the startup connects, creates the indexes and starts   *)
(* the health tracker and the analytics pipeline; the shutdown, once the   *)
(* request handlers are done, stops them in that order and closes the      *)
(* connections.  The two background tasks run until each is cancelled.     *)
(***************************************************************************)
EXTENDS AnalyticsPipeline, HealthTracker

VARIABLE open     \* the connections that are open

vars == <<pipelineVars, trackerVars, open>>

Connections == {"mongo", "redis"}

TypeOK == PipelineTypeOK /\ TrackerTypeOK /\ open \subseteq Connections

Init == PipelineInit /\ TrackerInit /\ open = {}

-----------------------------------------------------------------------------
(* Startup *)

\* get_db() and get_redis(): neither waits for its server.
Connect ==
  /\ server = "starting" /\ open = {}
  /\ open' = Connections
  /\ UNCHANGED <<pipelineVars, trackerVars>>

\* create_indexes() raised: the application does not start, and exits with its
\* connections as they are.
StartupFails ==
  /\ Faulty
  /\ server = "starting" /\ open = Connections
  /\ Goto("down")
  /\ UNCHANGED <<trackerVars, open>>

\* create_indexes() returned; from here to the yield nothing suspends.
Ready ==
  /\ open = Connections
  /\ StartTracker
  /\ StartPipeline
  /\ UNCHANGED open

Serve == \E e \in Events : Track(e) /\ UNCHANGED <<trackerVars, open>>

RunTasks ==
  \/ Flusher /\ UNCHANGED <<trackerVars, open>>
  \/ server = "up" /\ Monitor /\ UNCHANGED <<pipelineVars, open>>

-----------------------------------------------------------------------------
(* Shutdown *)

\* The handlers are done; health_tracker.stop() cancels its task.
BeginShutdown ==
  /\ server = "up"
  /\ Goto("stopping")
  /\ UNCHANGED <<trackerVars, open>>

StopTracker ==
  /\ server = "stopping"
  /\ TrackerCancelled
  /\ UNCHANGED <<pipelineVars, open>>

\* Mutant: the tracker's task is neither cancelled nor awaited.
TrackerStoppedUnchecked ==
  /\ StopPipeline
  /\ UNCHANGED <<trackerVars, open>>

\* "await self._task" returned.
TrackerStopped ==
  /\ monitor = "over"
  /\ StopPipeline
  /\ UNCHANGED <<trackerVars, open>>

DrainQueue == Drain /\ UNCHANGED <<trackerVars, open>>

CloseRedis ==
  /\ server = "drained" /\ "redis" \in open
  /\ open' = open \ {"redis"}
  /\ UNCHANGED <<pipelineVars, trackerVars>>

CloseMongo ==
  /\ server = "drained" /\ "redis" \notin open
  /\ open' = open \ {"mongo"}
  /\ Goto("down")
  /\ UNCHANGED trackerVars

\* After the shutdown the process exits.
Down == server = "down" /\ UNCHANGED vars

Startup  == Connect \/ StartupFails \/ Ready
Shutdown == StopTracker \/ TrackerStopped \/ DrainQueue \/ CloseRedis \/ CloseMongo

Next == Startup \/ Serve \/ RunTasks \/ BeginShutdown \/ Shutdown \/ Down

Spec == Init /\ [][Next]_vars

\* The event loop resumes the flush task, the monitor and the shutdown when
\* what each awaits ends.  Handlers and the operator who stops the server owe
\* nothing.
FairSpec ==
  /\ Spec
  /\ WF_vars(Flusher /\ UNCHANGED <<trackerVars, open>>)
  /\ WF_vars(server = "up" /\ Monitor /\ UNCHANGED <<pipelineVars, open>>)
  /\ WF_vars(Shutdown)

-----------------------------------------------------------------------------
(* Properties *)

\* No task is in a call to a server whose connection the shutdown has closed,
\* and a server that was up leaves no connection open.
UsesOpenConnections ==
  /\ flusher = "inserting" \/ drain = "inserting" => "mongo" \in open
  /\ monitor = "publishing" => "redis" \in open
  /\ server = "down" /\ flusher # "none" => open = {}

\* A shutdown that began comes to its end, whatever the two tasks were doing.
StopEnds == server = "stopping" ~> server = "down"

\* While the server is up the monitor keeps sampling every pool, failing calls
\* to Redis or not, until the window is full.
KeepsSampling ==
  server = "up" ~> server # "up" \/ \A p \in Tracked : Len(history[p]) = Window
=============================================================================
