----------------------------- MODULE HealthTracker -----------------------------
(***************************************************************************)
(* PoolHealthTracker of app/balancer/health.py: a task that takes, once a  *)
(* second, a snapshot of each pool and sends it to Redis, and the trend    *)
(* that GET /health/pools reads off the snapshots.                         *)
(*                                                                         *)
(* A snapshot is abstracted to its health score, a free choice.  What      *)
(* Redis holds is left out: nothing reads it.  Lifespan starts and stops   *)
(* the task.                                                               *)
(***************************************************************************)
EXTENDS Integers, Sequences, SequencesExt

CONSTANTS
  PoolOrder,   \* all_pools()
  Scores,      \* health scores, in hundredths
  Window,      \* window_size
  Recent,      \* 5: the samples that trend() compares with as many before
  Threshold    \* 0.05, in hundredths

ASSUME TrackerAssumption ==
  /\ PoolOrder \in Seq(STRING) \ {<<>>} /\ IsInjective(PoolOrder)
  /\ Scores \subseteq 0 .. 100
  /\ Window \in Nat \ {0} /\ Recent \in Nat \ {0}
  /\ Threshold \in Nat

VARIABLES
  monitor,   \* the task: none, ready, publishing, sleeping or over
  turn,      \* the place in PoolOrder of the pool it is publishing
  history    \* pool -> the last scores sampled

trackerVars == <<monitor, turn, history>>

Tracked == Range(PoolOrder)

TrackerTypeOK ==
  /\ monitor \in {"none", "ready", "publishing", "sleeping", "over"}
  /\ turn \in 0 .. Len(PoolOrder)
  /\ history \in [Tracked -> BoundedSeq(Scores, Window)]

TrackerInit ==
  /\ monitor = "none" /\ turn = 0
  /\ history = [p \in Tracked |-> <<>>]

-----------------------------------------------------------------------------

StartTracker ==
  /\ monitor' = "ready"
  /\ UNCHANGED <<turn, history>>

\* One turn of the loop in _sample, up to the call to Redis.
Sample(i) ==
  /\ \E score \in Scores :
       LET longer == Append(history[PoolOrder[i]], score)
       IN  history' = [history EXCEPT ![PoolOrder[i]] =
                         IF Len(longer) > Window THEN Tail(longer) ELSE longer]
  /\ turn' = i
  /\ monitor' = "publishing"

BeginRound ==
  /\ monitor \in {"ready", "sleeping"}
  /\ Sample(1)

\* Mutants: a call that raises ends the round; it ends the task.
PublishEndsAborts ==
  /\ monitor = "publishing"
  /\ \/ turn < Len(PoolOrder) /\ Sample(turn + 1)
     \/ monitor' = "sleeping" /\ UNCHANGED <<turn, history>>

PublishEndsRaises ==
  /\ monitor = "publishing"
  /\ \/ turn < Len(PoolOrder) /\ Sample(turn + 1)
     \/ turn = Len(PoolOrder) /\ monitor' = "sleeping" /\ UNCHANGED <<turn, history>>
     \/ monitor' = "over" /\ UNCHANGED <<turn, history>>

\* The call to Redis returns, or raises and the exception is swallowed.
PublishEnds ==
  /\ monitor = "publishing"
  /\ \/ turn < Len(PoolOrder) /\ Sample(turn + 1)
     \/ turn = Len(PoolOrder) /\ monitor' = "sleeping" /\ UNCHANGED <<turn, history>>

\* CancelledError is not an Exception: at whichever await, or before its first
\* step, the task is over.
TrackerCancelled ==
  /\ monitor # "over"
  /\ monitor' = "over"
  /\ UNCHANGED <<turn, history>>

Monitor == BeginRound \/ PublishEnds

-----------------------------------------------------------------------------
(* trend() *)

\* The sums of the first scores of s.
PartialSums(s) ==
  LET sum[i \in 0 .. Len(s)] == IF i = 0 THEN 0 ELSE sum[i - 1] + s[i]
  IN  sum

SumOf(s) == PartialSums(s)[Len(s)]

LastOf(s, n) == SubSeq(s, Len(s) - n + 1, Len(s))

\* Mutant: the older half begins, and ends, one second too late.
GainOverlaps(h) ==
  IF Len(h) < 2 * Recent THEN 0
  ELSE SumOf(LastOf(h, Recent)) - SumOf(SubSeq(LastOf(h, 2 * Recent), 2, Recent + 1))

\* How far the recent scores are above the older ones, times Recent.  With
\* fewer than 2 * Recent samples the recent ones are compared with themselves.
Gain(h) ==
  IF Len(h) < 2 * Recent THEN 0
  ELSE SumOf(LastOf(h, Recent)) - SumOf(SubSeq(LastOf(h, 2 * Recent), 1, Recent))

Trend(h) ==
  IF Gain(h) > Recent * Threshold THEN "improving"
  ELSE IF Gain(h) < -Recent * Threshold THEN "degrading"
  ELSE "stable"

-----------------------------------------------------------------------------
(* Properties *)

\* The samples of the pools are taken in rounds: only in the middle of a round,
\* or after it was cut short by the stop, is a pool one sample ahead of the
\* pools after it, so that the trends of two pools cover the same seconds
\* whichever calls to Redis fail.
RoundsAligned ==
  \A i, j \in DOMAIN PoolOrder :
    Len(history[PoolOrder[i]]) # Len(history[PoolOrder[j]]) =>
      /\ monitor \in {"publishing", "over"}
      /\ i < j => /\ i <= turn /\ turn < j
                  /\ Len(history[PoolOrder[i]]) = Len(history[PoolOrder[j]]) + 1

\* The trend of a history tells of its last seconds and of as many before them:
\* it is "improving" only if some score of the newer seconds is above one of the
\* older by more than the threshold, and surely if they all are; "degrading" the
\* other way round.  Before both halves are full it is neither.
TrendFits(h) ==
  LET n     == Len(h)
      Newer == n - Recent + 1 .. n
      Older == n - 2 * Recent + 1 .. n - Recent
      Above(i, j) == h[i] > h[j] + Threshold
  IN  IF n < 2 * Recent THEN Trend(h) = "stable"
      ELSE /\ Trend(h) = "improving" => \E i \in Newer, j \in Older : Above(i, j)
           /\ Trend(h) = "degrading" => \E i \in Newer, j \in Older : Above(j, i)
           /\ (\A i \in Newer, j \in Older : Above(i, j)) => Trend(h) = "improving"
           /\ (\A i \in Newer, j \in Older : Above(j, i)) => Trend(h) = "degrading"

\* Whenever GET /health/pools asks, in the middle of a round too, the trend of
\* each pool fits the scores that were sampled of it, however many seconds the
\* window has dropped.
TrendFollowsScores == \A p \in Tracked : TrendFits(history[p])
=============================================================================
