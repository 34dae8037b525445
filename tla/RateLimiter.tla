------------------------------ MODULE RateLimiter ------------------------------
(***************************************************************************)
(* check_rate_limit of app/ratelimit/limiter.py, for one user: the user's  *)
(* two sorted sets and notification flag in Redis, and the checks that the *)
(* user's concurrent requests make against them.                           *)
(*                                                                         *)
(* A check is two calls to Redis with an await each: a transaction that    *)
(* prunes and counts, and then, depending on the counts, one that records  *)
(* the request or a SETEX that marks the user as notified.  Between the    *)
(* two, other checks run.  A check slot is reused by later requests.       *)
(*                                                                         *)
(* Time is an integer clock shared by the server and Redis.  A check's     *)
(* timestamp is read before its first call and used by both, however late  *)
(* they reach Redis; no two checks of a user read the same time.           *)
(***************************************************************************)
EXTENDS Integers, FiniteSets

CONSTANTS
  Checks,      \* slots: how many requests of the user can be in flight
  LimitMin,    \* limits["per_min"] of the user's tier
  LimitDay,    \* limits["per_day"]; 0 is unlimited
  MinWindow,   \* 60
  DayWindow,   \* 86400
  MinTTL,      \* 120
  DayTTL,      \* 90000
  NotifyTTL,   \* 300
  Faulty,      \* may a call to Redis raise?
  MaxClock     \* bound on time

ASSUME LimiterAssumption ==
  /\ IsFiniteSet(Checks)
  /\ LimitMin \in Nat \ {0} /\ LimitDay \in Nat
  /\ MinWindow \in Nat \ {0} /\ DayWindow \in Nat \ {0}
  /\ MinTTL > MinWindow /\ DayTTL > DayWindow
  /\ MinTTL \in Nat /\ DayTTL \in Nat /\ NotifyTTL \in Nat \ {0}
  /\ Faulty \in BOOLEAN
  /\ MaxClock \in Nat

VARIABLES
  clock,
  pc,             \* check -> "idle" or the call it is waiting for
  at,             \* check -> its timestamp "now"
  verdict,        \* check -> how its last run ended
  zmin, zday,     \* the scores in the user's two sorted sets
  expMin, expDay, \* when the two keys expire
  notifiedUntil,  \* when the notification flag expires
  recorded,       \* history: the timestamps ever recorded
  notices         \* history: <<check, time, told>> of every time the flag was set

redisVars == <<zmin, zday, expMin, expDay, notifiedUntil>>
histVars  == <<recorded, notices>>
vars == <<clock, pc, at, verdict, redisVars, histVars>>

Verdicts == {"none", "allowed", "first", "silent", "raised"}

TypeOK ==
  /\ clock \in Nat
  /\ pc \in [Checks -> {"idle", "count", "record", "notify"}]
  /\ at \in [Checks -> 0 .. clock]
  /\ verdict \in [Checks -> Verdicts]
  /\ zmin \subseteq 1 .. clock /\ zday \subseteq 1 .. clock
  /\ expMin \in 0 .. clock + MinTTL /\ expDay \in 0 .. clock + DayTTL
  /\ notifiedUntil \in 0 .. clock + NotifyTTL
  /\ recorded \subseteq 1 .. clock
  /\ notices \subseteq Checks \X (1 .. clock) \X BOOLEAN

Init ==
  /\ clock = 1
  /\ pc = [c \in Checks |-> "idle"]
  /\ at = [c \in Checks |-> 0]
  /\ verdict = [c \in Checks |-> "none"]
  /\ zmin = {} /\ zday = {}
  /\ expMin = 0 /\ expDay = 0 /\ notifiedUntil = 0
  /\ recorded = {} /\ notices = {}

-----------------------------------------------------------------------------

Return(c, result) ==
  /\ pc' = [pc EXCEPT ![c] = "idle"]
  /\ verdict' = [verdict EXCEPT ![c] = result]

Start(c) ==
  /\ pc[c] = "idle"
  /\ \A d \in Checks : at[d] < clock
  /\ pc' = [pc EXCEPT ![c] = "count"]
  /\ at' = [at EXCEPT ![c] = clock]
  /\ verdict' = [verdict EXCEPT ![c] = "none"]
  /\ UNCHANGED <<clock, redisVars, histVars>>

\* The first transaction: ZREMRANGEBYSCORE up to and including now - window.
Within(scores, now, window) == {s \in scores : s > now - window}

\* Mutant: the minute window is counted without being pruned.
PruneDayOnly(c) ==
  /\ zday' = Within(zday, at[c], DayWindow)
  /\ UNCHANGED <<zmin, expMin, expDay, notifiedUntil>>

Prune(c) ==
  /\ zmin' = Within(zmin, at[c], MinWindow)
  /\ zday' = Within(zday, at[c], DayWindow)
  /\ UNCHANGED <<expMin, expDay, notifiedUntil>>

\* Mutant: one request above the day limit is let in.
ExceededDayLate(countMin, countDay) ==
  \/ countMin >= LimitMin
  \/ LimitDay > 0 /\ countDay > LimitDay

Exceeded(countMin, countDay) ==
  \/ countMin >= LimitMin
  \/ LimitDay > 0 /\ countDay >= LimitDay

\* Mutant: everybody counts as notified.
NotifiedAlways == TRUE

Notified == clock < notifiedUntil

CountAllows(c) ==
  /\ pc[c] = "count"
  /\ Prune(c)
  /\ ~Exceeded(Cardinality(zmin'), Cardinality(zday'))
  /\ pc' = [pc EXCEPT ![c] = "record"]
  /\ UNCHANGED <<clock, at, verdict, histVars>>

CountRejectsFirst(c) ==
  /\ pc[c] = "count"
  /\ Prune(c)
  /\ Exceeded(Cardinality(zmin'), Cardinality(zday'))
  /\ ~Notified
  /\ pc' = [pc EXCEPT ![c] = "notify"]
  /\ UNCHANGED <<clock, at, verdict, histVars>>

CountRejectsAgain(c) ==
  /\ pc[c] = "count"
  /\ Prune(c)
  /\ Exceeded(Cardinality(zmin'), Cardinality(zday'))
  /\ Notified
  /\ Return(c, "silent")
  /\ UNCHANGED <<clock, at, histVars>>

\* Mutants: the request is recorded with the next tick's timestamp; keys expire
\* long before their windows have passed.
StampRoundsUp(c)  == at[c] + 1
ExpirySoon(ttl)   == clock + 2

Stamp(c)    == at[c]
Expiry(ttl) == clock + ttl

\* The second transaction: ZADD and EXPIRE on both keys.
Add(c) ==
  /\ zmin' = zmin \cup {Stamp(c)}
  /\ zday' = zday \cup {Stamp(c)}
  /\ expMin' = Expiry(MinTTL)
  /\ expDay' = Expiry(DayTTL)
  /\ recorded' = recorded \cup {Stamp(c)}
  /\ UNCHANGED notifiedUntil

Record(c) ==
  /\ pc[c] = "record"
  /\ Add(c)
  /\ Return(c, "allowed")
  /\ UNCHANGED <<clock, at, notices>>

\* Mutant: the flag lives for the minute window, not for the period.
SetNotifiedBriefly(c, told) ==
  /\ notifiedUntil' = clock + MinWindow
  /\ notices' = notices \cup {<<c, clock, told>>}
  /\ UNCHANGED <<zmin, zday, expMin, expDay, recorded>>

SetNotified(c, told) ==
  /\ notifiedUntil' = clock + NotifyTTL
  /\ notices' = notices \cup {<<c, clock, told>>}
  /\ UNCHANGED <<zmin, zday, expMin, expDay, recorded>>

Notify(c) ==
  /\ pc[c] = "notify"
  /\ SetNotified(c, TRUE)
  /\ Return(c, "first")
  /\ UNCHANGED <<clock, at>>

\* A call raises: Redis did all of it, or nothing.
Raise(c) ==
  /\ Faulty
  /\ pc[c] # "idle"
  /\ \/ UNCHANGED <<redisVars, histVars>>
     \/ pc[c] = "count" /\ Prune(c) /\ UNCHANGED histVars
     \/ pc[c] = "record" /\ Add(c) /\ UNCHANGED notices
     \/ pc[c] = "notify" /\ SetNotified(c, FALSE)
  /\ Return(c, "raised")
  /\ UNCHANGED <<clock, at>>

\* Redis drops a key when its time has come.
Tick ==
  /\ clock < MaxClock
  /\ clock' = clock + 1
  /\ zmin' = IF clock + 1 < expMin THEN zmin ELSE {}
  /\ zday' = IF clock + 1 < expDay THEN zday ELSE {}
  /\ UNCHANGED <<pc, at, verdict, expMin, expDay, notifiedUntil, histVars>>

\* The end of bounded time.
TimeUp ==
  /\ clock = MaxClock
  /\ \A c \in Checks : pc[c] = "idle"
  /\ UNCHANGED vars

Check(c) ==
  \/ Start(c) \/ CountAllows(c) \/ CountRejectsFirst(c) \/ CountRejectsAgain(c)
  \/ Record(c) \/ Notify(c) \/ Raise(c)

Next == (\E c \in Checks : Check(c)) \/ Tick \/ TimeUp

Spec == Init /\ [][Next]_vars

-----------------------------------------------------------------------------
(* Properties *)

Recording == {c \in Checks : pc[c] = "record"}

\* The minute window never holds, and the checks that were already admitted
\* can never bring it to, more than the limit and one per concurrent check
\* beyond the first; nor does the day window of a tier that has a daily limit.
\* With one check at a time the limits are exact.
OverAdmissionBounded ==
  /\ Cardinality(zmin) + Cardinality(Recording) <= LimitMin + Cardinality(Checks) - 1
  /\ LimitDay > 0 =>
       Cardinality(zday) + Cardinality(Recording) <= LimitDay + Cardinality(Checks) - 1

\* Seen from outside, no stretch of one window's length ever contains more
\* than this many admitted requests: the limit; one more per concurrent check
\* beyond the first, which did not see the other's record; and one more per
\* check, which reached Redis so late that the window it should have counted
\* was pruned with a newer timestamp, or had expired with its key.
WindowBounded ==
  \A start \in recorded :
    Cardinality({s \in recorded : start <= s /\ s < start + MinWindow})
      <= LimitMin + 2 * Cardinality(Checks) - 1

\* Nobody is turned away below the limit: when a check is rejected, that many
\* requests were recorded in its minute or its day window, or after it began.
RejectionJustified ==
  \A c \in Checks :
    pc[c] = "notify" \/ verdict[c] \in {"first", "silent"} =>
      Exceeded(Cardinality(Within(recorded, at[c], MinWindow)),
               Cardinality(Within(recorded, at[c], DayWindow)))

\* Requests made one after the other are marked as notified, and sent the
\* message about the limit, at most once per notification period, whatever
\* others run beside them and whichever calls fail.
OneNoticePerPeriod ==
  \A n \in notices, m \in notices :
    n[1] = m[1] /\ n # m => n[2] >= m[2] + NotifyTTL \/ m[2] >= n[2] + NotifyTTL

\* A user who is limited without a word was sent the message within the period,
\* or would have been had the SETEX that was applied not raised.
SilentAfterNotice ==
  \A c \in Checks :
    verdict[c] = "silent" => \E n \in notices : n[2] + NotifyTTL > at[c]
=============================================================================
