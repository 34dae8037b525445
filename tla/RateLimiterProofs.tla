--------------------------- MODULE RateLimiterProofs ---------------------------
(***************************************************************************)
(* What RateLimiter promises for any number of concurrent checks, any      *)
(* limits, windows and expiry times, and for ever.                         *)
(***************************************************************************)
EXTENDS RateLimiter, FiniteSetTheorems, TLAPS

\* A check that is under way has read its timestamp.
TypeInv == TypeOK /\ \A c \in Checks : pc[c] # "idle" => at[c] >= 1

\* Pruning a window drops scores and adds none.
LEMMA WithinShrinks ==
  ASSUME NEW S, NEW now, NEW window
  PROVE  Within(S, now, window) \subseteq S
BY DEF Within

LEMMA InitTypes == Init => TypeInv
BY LimiterAssumption DEF Init, TypeInv, TypeOK, Verdicts

LEMMA PruneTypes ==
  ASSUME TypeInv, NEW c \in Checks, Prune(c), UNCHANGED clock
  PROVE  /\ zmin' \subseteq 1 .. clock' /\ zday' \subseteq 1 .. clock'
         /\ expMin' \in 0 .. clock' + MinTTL /\ expDay' \in 0 .. clock' + DayTTL
         /\ notifiedUntil' \in 0 .. clock' + NotifyTTL
BY WithinShrinks DEF TypeInv, TypeOK, Prune

LEMMA AddTypes ==
  ASSUME TypeInv, NEW c \in Checks, pc[c] # "idle", Add(c), UNCHANGED clock
  PROVE  /\ zmin' \subseteq 1 .. clock' /\ zday' \subseteq 1 .. clock'
         /\ expMin' \in 0 .. clock' + MinTTL /\ expDay' \in 0 .. clock' + DayTTL
         /\ notifiedUntil' \in 0 .. clock' + NotifyTTL
         /\ recorded' \subseteq 1 .. clock'
<1>1. Stamp(c) \in 1 .. clock
  BY DEF TypeInv, TypeOK, Stamp
<1>2. zmin' \subseteq 1 .. clock' /\ zday' \subseteq 1 .. clock' /\ recorded' \subseteq 1 .. clock'
  BY <1>1 DEF TypeInv, TypeOK, Add
<1>3. expMin' \in 0 .. clock' + MinTTL /\ expDay' \in 0 .. clock' + DayTTL
  BY LimiterAssumption DEF TypeInv, TypeOK, Add, Expiry
<1>4. notifiedUntil' \in 0 .. clock' + NotifyTTL
  BY DEF TypeInv, TypeOK, Add
<1> QED
  BY <1>2, <1>3, <1>4

LEMMA NoticeTypes ==
  ASSUME TypeInv, NEW c \in Checks, NEW told \in BOOLEAN, SetNotified(c, told), UNCHANGED clock,
         clock >= 1
  PROVE  /\ notifiedUntil' \in 0 .. clock' + NotifyTTL
         /\ notices' \subseteq Checks \X (1 .. clock') \X BOOLEAN
         /\ UNCHANGED <<zmin, zday, expMin, expDay, recorded>>
BY LimiterAssumption DEF TypeInv, TypeOK, SetNotified

LEMMA NextTypes == TypeInv /\ [Next]_vars => TypeInv'
<1> SUFFICES ASSUME TypeInv, [Next]_vars PROVE TypeInv'
  OBVIOUS
<1> USE LimiterAssumption
<1>1. ASSUME NEW c \in Checks, Start(c) PROVE TypeInv'
  BY <1>1 DEF TypeInv, TypeOK, Start, redisVars, histVars, Verdicts
<1>2. ASSUME NEW c \in Checks, CountAllows(c) \/ CountRejectsFirst(c) PROVE TypeInv'
  <2>1. Prune(c) /\ UNCHANGED clock
    BY <1>2 DEF CountAllows, CountRejectsFirst
  <2> QED
    BY <1>2, <2>1, PruneTypes DEF TypeInv, TypeOK, CountAllows, CountRejectsFirst, histVars
<1>3. ASSUME NEW c \in Checks, CountRejectsAgain(c) PROVE TypeInv'
  <2>1. Prune(c) /\ UNCHANGED clock
    BY <1>3 DEF CountRejectsAgain
  <2> QED
    BY <1>3, <2>1, PruneTypes DEF TypeInv, TypeOK, CountRejectsAgain, Return, histVars, Verdicts
<1>4. ASSUME NEW c \in Checks, Record(c) PROVE TypeInv'
  <2>1. Add(c) /\ UNCHANGED clock /\ pc[c] # "idle"
    BY <1>4 DEF Record
  <2> QED
    BY <1>4, <2>1, AddTypes DEF TypeInv, TypeOK, Record, Return, Verdicts
<1>5. ASSUME NEW c \in Checks, Notify(c) PROVE TypeInv'
  <2>1. SetNotified(c, TRUE) /\ UNCHANGED clock
    BY <1>5 DEF Notify
  <2>2. clock >= 1
    BY <1>5 DEF Notify, TypeInv, TypeOK
  <2> QED
    BY <1>5, <2>1, <2>2, NoticeTypes DEF TypeInv, TypeOK, Notify, Return, Verdicts
<1>6. ASSUME NEW c \in Checks, Raise(c) PROVE TypeInv'
  <2> USE DEF TypeInv, TypeOK, Raise, Return, Verdicts, redisVars, histVars
  <2>1. CASE UNCHANGED <<redisVars, histVars>>
    BY <1>6, <2>1
  <2>2. CASE Prune(c) /\ UNCHANGED histVars
    BY <1>6, <2>2, PruneTypes
  <2>3. CASE Add(c) /\ UNCHANGED notices
    BY <1>6, <2>3, AddTypes
  <2>4. CASE SetNotified(c, FALSE)
    <3>1. clock >= 1
      BY <1>6
    <3> QED
      BY <1>6, <2>4, <3>1, NoticeTypes
  <2> QED
    BY <1>6, <2>1, <2>2, <2>3, <2>4
<1>7. CASE Tick
  BY <1>7 DEF TypeInv, TypeOK, Tick, histVars
<1>8. CASE UNCHANGED vars \/ TimeUp
  BY <1>8 DEF TypeInv, TypeOK, vars, redisVars, histVars, TimeUp
<1> QED
  BY <1>1, <1>2, <1>3, <1>4, <1>5, <1>6, <1>7, <1>8 DEF Next, Check

\* The types of the limiter's state (limiter.py 29-106).
THEOREM TypesHold == Spec => []TypeOK
<1>1. TypeInv => TypeOK
  BY DEF TypeInv
<1> QED
  BY <1>1, InitTypes, NextTypes, PTL DEF Spec

-----------------------------------------------------------------------------
(* The windows.  Seen from them there are three kinds of steps: one that adds *)
(* nothing, one that turns an admitted check into a score, and one that       *)
(* admits a check.                                                            *)

AddsNothing ==
  zmin' \subseteq zmin /\ zday' \subseteq zday /\ Recording' \subseteq Recording

Records(c) ==
  /\ c \in Recording /\ Recording' = Recording \ {c}
  /\ zmin' = zmin \cup {Stamp(c)} /\ zday' = zday \cup {Stamp(c)}

Admits == ~Exceeded(Cardinality(zmin'), Cardinality(zday'))

LEMMA ThreeKindsOfSteps ==
  ASSUME TypeInv, [Next]_vars
  PROVE  AddsNothing \/ (\E c \in Checks : Records(c)) \/ Admits
<1> USE DEF Recording
<1>1. ASSUME NEW c \in Checks, Start(c) PROVE AddsNothing
  BY <1>1 DEF AddsNothing, Start, redisVars, TypeInv, TypeOK
<1>2. ASSUME NEW c \in Checks, CountAllows(c) PROVE Admits
  BY <1>2 DEF CountAllows, Admits
<1>3. ASSUME NEW c \in Checks, CountRejectsFirst(c) \/ CountRejectsAgain(c) PROVE AddsNothing
  BY <1>3, WithinShrinks
     DEF AddsNothing, CountRejectsFirst, CountRejectsAgain, Prune, Return, TypeInv, TypeOK
<1>4. ASSUME NEW c \in Checks, Record(c) PROVE Records(c)
  BY <1>4 DEF Records, Record, Add, Return, TypeInv, TypeOK
<1>5. ASSUME NEW c \in Checks, Notify(c) PROVE AddsNothing
  BY <1>5 DEF AddsNothing, Notify, SetNotified, Return, TypeInv, TypeOK
<1>6. ASSUME NEW c \in Checks, Raise(c) PROVE AddsNothing \/ Records(c)
  <2>1. Recording' = Recording \ {c}
    BY <1>6 DEF Raise, Return, TypeInv, TypeOK
  <2>2. CASE pc[c] = "record" /\ Add(c)
    BY <2>1, <2>2 DEF Records, Add
  <2>3. CASE UNCHANGED <<redisVars, histVars>>
    BY <2>1, <2>3 DEF AddsNothing, redisVars
  <2>4. CASE Prune(c)
    BY <2>1, <2>4, WithinShrinks DEF AddsNothing, Prune
  <2>5. CASE SetNotified(c, FALSE)
    BY <2>1, <2>5 DEF AddsNothing, SetNotified
  <2> QED
    BY <1>6, <2>2, <2>3, <2>4, <2>5 DEF Raise
<1>7. CASE Tick
  BY <1>7 DEF AddsNothing, Tick
<1>8. CASE UNCHANGED vars \/ TimeUp
  BY <1>8 DEF AddsNothing, vars, redisVars, TimeUp
<1> QED
  BY <1>1, <1>2, <1>3, <1>4, <1>5, <1>6, <1>7, <1>8 DEF Next, Check

\* What the kinds of steps do to a window and the admitted checks together.
LEMMA SumShrinks ==
  ASSUME NEW Z, NEW R, IsFiniteSet(Z), IsFiniteSet(R),
         NEW Z2 \in SUBSET Z, NEW R2 \in SUBSET R
  PROVE  Cardinality(Z2) + Cardinality(R2) <= Cardinality(Z) + Cardinality(R)
<1>1. Cardinality(Z2) <= Cardinality(Z) /\ Cardinality(R2) <= Cardinality(R)
  BY FS_Subset
<1>2. IsFiniteSet(Z2) /\ IsFiniteSet(R2)
  BY FS_Subset
<1>3. /\ Cardinality(Z2) \in Nat /\ Cardinality(Z) \in Nat
      /\ Cardinality(R2) \in Nat /\ Cardinality(R) \in Nat
  BY <1>2, FS_CardinalityType
<1> QED
  BY <1>1, <1>3

LEMMA SumKept ==
  ASSUME NEW Z, NEW R, IsFiniteSet(Z), IsFiniteSet(R), NEW c \in R, NEW s
  PROVE  Cardinality(Z \cup {s}) + Cardinality(R \ {c}) <= Cardinality(Z) + Cardinality(R)
<1>1. Cardinality(Z \cup {s}) \in {Cardinality(Z), Cardinality(Z) + 1}
  BY FS_AddElement
<1>2. Cardinality(R \ {c}) = Cardinality(R) - 1
  BY FS_RemoveElement
<1>3. Cardinality(Z) \in Nat /\ Cardinality(R) \in Nat
  BY FS_CardinalityType
<1> QED
  BY <1>1, <1>2, <1>3

\* What is counted is finite.
WindowsFinite ==
  /\ IsFiniteSet(zmin) /\ IsFiniteSet(zday) /\ IsFiniteSet(Recording)
  /\ Cardinality(Recording) <= Cardinality(Checks)
  /\ Cardinality(Recording) \in Nat /\ Cardinality(Checks) \in Nat
  /\ Cardinality(zmin) \in Nat /\ Cardinality(zday) \in Nat

LEMMA SetsFinite == TypeInv => WindowsFinite
<1> SUFFICES ASSUME TypeInv PROVE WindowsFinite
  OBVIOUS
<1>0. clock \in Int
  BY DEF TypeInv, TypeOK
<1>1. IsFiniteSet(1 .. clock)
  BY <1>0, FS_Interval
<1>2. IsFiniteSet(zmin) /\ IsFiniteSet(zday)
  BY <1>1, FS_Subset DEF TypeInv, TypeOK
<1>3. IsFiniteSet(Recording) /\ Cardinality(Recording) <= Cardinality(Checks)
  BY LimiterAssumption, FS_Subset DEF Recording
<1> QED
  BY <1>2, <1>3, LimiterAssumption, FS_CardinalityType DEF WindowsFinite

\* In the initial state nothing is recorded or admitted.
LEMMA InitWindows == Init => OverAdmissionBounded
<1> SUFFICES ASSUME Init PROVE OverAdmissionBounded
  OBVIOUS
<1>1. zmin = {} /\ zday = {} /\ Recording = {}
  BY DEF Init, Recording
<1>2. Cardinality({}) = 0
  BY FS_EmptySet
<1>3. Cardinality(Checks) \in Nat
  BY LimiterAssumption, FS_CardinalityType
<1> QED
  BY <1>1, <1>2, <1>3, LimiterAssumption DEF OverAdmissionBounded

LEMMA NextWindows ==
  ASSUME TypeInv, TypeInv', [Next]_vars, OverAdmissionBounded
  PROVE  OverAdmissionBounded'
<1>a. WindowsFinite /\ WindowsFinite'
  BY SetsFinite, PTL
<1> USE LimiterAssumption, <1>a DEF OverAdmissionBounded, WindowsFinite
<1>1. CASE AddsNothing
  <2>1. /\ Cardinality(zmin') + Cardinality(Recording') <= Cardinality(zmin) + Cardinality(Recording)
        /\ Cardinality(zday') + Cardinality(Recording') <= Cardinality(zday) + Cardinality(Recording)
    BY <1>1, SumShrinks DEF AddsNothing
  <2> QED
    BY <2>1
<1>2. ASSUME NEW c \in Checks, Records(c) PROVE OverAdmissionBounded'
  <2>1. /\ Cardinality(zmin') + Cardinality(Recording') <= Cardinality(zmin) + Cardinality(Recording)
        /\ Cardinality(zday') + Cardinality(Recording') <= Cardinality(zday) + Cardinality(Recording)
    BY <1>2, SumKept DEF Records
  <2> QED
    BY <2>1
<1>3. CASE Admits
  <2>1. Cardinality(zmin') < LimitMin /\ (LimitDay > 0 => Cardinality(zday') < LimitDay)
    BY <1>3 DEF Admits, Exceeded
  <2> QED
    BY <2>1
<1> QED
  BY <1>1, <1>2, <1>3, ThreeKindsOfSteps

\* However the checks of a user interleave, fail or are delayed, the minute
\* window and the checks admitted to it never exceed the limit by more than one
\* per check beyond the first, nor do the day window and they (limiter.py 47-75,
\* 93-99).
THEOREM OverAdmissionBoundedHolds == Spec => []OverAdmissionBounded
<1> DEFINE Inv == TypeInv /\ OverAdmissionBounded
<1>1. Init => Inv
  BY InitTypes, InitWindows
<1>2. Inv /\ [Next]_vars => Inv'
  BY NextTypes, NextWindows
<1>3. Inv => OverAdmissionBounded
  OBVIOUS
<1> QED
  BY <1>1, <1>2, <1>3, PTL DEF Spec

-----------------------------------------------------------------------------
(* The notices. *)

\* The flag outlives every notice, and a check on its way to set it found it
\* expired: the earlier notices of its own slot are a period old.
NoticeInv ==
  /\ \A n \in notices : n[2] + NotifyTTL <= notifiedUntil
  /\ notifiedUntil > 0 => \E n \in notices : n[2] + NotifyTTL = notifiedUntil
  /\ \A c \in Checks : pc[c] = "notify" =>
       \A n \in notices : n[1] = c => n[2] + NotifyTTL <= clock

Notifies(c, told) ==
  /\ pc[c] = "notify" /\ pc' = [pc EXCEPT ![c] = "idle"]
  /\ SetNotified(c, told)
  /\ UNCHANGED <<clock, at>> /\ verdict'[c] # "silent"
  /\ \A d \in Checks \ {c} : verdict'[d] = verdict[d]

NotifiesNobody ==
  /\ UNCHANGED <<notices, notifiedUntil>> /\ clock <= clock'
  /\ \A c \in Checks :
       /\ pc'[c] = "notify" => pc[c] = "notify" \/ notifiedUntil <= clock
       /\ verdict'[c] = "silent" =>
            at'[c] = at[c] /\ (verdict[c] = "silent" \/ clock < notifiedUntil)

LEMMA TwoKindsOfSteps ==
  ASSUME TypeInv, [Next]_vars
  PROVE  NotifiesNobody \/ \E c \in Checks, told \in BOOLEAN : Notifies(c, told)
<1> USE DEF TypeInv, TypeOK, Return
<1>1. ASSUME NEW c \in Checks, Start(c) PROVE NotifiesNobody
  BY <1>1 DEF NotifiesNobody, Start, redisVars, histVars
<1>2. ASSUME NEW c \in Checks, CountAllows(c) PROVE NotifiesNobody
  BY <1>2 DEF NotifiesNobody, CountAllows, Prune, histVars
<1>3. ASSUME NEW c \in Checks, CountRejectsFirst(c) PROVE NotifiesNobody
  BY <1>3 DEF NotifiesNobody, CountRejectsFirst, Notified, Prune, histVars
<1>4. ASSUME NEW c \in Checks, CountRejectsAgain(c) PROVE NotifiesNobody
  BY <1>4 DEF NotifiesNobody, CountRejectsAgain, Notified, Prune, histVars
<1>5. ASSUME NEW c \in Checks, Record(c) PROVE NotifiesNobody
  BY <1>5 DEF NotifiesNobody, Record, Add
<1>6. ASSUME NEW c \in Checks, Notify(c) PROVE Notifies(c, TRUE)
  BY <1>6 DEF Notifies, Notify
<1>7. ASSUME NEW c \in Checks, Raise(c) PROVE NotifiesNobody \/ Notifies(c, FALSE)
  <2>1. /\ pc' = [pc EXCEPT ![c] = "idle"] /\ verdict' = [verdict EXCEPT ![c] = "raised"]
        /\ UNCHANGED <<clock, at>>
    BY <1>7 DEF Raise
  <2>2. CASE pc[c] = "notify" /\ SetNotified(c, FALSE)
    BY <2>1, <2>2 DEF Notifies
  <2>3. CASE UNCHANGED <<notices, notifiedUntil>>
    <3>1. clock <= clock'
      BY <2>1
    <3>2. ASSUME NEW d \in Checks
          PROVE  /\ pc'[d] = "notify" => pc[d] = "notify"
                 /\ verdict'[d] = "silent" => verdict[d] = "silent"
      BY <2>1
    <3> QED
      BY <2>1, <2>3, <3>1, <3>2 DEF NotifiesNobody
  <2>4. \/ pc[c] = "notify" /\ SetNotified(c, FALSE)
        \/ UNCHANGED <<notices, notifiedUntil>>
    BY <1>7 DEF Raise, Prune, Add, redisVars, histVars
  <2> QED
    BY <2>2, <2>3, <2>4
<1>8. CASE Tick
  BY <1>8 DEF NotifiesNobody, Tick, histVars
<1>9. CASE UNCHANGED vars \/ TimeUp
  BY <1>9 DEF NotifiesNobody, vars, redisVars, histVars, TimeUp
<1> QED
  BY <1>1, <1>2, <1>3, <1>4, <1>5, <1>6, <1>7, <1>8, <1>9 DEF Next, Check

LEMMA NextNotices ==
  ASSUME TypeInv, TypeInv', [Next]_vars, NoticeInv, OneNoticePerPeriod, SilentAfterNotice
  PROVE  NoticeInv' /\ OneNoticePerPeriod' /\ SilentAfterNotice'
<1> USE LimiterAssumption DEF TypeInv, TypeOK
<1>1. CASE NotifiesNobody
  <2>1. NoticeInv'
    BY <1>1 DEF NotifiesNobody, NoticeInv
  <2>2. OneNoticePerPeriod'
    BY <1>1 DEF NotifiesNobody, OneNoticePerPeriod
  <2>3. ASSUME NEW c \in Checks, verdict'[c] = "silent"
        PROVE  \E n \in notices' : n[2] + NotifyTTL > at'[c]
    <3>1. CASE verdict[c] = "silent"
      BY <1>1, <2>3, <3>1 DEF NotifiesNobody, SilentAfterNotice
    <3>2. CASE clock < notifiedUntil
      <4>1. PICK n \in notices : n[2] + NotifyTTL = notifiedUntil
        BY <3>2 DEF NoticeInv
      <4> QED
        BY <1>1, <2>3, <3>2, <4>1 DEF NotifiesNobody
    <3> QED
      BY <1>1, <2>3, <3>1, <3>2 DEF NotifiesNobody
  <2> QED
    BY <2>1, <2>2, <2>3 DEF SilentAfterNotice
<1>2. ASSUME NEW c \in Checks, NEW told \in BOOLEAN, Notifies(c, told)
      PROVE  NoticeInv' /\ OneNoticePerPeriod' /\ SilentAfterNotice'
  <2> DEFINE new == <<c, clock, told>>
  <2>1. notices' = notices \cup {new} /\ notifiedUntil' = clock + NotifyTTL
    BY <1>2 DEF Notifies, SetNotified
  <2>2. \A n \in notices : n[2] \in 1 .. clock
    OBVIOUS
  <2>3. \A n \in notices : n[1] = c => n[2] + NotifyTTL <= clock
    BY <1>2 DEF Notifies, NoticeInv
  <2>4. NoticeInv'
    <3>1. \A n \in notices' : n[2] + NotifyTTL <= notifiedUntil'
      BY <2>1, <2>2
    <3>2. new \in notices' /\ new[2] + NotifyTTL = notifiedUntil'
      BY <2>1
    <3>3. ASSUME NEW d \in Checks, pc'[d] = "notify", NEW n \in notices', n[1] = d
          PROVE  n[2] + NotifyTTL <= clock'
      <4>1. d # c /\ pc[d] = "notify" /\ clock' = clock
        BY <1>2, <3>3 DEF Notifies
      <4>2. n \in notices
        BY <2>1, <3>3, <4>1
      <4> QED
        BY <3>3, <4>1, <4>2 DEF NoticeInv
    <3> QED
      BY <3>1, <3>2, <3>3 DEF NoticeInv
  <2>5. OneNoticePerPeriod'
    BY <2>1, <2>2, <2>3 DEF OneNoticePerPeriod
  <2>6. ASSUME NEW d \in Checks, verdict'[d] = "silent"
        PROVE  \E n \in notices' : n[2] + NotifyTTL > at'[d]
    BY <1>2, <2>1, <2>6 DEF Notifies, SilentAfterNotice
  <2> QED
    BY <2>4, <2>5, <2>6 DEF SilentAfterNotice
<1> QED
  BY <1>1, <1>2, TwoKindsOfSteps

LEMMA NoticesPaced == Spec => [](OneNoticePerPeriod /\ SilentAfterNotice)
<1> DEFINE Inv == TypeInv /\ NoticeInv /\ OneNoticePerPeriod /\ SilentAfterNotice
<1>1. Init => Inv
  <2>1. Init => NoticeInv /\ OneNoticePerPeriod /\ SilentAfterNotice
    BY DEF Init, NoticeInv, OneNoticePerPeriod, SilentAfterNotice
  <2> QED
    BY <2>1, InitTypes
<1>2. Inv /\ [Next]_vars => Inv'
  BY NextTypes, NextNotices
<1>3. Inv => OneNoticePerPeriod /\ SilentAfterNotice
  OBVIOUS
<1> QED
  BY <1>1, <1>2, <1>3, PTL DEF Spec

\* Whichever checks run beside it and whichever calls raise, a slot whose
\* requests come one after the other is sent at most one message about the
\* limit per period (limiter.py 77-91).
THEOREM OneNoticePerPeriodHolds == Spec => []OneNoticePerPeriod
BY NoticesPaced, PTL

\* Nobody is limited in silence without a notice set in the period before
\* (limiter.py 77-91).
THEOREM SilentAfterNoticeHolds == Spec => []SilentAfterNotice
BY NoticesPaced, PTL

-----------------------------------------------------------------------------
(* The rejections. *)

\* A window holds nothing that was not recorded.
Kept == zmin \subseteq recorded /\ zday \subseteq recorded

JustifiedBy(S, T, now) ==
  Exceeded(Cardinality(Within(S, now, MinWindow)), Cardinality(Within(T, now, DayWindow)))

\* Counting more can only exceed more.
LEMMA JustificationGrows ==
  ASSUME NEW U, IsFiniteSet(U), NEW S \in SUBSET U, NEW T \in SUBSET U, NEW now,
         JustifiedBy(S, T, now)
  PROVE  JustifiedBy(U, U, now)
<1>1. ASSUME NEW A \in SUBSET U, NEW window
      PROVE  /\ Cardinality(Within(A, now, window)) <= Cardinality(Within(U, now, window))
             /\ Cardinality(Within(A, now, window)) \in Nat
             /\ Cardinality(Within(U, now, window)) \in Nat
  <2>1. Within(A, now, window) \subseteq Within(U, now, window)
    BY DEF Within
  <2>2. IsFiniteSet(Within(U, now, window))
    BY WithinShrinks, FS_Subset
  <2> QED
    BY <2>1, <2>2, FS_Subset, FS_CardinalityType
<1>2. /\ Cardinality(Within(S, now, MinWindow)) <= Cardinality(Within(U, now, MinWindow))
      /\ Cardinality(Within(S, now, MinWindow)) \in Nat
      /\ Cardinality(Within(U, now, MinWindow)) \in Nat
  BY <1>1
<1>3. /\ Cardinality(Within(T, now, DayWindow)) <= Cardinality(Within(U, now, DayWindow))
      /\ Cardinality(Within(T, now, DayWindow)) \in Nat
      /\ Cardinality(Within(U, now, DayWindow)) \in Nat
  BY <1>1
<1> QED
  BY <1>2, <1>3, LimiterAssumption DEF JustifiedBy, Exceeded

Rejected(c) == pc[c] = "notify" \/ verdict[c] \in {"first", "silent"}

\* No step forgets a recorded request, and a check that a step rejects counted
\* the windows as they were before the step.
RejectsRightly ==
  /\ recorded \subseteq recorded'
  /\ \A c \in Checks : Rejected(c)' =>
       at'[c] = at[c] /\ (Rejected(c) \/ JustifiedBy(zmin, zday, at[c]))

LEMMA StepRejectsRightly ==
  ASSUME TypeInv, [Next]_vars
  PROVE  RejectsRightly /\ (Kept => Kept')
<1> USE DEF TypeInv, TypeOK, Return, Rejected
<1>1. ASSUME NEW c \in Checks, Start(c) PROVE RejectsRightly /\ (Kept => Kept')
  BY <1>1 DEF RejectsRightly, Kept, Start, redisVars, histVars
<1>2. ASSUME NEW c \in Checks, Prune(c), UNCHANGED histVars PROVE Kept => Kept'
  BY <1>2, WithinShrinks DEF Kept, Prune, histVars
<1>3. ASSUME NEW c \in Checks, CountAllows(c) PROVE RejectsRightly /\ (Kept => Kept')
  BY <1>3, <1>2 DEF RejectsRightly, CountAllows, histVars
<1>4. ASSUME NEW c \in Checks, CountRejectsFirst(c) \/ CountRejectsAgain(c)
      PROVE  RejectsRightly /\ (Kept => Kept')
  <2>1. JustifiedBy(zmin, zday, at[c])
    BY <1>4 DEF CountRejectsFirst, CountRejectsAgain, Prune, JustifiedBy
  <2> QED
    BY <1>4, <1>2, <2>1 DEF RejectsRightly, CountRejectsFirst, CountRejectsAgain, histVars
<1>5. ASSUME NEW c \in Checks, Record(c) PROVE RejectsRightly /\ (Kept => Kept')
  BY <1>5 DEF RejectsRightly, Kept, Record, Add
<1>6. ASSUME NEW c \in Checks, Notify(c) PROVE RejectsRightly /\ (Kept => Kept')
  BY <1>6 DEF RejectsRightly, Kept, Notify, SetNotified
<1>7. ASSUME NEW c \in Checks, Raise(c) PROVE RejectsRightly /\ (Kept => Kept')
  <2>1. /\ pc' = [pc EXCEPT ![c] = "idle"] /\ verdict' = [verdict EXCEPT ![c] = "raised"]
        /\ UNCHANGED at
    BY <1>7 DEF Raise
  <2>2. recorded \subseteq recorded'
    BY <1>7 DEF Raise, Add, SetNotified, histVars
  <2>3. \A d \in Checks : Rejected(d)' => Rejected(d)
    BY <2>1
  <2>4. Kept => Kept'
    BY <1>7, <1>2 DEF Raise, Add, SetNotified, Kept, redisVars, histVars
  <2> QED
    BY <2>1, <2>2, <2>3, <2>4 DEF RejectsRightly
<1>8. CASE Tick
  BY <1>8 DEF RejectsRightly, Kept, Tick, histVars
<1>9. CASE UNCHANGED vars \/ TimeUp
  BY <1>9 DEF RejectsRightly, Kept, vars, redisVars, histVars, TimeUp
<1> QED
  BY <1>1, <1>3, <1>4, <1>5, <1>6, <1>7, <1>8, <1>9 DEF Next, Check

LEMMA NextRejections ==
  ASSUME TypeInv, TypeInv', [Next]_vars, Kept, RejectionJustified
  PROVE  Kept' /\ RejectionJustified'
<1>1. RejectsRightly /\ Kept'
  BY StepRejectsRightly
<1>2. clock' \in Int /\ recorded' \subseteq 1 .. clock'
  BY DEF TypeInv, TypeOK
<1>3. IsFiniteSet(recorded')
  <2>1. IsFiniteSet(1 .. clock')
    BY <1>2, FS_Interval
  <2> QED
    BY <1>2, <2>1, FS_Subset
<1>4. ASSUME NEW c \in Checks, Rejected(c)' PROVE JustifiedBy(recorded', recorded', at'[c])
  <2>1. CASE Rejected(c)
    <3>1. JustifiedBy(recorded, recorded, at[c])
      BY <2>1 DEF RejectionJustified, Rejected, JustifiedBy
    <3> QED
      BY <1>1, <1>3, <1>4, <3>1, JustificationGrows DEF RejectsRightly
  <2>2. CASE JustifiedBy(zmin, zday, at[c])
    <3>1. zmin \subseteq recorded' /\ zday \subseteq recorded'
      BY <1>1 DEF RejectsRightly, Kept
    <3> QED
      BY <1>1, <1>3, <1>4, <2>2, <3>1, JustificationGrows DEF RejectsRightly
  <2> QED
    BY <1>1, <1>4, <2>1, <2>2 DEF RejectsRightly
<1> QED
  BY <1>1, <1>4 DEF RejectionJustified, Rejected, JustifiedBy

\* Nobody is turned away whose recorded requests do not fill a window, however
\* the checks interleave and however early the keys expire (limiter.py 47-91).
THEOREM RejectionsJustified == Spec => []RejectionJustified
<1> DEFINE Inv == TypeInv /\ Kept /\ RejectionJustified
<1>1. Init => Inv
  <2>1. Init => Kept /\ RejectionJustified
    BY DEF Init, Kept, RejectionJustified
  <2> QED
    BY <2>1, InitTypes
<1>2. Inv /\ [Next]_vars => Inv'
  BY NextTypes, NextRejections
<1>3. Inv => RejectionJustified
  OBVIOUS
<1> QED
  BY <1>1, <1>2, <1>3, PTL DEF Spec

-----------------------------------------------------------------------------
(* Any stretch of time.  While it lasts, what was recorded in it is still in  *)
(* the minute window, which is bounded.  Once it is over no check gets a      *)
(* timestamp in it any more, and those that have one can each add a record.   *)

\* A check that may still record its timestamp.
Underway(c) == pc[c] \in {"count", "record"}

\* What was recorded in a window's length from a time on, and the checks that
\* may still add to it.
Stretch(from) == {s \in recorded : from <= s /\ s < from + MinWindow}
Late(from)    == {c \in Checks : Underway(c) /\ from <= at[c] /\ at[c] < from + MinWindow}

\* The key of the minute window outlives all that was recorded in the last
\* minute, and so the window holds it.
RecentKept ==
  \A s \in recorded :
    /\ s + MinTTL <= expMin
    /\ clock < s + MinWindow => s \in zmin

StretchBounded(from) ==
  Cardinality(Stretch(from)) + Cardinality(Late(from)) <= LimitMin + 2 * Cardinality(Checks) - 1

Stretches == \A from \in Nat : StretchBounded(from)

\* No step forgets what was recorded lately, one of two ways.
KeepsStamps ==
  /\ recorded' = recorded /\ expMin' = expMin
  /\ \A c \in Checks : Underway(c)' => at'[c] = clock' \/ (Underway(c) /\ at'[c] = at[c])
  /\ \A s \in zmin : s + MinTTL <= expMin /\ clock' < s + MinWindow => s \in zmin'

Stamps(c) ==
  /\ Underway(c) /\ ~Underway(c)' /\ UNCHANGED <<clock, at>>
  /\ \A d \in Checks : Underway(d)' => Underway(d)
  /\ recorded' = recorded \cup {at[c]} /\ zmin' = zmin \cup {at[c]}
  /\ expMin' = clock + MinTTL

\* A check prunes with a timestamp that has passed.
LEMMA PruneKeepsRecent ==
  ASSUME TypeInv, NEW c \in Checks, Prune(c), UNCHANGED clock
  PROVE  \A s \in zmin : clock' < s + MinWindow => s \in zmin'
<1>1. at[c] \in Int /\ clock \in Int /\ at[c] <= clock /\ zmin \subseteq Int /\ MinWindow \in Int
  BY LimiterAssumption DEF TypeInv, TypeOK
<1>. QED
  BY <1>1 DEF Prune, Within

LEMMA StepKeepsOrStamps ==
  ASSUME TypeInv, [Next]_vars
  PROVE  KeepsStamps \/ \E c \in Checks : Stamps(c)
<1>. USE DEF Underway
<1>1. ASSUME NEW c \in Checks, Start(c) PROVE KeepsStamps
  <2>1. UNCHANGED <<clock, recorded, expMin, zmin>>
    BY <1>1 DEF Start, redisVars, histVars
  <2>2. at'[c] = clock' /\ \A d \in Checks \ {c} : at'[d] = at[d] /\ pc'[d] = pc[d]
    <3>1. at' = [at EXCEPT ![c] = clock] /\ pc' = [pc EXCEPT ![c] = "count"]
      BY <1>1 DEF Start
    <3>2. DOMAIN at = Checks /\ DOMAIN pc = Checks
      BY DEF TypeInv, TypeOK
    <3>. QED
      BY <2>1, <3>1, <3>2
  <2>. QED
    BY <2>1, <2>2 DEF KeepsStamps
<1>2. ASSUME NEW c \in Checks, CountAllows(c) \/ CountRejectsFirst(c) \/ CountRejectsAgain(c)
      PROVE  KeepsStamps
  <2>1. /\ Prune(c) /\ UNCHANGED <<clock, at, histVars>> /\ pc[c] = "count"
        /\ \A d \in Checks : Underway(d)' => Underway(d)
    BY <1>2 DEF CountAllows, CountRejectsFirst, CountRejectsAgain, Return, TypeInv, TypeOK
  <2>. QED
    BY <2>1, PruneKeepsRecent DEF KeepsStamps, Prune, histVars
<1>3. ASSUME NEW c \in Checks, pc[c] = "record", Add(c), UNCHANGED <<clock, at>>,
             pc' = [pc EXCEPT ![c] = "idle"]
      PROVE  Stamps(c)
  BY <1>3 DEF Stamps, Add, Stamp, Expiry, TypeInv, TypeOK
<1>4. ASSUME NEW c \in Checks, Record(c) PROVE Stamps(c)
  BY <1>3, <1>4 DEF Record, Return
<1>5. ASSUME NEW c \in Checks, Notify(c) PROVE KeepsStamps
  BY <1>5 DEF KeepsStamps, Notify, SetNotified, Return, TypeInv, TypeOK
<1>6. ASSUME NEW c \in Checks, Raise(c) PROVE KeepsStamps \/ Stamps(c)
  <2>1. /\ pc' = [pc EXCEPT ![c] = "idle"] /\ UNCHANGED <<clock, at>>
        /\ \A d \in Checks : Underway(d)' => Underway(d)
    BY <1>6 DEF Raise, Return, TypeInv, TypeOK
  <2>2. CASE UNCHANGED <<redisVars, histVars>>
    BY <2>1, <2>2 DEF KeepsStamps, redisVars, histVars
  <2>3. CASE Prune(c) /\ UNCHANGED histVars
    BY <2>1, <2>3, PruneKeepsRecent DEF KeepsStamps, Prune, histVars
  <2>4. CASE pc[c] = "record" /\ Add(c)
    BY <1>3, <2>1, <2>4
  <2>5. CASE SetNotified(c, FALSE)
    BY <2>1, <2>5 DEF KeepsStamps, SetNotified
  <2>. QED
    BY <1>6, <2>2, <2>3, <2>4, <2>5 DEF Raise
<1>7. CASE Tick
  <2>1. ASSUME NEW s \in zmin, s + MinTTL <= expMin, clock' < s + MinWindow PROVE s \in zmin'
    <3>1. clock \in Int /\ s \in Int /\ expMin \in Int
      BY LimiterAssumption DEF TypeInv, TypeOK
    <3>2. clock + 1 < expMin
      BY <1>7, <2>1, <3>1, LimiterAssumption DEF Tick
    <3>. QED
      BY <1>7, <3>2 DEF Tick
  <2>. QED
    BY <1>7, <2>1 DEF KeepsStamps, Tick, histVars
<1>8. CASE UNCHANGED vars \/ TimeUp
  BY <1>8 DEF KeepsStamps, vars, redisVars, histVars, TimeUp
<1>. QED
  BY <1>1, <1>2, <1>4, <1>5, <1>6, <1>7, <1>8 DEF Next, Check

LEMMA NextRecent ==
  ASSUME TypeInv, TypeInv', [Next]_vars, RecentKept
  PROVE  RecentKept'
<1>1. /\ clock \in Nat /\ clock' \in Nat /\ clock <= clock' /\ recorded \subseteq 1 .. clock
      /\ \A c \in Checks : at[c] \in 0 .. clock
      /\ MinWindow \in Nat /\ MinTTL \in Nat
  <2>1. clock' = clock \/ clock' = clock + 1
    BY DEF Next, Check, Start, CountAllows, CountRejectsFirst, CountRejectsAgain, Record, Notify,
           Raise, Tick, TimeUp, vars
  <2>. QED
    BY <2>1, LimiterAssumption DEF TypeInv, TypeOK
<1>2. CASE KeepsStamps
  BY <1>1, <1>2 DEF KeepsStamps, RecentKept
<1>3. ASSUME NEW c \in Checks, Stamps(c) PROVE RecentKept'
  BY <1>1, <1>3 DEF Stamps, RecentKept
<1>. QED
  BY <1>2, <1>3, StepKeepsOrStamps

\* The sets of a stretch are finite.
StretchesCount ==
  \A from \in Nat :
    /\ IsFiniteSet(Stretch(from)) /\ Cardinality(Stretch(from)) \in Nat
    /\ IsFiniteSet(Late(from)) /\ Cardinality(Late(from)) \in Nat

LEMMA StretchesFinite == TypeInv => StretchesCount
<1> SUFFICES ASSUME TypeInv, NEW from \in Nat
             PROVE  IsFiniteSet(Stretch(from)) /\ IsFiniteSet(Late(from))
  BY FS_CardinalityType DEF StretchesCount
<1>1. clock \in Int
  BY DEF TypeInv, TypeOK
<1>2. IsFiniteSet(1 .. clock)
  BY <1>1, FS_Interval
<1>3. Stretch(from) \in SUBSET (1 .. clock) /\ Late(from) \in SUBSET Checks
  BY DEF Stretch, Late, TypeInv, TypeOK
<1>. QED
  BY <1>2, <1>3, FS_Subset, LimiterAssumption

\* While it lasts, a stretch is in the window, and the checks under way are the
\* admitted ones and at most all the others.
LEMMA BoundedWhileItLasts ==
  ASSUME TypeInv, RecentKept, OverAdmissionBounded, NEW from \in Nat, clock < from + MinWindow
  PROVE  StretchBounded(from)
<1>1. WindowsFinite
  BY SetsFinite
<1>2. Stretch(from) \in SUBSET zmin
  <2>1. ASSUME NEW s \in recorded, from <= s PROVE s \in zmin
    <3>1. clock \in Nat /\ recorded \subseteq 1 .. clock
      BY DEF TypeInv, TypeOK
    <3>. QED
      BY <2>1, <3>1, LimiterAssumption DEF RecentKept
  <2>. QED
    BY <2>1 DEF Stretch
<1>. DEFINE others == Late(from) \ Recording
<1>3. Late(from) \subseteq Recording \cup others /\ others \in SUBSET Checks
  BY DEF Late
<1>4. /\ Cardinality(Stretch(from)) <= Cardinality(zmin)
      /\ Cardinality(Stretch(from)) \in Nat
  BY <1>1, <1>2, FS_Subset, FS_CardinalityType DEF WindowsFinite
<1>5. /\ IsFiniteSet(others) /\ Cardinality(others) <= Cardinality(Checks)
      /\ Cardinality(others) \in Nat
  BY <1>3, LimiterAssumption, FS_Subset, FS_CardinalityType
<1>6. Cardinality(Late(from)) <= Cardinality(Recording) + Cardinality(others)
  <2>. HIDE DEF others
  <2>1. /\ IsFiniteSet(Recording \cup others)
        /\ Cardinality(Recording \cup others)
             = Cardinality(Recording) + Cardinality(others) - Cardinality(Recording \cap others)
    BY <1>1, <1>5, FS_Union DEF WindowsFinite
  <2>2. Cardinality(Recording \cap others) \in Nat
    <3>1. Recording \cap others \in SUBSET Recording
      OBVIOUS
    <3>. QED
      BY <1>1, <3>1, FS_Subset, FS_CardinalityType DEF WindowsFinite
  <2>3. Cardinality(Late(from)) <= Cardinality(Recording \cup others)
    BY <1>3, <2>1, FS_Subset
  <2>4. Cardinality(Late(from)) \in Nat
    BY StretchesFinite DEF StretchesCount
  <2>. QED
    BY <1>1, <1>5, <2>1, <2>2, <2>3, <2>4 DEF WindowsFinite
<1>7. Cardinality(Late(from)) \in Nat
  BY StretchesFinite DEF StretchesCount
<1>. HIDE DEF others
<1>. QED
  BY <1>1, <1>4, <1>5, <1>6, <1>7, LimiterAssumption
     DEF OverAdmissionBounded, WindowsFinite, StretchBounded

RunningStretches == \A from \in Nat : clock < from + MinWindow => StretchBounded(from)

\* Once it is over, a check can only move from under way to recorded.
LEMMA NextStretches ==
  ASSUME TypeInv, TypeInv', [Next]_vars, Stretches, RunningStretches'
  PROVE  Stretches'
<1> SUFFICES ASSUME NEW from \in Nat, clock' >= from + MinWindow
             PROVE  StretchBounded(from)'
  <2>1. clock' \in Nat /\ MinWindow \in Nat
    BY LimiterAssumption DEF TypeInv, TypeOK
  <2>. QED
    BY <2>1 DEF Stretches, RunningStretches
<1>a. StretchesCount /\ StretchesCount'
  BY StretchesFinite, PTL
<1>1. /\ IsFiniteSet(Stretch(from)) /\ IsFiniteSet(Late(from))
      /\ Cardinality(Stretch(from)) \in Nat /\ Cardinality(Stretch(from)') \in Nat
      /\ Cardinality(Late(from)) \in Nat /\ Cardinality(Late(from)') \in Nat
  BY <1>a DEF StretchesCount
<1>2. Cardinality(Checks) \in Nat /\ LimitMin \in Nat
  BY LimiterAssumption, FS_CardinalityType
<1>3. StretchBounded(from)
  BY DEF Stretches
<1>4. ASSUME Cardinality(Stretch(from)') + Cardinality(Late(from)')
               <= Cardinality(Stretch(from)) + Cardinality(Late(from))
      PROVE  StretchBounded(from)'
  BY <1>1, <1>2, <1>3, <1>4 DEF StretchBounded
<1>5. CASE KeepsStamps
  <2>1. Stretch(from)' = Stretch(from)
    BY <1>5 DEF KeepsStamps, Stretch
  <2>2. ASSUME NEW c \in Checks, Underway(c)', at'[c] < from + MinWindow
        PROVE  Underway(c) /\ at'[c] = at[c]
    <3>1. clock' \in Nat /\ at'[c] \in Nat /\ MinWindow \in Nat
      BY LimiterAssumption DEF TypeInv, TypeOK
    <3>2. at'[c] # clock'
      BY <2>2, <3>1
    <3>. QED
      BY <1>5, <2>2, <3>2 DEF KeepsStamps
  <2>3. Late(from)' \subseteq Late(from)
    BY <2>2 DEF Late
  <2>. QED
    BY <1>1, <1>4, <2>1, <2>3, SumShrinks
<1>6. ASSUME NEW c \in Checks, Stamps(c) PROVE StretchBounded(from)'
  <2>1. Late(from)' \subseteq Late(from) \ {c}
    BY <1>6 DEF Stamps, Late
  <2>2. CASE c \in Late(from)
    <3>1. Stretch(from)' \subseteq Stretch(from) \cup {at[c]}
      BY <1>6 DEF Stamps, Stretch
    <3>2. /\ IsFiniteSet(Stretch(from) \cup {at[c]}) /\ IsFiniteSet(Late(from) \ {c})
          /\ Cardinality(Stretch(from) \cup {at[c]}) + Cardinality(Late(from) \ {c})
               <= Cardinality(Stretch(from)) + Cardinality(Late(from))
      BY <1>1, <2>2, SumKept, FS_AddElement, FS_RemoveElement
    <3>3. Cardinality(Stretch(from)') + Cardinality(Late(from)')
            <= Cardinality(Stretch(from) \cup {at[c]}) + Cardinality(Late(from) \ {c})
      BY <2>1, <3>1, <3>2, SumShrinks
    <3>4. /\ Cardinality(Stretch(from) \cup {at[c]}) \in Nat
          /\ Cardinality(Late(from) \ {c}) \in Nat
      BY <3>2, FS_CardinalityType
    <3>. QED
      BY <1>1, <1>4, <3>2, <3>3, <3>4
  <2>3. CASE c \notin Late(from)
    <3>1. Stretch(from)' = Stretch(from)
      BY <1>6, <2>3 DEF Stamps, Stretch, Late
    <3>2. Late(from)' \subseteq Late(from)
      BY <2>1
    <3>. QED
      BY <1>1, <1>4, <3>1, <3>2, SumShrinks
  <2>. QED
    BY <2>2, <2>3
<1>. QED
  BY <1>5, <1>6, StepKeepsOrStamps

\* For any limits, windows and expiry times that outlast the windows, and for
\* ever: no stretch of one window's length ever contains more admitted requests
\* than the limit, one more per check beyond the first, and one more per check
\* (limiter.py 47-75, 93-99).
THEOREM WindowBoundedHolds == Spec => []WindowBounded
<1> DEFINE Inv == TypeInv /\ OverAdmissionBounded /\ RecentKept /\ Stretches
<1>1. Init => Inv
  <2> SUFFICES ASSUME Init PROVE Inv
    OBVIOUS
  <2>1. TypeInv /\ OverAdmissionBounded
    BY InitTypes, InitWindows
  <2>2. RecentKept
    BY DEF Init, RecentKept
  <2>3. ASSUME NEW from \in Nat PROVE StretchBounded(from)
    <3>1. Stretch(from) = {} /\ Late(from) = {}
      BY DEF Init, Stretch, Late, Underway
    <3>2. Cardinality({}) = 0
      BY FS_EmptySet
    <3>3. Cardinality(Checks) \in Nat
      BY LimiterAssumption, FS_CardinalityType
    <3>4. LimitMin \in Nat /\ LimitMin > 0
      BY LimiterAssumption
    <3>. QED
      BY <3>1, <3>2, <3>3, <3>4 DEF StretchBounded
  <2>. QED
    BY <2>1, <2>2, <2>3 DEF Stretches
<1>2. TypeInv /\ RecentKept /\ OverAdmissionBounded => RunningStretches
  BY BoundedWhileItLasts DEF RunningStretches
<1>3. Inv /\ [Next]_vars => Inv'
  <2> SUFFICES ASSUME Inv, [Next]_vars PROVE Inv'
    OBVIOUS
  <2>1. TypeInv'
    BY NextTypes
  <2>2. OverAdmissionBounded'
    BY <2>1, NextWindows
  <2>3. RecentKept'
    BY <2>1, NextRecent
  <2>4. RunningStretches'
    BY <1>2, <2>1, <2>2, <2>3, PTL
  <2>5. Stretches'
    BY <2>1, <2>4, NextStretches
  <2>. QED
    BY <2>1, <2>2, <2>3, <2>5
<1>4. Inv => WindowBounded
  <2> SUFFICES ASSUME TypeInv, Stretches, NEW start \in recorded
               PROVE  Cardinality({s \in recorded : start <= s /\ s < start + MinWindow})
                        <= LimitMin + 2 * Cardinality(Checks) - 1
    BY DEF WindowBounded
  <2>1. start \in Nat
    BY DEF TypeInv, TypeOK
  <2>2. StretchBounded(start) /\ Cardinality(Stretch(start)) \in Nat
        /\ Cardinality(Late(start)) \in Nat
    BY <2>1, StretchesFinite DEF Stretches, StretchesCount
  <2>3. Cardinality(Checks) \in Nat /\ LimitMin \in Nat
    BY LimiterAssumption, FS_CardinalityType
  <2>4. Stretch(start) = {s \in recorded : start <= s /\ s < start + MinWindow}
    BY DEF Stretch
  <2>5. Cardinality(Stretch(start)) <= LimitMin + 2 * Cardinality(Checks) - 1
    BY <2>2, <2>3 DEF StretchBounded
  <2>. QED
    BY <2>4, <2>5
<1>. QED
  BY <1>1, <1>3, <1>4, PTL DEF Spec
=============================================================================
