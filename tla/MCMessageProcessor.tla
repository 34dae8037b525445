-------------------------- MODULE MCMessageProcessor --------------------------
(***************************************************************************)
(* Instances of MessageProcessor for TLC.  One worker per pool, so that    *)
(* two requests are enough to fill a pool and three to queue behind it.    *)
(***************************************************************************)
EXTENDS ChatApi, TLC

CONSTANTS
  r1, r2, r3, r4,             \* requests
  enterprise, premium, free,  \* users, one of each tier
  stranger                    \* a user id without a document

MCMaxWorkers == [p \in Pools |-> 1]

MCTierOf == [u \in KnownUsers |->
  CASE u = enterprise -> "enterprise"
    [] u = premium    -> "premium"
    [] OTHER          -> "free"]

\* Two requests of an enterprise user and one of a premium user: they meet on
\* the general pool, and one may have to wait for it.
SharedPool == r1 :> enterprise @@ r2 :> enterprise @@ r3 :> premium

\* Three requests of one free user: the general pool, the overflow pool, and
\* the third is shed or waits.  They share a session as well.
OneFreeUser == r1 :> free @@ r2 :> free @@ r3 :> free

\* And a request of a user that nobody knows.
FreeUserAndStranger ==
  r1 :> free @@ r2 :> free @@ r3 :> free @@ r4 :> stranger

\* Requests of the same user are interchangeable.
PairSymmetry == Permutations({r1, r2})
TrioSymmetry == Permutations({r1, r2, r3})

\* A server started on an empty database, for the properties about progress.
FreshDatabase == Init /\ sessions = {}
FreshFairSpec == FreshDatabase /\ [][Next]_vars /\ Fairness

\* Two patterns, of the first and of the second category that are tried; a text
\* without a match, and one with a match that is a tenth of it.
MCBankSize == [c \in Categories |-> IF c \in {"jailbreak", "self_harm"} THEN 1 ELSE 0]
TextOf(first, second) == [length |-> 10, hits |-> <<first, second>>]
TwoTexts == {TextOf(0, 0), TextOf(0, 1)}

\* Nobody reads the text of a stranger.
MCTextsOf == [r \in Requests |-> IF UserOf[r] \in KnownUsers THEN Texts ELSE {TextOf(0, 1)}]
=============================================================================
