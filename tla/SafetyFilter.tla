----------------------------- MODULE SafetyFilter -----------------------------
(***************************************************************************)
(* check_safety() of app/safety/filter.py.  A text is its length, without  *)
(* the blanks around it, and for each pattern, in the order in which they  *)
(* are tried, the length of its first match, 0 when there is none.         *)
(*                                                                         *)
(* Confidences are exact here, in tenths and times the length of the text. *)
(***************************************************************************)
EXTENDS Integers, Sequences

CONSTANTS
  BankSize,   \* category -> how many patterns it has
  Texts       \* the texts that arrive

Categories == {"jailbreak", "nsfw", "harassment", "self_harm", "illegal"}

\* CATEGORY_PATTERNS: the category of each pattern, in the order of the trials.
CategoryOf ==
  LET Bank(c) == [k \in 1 .. BankSize[c] |-> c]
  IN  Bank("jailbreak") \o Bank("self_harm") \o Bank("nsfw")
        \o Bank("harassment") \o Bank("illegal")

Patterns == 1 .. Len(CategoryOf)

ASSUME FilterAssumption ==
  /\ BankSize \in [Categories -> Nat]
  /\ \A text \in Texts : text.length \in Nat /\ text.hits \in [Patterns -> 0 .. text.length]

\* Nothing, as of a request that was not sent yet.
NoText == [length |-> 0, hits |-> [i \in Patterns |-> 0]]

-----------------------------------------------------------------------------

Hits(text) == {i \in Patterns : text.hits[i] > 0}

FirstHit(text) == CHOOSE i \in Hits(text) : \A j \in Hits(text) : i <= j

Confidence(text, match) ==
  LET c == 7 * text.length + 3 * match
  IN  IF c < 10 * text.length THEN c ELSE 10 * text.length

\* Mutant: a threshold above what a match of half the text is worth.
BelowThresholdRaised(text, match) == Confidence(text, match) < 9 * text.length

\* BLOCK_THRESHOLD.
BelowThreshold(text, match) == Confidence(text, match) < 7 * text.length

CheckSafety(text) ==
  IF Hits(text) = {} THEN [safe |-> TRUE, category |-> "safe"]
  ELSE [safe     |-> BelowThreshold(text, text.hits[FirstHit(text)]),
        category |-> CategoryOf[FirstHit(text)]]
=============================================================================
