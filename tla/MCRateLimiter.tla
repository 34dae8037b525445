---------------------------- MODULE MCRateLimiter ----------------------------
(* Instances of RateLimiter for TLC. *)
EXTENDS RateLimiter, TLC

\* The slots of a user's concurrent requests do not differ.
CheckSymmetry == Permutations(Checks)
=============================================================================
