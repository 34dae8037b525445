------------------------------- MODULE MCQueries -------------------------------
(* Instances of Seeder and Queries for TLC: users of two tiers, one of them   *)
(* seen recently.                                                             *)
EXTENDS Queries

TwoKinds == {[tier |-> "free", seen |-> 0], [tier |-> "premium", seen |-> 1]}
=============================================================================
