------------------------------ MODULE MCLifespan ------------------------------
(***************************************************************************)
(* Instances of Lifespan for TLC.  Two of the three pools are enough for a *)
(* round to be cut in the middle.                                          *)
(***************************************************************************)
EXTENDS Lifespan

TwoPools == <<"priority", "general">>
=============================================================================
