----------------------------- MODULE GrowingPool -----------------------------
(***************************************************************************)
(* What is left of SlotPool's promise when clients fail: a client whose    *)
(* work fails after it left gives its pool a slot that it does not have,   *)
(* for good.  Each client does so at most once and to one pool that it may *)
(* use, and a pool never serves more clients than its slots and these.     *)
(***************************************************************************)
EXTENDS SlotPool

VARIABLE extra   \* pool -> the clients that failed after they left it

InitGrowing == Init /\ extra = [p \in Slots |-> {}]

TakeAny(c, p) ==
  /\ place[c] = "waiting"
  /\ p \in MayUse[c]
  /\ Cardinality(Served(p)) < Capacity[p] + Cardinality(extra[p])
  /\ place' = [place EXCEPT ![c] = p]
  /\ UNCHANGED extra

Fail(c, p) ==
  /\ place[c] = "gone"
  /\ p \in MayUse[c]
  /\ \A q \in Slots : c \notin extra[q]
  /\ extra' = [extra EXCEPT ![p] = @ \cup {c}]
  /\ UNCHANGED place

NextGrowing ==
  \E c \in Clients :
    \/ Leave(c) /\ UNCHANGED extra
    \/ \E p \in Slots : TakeAny(c, p) \/ Fail(c, p)

SpecGrowing == InitGrowing /\ [][NextGrowing]_<<place, extra>>

\* And what a client occupies it gives back.
FairGrowing ==
  SpecGrowing /\ \A c \in Clients : WF_<<place, extra>>(Finish(c) /\ UNCHANGED extra)
=============================================================================
