------------------------------- MODULE SlotPool -------------------------------
(***************************************************************************)
(* What the worker pools promise their clients, without semaphores,        *)
(* counters, routing or waiting: a client occupies at most one slot of a   *)
(* pool it may use, no pool ever serves more clients than it has slots,    *)
(* a client that left does not come back, and none stays forever.          *)
(***************************************************************************)
EXTENDS Integers, FiniteSets

CONSTANTS
  Clients,
  Slots,       \* the pools' names
  Capacity,    \* pool -> how many clients it serves at once
  MayUse       \* client -> the pools it may be served in

VARIABLE place  \* client -> a pool, "waiting" or "gone"

Init == place = [c \in Clients |-> "waiting"]

Served(p) == {c \in Clients : place[c] = p}

Take(c, p) ==
  /\ place[c] = "waiting"
  /\ p \in MayUse[c]
  /\ Cardinality(Served(p)) < Capacity[p]
  /\ place' = [place EXCEPT ![c] = p]

\* With its work done, or turned away.
Leave(c) ==
  /\ place[c] # "gone"
  /\ place' = [place EXCEPT ![c] = "gone"]

Next == \E c \in Clients : Leave(c) \/ \E p \in Slots : Take(c, p)

Finish(c) == place[c] \in Slots /\ Leave(c)

Spec == Init /\ [][Next]_place /\ \A c \in Clients : WF_place(Finish(c))

\* No pool serves more clients than it has slots.
WithinCapacity == \A p \in Slots : Cardinality(Served(p)) <= Capacity[p]
=============================================================================
