--------------------------- MODULE MCTicketStore ---------------------------
(***************************************************************************)
(* Instances of TicketStore for TLC.                                       *)
(***************************************************************************)
EXTENDS TicketStore, TLC

Op(op, args) == {[op |-> op, arg |-> a] : a \in args}

\* One item's life under every operation, reopening included.
LifecycleMenu ==
  Op("create", {"incident"}) \cup Op("update", {"assigned"}) \cup
  Op("comment", {"internal"}) \cup
  Op("transition", {"in_progress", "resolved", "closed", "cancelled"})

\* Liveness: a create, and the two operations whose row locks exclude each other.
LockMenu ==
  Op("create", {"incident"}) \cup Op("update", {"updated"}) \cup
  Op("transition", {"resolved"})

Slots == Permutations(Reqs)
=============================================================================
