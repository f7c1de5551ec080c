---------------------------- MODULE TicketDomain ----------------------------
(***************************************************************************)
(* The ticketing core model: work-item types, statuses, priorities and the *)
(* lifecycle state machine (services/ticketing/internal/domain).  It is    *)
(* pure data, shared by every module that handles a ticket.                *)
(***************************************************************************)
EXTENDS Naturals

Types == {"incident", "service_request"}

Statuses == {"new", "in_progress", "on_hold", "resolved", "closed", "cancelled"}

\* Mutant: a closed item can be reopened like a resolved one.
transitionsReopenClosed ==
  ({"new"} \X {"in_progress", "on_hold", "resolved", "cancelled"}) \cup
  ({"in_progress"} \X {"on_hold", "resolved", "cancelled"}) \cup
  ({"on_hold"} \X {"in_progress", "resolved", "cancelled"}) \cup
  ({"resolved"} \X {"in_progress", "closed"}) \cup {<<"closed", "in_progress">>}

\* The allowed state machine, as its set of edges.
transitions ==
  ({"new"} \X {"in_progress", "on_hold", "resolved", "cancelled"}) \cup
  ({"in_progress"} \X {"on_hold", "resolved", "cancelled"}) \cup
  ({"on_hold"} \X {"in_progress", "resolved", "cancelled"}) \cup
  ({"resolved"} \X {"in_progress", "closed"})

IsTerminal(s) == s \in {"closed", "cancelled"}

\* A status outside the machine has no edges: Go's lookup of a missing key.
CanTransition(from, to) == <<from, to>> \in transitions

NumberPrefix(t) == IF t = "service_request" THEN "REQ" ELSE "INC"

\* The human number is the prefix followed by the sequence value in at least
\* seven digits; two numbers render alike exactly when both parts are equal.
FormatNumber(t, n) == [prefix |-> NumberPrefix(t), n |-> n]

EventKinds == {"created", "status_changed", "assigned", "commented", "updated"}
=============================================================================
