---------------------------- MODULE TicketLedger ----------------------------
(***************************************************************************)
(* What the ticketing store promises its callers, without handlers,        *)
(* transactions, locks or failures: every operation happens to one item,   *)
(* at one instant, and is written in that item's append-only trail.        *)
(***************************************************************************)
EXTENDS TicketDomain, Sequences

CONSTANTS Items, None

VARIABLES
  status,  \* item -> its status, None before it is opened
  trail    \* item -> what happened to it, in order

Entry(kind, from, to) == [kind |-> kind, from |-> from, to |-> to]

Write(w, entry) == trail' = [trail EXCEPT ![w] = Append(@, entry)]

Init ==
  /\ status = [w \in Items |-> None]
  /\ trail = [w \in Items |-> <<>>]

Open(w) ==
  /\ status[w] = None
  /\ status' = [status EXCEPT ![w] = "new"]
  /\ Write(w, Entry("created", None, None))

\* The only operation that moves the status, from where it is, along an edge.
Move(w, to) ==
  /\ CanTransition(status[w], to)
  /\ status' = [status EXCEPT ![w] = to]
  /\ Write(w, Entry("status_changed", status[w], to))

\* Comments and field updates leave the status alone, on closed items too.
Annotate(w, kind) ==
  /\ status[w] # None
  /\ Write(w, Entry(kind, None, None))
  /\ UNCHANGED status

Next == \E w \in Items :
  \/ Open(w)
  \/ \E to \in Statuses : Move(w, to)
  \/ \E kind \in {"assigned", "updated", "commented"} : Annotate(w, kind)

Spec == Init /\ [][Next]_<<status, trail>>
=============================================================================
