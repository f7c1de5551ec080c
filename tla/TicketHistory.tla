--------------------------- MODULE TicketHistory ---------------------------
(***************************************************************************)
(* What readers of the ticketing store are shown: the queries of           *)
(* services/ticketing/internal/store over the tables of TicketStore.       *)
(***************************************************************************)
EXTENDS TicketStore, SequencesExt

\* ListEvents: ORDER BY created_at ASC.
ListEvents(w) == SortSeq(events[w], LAMBDA a, b : a.at < b.at)

-----------------------------------------------------------------------------
(* Properties *)

\* A reader of the history is told how the item got where it is: in the order
\* ListEvents returns ("history oldest-first", store.go:396), each status change
\* starts from the status the changes above it led to.
HistoryListsForward ==
  \A w \in Items : LET es == ListEvents(w) IN
    \A i \in 1..Len(es) : IsMove(es[i]) => StatusAfter(es, i - 1, es[i].from)
=============================================================================
