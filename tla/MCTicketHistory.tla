-------------------------- MODULE MCTicketHistory --------------------------
(***************************************************************************)
(* Instance of TicketHistory for TLC: two transitions of one item.         *)
(***************************************************************************)
EXTENDS TicketHistory, TLC

HistoryMenu ==
  [op : {"create"}, arg : {"incident"}] \cup
  [op : {"transition"}, arg : {"in_progress", "resolved"}]
=============================================================================
