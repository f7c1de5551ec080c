---------------------------- MODULE MCTicketApi ----------------------------
(***************************************************************************)
(* Instances of TicketApi for TLC.                                         *)
(***************************************************************************)
EXTENDS TicketApi, TLC

CONSTANTS r1, r2, alice, agent

Route(verb, args, notes) == [verb : {verb}, arg : args, note : notes]

\* A requester, agents by either claim, and an agent whose token has expired.
Requester == [sub |-> alice, valid |-> TRUE, roles |-> {"requester"}, realm |-> None]
Agent == [sub |-> agent, valid |-> TRUE, roles |-> None, realm |-> {"agent"}]
Admin == [sub |-> agent, valid |-> TRUE, roles |-> {"admin"}, realm |-> {"requester"}]
Expired == [sub |-> agent, valid |-> FALSE, roles |-> None, realm |-> {"agent"}]
RoleNames == {"requester", "agent", "admin"}

Sent(routes, token) == [route : routes, token : {token}]

Creates == Route("create", {"incident"}, {FALSE})

\* Every handler with one argument for each of its paths, asked by a requester ...
AllVerbs ==
  Route("create", {"incident", "bogus"}, {FALSE}) \cup
  Route("list", {"nothing"}, {FALSE}) \cup Route("get", {"nothing"}, {FALSE}) \cup
  Route("update", {"assigned"}, {FALSE}) \cup Route("transition", {"resolved"}, {FALSE}) \cup
  Route("addComment", {"internal", "public", "bogus"}, {FALSE}) \cup
  Route("listComments", {"nothing"}, {FALSE}) \cup Route("listEvents", {"nothing"}, {FALSE})

\* ... and those of agents ...
AgentVerbs ==
  Route("update", {"assigned", "nothing"}, {FALSE}) \cup
  Route("transition", {"resolved"}, {FALSE}) \cup Route("listEvents", {"nothing"}, {FALSE})

\* ... while another agent opens an item and writes an internal note.
HandlerAsks ==
  r1 :> Sent(AllVerbs, Requester) \cup Sent(AgentVerbs, Agent) \cup
        Sent(Route("update", {"assigned"}, {FALSE}), Expired)
  @@ r2 :> Sent(Creates \cup Route("addComment", {"internal"}, {FALSE}), Admin)

\* Creates, and transitions with a comment, racing: requests of two store calls.
RaceAsks ==
  [r \in Reqs |-> Sent(Creates \cup Route("transition", {"resolved"}, {TRUE}), Agent)]

\* A requester looks at somebody else's item.
ReadAsks ==
  [r \in Reqs |-> LET routes == Creates \cup Route("get", {"nothing"}, {FALSE}) \cup
                                Route("listComments", {"nothing"}, {FALSE})
                  IN Sent(routes, Requester) \cup Sent(routes, Agent)]

Slots == Permutations(Reqs)
SlotsAndItems == Permutations(Reqs) \cup Permutations(Items)
=============================================================================
