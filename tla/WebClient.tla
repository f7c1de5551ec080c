----------------------------- MODULE WebClient -----------------------------
(***************************************************************************)
(* An agent's ticket page (web/src/features/tickets), through the gateway's *)
(* proxy, on one ticket that others change too.  The page reads the ticket *)
(* and its comments into a query cache, offers what the cached status      *)
(* allows, sends writes, and invalidates the cache when they are answered. *)
(* The ticketing service is atomic here, as TicketLedger justifies.        *)
(*                                                                         *)
(* A revision of a query is the number of its data's versions so far; 0 is *)
(* no data yet.  Outside src/: react-query, which joins a fetch in flight  *)
(* when it has no data and otherwise cancels it to refetch, and fasthttp,  *)
(* which sends a request again when the upstream closes the connection     *)
(* before the first byte of an answer.                                     *)
(***************************************************************************)
EXTENDS TicketDomain, Sequences, FiniteSets

CONSTANTS
  Menu,        \* operations of the agent
  OthersMenu,  \* operations of the others
  Targets,     \* statuses the agent and the others go for
  Assignees,   \* user ids typed into the assignee field
  MaxWrites,   \* bound on the writes the page sends
  MaxRevision, \* revisions up to which others change the ticket
  MaxResends,  \* bound on the connections closed before an answer
  None         \* no assignee, no choice, no fetch, no mutation

VARIABLES
  history,   \* service: versions of the ticket, its status and assignee
  comments,  \* service: versions of its list of comments
  open,      \* the page is mounted
  view,      \* cache: the revision of each query's data
  failed,    \* cache: the last fetch of the query ended in an error
  fetch,     \* cache: the fetch in flight, by the revision served (0: not yet)
  next,      \* the status chosen, and the revision it was chosen from
  requests,  \* the writes sent, Done once they are answered and handled
  pending,   \* operation -> the write its form waits for
  owed,      \* history variable: the revision the page has to show
  resends    \* requests sent again so far

vars == <<history, comments, open, view, failed, fetch, next, requests, pending, owed, resends>>
service == <<history, comments>>
cache == <<view, failed, fetch>>

Queries == {"ticket", "comments"}
Operations == {"transition", "update", "comment"}

ASSUME MenuAssumption == Menu \cup OthersMenu \subseteq Operations
ASSUME BoundAssumption == MaxResends \in Nat
ASSUME NoneAssumption == None \notin Nat

Ids == 1..Len(requests)
Done == [at |-> "done"]
Latest(k) == IF k = "ticket" THEN Len(history) ELSE comments

TypeOK ==
  /\ history \in Seq([status : Statuses, assignee : Assignees \cup {None}])
  /\ comments \in Nat /\ resends \in 0..MaxResends /\ open \in BOOLEAN
  /\ view \in [Queries -> Nat] /\ \A k \in Queries : view[k] <= Latest(k)
  /\ failed \in [Queries -> BOOLEAN] /\ owed \in [Queries -> Nat]
  /\ fetch \in [Queries -> Nat \cup {None}]
  /\ next \in [to : Statuses, picked : 1..Len(history)] \cup {None}
  /\ requests \in Seq({Done} \cup
       [op : Operations, to : Statuses \cup Assignees \cup {None}, picked : Nat,
        at : {"sent", "abandoned", "ok", "conflict"}, rev : Nat])
  /\ pending \in [Operations -> Ids \cup {None}]

\* Mutant: a resolved ticket can be made new again.
TRANSITIONSRenewed ==
  [s \in Statuses |->
    CASE s = "new" -> {"in_progress", "on_hold", "resolved", "cancelled"}
      [] s = "in_progress" -> {"on_hold", "resolved", "cancelled"}
      [] s = "on_hold" -> {"in_progress", "resolved", "cancelled"}
      [] s = "resolved" -> {"new", "in_progress", "closed"}
      [] OTHER -> {}]

\* What the page offers, in its own copy of the state machine.
TRANSITIONS ==
  [s \in Statuses |->
    CASE s = "new" -> {"in_progress", "on_hold", "resolved", "cancelled"}
      [] s = "in_progress" -> {"on_hold", "resolved", "cancelled"}
      [] s = "on_hold" -> {"in_progress", "resolved", "cancelled"}
      [] s = "resolved" -> {"in_progress", "closed"}
      [] OTHER -> {}]

\* Mutant: a transition invalidates the comments only.
InvalidatesComments ==
  [transition |-> {"comments"}, update |-> {"ticket"}, comment |-> {"comments"}]

\* The queries each mutation invalidates on success (the list of tickets is on
\* another page, and fetched when that is opened).
Invalidates ==
  [transition |-> {"ticket", "comments"}, update |-> {"ticket"}, comment |-> {"comments"}]

Changes(op) == IF op = "comment" THEN "comments" ELSE "ticket"
ticket == history[Len(history)]
Asked == 0

\* The page shows the ticket and its forms: no spinner, no error.
Showing == open /\ view["ticket"] # 0 /\ ~failed["ticket"]

-----------------------------------------------------------------------------
(* The cache *)

Init ==
  /\ history = <<[status |-> "new", assignee |-> None]>>
  /\ comments = 1
  /\ open = TRUE
  /\ view = [k \in Queries |-> 0]
  /\ failed = [k \in Queries |-> FALSE]
  /\ fetch = [k \in Queries |-> Asked]
  /\ next = None
  /\ requests = <<>>
  /\ pending = [op \in Operations |-> None]
  /\ owed = [k \in Queries |-> 0]
  /\ resends = 0

\* The service answers a GET.
ServeFetch(k) ==
  /\ fetch[k] = Asked
  /\ fetch' = [fetch EXCEPT ![k] = Latest(k)]
  /\ UNCHANGED <<service, open, view, failed, next, requests, pending, owed, resends>>

\* The forms that go away with the ticket's page, or with a new assignee (the
\* comment form stays then): the choice is reset, pending writes are forgotten.
Unmount(ops) ==
  /\ next' = None
  /\ pending' = [op \in Operations |-> IF op \in ops THEN None ELSE pending[op]]

\* A comment that is answered stays pending until the refetch of the list ends.
Refetched(k) ==
  /\ pending' = IF /\ k = "comments" /\ pending["comment"] # None
                   /\ requests[pending["comment"]] = Done
                THEN [pending EXCEPT !["comment"] = None] ELSE pending
  /\ UNCHANGED next

ArriveFetch(k) ==
  LET got == fetch[k] IN
  /\ got \notin {None, Asked}
  /\ view' = [view EXCEPT ![k] = got]
  /\ failed' = [failed EXCEPT ![k] = FALSE]
  /\ fetch' = [fetch EXCEPT ![k] = None]
  /\ IF k = "ticket" /\ Showing /\ history[got].assignee # history[view[k]].assignee
     THEN Unmount({"transition", "update"})
     ELSE Refetched(k)
  /\ UNCHANGED <<service, open, requests, owed, resends>>

\* A GET fails for good, after the one retry of main.tsx:11, which is no more than
\* a slower fetch here: the query is in error.  The ticket's replaces the page.
LoseFetch(k) ==
  /\ fetch[k] # None
  /\ fetch' = [fetch EXCEPT ![k] = None]
  /\ failed' = [failed EXCEPT ![k] = TRUE]
  /\ IF k = "ticket" THEN Unmount(Operations) ELSE Refetched(k)
  /\ UNCHANGED <<service, open, view, requests, owed, resends>>

\* Back to the queue ...
Leave ==
  /\ open /\ open' = FALSE
  /\ Unmount(Operations)
  /\ UNCHANGED <<service, cache, requests, owed, resends>>

\* ... and to the ticket again: what is cached is shown and fetched anew, unless
\* a fetch is still in flight.
Return ==
  /\ ~open /\ open' = TRUE
  /\ fetch' = [k \in Queries |-> IF fetch[k] = None THEN Asked ELSE fetch[k]]
  /\ UNCHANGED <<service, view, failed, next, requests, pending, owed, resends>>

-----------------------------------------------------------------------------
(* Writes *)

Select ==
  /\ Showing /\ "transition" \in Menu
  /\ \E s \in TRANSITIONS[history[view["ticket"]].status] \cap Targets :
       next' = [to |-> s, picked |-> view["ticket"]]
  /\ UNCHANGED <<service, open, cache, requests, pending, owed, resends>>

\* Mutant: the change is shown before it is answered.
SubmitOptimistic(op, to, picked) ==
  /\ Showing /\ op \in Menu /\ Len(requests) < MaxWrites
  /\ pending[op] = None
  /\ requests' = Append(requests,
       [op |-> op, to |-> to, picked |-> picked, at |-> "sent", rev |-> 0])
  /\ pending' = [pending EXCEPT ![op] = Len(requests) + 1]
  /\ view' = [view EXCEPT ![Changes(op)] = @ + 1]
  /\ UNCHANGED <<service, open, failed, fetch, next, owed, resends>>

\* A button is disabled while the last write of its form is pending.  Only a status
\* is picked from a version; the others have 0.
Submit(op, to, picked) ==
  /\ Showing /\ op \in Menu /\ Len(requests) < MaxWrites
  /\ pending[op] = None
  /\ requests' = Append(requests,
       [op |-> op, to |-> to, picked |-> picked, at |-> "sent", rev |-> 0])
  /\ pending' = [pending EXCEPT ![op] = Len(requests) + 1]
  /\ UNCHANGED <<service, open, cache, next, owed, resends>>

\* Apply sends the choice, also when a refetch has changed the options since.
Apply == next # None /\ Submit("transition", next.to, next.picked)
Save == \E a \in Assignees : Submit("update", a, 0)
AddComment == Submit("comment", None, 0)

\* What a write does to the ticket.
Write(op, to) ==
  CASE op = "transition" ->
         history' = Append(history, [ticket EXCEPT !.status = to]) /\ UNCHANGED comments
    [] op = "update" ->
         history' = Append(history, [ticket EXCEPT !.assignee = to]) /\ UNCHANGED comments
    [] op = "comment" ->
         comments' = comments + 1 /\ UNCHANGED history

\* The service handles the request the proxy has forwarded, also when nobody
\* waits for it any more.
Serve(i) ==
  LET r == requests[i]
      refused == r.op = "transition" /\ ~CanTransition(ticket.status, r.to)
  IN
  /\ r.at \in {"sent", "abandoned"}
  /\ IF refused THEN UNCHANGED service ELSE Write(r.op, r.to)
  /\ requests' = [requests EXCEPT ![i] =
       CASE r.at = "abandoned" -> Done
         [] r.at = "sent" /\ refused -> [r EXCEPT !.at = "conflict"]
         [] OTHER -> [r EXCEPT !.at = "ok", !.rev = Latest(Changes(r.op)) + 1]]
  /\ UNCHANGED <<open, cache, next, pending, owed, resends>>

\* It closes the connection before it answers: the client of the proxy sends the
\* request again.
Resend(i) ==
  /\ requests[i].at \in {"ok", "conflict"}
  /\ resends < MaxResends /\ resends' = resends + 1
  /\ requests' = [requests EXCEPT ![i].at = "sent"]
  /\ UNCHANGED <<service, open, cache, next, pending, owed>>

\* Everybody else's writes.
Others ==
  /\ \E op \in OthersMenu, to \in Targets \cup Assignees \cup {None} :
       /\ Latest(Changes(op)) < MaxRevision
       /\ op = "transition" => to \in Targets /\ CanTransition(ticket.status, to)
       /\ op = "update" => to \in Assignees
       /\ op = "comment" => to = None
       /\ Write(op, to)
  /\ UNCHANGED <<open, cache, next, requests, pending, owed, resends>>

\* The form of request i is no longer waiting for it.
Release(i) == [op \in Operations |-> IF pending[op] = i THEN None ELSE pending[op]]

\* Mutant: the answer is put into the cache beside the fetch in flight.
SettleWriting(i) ==
  LET r == requests[i] IN
  /\ r.at = "ok"
  /\ requests' = [requests EXCEPT ![i] = Done]
  /\ view' = [view EXCEPT ![Changes(r.op)] = r.rev]
  /\ next' = IF pending["transition"] = i THEN None ELSE next
  /\ pending' = Release(i)
  /\ UNCHANGED <<service, open, failed, fetch, owed, resends>>

\* The answer is a success: what the write invalidates is fetched again.  A fetch
\* in flight is cancelled, unless there is no data or nobody is looking; that
\* ends the wait of the comment it was for.
Settle(i) ==
  LET r == requests[i]
      joined(k) == fetch[k] # None /\ (~open \/ view[k] = 0)
      cancels == "comments" \in Invalidates[r.op] /\ ~joined("comments")
      ended(op) == IF pending[op] = i THEN op # "comment"
                   ELSE /\ op = "comment" /\ pending[op] # None /\ cancels
                        /\ requests[pending[op]] = Done
  IN
  /\ r.at = "ok"
  /\ requests' = [requests EXCEPT ![i] = Done]
  /\ fetch' = [k \in Queries |->
       IF open /\ k \in Invalidates[r.op] /\ ~joined(k) THEN Asked ELSE fetch[k]]
  /\ owed' = [owed EXCEPT ![Changes(r.op)] =
       IF joined(Changes(r.op)) \/ r.rev < @ THEN @ ELSE r.rev]
  /\ next' = IF pending["transition"] = i THEN None ELSE next
  /\ pending' = [op \in Operations |-> IF ended(op) THEN None ELSE pending[op]]
  /\ UNCHANGED <<service, open, view, failed, resends>>

\* The answer is a 409: it is shown, and nothing is invalidated.
SettleError(i) ==
  /\ requests[i].at = "conflict"
  /\ requests' = [requests EXCEPT ![i] = Done]
  /\ pending' = Release(i)
  /\ UNCHANGED <<service, open, cache, next, owed, resends>>

\* Mutant: the proxy waits for the upstream however long it takes.
TimeoutNever(i) == FALSE /\ UNCHANGED vars

\* The answer is a 5xx: the service fails, or the proxy gives up on it after 30
\* seconds with a 502, whatever it has done or will still do.
Timeout(i) ==
  /\ requests[i].at \in {"sent", "ok", "conflict"}
  /\ requests' = [requests EXCEPT ![i] =
       IF @.at = "sent" THEN [@ EXCEPT !.at = "abandoned"] ELSE Done]
  /\ pending' = Release(i)
  /\ UNCHANGED <<service, open, cache, next, owed, resends>>

Next ==
  \/ \E k \in Queries : ServeFetch(k) \/ ArriveFetch(k) \/ LoseFetch(k)
  \/ Leave \/ Return \/ Select \/ Apply \/ Save \/ AddComment \/ Others
  \/ \E i \in Ids :
       Serve(i) \/ Resend(i) \/ Settle(i) \/ SettleError(i) \/ Timeout(i)

Spec == Init /\ [][Next]_vars

\* Answers reach the browser, and the proxy's timeout stands in for the ones
\* that do not come.  Nothing is assumed of the service, of others or the agent.
FairSpec ==
  /\ Spec
  /\ \A k \in Queries : WF_vars(ArriveFetch(k) \/ LoseFetch(k))
  /\ \A i \in 1..MaxWrites : WF_vars(i \in Ids /\ (Settle(i) \/ SettleError(i) \/ Timeout(i)))

-----------------------------------------------------------------------------
(* Properties *)

\* A page at rest shows at least what its own acknowledged writes have made,
\* however the invalidations of several writes, late answers of older fetches,
\* other agents' writes and leaving the page interleave (hooks.ts:51-78).  Left
\* out of what is owed: a write whose invalidation joins a fetch in flight.
FreshAfterWrite ==
  \A k \in Queries :
    open /\ fetch[k] = None /\ ~failed[k] => view[k] >= owed[k]

\* "mirror of the Go domain" (meta.ts:40): a transition is refused only when the
\* status has changed since the agent chose it, be it by the same request sent
\* twice, never because the page offered what the service does not allow.
RefusedOnlyIfChanged ==
  \A i \in Ids :
    requests[i].at = "conflict" =>
      \E j \in requests[i].picked + 1 .. Len(history) :
        history[j].status # history[requests[i].picked].status

\* What is shown never goes back to an older state, whatever answers late.
ViewsAdvance == [][\A k \in Queries : view'[k] >= view[k]]_vars

\* No button and no spinner stays locked: every write is answered and every
\* query comes to rest again and again, even if the service hangs.
PageSettles ==
  /\ \A k \in Queries : []<>(fetch[k] = None)
  /\ \A i \in 1..MaxWrites : []<>(i \in Ids => requests[i].at \in {"abandoned", "done"})
=============================================================================
