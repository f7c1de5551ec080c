---------------------------- MODULE TicketStore ----------------------------
(***************************************************************************)
(* The ticketing store (services/ticketing/internal/store): concurrent     *)
(* handlers run one PostgreSQL transaction each over the work_items,       *)
(* comments and events tables, then announce the committed change on the   *)
(* event bus.                                                              *)
(*                                                                         *)
(* A handler slot r walks through the program counters                     *)
(*   idle -> queued -> begun -> locked -> committed -> idle                *)
(* queued waits for a pooled connection, begun holds an open transaction,  *)
(* locked has run the first statement (which takes the row lock, or the    *)
(* sequence value of a create), committed has still to publish.  Writes    *)
(* become visible to the others at commit, as under READ COMMITTED; the    *)
(* row locks taken by the statements are in tx[r].lock.                    *)
(***************************************************************************)
EXTENDS TicketDomain, Sequences, FiniteSets

CONSTANTS
  Reqs,      \* handler slots, each serving one store call at a time
  Items,     \* the uuids work items can get
  Absent,    \* a well-formed uuid that names no work item
  Menu,      \* the operations the clients ask for, a subset of Operations
  PoolSize,  \* connections of the pgx pool
  MaxTx,     \* bound on the transactions begun in a behaviour
  None       \* no value: SQL NULL, a missing key, no connection

Operations ==
  [op : {"create"}, arg : Types] \cup
  [op : {"update"}, arg : {"assigned", "updated"}] \cup
  [op : {"transition"}, arg : Statuses] \cup
  [op : {"comment"}, arg : {"internal", "public"}]

ASSUME MenuAssumption == Menu \subseteq Operations
ASSUME PoolAssumption == PoolSize \in Nat /\ PoolSize > 0
ASSUME ItemAssumption == Absent \notin Items

VARIABLES
  row,       \* work_items: item -> row, None while there is none
  events,    \* events: item -> its rows in the order they were committed
  comments,  \* comments: the set of committed rows
  seq,       \* the number sequences, one per type
  clock,     \* the database clock, advanced by every transaction start
  pc,        \* program counter of each handler
  call,      \* the store call each handler serves
  tx,        \* the open transaction of each handler, None when it has none
  reply,     \* what the handler's last call returned
  outbox,    \* messages buffered in the process by PublishAsync
  bus        \* messages stored by the JetStream stream, in order

tables == <<row, events, comments>>
wire == <<outbox, bus>>
vars == <<row, events, comments, seq, clock, pc, call, tx, reply, outbox, bus>>

-----------------------------------------------------------------------------
(* Types *)

Calls == [op : {"create", "update", "transition", "comment"},
          arg : Types \cup Statuses \cup {"assigned", "updated", "internal", "public"},
          item : Items \cup {Absent}]

Numbers == [prefix : {"INC", "REQ"}, n : Nat]

Rows == [type : Types, number : Numbers, status : Statuses,
         created_at : Nat, updated_at : Nat, closed_at : Nat \cup {None}]

Events == [kind : EventKinds, from : Statuses \cup {None},
           to : Statuses \cup {None}, at : Nat]

Comments == [item : Items, internal : BOOLEAN, at : Nat]

Modes == {"key_share", "no_key_update", "update"}

Transactions == [at : Nat, lock : Modes \cup {None}, seen : Statuses \cup {None}, n : Nat]

Outcomes == {"ok", "not_found", "invalid_transition", "error", "lost"}

Replies == [outcome : Outcomes, item : Items \cup {Absent}, at : Nat]

Messages == [item : Items, event : Events]

PcLabels == {"idle", "queued", "begun", "locked", "committed"}

\* NULL is none of the values it stands beside.
ASSUME NoneAssumption ==
  /\ None \notin Statuses \cup Nat \cup Modes
  /\ None \notin Calls /\ None \notin Rows /\ None \notin Transactions /\ None \notin Replies

TypeOK ==
  /\ row \in [Items -> Rows \cup {None}]
  /\ events \in [Items -> Seq(Events)]
  /\ comments \subseteq Comments
  /\ seq \in [Types -> Nat]
  /\ clock \in Nat
  /\ pc \in [Reqs -> PcLabels]
  /\ call \in [Reqs -> Calls \cup {None}]
  /\ tx \in [Reqs -> Transactions \cup {None}]
  /\ reply \in [Reqs -> Replies \cup {None}]
  /\ outbox \in Seq(Messages)
  /\ bus \in Seq(Messages)

-----------------------------------------------------------------------------
(* PostgreSQL as the store uses it *)

Exists(w) == w \in Items /\ row[w] # None

\* Mutant: Transition reads with FOR KEY SHARE, which excludes nobody.
ConflictShared(m1, m2) == m1 = "no_key_update" /\ m2 = "no_key_update"

\* Row-level lock modes that exclude each other.  FOR KEY SHARE is taken on the
\* work item by the foreign key of an inserted comment or event, FOR NO KEY
\* UPDATE by an UPDATE of its fields, FOR UPDATE by SELECT ... FOR UPDATE.
Conflict(m1, m2) ==
  \/ m1 = "update" \/ m2 = "update"
  \/ m1 = "no_key_update" /\ m2 = "no_key_update"

\* No other open transaction holds a lock on w that excludes mode m.
Grantable(r, w, m) ==
  \A o \in Reqs \ {r} :
    (tx[o] # None /\ call[o].item = w /\ tx[o].lock # None) => ~Conflict(tx[o].lock, m)

\* Transactions that hold a pooled connection.
OpenTxs == {r \in Reqs : tx[r] # None /\ pc[r] # "committed"}

\* A transaction begun at time at: its row lock, the status it read under the
\* lock, the sequence value it drew.
Txn(at, lock, seen, n) == [at |-> at, lock |-> lock, seen |-> seen, n |-> n]

\* The kind of event a call records.
Kind(c) == IF c.op = "create" THEN "created"
           ELSE IF c.op = "transition" THEN "status_changed"
           ELSE IF c.op = "comment" THEN "commented" ELSE c.arg

\* insertEvent: stamped with now(), the start time of the transaction.
EventOf(r) ==
  LET moved == call[r].op = "transition" IN
  [kind |-> Kind(call[r]),
   from |-> IF moved THEN tx[r].seen ELSE None,
   to   |-> IF moved THEN call[r].arg ELSE None,
   at   |-> tx[r].at]

\* Mutants: INSERT with the type bound to the status column; closed_at forgotten
\* on cancellation; assigning an item silently starts work on it.
InsertedRowSwapped(r) ==
  [type |-> call[r].arg, number |-> FormatNumber(call[r].arg, tx[r].n), status |-> call[r].arg,
   created_at |-> tx[r].at, updated_at |-> tx[r].at, closed_at |-> None]

MovedRowOpenCancelled(r) ==
  [row[call[r].item] EXCEPT !.status = call[r].arg, !.updated_at = tx[r].at,
     !.closed_at = IF call[r].arg = "closed" THEN tx[r].at ELSE @]

PatchedRowStarted(r) ==
  [row[call[r].item] EXCEPT !.updated_at = tx[r].at, !.status = "in_progress"]

\* The rows the statements of Create, Transition and Update write.
InsertedRow(r) ==
  [type |-> call[r].arg, number |-> FormatNumber(call[r].arg, tx[r].n), status |-> "new",
   created_at |-> tx[r].at, updated_at |-> tx[r].at, closed_at |-> None]

MovedRow(r) ==
  [row[call[r].item] EXCEPT !.status = call[r].arg, !.updated_at = tx[r].at,
     !.closed_at = IF IsTerminal(call[r].arg) THEN tx[r].at ELSE @]

PatchedRow(r) == [row[call[r].item] EXCEPT !.updated_at = tx[r].at]

RowOf(r) ==
  IF call[r].op = "create" THEN InsertedRow(r)
  ELSE IF call[r].op = "transition" THEN MovedRow(r)
  ELSE IF call[r].op = "update" THEN PatchedRow(r)
  ELSE row[call[r].item]

\* What committing r's transaction does to the tables.
Apply(r) ==
  LET w == call[r].item IN
  /\ row' = [row EXCEPT ![w] = RowOf(r)]
  /\ events' = [events EXCEPT ![w] = Append(@, EventOf(r))]
  /\ comments' = comments \cup
       (IF call[r].op # "comment" THEN {}
        ELSE {[item |-> w, internal |-> call[r].arg = "internal", at |-> tx[r].at]})

\* Mutant: no deferred Rollback, so an early return leaks its transaction.
ReturnLeaking(r, outcome) ==
  /\ reply' = [reply EXCEPT ![r] =
       [outcome |-> outcome, item |-> call[r].item,
        at |-> IF tx[r] = None THEN 0 ELSE tx[r].at]]
  /\ pc' = [pc EXCEPT ![r] = "idle"]
  /\ UNCHANGED <<call, tx>>

\* The call returns; its deferred Rollback closes the transaction if it is open.
Return(r, outcome) ==
  /\ reply' = [reply EXCEPT ![r] =
       [outcome |-> outcome, item |-> call[r].item,
        at |-> IF tx[r] = None THEN 0 ELSE tx[r].at]]
  /\ pc' = [pc EXCEPT ![r] = "idle"]
  /\ call' = [call EXCEPT ![r] = None]
  /\ tx' = [tx EXCEPT ![r] = None]
-----------------------------------------------------------------------------
(* The store's operations, one handler slot at a time *)

Init ==
  /\ row = [w \in Items |-> None]
  /\ events = [w \in Items |-> <<>>]
  /\ comments = {}
  /\ seq = [t \in Types |-> 1000]
  /\ clock = 0
  /\ pc = [r \in Reqs |-> "idle"]
  /\ call = [r \in Reqs |-> None]
  /\ tx = [r \in Reqs |-> None]
  /\ reply = [r \in Reqs |-> None]
  /\ outbox = <<>>
  /\ bus = <<>>

\* Bound of the model: transactions begun and calls waiting to begin one.
InBudget == clock + Cardinality({r \in Reqs : pc[r] = "queued"}) < MaxTx

\* The id a caller can name: the one gen_random_uuid will give to a create, an
\* item some caller has seen, or an id that is not there.
Nameable(m) ==
  IF m.op = "create"
  THEN {w \in Items : row[w] = None /\ \A r \in Reqs : call[r] # None => call[r].item # w}
  ELSE {w \in Items : Exists(w)} \cup {Absent}

\* A handler calls Create, Update, Transition or AddComment.
Invoke(r, c) ==
  /\ pc[r] = "idle" /\ InBudget
  /\ call' = [call EXCEPT ![r] = c]
  /\ pc' = [pc EXCEPT ![r] = "queued"]
  /\ reply' = [reply EXCEPT ![r] = None]
  /\ UNCHANGED <<tables, seq, clock, tx, wire>>

Call(r) ==
  \E m \in Menu : \E w \in Nameable(m) : Invoke(r, [op |-> m.op, arg |-> m.arg, item |-> w])

\* pool.Begin: a free connection, and now() fixed for the whole transaction.
Begin(r) ==
  /\ pc[r] = "queued"
  /\ Cardinality(OpenTxs) < PoolSize
  /\ clock' = clock + 1
  /\ tx' = [tx EXCEPT ![r] = Txn(clock + 1, None, None, 0)]
  /\ pc' = [pc EXCEPT ![r] = "begun"]
  /\ UNCHANGED <<tables, seq, call, reply, wire>>

\* Mutant: the number is computed from the rows there are.
AllocateFromRows(r) ==
  LET t == call[r].arg IN
  /\ pc[r] = "begun" /\ call[r].op = "create"
  /\ tx' = [tx EXCEPT ![r] = Txn(@.at, None, None,
       1001 + Cardinality({w \in Items : row[w] # None /\ row[w].type = t}))]
  /\ pc' = [pc EXCEPT ![r] = "locked"]
  /\ UNCHANGED <<tables, seq, clock, call, reply, wire>>

\* Create: nextval, then the INSERTs.  nextval is not undone by a rollback.
AllocateNumber(r) ==
  LET t == call[r].arg IN
  /\ pc[r] = "begun" /\ call[r].op = "create"
  /\ seq' = [seq EXCEPT ![t] = @ + 1]
  /\ tx' = [tx EXCEPT ![r] = Txn(@.at, None, None, seq[t] + 1)]
  /\ pc' = [pc EXCEPT ![r] = "locked"]
  /\ UNCHANGED <<tables, clock, call, reply, wire>>

\* Transition: SELECT status ... FOR UPDATE, then the state-machine check; the
\* UPDATE and the event INSERT follow under the same lock.
SelectForUpdate(r) ==
  LET w == call[r].item IN
  /\ pc[r] = "begun" /\ call[r].op = "transition"
  /\ Exists(w) /\ Grantable(r, w, "update")
  /\ CanTransition(row[w].status, call[r].arg)
  /\ tx' = [tx EXCEPT ![r] = Txn(@.at, "update", row[w].status, 0)]
  /\ pc' = [pc EXCEPT ![r] = "locked"]
  /\ UNCHANGED <<tables, seq, clock, call, reply, wire>>

RefuseTransition(r) ==
  LET w == call[r].item IN
  /\ pc[r] = "begun" /\ call[r].op = "transition"
  /\ Exists(w) /\ Grantable(r, w, "update")
  /\ ~CanTransition(row[w].status, call[r].arg)
  /\ Return(r, "invalid_transition")
  /\ UNCHANGED <<tables, seq, clock, wire>>

\* Update: UPDATE ... SET of the patched columns, and updated_at = now().
UpdateFields(r) ==
  LET w == call[r].item IN
  /\ pc[r] = "begun" /\ call[r].op = "update"
  /\ Exists(w) /\ Grantable(r, w, "no_key_update")
  /\ tx' = [tx EXCEPT ![r] = Txn(@.at, "no_key_update", None, 0)]
  /\ pc' = [pc EXCEPT ![r] = "locked"]
  /\ UNCHANGED <<tables, seq, clock, call, reply, wire>>

\* Mutant: the comment is inserted through the pool, outside the transaction.
InsertCommentOutside(r) ==
  LET w == call[r].item IN
  /\ pc[r] = "begun" /\ call[r].op = "comment"
  /\ Exists(w) /\ Grantable(r, w, "key_share")
  /\ comments' = comments \cup
       {[item |-> w, internal |-> call[r].arg = "internal", at |-> tx[r].at]}
  /\ tx' = [tx EXCEPT ![r] = Txn(@.at, "key_share", None, 0)]
  /\ pc' = [pc EXCEPT ![r] = "locked"]
  /\ UNCHANGED <<row, events, seq, clock, call, reply, wire>>

\* AddComment: SELECT EXISTS, then the INSERT whose foreign key locks the item.
InsertComment(r) ==
  LET w == call[r].item IN
  /\ pc[r] = "begun" /\ call[r].op = "comment"
  /\ Exists(w) /\ Grantable(r, w, "key_share")
  /\ tx' = [tx EXCEPT ![r] = Txn(@.at, "key_share", None, 0)]
  /\ pc' = [pc EXCEPT ![r] = "locked"]
  /\ UNCHANGED <<tables, seq, clock, call, reply, wire>>

\* ErrNotFound from the first statement of Update, Transition or AddComment.
NotFound(r) ==
  /\ pc[r] = "begun" /\ call[r].op # "create"
  /\ ~Exists(call[r].item)
  /\ Return(r, "not_found")
  /\ UNCHANGED <<tables, seq, clock, wire>>

\* tx.Commit succeeds: the writes appear at once and the locks go.
Commit(r) ==
  /\ pc[r] = "locked"
  /\ Apply(r)
  /\ tx' = [tx EXCEPT ![r] = Txn(@.at, None, @.seen, @.n)]
  /\ pc' = [pc EXCEPT ![r] = "committed"]
  /\ UNCHANGED <<seq, clock, call, reply, wire>>

\* tx.Commit applied by the server but its answer lost: the handler returns the
\* error and never publishes.
CommitUnacknowledged(r) ==
  /\ pc[r] = "locked"
  /\ Apply(r)
  /\ Return(r, "error")
  /\ UNCHANGED <<seq, clock, wire>>

\* Mutants: a failed commit is ignored; the event is published before the commit.
FailIgnored(r) ==
  /\ pc[r] \in {"queued", "begun", "locked"}
  /\ Return(r, IF pc[r] = "locked" THEN "ok" ELSE "error")
  /\ UNCHANGED <<tables, seq, clock, wire>>

FailAnnounced(r) ==
  /\ pc[r] \in {"queued", "begun", "locked"}
  /\ outbox' = IF pc[r] # "locked" THEN outbox
               ELSE Append(outbox, [item |-> call[r].item, event |-> EventOf(r)])
  /\ Return(r, "error")
  /\ UNCHANGED <<tables, seq, clock, bus>>

\* Begin, a statement, or Commit fails: the error is returned, all is undone.
Fail(r) ==
  /\ pc[r] \in {"queued", "begun", "locked"}
  /\ Return(r, "error")
  /\ UNCHANGED <<tables, seq, clock, wire>>

\* publish: best effort, so the message is queued or lost and the call is ok.
\* The bus payload is the event just committed, without its timestamp.
Publish(r) ==
  /\ pc[r] = "committed"
  /\ outbox' \in {outbox, Append(outbox, [item |-> call[r].item, event |-> EventOf(r)])}
  /\ Return(r, "ok")
  /\ UNCHANGED <<tables, seq, clock, bus>>

\* The NATS client sends its buffer in the background, in order.
Flush ==
  /\ outbox # <<>>
  /\ bus' = Append(bus, Head(outbox))
  /\ outbox' = Tail(outbox)
  /\ UNCHANGED <<tables, seq, clock, pc, call, tx, reply>>

\* The process dies and is restarted: the server aborts the transactions of its
\* connections, the clients lose their answers, the buffer is gone.
Crash ==
  /\ reply' = [r \in Reqs |->
       IF pc[r] = "idle" THEN reply[r]
       ELSE [outcome |-> "lost", item |-> call[r].item,
             at |-> IF tx[r] = None THEN 0 ELSE tx[r].at]]
  /\ pc' = [r \in Reqs |-> "idle"]
  /\ call' = [r \in Reqs |-> None]
  /\ tx' = [r \in Reqs |-> None]
  /\ outbox' = <<>>
  /\ UNCHANGED <<tables, seq, clock, bus>>

Statement(r) ==
  \/ AllocateNumber(r) \/ SelectForUpdate(r) \/ RefuseTransition(r)
  \/ UpdateFields(r) \/ InsertComment(r) \/ NotFound(r)

Progress(r) == Begin(r) \/ Statement(r) \/ Commit(r) \/ Publish(r)

Next ==
  \/ \E r \in Reqs : Call(r) \/ Progress(r) \/ CommitUnacknowledged(r) \/ Fail(r)
  \/ Flush
  \/ Crash

Spec == Init /\ [][Next]_vars

\* The pool and the row-lock queues are served in arrival order, so a handler
\* that can go on infinitely often does; errors and crashes owe us nothing.
Fairness == (\A r \in Reqs : SF_vars(Progress(r))) /\ WF_vars(Flush)

FairSpec == Spec /\ Fairness

-----------------------------------------------------------------------------
(* Properties *)

IsMove(e) == e.kind = "status_changed"

\* s is the status an item has after the first i events of its history es.
StatusAfter(es, i, s) ==
  \/ s = "new" /\ \A k \in 1..i : ~IsMove(es[k])
  \/ \E k \in 1..i :
       /\ IsMove(es[k]) /\ es[k].to = s
       /\ \A j \in (k + 1)..i : ~IsMove(es[j])

\* The history es, replayed from "new", is legal and ends in status s.
Replays(es, s) ==
  /\ StatusAfter(es, Len(es), s)
  /\ \A i \in 1..Len(es) : IsMove(es[i]) =>
       /\ StatusAfter(es, i - 1, es[i].from)
       /\ CanTransition(es[i].from, es[i].to)

\* The history, in commit order, replays to the status in the table: every
\* status_changed leaves the status the ones before it led to, along an edge of
\* the machine, and the last one leads to the current status.  This is what the
\* FOR UPDATE of Transition (store.go:295) is for: without it two transitions
\* validated against the same status would both commit.
HistoryReplays ==
  \A w \in Items : row[w] # None => Replays(events[w], row[w].status)

\* The history es holds the move to status s stamped at.
HasMove(es, s, at) ==
  \E i \in 1..Len(es) : IsMove(es[i]) /\ es[i].to = s /\ es[i].at = at

\* closed_at is set exactly on the terminal items (store.go:306-311), to the
\* stamp of the event that closed the item, whatever updates race the closing.
ClosedAtMatchesHistory ==
  \A w \in Items : row[w] # None =>
    /\ IsTerminal(row[w].status) <=> row[w].closed_at # None
    /\ row[w].closed_at # None => HasMove(events[w], row[w].status, row[w].closed_at)

\* A closed or cancelled item never changes status or closing time again, though
\* its fields can still be patched and comments added (store.go:226, 331).
TerminalIsFinal ==
  [][\A w \in Items : (row[w] # None /\ IsTerminal(row[w].status)) =>
       /\ row'[w] # None
       /\ row'[w].status = row[w].status
       /\ row'[w].closed_at = row[w].closed_at]_vars

\* No two work items carry the same human number, even when creates race or roll
\* back: the UNIQUE constraint (0001_init.sql:10) never has to refuse an INSERT.
NumbersUnique ==
  \A v, w \in Items :
    (v # w /\ row[v] # None /\ row[w] # None) => row[v].number # row[w].number

\* Everything said on the bus happened: a message, buffered or stored, is a
\* committed event of its item, and no event is announced twice
\* (store.go:69-71, publish runs after Commit).
AnnouncedIsDurable ==
  LET sent == bus \o outbox IN
  /\ \A i \in 1..Len(sent) :
       \E k \in 1..Len(events[sent[i].item]) : events[sent[i].item][k] = sent[i].event
  /\ \A i, j \in 1..Len(sent) : i # j => sent[i] # sent[j]

\* A call that returned ok left exactly one event, one that returned
\* ErrNotFound or ErrInvalidTransition left none.  (An error or a lost answer
\* leaves one or none.)
RepliesTruthful ==
  \A r \in Reqs : reply[r] # None =>
    LET stamped == IF reply[r].item = Absent THEN {}
                   ELSE {k \in 1..Len(events[reply[r].item]) :
                           events[reply[r].item][k].at = reply[r].at} IN
    /\ reply[r].outcome = "ok" => Cardinality(stamped) = 1
    /\ reply[r].outcome \in {"not_found", "invalid_transition"} => stamped = {}

\* A commented event has its comment row and a comment row its event: the two
\* INSERTs of AddComment (store.go:347-360) stand or fall together.
CommentsMatchHistory ==
  \A w \in Items :
    {c.at : c \in {d \in comments : d.item = w}} =
    {events[w][i].at : i \in {k \in 1..Len(events[w]) : events[w][k].kind = "commented"}}

\* Every call returns: the row locks and the pool never leave the handlers
\* waiting for each other.
CallReturns == \A r \in Reqs : pc[r] = "queued" ~> pc[r] = "idle"

\* The store implements the ledger: what concurrent, failing transactions commit
\* is some sequence of whole operations, each on the item as the previous one
\* left it.  The timestamps are the store's own and are left out of the trail.
ledgerStatus == [w \in Items |-> IF row[w] = None THEN None ELSE row[w].status]

ledgerTrail ==
  [w \in Items |-> [i \in 1..Len(events[w]) |->
     [kind |-> events[w][i].kind, from |-> events[w][i].from, to |-> events[w][i].to]]]

Ledger == INSTANCE TicketLedger WITH status <- ledgerStatus, trail <- ledgerTrail

ImplementsLedger == Ledger!Spec
=============================================================================
