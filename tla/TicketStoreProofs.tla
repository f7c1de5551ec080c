------------------------- MODULE TicketStoreProofs -------------------------
(***************************************************************************)
(* Theorems about TicketStore, for any number of handlers, items and       *)
(* connections.                                                            *)
(***************************************************************************)
EXTENDS TicketStore, TLAPS

(***************************************************************************)
(* What is known of a handler at each program counter, beside the types of *)
(* the variables.                                                          *)
(***************************************************************************)
HandlerOK ==
  \A r \in Reqs :
    /\ pc[r] = "idle" <=> call[r] = None
    /\ pc[r] \in {"begun", "locked", "committed"} <=> tx[r] # None
    /\ call[r] # None =>
         /\ [op |-> call[r].op, arg |-> call[r].arg] \in Operations
         /\ call[r].op = "create" => call[r].item \in Items
    /\ pc[r] \in {"locked", "committed"} => call[r].item \in Items
    /\ (pc[r] \in {"locked", "committed"} /\ call[r].op = "transition") => tx[r].seen \in Statuses

\* Whoever holds a row lock holds it on a row that is there.
TargetsExist ==
  \A r \in Reqs : (pc[r] = "locked" /\ call[r].op # "create") => row[call[r].item] # None

Typed == TypeOK /\ HandlerOK /\ TargetsExist

USE DEF PcLabels

LEMMA EventOfType ==
  ASSUME Typed, NEW r \in Reqs, pc[r] \in {"locked", "committed"}
  PROVE  EventOf(r) \in Events
<1>1. call[r] \in Calls /\ tx[r] \in Transactions
  BY DEF Typed, TypeOK, HandlerOK
<1>2. CASE call[r].op = "transition"
  <2>1. call[r].arg \in Statuses
    BY <1>1, <1>2, NoneAssumption DEF Typed, HandlerOK, Operations
  <2> QED
    BY <1>1, <1>2, <2>1 DEF Typed, HandlerOK, EventOf, Kind, Events, EventKinds, Transactions
<1>3. CASE call[r].op # "transition"
  <2>1. Kind(call[r]) \in EventKinds
    BY <1>1, <1>3, NoneAssumption DEF Typed, HandlerOK, Kind, EventKinds, Operations, Calls
  <2> QED
    BY <1>1, <1>3, <2>1 DEF EventOf, Events, Transactions
<1> QED
  BY <1>2, <1>3

LEMMA RowOfType ==
  ASSUME Typed, NEW r \in Reqs, pc[r] = "locked"
  PROVE  RowOf(r) \in Rows
<1>1. call[r] \in Calls /\ tx[r] \in Transactions /\ call[r].item \in Items
  BY DEF Typed, TypeOK, HandlerOK
<1>2. [op |-> call[r].op, arg |-> call[r].arg] \in Operations
  BY <1>1, NoneAssumption DEF Typed, HandlerOK
<1>3. CASE call[r].op = "create"
  <2>1. call[r].arg \in Types
    BY <1>2, <1>3 DEF Operations
  <2>2. FormatNumber(call[r].arg, tx[r].n) \in Numbers
    BY <1>1 DEF FormatNumber, NumberPrefix, Numbers, Transactions
  <2> QED
    BY <1>1, <1>3, <2>1, <2>2 DEF RowOf, InsertedRow, Rows, Statuses, Transactions
<1>4. CASE call[r].op # "create"
  <2>1. row[call[r].item] \in Rows
    BY <1>1, <1>4 DEF Typed, TypeOK, TargetsExist
  <2>2. call[r].op = "transition" => call[r].arg \in Statuses
    BY <1>2 DEF Operations
  <2>3. call[r].op = "transition" => MovedRow(r) \in Rows
    BY <1>1, <2>1, <2>2 DEF MovedRow, Rows, Transactions
  <2>4. PatchedRow(r) \in Rows
    BY <1>1, <2>1 DEF PatchedRow, Rows, Transactions
  <2> QED
    BY <1>4, <2>1, <2>3, <2>4 DEF RowOf
<1> QED
  BY <1>3, <1>4

(***************************************************************************)
(* Committing keeps the types of the tables, and removes no row.           *)
(***************************************************************************)
LEMMA ApplyType ==
  ASSUME Typed, NEW r \in Reqs, pc[r] = "locked", Apply(r)
  PROVE  /\ row' \in [Items -> Rows \cup {None}]
         /\ events' \in [Items -> Seq(Events)]
         /\ comments' \subseteq Comments
         /\ \A w \in Items : row[w] # None => row'[w] # None
<1>1. call[r] \in Calls /\ tx[r] \in Transactions /\ call[r].item \in Items
  BY DEF Typed, TypeOK, HandlerOK
<1>2. EventOf(r) \in Events
  BY EventOfType
<1>3. RowOf(r) \in Rows
  BY RowOfType
<1>4. row' \in [Items -> Rows \cup {None}]
  BY <1>1, <1>3 DEF Apply, Typed, TypeOK
<1>5. events' \in [Items -> Seq(Events)]
  BY <1>1, <1>2 DEF Apply, Typed, TypeOK
<1>6. [item |-> call[r].item, internal |-> call[r].arg = "internal", at |-> tx[r].at] \in Comments
  BY <1>1 DEF Comments, Transactions
<1>7. comments' \subseteq Comments
  BY <1>6 DEF Apply, Typed, TypeOK
<1>8. \A w \in Items : row[w] # None => row'[w] # None
  BY <1>1, <1>3, NoneAssumption DEF Apply, Typed, TypeOK
<1> QED
  BY <1>4, <1>5, <1>7, <1>8

LEMMA ReturnType ==
  ASSUME Typed, NEW r \in Reqs, pc[r] # "idle", NEW outcome \in Outcomes, Return(r, outcome),
         \A w \in Items : row[w] # None => row'[w] # None
  PROVE  /\ pc' \in [Reqs -> PcLabels]
         /\ call' \in [Reqs -> Calls \cup {None}]
         /\ tx' \in [Reqs -> Transactions \cup {None}]
         /\ reply' \in [Reqs -> Replies \cup {None}]
         /\ HandlerOK' /\ TargetsExist'
<1>1. call[r] \in Calls /\ tx[r] \in Transactions \cup {None}
  BY DEF Typed, TypeOK, HandlerOK
<1>2. [outcome |-> outcome, item |-> call[r].item,
       at |-> IF tx[r] = None THEN 0 ELSE tx[r].at] \in Replies
  BY <1>1, NoneAssumption DEF Calls, Transactions, Replies
<1>3. reply' \in [Reqs -> Replies \cup {None}]
  BY <1>2 DEF Return, Typed, TypeOK
<1>4. HandlerOK'
  BY DEF Return, Typed, TypeOK, HandlerOK
<1>5. TargetsExist'
  BY DEF Return, Typed, TypeOK, HandlerOK, TargetsExist
<1> QED
  BY <1>3, <1>4, <1>5 DEF Return, Typed, TypeOK

LEMMA TypedInit == Init => Typed
<1> SUFFICES ASSUME Init PROVE Typed
  OBVIOUS
<1>1. TypeOK
  BY DEF Init, TypeOK
<1>2. HandlerOK /\ TargetsExist
  BY DEF Init, HandlerOK, TargetsExist
<1> QED
  BY <1>1, <1>2 DEF Typed

LEMMA TypedCall ==
  ASSUME Typed, NEW r \in Reqs, Call(r) PROVE Typed'
<1> USE DEF Typed, TypeOK, Invoke, tables, wire
<1>0. PICK m \in Menu : \E w \in Nameable(m) :
        Invoke(r, [op |-> m.op, arg |-> m.arg, item |-> w])
  BY DEF Call
<1>1. PICK w \in Nameable(m) : Invoke(r, [op |-> m.op, arg |-> m.arg, item |-> w])
  BY <1>0
<1>2. m \in Operations
  BY MenuAssumption
<1>3. w \in Items \cup {Absent} /\ (m.op = "create" => w \in Items)
  BY DEF Nameable
<1>4. [op |-> m.op, arg |-> m.arg, item |-> w] \in Calls
  BY <1>2, <1>3 DEF Operations, Calls
<1>5. [op |-> m.op, arg |-> m.arg] \in Operations
  BY <1>2 DEF Operations
<1>6. TypeOK'
  BY <1>1, <1>4
<1>7. HandlerOK'
  BY <1>1, <1>3, <1>4, <1>5, NoneAssumption DEF HandlerOK
<1>8. TargetsExist'
  BY <1>1 DEF TargetsExist
<1> QED
  BY <1>6, <1>7, <1>8

LEMMA TypedBegin ==
  ASSUME Typed, NEW r \in Reqs, Begin(r) PROVE Typed'
<1> USE DEF Typed, TypeOK, Begin, tables, wire
<1>1. Txn(clock + 1, None, None, 0) \in Transactions
  BY DEF Transactions, Txn
<1>2. TypeOK'
  BY <1>1
<1>3. HandlerOK'
  BY <1>1, NoneAssumption DEF HandlerOK
<1>4. TargetsExist'
  BY DEF TargetsExist
<1> QED
  BY <1>2, <1>3, <1>4

(***************************************************************************)
(* The statements that leave a handler locked.                             *)
(***************************************************************************)
LEMMA TypedLocked ==
  ASSUME Typed, NEW r \in Reqs,
         AllocateNumber(r) \/ SelectForUpdate(r) \/ UpdateFields(r) \/ InsertComment(r)
  PROVE  Typed'
<1> USE DEF Typed, TypeOK
<1>1. pc[r] = "begun" /\ pc' = [pc EXCEPT ![r] = "locked"]
  BY DEF AllocateNumber, SelectForUpdate, UpdateFields, InsertComment
<1>2. UNCHANGED <<tables, clock, call, reply, wire>>
  BY DEF AllocateNumber, SelectForUpdate, UpdateFields, InsertComment
<1>3. tx[r] \in Transactions /\ call[r] \in Calls
  BY <1>1 DEF HandlerOK
<1>4. /\ seq' \in [Types -> Nat]
      /\ \E t \in Transactions : tx' = [tx EXCEPT ![r] = t] /\ 
           (call[r].op = "transition" => t.seen \in Statuses)
      /\ call[r].item \in Items
      /\ call[r].op # "create" => row[call[r].item] # None
  <2>1. CASE AllocateNumber(r)
    <3>1. call[r].arg \in Types /\ call[r].item \in Items
      BY <2>1, <1>3, NoneAssumption DEF AllocateNumber, HandlerOK, Operations
    <3>2. seq' = [seq EXCEPT ![call[r].arg] = @ + 1]
      BY <2>1 DEF AllocateNumber
    <3>3. Txn(tx[r].at, None, None, seq[call[r].arg] + 1) \in Transactions
      BY <1>3, <3>1 DEF Transactions, Txn
    <3>4. tx' = [tx EXCEPT ![r] = Txn(tx[r].at, None, None, seq[call[r].arg] + 1)]
      BY <2>1 DEF AllocateNumber
    <3>5. seq' \in [Types -> Nat]
      BY <3>1, <3>2
    <3> QED
      BY <2>1, <3>1, <3>3, <3>4, <3>5 DEF AllocateNumber
  <2>2. CASE SelectForUpdate(r)
    <3>1. row[call[r].item].status \in Statuses /\ call[r].item \in Items
      BY <2>2 DEF SelectForUpdate, Exists, Rows
    <3>2. Txn(tx[r].at, "update", row[call[r].item].status, 0) \in Transactions
      BY <1>3, <3>1 DEF Transactions, Modes, Txn
    <3>3. Txn(tx[r].at, "update", row[call[r].item].status, 0).seen \in Statuses
      BY <1>3, <3>1 DEF Transactions, Txn
    <3> QED
      BY <2>2, <3>1, <3>2, <3>3 DEF SelectForUpdate, Exists
  <2>3. CASE UpdateFields(r)
    <3>1. Txn(tx[r].at, "no_key_update", None, 0) \in Transactions
      BY <1>3 DEF Transactions, Modes, Txn
    <3> QED
      BY <2>3, <3>1 DEF UpdateFields, Exists
  <2>4. CASE InsertComment(r)
    <3>1. Txn(tx[r].at, "key_share", None, 0) \in Transactions
      BY <1>3 DEF Transactions, Modes, Txn
    <3> QED
      BY <2>4, <3>1 DEF InsertComment, Exists
  <2> QED
    BY <2>1, <2>2, <2>3, <2>4
<1>5. TypeOK'
  BY <1>1, <1>2, <1>4 DEF tables, wire
<1>6. HandlerOK'
  BY <1>1, <1>2, <1>4, NoneAssumption DEF HandlerOK
<1>7. TargetsExist'
  BY <1>1, <1>2, <1>4 DEF TargetsExist, tables
<1> QED
  BY <1>5, <1>6, <1>7

LEMMA TypedReturn ==
  ASSUME Typed, NEW r \in Reqs,
         RefuseTransition(r) \/ NotFound(r) \/ CommitUnacknowledged(r) \/ Fail(r) \/ Publish(r)
  PROVE  Typed'
<1> USE DEF Typed
<1>1. PICK outcome \in Outcomes : Return(r, outcome)
  BY DEF RefuseTransition, NotFound, CommitUnacknowledged, Fail, Publish, Outcomes
<1>2. pc[r] # "idle" /\ UNCHANGED <<seq, clock, bus>>
  BY DEF RefuseTransition, NotFound, CommitUnacknowledged, Fail, Publish, wire
<1>3. /\ row' \in [Items -> Rows \cup {None}] /\ events' \in [Items -> Seq(Events)]
      /\ comments' \subseteq Comments
      /\ \A w \in Items : row[w] # None => row'[w] # None
  <2>1. CASE CommitUnacknowledged(r)
    BY <2>1, ApplyType DEF CommitUnacknowledged
  <2>2. CASE UNCHANGED tables
    BY <2>2 DEF TypeOK, tables
  <2> QED
    BY <2>1, <2>2 DEF RefuseTransition, NotFound, Fail, Publish
<1>4. outbox' \in Seq(Messages)
  <2>1. CASE Publish(r)
    <3>1. call[r].item \in Items /\ EventOf(r) \in Events
      BY <2>1, EventOfType DEF Publish, HandlerOK
    <3>2. [item |-> call[r].item, event |-> EventOf(r)] \in Messages
      BY <3>1 DEF Messages
    <3>3. outbox \in Seq(Messages)
      BY DEF TypeOK
    <3>4. Append(outbox, [item |-> call[r].item, event |-> EventOf(r)]) \in Seq(Messages)
      BY <3>2, <3>3
    <3> QED
      BY <2>1, <3>3, <3>4 DEF Publish
  <2>2. CASE UNCHANGED outbox
    BY <2>2 DEF TypeOK
  <2> QED
    BY <2>1, <2>2 DEF RefuseTransition, NotFound, CommitUnacknowledged, Fail, wire
<1>5. /\ pc' \in [Reqs -> PcLabels] /\ call' \in [Reqs -> Calls \cup {None}]
      /\ tx' \in [Reqs -> Transactions \cup {None}] /\ reply' \in [Reqs -> Replies \cup {None}]
      /\ HandlerOK' /\ TargetsExist'
  BY <1>1, <1>2, <1>3, ReturnType
<1> QED
  BY <1>2, <1>3, <1>4, <1>5 DEF TypeOK

LEMMA TypedCommit ==
  ASSUME Typed, NEW r \in Reqs, Commit(r) PROVE Typed'
<1> USE DEF Typed, Commit
<1>1. /\ row' \in [Items -> Rows \cup {None}] /\ events' \in [Items -> Seq(Events)]
      /\ comments' \subseteq Comments
      /\ \A w \in Items : row[w] # None => row'[w] # None
  BY ApplyType
<1>2. tx[r] \in Transactions
  BY DEF TypeOK, HandlerOK
<1>3. /\ Txn(tx[r].at, None, tx[r].seen, tx[r].n) \in Transactions
      /\ Txn(tx[r].at, None, tx[r].seen, tx[r].n).seen = tx[r].seen
  BY <1>2 DEF Transactions, Txn
<1>4. TypeOK'
  BY <1>1, <1>3 DEF TypeOK, wire
<1>5. HandlerOK'
  BY <1>3, NoneAssumption DEF TypeOK, HandlerOK
<1>6. TargetsExist'
  BY <1>1 DEF TypeOK, HandlerOK, TargetsExist
<1> QED
  BY <1>4, <1>5, <1>6

LEMMA TypedFlush ==
  ASSUME Typed, Flush PROVE Typed'
<1> USE DEF Typed, Flush, tables
<1>1. Head(outbox) \in Messages /\ Tail(outbox) \in Seq(Messages)
  BY DEF TypeOK
<1>2. TypeOK'
  BY <1>1 DEF TypeOK
<1>3. HandlerOK' /\ TargetsExist'
  BY DEF HandlerOK, TargetsExist
<1> QED
  BY <1>2, <1>3

LEMMA TypedCrash ==
  ASSUME Typed, Crash PROVE Typed'
<1> USE DEF Typed, Crash, tables
<1>1. ASSUME NEW r \in Reqs, pc[r] # "idle"
      PROVE  [outcome |-> "lost", item |-> call[r].item,
              at |-> IF tx[r] = None THEN 0 ELSE tx[r].at] \in Replies
  <2>1. call[r] \in Calls /\ tx[r] \in Transactions \cup {None}
    BY <1>1 DEF TypeOK, HandlerOK
  <2> QED
    BY <2>1 DEF Calls, Transactions, Replies, Outcomes
<1>2. reply' \in [Reqs -> Replies \cup {None}]
  BY <1>1 DEF TypeOK
<1>3. TypeOK'
  BY <1>2 DEF TypeOK
<1>4. HandlerOK' /\ TargetsExist'
  BY DEF HandlerOK, TargetsExist
<1> QED
  BY <1>3, <1>4

LEMMA TypedNext == Typed /\ [Next]_vars => Typed'
<1> SUFFICES ASSUME Typed, [Next]_vars PROVE Typed'
  OBVIOUS
<1>1. ASSUME NEW r \in Reqs, Call(r) PROVE Typed'
  BY <1>1, TypedCall
<1>2. ASSUME NEW r \in Reqs, Progress(r) PROVE Typed'
  BY <1>2, TypedBegin, TypedLocked, TypedCommit, TypedReturn DEF Progress, Statement
<1>3. ASSUME NEW r \in Reqs, CommitUnacknowledged(r) \/ Fail(r) PROVE Typed'
  BY <1>3, TypedReturn
<1>4. CASE Flush
  BY <1>4, TypedFlush
<1>5. CASE Crash
  BY <1>5, TypedCrash
<1>6. CASE UNCHANGED vars
  BY <1>6 DEF vars, Typed, TypeOK, HandlerOK, TargetsExist
<1> QED
  BY <1>1, <1>2, <1>3, <1>4, <1>5, <1>6 DEF Next

THEOREM TypedAlways == Spec => []Typed
  BY TypedInit, TypedNext, PTL DEF Spec

\* Every variable of the store keeps its type, and with it every row, event and
\* message its shape (the schema of 0001_init.sql and the payload of store.go:61).
THEOREM TypeCorrect == Spec => []TypeOK
<1>1. Typed => TypeOK
  BY DEF Typed
<1> QED
  BY <1>1, TypedAlways, PTL

-----------------------------------------------------------------------------
(***************************************************************************)
(* The inductive invariant behind the history: a create owns an id nobody  *)
(* else names, the status a transition read is still the status while it   *)
(* holds FOR UPDATE, and that lock excludes every other write of the item. *)
(***************************************************************************)
Creating(r) == call[r] # None /\ call[r].op = "create" /\ pc[r] \in {"queued", "begun", "locked"}

CreateOwnsItem ==
  \A r \in Reqs : Creating(r) =>
    /\ row[call[r].item] = None
    /\ \A o \in Reqs \ {r} : call[o] # None => call[o].item # call[r].item

StatusHeld ==
  \A r \in Reqs : (pc[r] = "locked" /\ call[r].op = "transition") =>
    /\ tx[r].seen = row[call[r].item].status
    /\ CanTransition(tx[r].seen, call[r].arg)

LockOf(op) == IF op = "transition" THEN "update"
              ELSE IF op = "update" THEN "no_key_update"
              ELSE IF op = "comment" THEN "key_share" ELSE None

LockHeld == \A r \in Reqs : pc[r] = "locked" => tx[r].lock = LockOf(call[r].op)

TransitionExcludes ==
  \A r, o \in Reqs :
    (r # o /\ pc[r] = "locked" /\ pc[o] = "locked" /\ call[r].item = call[o].item)
      => call[r].op # "transition"

NoRowNoHistory == \A w \in Items : row[w] = None => events[w] = <<>>

StoreInv ==
  /\ Typed /\ CreateOwnsItem /\ StatusHeld /\ LockHeld /\ TransitionExcludes
  /\ NoRowNoHistory /\ HistoryReplays /\ ClosedAtMatchesHistory

(***************************************************************************)
(* Replaying a history with one more event.                                *)
(***************************************************************************)
LEMMA StatusAfterPrefix ==
  ASSUME NEW es \in Seq(Events), NEW e \in Events, NEW i \in 0..Len(es), NEW s
  PROVE  StatusAfter(Append(es, e), i, s) <=> StatusAfter(es, i, s)
<1> DEFINE fs == Append(es, e)
<1>1. \A k \in 1..i : fs[k] = es[k]
  OBVIOUS
<1> HIDE DEF fs
<1>2. StatusAfter(fs, i, s) <=> StatusAfter(es, i, s)
  BY <1>1 DEF StatusAfter
<1> QED
  BY <1>2 DEF fs

LEMMA StatusAfterAppend ==
  ASSUME NEW es \in Seq(Events), NEW e \in Events, NEW s, NEW t,
         StatusAfter(es, Len(es), s),
         IF IsMove(e) THEN t = e.to ELSE t = s
  PROVE  StatusAfter(Append(es, e), Len(es) + 1, t)
<1> DEFINE n == Len(es)
<1> DEFINE fs == Append(es, e)
<1>1. n \in Nat /\ fs[n + 1] = e /\ \A k \in 1..n : fs[k] = es[k]
  OBVIOUS
<1>2. CASE IsMove(e)
  BY <1>1, <1>2 DEF StatusAfter
<1>3. CASE ~IsMove(e)
  BY <1>1, <1>3 DEF StatusAfter
<1> QED
  BY <1>2, <1>3

LEMMA ReplaysAppend ==
  ASSUME NEW es \in Seq(Events), NEW e \in Events, NEW s, NEW t,
         Replays(es, s),
         IF IsMove(e) THEN e.from = s /\ e.to = t /\ CanTransition(s, t) ELSE t = s
  PROVE  Replays(Append(es, e), t)
<1> DEFINE n == Len(es)
<1> DEFINE fs == Append(es, e)
<1>1. n \in Nat /\ Len(fs) = n + 1 /\ fs[n + 1] = e /\ \A k \in 1..n : fs[k] = es[k]
  OBVIOUS
<1>2. StatusAfter(fs, n + 1, t)
  BY StatusAfterAppend DEF Replays
<1>3. ASSUME NEW i \in 1..n, IsMove(fs[i])
      PROVE  StatusAfter(fs, i - 1, fs[i].from) /\ CanTransition(fs[i].from, fs[i].to)
  <2>1. i - 1 \in 0..n /\ fs[i] = es[i]
    BY <1>1
  <2> QED
    BY <1>3, <2>1, StatusAfterPrefix DEF Replays
<1>4. IsMove(e) => StatusAfter(fs, n, e.from) /\ CanTransition(e.from, e.to)
  <2>1. n \in 0..n
    BY <1>1
  <2> QED
    BY <2>1, StatusAfterPrefix DEF Replays
<1>5. \A i \in 1..(n + 1) : IsMove(fs[i]) =>
        StatusAfter(fs, i - 1, fs[i].from) /\ CanTransition(fs[i].from, fs[i].to)
  BY <1>1, <1>3, <1>4
<1> QED
  BY <1>1, <1>2, <1>5 DEF Replays

LEMMA HasMoveAppend ==
  ASSUME NEW es \in Seq(Events), NEW e \in Events, NEW s, NEW at
  PROVE  /\ HasMove(es, s, at) => HasMove(Append(es, e), s, at)
         /\ (IsMove(e) /\ e.to = s /\ e.at = at) => HasMove(Append(es, e), s, at)
<1> DEFINE n == Len(es)
<1> DEFINE fs == Append(es, e)
<1>1. n \in Nat /\ Len(fs) = n + 1 /\ fs[n + 1] = e /\ \A k \in 1..n : fs[k] = es[k]
  OBVIOUS
<1> QED
  BY <1>1 DEF HasMove

(***************************************************************************)
(* What a commit does to the item it is about, and to the others.          *)
(***************************************************************************)
LEMMA RowOfFields ==
  ASSUME Typed, NEW r \in Reqs, pc[r] = "locked"
  PROVE  /\ call[r].op = "create" => RowOf(r).status = "new" /\ RowOf(r).closed_at = None
         /\ call[r].op = "transition" =>
              /\ RowOf(r).status = call[r].arg
              /\ RowOf(r).closed_at = IF IsTerminal(call[r].arg) THEN tx[r].at
                                      ELSE row[call[r].item].closed_at
         /\ call[r].op \in {"update", "comment"} =>
              /\ RowOf(r).status = row[call[r].item].status
              /\ RowOf(r).closed_at = row[call[r].item].closed_at
<1>1. CASE call[r].op = "create"
  BY <1>1 DEF RowOf, InsertedRow
<1>2. ASSUME call[r].op # "create" PROVE row[call[r].item] \in Rows
  BY <1>2 DEF Typed, TypeOK, HandlerOK, TargetsExist
<1>3. CASE call[r].op = "transition"
  BY <1>2, <1>3 DEF RowOf, MovedRow, Rows
<1>4. CASE call[r].op = "update"
  BY <1>2, <1>4 DEF RowOf, PatchedRow, Rows
<1>5. CASE call[r].op = "comment"
  BY <1>5 DEF RowOf
<1> QED
  BY <1>1, <1>3, <1>4, <1>5

TablesInv == NoRowNoHistory /\ HistoryReplays /\ ClosedAtMatchesHistory

HandlersInv == CreateOwnsItem /\ StatusHeld /\ LockHeld /\ TransitionExcludes

LEMMA TablesApply ==
  ASSUME StoreInv, NEW r \in Reqs, pc[r] = "locked", Apply(r)
  PROVE  TablesInv'
<1> DEFINE w == call[r].item
<1> DEFINE e == EventOf(r)
<1>1. /\ w \in Items /\ e \in Events /\ RowOf(r) \in Rows
      /\ call[r] \in Calls /\ tx[r] \in Transactions
      /\ [op |-> call[r].op, arg |-> call[r].arg] \in Operations
      /\ events[w] \in Seq(Events)
  BY EventOfType, RowOfType, NoneAssumption DEF StoreInv, Typed, TypeOK, HandlerOK
<1>2. /\ row'[w] = RowOf(r) /\ events'[w] = Append(events[w], e) /\ RowOf(r) # None
      /\ \A v \in Items \ {w} : row'[v] = row[v] /\ events'[v] = events[v]
  BY <1>1, NoneAssumption DEF Apply, StoreInv, Typed, TypeOK
<1>3. CASE call[r].op = "create"
  <2>1. events[w] = <<>>
    BY <1>1, <1>3, NoneAssumption DEF StoreInv, CreateOwnsItem, Creating, NoRowNoHistory
  <2>2. ~IsMove(e)
    BY <1>3 DEF EventOf, Kind, IsMove
  <2>3. Replays(<<>>, "new")
    BY DEF Replays, StatusAfter
  <2>4. row'[w].status = "new" /\ row'[w].closed_at = None
    BY <1>2, <1>3, RowOfFields DEF StoreInv
  <2>5. Replays(Append(events[w], e), "new")
    BY <1>1, <2>1, <2>2, <2>3, ReplaysAppend
  <2>6. Replays(events'[w], row'[w].status) /\ ~IsTerminal(row'[w].status)
    BY <1>2, <2>4, <2>5 DEF IsTerminal
  <2> QED
    BY <1>2, <2>4, <2>6 DEF StoreInv, TablesInv, NoRowNoHistory, HistoryReplays, ClosedAtMatchesHistory
<1>4. CASE call[r].op = "transition"
  <2>1. /\ row[w] # None /\ tx[r].seen = row[w].status /\ CanTransition(row[w].status, call[r].arg)
        /\ row[w] \in Rows
    BY <1>1, <1>4 DEF StoreInv, Typed, TypeOK, TargetsExist, StatusHeld
  <2>2. IsMove(e) /\ e.from = row[w].status /\ e.to = call[r].arg /\ e.at = tx[r].at
    BY <1>4, <2>1 DEF EventOf, Kind, IsMove
  <2>3. /\ row'[w].status = call[r].arg
        /\ row'[w].closed_at = IF IsTerminal(call[r].arg) THEN tx[r].at ELSE row[w].closed_at
    BY <1>2, <1>4, RowOfFields DEF StoreInv
  <2>4. Replays(events'[w], row'[w].status)
    BY <1>1, <1>2, <2>1, <2>2, <2>3, ReplaysAppend DEF StoreInv, HistoryReplays
  <2>5. row[w].closed_at = None
    BY <1>1, <2>1 DEF StoreInv, ClosedAtMatchesHistory, IsTerminal, CanTransition, transitions
  <2>6. tx[r].at # None
    BY <1>1, NoneAssumption DEF Transactions
  <2>7. /\ IsTerminal(row'[w].status) <=> row'[w].closed_at # None
        /\ row'[w].closed_at # None => HasMove(events'[w], row'[w].status, row'[w].closed_at)
    BY <1>1, <1>2, <2>2, <2>3, <2>5, <2>6, HasMoveAppend
  <2> QED
    BY <1>2, <2>4, <2>7 DEF StoreInv, TablesInv, NoRowNoHistory, HistoryReplays, ClosedAtMatchesHistory
<1>5. CASE call[r].op \in {"update", "comment"}
  <2>1. row[w] # None
    BY <1>5 DEF StoreInv, Typed, TargetsExist
  <2>2. ~IsMove(e)
    BY <1>1, <1>5 DEF EventOf, Kind, IsMove, Operations
  <2>3. row'[w].status = row[w].status /\ row'[w].closed_at = row[w].closed_at
    BY <1>2, <1>5, RowOfFields DEF StoreInv
  <2>6. Replays(events[w], row[w].status)
    BY <1>1, <2>1 DEF StoreInv, HistoryReplays
  <2>7. Replays(Append(events[w], e), row[w].status)
    BY <1>1, <2>2, <2>6, ReplaysAppend
  <2>4. Replays(events'[w], row'[w].status)
    BY <1>2, <2>3, <2>7
  <2>5. /\ IsTerminal(row'[w].status) <=> row'[w].closed_at # None
        /\ row'[w].closed_at # None => HasMove(events'[w], row'[w].status, row'[w].closed_at)
    BY <1>1, <1>2, <2>1, <2>3, HasMoveAppend DEF StoreInv, ClosedAtMatchesHistory
  <2> QED
    BY <1>2, <2>4, <2>5 DEF StoreInv, TablesInv, NoRowNoHistory, HistoryReplays, ClosedAtMatchesHistory
<1> QED
  BY <1>1, <1>3, <1>4, <1>5 DEF Operations

(***************************************************************************)
(* A handler that commits or gives up leaves the other handlers' facts     *)
(* alone: whoever wrote the item held a lock no transition shares.         *)
(***************************************************************************)
LEMMA HandlersLeave ==
  ASSUME StoreInv, NEW r \in Reqs,
         pc'[r] \in {"committed", "idle"}, call'[r] \in {call[r], None},
         \A o \in Reqs \ {r} : pc'[o] = pc[o] /\ call'[o] = call[o] /\ tx'[o] = tx[o],
         \/ row' = row
         \/ /\ pc[r] = "locked"
            /\ \A v \in Items : v # call[r].item => row'[v] = row[v]
  PROVE  HandlersInv'
<1>1. CreateOwnsItem'
  <2>1. ASSUME NEW o \in Reqs, Creating(o)'
        PROVE  /\ row'[call'[o].item] = None
               /\ \A q \in Reqs \ {o} : call'[q] # None => call'[q].item # call'[o].item
    <3>1. o # r /\ pc'[o] = pc[o] /\ call'[o] = call[o] /\ Creating(o)
      BY <2>1 DEF Creating
    <3>2. /\ row[call[o].item] = None /\ call[o].item \in Items
          /\ \A q \in Reqs \ {o} : call[q] # None => call[q].item # call[o].item
      BY <3>1 DEF StoreInv, Typed, HandlerOK, CreateOwnsItem, Creating
    <3>3. pc[r] = "locked" => call[r] # None
      BY DEF StoreInv, Typed, HandlerOK
    <3>4. row'[call[o].item] = row[call[o].item]
      BY <3>1, <3>2, <3>3
    <3> QED
      BY <3>1, <3>2, <3>4
  <2> QED
    BY <2>1 DEF CreateOwnsItem
<1>2. StatusHeld'
  <2>1. ASSUME NEW o \in Reqs, pc'[o] = "locked", call'[o].op = "transition"
        PROVE  row'[call'[o].item] = row[call[o].item] /\ o # r
    BY <2>1 DEF StoreInv, Typed, HandlerOK, TransitionExcludes
  <2> QED
    BY <2>1 DEF StoreInv, StatusHeld
<1>3. LockHeld' /\ TransitionExcludes'
  BY DEF StoreInv, LockHeld, TransitionExcludes
<1> QED
  BY <1>1, <1>2, <1>3 DEF HandlersInv

LEMMA HandlersCall ==
  ASSUME StoreInv, NEW r \in Reqs, Call(r) PROVE HandlersInv'
<1> USE DEF StoreInv, Typed
<1>1. PICK m \in Menu : \E w \in Nameable(m) :
        Invoke(r, [op |-> m.op, arg |-> m.arg, item |-> w])
  BY DEF Call
<1>2. PICK w \in Nameable(m) : Invoke(r, [op |-> m.op, arg |-> m.arg, item |-> w])
  BY <1>1
<1>3. /\ call'[r].op = m.op /\ call'[r].item = w
      /\ pc'[r] = "queued" /\ UNCHANGED <<row, tx>>
      /\ \A o \in Reqs \ {r} : pc'[o] = pc[o] /\ call'[o] = call[o]
  BY <1>2 DEF Invoke, TypeOK, tables
<1>4. ASSUME NEW o \in Reqs, Creating(o)'
      PROVE  /\ row'[call'[o].item] = None
             /\ \A q \in Reqs \ {o} : call'[q] # None => call'[q].item # call'[o].item
  <2>1. CASE o = r
    BY <1>3, <1>4, <2>1 DEF Nameable, Creating
  <2>2. CASE o # r
    <3>1. Creating(o) /\ call'[o] = call[o] /\ row'[call[o].item] = row[call[o].item]
      BY <1>3, <1>4, <2>2 DEF Creating
    <3>2. /\ row[call[o].item] = None /\ call[o].item \in Items /\ call[o] # None
          /\ \A q \in Reqs \ {o} : call[q] # None => call[q].item # call[o].item
      BY <3>1 DEF HandlerOK, CreateOwnsItem, Creating
    <3>3. w # call[o].item
      BY <3>2, ItemAssumption DEF Nameable, Exists
    <3> QED
      BY <1>3, <3>1, <3>2, <3>3
  <2> QED
    BY <2>1, <2>2
<1>5. CreateOwnsItem'
  BY <1>4 DEF CreateOwnsItem
<1>6. StatusHeld' /\ LockHeld' /\ TransitionExcludes'
  BY <1>3 DEF StatusHeld, LockHeld, TransitionExcludes
<1> QED
  BY <1>5, <1>6 DEF HandlersInv

LEMMA HandlersBegin ==
  ASSUME StoreInv, NEW r \in Reqs, Begin(r) PROVE HandlersInv'
<1> USE DEF StoreInv, Typed, TypeOK, Begin, tables
<1>1. CreateOwnsItem'
  BY DEF CreateOwnsItem, Creating
<1>2. StatusHeld' /\ LockHeld' /\ TransitionExcludes'
  BY DEF StatusHeld, LockHeld, TransitionExcludes
<1> QED
  BY <1>1, <1>2 DEF HandlersInv

LEMMA HandlersLocked ==
  ASSUME StoreInv, NEW r \in Reqs,
         AllocateNumber(r) \/ SelectForUpdate(r) \/ UpdateFields(r) \/ InsertComment(r)
  PROVE  HandlersInv'
<1> DEFINE w == call[r].item
<1>1. /\ pc[r] = "begun" /\ pc' = [pc EXCEPT ![r] = "locked"]
      /\ UNCHANGED <<row, call>> /\ call[r] # None
      /\ pc'[r] = "locked" /\ \A o \in Reqs \ {r} : pc'[o] = pc[o] /\ tx'[o] = tx[o]
  BY DEF AllocateNumber, SelectForUpdate, UpdateFields, InsertComment, tables,
         StoreInv, Typed, TypeOK, HandlerOK
<1>2. CreateOwnsItem'
  BY <1>1 DEF StoreInv, CreateOwnsItem, Creating
<1>3. /\ tx'[r].lock = LockOf(call[r].op)
      /\ call[r].op = "transition" =>
           tx'[r].seen = row[w].status /\ CanTransition(row[w].status, call[r].arg)
      /\ call[r].op # "create" => row[w] # None /\ Grantable(r, w, LockOf(call[r].op))
  BY <1>1 DEF AllocateNumber, SelectForUpdate, UpdateFields, InsertComment, Txn, LockOf,
              Exists, StoreInv, Typed, TypeOK
<1>4. StatusHeld' /\ LockHeld'
  BY <1>1, <1>3 DEF StoreInv, StatusHeld, LockHeld
<1>5. ASSUME NEW o \in Reqs \ {r}, pc[o] = "locked", call[o].item = w
      PROVE  call[o].op # "transition" /\ call[r].op # "transition"
  <2>1. /\ call[o] # None /\ tx[o] # None /\ tx[o].lock = LockOf(call[o].op)
        /\ call[o] \in Calls
    BY <1>5 DEF StoreInv, Typed, TypeOK, HandlerOK, LockHeld
  <2>2. call[r].op # "create"
    BY <1>1, <1>5, <2>1 DEF StoreInv, CreateOwnsItem, Creating
  <2>3. call[o].op # "create"
    BY <1>3, <1>5, <2>1, <2>2 DEF StoreInv, CreateOwnsItem, Creating
  <2>4. LockOf(call[o].op) # None
    BY <2>1, <2>3, NoneAssumption DEF LockOf, Calls, Modes
  <2>5. ~Conflict(LockOf(call[o].op), LockOf(call[r].op))
    BY <1>3, <1>5, <2>1, <2>2, <2>4 DEF Grantable
  <2> QED
    BY <2>5 DEF Conflict, LockOf
<1>6. TransitionExcludes'
  BY <1>1, <1>5 DEF StoreInv, TransitionExcludes
<1> QED
  BY <1>2, <1>4, <1>6 DEF HandlersInv

LEMMA StoreInvInit == Init => StoreInv
<1> SUFFICES ASSUME Init PROVE StoreInv
  OBVIOUS
<1>1. Typed
  BY TypedInit
<1>2. CreateOwnsItem /\ StatusHeld /\ LockHeld /\ TransitionExcludes
  BY DEF Init, CreateOwnsItem, Creating, StatusHeld, LockHeld, TransitionExcludes
<1>3. NoRowNoHistory /\ HistoryReplays /\ ClosedAtMatchesHistory
  BY DEF Init, NoRowNoHistory, HistoryReplays, ClosedAtMatchesHistory
<1> QED
  BY <1>1, <1>2, <1>3 DEF StoreInv

LEMMA TablesStay ==
  ASSUME StoreInv, UNCHANGED <<row, events>> PROVE TablesInv'
BY DEF StoreInv, TablesInv, NoRowNoHistory, HistoryReplays, ClosedAtMatchesHistory

\* Every step either leaves the tables alone or is the commit of one handler.
LEMMA OnlyCommitWrites ==
  ASSUME Typed, [Next]_vars
  PROVE  \/ UNCHANGED tables
         \/ \E r \in Reqs : pc[r] = "locked" /\ Apply(r)
<1>1. ASSUME NEW r \in Reqs, Call(r) \/ Begin(r) \/ Statement(r) \/ Publish(r) \/ Fail(r)
      PROVE  UNCHANGED tables
  BY <1>1 DEF Call, Invoke, Begin, Statement, AllocateNumber, SelectForUpdate, RefuseTransition,
              UpdateFields, InsertComment, NotFound, Publish, Fail
<1>2. ASSUME NEW r \in Reqs, Commit(r) \/ CommitUnacknowledged(r)
      PROVE  pc[r] = "locked" /\ Apply(r)
  BY <1>2 DEF Commit, CommitUnacknowledged
<1>3. ASSUME Flush \/ Crash \/ UNCHANGED vars PROVE UNCHANGED tables
  BY <1>3 DEF Flush, Crash, vars, tables
<1> QED
  BY <1>1, <1>2, <1>3 DEF Next, Progress

LEMMA HandlersNext ==
  ASSUME StoreInv, [Next]_vars PROVE HandlersInv'
<1>1. ASSUME NEW r \in Reqs, Call(r) \/ Begin(r) PROVE HandlersInv'
  BY <1>1, HandlersCall, HandlersBegin
<1>2. ASSUME NEW r \in Reqs,
             AllocateNumber(r) \/ SelectForUpdate(r) \/ UpdateFields(r) \/ InsertComment(r)
      PROVE  HandlersInv'
  BY <1>2, HandlersLocked
<1>3. ASSUME NEW r \in Reqs,
             \/ RefuseTransition(r) \/ NotFound(r) \/ Fail(r) \/ Publish(r)
             \/ Commit(r) \/ CommitUnacknowledged(r)
      PROVE  HandlersInv'
  <2>1. /\ pc'[r] \in {"committed", "idle"} /\ call'[r] \in {call[r], None}
        /\ \A o \in Reqs \ {r} : pc'[o] = pc[o] /\ call'[o] = call[o] /\ tx'[o] = tx[o]
    BY <1>3 DEF RefuseTransition, NotFound, Fail, Publish, Commit, CommitUnacknowledged, Return,
                StoreInv, Typed, TypeOK
  <2>2. \/ row' = row
        \/ pc[r] = "locked" /\ \A v \in Items : v # call[r].item => row'[v] = row[v]
    BY <1>3 DEF RefuseTransition, NotFound, Fail, Publish, Commit, CommitUnacknowledged, Apply,
                tables, StoreInv, Typed, TypeOK
  <2> QED
    BY <2>1, <2>2, HandlersLeave
<1>4. CASE Flush \/ UNCHANGED vars
  BY <1>4 DEF Flush, vars, tables, StoreInv, HandlersInv, CreateOwnsItem, Creating, StatusHeld,
              LockHeld, TransitionExcludes
<1>5. CASE Crash
  BY <1>5 DEF Crash, HandlersInv, CreateOwnsItem, Creating, StatusHeld, LockHeld,
              TransitionExcludes
<1> QED
  BY <1>1, <1>2, <1>3, <1>4, <1>5 DEF Next, Progress, Statement

LEMMA StoreInvNext == StoreInv /\ [Next]_vars => StoreInv'
<1> SUFFICES ASSUME StoreInv, [Next]_vars PROVE StoreInv'
  OBVIOUS
<1>1. Typed'
  BY TypedNext DEF StoreInv
<1>2. HandlersInv'
  BY HandlersNext
<1>3. TablesInv'
  BY OnlyCommitWrites, TablesApply, TablesStay DEF StoreInv, tables
<1> QED
  BY <1>1, <1>2, <1>3 DEF StoreInv, HandlersInv, TablesInv

THEOREM StoreInvAlways == Spec => []StoreInv
  BY StoreInvInit, StoreInvNext, PTL DEF Spec

\* However handlers interleave, fail or crash, the committed history of an item
\* is a legal walk of the state machine that ends in its status (store.go:287).
THEOREM HistoryCorrect == Spec => []HistoryReplays
<1>1. StoreInv => HistoryReplays
  BY DEF StoreInv
<1> QED
  BY <1>1, StoreInvAlways, PTL

\* closed_at is there exactly on closed and cancelled items, with the stamp of
\* the closing event (store.go:306-311).
THEOREM ClosedAtCorrect == Spec => []ClosedAtMatchesHistory
<1>1. StoreInv => ClosedAtMatchesHistory
  BY DEF StoreInv
<1> QED
  BY <1>1, StoreInvAlways, PTL

\* No step takes a closed or cancelled item out of its status or restamps it
\* (workitem.go:65-74 as the transactions of store.go enforce it).
THEOREM TerminalFinal == Spec => TerminalIsFinal
<1> DEFINE Kept == \A w \in Items : (row[w] # None /\ IsTerminal(row[w].status)) =>
                     /\ row'[w] # None
                     /\ row'[w].status = row[w].status
                     /\ row'[w].closed_at = row[w].closed_at
<1>1. StoreInv /\ [Next]_vars => Kept
  <2> SUFFICES ASSUME StoreInv, [Next]_vars,
                      NEW w \in Items, row[w] # None, IsTerminal(row[w].status)
               PROVE  /\ row'[w] # None
                      /\ row'[w].status = row[w].status
                      /\ row'[w].closed_at = row[w].closed_at
    OBVIOUS
  <2>1. CASE UNCHANGED tables
    BY <2>1 DEF tables
  <2>2. ASSUME NEW r \in Reqs, pc[r] = "locked", Apply(r)
        PROVE  /\ row'[w] # None
               /\ row'[w].status = row[w].status
               /\ row'[w].closed_at = row[w].closed_at
    <3>1. RowOf(r) \in Rows /\ row' = [row EXCEPT ![call[r].item] = RowOf(r)]
      BY <2>2, RowOfType DEF StoreInv, Apply
    <3>2. CASE call[r].item = w
      <4>1. call[r].op # "create"
        BY <2>2, <3>2 DEF StoreInv, CreateOwnsItem, Creating, Typed, HandlerOK
      <4>2. call[r].op # "transition"
        BY <2>2, <3>2 DEF StoreInv, StatusHeld, CanTransition, transitions, IsTerminal
      <4>3. call[r].op \in {"update", "comment"}
        BY <2>2, <4>1, <4>2 DEF StoreInv, Typed, HandlerOK, Operations
      <4> QED
        BY <2>2, <3>1, <3>2, <4>3, RowOfFields, NoneAssumption DEF StoreInv, Typed, TypeOK
    <3>3. CASE call[r].item # w
      BY <2>2, <3>1, <3>3 DEF StoreInv, Typed, TypeOK
    <3> QED
      BY <3>2, <3>3
  <2> QED
    BY <2>1, <2>2, OnlyCommitWrites DEF StoreInv
<1>2. StoreInv /\ [Next]_vars => [Kept]_vars
  BY <1>1
<1> QED
  BY <1>2, StoreInvAlways, PTL DEF Spec, TerminalIsFinal

-----------------------------------------------------------------------------
(***************************************************************************)
(* The store implements the ledger: a commit is one whole operation of the *)
(* ledger, every other step is none.                                       *)
(***************************************************************************)
EntryOf(e) == [kind |-> e.kind, from |-> e.from, to |-> e.to]

LEMMA TrailAppend ==
  ASSUME NEW es \in Seq(Events), NEW e \in Events
  PROVE  [i \in 1..Len(Append(es, e)) |-> EntryOf(Append(es, e)[i])] =
         Append([i \in 1..Len(es) |-> EntryOf(es[i])], EntryOf(e))
<1> DEFINE n == Len(es)
<1> DEFINE fs == Append(es, e)
<1> DEFINE g == [i \in 1..n |-> EntryOf(es[i])]
<1>1. n \in Nat /\ Len(fs) = n + 1 /\ fs[n + 1] = e /\ \A k \in 1..n : fs[k] = es[k]
  OBVIOUS
<1>2. g \in Seq({EntryOf(x) : x \in Events}) /\ Len(g) = n
  <2>1. \A i \in 1..n : es[i] \in Events
    OBVIOUS
  <2>2. \A i \in 1..n : EntryOf(es[i]) \in {EntryOf(x) : x \in Events}
    BY <2>1
  <2> QED
    BY <1>1, <2>2
<1>3. Append(g, EntryOf(e)) = [i \in 1..(n + 1) |-> IF i = n + 1 THEN EntryOf(e) ELSE EntryOf(es[i])]
  BY <1>1, <1>2
<1> QED
  BY <1>1, <1>3

LEMMA LedgerStep ==
  ASSUME StoreInv, NEW r \in Reqs, pc[r] = "locked", Apply(r)
  PROVE  Ledger!Next
<1> DEFINE w == call[r].item
<1> DEFINE e == EventOf(r)
<1>1. /\ w \in Items /\ e \in Events /\ RowOf(r) \in Rows
      /\ [op |-> call[r].op, arg |-> call[r].arg] \in Operations
      /\ events[w] \in Seq(Events)
  BY EventOfType, RowOfType, NoneAssumption DEF StoreInv, Typed, TypeOK, HandlerOK
<1>2. /\ row'[w] = RowOf(r) /\ events'[w] = Append(events[w], e) /\ RowOf(r) # None
      /\ \A v \in Items \ {w} : row'[v] = row[v] /\ events'[v] = events[v]
  BY <1>1, NoneAssumption DEF Apply, StoreInv, Typed, TypeOK
<1>3. ledgerTrail'[w] = Append(ledgerTrail[w], EntryOf(e))
  <2>1. ledgerTrail[w] = [i \in 1..Len(events[w]) |-> EntryOf(events[w][i])]
    BY <1>1, Zenon DEF ledgerTrail, EntryOf
  <2>2. ledgerTrail'[w] = [i \in 1..Len(events'[w]) |-> EntryOf(events'[w][i])]
    BY <1>1, Zenon DEF ledgerTrail, EntryOf
  <2>3. ledgerTrail'[w] = [i \in 1..Len(Append(events[w], e)) |-> EntryOf(Append(events[w], e)[i])]
    BY <1>2, <2>2
  <2> QED
    BY <1>1, <2>1, <2>3, TrailAppend
<1>4. ledgerTrail' = [ledgerTrail EXCEPT ![w] = Append(@, EntryOf(e))]
  BY <1>1, <1>2, <1>3, Zenon DEF ledgerTrail
<1>5. ledgerStatus' = [ledgerStatus EXCEPT ![w] = RowOf(r).status]
  BY <1>1, <1>2 DEF ledgerStatus
<1>6. CASE call[r].op = "create"
  <2>1. ledgerStatus[w] = None
    BY <1>1, <1>6, NoneAssumption DEF StoreInv, CreateOwnsItem, Creating, ledgerStatus, Typed, HandlerOK
  <2>2. RowOf(r).status = "new" /\ EntryOf(e) = Ledger!Entry("created", None, None)
    BY <1>6, RowOfFields DEF StoreInv, EntryOf, EventOf, Kind, Ledger!Entry
  <2>3. Ledger!Open(w)
    BY <1>4, <1>5, <2>1, <2>2 DEF Ledger!Open, Ledger!Write
  <2> QED
    BY <1>1, <2>3 DEF Ledger!Next
<1>7. CASE call[r].op = "transition"
  <2>1. /\ tx[r].seen = row[w].status /\ row[w] # None
        /\ CanTransition(row[w].status, call[r].arg) /\ call[r].arg \in Statuses
    BY <1>1, <1>7 DEF StoreInv, StatusHeld, Typed, TargetsExist, Operations
  <2>2. ledgerStatus[w] = row[w].status
    BY <1>1, <2>1 DEF ledgerStatus
  <2>3. /\ RowOf(r).status = call[r].arg
        /\ EntryOf(e) = Ledger!Entry("status_changed", ledgerStatus[w], call[r].arg)
    BY <1>7, <2>1, <2>2, RowOfFields DEF StoreInv, EntryOf, EventOf, Kind, Ledger!Entry
  <2>4. Ledger!CanTransition(ledgerStatus[w], call[r].arg)
    BY <2>1, <2>2 DEF CanTransition, transitions, Ledger!CanTransition, Ledger!transitions
  <2>5. Ledger!Move(w, call[r].arg)
    BY <1>4, <1>5, <2>3, <2>4 DEF Ledger!Move, Ledger!Write
  <2>6. call[r].arg \in Ledger!Statuses
    BY <2>1 DEF Statuses, Ledger!Statuses
  <2> QED
    BY <1>1, <2>5, <2>6 DEF Ledger!Next
<1>8. CASE call[r].op \in {"update", "comment"}
  <2>1. row[w] # None /\ RowOf(r).status = row[w].status /\ row[w] \in Rows
    BY <1>1, <1>8, RowOfFields DEF StoreInv, Typed, TypeOK, TargetsExist
  <2>2. ledgerStatus[w] = row[w].status /\ row[w].status # None
    BY <1>1, <2>1, NoneAssumption DEF ledgerStatus, Rows
  <2>3. /\ Kind(call[r]) \in {"assigned", "updated", "commented"}
        /\ EntryOf(e) = Ledger!Entry(Kind(call[r]), None, None)
    BY <1>1, <1>8 DEF EntryOf, EventOf, Kind, Ledger!Entry, Operations
  <2>4. ledgerStatus' = ledgerStatus
    BY <1>5, <2>1, <2>2 DEF ledgerStatus
  <2>5. Ledger!Annotate(w, Kind(call[r]))
    BY <1>4, <2>2, <2>3, <2>4 DEF Ledger!Annotate, Ledger!Write
  <2> QED
    BY <1>1, <2>3, <2>5 DEF Ledger!Next
<1> QED
  BY <1>1, <1>6, <1>7, <1>8 DEF Operations

\* What the handlers commit between them is a sequence of whole operations on
\* single items, as if nothing had run beside anything (store.go:98-368).
THEOREM StoreImplementsLedger == Spec => ImplementsLedger
<1>1. Init => Ledger!Init
  BY DEF Init, Ledger!Init, ledgerStatus, ledgerTrail
<1>2. StoreInv /\ [Next]_vars => [Ledger!Next]_<<ledgerStatus, ledgerTrail>>
  <2> SUFFICES ASSUME StoreInv, [Next]_vars, ~Ledger!Next
               PROVE  UNCHANGED <<ledgerStatus, ledgerTrail>>
    OBVIOUS
  <2>1. UNCHANGED tables
    BY OnlyCommitWrites, LedgerStep DEF StoreInv
  <2> QED
    BY <2>1 DEF tables, ledgerStatus, ledgerTrail
<1> QED
  BY <1>1, <1>2, StoreInvAlways, PTL DEF Spec, ImplementsLedger, Ledger!Spec
=============================================================================
