-------------------------- MODULE TicketRecordProofs --------------------------
(***************************************************************************)
(* Theorems about what TicketStore records and tells: the numbers of the   *)
(* items, the comments beside the history, the replies and the messages on *)
(* the bus, for any number of handlers, items and connections.             *)
(***************************************************************************)
EXTENDS TicketStoreProofs, FiniteSetTheorems

\* Handler r has drawn a number and not yet committed it.
Drawn(r) == pc[r] = "locked" /\ call[r].op = "create"

NumberOf(r) == FormatNumber(call[r].arg, tx[r].n)

\* The sequence of the number's type has reached it.
Reached(number) == \E t \in Types : number.prefix = NumberPrefix(t) /\ number.n <= seq[t]

(***************************************************************************)
(* Numbers: those in the table and those drawn are all reached by their    *)
(* sequence and all different.                                             *)
(***************************************************************************)
NumbersInv ==
  /\ NumbersUnique
  /\ \A w \in Items : row[w] # None => Reached(row[w].number)
  /\ \A r \in Reqs : Drawn(r) =>
       /\ Reached(NumberOf(r))
       /\ \A w \in Items : row[w] # None => row[w].number # NumberOf(r)
       /\ \A o \in Reqs \ {r} : Drawn(o) => NumberOf(o) # NumberOf(r)

LEMMA NumbersKept ==
  ASSUME Typed, NumbersInv, seq' = seq,
         \A o \in Reqs : Drawn(o)' => Drawn(o) /\ call'[o] = call[o] /\ tx'[o] = tx[o],
         \A w \in Items : row'[w] # None => row[w] # None /\ row'[w].number = row[w].number
  PROVE  NumbersInv'
<1>1. \A o \in Reqs : Drawn(o)' => Drawn(o) /\ NumberOf(o)' = NumberOf(o)
  BY DEF NumberOf
<1>2. \A number : Reached(number)' <=> Reached(number)
  BY DEF Reached
<1>3. NumbersUnique'
  BY DEF NumbersInv, NumbersUnique
<1>4. \A w \in Items : row'[w] # None => Reached(row[w].number)'
  BY <1>2 DEF NumbersInv, Reached
<1>5. ASSUME NEW r \in Reqs, Drawn(r)'
      PROVE  /\ Reached(NumberOf(r))'
             /\ \A w \in Items : row'[w] # None => row'[w].number # NumberOf(r)'
             /\ \A o \in Reqs \ {r} : Drawn(o)' => NumberOf(o)' # NumberOf(r)'
  <2>1. Reached(NumberOf(r))
    BY <1>1, <1>5 DEF NumbersInv
  <2>2. Reached(NumberOf(r))'
    BY <1>1, <1>5, <2>1 DEF Reached
  <2> QED
    BY <1>1, <1>5, <2>2 DEF NumbersInv
<1> QED
  BY <1>3, <1>4, <1>5 DEF NumbersInv

LEMMA NumbersAllocate ==
  ASSUME Typed, NumbersInv, NEW r \in Reqs, AllocateNumber(r)
  PROVE  NumbersInv'
<1> DEFINE t == call[r].arg
<1>1. t \in Types /\ seq \in [Types -> Nat] /\ tx[r] \in Transactions
  BY NoneAssumption DEF AllocateNumber, Typed, TypeOK, HandlerOK, Operations
<1>2. /\ seq' = [seq EXCEPT ![t] = @ + 1] /\ row' = row /\ call' = call
      /\ pc[r] = "begun" /\ Drawn(r)'
      /\ \A o \in Reqs \ {r} : pc'[o] = pc[o] /\ tx'[o] = tx[o]
      /\ tx'[r].n = seq[t] + 1
  BY <1>1 DEF AllocateNumber, Typed, TypeOK, tables, Txn, Drawn
<1>3. /\ \A o \in Reqs \ {r} : (Drawn(o)' <=> Drawn(o)) /\ NumberOf(o)' = NumberOf(o)
      /\ NumberOf(r)' = FormatNumber(t, seq[t] + 1)
  BY <1>2 DEF Drawn, NumberOf
<1>4. \A s \in Types : seq[s] <= seq'[s]
  BY <1>1, <1>2
<1>5. ASSUME NEW number \in Numbers, Reached(number)
      PROVE  Reached(number)' /\ number # NumberOf(r)'
  <2>1. PICK s \in Types : number.prefix = NumberPrefix(s) /\ number.n <= seq[s]
    BY <1>5 DEF Reached
  <2>2. seq'[s] \in Nat /\ seq[s] \in Nat /\ number.n \in Nat
    BY <1>1, <1>2 DEF Numbers
  <2>3. Reached(number)'
    BY <1>4, <2>1, <2>2 DEF Reached
  <2>4. number = NumberOf(r)' => s = t
    BY <1>1, <1>3, <2>1 DEF FormatNumber, NumberPrefix, Types
  <2> QED
    BY <1>1, <1>3, <2>1, <2>2, <2>3, <2>4 DEF FormatNumber
<1>6. \A w \in Items : row[w] # None => row[w].number \in Numbers
  BY DEF Typed, TypeOK, Rows
<1>7. \A o \in Reqs : Drawn(o) => NumberOf(o) \in Numbers
  BY DEF Drawn, NumberOf, Typed, TypeOK, HandlerOK, FormatNumber, NumberPrefix, Numbers,
         Transactions
<1>8. Reached(NumberOf(r))'
  <2>1. seq'[t] = seq[t] + 1
    BY <1>1, <1>2
  <2> QED
    BY <1>1, <1>3, <2>1 DEF Reached, FormatNumber
<1>9. NumbersUnique'
  BY <1>2 DEF NumbersInv, NumbersUnique
<1>10. \A w \in Items : row'[w] # None => Reached(row[w].number)' /\ row'[w].number # NumberOf(r)'
  BY <1>2, <1>5, <1>6 DEF NumbersInv, Reached
<1>11. \A o \in Reqs \ {r} : Drawn(o)' =>
         /\ Reached(NumberOf(o))' /\ NumberOf(o)' # NumberOf(r)'
         /\ \A w \in Items : row'[w] # None => row'[w].number # NumberOf(o)'
         /\ \A q \in Reqs \ {o, r} : Drawn(q)' => NumberOf(q)' # NumberOf(o)'
  <2> SUFFICES ASSUME NEW o \in Reqs \ {r}, Drawn(o)'
               PROVE  /\ Reached(NumberOf(o))' /\ NumberOf(o)' # NumberOf(r)'
                      /\ \A w \in Items : row'[w] # None => row'[w].number # NumberOf(o)'
                      /\ \A q \in Reqs \ {o, r} : Drawn(q)' => NumberOf(q)' # NumberOf(o)'
    OBVIOUS
  <2>1. Drawn(o) /\ NumberOf(o)' = NumberOf(o) /\ NumberOf(o) \in Numbers /\ Reached(NumberOf(o))
    BY <1>3, <1>7 DEF NumbersInv
  <2>2. NumberOf(o) # NumberOf(r)' /\ \E s \in Types :
          NumberOf(o).prefix = NumberPrefix(s) /\ NumberOf(o).n <= seq'[s]
    BY <1>5, <2>1 DEF Reached
  <2>3. Reached(NumberOf(o))'
    BY <2>1, <2>2 DEF Reached
  <2> QED
    BY <1>2, <1>3, <2>1, <2>2, <2>3 DEF NumbersInv
<1> QED
  BY <1>2, <1>8, <1>9, <1>10, <1>11 DEF NumbersInv, Reached

LEMMA NumbersCommit ==
  ASSUME Typed, NumbersInv, NEW r \in Reqs, Commit(r) \/ CommitUnacknowledged(r)
  PROVE  NumbersInv'
<1> DEFINE w == call[r].item
<1>1. /\ pc[r] = "locked" /\ seq' = seq /\ pc'[r] # "locked" /\ w \in Items
      /\ \A o \in Reqs \ {r} : pc'[o] = pc[o] /\ call'[o] = call[o] /\ tx'[o] = tx[o]
      /\ row' = [row EXCEPT ![w] = RowOf(r)]
  <2>1. CASE Commit(r)
    BY <2>1 DEF Commit, Apply, Typed, TypeOK, HandlerOK
  <2>2. CASE CommitUnacknowledged(r)
    BY <2>2 DEF CommitUnacknowledged, Return, Apply, Typed, TypeOK, HandlerOK
  <2> QED
    BY <2>1, <2>2
<1>2. /\ \A o \in Reqs : Drawn(o)' =>
           o # r /\ Drawn(o) /\ call'[o] = call[o] /\ tx'[o] = tx[o]
      /\ row'[w] = RowOf(r) /\ \A v \in Items \ {w} : row'[v] = row[v]
  BY <1>1 DEF Drawn, Typed, TypeOK
<1>3. CASE call[r].op # "create"
  <2>1. row[w] # None /\ row[w] \in Rows
    BY <1>1, <1>3 DEF Typed, TypeOK, TargetsExist
  <2>2. RowOf(r).number = row[w].number
    BY <1>3, <2>1 DEF RowOf, MovedRow, PatchedRow, Rows
  <2> QED
    BY <1>1, <1>2, <2>1, <2>2, NumbersKept
<1>4. CASE call[r].op = "create"
  <2>1. Drawn(r) /\ RowOf(r).number = NumberOf(r)
    BY <1>1, <1>4 DEF Drawn, NumberOf, RowOf, InsertedRow
  <2>2. \A o \in Reqs : Drawn(o)' => o # r /\ Drawn(o) /\ NumberOf(o)' = NumberOf(o)
    BY <1>2 DEF NumberOf
  <2>3. NumbersUnique'
    BY <1>2, <2>1 DEF NumbersInv, NumbersUnique
  <2>4. ASSUME NEW number PROVE Reached(number)' <=> Reached(number)
    BY <1>1 DEF Reached
  <2>5. \A v \in Items : row'[v] # None => Reached(row'[v].number)
    BY <1>2, <2>1 DEF NumbersInv
  <2>6. \A o \in Reqs : Drawn(o)' => Reached(NumberOf(o)')
    BY <2>2 DEF NumbersInv
  <2>7. /\ \A v \in Items : row'[v] # None => Reached(row[v].number)'
        /\ \A o \in Reqs : Drawn(o)' => Reached(NumberOf(o))'
    BY <1>1, <2>5, <2>6 DEF Reached
  <2>8. ASSUME NEW o \in Reqs, Drawn(o)'
        PROVE  /\ \A v \in Items : row'[v] # None => row'[v].number # NumberOf(o)'
               /\ \A q \in Reqs \ {o} : Drawn(q)' => NumberOf(q)' # NumberOf(o)'
    BY <1>2, <2>1, <2>2, <2>8 DEF NumbersInv
  <2> QED
    BY <2>3, <2>7, <2>8 DEF NumbersInv
<1> QED
  BY <1>3, <1>4

LEMMA NumbersNext ==
  ASSUME Typed, NumbersInv, [Next]_vars PROVE NumbersInv'
<1>1. ASSUME NEW r \in Reqs, Call(r) \/ Begin(r)
      PROVE  NumbersInv'
  <2>1. /\ UNCHANGED <<row, seq>> /\ pc'[r] # "locked"
        /\ \A o \in Reqs \ {r} : pc'[o] = pc[o] /\ call'[o] = call[o] /\ tx'[o] = tx[o]
    BY <1>1 DEF Call, Invoke, Begin, tables, Typed, TypeOK
  <2> QED
    BY <2>1, NumbersKept DEF Drawn
<1>2. ASSUME NEW r \in Reqs, SelectForUpdate(r) \/ UpdateFields(r) \/ InsertComment(r)
      PROVE  NumbersInv'
  <2>1. /\ UNCHANGED <<row, seq, call>> /\ call[r].op # "create"
        /\ \A o \in Reqs \ {r} : pc'[o] = pc[o] /\ tx'[o] = tx[o]
    BY <1>2 DEF SelectForUpdate, UpdateFields, InsertComment, tables, Typed, TypeOK
  <2> QED
    BY <2>1, NumbersKept DEF Drawn
<1>3. ASSUME NEW r \in Reqs, RefuseTransition(r) \/ NotFound(r) \/ Fail(r) \/ Publish(r)
      PROVE  NumbersInv'
  <2>1. /\ UNCHANGED <<row, seq>> /\ pc'[r] # "locked"
        /\ \A o \in Reqs \ {r} : pc'[o] = pc[o] /\ call'[o] = call[o] /\ tx'[o] = tx[o]
    BY <1>3 DEF RefuseTransition, NotFound, Fail, Publish, Return, tables, Typed, TypeOK
  <2> QED
    BY <2>1, NumbersKept DEF Drawn
<1>4. CASE Flush \/ Crash \/ UNCHANGED vars
  <2>1. /\ UNCHANGED <<row, seq>>
        /\ \A o \in Reqs : Drawn(o)' => Drawn(o) /\ call'[o] = call[o] /\ tx'[o] = tx[o]
    BY <1>4 DEF Flush, Crash, vars, tables, Drawn
  <2> QED
    BY <2>1, NumbersKept
<1> QED
  BY <1>1, <1>2, <1>3, <1>4, NumbersAllocate, NumbersCommit DEF Next, Progress, Statement

\* The UNIQUE constraint on the number (0001_init.sql:10) never refuses an INSERT:
\* numbers come from a sequence, which hands out none twice (store.go:109).
THEOREM NumbersNeverCollide == Spec => []NumbersUnique
<1>1. Init => NumbersInv
  BY DEF Init, NumbersInv, NumbersUnique, Drawn
<1>2. Typed /\ NumbersInv /\ [Next]_vars => NumbersInv'
  BY NumbersNext
<1>3. NumbersInv => NumbersUnique
  BY DEF NumbersInv
<1> QED
  BY <1>1, <1>2, <1>3, TypedAlways, PTL DEF Spec

-----------------------------------------------------------------------------
(***************************************************************************)
(* What a commit does to the histories: one event, appended to one item's. *)
(***************************************************************************)
Appended(r) ==
  LET w == call[r].item IN
  /\ w \in Items /\ EventOf(r) \in Events /\ EventOf(r).at = tx[r].at
  /\ \A v \in Items \ {w} : events'[v] = events[v]
  /\ Len(events'[w]) = Len(events[w]) + 1
  /\ events'[w][Len(events[w]) + 1] = EventOf(r)
  /\ \A k \in 1..Len(events[w]) : events'[w][k] = events[w][k]

LEMMA ApplyAppends ==
  ASSUME Typed, NEW r \in Reqs, pc[r] = "locked", Apply(r)
  PROVE  Appended(r)
<1>1. /\ call[r].item \in Items /\ EventOf(r) \in Events /\ tx[r] \in Transactions
      /\ events \in [Items -> Seq(Events)]
  BY EventOfType DEF Typed, TypeOK, HandlerOK
<1>2. events' = [events EXCEPT ![call[r].item] = Append(@, EventOf(r))]
  BY DEF Apply
<1>3. EventOf(r).at = tx[r].at
  BY DEF EventOf
<1> QED
  BY <1>1, <1>2, <1>3 DEF Appended

\* So every entry stays where it is, and the only new one is the event's.
LEMMA ApplyEntries ==
  ASSUME Typed, NEW r \in Reqs, pc[r] = "locked", Apply(r), NEW v \in Items
  PROVE  /\ \A k \in 1..Len(events[v]) : k \in 1..Len(events'[v]) /\ events'[v][k] = events[v][k]
         /\ \A k \in 1..Len(events'[v]) :
              k \in 1..Len(events[v]) \/ (v = call[r].item /\ events'[v][k] = EventOf(r))
         /\ v = call[r].item => \E k \in 1..Len(events'[v]) : events'[v][k] = EventOf(r)
<1>1. Appended(r) /\ Len(events[v]) \in Nat
  BY ApplyAppends DEF Typed, TypeOK
<1>2. CASE v # call[r].item
  BY <1>1, <1>2 DEF Appended
<1>3. CASE v = call[r].item
  <2>1. /\ Len(events'[v]) = Len(events[v]) + 1
        /\ events'[v][Len(events[v]) + 1] = EventOf(r)
        /\ \A k \in 1..Len(events[v]) : events'[v][k] = events[v][k]
    BY <1>1, <1>3 DEF Appended
  <2>2. /\ \A k \in 1..Len(events[v]) : k \in 1..Len(events'[v])
        /\ \A k \in 1..Len(events'[v]) : k \in 1..Len(events[v]) \/ k = Len(events[v]) + 1
        /\ Len(events[v]) + 1 \in 1..Len(events'[v])
    BY <1>1, <2>1
  <2> QED
    BY <1>3, <2>1, <2>2
<1> QED
  BY <1>2, <1>3

CommentStamps(w) == {c.at : c \in {d \in comments : d.item = w}}

CommentedStamps(w) ==
  {events[w][i].at : i \in {k \in 1..Len(events[w]) : events[w][k].kind = "commented"}}

LEMMA CommentsApply ==
  ASSUME Typed, CommentsMatchHistory, NEW r \in Reqs, pc[r] = "locked", Apply(r),
         NEW v \in Items
  PROVE  CommentStamps(v)' = CommentedStamps(v)'
<1> DEFINE w == call[r].item
<1> DEFINE e == EventOf(r)
<1>1. /\ w \in Items /\ e \in Events /\ e.at = tx[r].at
      /\ \A u \in Items \ {w} : events'[u] = events[u]
      /\ Len(events'[w]) = Len(events[w]) + 1 /\ events'[w][Len(events[w]) + 1] = e
      /\ \A k \in 1..Len(events[w]) : events'[w][k] = events[w][k]
      /\ Len(events[w]) \in Nat
  BY ApplyAppends DEF Appended, Typed, TypeOK
<1>2. CommentStamps(v) = CommentedStamps(v)
  BY DEF CommentsMatchHistory, CommentStamps, CommentedStamps
<1>3. e.kind = "commented" <=> call[r].op = "comment"
  BY NoneAssumption DEF EventOf, Kind, Typed, TypeOK, HandlerOK, Operations
<1>4. CommentStamps(v)' = CommentStamps(v) \cup
        (IF v = w /\ call[r].op = "comment" THEN {tx[r].at} ELSE {})
  <2>1. CASE call[r].op # "comment"
    BY <2>1 DEF Apply, CommentStamps
  <2>2. CASE call[r].op = "comment"
    <3>1. comments' = comments \cup
            {[item |-> w, internal |-> call[r].arg = "internal", at |-> tx[r].at]}
      BY <2>2 DEF Apply
    <3>2. \A x : x \in CommentStamps(v)' <=> \E c \in comments' : c.item = v /\ c.at = x
      BY DEF CommentStamps
    <3>3. \A x : x \in CommentStamps(v) <=> \E c \in comments : c.item = v /\ c.at = x
      BY DEF CommentStamps
    <3> DEFINE c0 == [item |-> w, internal |-> call[r].arg = "internal", at |-> tx[r].at]
    <3>4. comments' = comments \cup {c0} /\ c0.item = w /\ c0.at = tx[r].at
      BY <3>1
    <3> HIDE DEF c0
    <3>5. \A x : (\E c \in comments' : c.item = v /\ c.at = x) <=>
               (\E c \in comments : c.item = v /\ c.at = x) \/ (v = w /\ x = tx[r].at)
      BY <3>4
    <3>6. \A x : x \in CommentStamps(v)' <=> x \in CommentStamps(v) \/ (v = w /\ x = tx[r].at)
      BY <3>2, <3>3, <3>5
    <3> QED
      BY <2>2, <3>6
  <2> QED
    BY <2>1, <2>2
<1>5. CommentedStamps(v)' = CommentedStamps(v) \cup
        (IF v = w /\ e.kind = "commented" THEN {e.at} ELSE {})
  <2>1. CASE v # w
    BY <1>1, <2>1 DEF CommentedStamps
  <2>2. CASE v = w
    <3>1. 1..Len(events'[w]) = 1..Len(events[w]) \cup {Len(events[w]) + 1}
      BY <1>1
    <3>2. \A x : x \in CommentedStamps(v)' <=>
            \E k \in 1..Len(events'[v]) : events'[v][k].kind = "commented" /\ events'[v][k].at = x
      BY DEF CommentedStamps
    <3>3. \A x : x \in CommentedStamps(v) <=>
            \E k \in 1..Len(events[v]) : events[v][k].kind = "commented" /\ events[v][k].at = x
      BY DEF CommentedStamps
    <3>4. ASSUME NEW x
          PROVE  (\E k \in 1..Len(events'[w]) :
                    events'[w][k].kind = "commented" /\ events'[w][k].at = x) <=>
                 \/ \E k \in 1..Len(events[w]) :
                      events[w][k].kind = "commented" /\ events[w][k].at = x
                 \/ e.kind = "commented" /\ x = e.at
      <4>1. \A k \in 1..Len(events'[w]) : k \in 1..Len(events[w]) \/ k = Len(events[w]) + 1
        BY <3>1
      <4>2. /\ \A k \in 1..Len(events[w]) : k \in 1..Len(events'[w])
            /\ Len(events[w]) + 1 \in 1..Len(events'[w])
        BY <1>1
      <4> QED
        BY <1>1, <4>1, <4>2, Zenon
    <3>5. \A x : x \in CommentedStamps(v)' <=>
            x \in CommentedStamps(v) \/ (e.kind = "commented" /\ x = e.at)
      BY <2>2, <3>2, <3>3, <3>4
    <3> QED
      BY <2>2, <3>5
  <2> QED
    BY <2>1, <2>2
<1> QED
  BY <1>1, <1>2, <1>3, <1>4, <1>5

\* A comment and its event are committed together or not at all
\* (store.go:347-360).
THEOREM CommentsCorrect == Spec => []CommentsMatchHistory
<1>1. Init => CommentsMatchHistory
  BY DEF Init, CommentsMatchHistory
<1>2. ASSUME Typed, CommentsMatchHistory, [Next]_vars PROVE CommentsMatchHistory'
  <2>1. CASE UNCHANGED tables
    BY <1>2, <2>1 DEF CommentsMatchHistory, tables
  <2>2. ASSUME NEW r \in Reqs, pc[r] = "locked", Apply(r) PROVE CommentsMatchHistory'
    <3>1. \A v \in Items : CommentStamps(v)' = CommentedStamps(v)'
      BY <1>2, <2>2, CommentsApply
    <3> QED
      BY <3>1 DEF CommentsMatchHistory, CommentStamps, CommentedStamps
  <2> QED
    BY <1>2, <2>1, <2>2, OnlyCommitWrites
<1> QED
  BY <1>1, <1>2, TypedAlways, PTL DEF Spec

-----------------------------------------------------------------------------
(***************************************************************************)
(* Stamps: a transaction's start time is its own, and tells whether it has *)
(* committed.                                                              *)
(***************************************************************************)
StampsInv ==
  /\ \A r \in Reqs : tx[r] # None =>
       /\ tx[r].at <= clock
       /\ \A o \in Reqs \ {r} : tx[o] # None => tx[o].at # tx[r].at
  /\ \A w \in Items : \A k \in 1..Len(events[w]) :
       /\ events[w][k].at <= clock
       /\ \A j \in 1..Len(events[w]) : j # k => events[w][j].at # events[w][k].at
       /\ \A r \in Reqs : pc[r] \in {"begun", "locked"} => events[w][k].at # tx[r].at

\* A step that starts no transaction and writes no event keeps the stamps apart.
LEMMA StampsKept ==
  ASSUME Typed, StampsInv, events' = events, clock' = clock,
         \A o \in Reqs :
           /\ tx'[o] # None => tx[o] # None /\ tx'[o].at = tx[o].at
           /\ pc'[o] \in {"begun", "locked"} => pc[o] \in {"begun", "locked"} /\ tx'[o] # None
  PROVE  StampsInv'
BY DEF StampsInv

LEMMA StampsBegin ==
  ASSUME Typed, StampsInv, NEW r \in Reqs, Begin(r)
  PROVE  StampsInv'
<1>1. /\ clock \in Nat /\ clock' = clock + 1 /\ events' = events
      /\ tx'[r].at = clock' /\ tx'[r] # None /\ pc'[r] = "begun"
      /\ \A o \in Reqs \ {r} : tx'[o] = tx[o] /\ pc'[o] = pc[o]
  BY NoneAssumption DEF Begin, Typed, TypeOK, tables, Txn, Transactions
<1>2. \A o \in Reqs : tx[o] # None => tx[o].at \in Nat
  BY DEF Typed, TypeOK, Transactions
<1>3. ASSUME NEW w \in Items, NEW k \in 1..Len(events[w]) PROVE events[w][k].at \in Nat
  <2>1. events[w] \in Seq(Events)
    BY DEF Typed, TypeOK
  <2>2. events[w][k] \in Events
    BY <2>1
  <2> QED
    BY <2>2 DEF Events
<1>4. \A o \in Reqs : tx'[o] # None =>
        /\ tx'[o].at <= clock'
        /\ \A q \in Reqs \ {o} : tx'[q] # None => tx'[q].at # tx'[o].at
  <2>1. \A o \in Reqs \ {r} : tx'[o] # None => tx'[o].at <= clock /\ tx'[o].at \in Nat
    BY <1>1, <1>2 DEF StampsInv
  <2> QED
    BY <1>1, <2>1 DEF StampsInv
<1>5. ASSUME NEW w \in Items, NEW k \in 1..Len(events[w])
      PROVE  /\ events[w][k].at <= clock' /\ events[w][k].at # tx'[r].at
             /\ \A o \in Reqs \ {r} : pc'[o] \in {"begun", "locked"} => events[w][k].at # tx'[o].at
  <2>1. /\ events[w][k].at <= clock /\ events[w][k].at \in Nat
        /\ \A o \in Reqs : pc[o] \in {"begun", "locked"} => events[w][k].at # tx[o].at
    BY <1>3 DEF StampsInv
  <2> QED
    BY <1>1, <2>1
<1> QED
  BY <1>1, <1>4, <1>5 DEF StampsInv

LEMMA StampsCommit ==
  ASSUME Typed, StampsInv, NEW r \in Reqs, Commit(r) \/ CommitUnacknowledged(r)
  PROVE  StampsInv'
<1> DEFINE w == call[r].item
<1> DEFINE e == EventOf(r)
<1>1. /\ pc[r] = "locked" /\ clock' = clock /\ pc'[r] \notin {"begun", "locked"}
      /\ \A o \in Reqs \ {r} : tx'[o] = tx[o] /\ pc'[o] = pc[o]
      /\ tx[r] # None /\ (tx'[r] # None => tx'[r].at = tx[r].at)
      /\ Apply(r)
  <2>1. CASE Commit(r)
    BY <2>1 DEF Commit, Txn, Typed, TypeOK, HandlerOK
  <2>2. CASE CommitUnacknowledged(r)
    BY <2>2 DEF CommitUnacknowledged, Return, Typed, TypeOK, HandlerOK
  <2> QED
    BY <2>1, <2>2
<1>2. /\ w \in Items /\ e.at = tx[r].at /\ Len(events[w]) \in Nat
      /\ \A u \in Items \ {w} : events'[u] = events[u]
      /\ Len(events'[w]) = Len(events[w]) + 1 /\ events'[w][Len(events[w]) + 1] = e
      /\ \A k \in 1..Len(events[w]) : events'[w][k] = events[w][k]
  BY <1>1, ApplyAppends DEF Appended, Typed, TypeOK
<1>3. \A k \in 1..Len(events[w]) : events[w][k].at # e.at
  BY <1>1, <1>2 DEF StampsInv
<1>4. /\ e.at <= clock
      /\ \A o \in Reqs : pc'[o] \in {"begun", "locked"} => tx'[o].at # e.at
  <2>1. tx[r].at <= clock /\ \A o \in Reqs \ {r} : tx[o] # None => tx[o].at # tx[r].at
    BY <1>1 DEF StampsInv
  <2>2. \A o \in Reqs : pc'[o] \in {"begun", "locked"} => o # r /\ tx'[o] = tx[o] /\ tx[o] # None
    BY <1>1 DEF Typed, HandlerOK
  <2> QED
    BY <1>2, <2>1, <2>2
<1>5. \A k \in 1..Len(events'[w]) : k \in 1..Len(events[w]) \/ k = Len(events[w]) + 1
  BY <1>2
<1>6. ASSUME NEW k \in 1..Len(events'[w])
      PROVE  /\ events'[w][k].at <= clock'
             /\ \A j \in 1..Len(events'[w]) : j # k => events'[w][j].at # events'[w][k].at
             /\ \A o \in Reqs : pc'[o] \in {"begun", "locked"} => events'[w][k].at # tx'[o].at
  <2>1. CASE k \in 1..Len(events[w])
    <3>1. /\ events[w][k].at <= clock
          /\ \A j \in 1..Len(events[w]) : j # k => events[w][j].at # events[w][k].at
          /\ \A o \in Reqs : pc[o] \in {"begun", "locked"} => events[w][k].at # tx[o].at
      BY <1>2, <2>1 DEF StampsInv
    <3>2. events'[w][k] = events[w][k]
      BY <1>2, <2>1
    <3>3. ASSUME NEW j \in 1..Len(events'[w]), j # k PROVE events'[w][j].at # events[w][k].at
      <4>1. CASE j \in 1..Len(events[w])
        BY <1>2, <3>1, <3>3, <4>1
      <4>2. CASE j = Len(events[w]) + 1
        BY <1>2, <1>3, <2>1, <4>2
      <4> QED
        BY <1>5, <4>1, <4>2
    <3>4. \A o \in Reqs : pc'[o] \in {"begun", "locked"} => o # r /\ tx'[o] = tx[o] /\ pc'[o] = pc[o]
      BY <1>1
    <3> QED
      BY <1>1, <3>1, <3>2, <3>3, <3>4
  <2>2. CASE k = Len(events[w]) + 1
    BY <1>1, <1>2, <1>3, <1>4, <1>5, <2>2
  <2> QED
    BY <1>5, <2>1, <2>2
<1>7. ASSUME NEW v \in Items \ {w}, NEW k \in 1..Len(events'[v])
      PROVE  /\ events'[v][k].at <= clock'
             /\ \A j \in 1..Len(events'[v]) : j # k => events'[v][j].at # events'[v][k].at
             /\ \A o \in Reqs : pc'[o] \in {"begun", "locked"} => events'[v][k].at # tx'[o].at
  <2>1. events'[v] = events[v]
    BY <1>2
  <2>2. \A o \in Reqs : pc'[o] \in {"begun", "locked"} => pc'[o] = pc[o] /\ tx'[o] = tx[o]
    BY <1>1
  <2> QED
    BY <1>1, <2>1, <2>2 DEF StampsInv
<1>8. \A o \in Reqs : tx'[o] # None =>
        /\ tx'[o].at <= clock'
        /\ \A q \in Reqs \ {o} : tx'[q] # None => tx'[q].at # tx'[o].at
  BY <1>1 DEF StampsInv
<1>9. \A v \in Items : \A k \in 1..Len(events'[v]) :
        /\ events'[v][k].at <= clock'
        /\ \A j \in 1..Len(events'[v]) : j # k => events'[v][j].at # events'[v][k].at
        /\ \A o \in Reqs : pc'[o] \in {"begun", "locked"} => events'[v][k].at # tx'[o].at
  BY <1>6, <1>7, Zenon
<1> QED
  BY <1>8, <1>9, Zenon DEF StampsInv

LEMMA StampsNext ==
  ASSUME Typed, StampsInv, [Next]_vars PROVE StampsInv'
<1>1. ASSUME NEW r \in Reqs, Call(r) PROVE StampsInv'
  <2>1. /\ events' = events /\ clock' = clock /\ tx' = tx
        /\ pc'[r] = "queued" /\ \A o \in Reqs \ {r} : pc'[o] = pc[o]
    BY <1>1 DEF Call, Invoke, tables, Typed, TypeOK
  <2> QED
    BY <2>1, StampsKept DEF Typed, HandlerOK
<1>2. ASSUME NEW r \in Reqs,
             AllocateNumber(r) \/ SelectForUpdate(r) \/ UpdateFields(r) \/ InsertComment(r)
      PROVE  StampsInv'
  <2>1. PICK t : /\ events' = events /\ clock' = clock /\ pc[r] = "begun"
                 /\ tx' = [tx EXCEPT ![r] = t] /\ t.at = tx[r].at
                 /\ \A o \in Reqs \ {r} : pc'[o] = pc[o]
    BY <1>2 DEF AllocateNumber, SelectForUpdate, UpdateFields, InsertComment, tables, Txn,
                Typed, TypeOK
  <2>2. tx'[r] = t /\ tx[r] # None /\ \A o \in Reqs \ {r} : tx'[o] = tx[o]
    BY <2>1 DEF Typed, TypeOK, HandlerOK
  <2>3. tx'[r] # None
    BY <1>2, TypedLocked DEF Typed, HandlerOK, AllocateNumber, SelectForUpdate, UpdateFields,
                             InsertComment, TypeOK
  <2> QED
    BY <2>1, <2>2, <2>3, StampsKept DEF Typed, HandlerOK
<1>3. ASSUME NEW r \in Reqs, RefuseTransition(r) \/ NotFound(r) \/ Fail(r) \/ Publish(r)
      PROVE  StampsInv'
  <2>1. /\ events' = events /\ clock' = clock /\ tx'[r] = None /\ pc'[r] = "idle"
        /\ \A o \in Reqs \ {r} : pc'[o] = pc[o] /\ tx'[o] = tx[o]
    BY <1>3 DEF RefuseTransition, NotFound, Fail, Publish, Return, tables, Typed, TypeOK
  <2> QED
    BY <2>1, StampsKept DEF Typed, HandlerOK
<1>4. CASE Flush \/ Crash \/ UNCHANGED vars
  <2>1. /\ events' = events /\ clock' = clock
        /\ \A o \in Reqs : \/ pc'[o] = pc[o] /\ tx'[o] = tx[o]
                           \/ pc'[o] = "idle" /\ tx'[o] = None
    BY <1>4 DEF Flush, Crash, vars, tables
  <2> QED
    BY <2>1, StampsKept DEF Typed, HandlerOK
<1> QED
  BY <1>1, <1>2, <1>3, <1>4, StampsBegin, StampsCommit DEF Next, Progress, Statement

LEMMA StampsAlways == Spec => []StampsInv
<1>1. Init => StampsInv
  BY DEF Init, StampsInv
<1>2. Typed /\ StampsInv /\ [Next]_vars => StampsInv'
  BY StampsNext
<1> QED
  BY <1>1, <1>2, TypedAlways, PTL DEF Spec

-----------------------------------------------------------------------------
(***************************************************************************)
(* Messages: a handler that has committed owns an event nobody else can    *)
(* announce.                                                               *)
(***************************************************************************)
Announced == bus \o outbox

Message(r) == [item |-> call[r].item, event |-> EventOf(r)]

Durable(m) == \E k \in 1..Len(events[m.item]) : events[m.item][k] = m.event

OwnsEvent ==
  \A r \in Reqs : pc[r] = "committed" =>
    /\ Durable(Message(r))
    /\ \A i \in 1..Len(Announced) : Announced[i].item = call[r].item => Announced[i].event.at # tx[r].at

SentInv == AnnouncedIsDurable /\ OwnsEvent

LEMMA SentType ==
  ASSUME Typed
  PROVE  /\ Announced \in Seq(Messages) /\ Len(Announced) \in Nat
         /\ \A i \in 1..Len(Announced) : Announced[i] \in Messages /\ Announced[i].item \in Items
<1>1. bus \in Seq(Messages) /\ outbox \in Seq(Messages)
  BY DEF Typed, TypeOK
<1>2. Announced \in Seq(Messages)
  BY <1>1 DEF Announced
<1>3. \A i \in 1..Len(Announced) : Announced[i] \in Messages
  BY <1>2
<1> QED
  BY <1>2, <1>3 DEF Messages

\* Steps that leave the histories alone and announce nothing new.
LEMMA SentKept ==
  ASSUME Typed, SentInv, events' = events,
         Len(Announced') <= Len(Announced), Len(Announced') \in Nat, \A i \in 1..Len(Announced') : Announced'[i] = Announced[i],
         \A o \in Reqs : pc'[o] = "committed" =>
           pc[o] = "committed" /\ call'[o] = call[o] /\ tx'[o] = tx[o]
  PROVE  SentInv'
<1>1. Len(Announced) \in Nat /\ \A i \in 1..Len(Announced') : i \in 1..Len(Announced)
  BY SentType
<1>2. AnnouncedIsDurable'
  <2>1. /\ \A i \in 1..Len(Announced) :
             \E k \in 1..Len(events[Announced[i].item]) :
               events[Announced[i].item][k] = Announced[i].event
        /\ \A i, j \in 1..Len(Announced) : i # j => Announced[i] # Announced[j]
    BY DEF SentInv, AnnouncedIsDurable, Announced
  <2>2. ASSUME NEW i \in 1..Len(Announced')
        PROVE  \E k \in 1..Len(events'[Announced'[i].item]) :
                 events'[Announced'[i].item][k] = Announced'[i].event
    <3>1. i \in 1..Len(Announced) /\ Announced'[i] = Announced[i]
      BY <1>1
    <3> QED
      BY <2>1, <3>1
  <2>3. ASSUME NEW i \in 1..Len(Announced'), NEW j \in 1..Len(Announced'), i # j
        PROVE  Announced'[i] # Announced'[j]
    BY <1>1, <2>1, <2>3
  <2> QED
    BY <2>2, <2>3 DEF AnnouncedIsDurable, Announced
<1>3. ASSUME NEW o \in Reqs, pc'[o] = "committed"
      PROVE  /\ Durable(Message(o))'
             /\ \A i \in 1..Len(Announced') : Announced'[i].item = call'[o].item =>
                  Announced'[i].event.at # tx'[o].at
  <2>1. EventOf(o)' = EventOf(o) /\ call'[o] = call[o] /\ tx'[o] = tx[o] /\ pc[o] = "committed"
    BY <1>3 DEF EventOf
  <2> QED
    BY <1>1, <2>1 DEF SentInv, OwnsEvent, Durable, Message
<1> QED
  BY <1>2, <1>3 DEF SentInv, OwnsEvent

LEMMA SentCommit ==
  ASSUME Typed, StampsInv, SentInv, NEW r \in Reqs, Commit(r) \/ CommitUnacknowledged(r)
  PROVE  SentInv'
<1> DEFINE w == call[r].item
<1>1. /\ pc[r] = "locked" /\ Apply(r) /\ Announced' = Announced /\ w \in Items
      /\ \A o \in Reqs \ {r} : pc'[o] = pc[o] /\ call'[o] = call[o] /\ tx'[o] = tx[o]
  BY DEF Commit, CommitUnacknowledged, Return, wire, Announced, Typed, TypeOK, HandlerOK
<1>2. pc'[r] = "committed" => call'[r] = call[r] /\ tx'[r].at = tx[r].at /\ EventOf(r)' = EventOf(r)
  <2>1. CASE Commit(r)
    <3>1. /\ call' = call /\ tx'[r].at = tx[r].at /\ tx'[r].seen = tx[r].seen
      BY <2>1 DEF Commit, Txn, Typed, TypeOK
    <3> QED
      BY <3>1 DEF EventOf
  <2>2. CASE CommitUnacknowledged(r)
    BY <2>2 DEF CommitUnacknowledged, Return, Typed, TypeOK
  <2> QED
    BY <2>1, <2>2
<1>3. \E k \in 1..Len(events'[w]) : events'[w][k] = EventOf(r)
  BY <1>1, ApplyEntries
<1>4. ASSUME NEW m, m.item \in Items, Durable(m)
      PROVE  \E k \in 1..Len(events'[m.item]) : events'[m.item][k] = m.event
  <2>1. PICK k \in 1..Len(events[m.item]) : events[m.item][k] = m.event
    BY <1>4 DEF Durable
  <2>2. k \in 1..Len(events'[m.item]) /\ events'[m.item][k] = events[m.item][k]
    BY <1>1, <1>4, ApplyEntries
  <2> QED
    BY <2>1, <2>2
<1>5. \A i \in 1..Len(Announced) : Announced[i].item \in Items
  BY SentType
<1>6. AnnouncedIsDurable'
  <2>1. \A i \in 1..Len(Announced) : Durable(Announced[i])
    BY DEF SentInv, AnnouncedIsDurable, Durable, Announced
  <2>2. \A i \in 1..Len(Announced) : \E k \in 1..Len(events'[Announced[i].item]) :
          events'[Announced[i].item][k] = Announced[i].event
    BY <1>4, <1>5, <2>1 DEF Durable
  <2>3. \A i, j \in 1..Len(Announced) : i # j => Announced[i] # Announced[j]
    BY DEF SentInv, AnnouncedIsDurable, Announced
  <2>4. /\ \A i \in 1..Len(Announced') : \E k \in 1..Len(events'[Announced'[i].item]) :
             events'[Announced'[i].item][k] = Announced'[i].event
        /\ \A i, j \in 1..Len(Announced') : i # j => Announced'[i] # Announced'[j]
    BY <1>1, <2>2, <2>3
  <2> QED
    BY <2>4 DEF AnnouncedIsDurable, Announced
<1>7. ASSUME NEW o \in Reqs \ {r}, pc'[o] = "committed"
      PROVE  /\ Durable(Message(o))'
             /\ \A i \in 1..Len(Announced') : Announced'[i].item = call'[o].item =>
                  Announced'[i].event.at # tx'[o].at
  <2>1. /\ EventOf(o)' = EventOf(o) /\ call'[o] = call[o] /\ tx'[o] = tx[o] /\ pc[o] = "committed"
        /\ Message(o).item \in Items /\ Message(o)' = Message(o)
    BY <1>1, <1>7 DEF EventOf, Typed, HandlerOK, Message
  <2>2. \E k \in 1..Len(events'[Message(o).item]) : events'[Message(o).item][k] = Message(o).event
    BY <1>4, <2>1 DEF SentInv, OwnsEvent, Durable
  <2> QED
    BY <1>1, <2>1, <2>2 DEF SentInv, OwnsEvent, Durable
<1>8. ASSUME pc'[r] = "committed"
      PROVE  /\ Durable(Message(r))'
             /\ \A i \in 1..Len(Announced') : Announced'[i].item = call'[r].item =>
                  Announced'[i].event.at # tx'[r].at
  <2>1. Durable(Message(r))'
    <3>1. PICK u, e : u = w /\ e = EventOf(r) /\ u = call'[r].item /\ e = EventOf(r)'
      BY <1>2, <1>8
    <3>2. \E k \in 1..Len(events'[u]) : events'[u][k] = e
      BY <1>3, <3>1
    <3> QED
      BY <3>1, <3>2 DEF Durable, Message
  <2>2. ASSUME NEW i \in 1..Len(Announced), Announced[i].item = w PROVE Announced[i].event.at # tx[r].at
    <3>1. PICK k \in 1..Len(events[w]) : events[w][k] = Announced[i].event
      <4>1. Durable(Announced[i])
        BY <2>2 DEF SentInv, AnnouncedIsDurable, Durable, Announced
      <4> QED
        BY <2>2, <4>1 DEF Durable
    <3> QED
      BY <1>1, <3>1 DEF StampsInv
  <2> QED
    BY <1>1, <1>2, <1>8, <2>1, <2>2
<1> QED
  BY <1>6, <1>7, <1>8 DEF SentInv, OwnsEvent

LEMMA SentPublish ==
  ASSUME Typed, StampsInv, SentInv, NEW r \in Reqs, Publish(r)
  PROVE  SentInv'
<1> DEFINE m == Message(r)
<1>1. /\ pc[r] = "committed" /\ events' = events /\ pc'[r] = "idle" /\ tx[r] # None
      /\ \A o \in Reqs \ {r} : pc'[o] = pc[o] /\ call'[o] = call[o] /\ tx'[o] = tx[o]
  BY DEF Publish, Return, tables, Typed, TypeOK, HandlerOK
<1>2. Announced \in Seq(Messages) /\ Len(Announced) \in Nat
  BY SentType
<1>3. CASE outbox' = outbox
  <2>1. Announced' = Announced
    BY <1>3 DEF Publish, Announced
  <2> QED
    BY <1>1, <1>2, <2>1, SentKept
<1>4. CASE outbox' = Append(outbox, m)
  <2>1. m \in Messages /\ m.event.at = tx[r].at /\ m.item = call[r].item /\ m.item \in Items
    BY <1>1, EventOfType DEF Message, Messages, EventOf, Typed, HandlerOK
  <2>2. Announced' = Append(Announced, m)
    <3>1. bus \in Seq(Messages) /\ outbox \in Seq(Messages)
      BY DEF Typed, TypeOK
    <3>2. bus \o Append(outbox, m) = Append(bus \o outbox, m)
      BY <2>1, <3>1
    <3> QED
      BY <1>4, <3>2 DEF Publish, Announced
  <2>3. /\ Len(Announced') = Len(Announced) + 1 /\ Announced'[Len(Announced) + 1] = m
        /\ \A i \in 1..Len(Announced) : Announced'[i] = Announced[i]
    BY <1>2, <2>1, <2>2
  <2>4. \A i \in 1..Len(Announced') : i \in 1..Len(Announced) \/ i = Len(Announced) + 1
    BY <1>2, <2>3
  <2>5. Durable(m) /\ \A i \in 1..Len(Announced) : Announced[i] # m
    BY <1>1, <2>1 DEF SentInv, OwnsEvent
  <2>6. \A i \in 1..Len(Announced') : \E k \in 1..Len(events'[Announced'[i].item]) :
          events'[Announced'[i].item][k] = Announced'[i].event
    <3>1. \A i \in 1..Len(Announced) : Durable(Announced[i])
      BY DEF SentInv, AnnouncedIsDurable, Durable, Announced
    <3>2. ASSUME NEW i \in 1..Len(Announced') PROVE Durable(Announced'[i])
      BY <2>3, <2>4, <2>5, <3>1
    <3> QED
      BY <1>1, <3>2 DEF Durable
  <2>7. \A i, j \in 1..Len(Announced') : i # j => Announced'[i] # Announced'[j]
    BY <2>3, <2>4, <2>5 DEF SentInv, AnnouncedIsDurable, Announced
  <2>8. AnnouncedIsDurable'
    BY <2>6, <2>7 DEF AnnouncedIsDurable, Announced
  <2>9. ASSUME NEW o \in Reqs, pc'[o] = "committed"
        PROVE  /\ Durable(Message(o))'
               /\ \A i \in 1..Len(Announced') : Announced'[i].item = call'[o].item =>
                    Announced'[i].event.at # tx'[o].at
    <3>1. /\ o # r /\ EventOf(o)' = EventOf(o) /\ call'[o] = call[o] /\ tx'[o] = tx[o]
          /\ pc[o] = "committed" /\ tx[o] # None
      BY <1>1, <2>9 DEF EventOf, Typed, HandlerOK
    <3>2. Durable(Message(o))'
      BY <1>1, <3>1 DEF SentInv, OwnsEvent, Durable, Message
    <3>3. tx[o].at # tx[r].at
      BY <1>1, <3>1 DEF StampsInv
    <3> QED
      BY <2>1, <2>3, <2>4, <3>1, <3>2, <3>3 DEF SentInv, OwnsEvent
  <2> QED
    BY <2>8, <2>9 DEF SentInv, OwnsEvent
<1> QED
  BY <1>3, <1>4 DEF Publish, Message

LEMMA SentNext ==
  ASSUME Typed, StampsInv, SentInv, [Next]_vars PROVE SentInv'
<1>0. Announced \in Seq(Messages) /\ Len(Announced) \in Nat
  BY SentType
<1>1. ASSUME NEW r \in Reqs,
             \/ Call(r) \/ Begin(r) \/ RefuseTransition(r) \/ NotFound(r) \/ Fail(r)
             \/ AllocateNumber(r) \/ SelectForUpdate(r) \/ UpdateFields(r) \/ InsertComment(r)
      PROVE  SentInv'
  <2>1. events' = events /\ bus' = bus /\ outbox' = outbox
    BY <1>1 DEF Call, Invoke, Begin, RefuseTransition, NotFound, Fail, AllocateNumber,
                SelectForUpdate, UpdateFields, InsertComment, tables, wire
  <2>2. /\ pc'[r] # "committed"
        /\ \A o \in Reqs \ {r} : pc'[o] = pc[o] /\ call'[o] = call[o] /\ tx'[o] = tx[o]
    BY <1>1 DEF Call, Invoke, Begin, RefuseTransition, NotFound, Fail, AllocateNumber,
                SelectForUpdate, UpdateFields, InsertComment, Return, Typed, TypeOK
  <2>3. Announced' = Announced
    BY <2>1 DEF Announced
  <2> QED
    BY <1>0, <2>1, <2>2, <2>3, SentKept
<1>2. CASE Flush
  <2>1. bus \in Seq(Messages) /\ outbox \in Seq(Messages) /\ outbox # <<>>
    BY <1>2 DEF Flush, Typed, TypeOK
  <2>2. Append(bus, Head(outbox)) \o Tail(outbox) = bus \o outbox
    BY <2>1
  <2>3. Announced' = Announced
    BY <1>2, <2>2 DEF Flush, Announced
  <2> QED
    BY <1>0, <1>2, <2>3, SentKept DEF Flush, tables
<1>3. CASE Crash
  <2>1. bus \in Seq(Messages) /\ outbox \in Seq(Messages)
    BY DEF Typed, TypeOK
  <2>2. Announced' = bus
    BY <1>3, <2>1 DEF Crash, Announced
  <2>3. /\ Len(bus) \in Nat /\ Len(bus) <= Len(bus \o outbox)
        /\ \A i \in 1..Len(bus) : bus[i] = (bus \o outbox)[i]
    BY <2>1
  <2>4. \A o \in Reqs : pc'[o] # "committed"
    BY <1>3 DEF Crash
  <2> QED
    BY <1>3, <2>2, <2>3, <2>4, SentKept DEF Crash, tables, Announced
<1>4. CASE UNCHANGED vars
  BY <1>0, <1>4, SentKept DEF vars, Announced
<1> QED
  BY <1>1, <1>2, <1>3, <1>4, SentCommit, SentPublish DEF Next, Progress, Statement

LEMMA SentAlways == Spec => []SentInv
<1>1. Init => SentInv
  BY DEF Init, SentInv, AnnouncedIsDurable, OwnsEvent
<1>2. Typed /\ StampsInv /\ SentInv /\ [Next]_vars => SentInv'
  BY SentNext
<1> QED
  BY <1>1, <1>2, TypedAlways, StampsAlways, PTL DEF Spec

\* Whatever fails or crashes, a message on the bus tells of one committed event,
\* and of no event there are two (store.go:69-71, 82).
THEOREM AnnouncedCorrect == Spec => []AnnouncedIsDurable
<1>1. SentInv => AnnouncedIsDurable
  BY DEF SentInv
<1> QED
  BY <1>1, SentAlways, PTL

-----------------------------------------------------------------------------
(***************************************************************************)
(* Replies: a stamp that has been answered for is out of use.              *)
(***************************************************************************)
Decided == {"ok", "not_found", "invalid_transition"}

StampedIn(w, at) == \E k \in 1..Len(events[w]) : events[w][k].at = at

ReplyOK(a) ==
  /\ a.at <= clock
  /\ \A o \in Reqs : tx[o] # None => tx[o].at # a.at
  /\ IF a.outcome = "ok" THEN a.item \in Items /\ StampedIn(a.item, a.at)
     ELSE a.item \in Items => ~StampedIn(a.item, a.at)

RepliesInv ==
  \A r \in Reqs : (reply[r] # None /\ reply[r].outcome \in Decided) => ReplyOK(reply[r])

\* Steps that write no event, start no transaction and decide no call.
LEMMA RepliesKept ==
  ASSUME Typed, RepliesInv, events' = events, clock' = clock,
         \A o \in Reqs :
           /\ tx'[o] # None => tx[o] # None /\ tx'[o].at = tx[o].at
           /\ reply'[o] # None /\ reply'[o].outcome \in Decided => reply'[o] = reply[o]
  PROVE  RepliesInv'
BY DEF RepliesInv, ReplyOK, StampedIn

LEMMA RepliesBegin ==
  ASSUME Typed, RepliesInv, NEW r \in Reqs, Begin(r)
  PROVE  RepliesInv'
<1>1. /\ clock \in Nat /\ clock' = clock + 1 /\ events' = events /\ reply' = reply
      /\ tx'[r].at = clock' /\ \A o \in Reqs \ {r} : tx'[o] = tx[o]
  BY DEF Begin, Typed, TypeOK, tables, Txn
<1>2. ASSUME NEW q \in Reqs, reply[q] # None, reply[q].outcome \in Decided
      PROVE  ReplyOK(reply[q])'
  <2>1. ReplyOK(reply[q]) /\ reply[q].at \in Nat
    BY <1>2 DEF RepliesInv, Typed, TypeOK, Replies
  <2>2. reply[q].at <= clock' /\ reply[q].at # clock'
    BY <1>1, <2>1 DEF ReplyOK
  <2> QED
    BY <1>1, <2>1, <2>2 DEF ReplyOK, StampedIn
<1> QED
  BY <1>1, <1>2 DEF RepliesInv

LEMMA RepliesCommit ==
  ASSUME Typed, RepliesInv, NEW r \in Reqs, Commit(r) \/ CommitUnacknowledged(r)
  PROVE  RepliesInv'
<1> DEFINE w == call[r].item
<1>1. /\ pc[r] = "locked" /\ Apply(r) /\ clock' = clock /\ tx[r] # None
      /\ \A o \in Reqs \ {r} : tx'[o] = tx[o] /\ reply'[o] = reply[o]
  BY DEF Commit, CommitUnacknowledged, Return, Typed, TypeOK, HandlerOK
<1>2. /\ tx'[r] # None => tx'[r].at = tx[r].at
      /\ reply'[r] # None /\ reply'[r].outcome \in Decided => reply'[r] = reply[r]
  <2>1. CASE Commit(r)
    BY <2>1 DEF Commit, Txn, Typed, TypeOK
  <2>2. CASE CommitUnacknowledged(r)
    BY <2>2 DEF CommitUnacknowledged, Return, Typed, TypeOK, Decided
  <2> QED
    BY <2>1, <2>2
<1>3. EventOf(r).at = tx[r].at
  BY DEF EventOf
<1>4. ASSUME NEW v \in Items, NEW at, at # tx[r].at
      PROVE  (\E k \in 1..Len(events'[v]) : events'[v][k].at = at) <=> StampedIn(v, at)
  <2>1. \A k \in 1..Len(events[v]) : k \in 1..Len(events'[v]) /\ events'[v][k] = events[v][k]
    BY <1>1, ApplyEntries
  <2>2. \A k \in 1..Len(events'[v]) : k \in 1..Len(events[v]) \/ events'[v][k] = EventOf(r)
    BY <1>1, ApplyEntries
  <2> QED
    BY <1>3, <1>4, <2>1, <2>2 DEF StampedIn
<1>5. ASSUME NEW q \in Reqs, reply'[q] # None, reply'[q].outcome \in Decided
      PROVE  ReplyOK(reply[q])'
  <2>1. reply'[q] = reply[q] /\ ReplyOK(reply[q])
    BY <1>1, <1>2, <1>5 DEF RepliesInv
  <2>2. reply[q].at # tx[r].at
    BY <1>1, <2>1 DEF ReplyOK
  <2>3. reply[q].item \in Items =>
          ((\E k \in 1..Len(events'[reply[q].item]) : events'[reply[q].item][k].at = reply[q].at)
             <=> StampedIn(reply[q].item, reply[q].at))
    BY <1>4, <2>2
  <2> QED
    BY <1>1, <1>2, <2>1, <2>3 DEF ReplyOK, StampedIn
<1> QED
  BY <1>5 DEF RepliesInv

LEMMA RepliesDecide ==
  ASSUME Typed, StampsInv, SentInv, RepliesInv, NEW r \in Reqs,
         RefuseTransition(r) \/ NotFound(r) \/ Publish(r)
  PROVE  RepliesInv'
<1>1. /\ events' = events /\ clock' = clock /\ tx'[r] = None
      /\ \A o \in Reqs \ {r} : tx'[o] = tx[o] /\ reply'[o] = reply[o]
      /\ tx[r] # None
  BY DEF RefuseTransition, NotFound, Publish, Return, tables, Typed, TypeOK, HandlerOK
<1>2. reply'[r].at = tx[r].at /\ reply'[r].item = call[r].item
  BY <1>1 DEF RefuseTransition, NotFound, Publish, Return, Typed, TypeOK
<1>3. /\ tx[r].at <= clock
      /\ \A o \in Reqs : tx'[o] # None => tx'[o].at # tx[r].at
  BY <1>1 DEF StampsInv
<1>4. IF reply'[r].outcome = "ok"
      THEN call[r].item \in Items /\ StampedIn(call[r].item, tx[r].at)
      ELSE call[r].item \in Items => ~StampedIn(call[r].item, tx[r].at)
  <2>1. CASE Publish(r)
    <3>1. reply'[r].outcome = "ok" /\ call[r].item \in Items /\ pc[r] = "committed"
      BY <2>1 DEF Publish, Return, Typed, TypeOK, HandlerOK
    <3>2. Message(r).item = call[r].item /\ Message(r).event.at = tx[r].at
      BY DEF Message, EventOf
    <3>3. StampedIn(call[r].item, tx[r].at)
      BY <3>1, <3>2 DEF SentInv, OwnsEvent, Durable, StampedIn
    <3> QED
      BY <3>1, <3>3
  <2>2. CASE RefuseTransition(r) \/ NotFound(r)
    <3>1. reply'[r].outcome # "ok" /\ pc[r] = "begun"
      BY <2>2 DEF RefuseTransition, NotFound, Return, Typed, TypeOK
    <3> QED
      BY <3>1 DEF StampsInv, StampedIn
  <2> QED
    BY <2>1, <2>2
<1>5. ReplyOK(reply[r])'
  BY <1>1, <1>2, <1>3, <1>4 DEF ReplyOK, StampedIn
<1>6. ASSUME NEW q \in Reqs \ {r}, reply'[q] # None, reply'[q].outcome \in Decided
      PROVE  ReplyOK(reply[q])'
  BY <1>1, <1>6 DEF RepliesInv, ReplyOK, StampedIn
<1> QED
  BY <1>5, <1>6 DEF RepliesInv

LEMMA RepliesNext ==
  ASSUME Typed, StampsInv, SentInv, RepliesInv, [Next]_vars PROVE RepliesInv'
<1>1. ASSUME NEW r \in Reqs, Call(r) PROVE RepliesInv'
  <2>1. /\ events' = events /\ clock' = clock /\ tx' = tx
        /\ reply'[r] = None /\ \A o \in Reqs \ {r} : reply'[o] = reply[o]
    BY <1>1 DEF Call, Invoke, tables, Typed, TypeOK
  <2> QED
    BY <2>1, RepliesKept
<1>2. ASSUME NEW r \in Reqs,
             AllocateNumber(r) \/ SelectForUpdate(r) \/ UpdateFields(r) \/ InsertComment(r)
      PROVE  RepliesInv'
  <2>1. PICK t : /\ events' = events /\ clock' = clock /\ reply' = reply
                 /\ tx' = [tx EXCEPT ![r] = t] /\ t.at = tx[r].at /\ pc[r] = "begun"
    BY <1>2 DEF AllocateNumber, SelectForUpdate, UpdateFields, InsertComment, tables, Txn
  <2>2. tx'[r].at = tx[r].at /\ tx[r] # None /\ \A o \in Reqs \ {r} : tx'[o] = tx[o]
    BY <2>1 DEF Typed, TypeOK, HandlerOK
  <2> QED
    BY <2>1, <2>2, RepliesKept
<1>3. ASSUME NEW r \in Reqs, Fail(r) PROVE RepliesInv'
  <2>1. /\ events' = events /\ clock' = clock /\ tx'[r] = None /\ reply'[r].outcome = "error"
        /\ \A o \in Reqs \ {r} : tx'[o] = tx[o] /\ reply'[o] = reply[o]
    BY <1>3 DEF Fail, Return, tables, Typed, TypeOK
  <2> QED
    BY <2>1, RepliesKept DEF Decided
<1>4. CASE Flush \/ Crash \/ UNCHANGED vars
  <2>1. /\ events' = events /\ clock' = clock
        /\ \A o \in Reqs : /\ tx'[o] \in {tx[o], None}
                           /\ reply'[o] = reply[o] \/ reply'[o].outcome = "lost"
    BY <1>4 DEF Flush, Crash, vars, tables
  <2> QED
    BY <2>1, RepliesKept DEF Decided
<1> QED
  BY <1>1, <1>2, <1>3, <1>4, RepliesBegin, RepliesCommit, RepliesDecide
  DEF Next, Progress, Statement

\* ok means that exactly one event tells of the call, ErrNotFound and
\* ErrInvalidTransition that none does, whatever happens later (store.go:98-368).
THEOREM RepliesCorrect == Spec => []RepliesTruthful
<1>1. Init => RepliesInv
  BY DEF Init, RepliesInv
<1>2. ASSUME Typed, StampsInv, RepliesInv PROVE RepliesTruthful
  <2> SUFFICES ASSUME NEW r \in Reqs, reply[r] # None,
                      NEW stamped, stamped = IF reply[r].item = Absent THEN {}
                        ELSE {k \in 1..Len(events[reply[r].item]) :
                                events[reply[r].item][k].at = reply[r].at}
               PROVE  /\ reply[r].outcome = "ok" => Cardinality(stamped) = 1
                      /\ reply[r].outcome \in {"not_found", "invalid_transition"} => stamped = {}
    BY DEF RepliesTruthful
  <2>1. reply[r].item \in Items \cup {Absent}
    BY <1>2 DEF Typed, TypeOK, Replies
  <2>2. ASSUME reply[r].outcome = "ok" PROVE Cardinality(stamped) = 1
    <3>1. reply[r].item \in Items /\ StampedIn(reply[r].item, reply[r].at)
      BY <1>2, <2>2 DEF RepliesInv, ReplyOK, Decided
    <3>2. PICK k \in 1..Len(events[reply[r].item]) : events[reply[r].item][k].at = reply[r].at
      BY <3>1 DEF StampedIn
    <3>3. \A j \in 1..Len(events[reply[r].item]) :
            j # k => events[reply[r].item][j].at # events[reply[r].item][k].at
      BY <1>2, <3>1 DEF StampsInv
    <3>4. stamped = {k}
      BY <3>1, <3>2, <3>3, ItemAssumption
    <3> QED
      BY <3>4, FS_Singleton
  <2>3. ASSUME reply[r].outcome \in {"not_found", "invalid_transition"} PROVE stamped = {}
    <3>1. reply[r].item \in Items => ~StampedIn(reply[r].item, reply[r].at)
      BY <1>2, <2>3 DEF RepliesInv, ReplyOK, Decided
    <3> QED
      BY <2>1, <3>1 DEF StampedIn
  <2> QED
    BY <2>2, <2>3
<1>3. Typed /\ StampsInv /\ SentInv /\ RepliesInv /\ [Next]_vars => RepliesInv'
  BY RepliesNext
<1> QED
  BY <1>1, <1>2, <1>3, TypedAlways, StampsAlways, SentAlways, PTL DEF Spec
=============================================================================
