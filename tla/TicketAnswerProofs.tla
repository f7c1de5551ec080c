------------------------- MODULE TicketAnswerProofs -------------------------
(***************************************************************************)
(* The answers to a transition are true: TransitionAnswersTruthful of      *)
(* TicketApi, for any slots, items, users, roles and requests.             *)
(***************************************************************************)
EXTENDS TicketApiProofs

(***************************************************************************)
(* A refused transition leaves its stamp nowhere.                          *)
(***************************************************************************)
Clean(at) ==
  /\ at <= clock
  /\ \A o \in Reqs : tx[o] # None => tx[o].at # at
  /\ \A w \in Items : ~StampedIn(w, at)

RefusedClean(r) ==
  reply[r] # None /\ reply[r].outcome = "invalid_transition" => Clean(reply[r].at)

CleanInv == \A r \in Reqs : RefusedClean(r)

\* A new stamp in a history is that of a transaction under way.
LEMMA StampsFromCommits ==
  ASSUME Typed, [Next]_vars, NEW w \in Items, NEW at, StampedIn(w, at)'
  PROVE  StampedIn(w, at) \/ \E o \in Reqs : tx[o] # None /\ tx[o].at = at
<1>1. CASE UNCHANGED tables
  BY <1>1 DEF tables, StampedIn
<1>2. ASSUME NEW r \in Reqs, pc[r] = "locked", Apply(r), at # tx[r].at
      PROVE  StampedIn(w, at)
  <2>1. PICK k \in 1..Len(events'[w]) : events'[w][k].at = at
    BY DEF StampedIn
  <2>2. events'[w][k] # EventOf(r)
    BY <1>2, <2>1 DEF EventOf
  <2>3. k \in 1..Len(events[w]) /\ events'[w][k] = events[w][k]
    BY <1>2, <2>2, ApplyEntries
  <2> QED
    BY <2>1, <2>3 DEF StampedIn
<1>3. \A r \in Reqs : pc[r] = "locked" => tx[r] # None
  BY DEF Typed, HandlerOK
<1> QED
  BY <1>1, <1>2, <1>3, OnlyCommitWrites

LEMMA CleanKept ==
  ASSUME Typed, CleanInv, [Next]_vars, clock <= clock',
         \A o \in Reqs :
           /\ tx'[o] # None => (tx[o] # None /\ tx'[o].at = tx[o].at) \/ tx'[o].at > clock
           /\ reply'[o] = reply[o] \/ RefusedClean(o)'
  PROVE  CleanInv'
<1> SUFFICES ASSUME NEW r \in Reqs, reply'[r] = reply[r], reply[r] # None,
                    reply[r].outcome = "invalid_transition"
             PROVE  RefusedClean(r)'
  BY DEF CleanInv, RefusedClean
<1>1. PICK at \in Nat : at = reply[r].at
  BY DEF Typed, TypeOK, Replies
<1>2. Clean(at) /\ clock \in Nat
  BY <1>1 DEF CleanInv, RefusedClean, Typed, TypeOK
<1>3. clock' \in Nat
  BY TypedNext DEF Typed, TypeOK
<1>4. at <= clock'
  BY <1>2, <1>3 DEF Clean
<1>5. \A o \in Reqs : tx'[o] # None => tx'[o].at # at
  BY <1>2 DEF Clean
<1>6. \A w \in Items : ~StampedIn(w, at)'
  BY <1>2, StampsFromCommits DEF Clean
<1>7. Clean(at)'
  BY <1>4, <1>5, <1>6 DEF Clean
<1> QED
  BY <1>1, <1>7 DEF RefusedClean, Clean, StampedIn

LEMMA CleanNext ==
  ASSUME Typed, StampsInv, CleanInv, [Next]_vars PROVE CleanInv'
<1>0. Typed' /\ clock \in Nat
  BY TypedNext DEF Typed, TypeOK
<1>1. ASSUME NEW r \in Reqs, Call(r) PROVE CleanInv'
  <2>1. /\ clock' = clock /\ tx' = tx
        /\ reply'[r] = None /\ \A o \in Reqs \ {r} : reply'[o] = reply[o]
    BY <1>1 DEF Call, Invoke, Typed, TypeOK
  <2> QED
    BY <1>0, <2>1, CleanKept DEF RefusedClean
<1>2. ASSUME NEW r \in Reqs, Begin(r) PROVE CleanInv'
  <2>1. /\ clock' = clock + 1 /\ reply' = reply /\ tx'[r].at = clock + 1
        /\ \A o \in Reqs \ {r} : tx'[o] = tx[o]
    BY <1>2 DEF Begin, Txn, Typed, TypeOK
  <2> QED
    BY <1>0, <2>1, CleanKept
<1>3. ASSUME NEW r \in Reqs, AllocateNumber(r) \/ SelectForUpdate(r) \/ UpdateFields(r)
                             \/ InsertComment(r) \/ Commit(r)
      PROVE  CleanInv'
  <2>1. PICK t : /\ clock' = clock /\ reply' = reply /\ pc[r] \in {"begun", "locked"}
                 /\ tx' = [tx EXCEPT ![r] = t] /\ t.at = tx[r].at
    BY <1>3 DEF AllocateNumber, SelectForUpdate, UpdateFields, InsertComment, Commit, Txn
  <2>2. tx'[r].at = tx[r].at /\ tx[r] # None /\ \A o \in Reqs \ {r} : tx'[o] = tx[o]
    BY <2>1 DEF Typed, TypeOK, HandlerOK
  <2> QED
    BY <1>0, <2>1, <2>2, CleanKept
<1>4. ASSUME NEW r \in Reqs, NotFound(r) \/ Publish(r) \/ CommitUnacknowledged(r) \/ Fail(r)
      PROVE  CleanInv'
  <2>1. /\ clock' = clock /\ tx'[r] = None /\ reply'[r].outcome # "invalid_transition"
        /\ \A o \in Reqs \ {r} : tx'[o] = tx[o] /\ reply'[o] = reply[o]
    BY <1>4 DEF NotFound, Publish, CommitUnacknowledged, Fail, Return, Typed, TypeOK
  <2> QED
    BY <1>0, <2>1, CleanKept DEF RefusedClean
<1>5. ASSUME NEW r \in Reqs, RefuseTransition(r) PROVE CleanInv'
  <2>1. /\ clock' = clock /\ events' = events /\ tx'[r] = None
        /\ tx[r] # None /\ pc[r] = "begun" /\ reply'[r].at = tx[r].at
        /\ \A o \in Reqs \ {r} : tx'[o] = tx[o] /\ reply'[o] = reply[o]
    BY <1>5 DEF RefuseTransition, Return, tables, Typed, TypeOK, HandlerOK
  <2>2. PICK at : at = tx[r].at
    OBVIOUS
  <2>3. Clean(at)'
    BY <2>1, <2>2 DEF Clean, StampsInv, StampedIn
  <2>4. RefusedClean(r)'
    BY <2>1, <2>2, <2>3 DEF RefusedClean, Clean, StampedIn
  <2> QED
    BY <1>0, <2>1, <2>4, CleanKept
<1>6. CASE Flush \/ Crash \/ UNCHANGED vars
  <2>1. /\ clock' = clock
        /\ \A o \in Reqs : /\ tx'[o] \in {tx[o], None}
                           /\ reply'[o] = reply[o] \/ reply'[o].outcome = "lost"
    BY <1>6 DEF Flush, Crash, vars, tables
  <2> QED
    BY <1>0, <2>1, CleanKept DEF RefusedClean
<1> QED
  BY <1>1, <1>2, <1>3, <1>4, <1>5, <1>6 DEF Next, Progress, Statement

LEMMA CleanAlways == Spec => []CleanInv
<1>1. Init => CleanInv
  BY DEF Init, CleanInv, RefusedClean
<1> QED
  BY <1>1, CleanNext, TypedAlways, StampsAlways, PTL DEF Spec

(***************************************************************************)
(* What a slot knows of its transition.                                    *)
(***************************************************************************)
Moved(w, to) ==
  w \in Items /\ \E i \in 1..Len(events[w]) : IsMove(events[w][i]) /\ events[w][i].to = to

Note(w, at) == [item |-> w, internal |-> TRUE, at |-> at]

Transiting(r) == step[r] = "calling" /\ http[r].verb = "transition"

\* The store was asked for what the request asks for.
Asking(r) ==
  call[r] # None =>
    /\ Transiting(r) =>
         call[r].op = "transition" /\ call[r].arg = http[r].arg /\ call[r].item = http[r].id
    /\ step[r] = "noting" =>
         call[r].op = "comment" /\ call[r].arg = "internal" /\ call[r].item = http[r].id

\* What has been committed for it is in the tables.
Recorded(r) ==
  /\ Transiting(r) /\ (pc[r] = "committed" \/ Returned(r, "ok")) =>
       Moved(http[r].id, http[r].arg)
  /\ step[r] = "noting" =>
       /\ Moved(http[r].id, http[r].arg)
       /\ pc[r] = "committed" => Note(http[r].id, tx[r].at) \in comments
       /\ Returned(r, "ok") => Note(http[r].id, reply[r].at) \in comments

\* What its answer says.
Told(r) ==
  Answered(r) /\ http[r].verb = "transition" =>
    /\ answer[r].code = 200 =>
         /\ Moved(http[r].id, http[r].arg)
         /\ http[r].note => Note(http[r].id, reply[r].at) \in comments
    /\ answer[r].code = 409 => reply[r] # None /\ reply[r].outcome = "invalid_transition"

AnswerOK(r) == Asking(r) /\ Recorded(r) /\ Told(r)

AnswerInv == \A r \in Reqs : AnswerOK(r)

\* The tables only grow.
LEMMA TablesGrow ==
  ASSUME Typed, [Next]_vars
  PROVE  /\ comments \subseteq comments'
         /\ \A w, to : Moved(w, to) => Moved(w, to)'
<1>1. CASE UNCHANGED tables
  BY <1>1 DEF tables, Moved
<1>2. ASSUME NEW r \in Reqs, pc[r] = "locked", Apply(r)
      PROVE  /\ comments \subseteq comments'
             /\ \A w, to : Moved(w, to) => Moved(w, to)'
  <2>1. \A w \in Items : \A i \in 1..Len(events[w]) :
          i \in 1..Len(events'[w]) /\ events'[w][i] = events[w][i]
    BY <1>2, ApplyEntries
  <2> QED
    BY <1>2, <2>1 DEF Moved, Apply
<1> QED
  BY <1>1, <1>2, OnlyCommitWrites

AnswerSame(o) ==
  /\ http'[o] = http[o] /\ step'[o] = step[o] /\ loaded'[o] = loaded[o]
  /\ answer'[o] = answer[o]
  /\ pc'[o] = pc[o] /\ call'[o] = call[o] /\ reply'[o] = reply[o] /\ tx'[o] = tx[o]

\* What a step of one slot leaves of the others.
LEMMA AnswerFrame ==
  ASSUME Typed, [Next]_vars, NEW o \in Reqs, AnswerOK(o), AnswerSame(o)
  PROVE  AnswerOK(o)'
<1>1. /\ comments \subseteq comments'
      /\ Moved(http[o].id, http[o].arg) => Moved(http[o].id, http[o].arg)'
  <2>1. PICK w, to : w = http[o].id /\ to = http[o].arg /\ w = http'[o].id /\ to = http'[o].arg
    BY DEF AnswerSame
  <2>2. Moved(w, to) => Moved(w, to)'
    BY TablesGrow
  <2> QED
    BY <2>1, <2>2, TablesGrow DEF Moved
<1>2. Asking(o)'
  BY DEF AnswerOK, Asking, Transiting, AnswerSame
<1>3. Recorded(o)'
  BY <1>1 DEF AnswerOK, Recorded, Transiting, Returned, Note, AnswerSame
<1>4. Told(o)'
  BY <1>1 DEF AnswerOK, Told, Answered, Note, AnswerSame
<1> QED
  BY <1>2, <1>3, <1>4 DEF AnswerOK

\* A handler that answers a transition with success has seen it, and its comment,
\* committed; one that answers 409 has been told so by the store; and one that
\* answers another write with success has seen that committed.
Says(r, code, items) ==
  /\ http[r].verb = "transition" =>
       \/ code \in {403, 404, 422, 500}
       \/ code = 409 /\ Returned(r, "invalid_transition")
       \/ code = 200 /\ Transiting(r) /\ Returned(r, "ok") /\ ~http[r].note
       \/ code = 200 /\ step[r] = "noting" /\ Returned(r, "ok")
  /\ WritesOnce(http[r]) /\ code \in {200, 201} =>
       step[r] = "calling" /\ Returned(r, "ok") /\ items = {reply[r].item}

SaysRightly(r) ==
  \E code, items, notes : Respond(r, code, items, notes) /\ Says(r, code, items)

LEMMA ErrorsSay ==
  ASSUME NEW r \in Reqs,
         WriteError(r, 403) \/ WriteError(r, 404) \/ WriteError(r, 422) \/ WriteError(r, 500)
  PROVE  SaysRightly(r)
<1>1. Says(r, 403, {}) /\ Says(r, 404, {}) /\ Says(r, 422, {}) /\ Says(r, 500, {})
  BY DEF Says
<1>2. ASSUME NEW code, WriteError(r, code), Says(r, code, {}) PROVE SaysRightly(r)
  BY <1>2, Zenon DEF WriteError, SaysRightly
<1> QED
  BY <1>1, <1>2

\* What a read answers with is not a matter of writes.
LEMMA ReadsSay ==
  ASSUME NEW r \in Reqs, http[r].verb # "transition", ~WritesOnce(http[r]),
         NEW code, NEW items, NEW notes, Respond(r, code, items, notes)
  PROVE  SaysRightly(r)
<1>1. Says(r, code, items)
  BY DEF Says
<1> QED
  BY <1>1, Zenon DEF SaysRightly

LEMMA ShowsSay ==
  ASSUME NEW r \in Reqs, NEW code, NEW w, Shows(r, code, w), Says(r, code, {w})
  PROVE  SaysRightly(r)
BY Zenon DEF Shows, SaysRightly

LEMMA HandlersSay ==
  ASSUME ServiceInv, NEW r \in Reqs, Answering(r)
  PROVE  SaysRightly(r)
<1>1. CASE Forbid(r) \/ Refuse(r)
  BY <1>1, ErrorsSay DEF Forbid, Refuse
<1>2. CASE RefuseComment(r)
  <2>1. CASE http[r].arg = "bogus"
    BY <1>2, <2>1, ErrorsSay DEF RefuseComment
  <2>2. CASE http[r].arg # "bogus" /\ http[r].arg = "internal" /\ ~isAgent(r)
    BY <1>2, <2>2, ErrorsSay DEF RefuseComment
  <2>3. CASE http[r].arg # "bogus" /\ ~(http[r].arg = "internal" /\ ~isAgent(r))
    BY <1>2, <2>3, ErrorsSay DEF RefuseComment
  <2> QED
    BY <2>1, <2>2, <2>3
<1>3. CASE List(r) \/ UpdateNothing(r) \/ ListEvents(r) \/ ListComments(r)
  <2>1. http[r].verb # "transition" /\ ~WritesOnce(http[r])
    BY <1>3 DEF List, UpdateNothing, ListEvents, ListComments, Routed, WritesOnce
  <2>2. \/ WriteError(r, 500)
        \/ \E code, items, notes : Answer(r, code, items, notes)
    <3>1. CASE List(r)
      BY <3>1 DEF List
    <3>2. CASE UpdateNothing(r)
      <4>1. Answer(r, 200, {http[r].id}, FALSE) \/ Answer(r, 404, {}, FALSE)
        BY <3>2 DEF UpdateNothing
      <4> QED
        BY <4>1
    <3>3. CASE ListEvents(r)
      BY <3>3 DEF ListEvents
    <3>4. CASE ListComments(r)
      BY <3>4 DEF ListComments
    <3> QED
      BY <1>3, <3>1, <3>2, <3>3, <3>4
  <2>3. ASSUME NEW code, NEW items, NEW notes, Answer(r, code, items, notes)
        PROVE  SaysRightly(r)
    BY <2>1, <2>3, ReadsSay, ErrorsSay DEF Answer
  <2> QED
    BY <2>2, <2>3, ErrorsSay
<1>4. CASE Get(r)
  BY <1>4, ReadsSay DEF Get, WritesOnce
<1>5. CASE Finish(r)
  <2>1. Returned(r, "ok") => Says(r, 200, {reply[r].item}) /\ Says(r, 201, {reply[r].item})
    BY <1>5, FinishResponds DEF Says
  <2> QED
    BY <1>5, <2>1, FinishResponds, ShowsSay, ErrorsSay
<1>6. CASE FinishTransition(r)
  <2>1. /\ step[r] = "calling" /\ http[r].verb = "transition"
        /\ \/ Returned(r, "ok") /\ ~http[r].note /\ Shows(r, 200, reply[r].item)
           \/ Returned(r, "invalid_transition") /\ WriteError(r, 409)
           \/ WriteError(r, 404)
           \/ WriteError(r, 500)
    BY <1>6, FinishTransitionResponds
  <2>2. ASSUME Returned(r, "ok"), ~http[r].note PROVE Says(r, 200, {reply[r].item})
    BY <2>1, <2>2 DEF Says, Transiting, WritesOnce
  <2>3. ASSUME Returned(r, "invalid_transition"), WriteError(r, 409) PROVE SaysRightly(r)
    <3>1. Says(r, 409, {})
      BY <2>3 DEF Says
    <3> QED
      BY <2>3, <3>1, Zenon DEF WriteError, SaysRightly
  <2> QED
    BY <2>1, <2>2, <2>3, ShowsSay, ErrorsSay
<1>7. CASE FinishNote(r)
  <2>1. step[r] = "noting" /\ http[r].verb = "transition"
    BY <1>7 DEF FinishNote, ServiceInv, SlotOK, HandlerAt
  <2>2. Returned(r, "ok") => Says(r, 200, {http[r].id})
    BY <2>1 DEF Says, WritesOnce
  <2> QED
    BY <1>7, <2>2, FinishNoteResponds, ShowsSay, ErrorsSay
<1> QED
  BY <1>1, <1>2, <1>3, <1>4, <1>5, <1>6, <1>7 DEF Answering

LEMMA AnswersTold ==
  ASSUME ServiceInv, NEW r \in Reqs, Answering(r), AnswerOK(r)
  PROVE  AnswerOK(r)'
<1>1. UNCHANGED vars
  BY ReadsWriteNothing DEF Answering, Reads
<1>2. PICK code, items, notes : Respond(r, code, items, notes) /\ Says(r, code, items)
  BY HandlersSay DEF SaysRightly
<1> DEFINE a == [code |-> code, items |-> items, notes |-> notes]
<1>3. answer'[r] = a /\ a.code = code /\ step'[r] = "idle" /\ http' = http
  BY <1>2 DEF Respond, ServiceInv, ApiTypeOK
<1> HIDE DEF a
<1>4. UNCHANGED <<events, comments, reply, http, pc, call>>
  BY <1>1, <1>3 DEF vars, tables
<1>5. Asking(r)' /\ Recorded(r)'
  BY <1>3 DEF Asking, Recorded, Transiting
<1>6. Told(r)'
  <2>1. http[r].verb = "transition" /\ code = 200 =>
          /\ Moved(http[r].id, http[r].arg)
          /\ http[r].note => Note(http[r].id, reply[r].at) \in comments
    BY <1>2 DEF Says, AnswerOK, Recorded
  <2>2. http[r].verb = "transition" /\ code = 409 =>
          reply[r] # None /\ reply[r].outcome = "invalid_transition"
    BY <1>2 DEF Says, Returned
  <2> QED
    BY <1>3, <1>4, <2>1, <2>2 DEF Told, Moved, Note
<1> QED
  BY <1>5, <1>6 DEF AnswerOK

\* The handlers that neither answer nor call.
LEMMA ArrivalsTold ==
  ASSUME ServiceInv, NEW r \in Reqs, Receive(r) \/ Reject(r) \/ Load(r), AnswerOK(r)
  PROVE  AnswerOK(r)'
<1>1. step[r] \notin {"calling", "noting"} /\ step'[r] \notin {"calling", "noting"}
  BY DEF Receive, Reject, Load, ServiceInv, ApiTypeOK
<1>2. Asking(r)' /\ Recorded(r)'
  BY <1>1 DEF Asking, Recorded, Transiting
<1>3. Told(r)'
  <2>1. CASE Receive(r) \/ Load(r)
    BY <2>1 DEF Receive, Load, Told, Answered, ServiceInv, ApiTypeOK
  <2>2. CASE Reject(r)
    <3>1. answer'[r].code = 401
      BY <2>2 DEF Reject, ServiceInv, ApiTypeOK
    <3> QED
      BY <3>1 DEF Told
  <2> QED
    BY <2>1, <2>2
<1> QED
  BY <1>2, <1>3 DEF AnswerOK

\* A reading slot leaves the others alone.
LEMMA ReadsOthers ==
  ASSUME ServiceInv, NEW r \in Reqs, Reads(r), NEW o \in Reqs \ {r}
  PROVE  AnswerSame(o)
<1>1. UNCHANGED vars
  BY ReadsWriteNothing
<1>2. http'[o] = http[o] /\ step'[o] = step[o] /\ loaded'[o] = loaded[o] /\ answer'[o] = answer[o]
  <2>1. CASE Receive(r) \/ Reject(r) \/ Load(r)
    BY <2>1 DEF Receive, Reject, Load, ServiceInv, ApiTypeOK
  <2>2. CASE Answering(r)
    <3>1. PICK code, items, notes : Respond(r, code, items, notes)
      BY <2>2, HandlersSay DEF SaysRightly
    <3> QED
      BY <3>1 DEF Respond, ServiceInv, ApiTypeOK
  <2> QED
    BY <2>1, <2>2 DEF Reads, Answering
<1> QED
  BY <1>1, <1>2 DEF AnswerSame, vars

\* Call c is what request h asks the store for.
Matches(h, c) ==
  /\ Kind(c) = KindAsked(h)
  /\ h.verb = "create" => c.op = "create" /\ c.arg = h.arg
  /\ h.verb # "create" => c.item = h.id
  /\ h.verb = "addComment" => c.op = "comment" /\ c.arg = h.arg

\* The store is asked for what the request asks for, for its note only once it has
\* moved the item.
AsksFor(r, op, arg, w, to) ==
  /\ CallStore(r, op, arg, w, to)
  /\ to \in {"calling", "noting"}
  /\ to = "calling" /\ http[r].verb = "transition" =>
       op = "transition" /\ arg = http[r].arg /\ w = http[r].id
  /\ to = "noting" =>
       /\ op = "comment" /\ arg = "internal" /\ w = http[r].id
       /\ Transiting(r) /\ Returned(r, "ok")
  /\ (to = "calling" /\ WritesOnce(http[r]) /\ (loaded[r] # None => loaded[r] = http[r].id))
       => Matches(http[r], [op |-> op, arg |-> arg, item |-> w])

LEMMA CallsAskFor ==
  ASSUME NEW r \in Reqs, CallsStore(r)
  PROVE  \E op, arg, w, to : AsksFor(r, op, arg, w, to)
<1>1. CASE Create(r)
  <2>1. PICK w : CallStore(r, "create", http[r].arg, w, "calling")
    BY <1>1 DEF Create
  <2>2. AsksFor(r, "create", http[r].arg, w, "calling")
    BY <1>1, <2>1 DEF Create, Routed, AsksFor, Matches, Kind, KindAsked
  <2> QED
    BY <2>2
<1>2. CASE Update(r)
  <2>1. AsksFor(r, "update", http[r].arg, http[r].id, "calling")
    BY <1>2 DEF Update, Routed, AsksFor, Matches, Kind, KindAsked
  <2> QED
    BY <2>1
<1>3. CASE Transition(r)
  <2>1. AsksFor(r, "transition", http[r].arg, http[r].id, "calling")
    BY <1>3 DEF Transition, Routed, AsksFor, WritesOnce
  <2> QED
    BY <2>1
<1>4. CASE AddComment(r)
  <2>1. AsksFor(r, "comment", http[r].arg, loaded[r], "calling")
    BY <1>4 DEF AddComment, Routed, AsksFor, Matches, Kind, KindAsked
  <2> QED
    BY <2>1
<1>5. CASE AddNote(r)
  <2>1. AsksFor(r, "comment", "internal", http[r].id, "noting")
    BY <1>5 DEF AddNote, AsksFor, Transiting
  <2> QED
    BY <2>1
<1> QED
  BY <1>1, <1>2, <1>3, <1>4, <1>5 DEF CallsStore

LEMMA CallsOthers ==
  ASSUME ServiceInv, NEW r \in Reqs, CallsStore(r), NEW o \in Reqs \ {r}
  PROVE  AnswerSame(o)
<1>1. PICK op, arg, w, to : AsksFor(r, op, arg, w, to)
  BY CallsAskFor
<1> QED
  BY <1>1 DEF AsksFor, CallStore, Invoke, ServiceInv, ApiTypeOK, TypeOK, AnswerSame

LEMMA CallsTold ==
  ASSUME ServiceInv, NEW r \in Reqs, CallsStore(r), AnswerOK(r)
  PROVE  AnswerOK(r)'
<1>1. PICK op, arg, w, to : AsksFor(r, op, arg, w, to)
  BY CallsAskFor
<1> DEFINE c == [op |-> op, arg |-> arg, item |-> w]
<1>2. /\ pc' = [pc EXCEPT ![r] = "queued"] /\ reply' = [reply EXCEPT ![r] = None]
      /\ call' = [call EXCEPT ![r] = c] /\ step' = [step EXCEPT ![r] = to]
      /\ UNCHANGED <<http, events, comments>>
  BY <1>1 DEF AsksFor, CallStore, Invoke, tables
<1>3. c.op = op /\ c.arg = arg /\ c.item = w
  OBVIOUS
<1> HIDE DEF c
<1>4. pc'[r] = "queued" /\ reply'[r] = None /\ call'[r] = c /\ step'[r] = to
  BY <1>2 DEF ServiceInv, ApiTypeOK, TypeOK
<1>5. Asking(r)'
  BY <1>1, <1>2, <1>3, <1>4 DEF Asking, Transiting, AsksFor
<1>6. Recorded(r)'
  <2>1. to = "noting" => Moved(http[r].id, http[r].arg)
    BY <1>1 DEF AnswerOK, Recorded, AsksFor
  <2> QED
    BY <1>2, <1>4, <2>1 DEF Recorded, Transiting, Returned, Moved
<1>7. Told(r)'
  BY <1>1, <1>4 DEF Told, Answered, AsksFor
<1> QED
  BY <1>5, <1>6, <1>7 DEF AnswerOK

(***************************************************************************)
(* The store at work on the call of a slot.                                *)
(***************************************************************************)
\* Committing a transition or an internal comment records it.
LEMMA CommitRecords ==
  ASSUME ServiceInv, NEW r \in Reqs, pc[r] = "locked", Apply(r),
         NEW w, NEW to, call[r].item = w
  PROVE  /\ call[r].op = "transition" /\ call[r].arg = to => Moved(w, to)'
         /\ call[r].op = "comment" /\ call[r].arg = "internal" => Note(w, tx[r].at) \in comments'
<1>1. w \in Items /\ Len(events[w]) \in Nat /\ events[w] \in Seq(Events)
  <2>1. w \in Items
    BY DEF ServiceInv, Typed, HandlerOK
  <2>2. events[w] \in Seq(Events)
    BY <2>1 DEF ServiceInv, Typed, TypeOK
  <2> QED
    BY <2>1, <2>2
<1> DEFINE e == EventOf(r)
<1>2. ASSUME call[r].op = "transition", call[r].arg = to PROVE Moved(w, to)'
  <2>1. IsMove(e) /\ e.to = to
    BY <1>2 DEF EventOf, Kind, IsMove
  <2> HIDE DEF e
  <2>2. events'[w] = Append(events[w], e)
    BY <1>1 DEF Apply, e, ServiceInv, Typed, TypeOK
  <2>3. Len(events'[w]) = Len(events[w]) + 1 /\ events'[w][Len(events[w]) + 1] = e
    BY <1>1, <2>2
  <2>4. Len(events[w]) + 1 \in 1..Len(events'[w])
    BY <1>1, <2>3
  <2>5. \E i \in 1..Len(events'[w]) : IsMove(events'[w][i]) /\ events'[w][i].to = to
    BY <2>1, <2>3, <2>4
  <2> QED
    BY <1>1, <2>5 DEF Moved, IsMove
<1>3. ASSUME call[r].op = "comment", call[r].arg = "internal" PROVE Note(w, tx[r].at) \in comments'
  BY <1>3 DEF Apply, Note
<1> QED
  BY <1>2, <1>3

\* What a step of the store leaves of its slot.
Waits(r) == /\ pc'[r] \in {"begun", "locked"} /\ call'[r] = call[r] /\ reply'[r] = reply[r]
Commits(r) == /\ pc[r] = "locked" /\ Apply(r) /\ pc'[r] = "committed" /\ call'[r] = call[r]
              /\ reply'[r] = reply[r] /\ tx'[r].at = tx[r].at
Returns(r) == /\ pc'[r] = "idle" /\ call'[r] = None /\ reply'[r].item = call[r].item
              /\ reply'[r].outcome = "ok" => pc[r] = "committed" /\ reply'[r].at = tx[r].at

\* A call that returns takes the item it was for and its stamp along.
LEMMA ServeOutcomes ==
  ASSUME ServiceInv, NEW r \in Reqs, Serve(r)
  PROVE  Waits(r) \/ Commits(r) \/ Returns(r)
<1>1. Progress(r) \/ CommitUnacknowledged(r) \/ Fail(r)
  BY DEF Serve
<1>2. CASE Begin(r) \/ AllocateNumber(r) \/ SelectForUpdate(r) \/ UpdateFields(r) \/ InsertComment(r)
  BY <1>2 DEF Begin, AllocateNumber, SelectForUpdate, UpdateFields, InsertComment,
              ServiceInv, Typed, TypeOK, Waits
<1>3. CASE Commit(r)
  <2> DEFINE t == Txn(tx[r].at, None, tx[r].seen, tx[r].n)
  <2>1. tx' = [tx EXCEPT ![r] = t] /\ t.at = tx[r].at
    BY <1>3 DEF Commit, Txn
  <2> HIDE DEF t
  <2>2. tx'[r].at = tx[r].at
    BY <2>1 DEF ServiceInv, Typed, TypeOK
  <2> QED
    BY <1>3, <2>2 DEF Commit, Commits, ServiceInv, Typed, TypeOK
<1>4. ASSUME NEW outcome, Return(r, outcome), outcome = "ok" => pc[r] = "committed"
      PROVE  Returns(r)
  <2> DEFINE a == [outcome |-> outcome, item |-> call[r].item,
                   at |-> IF tx[r] = None THEN 0 ELSE tx[r].at]
  <2>1. reply' = [reply EXCEPT ![r] = a]
    BY <1>4 DEF Return
  <2>2. a.outcome = outcome /\ a.item = call[r].item /\ (tx[r] # None => a.at = tx[r].at)
    OBVIOUS
  <2>3. pc'[r] = "idle" /\ call'[r] = None
    BY <1>4 DEF Return, ServiceInv, Typed, TypeOK
  <2>4. pc[r] = "committed" => tx[r] # None
    BY DEF ServiceInv, Typed, HandlerOK
  <2> HIDE DEF a
  <2>5. reply'[r] = a
    BY <2>1 DEF ServiceInv, Typed, TypeOK
  <2> QED
    BY <1>4, <2>2, <2>3, <2>4, <2>5 DEF Returns
<1> QED
  BY <1>1, <1>2, <1>3, <1>4 DEF Progress, Statement, RefuseTransition, NotFound, Publish,
                                CommitUnacknowledged, Fail

LEMMA ServeOthers ==
  ASSUME ServiceInv, NEW r \in Reqs, Serve(r)
  PROVE  /\ step[r] \in {"calling", "noting"} /\ call[r] # None
         /\ \A o \in Reqs \ {r} : AnswerSame(o)
<1>1. /\ UNCHANGED <<http, step, loaded, answer>>
      /\ Progress(r) \/ CommitUnacknowledged(r) \/ Fail(r)
  BY DEF Serve, apiVars
<1>2. \A o \in Reqs \ {r} : AnswerSame(o)
  BY <1>1 DEF Progress, Statement, Begin, AllocateNumber, SelectForUpdate, RefuseTransition,
              UpdateFields, InsertComment, NotFound, Commit, Publish, CommitUnacknowledged, Fail,
              Return, ServiceInv, Typed, TypeOK, AnswerSame
<1>3. pc[r] # "idle"
  BY <1>1 DEF Progress, Statement, Begin, AllocateNumber, SelectForUpdate, RefuseTransition,
              UpdateFields, InsertComment, NotFound, Commit, Publish, CommitUnacknowledged, Fail
<1>4. SlotOK(r) /\ step[r] \in Steps /\ (pc[r] = "idle" <=> call[r] = None)
  BY DEF ServiceInv, ApiTypeOK, Typed, HandlerOK
<1> QED
  BY <1>2, <1>3, <1>4 DEF SlotOK, HandlerAt, Steps

LEMMA ServeTold ==
  ASSUME ServiceInv, NEW r \in Reqs, Serve(r), AnswerOK(r)
  PROVE  AnswerOK(r)'
<1>1. /\ UNCHANGED <<http, step, answer>>
      /\ Progress(r) \/ CommitUnacknowledged(r) \/ Fail(r)
  BY DEF Serve, apiVars
<1>4. step[r] \in {"calling", "noting"} /\ call[r] # None
  BY ServeOthers
<1>5. PICK w, to : w = http[r].id /\ to = http[r].arg /\ w = http'[r].id /\ to = http'[r].arg
  BY <1>1
<1>6. /\ comments \subseteq comments'
      /\ Moved(w, to) => Moved(w, to)'
  <2>1. Typed /\ Next
    BY <1>1 DEF Next, ServiceInv
  <2> QED
    BY <2>1, TablesGrow
<1>7. Told(r)'
  BY <1>1, <1>4 DEF Told, Answered
<1>8. Asking(r)'
  <2>1. call'[r] \in {call[r], None}
    BY ServeOutcomes DEF Waits, Commits, Returns
  <2> QED
    BY <1>1, <2>1 DEF AnswerOK, Asking, Transiting
<1>9. Recorded(r)'
  <2>1. CASE Waits(r)
    <3>1. ~Returned(r, "ok")' /\ pc'[r] # "committed"
      BY <2>1 DEF Waits, Returned
    <3>2. step[r] = "noting" => Moved(w, to)'
      BY <1>5, <1>6 DEF AnswerOK, Recorded
    <3> QED
      BY <1>1, <1>5, <3>1, <3>2 DEF Recorded, Transiting, Moved
  <2>2. CASE Commits(r)
    <3>1. ~Returned(r, "ok")'
      BY <2>2 DEF Commits, Returned
    <3>2. /\ call[r].op = "transition" /\ call[r].item = w /\ call[r].arg = to => Moved(w, to)'
          /\ call[r].op = "comment" /\ call[r].item = w /\ call[r].arg = "internal" =>
               Note(w, tx[r].at) \in comments'
      BY <2>2, CommitRecords DEF Commits
    <3>3. Transiting(r) => Moved(w, to)'
      BY <1>4, <1>5, <3>2 DEF AnswerOK, Asking
    <3>4. step[r] = "noting" => Moved(w, to)' /\ Note(w, tx'[r].at) \in comments'
      BY <1>4, <1>5, <1>6, <2>2, <3>2 DEF AnswerOK, Asking, Recorded, Commits
    <3> QED
      BY <1>1, <1>5, <3>1, <3>3, <3>4 DEF Recorded, Transiting, Moved, Note
  <2>3. CASE Returns(r)
    <3>1. pc'[r] # "committed" /\ (Returned(r, "ok")' => pc[r] = "committed" /\ reply'[r].at = tx[r].at)
      BY <2>3 DEF Returns, Returned
    <3>2. Returned(r, "ok")' /\ Transiting(r) => Moved(w, to)'
      BY <1>5, <1>6, <3>1 DEF AnswerOK, Recorded
    <3>3. step[r] = "noting" =>
            /\ Moved(w, to)'
            /\ Returned(r, "ok")' => Note(w, reply'[r].at) \in comments'
      BY <1>5, <1>6, <3>1 DEF AnswerOK, Recorded
    <3> QED
      BY <1>1, <1>5, <3>1, <3>2, <3>3 DEF Recorded, Transiting, Moved, Note
  <2> QED
    BY <2>1, <2>2, <2>3, ServeOutcomes
<1> QED
  BY <1>7, <1>8, <1>9 DEF AnswerOK

LEMMA DieTold ==
  ASSUME ServiceInv, AnswerInv, Die PROVE AnswerInv'
<1> SUFFICES ASSUME NEW r \in Reqs PROVE AnswerOK(r)'
  BY DEF AnswerInv
<1>1. /\ UNCHANGED <<answer, events, comments>>
      /\ step'[r] = "idle" /\ call'[r] = None
      /\ step[r] = "idle" => http'[r] = http[r]
      /\ pc[r] = "idle" => reply'[r] = reply[r]
  BY DEF Die, Crash, tables
<1>2. Asking(r)' /\ Recorded(r)'
  BY <1>1 DEF Asking, Recorded, Transiting
<1>3. AnswerOK(r) /\ (step[r] # "idle" => answer[r] = None) /\ (step[r] = "idle" => pc[r] = "idle")
  BY DEF AnswerInv, ServiceInv, SlotOK, RequestOK, HandlerAt
<1>4. Told(r)'
  <2>1. CASE answer[r] = None
    BY <1>1, <2>1 DEF Told, Answered
  <2>2. CASE answer[r] # None
    <3>1. http'[r] = http[r] /\ reply'[r] = reply[r] /\ Answered(r)
      BY <1>1, <1>3, <2>2 DEF Answered
    <3>2. Told(r)
      BY <1>3 DEF AnswerOK
    <3> QED
      BY <1>1, <3>1, <3>2 DEF Told, Moved, Note
  <2> QED
    BY <2>1, <2>2
<1> QED
  BY <1>2, <1>4 DEF AnswerOK

LEMMA AnswerInvNext ==
  ASSUME ServiceInv, AnswerInv, [ApiNext]_allVars PROVE AnswerInv'
<1>1. Typed /\ [Next]_vars
  BY ServiceStepIsStoreStep DEF ServiceInv
<1>2. ASSUME NEW r \in Reqs, AnswerOK(r)', \A o \in Reqs \ {r} : AnswerSame(o)
      PROVE  AnswerInv'
  BY <1>1, <1>2, AnswerFrame DEF AnswerInv
<1>3. ASSUME NEW r \in Reqs, Reads(r) PROVE AnswerInv'
  <2>1. AnswerOK(r)'
    BY <1>3, AnswersTold, ArrivalsTold DEF Reads, Answering, AnswerInv
  <2> QED
    BY <1>2, <1>3, <2>1, ReadsOthers
<1>4. ASSUME NEW r \in Reqs, CallsStore(r) \/ Serve(r) PROVE AnswerInv'
  BY <1>2, <1>4, CallsTold, CallsOthers, ServeTold, ServeOthers DEF AnswerInv
<1>5. ASSUME Drain \/ UNCHANGED allVars PROVE AnswerInv'
  <2>1. \A o \in Reqs : AnswerSame(o)
    BY <1>5 DEF Drain, Flush, apiVars, tables, allVars, vars, AnswerSame
  <2> QED
    BY <1>1, <2>1, AnswerFrame DEF AnswerInv
<1> QED
  BY <1>3, <1>4, <1>5, DieTold, ServiceSteps

-----------------------------------------------------------------------------
\* A transition answered 200 has moved the item and carries its comment; one
\* answered 409 has left nothing (api.go:211-221, store.go:264).
THEOREM TransitionAnswersTrue == ApiSpec => []TransitionAnswersTruthful
<1>1. ApiInit => AnswerInv
  BY DEF ApiInit, AnswerInv, AnswerOK, Asking, Recorded, Told, Transiting, Answered, Init
<1>2. ApiSpec => []AnswerInv
  BY <1>1, AnswerInvNext, ServiceInvAlways, PTL DEF ApiSpec
<1>3. AnswerInv /\ CleanInv => TransitionAnswersTruthful
  <2> SUFFICES ASSUME AnswerInv, CleanInv, NEW r \in Reqs, Answered(r), http[r].verb = "transition"
               PROVE  /\ answer[r].code = 200 =>
                           /\ Moved(http[r].id, http[r].arg)
                           /\ http[r].note => Note(http[r].id, reply[r].at) \in comments
                      /\ answer[r].code = 409 => Clean(reply[r].at)
    BY DEF TransitionAnswersTruthful, Moved, Note, Clean, StampedIn
  <2> QED
    BY DEF AnswerInv, AnswerOK, Told, CleanInv, RefusedClean
<1> QED
  BY <1>2, <1>3, CleanAlways, ServiceRunsStore, PTL

-----------------------------------------------------------------------------
(***************************************************************************)
(* What a slot knows of its create, update or comment.                     *)
(***************************************************************************)
Writing(r) == step[r] = "calling" /\ WritesOnce(http[r])

InTables(h, w, at) == w \in Items /\ row[w] # None /\ Kept(h, w, at)

\* load found the item that was named, and the store was asked for what the
\* request asks for.
AskingOnce(r) ==
  /\ loaded[r] # None => loaded[r] = http[r].id
  /\ Writing(r) /\ call[r] # None => Matches(http[r], call[r])

\* What has been committed for it is in the tables.
Landed(r) ==
  Writing(r) =>
    /\ pc[r] = "committed" => InTables(http[r], call[r].item, tx[r].at)
    /\ Returned(r, "ok") => InTables(http[r], reply[r].item, reply[r].at)

\* What its answer says is.
Vouched(r) ==
  Answered(r) /\ WritesOnce(http[r]) /\ answer[r].code \in {200, 201} =>
    \E w \in answer[r].items : InTables(http[r], w, reply[r].at)

WriteOK(r) == AskingOnce(r) /\ Landed(r) /\ Vouched(r)

WriteInv == \A r \in Reqs : WriteOK(r)

(***************************************************************************)
(* What is in the tables for a request stays there.                        *)
(***************************************************************************)
\* A commit leaves the types of the items that are there.
LEMMA TypesStay ==
  ASSUME StoreInv, NEW r \in Reqs, pc[r] = "locked", Apply(r), NEW w \in Items, row[w] # None
  PROVE  row'[w] # None /\ row'[w].type = row[w].type
<1>1. /\ row' = [row EXCEPT ![call[r].item] = RowOf(r)] /\ row \in [Items -> Rows \cup {None}]
      /\ call[r].item \in Items /\ RowOf(r) \in Rows
  BY RowOfType DEF Apply, StoreInv, Typed, TypeOK, HandlerOK
<1>2. CASE w # call[r].item
  BY <1>1, <1>2
<1>3. CASE w = call[r].item
  <2>1. call[r].op # "create"
    BY <1>3 DEF StoreInv, CreateOwnsItem, Creating, Typed, HandlerOK
  <2>2. RowOf(r).type = row[w].type
    BY <1>1, <1>3, <2>1 DEF RowOf, MovedRow, PatchedRow, Rows
  <2> QED
    BY <1>1, <1>3, <2>2, NoneAssumption
<1> QED
  BY <1>2, <1>3

LEMMA InTablesStays ==
  ASSUME StoreInv, OwnersStay, [Next]_vars, NEW h, NEW w, NEW at, InTables(h, w, at)
  PROVE  InTables(h, w, at)'
<1>1. w \in Items /\ row[w] # None /\ Kept(h, w, at) /\ owner'[w] = owner[w] /\ Typed
  BY DEF InTables, OwnersStay, StoreInv
<1>2. CASE UNCHANGED tables
  BY <1>1, <1>2 DEF tables, InTables, Kept
<1>3. ASSUME NEW r \in Reqs, pc[r] = "locked", Apply(r) PROVE InTables(h, w, at)'
  <2>1. row'[w] # None /\ row'[w].type = row[w].type
    BY <1>1, <1>3, TypesStay
  <2>2. comments \subseteq comments'
    BY <1>3 DEF Apply
  <2>3. \E i \in 1..Len(events'[w]) : events'[w][i].at = at /\ events'[w][i].kind = KindAsked(h)
    BY <1>1, <1>3, ApplyEntries DEF Kept
  <2> QED
    BY <1>1, <2>1, <2>2, <2>3 DEF InTables, Kept
<1> QED
  BY <1>1, <1>2, <1>3, OnlyCommitWrites

LEMMA WriteFrame ==
  ASSUME StoreInv, OwnersStay, [Next]_vars, NEW o \in Reqs, WriteOK(o), AnswerSame(o)
  PROVE  WriteOK(o)'
<1>1. PICK h, c, t, p, a : /\ h = http[o] /\ c = call[o] /\ t = tx[o] /\ p = reply[o] /\ a = answer[o]
                           /\ h = http'[o] /\ c = call'[o] /\ t = tx'[o] /\ p = reply'[o]
                           /\ a = answer'[o]
  BY DEF AnswerSame
<1>2. \A w, at : InTables(h, w, at) => InTables(h, w, at)'
  BY InTablesStays
<1>3. AskingOnce(o)'
  BY DEF WriteOK, AskingOnce, Writing, AnswerSame
<1>4. Landed(o)'
  <2>1. Writing(o)' = Writing(o) /\ Returned(o, "ok")' = Returned(o, "ok") /\ pc'[o] = pc[o]
    BY DEF Writing, Returned, AnswerSame
  <2>2. Writing(o) => /\ pc[o] = "committed" => InTables(h, c.item, t.at)'
                      /\ Returned(o, "ok") => InTables(h, p.item, p.at)'
    BY <1>1, <1>2 DEF WriteOK, Landed
  <2> QED
    BY <1>1, <2>1, <2>2 DEF Landed, InTables
<1>5. Vouched(o)'
  <2>1. Answered(o)' = Answered(o)
    BY DEF Answered, AnswerSame
  <2>2. Answered(o) /\ WritesOnce(h) /\ a.code \in {200, 201} =>
          \E w \in a.items : InTables(h, w, p.at)'
    BY <1>1, <1>2 DEF WriteOK, Vouched
  <2> QED
    BY <1>1, <2>1, <2>2 DEF Vouched, InTables
<1> QED
  BY <1>3, <1>4, <1>5 DEF WriteOK

(***************************************************************************)
(* Each kind of step, for the slot that takes it.                          *)
(***************************************************************************)
LEMMA WriteAnswers ==
  ASSUME ServiceInv, NEW r \in Reqs, Answering(r), WriteOK(r)
  PROVE  WriteOK(r)'
<1>1. UNCHANGED <<row, events, comments, reply, owner>>
  BY ReadsWriteNothing DEF Answering, Reads, vars, tables
<1>2. PICK code, items, notes : Respond(r, code, items, notes) /\ Says(r, code, items)
  BY HandlersSay DEF SaysRightly
<1> DEFINE a == [code |-> code, items |-> items, notes |-> notes]
<1>3. /\ answer'[r] = a /\ a.code = code /\ a.items = items
      /\ step'[r] = "idle" /\ loaded'[r] = None /\ http' = http
  BY <1>2 DEF Respond, ServiceInv, ApiTypeOK
<1> HIDE DEF a
<1>4. AskingOnce(r)' /\ Landed(r)'
  BY <1>3 DEF AskingOnce, Landed, Writing
<1>5. Vouched(r)'
  <2>1. WritesOnce(http[r]) /\ code \in {200, 201} =>
          items = {reply[r].item} /\ InTables(http[r], reply[r].item, reply[r].at)
    BY <1>2 DEF Says, WriteOK, Landed, Writing
  <2>2. PICK h, w, at : h = http[r] /\ w = reply[r].item /\ at = reply[r].at /\ at = reply'[r].at
    BY <1>1
  <2>3. InTables(h, w, at) => InTables(h, w, at)'
    BY <1>1 DEF InTables, Kept
  <2>4. WritesOnce(h) /\ a.code \in {200, 201} => \E v \in a.items : InTables(h, v, at)'
    BY <1>3, <2>1, <2>2, <2>3
  <2> QED
    BY <1>3, <2>2, <2>4 DEF Vouched, InTables
<1> QED
  BY <1>4, <1>5 DEF WriteOK

LEMMA WriteArrives ==
  ASSUME ServiceInv, NEW r \in Reqs, Receive(r) \/ Reject(r) \/ Load(r), WriteOK(r)
  PROVE  WriteOK(r)'
<1>1. step'[r] # "calling" /\ (loaded'[r] # None => loaded'[r] = http'[r].id)
  <2>1. CASE Receive(r) \/ Reject(r)
    <3>1. step[r] = "idle" /\ loaded' = loaded /\ step'[r] \in {"idle", "routed"}
      BY <2>1 DEF Receive, Reject, ServiceInv, ApiTypeOK
    <3> QED
      BY <3>1 DEF ServiceInv, SlotOK, HandlerAt
  <2>2. CASE Load(r)
    BY <2>2 DEF Load, WriteOK, AskingOnce, ServiceInv, ApiTypeOK
  <2> QED
    BY <2>1, <2>2
<1>2. AskingOnce(r)' /\ Landed(r)'
  BY <1>1 DEF AskingOnce, Landed, Writing
<1>3. Vouched(r)'
  <2>1. CASE Receive(r) \/ Load(r)
    BY <2>1 DEF Receive, Load, Vouched, Answered, ServiceInv, ApiTypeOK
  <2>2. CASE Reject(r)
    <3>1. answer'[r].code = 401
      BY <2>2 DEF Reject, ServiceInv, ApiTypeOK
    <3> QED
      BY <3>1 DEF Vouched
  <2> QED
    BY <2>1, <2>2
<1> QED
  BY <1>2, <1>3 DEF WriteOK

LEMMA WriteCalls ==
  ASSUME ServiceInv, NEW r \in Reqs, CallsStore(r), WriteOK(r)
  PROVE  WriteOK(r)'
<1>1. PICK op, arg, w, to : AsksFor(r, op, arg, w, to)
  BY CallsAskFor
<1> DEFINE c == [op |-> op, arg |-> arg, item |-> w]
<1>2. /\ pc'[r] = "queued" /\ reply'[r] = None /\ call'[r] = c /\ step'[r] = to
      /\ UNCHANGED <<http, loaded>>
  BY <1>1 DEF AsksFor, CallStore, Invoke, ServiceInv, ApiTypeOK, TypeOK
<1>3. to \in {"calling", "noting"}
  BY <1>1 DEF AsksFor
<1>4. to = "calling" /\ WritesOnce(http[r]) => Matches(http[r], c)
  BY <1>1 DEF AsksFor, WriteOK, AskingOnce
<1> HIDE DEF c
<1>5. AskingOnce(r)'
  BY <1>2, <1>4 DEF WriteOK, AskingOnce, Writing
<1>6. Landed(r)' /\ Vouched(r)'
  BY <1>2, <1>3 DEF Landed, Returned, Vouched, Answered
<1> QED
  BY <1>5, <1>6 DEF WriteOK

\* Committing what a request asks for puts it into the tables.
LEMMA CommitKeeps ==
  ASSUME ServiceInv, NEW r \in Reqs, pc[r] = "locked", Apply(r), owner' = owner,
         NEW h, NEW w, NEW at, h = http[r], w = call[r].item, at = tx[r].at,
         Matches(h, call[r])
  PROVE  InTables(h, w, at)'
<1>1. Typed /\ w \in Items /\ call[r] # None
  BY DEF ServiceInv, Typed, HandlerOK
<1>2. row'[w] = RowOf(r) /\ RowOf(r) \in Rows /\ row'[w] # None
  BY <1>1, RowOfType, NoneAssumption DEF Apply, Typed, TypeOK
<1>3. \E k \in 1..Len(events'[w]) : events'[w][k].at = at /\ events'[w][k].kind = KindAsked(h)
  <2>1. EventOf(r).at = at /\ EventOf(r).kind = KindAsked(h)
    BY DEF EventOf, Matches
  <2>2. \E k \in 1..Len(events'[w]) : events'[w][k] = EventOf(r)
    BY <1>1, ApplyEntries
  <2> QED
    BY <2>1, <2>2
<1>4. h.verb = "create" => owner'[w] = h.token.sub /\ row'[w].type = h.arg
  <2>1. ASSUME call[r].op = "create" PROVE owner[w] = h.token.sub /\ RowOf(r).type = call[r].arg
    BY <1>1, <2>1 DEF ServiceInv, SlotOK, Authorised, RowOf, InsertedRow
  <2> QED
    BY <1>2, <2>1 DEF Matches
<1>5. h.verb = "addComment" => [item |-> w, internal |-> h.arg = "internal", at |-> at] \in comments'
  BY DEF Apply, Matches
<1> QED
  BY <1>1, <1>2, <1>3, <1>4, <1>5 DEF InTables, Kept, Matches

LEMMA WriteServes ==
  ASSUME ServiceInv, StoreInv, OwnersStay, NEW r \in Reqs, Serve(r), WriteOK(r)
  PROVE  WriteOK(r)'
<1>1. /\ UNCHANGED <<http, step, loaded, owner>>
      /\ Progress(r) \/ CommitUnacknowledged(r) \/ Fail(r)
  BY DEF Serve, apiVars
<1>2. step[r] \in {"calling", "noting"} /\ call[r] # None
  BY ServeOthers
<1>3. PICK h, c, t : h = http[r] /\ c = call[r] /\ t = tx[r] /\ h = http'[r]
  BY <1>1
<1>4. AskingOnce(r)'
  <2>1. call'[r] \in {call[r], None}
    BY ServeOutcomes DEF Waits, Commits, Returns
  <2> QED
    BY <1>1, <2>1 DEF WriteOK, AskingOnce, Writing
<1>5. Landed(r)'
  <2>1. CASE Waits(r)
    BY <2>1 DEF Waits, Landed, Returned
  <2>2. CASE Commits(r)
    <3>1. Writing(r) => Matches(h, call[r])
      BY <1>2, <1>3 DEF WriteOK, AskingOnce
    <3>2. Writing(r) => InTables(h, c.item, t.at)'
      BY <1>1, <1>3, <2>2, <3>1, CommitKeeps DEF Commits
    <3>3. ~Returned(r, "ok")' /\ call'[r] = c /\ tx'[r].at = t.at /\ Writing(r)' = Writing(r)
      BY <1>1, <1>3, <2>2 DEF Commits, Returned, Writing
    <3> QED
      BY <1>3, <3>2, <3>3 DEF Landed, InTables, Kept
  <2>3. CASE Returns(r)
    <3>1. Typed /\ Next
      BY <1>1 DEF Next, ServiceInv
    <3>2. /\ pc'[r] # "committed" /\ Writing(r)' = Writing(r)
          /\ reply'[r].item = c.item
          /\ Returned(r, "ok")' => pc[r] = "committed" /\ reply'[r].at = t.at
      BY <1>1, <1>3, <2>3 DEF Returns, Returned, Writing
    <3>3. Writing(r) /\ pc[r] = "committed" => InTables(h, c.item, t.at)
      BY <1>3 DEF WriteOK, Landed
    <3>4. Writing(r) /\ pc[r] = "committed" => InTables(h, c.item, t.at)'
      BY <3>1, <3>3, InTablesStays
    <3> QED
      BY <1>3, <3>2, <3>4 DEF Landed, InTables, Kept
  <2> QED
    BY <2>1, <2>2, <2>3, ServeOutcomes
<1>6. Vouched(r)'
  BY <1>1, <1>2 DEF Vouched, Answered
<1> QED
  BY <1>4, <1>5, <1>6 DEF WriteOK

LEMMA WriteDies ==
  ASSUME ServiceInv, WriteInv, Die PROVE WriteInv'
<1> SUFFICES ASSUME NEW r \in Reqs PROVE WriteOK(r)'
  BY DEF WriteInv
<1>1. /\ UNCHANGED <<answer, row, events, comments, owner>>
      /\ step'[r] = "idle" /\ loaded'[r] = None
      /\ step[r] = "idle" => http'[r] = http[r]
      /\ pc[r] = "idle" => reply'[r] = reply[r]
  BY DEF Die, Crash, tables
<1>2. AskingOnce(r)' /\ Landed(r)'
  BY <1>1 DEF AskingOnce, Landed, Writing
<1>3. WriteOK(r) /\ (step[r] # "idle" => answer[r] = None) /\ (step[r] = "idle" => pc[r] = "idle")
  BY DEF WriteInv, ServiceInv, SlotOK, RequestOK, HandlerAt
<1>4. Vouched(r)'
  <2>1. CASE answer[r] = None
    BY <1>1, <2>1 DEF Vouched, Answered
  <2>2. CASE answer[r] # None
    <3>1. http'[r] = http[r] /\ reply'[r] = reply[r] /\ Answered(r)
      BY <1>1, <1>3, <2>2 DEF Answered
    <3>2. PICK h, a, at : /\ h = http[r] /\ a = answer[r] /\ at = reply[r].at
                          /\ h = http'[r] /\ a = answer'[r] /\ at = reply'[r].at
      BY <1>1, <3>1
    <3>3. WritesOnce(h) /\ a.code \in {200, 201} => \E w \in a.items : InTables(h, w, at)
      BY <1>3, <3>1, <3>2 DEF WriteOK, Vouched
    <3>4. \A w : InTables(h, w, at) => InTables(h, w, at)'
      BY <1>1 DEF InTables, Kept
    <3>5. WritesOnce(h) /\ a.code \in {200, 201} => \E w \in a.items : InTables(h, w, at)'
      BY <3>3, <3>4
    <3> QED
      BY <3>2, <3>5 DEF Vouched, InTables
  <2> QED
    BY <2>1, <2>2
<1> QED
  BY <1>2, <1>4 DEF WriteOK

LEMMA WriteInvNext ==
  ASSUME ServiceInv, StoreInv, WriteInv, [ApiNext]_allVars PROVE WriteInv'
<1>1. [Next]_vars /\ OwnersStay
  BY ServiceStepIsStoreStep, OwnersNext
<1>2. ASSUME NEW r \in Reqs, WriteOK(r)', \A o \in Reqs \ {r} : AnswerSame(o)
      PROVE  WriteInv'
  BY <1>1, <1>2, WriteFrame DEF WriteInv
<1>3. ASSUME NEW r \in Reqs, Reads(r) PROVE WriteInv'
  <2>1. WriteOK(r)'
    BY <1>3, WriteAnswers, WriteArrives DEF Reads, Answering, WriteInv
  <2> QED
    BY <1>2, <1>3, <2>1, ReadsOthers
<1>4. ASSUME NEW r \in Reqs, CallsStore(r) \/ Serve(r) PROVE WriteInv'
  <2>1. WriteOK(r)'
    BY <1>1, <1>4, WriteCalls, WriteServes DEF WriteInv
  <2> QED
    BY <1>2, <1>4, <2>1, CallsOthers, ServeOthers
<1>5. ASSUME Drain \/ UNCHANGED allVars PROVE WriteInv'
  <2>1. \A o \in Reqs : AnswerSame(o)
    BY <1>5 DEF Drain, Flush, apiVars, tables, allVars, vars, AnswerSame
  <2> QED
    BY <1>1, <2>1, WriteFrame DEF WriteInv
<1> QED
  BY <1>3, <1>4, <1>5, WriteDies, ServiceSteps

-----------------------------------------------------------------------------
\* A create, an update or a comment answered with success is in the tables, on the
\* item it is answered with, and stays there (api.go:119-131, 194-195, 245-249,
\* 292-299).
THEOREM WriteAnswersTrue == ApiSpec => []WriteAnswersTruthful
<1>1. ApiInit => WriteInv
  BY DEF ApiInit, WriteInv, WriteOK, AskingOnce, Landed, Vouched, Writing, Answered
<1>2. ApiSpec => []StoreInv
  BY ServiceRunsStore, StoreInvAlways, PTL
<1>3. ApiSpec => []WriteInv
  BY <1>1, <1>2, WriteInvNext, ServiceInvAlways, PTL DEF ApiSpec
<1>4. WriteInv => WriteAnswersTruthful
  BY DEF WriteInv, WriteOK, Vouched, InTables, WriteAnswersTruthful
<1> QED
  BY <1>3, <1>4, PTL

=============================================================================
