--------------------------- MODULE TicketApiProofs ---------------------------
(***************************************************************************)
(* Theorems about TicketApi: the handlers use the store as its             *)
(* specification allows, so what is proved of the store holds of the       *)
(* service; and who may write and see what, for any slots, items, users,   *)
(* roles and requests.                                                     *)
(***************************************************************************)
EXTENDS TicketApi, TicketRecordProofs

\* A handler at work has a request that passed authentication, on an item that
\* is there or on none.
RequestOK(r) ==
  step[r] # "idle" =>
    /\ http[r] \in Requests /\ http[r].token.valid /\ answer[r] = None
    /\ [verb |-> http[r].verb, arg |-> http[r].arg, note |-> http[r].note] \in AllRoutes
    /\ http[r].id \in Items => row[http[r].id] # None

\* Only calling and noting are inside the store, and what load has returned is
\* the caller's to read.
HandlerAt(r) ==
  /\ step[r] \in {"idle", "routed", "loaded"} => pc[r] = "idle"
  /\ loaded[r] # None =>
       /\ step[r] \in {"loaded", "calling", "noting"} /\ row[loaded[r]] # None
       /\ isAgent(r) \/ owner[loaded[r]] = By(r)
  /\ step[r] \in {"calling", "noting"} /\ http[r].verb \in {"update", "transition"} => isAgent(r)
  /\ step[r] = "noting" => http[r].verb = "transition" /\ http[r].id \in Items
  /\ step[r] = "calling" /\ http[r].verb = "transition" =>
       /\ call[r] # None => call[r].item = http[r].id
       /\ reply[r] # None => reply[r].item = http[r].id

\* What the store was asked for was allowed, and stays so until it is answered.
Authorised(r) ==
  call[r] # None =>
    LET token == http[r].token IN
    /\ token.valid
    /\ call[r].op \in {"update", "transition"} => Granted(token)
    /\ call[r].op = "comment" =>
         /\ call[r].item \in Items
         /\ Granted(token) \/ (call[r].arg = "public" /\ owner[call[r].item] = token.sub)
    /\ call[r].op = "create" => owner[call[r].item] = token.sub

\* The item w is there, and the caller of r may see it.
MayShow(r, w) ==
  w \in Items /\ row[w] # None /\ http[r].token.valid /\
  (Granted(http[r].token) \/ owner[w] = By(r))

Written(r) ==
  /\ pc[r] = "committed" => row[call[r].item] # None
  /\ step[r] \in {"calling", "noting"} /\ Returned(r, "ok") => MayShow(r, reply[r].item)

Shown(r) ==
  Answered(r) /\ ~Granted(http[r].token) =>
    (\A w \in answer[r].items : MayShow(r, w)) /\ ~answer[r].notes

\* 403 is for those whose token makes them no agent.
Refused(r) ==
  /\ status[r] # 403
  /\ Answered(r) /\ answer[r].code = 403 => ~isAgent(r)

SlotOK(r) ==
  RequestOK(r) /\ HandlerAt(r) /\ Authorised(r) /\ Written(r) /\ Shown(r) /\ Refused(r)

ServiceInv == ApiTypeOK /\ Typed /\ \A r \in Reqs : SlotOK(r)

(***************************************************************************)
(* Every step of the service is a step of the store.                       *)
(***************************************************************************)
LEMMA AgentGranted ==
  ASSUME NEW r \in Reqs, isAgent(r), http[r].token.valid
  PROVE  Granted(http[r].token)
BY DEF isAgent, extractRoles, Granted, NamesAgent

LEMMA InvokeIsCall ==
  ASSUME NEW r \in Reqs, NEW op, NEW arg, NEW w,
         [op |-> op, arg |-> arg] \in Operations,
         w \in Nameable([op |-> op, arg |-> arg]),
         Invoke(r, [op |-> op, arg |-> arg, item |-> w])
  PROVE  Call(r)
<1> DEFINE m == [op |-> op, arg |-> arg]
<1>1. m \in Menu /\ m.op = op /\ m.arg = arg
  BY ServiceAssumption
<1>2. Invoke(r, [op |-> m.op, arg |-> m.arg, item |-> w]) /\ w \in Nameable(m)
  BY <1>1
<1> QED
  BY <1>1, <1>2 DEF Call

\* The handlers that call the store, with what they call it for.
CallsStore(r) == Create(r) \/ Update(r) \/ Transition(r) \/ AddComment(r) \/ AddNote(r)

CallsFor(r, op, arg, w, next) ==
  /\ op \in {"create", "update", "transition", "comment"}
  /\ arg \in Types \cup Statuses \cup {"assigned", "updated", "internal", "public"}
  /\ w \in Items \cup {Absent} /\ next \in {"calling", "noting"}
  /\ [op |-> op, arg |-> arg] \in Operations
  /\ w \in Nameable([op |-> op, arg |-> arg])
  /\ CallStore(r, op, arg, w, next)
  /\ step[r] # "idle"
  /\ op \in {"update", "transition"} => isAgent(r)
  /\ op = "comment" =>
       w \in Items /\ (isAgent(r) \/ (arg = "public" /\ owner[w] = By(r)))
  /\ IF op = "create" THEN owner' = [owner EXCEPT ![w] = By(r)] ELSE owner' = owner
  /\ http[r].verb \in {"update", "transition"} => isAgent(r)
  /\ http[r].verb = "transition" => w = http[r].id
  /\ next = "noting" => http[r].verb = "transition" /\ http[r].id \in Items

LEMMA HandlerCalls ==
  ASSUME ServiceInv, NEW r \in Reqs, CallsStore(r)
  PROVE  \E op, arg, w, next : CallsFor(r, op, arg, w, next)
<1>0. RequestOK(r) /\ HandlerAt(r) /\ Written(r)
  BY DEF ServiceInv, SlotOK
<1>1. step[r] # "idle"
  BY DEF CallsStore, Create, Update, Transition, AddComment, AddNote, Routed
<1>2. http[r] \in Requests /\ (http[r].id \in Items => row[http[r].id] # None)
  BY <1>0, <1>1 DEF RequestOK
<1>3. CASE Create(r)
  <2>1. PICK w \in Nameable([op |-> "create", arg |-> http[r].arg]) :
          /\ CallStore(r, "create", http[r].arg, w, "calling")
          /\ owner' = [owner EXCEPT ![w] = By(r)]
    BY <1>3 DEF Create
  <2>2. w \in Items /\ http[r].arg \in Types /\ http[r].verb = "create"
    BY <1>3, <2>1 DEF Nameable, Create, Routed
  <2>3. [op |-> "create", arg |-> http[r].arg] \in Operations
    BY <2>2 DEF Operations
  <2>4. CallsFor(r, "create", http[r].arg, w, "calling")
    BY <1>1, <2>1, <2>2, <2>3 DEF CallsFor
  <2> QED
    BY <2>4
<1>4. ASSUME NEW op \in {"update", "transition", "comment"},
             [op |-> op, arg |-> http[r].arg] \in Operations
      PROVE  http[r].id \in Nameable([op |-> op, arg |-> http[r].arg])
  BY <1>2, <1>4 DEF Nameable, Exists, Requests
<1>5. CASE Update(r)
  <2>1. [op |-> "update", arg |-> http[r].arg] \in Operations
    BY <1>5 DEF Update, Operations
  <2> QED
    BY <1>1, <1>2, <1>4, <1>5, <2>1 DEF CallsFor, Update, Routed, Requests
<1>6. CASE Transition(r)
  <2>1. [op |-> "transition", arg |-> http[r].arg] \in Operations
    BY <1>6 DEF Transition, Operations
  <2> QED
    BY <1>1, <1>2, <1>4, <1>6, <2>1 DEF CallsFor, Transition, Routed, Requests
<1>7. CASE AddComment(r)
  <2>1. http[r].verb = "addComment" /\ http[r].arg \in {"internal", "public"}
    BY <1>0, <1>1, <1>7 DEF AddComment, RequestOK, AllRoutes
  <2>2. [op |-> "comment", arg |-> http[r].arg] \in Operations
    BY <2>1 DEF Operations
  <2>3. loaded[r] \in Items /\ row[loaded[r]] # None
    BY <1>0, <1>7 DEF AddComment, HandlerAt, ServiceInv, ApiTypeOK
  <2>4. loaded[r] \in Nameable([op |-> "comment", arg |-> http[r].arg])
    BY <2>3 DEF Nameable, Exists
  <2>5. isAgent(r) \/ (http[r].arg = "public" /\ owner[loaded[r]] = By(r))
    BY <1>0, <1>7, <2>1 DEF AddComment, HandlerAt
  <2> QED
    BY <1>1, <1>7, <2>1, <2>2, <2>3, <2>4, <2>5 DEF CallsFor, AddComment
<1>8. CASE AddNote(r)
  <2>1. /\ http[r].verb = "transition" /\ isAgent(r) /\ reply[r].item = http[r].id
        /\ row[http[r].id] # None /\ http[r].id \in Items
    BY <1>0, <1>8 DEF AddNote, HandlerAt, Returned, Written, MayShow
  <2>2. [op |-> "comment", arg |-> "internal"] \in Operations
    BY DEF Operations
  <2>3. http[r].id \in Nameable([op |-> "comment", arg |-> "internal"])
    BY <2>1 DEF Nameable, Exists
  <2> QED
    BY <1>1, <1>8, <2>1, <2>2, <2>3 DEF CallsFor, AddNote
<1> QED
  BY <1>3, <1>5, <1>6, <1>7, <1>8 DEF CallsStore

\* The handlers that answer, or go on without the store.
Reads(r) ==
  \/ Receive(r) \/ Reject(r) \/ List(r) \/ Forbid(r) \/ Refuse(r) \/ UpdateNothing(r)
  \/ ListEvents(r) \/ Load(r) \/ Get(r) \/ ListComments(r) \/ RefuseComment(r)
  \/ Finish(r) \/ FinishTransition(r) \/ FinishNote(r)

LEMMA ReadsWriteNothing ==
  ASSUME NEW r \in Reqs, Reads(r) PROVE UNCHANGED <<vars, owner>>
BY DEF Reads, Receive, Reject, List, Forbid, Refuse, UpdateNothing, ListEvents, Load, Get,
       ListComments, RefuseComment, Finish, FinishTransition, FinishNote, Answer, WriteError, Respond

LEMMA ServiceSteps ==
  ASSUME ApiNext
  PROVE  \/ \E r \in Reqs : Reads(r) \/ CallsStore(r) \/ Serve(r)
         \/ Drain \/ Die
BY DEF ApiNext, Handle, Reads, CallsStore

LEMMA ServiceStepIsStoreStep ==
  ASSUME ServiceInv, [ApiNext]_allVars PROVE [Next]_vars
<1>1. ASSUME NEW r \in Reqs, Reads(r) PROVE UNCHANGED vars
  BY <1>1, ReadsWriteNothing
<1>2. ASSUME NEW r \in Reqs, CallsStore(r) PROVE Next
  <2>1. PICK op, arg, w, next : CallsFor(r, op, arg, w, next)
    BY <1>2, HandlerCalls
  <2>2. Call(r)
    BY <2>1, InvokeIsCall DEF CallsFor, CallStore
  <2> QED
    BY <2>2 DEF Next
<1>3. ASSUME NEW r \in Reqs, Serve(r) PROVE Next
  BY <1>3 DEF Serve, Next
<1>4. Drain \/ Die => Next
  BY DEF Drain, Die, Next
<1>5. UNCHANGED allVars => UNCHANGED vars
  BY DEF allVars
<1> QED
  BY <1>1, <1>2, <1>3, <1>4, <1>5, ServiceSteps

-----------------------------------------------------------------------------
(***************************************************************************)
(* What a step of one slot leaves of the others.                           *)
(***************************************************************************)
LEMMA RowsStay ==
  ASSUME Typed, [Next]_vars, NEW w \in Items, row[w] # None PROVE row'[w] # None
BY OnlyCommitWrites, ApplyType DEF tables

\* The items that are there, or are about to be, keep their owner.
OwnersStay ==
  \A w \in Items :
    (row[w] # None \/ \E o \in Reqs : call[o] # None /\ call[o].item = w) => owner'[w] = owner[w]

LEMMA OwnersNext ==
  ASSUME ServiceInv, [ApiNext]_allVars PROVE OwnersStay
<1>1. ASSUME NEW r \in Reqs, CallsStore(r) PROVE OwnersStay
  <2>0. PICK op, arg, w, next : CallsFor(r, op, arg, w, next)
    BY <1>1, HandlerCalls
  <2>1. /\ w \in Nameable([op |-> op, arg |-> arg])
        /\ IF op = "create" THEN owner' = [owner EXCEPT ![w] = By(r)] ELSE owner' = owner
    BY <2>0 DEF CallsFor
  <2>2. CASE op = "create"
    <3>1. w \in Items /\ row[w] = None /\ \A o \in Reqs : call[o] # None => call[o].item # w
      BY <2>1, <2>2 DEF Nameable
    <3> QED
      BY <2>1, <2>2, <3>1 DEF OwnersStay, ServiceInv, ApiTypeOK
  <2>3. CASE op # "create"
    BY <2>1, <2>3 DEF OwnersStay
  <2> QED
    BY <2>2, <2>3
<1>2. ASSUME NEW r \in Reqs, Reads(r) \/ Serve(r) PROVE owner' = owner
  BY <1>2, ReadsWriteNothing DEF Serve, apiVars
<1>3. Drain \/ Die \/ UNCHANGED allVars => owner' = owner
  BY DEF Drain, Die, apiVars, allVars
<1>4. owner' = owner => OwnersStay
  BY DEF OwnersStay
<1> QED
  BY <1>1, <1>2, <1>3, <1>4, ServiceSteps

RowsKept == \A w \in Items : row[w] # None => row'[w] # None

SlotSame(o) ==
  /\ http'[o] = http[o] /\ step'[o] = step[o] /\ loaded'[o] = loaded[o] /\ answer'[o] = answer[o]
  /\ status'[o] = status[o]
  /\ pc'[o] = pc[o] /\ call'[o] = call[o] /\ reply'[o] = reply[o]

LEMMA SlotFrame ==
  ASSUME ServiceInv, RowsKept, OwnersStay, NEW o \in Reqs, SlotSame(o)
  PROVE  SlotOK(o)'
<1>1. /\ SlotOK(o) /\ loaded[o] \in Items \cup {None}
      /\ answer[o] # None => answer[o].items \subseteq Items
      /\ call[o] # None => call[o].item \in Items \cup {Absent}
      /\ pc[o] = "committed" => call[o].item \in Items
  BY NoneAssumption DEF ServiceInv, ApiTypeOK, Answers, Typed, TypeOK, HandlerOK, Calls
<1>2. \A w \in Items : row[w] # None => row'[w] # None /\ owner'[w] = owner[w]
  BY DEF RowsKept, OwnersStay
<1>3. RequestOK(o)'
  BY <1>1, <1>2 DEF SlotOK, RequestOK, SlotSame
<1>4. HandlerAt(o)'
  BY <1>1, <1>2 DEF SlotOK, HandlerAt, SlotSame, isAgent, By
<1>5. Authorised(o)'
  <2>1. CASE call[o] = None
    BY <2>1 DEF Authorised, SlotSame
  <2>2. CASE call[o] # None
    <3>1. call[o].op = "create" => call[o].item \in Items
      BY <2>2 DEF ServiceInv, Typed, HandlerOK
    <3>2. call[o].op = "comment" => call[o].item \in Items
      BY <1>1, <2>2 DEF SlotOK, Authorised
    <3>3. call[o].op \in {"create", "comment"} => owner'[call[o].item] = owner[call[o].item]
      BY <2>2, <3>1, <3>2 DEF OwnersStay
    <3> QED
      BY <1>1, <2>2, <3>3 DEF SlotOK, Authorised, SlotSame
  <2> QED
    BY <2>1, <2>2
<1>6. \A w : MayShow(o, w) => MayShow(o, w)'
  BY <1>2 DEF MayShow, SlotSame, By
<1>7. Written(o)'
  BY <1>1, <1>2, <1>6 DEF SlotOK, Written, SlotSame, Returned
<1>8. Shown(o)'
  BY <1>1, <1>6 DEF SlotOK, Shown, SlotSame, Answered
<1>9. Refused(o)'
  BY <1>1 DEF SlotOK, Refused, SlotSame, Answered, isAgent
<1> QED
  BY <1>3, <1>4, <1>5, <1>7, <1>8, <1>9 DEF SlotOK

(***************************************************************************)
(* Handlers that answer.                                                   *)
(***************************************************************************)
Answering(r) ==
  \/ List(r) \/ Forbid(r) \/ Refuse(r) \/ UpdateNothing(r) \/ ListEvents(r) \/ Get(r)
  \/ ListComments(r) \/ RefuseComment(r) \/ Finish(r) \/ FinishTransition(r) \/ FinishNote(r)

MayAnswer(r, items, notes) ==
  Granted(http[r].token) \/ (~notes /\ \A w \in items : MayShow(r, w))

\* A code that r may be answered with.
Earned(r, code) == code \in Codes /\ (code = 403 => ~isAgent(r))

AnswersRightly(r) ==
  \E code \in Codes, items \in SUBSET Items, notes \in BOOLEAN :
    Respond(r, code, items, notes) /\ MayAnswer(r, items, notes) /\ Earned(r, code)

LEMMA RespondsRightly ==
  ASSUME NEW r \in Reqs, NEW code, NEW items \in SUBSET Items, NEW notes \in BOOLEAN,
         Respond(r, code, items, notes), MayAnswer(r, items, notes), Earned(r, code)
  PROVE  AnswersRightly(r)
BY Zenon DEF AnswersRightly, Earned

LEMMA ErrorsRightly ==
  ASSUME NEW r \in Reqs, NEW code \in Codes, code = 403 => ~isAgent(r), WriteError(r, code)
  PROVE  AnswersRightly(r)
<1>1. Respond(r, code, {}, FALSE) /\ MayAnswer(r, {}, FALSE) /\ Earned(r, code)
  BY Zenon DEF WriteError, MayAnswer, Earned
<1> QED
  BY <1>1, RespondsRightly

\* A response that shows one item.
Shows(r, code, w) == Respond(r, code, {w}, FALSE)

LEMMA ShowsRightly ==
  ASSUME NEW r \in Reqs, NEW code, NEW w, Shows(r, code, w), MayShow(r, w), Earned(r, code)
  PROVE  AnswersRightly(r)
<1>1. {w} \in SUBSET Items /\ MayAnswer(r, {w}, FALSE)
  BY DEF MayShow, MayAnswer
<1>2. Respond(r, code, {w}, FALSE)
  BY DEF Shows
<1> QED
  BY <1>1, <1>2, RespondsRightly

\* What the handlers that wait for the store respond with.
LEMMA FinishResponds ==
  ASSUME NEW r \in Reqs, Finish(r)
  PROVE  /\ step[r] = "calling" /\ http[r].verb # "transition"
         /\ \/ Returned(r, "ok") /\ Shows(r, 200, reply[r].item)
            \/ Returned(r, "ok") /\ Shows(r, 201, reply[r].item)
            \/ WriteError(r, 404)
            \/ WriteError(r, 500)
<1>1. CASE http[r].verb = "update"
  BY <1>1, Zenon DEF Finish, Shows
<1>2. CASE http[r].verb # "update"
  BY <1>2, Zenon DEF Finish, Shows
<1> QED
  BY <1>1, <1>2

LEMMA FinishTransitionResponds ==
  ASSUME NEW r \in Reqs, FinishTransition(r)
  PROVE  /\ step[r] = "calling" /\ http[r].verb = "transition"
         /\ \/ Returned(r, "ok") /\ ~http[r].note /\ Shows(r, 200, reply[r].item)
            \/ Returned(r, "invalid_transition") /\ WriteError(r, 409)
            \/ WriteError(r, 404)
            \/ WriteError(r, 500)
BY Zenon DEF FinishTransition, Shows

LEMMA FinishNoteResponds ==
  ASSUME NEW r \in Reqs, FinishNote(r)
  PROVE  /\ step[r] = "noting"
         /\ \/ Returned(r, "ok") /\ Shows(r, 200, http[r].id)
            \/ WriteError(r, 500)
BY Zenon DEF FinishNote, Shows

LEMMA HandlerAnswers ==
  ASSUME ServiceInv, NEW r \in Reqs, Answering(r)
  PROVE  step[r] # "idle" /\ pc[r] = "idle" /\ AnswersRightly(r)
<1>0. RequestOK(r) /\ HandlerAt(r) /\ Written(r) /\ status[r] # 403
  BY DEF ServiceInv, SlotOK, Refused
<1>1. step[r] # "idle"
  BY DEF Answering, List, Forbid, Refuse, UpdateNothing, ListEvents, Get, ListComments,
         RefuseComment, Finish, FinishTransition, FinishNote, Routed
<1>2. pc[r] = "idle"
  <2>1. step[r] \in {"routed", "loaded"} \/ Finish(r) \/ FinishTransition(r) \/ FinishNote(r)
    BY DEF Answering, List, Forbid, Refuse, UpdateNothing, ListEvents, Get, ListComments,
           RefuseComment, Routed
  <2>2. Finish(r) \/ FinishTransition(r) \/ FinishNote(r) => pc[r] = "idle"
    BY DEF Finish, FinishTransition, FinishNote, Returned
  <2> QED
    BY <1>0, <2>1, <2>2 DEF HandlerAt
<1>3. http[r].token.valid /\ (isAgent(r) => Granted(http[r].token))
  BY <1>0, <1>1, AgentGranted DEF RequestOK
<1>4. ASSUME WriteError(r, 404) \/ WriteError(r, 409) \/ WriteError(r, 422) \/ WriteError(r, 500)
      PROVE  AnswersRightly(r)
  <2>1. ASSUME NEW code, code \in Codes \ {403}, WriteError(r, code) PROVE AnswersRightly(r)
    BY <2>1, ErrorsRightly
  <2>2. {404, 409, 422, 500} \subseteq Codes \ {403}
    BY DEF Codes
  <2> QED
    BY <1>4, <2>1, <2>2
<1>5. ASSUME NEW code, NEW items \in SUBSET Items, NEW notes \in BOOLEAN,
             MayAnswer(r, items, notes), Answer(r, code, items, notes), Earned(r, code)
      PROVE  AnswersRightly(r)
  BY <1>4, <1>5, RespondsRightly DEF Answer
<1>6. Earned(r, 200) /\ Earned(r, 201) /\ Earned(r, status[r])
  BY <1>0 DEF Codes, Earned, ServiceInv, ApiTypeOK
<1> SUFFICES AnswersRightly(r)
  BY <1>1, <1>2
<1>7. CASE List(r)
  <2> DEFINE items == {w \in Items : Exists(w) /\ (isAgent(r) \/ owner[w] = By(r))}
  <2>1. Answer(r, 200, items, FALSE)
    BY <1>7 DEF List
  <2>2. MayAnswer(r, items, FALSE)
    BY <1>3 DEF MayAnswer, MayShow, Exists
  <2>3. items \in SUBSET Items
    OBVIOUS
  <2> HIDE DEF items
  <2> QED
    BY <1>5, <1>6, <2>1, <2>2, <2>3
<1>8. CASE Forbid(r)
  <2>1. WriteError(r, 403) /\ ~isAgent(r)
    BY <1>8 DEF Forbid
  <2> QED
    BY <2>1, ErrorsRightly DEF Codes
<1>9. CASE Refuse(r)
  BY <1>4, <1>9 DEF Refuse
<1>10. CASE RefuseComment(r)
  <2>1. WriteError(r, 422) \/ (WriteError(r, 403) /\ ~isAgent(r)) \/ WriteError(r, 500)
    <3>1. CASE http[r].arg = "bogus"
      BY <1>10, <3>1 DEF RefuseComment
    <3>2. CASE http[r].arg # "bogus" /\ http[r].arg = "internal" /\ ~isAgent(r)
      BY <1>10, <3>2 DEF RefuseComment
    <3>3. CASE http[r].arg # "bogus" /\ ~(http[r].arg = "internal" /\ ~isAgent(r))
      BY <1>10, <3>3 DEF RefuseComment
    <3> QED
      BY <3>1, <3>2, <3>3
  <2> QED
    BY <1>4, <2>1, ErrorsRightly DEF Codes
<1>11. CASE UpdateNothing(r)
  <2>1. CASE Exists(http[r].id)
    <3>1. Answer(r, 200, {http[r].id}, FALSE)
      BY <1>11, <2>1 DEF UpdateNothing
    <3>2. {http[r].id} \in SUBSET Items
      BY <2>1 DEF Exists
    <3>3. MayAnswer(r, {http[r].id}, FALSE)
      BY <1>3, <1>11 DEF UpdateNothing, MayAnswer
    <3> QED
      BY <1>5, <1>6, <3>1, <3>2, <3>3
  <2>2. CASE ~Exists(http[r].id)
    <3>1. WriteError(r, 404) \/ WriteError(r, 500)
      BY <1>11, <2>2 DEF UpdateNothing, Answer, WriteError
    <3> QED
      BY <1>4, <3>1
  <2> QED
    BY <2>1, <2>2
<1>12. CASE ListEvents(r)
  <2>1. MayAnswer(r, {http[r].id} \cap Items, FALSE)
    BY <1>3, <1>12 DEF ListEvents, MayAnswer
  <2>2. Answer(r, 200, {http[r].id} \cap Items, FALSE)
    BY <1>12 DEF ListEvents
  <2> QED
    BY <1>5, <1>6, <2>1, <2>2
<1>13. CASE Get(r)
  <2>1. MayAnswer(r, {loaded[r]} \cap Items, FALSE)
    <3>1. \A w \in {loaded[r]} \cap Items : w = loaded[r] /\ loaded[r] # None /\ w \in Items
      BY ServiceAssumption
    <3> QED
      BY <1>0, <1>3, <3>1 DEF HandlerAt, MayAnswer, MayShow
  <2>2. Respond(r, status[r], {loaded[r]} \cap Items, FALSE)
    BY <1>13 DEF Get
  <2> QED
    BY <1>6, <2>1, <2>2, RespondsRightly
<1>14. CASE ListComments(r)
  <2> DEFINE shown == {c \in comments : c.item = loaded[r] /\ (isAgent(r) \/ ~c.internal)}
  <2> DEFINE items == {c.item : c \in shown}
  <2> DEFINE notes == \E c \in shown : c.internal
  <2>1. CASE loaded[r] = None
    <3>1. WriteError(r, 500)
      BY <1>14, <2>1 DEF ListComments
    <3> QED
      BY <1>4, <3>1
  <2>2. CASE loaded[r] # None
    <3>1. loaded[r] \in Items
      BY <2>2 DEF ServiceInv, ApiTypeOK
    <3>2. items \in SUBSET Items /\ \A w \in items : w = loaded[r]
      BY <3>1
    <3>3. notes \in BOOLEAN /\ (notes => isAgent(r))
      BY Zenon
    <3>4. Answer(r, status[r], items, notes)
      BY <1>14, <2>2, Zenon DEF ListComments
    <3> HIDE DEF items, notes
    <3>5. MayShow(r, loaded[r])
      BY <1>0, <1>3, <2>2, <3>1 DEF HandlerAt, MayShow
    <3>6. MayAnswer(r, items, notes)
      BY <1>3, <3>2, <3>3, <3>5, Zenon DEF MayAnswer
    <3> QED
      BY <1>5, <1>6, <3>2, <3>3, <3>4, <3>6
  <2> QED
    BY <2>1, <2>2
<1>15. ASSUME Returned(r, "ok"), step[r] = "calling",
              Shows(r, 200, reply[r].item) \/ Shows(r, 201, reply[r].item)
       PROVE  AnswersRightly(r)
  <2>1. MayShow(r, reply[r].item)
    BY <1>0, <1>15 DEF Written
  <2> QED
    BY <1>6, <1>15, <2>1, ShowsRightly
<1>16. CASE Finish(r)
  BY <1>4, <1>15, <1>16, FinishResponds
<1>17. CASE FinishTransition(r)
  BY <1>4, <1>15, <1>17, FinishTransitionResponds
<1>18. CASE FinishNote(r)
  <2>1. MayShow(r, http[r].id)
    BY <1>0, <1>1, <1>3, <1>18 DEF FinishNote, HandlerAt, RequestOK, MayShow
  <2> QED
    BY <1>4, <1>6, <1>18, <2>1, ShowsRightly, FinishNoteResponds
<1> QED
  BY <1>7, <1>8, <1>9, <1>10, <1>11, <1>12, <1>13, <1>14, <1>16, <1>17, <1>18 DEF Answering

\* A step of r that keeps the store, the owners and the other slots.
LEMMA OthersKept ==
  ASSUME ServiceInv, NEW r \in Reqs, UNCHANGED <<vars, owner>>,
         \A o \in Reqs \ {r} : http'[o] = http[o] /\ step'[o] = step[o] /\
                               loaded'[o] = loaded[o] /\ answer'[o] = answer[o] /\
                               status'[o] = status[o]
  PROVE  \A o \in Reqs \ {r} : SlotOK(o)'
<1>1. RowsKept /\ OwnersStay
  BY DEF RowsKept, OwnersStay, vars
<1>2. \A o \in Reqs \ {r} : SlotSame(o)
  BY DEF SlotSame, vars
<1> QED
  BY <1>1, <1>2, SlotFrame

LEMMA AnsweringKeeps ==
  ASSUME ServiceInv, NEW r \in Reqs, Answering(r)
  PROVE  ApiTypeOK' /\ \A o \in Reqs : SlotOK(o)'
<1>1. UNCHANGED <<vars, owner>>
  BY ReadsWriteNothing DEF Answering, Reads
<1>2. step[r] # "idle" /\ pc[r] = "idle"
  BY HandlerAnswers
<1>3. PICK code \in Codes, items \in SUBSET Items, notes \in BOOLEAN :
        Respond(r, code, items, notes) /\ MayAnswer(r, items, notes) /\ Earned(r, code)
  BY HandlerAnswers DEF AnswersRightly
<1> DEFINE a == [code |-> code, items |-> items, notes |-> notes]
<1>4. a \in Answers /\ a.items = items /\ a.notes = notes /\ a.code = code
  BY DEF Answers
<1>5. /\ answer' = [answer EXCEPT ![r] = a] /\ http' = http
      /\ step' = [step EXCEPT ![r] = "idle"] /\ loaded' = [loaded EXCEPT ![r] = None]
      /\ status' = [status EXCEPT ![r] = 200]
  BY <1>3 DEF Respond
<1> HIDE DEF a
<1>6. TypeOK'
  BY <1>1 DEF ServiceInv, ApiTypeOK, TypeOK, vars
<1>7. ApiTypeOK'
  BY <1>1, <1>4, <1>5, <1>6 DEF ServiceInv, ApiTypeOK, Steps, Codes
<1>8. /\ step'[r] = "idle" /\ loaded'[r] = None /\ answer'[r] = a
      /\ \A o \in Reqs \ {r} : http'[o] = http[o] /\ step'[o] = step[o] /\
                               loaded'[o] = loaded[o] /\ answer'[o] = answer[o] /\
                               status'[o] = status[o]
  BY <1>5 DEF ServiceInv, ApiTypeOK
<1>9. \A o \in Reqs \ {r} : SlotOK(o)'
  BY <1>1, <1>8, OthersKept
<1>10. call[r] = None
  BY <1>2 DEF ServiceInv, Typed, HandlerOK
<1>11. RequestOK(r)' /\ HandlerAt(r)'
  BY <1>1, <1>2, <1>8 DEF RequestOK, HandlerAt, vars
<1>12. Authorised(r)' /\ Written(r)'
  BY <1>1, <1>2, <1>8, <1>10 DEF Authorised, Written, vars
<1>13. \A w : MayShow(r, w)' <=> MayShow(r, w)
  BY <1>1, <1>5 DEF MayShow, By, vars
<1>14. Shown(r)'
  BY <1>3, <1>4, <1>5, <1>8, <1>13 DEF Shown, MayAnswer
<1>15. Refused(r)'
  BY <1>3, <1>4, <1>5, <1>8 DEF Refused, Earned, isAgent, ServiceInv, ApiTypeOK
<1> QED
  BY <1>7, <1>9, <1>11, <1>12, <1>14, <1>15 DEF SlotOK

(***************************************************************************)
(* The other steps outside the store: a request arrives, load returns.     *)
(***************************************************************************)
LEMMA ReceiveKeeps ==
  ASSUME ServiceInv, NEW r \in Reqs, Receive(r) \/ Reject(r)
  PROVE  ApiTypeOK' /\ \A o \in Reqs : SlotOK(o)'
<1>1. UNCHANGED <<vars, owner, loaded, status>> /\ step[r] = "idle"
  BY DEF Receive, Reject
<1> DEFINE refusal == [code |-> 401, items |-> {}, notes |-> FALSE]
<1>2. PICK ask \in Asks[r], w \in Items \cup {Absent} :
        /\ http' = [http EXCEPT ![r] =
             [verb |-> ask.route.verb, arg |-> ask.route.arg, note |-> ask.route.note,
              token |-> ask.token, id |-> w]]
        /\ w \in Items => row[w] # None
        /\ \/ ask.token.valid /\ step' = [step EXCEPT ![r] = "routed"]
              /\ answer' = [answer EXCEPT ![r] = None]
           \/ ~ask.token.valid /\ step' = step /\ answer' = [answer EXCEPT ![r] = refusal]
  <2>1. CASE Receive(r)
    <3>1. PICK ask \in Asks[r], w \in {v \in Items : Exists(v)} \cup {Absent} :
            /\ ask.token.valid
            /\ http' = [http EXCEPT ![r] =
                 [verb |-> ask.route.verb, arg |-> ask.route.arg, note |-> ask.route.note,
                  token |-> ask.token, id |-> w]]
      BY <2>1 DEF Receive
    <3>2. w \in Items \cup {Absent} /\ (w \in Items => row[w] # None)
      BY ItemAssumption DEF Exists
    <3>3. step' = [step EXCEPT ![r] = "routed"] /\ answer' = [answer EXCEPT ![r] = None]
      BY <2>1 DEF Receive
    <3> QED
      BY <3>1, <3>2, <3>3
  <2>2. CASE Reject(r)
    <3>1. PICK ask \in Asks[r] :
            /\ ~ask.token.valid
            /\ http' = [http EXCEPT ![r] =
                 [verb |-> ask.route.verb, arg |-> ask.route.arg, note |-> ask.route.note,
                  token |-> ask.token, id |-> Absent]]
      BY <2>2 DEF Reject
    <3>2. step' = step /\ answer' = [answer EXCEPT ![r] = refusal]
      BY <2>2 DEF Reject
    <3> HIDE DEF refusal
    <3> QED
      BY <3>1, <3>2, ItemAssumption
  <2> QED
    BY <2>1, <2>2
<1>3. ask.route \in AllRoutes /\ ask.token \in Tokens
  BY ApiAssumption
<1> DEFINE h == [verb |-> ask.route.verb, arg |-> ask.route.arg, note |-> ask.route.note,
                 token |-> ask.token, id |-> w]
<1>4. /\ h \in Requests /\ h.token = ask.token /\ h.id = w
      /\ [verb |-> h.verb, arg |-> h.arg, note |-> h.note] \in AllRoutes
  BY <1>3 DEF AllRoutes, Requests, Types, Statuses
<1>5. http' = [http EXCEPT ![r] = h]
  BY <1>2
<1>6. refusal \in Answers /\ refusal.code = 401 /\ refusal.items = {} /\ ~refusal.notes
  BY DEF Answers, Codes
<1> HIDE DEF h, refusal
<1>7. TypeOK'
  BY <1>1 DEF ServiceInv, ApiTypeOK, TypeOK, vars
<1>8. ApiTypeOK'
  <2>1. answer' \in [Reqs -> Answers \cup {None}] /\ step' \in [Reqs -> Steps]
    BY <1>2, <1>6 DEF ServiceInv, ApiTypeOK, Steps
  <2>2. http' \in [Reqs -> Requests \cup {None}]
    BY <1>4, <1>5 DEF ServiceInv, ApiTypeOK
  <2> QED
    BY <1>1, <1>7, <2>1, <2>2 DEF ServiceInv, ApiTypeOK
<1>9. /\ http'[r] = h /\ loaded'[r] = None
      /\ \A o \in Reqs \ {r} : http'[o] = http[o] /\ step'[o] = step[o] /\
                               loaded'[o] = loaded[o] /\ answer'[o] = answer[o] /\
                               status'[o] = status[o]
  BY <1>1, <1>2, <1>5 DEF ServiceInv, ApiTypeOK, SlotOK, HandlerAt
<1>10. \A o \in Reqs \ {r} : SlotOK(o)'
  BY <1>1, <1>9, OthersKept
<1>11. pc[r] = "idle" /\ call[r] = None
  BY <1>1 DEF ServiceInv, SlotOK, HandlerAt, Typed, HandlerOK
<1>12. RequestOK(r)' /\ HandlerAt(r)'
  BY <1>1, <1>2, <1>4, <1>9, <1>11 DEF RequestOK, HandlerAt, vars, ServiceInv, ApiTypeOK
<1>13. Authorised(r)' /\ Written(r)'
  BY <1>1, <1>2, <1>9, <1>11 DEF Authorised, Written, vars, ServiceInv, ApiTypeOK
<1>14. answer'[r] \in {None, refusal}
  BY <1>2 DEF ServiceInv, ApiTypeOK
<1>15. Shown(r)'
  BY <1>6, <1>14 DEF Shown, Answered
<1>16. Refused(r)'
  BY <1>1, <1>6, <1>14 DEF Refused, Answered, ServiceInv, SlotOK
<1> QED
  BY <1>8, <1>10, <1>12, <1>13, <1>15, <1>16 DEF SlotOK

LEMMA LoadKeeps ==
  ASSUME ServiceInv, NEW r \in Reqs, Load(r)
  PROVE  ApiTypeOK' /\ \A o \in Reqs : SlotOK(o)'
<1> DEFINE w == http[r].id
<1>1. /\ UNCHANGED <<vars, http, answer, owner>> /\ step[r] = "routed"
      /\ step' = [step EXCEPT ![r] = "loaded"]
      /\ http[r].verb \in {"get", "addComment", "listComments"}
  BY DEF Load
<1>2. RequestOK(r) /\ HandlerAt(r) /\ pc[r] = "idle" /\ call[r] = None /\ loaded[r] = None
  BY <1>1 DEF ServiceInv, SlotOK, HandlerAt, Typed, HandlerOK
<1>3. /\ \/ loaded' = loaded
         \/ loaded' = [loaded EXCEPT ![r] = None]
         \/ loaded' = [loaded EXCEPT ![r] = w] /\ Exists(w) /\ (isAgent(r) \/ owner[w] = By(r))
      /\ \E code \in Codes \ {403} : status' = [status EXCEPT ![r] = code]
  BY DEF Load, Codes
<1>4. /\ loaded' \in [Reqs -> Items \cup {None}]
      /\ loaded'[r] # None => /\ loaded'[r] = w /\ row[w] # None
                              /\ isAgent(r) \/ owner[w] = By(r)
      /\ status'[r] # 403
      /\ \A o \in Reqs \ {r} : loaded'[o] = loaded[o] /\ status'[o] = status[o]
  BY <1>2, <1>3 DEF Exists, ServiceInv, ApiTypeOK
<1>5. TypeOK'
  BY <1>1 DEF ServiceInv, ApiTypeOK, TypeOK, vars
<1>6. ApiTypeOK'
  <2>1. status' \in [Reqs -> Codes]
    BY <1>3 DEF ServiceInv, ApiTypeOK
  <2> QED
    BY <1>1, <1>4, <1>5, <2>1 DEF ServiceInv, ApiTypeOK, Steps
<1>7. step'[r] = "loaded" /\ \A o \in Reqs \ {r} : step'[o] = step[o]
  BY <1>1 DEF ServiceInv, ApiTypeOK
<1>8. \A o \in Reqs \ {r} : SlotOK(o)'
  BY <1>1, <1>4, <1>7, OthersKept
<1>9. RequestOK(r)'
  BY <1>1, <1>2, <1>7 DEF RequestOK, vars
<1>10. HandlerAt(r)'
  BY <1>1, <1>2, <1>4, <1>7 DEF HandlerAt, isAgent, By, vars
<1>11. Authorised(r)' /\ Written(r)' /\ Shown(r)' /\ Refused(r)'
  BY <1>1, <1>2, <1>4, <1>7 DEF Authorised, Written, Shown, Refused, Answered, vars
<1> QED
  BY <1>6, <1>8, <1>9, <1>10, <1>11 DEF SlotOK

(***************************************************************************)
(* Handlers that call the store.                                           *)
(***************************************************************************)
LEMMA CallKeeps ==
  ASSUME ServiceInv, NEW r \in Reqs, CallsStore(r)
  PROVE  ApiTypeOK' /\ \A o \in Reqs : SlotOK(o)'
<1>0. PICK op, arg, w, next : CallsFor(r, op, arg, w, next)
  BY HandlerCalls
<1>1. /\ op \in {"create", "update", "transition", "comment"}
      /\ arg \in Types \cup Statuses \cup {"assigned", "updated", "internal", "public"}
      /\ w \in Items \cup {Absent} /\ next \in {"calling", "noting"}
      /\ [op |-> op, arg |-> arg] \in Operations
      /\ w \in Nameable([op |-> op, arg |-> arg])
      /\ CallStore(r, op, arg, w, next)
      /\ step[r] # "idle"
      /\ op \in {"update", "transition"} => isAgent(r)
      /\ op = "comment" =>
           w \in Items /\ (isAgent(r) \/ (arg = "public" /\ owner[w] = By(r)))
      /\ IF op = "create" THEN owner' = [owner EXCEPT ![w] = By(r)] ELSE owner' = owner
      /\ http[r].verb \in {"update", "transition"} => isAgent(r)
      /\ http[r].verb = "transition" => w = http[r].id
      /\ next = "noting" => http[r].verb = "transition" /\ http[r].id \in Items
  BY <1>0 DEF CallsFor
<1> DEFINE c == [op |-> op, arg |-> arg, item |-> w]
<1>2. c.op = op /\ c.arg = arg /\ c.item = w /\ c \in Calls
  BY <1>1 DEF Calls
<1>3. /\ pc[r] = "idle" /\ call' = [call EXCEPT ![r] = c] /\ pc' = [pc EXCEPT ![r] = "queued"]
      /\ reply' = [reply EXCEPT ![r] = None] /\ step' = [step EXCEPT ![r] = next]
      /\ UNCHANGED <<row, http, loaded, status, answer>>
  BY <1>1 DEF CallStore, Invoke, tables
<1> HIDE DEF c
<1>4. c # None
  BY <1>2, NoneAssumption
<1>5. /\ call'[r] = c /\ pc'[r] = "queued" /\ reply'[r] = None /\ step'[r] = next
      /\ \A o \in Reqs \ {r} : /\ call'[o] = call[o] /\ pc'[o] = pc[o] /\ reply'[o] = reply[o]
                               /\ step'[o] = step[o]
  BY <1>3 DEF ServiceInv, ApiTypeOK, TypeOK
<1>6. RequestOK(r) /\ HandlerAt(r)
  BY DEF ServiceInv, SlotOK
<1>7. http[r] \in Requests /\ http[r].token.valid /\ By(r) \in Users
  BY <1>1, <1>6 DEF RequestOK, Requests, Tokens, By
<1>8. op = "create" => /\ w \in Items /\ row[w] = None
                       /\ \A o \in Reqs : call[o] # None => call[o].item # w
  BY <1>1 DEF Nameable
<1>9. RowsKept /\ OwnersStay
  <2>1. CASE op = "create"
    BY <1>1, <1>3, <1>8, <2>1 DEF RowsKept, OwnersStay, ServiceInv, ApiTypeOK
  <2>2. CASE op # "create"
    BY <1>1, <1>3, <2>2 DEF RowsKept, OwnersStay
  <2> QED
    BY <2>1, <2>2
<1>10. owner' \in [Items -> Users \cup {None}]
  BY <1>1, <1>7, <1>8 DEF ServiceInv, ApiTypeOK
<1>11. TypeOK'
  <2>1. Call(r)
    BY <1>1, InvokeIsCall DEF CallStore
  <2> QED
    BY <2>1, TypedCall DEF ServiceInv, Typed
<1>12. ApiTypeOK'
  BY <1>1, <1>3, <1>10, <1>11 DEF ServiceInv, ApiTypeOK, Steps
<1>13. \A o \in Reqs \ {r} : SlotOK(o)'
  BY <1>3, <1>5, <1>9, SlotFrame DEF SlotSame
<1>14. RequestOK(r)'
  BY <1>1, <1>3, <1>5, <1>6 DEF RequestOK
<1>15. isAgent(r)' = isAgent(r) /\ By(r)' = By(r)
  BY <1>3 DEF isAgent, By
<1>16. HandlerAt(r)'
  <2>1. loaded'[r] # None =>
          /\ row'[loaded'[r]] # None
          /\ isAgent(r)' \/ owner'[loaded'[r]] = By(r)'
    BY <1>3, <1>6, <1>9, <1>15 DEF HandlerAt, OwnersStay, ServiceInv, ApiTypeOK
  <2>2. /\ step'[r] \in {"calling", "noting"} /\ call'[r].item = w
        /\ http'[r] = http[r] /\ reply'[r] = None
    BY <1>1, <1>2, <1>3, <1>5
  <2> QED
    BY <1>1, <1>5, <1>15, <2>1, <2>2 DEF HandlerAt
<1>17. Authorised(r)'
  <2>1. isAgent(r) => Granted(http[r].token)
    BY <1>7, AgentGranted
  <2>2. op = "create" => owner'[w] = http[r].token.sub
    BY <1>1, <1>8 DEF By, ServiceInv, ApiTypeOK
  <2>3. op = "comment" => w \in Items /\ (isAgent(r) \/ (arg = "public" /\ owner'[w] = http[r].token.sub))
    BY <1>1 DEF By
  <2>4. http'[r] = http[r] /\ call'[r].op = op /\ call'[r].arg = arg /\ call'[r].item = w
    BY <1>2, <1>3, <1>5
  <2> QED
    BY <1>1, <1>7, <2>1, <2>2, <2>3, <2>4 DEF Authorised
<1>18. Written(r)' /\ Shown(r)' /\ Refused(r)'
  BY <1>1, <1>3, <1>5 DEF Written, Shown, Refused, Answered, Returned, ServiceInv, SlotOK
<1> QED
  BY <1>12, <1>13, <1>14, <1>16, <1>17, <1>18 DEF SlotOK

(***************************************************************************)
(* The store at work on a call, and the death of the process.              *)
(***************************************************************************)
LEMMA ServeKeeps ==
  ASSUME ServiceInv, NEW r \in Reqs, Serve(r)
  PROVE  ApiTypeOK' /\ \A o \in Reqs : SlotOK(o)'
<1>1. /\ UNCHANGED <<http, step, loaded, status, answer, owner>>
      /\ Progress(r) \/ CommitUnacknowledged(r) \/ Fail(r)
  BY DEF Serve, apiVars
<1>2. Next /\ Typed'
  BY <1>1, TypedNext DEF Next, ServiceInv
<1>3. ApiTypeOK'
  BY <1>1, <1>2 DEF ServiceInv, ApiTypeOK, Typed
<1>4. RowsKept /\ OwnersStay
  BY <1>1, <1>2, RowsStay DEF RowsKept, OwnersStay, ServiceInv
<1>5. \/ /\ pc'[r] \in {"begun", "locked"} /\ call'[r] = call[r] /\ reply'[r] = reply[r]
      \/ /\ pc[r] = "locked" /\ Apply(r)
         /\ pc'[r] = "committed" /\ call'[r] = call[r] /\ reply'[r] = reply[r]
      \/ /\ pc'[r] = "idle" /\ call'[r] = None
         /\ reply'[r].item = call[r].item /\ (reply'[r].outcome = "ok" => pc[r] = "committed")
  <2>1. CASE Begin(r) \/ AllocateNumber(r) \/ SelectForUpdate(r) \/ UpdateFields(r) \/ InsertComment(r)
    BY <2>1 DEF Begin, AllocateNumber, SelectForUpdate, UpdateFields, InsertComment,
                ServiceInv, Typed, TypeOK
  <2>2. CASE Commit(r)
    BY <2>2 DEF Commit, ServiceInv, Typed, TypeOK
  <2>3. ASSUME NEW outcome, Return(r, outcome), outcome = "ok" => pc[r] = "committed", pc[r] # "idle"
        PROVE  /\ pc'[r] = "idle" /\ call'[r] = None
               /\ reply'[r].item = call[r].item /\ (reply'[r].outcome = "ok" => pc[r] = "committed")
    <3> DEFINE a == [outcome |-> outcome, item |-> call[r].item,
                     at |-> IF tx[r] = None THEN 0 ELSE tx[r].at]
    <3>1. reply' = [reply EXCEPT ![r] = a]
      BY <2>3 DEF Return
    <3>2. a.outcome = outcome /\ a.item = call[r].item
      OBVIOUS
    <3>3. pc'[r] = "idle" /\ call'[r] = None
      BY <2>3 DEF Return, ServiceInv, Typed, TypeOK
    <3> HIDE DEF a
    <3>4. reply'[r] = a
      BY <3>1 DEF ServiceInv, Typed, TypeOK
    <3> QED
      BY <2>3, <3>2, <3>3, <3>4
  <2> QED
    BY <1>1, <2>1, <2>2, <2>3 DEF Progress, Statement, RefuseTransition, NotFound, Publish,
                                  CommitUnacknowledged, Fail
<1>6. pc[r] # "idle"
  BY <1>1 DEF Progress, Statement, Begin, AllocateNumber, SelectForUpdate, RefuseTransition,
              UpdateFields, InsertComment, NotFound, Commit, Publish, CommitUnacknowledged, Fail
<1>7. \A o \in Reqs \ {r} : pc'[o] = pc[o] /\ call'[o] = call[o] /\ reply'[o] = reply[o]
  BY <1>1 DEF Progress, Statement, Begin, AllocateNumber, SelectForUpdate, RefuseTransition,
              UpdateFields, InsertComment, NotFound, Commit, Publish, CommitUnacknowledged, Fail,
              Return, ServiceInv, Typed, TypeOK
<1>8. \A o \in Reqs \ {r} : SlotOK(o)'
  BY <1>1, <1>4, <1>7, SlotFrame DEF SlotSame
<1>9. SlotOK(r) /\ step[r] \in {"calling", "noting"} /\ call[r] # None
  <2>1. SlotOK(r) /\ step[r] \in Steps /\ (pc[r] = "idle" <=> call[r] = None)
    BY DEF ServiceInv, ApiTypeOK, Typed, HandlerOK
  <2> QED
    BY <1>6, <2>1 DEF SlotOK, HandlerAt, Steps
<1>10. RequestOK(r)'
  BY <1>1, <1>4, <1>9 DEF SlotOK, RequestOK, RowsKept
<1>11. HandlerAt(r)'
  <2>1. loaded[r] # None => loaded[r] \in Items /\ row'[loaded[r]] # None
    BY <1>4, <1>9 DEF SlotOK, HandlerAt, ServiceInv, ApiTypeOK, RowsKept
  <2>2. isAgent(r)' = isAgent(r) /\ By(r)' = By(r)
    BY <1>1 DEF isAgent, By
  <2>3. step[r] = "calling" /\ http[r].verb = "transition" =>
          /\ call'[r] # None => call'[r].item = http[r].id
          /\ reply'[r] # None => reply'[r].item = http[r].id
    BY <1>5, <1>9 DEF SlotOK, HandlerAt
  <2> QED
    BY <1>1, <1>9, <2>1, <2>2, <2>3 DEF SlotOK, HandlerAt
<1>12. Authorised(r)'
  BY <1>1, <1>5, <1>9 DEF SlotOK, Authorised
<1>13. Written(r)'
  <2>1. pc'[r] = "committed" => row'[call'[r].item] # None
    <3>1. ASSUME pc[r] = "locked", Apply(r) PROVE row'[call[r].item] # None
      <4>1. call[r].item \in Items /\ RowOf(r) \in Rows
        BY <3>1, RowOfType DEF ServiceInv, Typed, HandlerOK
      <4>2. row'[call[r].item] = RowOf(r)
        BY <3>1, <4>1 DEF Apply, ServiceInv, Typed, TypeOK
      <4> QED
        BY <4>1, <4>2, NoneAssumption
    <3> QED
      BY <1>5, <3>1
  <2>2. ASSUME Returned(r, "ok")'
        PROVE  /\ call[r].item \in Items /\ row[call[r].item] # None
               /\ reply'[r].item = call[r].item
               /\ Granted(http[r].token) \/ owner[call[r].item] = By(r)
               /\ http[r].token.valid
    <3>1. pc[r] = "committed" /\ reply'[r].item = call[r].item
      BY <1>5, <2>2 DEF Returned
    <3>2. call[r].item \in Items /\ call[r].op \in {"create", "update", "transition", "comment"}
      BY <1>9, <3>1 DEF ServiceInv, Typed, TypeOK, HandlerOK, Calls
    <3>3. Granted(http[r].token) \/ owner[call[r].item] = By(r)
      BY <1>9, <3>2 DEF SlotOK, Authorised, By
    <3> QED
      BY <1>9, <3>1, <3>2, <3>3 DEF SlotOK, Written, Authorised
  <2>3. Returned(r, "ok")' => MayShow(r, reply[r].item)'
    BY <1>1, <1>4, <2>2 DEF MayShow, RowsKept, By
  <2> QED
    BY <2>1, <2>3 DEF Written
<1>14. Shown(r)' /\ Refused(r)'
  BY <1>1, <1>9 DEF SlotOK, Shown, Refused, Answered
<1> QED
  BY <1>3, <1>8, <1>10, <1>11, <1>12, <1>13, <1>14 DEF SlotOK

LEMMA DieKeeps ==
  ASSUME ServiceInv, Die
  PROVE  ApiTypeOK' /\ \A o \in Reqs : SlotOK(o)'
<1>1. /\ UNCHANGED <<row, answer, owner>>
      /\ \A o \in Reqs : /\ pc'[o] = "idle" /\ call'[o] = None
                         /\ step'[o] = "idle" /\ loaded'[o] = None /\ status'[o] = 200
                         /\ step[o] = "idle" => http'[o] = http[o]
  BY DEF Die, Crash, tables
<1>2. TypeOK'
  BY TypedCrash DEF Die, ServiceInv, Typed
<1>3. ApiTypeOK'
  BY <1>2 DEF Die, ServiceInv, ApiTypeOK, Steps, Codes
<1>4. ASSUME NEW o \in Reqs PROVE SlotOK(o)'
  <2>1. RequestOK(o)' /\ HandlerAt(o)' /\ Authorised(o)' /\ Written(o)'
    BY <1>1 DEF RequestOK, HandlerAt, Authorised, Written
  <2>2. SlotOK(o) /\ (step[o] # "idle" => answer[o] = None)
    BY DEF ServiceInv, SlotOK, RequestOK
  <2>3. Shown(o)'
    BY <1>1, <2>2 DEF SlotOK, Shown, Answered, MayShow, By
  <2>4. Refused(o)'
    BY <1>1, <2>2 DEF SlotOK, Refused, Answered, isAgent
  <2> QED
    BY <2>1, <2>3, <2>4 DEF SlotOK
<1> QED
  BY <1>3, <1>4

LEMMA ServiceInvInit == ApiInit => ServiceInv
<1> SUFFICES ASSUME ApiInit PROVE ServiceInv
  OBVIOUS
<1>1. Typed
  BY TypedInit DEF ApiInit
<1>2. ApiTypeOK
  BY <1>1 DEF ApiInit, ApiTypeOK, Typed, Steps, Codes
<1>3. ASSUME NEW r \in Reqs PROVE SlotOK(r)
  BY <1>3 DEF ApiInit, Init, SlotOK, RequestOK, HandlerAt, Authorised, Written, Shown, Refused, Answered
<1> QED
  BY <1>1, <1>2, <1>3 DEF ServiceInv

LEMMA ServiceInvNext == ServiceInv /\ [ApiNext]_allVars => ServiceInv'
<1> SUFFICES ASSUME ServiceInv, [ApiNext]_allVars PROVE ServiceInv'
  OBVIOUS
<1>1. Typed'
  BY ServiceStepIsStoreStep, TypedNext DEF ServiceInv
<1>2. ASSUME NEW r \in Reqs, Reads(r) PROVE ApiTypeOK' /\ \A o \in Reqs : SlotOK(o)'
  BY <1>2, AnsweringKeeps, ReceiveKeeps, LoadKeeps DEF Reads, Answering
<1>3. ASSUME NEW r \in Reqs, CallsStore(r) \/ Serve(r)
      PROVE  ApiTypeOK' /\ \A o \in Reqs : SlotOK(o)'
  BY <1>3, CallKeeps, ServeKeeps
<1>4. ASSUME Drain \/ UNCHANGED allVars
      PROVE  ApiTypeOK' /\ \A o \in Reqs : SlotOK(o)'
  <2>1. UNCHANGED <<http, step, loaded, status, answer, owner, row, pc, call, reply>>
    BY <1>4 DEF Drain, Flush, apiVars, tables, allVars, vars
  <2>2. ApiTypeOK'
    BY <1>1, <2>1 DEF ServiceInv, ApiTypeOK, Typed
  <2>3. RowsKept /\ OwnersStay /\ \A o \in Reqs : SlotSame(o)
    BY <2>1 DEF RowsKept, OwnersStay, SlotSame
  <2> QED
    BY <2>2, <2>3, SlotFrame
<1>5. ApiTypeOK' /\ \A o \in Reqs : SlotOK(o)'
  BY <1>2, <1>3, <1>4, DieKeeps, ServiceSteps
<1> QED
  BY <1>1, <1>5 DEF ServiceInv

-----------------------------------------------------------------------------
(* Theorems *)

\* The inductive invariant holds in every reachable state of the service.
THEOREM ServiceInvAlways == ApiSpec => []ServiceInv
  BY ServiceInvInit, ServiceInvNext, PTL DEF ApiSpec

\* The handlers call the store only for operations it has, on items that are
\* there or on none (api.go): the service is a behaviour of the store.
THEOREM ServiceRunsStore == ApiSpec => Spec
<1>1. ApiInit => Init
  BY DEF ApiInit
<1>2. ServiceInv /\ [ApiNext]_allVars => [Next]_vars
  BY ServiceStepIsStoreStep
<1> QED
  BY <1>1, <1>2, ServiceInvAlways, PTL DEF ApiSpec, Spec

\* Requests, responses and owners keep their types.
THEOREM ApiTypeCorrect == ApiSpec => []ApiTypeOK
<1>1. ServiceInv => ApiTypeOK
  BY DEF ServiceInv
<1> QED
  BY <1>1, ServiceInvAlways, PTL

\* Whatever reaches the store was allowed by a token that verifies, by the role
\* it grants or by the ownership of the item (api.go:155, 191, 242-268).
THEOREM WritesAllowed == ApiSpec => []WritesAuthorised
<1>1. ServiceInv => WritesAuthorised
  BY DEF ServiceInv, SlotOK, Authorised, WritesAuthorised
<1> QED
  BY <1>1, ServiceInvAlways, PTL

\* Nobody without an agent's role is shown another's item or an internal note
\* (api.go:141-146, 257, 284-287).
THEOREM NothingForeignLeaks == ApiSpec => []NothingForeignShown
<1>1. ServiceInv => NothingForeignShown
  BY DEF ServiceInv, SlotOK, Shown, MayShow, NothingForeignShown, By
<1> QED
  BY <1>1, ServiceInvAlways, PTL

\* Whoever the page takes for an agent is never answered 403: where its reading of
\* the token and the service's differ, the service's is the wider one (oidc.go:64,
\* jwt.ts:19).
THEOREM OfferedAllowed == ApiSpec => []OfferedIsAllowed
<1>1. ServiceInv => OfferedIsAllowed
  BY DEF ServiceInv, SlotOK, Refused, OfferedIsAllowed, isAgent, extractRoles, rolesFromToken,
         NamesAgent
<1> QED
  BY <1>1, ServiceInvAlways, PTL

\* Numbers stay unique in the service, where several requests create at once
\* (store.go:109, 0001_init.sql:10).
THEOREM ServiceNumbersUnique == ApiSpec => []NumbersUnique
  BY ServiceRunsStore, NumbersNeverCollide

\* What the service does to the items, whatever is asked of it at once and wherever
\* it fails, is a sequence of whole operations on single items (api.go:109-300).
THEOREM ServiceImplementsLedger == ApiSpec => ImplementsLedger
  BY ServiceRunsStore, StoreImplementsLedger
=============================================================================
