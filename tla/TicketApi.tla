----------------------------- MODULE TicketApi -----------------------------
(***************************************************************************)
(* The ticketing HTTP handlers (services/ticketing/internal/api) over the  *)
(* store of TicketStore: the bearer token and the roles it names           *)
(* (pkg/auth), ownership masking, and the requests of several store calls. *)
(*                                                                         *)
(* Slot r serves one request at a time:                                    *)
(*   idle -> routed -> (loaded ->) (calling -> (noting ->)) idle           *)
(* routed has passed authentication and requireValidID; loaded has come    *)
(* back from load(); calling waits for the store, noting for the second    *)
(* store call of a transition with a comment.  A handler that has written  *)
(* a response keeps running until it returns, and what it writes last wins.*)
(***************************************************************************)
EXTENDS TicketStore

CONSTANTS
  Users,   \* token subjects
  Roles,   \* role names the issuer puts into tokens
  Asks     \* what the client of each slot asks for: routes and the tokens sent

\* A request's route, its argument, and for a transition whether it carries a
\* comment.  "nothing" is an empty patch, "bogus" a body the handler refuses (not
\* JSON, a bad field, a comment without text): 422 stands for its 400 or 422.
AllRoutes ==
  [verb : {"create"}, arg : Types \cup {"bogus"}, note : {FALSE}] \cup
  [verb : {"list", "get", "listComments", "listEvents"}, arg : {"nothing"}, note : {FALSE}] \cup
  [verb : {"update"}, arg : {"assigned", "updated", "nothing", "bogus"}, note : {FALSE}] \cup
  [verb : {"transition"}, arg : Statuses \cup {"bogus"}, note : BOOLEAN] \cup
  [verb : {"addComment"}, arg : {"internal", "public", "bogus"}, note : {FALSE}]

\* A bearer token: whether it verifies (signature, issuer, audience, expiry; a
\* missing one does not), and the roles of the configured claim and of Keycloak's
\* realm_access, None where there is no array.
Tokens == [sub : Users, valid : BOOLEAN,
           roles : {None} \cup SUBSET Roles, realm : {None} \cup SUBSET Roles]

\* The handlers use every operation of the store; an item's id is not NULL.
ASSUME ServiceAssumption == Menu = Operations /\ None \notin Items
ASSUME ApiAssumption == \A r \in Reqs : Asks[r] \subseteq [route : AllRoutes, token : Tokens]

VARIABLES
  http,    \* the request each slot serves or served last
  step,    \* where its handler is
  loaded,  \* the work item load() returned: None is the empty WorkItem{}
  status,  \* the status code written so far
  answer,  \* the response of the last request
  owner    \* work_items.requester_id

apiVars == <<http, step, loaded, status, answer, owner>>
allVars == <<vars, apiVars>>

Requests == [verb : {"create", "list", "get", "update", "transition", "addComment",
                     "listComments", "listEvents"},
             arg : Types \cup Statuses \cup
                   {"bogus", "nothing", "assigned", "updated", "internal", "public"},
             note : BOOLEAN, token : Tokens, id : Items \cup {Absent}]

Codes == {200, 201, 401, 403, 404, 409, 422, 500}

\* What a response shows: the items whose fields, comments or events are in it,
\* and whether internal notes are among the comments.
Answers == [code : Codes \cup {None}, items : SUBSET Items, notes : BOOLEAN]

Steps == {"idle", "routed", "loaded", "calling", "noting"}

ApiTypeOK ==
  /\ TypeOK
  /\ http \in [Reqs -> Requests \cup {None}]
  /\ step \in [Reqs -> Steps]
  /\ loaded \in [Reqs -> Items \cup {None}]
  /\ status \in [Reqs -> Codes]
  /\ answer \in [Reqs -> Answers \cup {None}]
  /\ owner \in [Items -> Users \cup {None}]

\* Mutant: Keycloak's realm roles are not looked at.
extractRolesTopLevel(t) == IF t.roles = None THEN {} ELSE t.roles

\* The roles of a verified token: the claim's if it names any, else the realm's.
extractRoles(t) ==
  IF t.roles \notin {None, {}} THEN t.roles ELSE IF t.realm = None THEN {} ELSE t.realm

\* The roles the page reads from the same token: the claim's if it is there.
rolesFromToken(t) ==
  IF t.roles # None THEN t.roles ELSE IF t.realm = None THEN {} ELSE t.realm

NamesAgent(roles) == roles \cap {"agent", "admin"} # {}

By(r) == http[r].token.sub

isAgent(r) == NamesAgent(extractRoles(http[r].token))

\* The handler returns: the status written last, the body written last.
Respond(r, code, items, notes) ==
  /\ answer' = [answer EXCEPT ![r] = [code |-> code, items |-> items, notes |-> notes]]
  /\ step' = [step EXCEPT ![r] = "idle"]
  /\ loaded' = [loaded EXCEPT ![r] = None]
  /\ status' = [status EXCEPT ![r] = 200]
  /\ UNCHANGED <<http, owner>>

WriteError(r, code) == Respond(r, code, {}, FALSE)

\* A read of the store ends the request: its result, or 500 when it fails.
Answer(r, code, items, notes) == Respond(r, code, items, notes) \/ WriteError(r, 500)

\* The handler calls the store and waits for it.
CallStore(r, op, arg, item, next) ==
  /\ Invoke(r, [op |-> op, arg |-> arg, item |-> item])
  /\ step' = [step EXCEPT ![r] = next]
  /\ UNCHANGED <<http, loaded, status, answer>>

\* The store has returned to r with the outcome.
Returned(r, outcome) == pc[r] = "idle" /\ reply[r] # None /\ reply[r].outcome = outcome

-----------------------------------------------------------------------------
(* Handlers *)

ApiInit ==
  /\ Init
  /\ http = [r \in Reqs |-> None]
  /\ step = [r \in Reqs |-> "idle"]
  /\ loaded = [r \in Reqs |-> None]
  /\ status = [r \in Reqs |-> 200]
  /\ answer = [r \in Reqs |-> None]
  /\ owner = [w \in Items |-> None]

\* A request passes RequireAuth and, with an :id, requireValidID.
Receive(r) ==
  /\ step[r] = "idle"
  /\ \E ask \in Asks[r] :
     \E w \in {v \in Items : Exists(v)} \cup {Absent} :
       /\ ask.token.valid
       /\ ask.route.verb \in {"create", "list"} => w = Absent
       /\ http' = [http EXCEPT ![r] =
            [verb |-> ask.route.verb, arg |-> ask.route.arg, note |-> ask.route.note,
             token |-> ask.token, id |-> w]]
  /\ step' = [step EXCEPT ![r] = "routed"]
  /\ answer' = [answer EXCEPT ![r] = None]
  /\ UNCHANGED <<vars, loaded, status, owner>>

\* RequireAuth answers a request without a token, or with one that does not verify.
Reject(r) ==
  /\ step[r] = "idle"
  /\ \E ask \in Asks[r] :
       /\ ~ask.token.valid
       /\ http' = [http EXCEPT ![r] =
            [verb |-> ask.route.verb, arg |-> ask.route.arg, note |-> ask.route.note,
             token |-> ask.token, id |-> Absent]]
  /\ answer' = [answer EXCEPT ![r] = [code |-> 401, items |-> {}, notes |-> FALSE]]
  /\ UNCHANGED <<vars, step, loaded, status, owner>>

Routed(r, verb) == step[r] = "routed" /\ http[r].verb = verb

\* create: the requester is the caller.
Create(r) ==
  /\ Routed(r, "create") /\ http[r].arg \in Types
  /\ \E w \in Nameable([op |-> "create", arg |-> http[r].arg]) :
       /\ CallStore(r, "create", http[r].arg, w, "calling")
       /\ owner' = [owner EXCEPT ![w] = By(r)]

\* list: requesters see only their own items.
List(r) ==
  /\ Routed(r, "list")
  /\ Answer(r, 200,
       {w \in Items : Exists(w) /\ (isAgent(r) \/ owner[w] = By(r))}, FALSE)
  /\ UNCHANGED vars

\* update, transition and listEvents refuse callers without the agent role.
Forbid(r) ==
  /\ step[r] = "routed" /\ http[r].verb \in {"update", "transition", "listEvents"}
  /\ ~isAgent(r)
  /\ WriteError(r, 403)
  /\ UNCHANGED vars

Update(r) ==
  /\ Routed(r, "update") /\ isAgent(r)
  /\ http[r].arg \in {"assigned", "updated"}
  /\ CallStore(r, "update", http[r].arg, http[r].id, "calling")
  /\ UNCHANGED owner

\* An empty patch only reads the item back.
UpdateNothing(r) ==
  /\ Routed(r, "update") /\ isAgent(r) /\ http[r].arg = "nothing"
  /\ IF Exists(http[r].id) THEN Answer(r, 200, {http[r].id}, FALSE) ELSE Answer(r, 404, {}, FALSE)
  /\ UNCHANGED vars

Transition(r) ==
  /\ Routed(r, "transition") /\ isAgent(r) /\ http[r].arg \in Statuses
  /\ CallStore(r, "transition", http[r].arg, http[r].id, "calling")
  /\ UNCHANGED owner

\* A body that create, update or transition does not accept.
Refuse(r) ==
  /\ step[r] = "routed" /\ http[r].arg = "bogus"
  /\ \/ http[r].verb = "create"
     \/ http[r].verb \in {"update", "transition"} /\ isAgent(r)
  /\ WriteError(r, 422)
  /\ UNCHANGED vars

\* listEvents asks for the events of the id without asking whether it is there.
ListEvents(r) ==
  /\ Routed(r, "listEvents") /\ isAgent(r)
  /\ Answer(r, 200, {http[r].id} \cap Items, FALSE)
  /\ UNCHANGED vars

\* Mutant: ownership is checked for reading only.
LoadToRead(r) ==
  LET w == http[r].id
      seen == Exists(w) /\ (isAgent(r) \/ owner[w] = By(r) \/ http[r].verb = "addComment") IN
  /\ step[r] = "routed" /\ http[r].verb \in {"get", "addComment", "listComments"}
  /\ \/ /\ loaded' = [loaded EXCEPT ![r] = IF seen THEN w ELSE None]
        /\ status' = [status EXCEPT ![r] = IF seen THEN 200 ELSE 404]
     \/ /\ status' = [status EXCEPT ![r] = 500]
        /\ UNCHANGED loaded
  /\ step' = [step EXCEPT ![r] = "loaded"]
  /\ UNCHANGED <<vars, http, answer, owner>>

\* load: an item that is not there or not the caller's is a 404, a failing read
\* a 500.  WriteError returns nil once it has written the response, so load then
\* returns the empty item and no error, and its caller goes on.
Load(r) ==
  LET w == http[r].id
      seen == Exists(w) /\ (isAgent(r) \/ owner[w] = By(r)) IN
  /\ step[r] = "routed" /\ http[r].verb \in {"get", "addComment", "listComments"}
  /\ \/ /\ loaded' = [loaded EXCEPT ![r] = IF seen THEN w ELSE None]
        /\ status' = [status EXCEPT ![r] = IF seen THEN 200 ELSE 404]
     \/ /\ status' = [status EXCEPT ![r] = 500]
        /\ UNCHANGED loaded
  /\ step' = [step EXCEPT ![r] = "loaded"]
  /\ UNCHANGED <<vars, http, answer, owner>>

\* Mutant: an absent item is answered by its id.
GetAbsent(r) ==
  /\ step[r] = "loaded" /\ http[r].verb = "get"
  /\ Respond(r, status[r], {http[r].id}, FALSE)
  /\ UNCHANGED vars

\* get: c.JSON(wi) replaces the body and keeps the status written by load.
Get(r) ==
  /\ step[r] = "loaded" /\ http[r].verb = "get"
  /\ Respond(r, status[r], {loaded[r]} \cap Items, FALSE)
  /\ UNCHANGED vars

\* Mutant: internal notes are listed to everybody.
ListCommentsAll(r) ==
  LET shown == {c \in comments : c.item = loaded[r]} IN
  /\ step[r] = "loaded" /\ http[r].verb = "listComments"
  /\ IF loaded[r] = None THEN WriteError(r, 500)
     ELSE Answer(r, status[r], {c.item : c \in shown}, \E c \in shown : c.internal)
  /\ UNCHANGED vars

\* listComments: internal notes for agents only; the id of the empty item is
\* the empty string, which PostgreSQL refuses as a uuid.
ListComments(r) ==
  LET shown == {c \in comments : c.item = loaded[r] /\ (isAgent(r) \/ ~c.internal)} IN
  /\ step[r] = "loaded" /\ http[r].verb = "listComments"
  /\ IF loaded[r] = None THEN WriteError(r, 500)
     ELSE Answer(r, status[r], {c.item : c \in shown}, \E c \in shown : c.internal)
  /\ UNCHANGED vars

\* addComment: the body and the role are checked on the empty item as well.
RefuseComment(r) ==
  LET bad == http[r].arg = "bogus"
      noted == http[r].arg = "internal" /\ ~isAgent(r) IN
  /\ step[r] = "loaded" /\ http[r].verb = "addComment"
  /\ bad \/ noted \/ loaded[r] = None
  /\ WriteError(r, IF bad THEN 422 ELSE IF noted THEN 403 ELSE 500)
  /\ UNCHANGED vars

AddComment(r) ==
  /\ step[r] = "loaded" /\ http[r].verb = "addComment" /\ loaded[r] # None
  /\ http[r].arg = "internal" => isAgent(r)
  /\ http[r].arg # "bogus"
  /\ CallStore(r, "comment", http[r].arg, loaded[r], "calling")
  /\ UNCHANGED owner

\* Mutant: the error of the store call is not looked at.
FinishIgnoring(r) ==
  /\ step[r] = "calling" /\ http[r].verb # "transition"
  /\ pc[r] = "idle" /\ reply[r] # None
  /\ Respond(r, IF http[r].verb = "update" THEN 200 ELSE 201, {reply[r].item} \cap Items, FALSE)
  /\ UNCHANGED vars

\* The store call of create, update or addComment has returned.  addComment
\* knows no ErrNotFound: it answers every error with 500.
Finish(r) ==
  LET verb == http[r].verb
      okCode == IF verb = "update" THEN 200 ELSE 201 IN
  /\ step[r] = "calling" /\ verb # "transition"
  /\ \/ Returned(r, "ok") /\ Respond(r, okCode, {reply[r].item}, FALSE)
     \/ Returned(r, "not_found") /\ WriteError(r, IF verb = "update" THEN 404 ELSE 500)
     \/ Returned(r, "error") /\ WriteError(r, 500)
  /\ UNCHANGED vars

FinishTransition(r) ==
  /\ step[r] = "calling" /\ http[r].verb = "transition"
  /\ \/ Returned(r, "ok") /\ ~http[r].note /\ Respond(r, 200, {reply[r].item}, FALSE)
     \/ Returned(r, "not_found") /\ WriteError(r, 404)
     \/ Returned(r, "invalid_transition") /\ WriteError(r, 409)
     \/ Returned(r, "error") /\ WriteError(r, 500)
  /\ UNCHANGED vars

\* The comment of a transition is a second store call, once the first is done.
AddNote(r) ==
  /\ step[r] = "calling" /\ http[r].verb = "transition" /\ http[r].note
  /\ Returned(r, "ok")
  /\ CallStore(r, "comment", "internal", http[r].id, "noting")
  /\ UNCHANGED owner

\* Mutant: the error of the second call is dropped.
FinishNoteIgnoring(r) ==
  /\ step[r] = "noting"
  /\ pc[r] = "idle" /\ reply[r] # None
  /\ Respond(r, 200, {http[r].id}, FALSE)
  /\ UNCHANGED vars

FinishNote(r) ==
  /\ step[r] = "noting"
  /\ \/ Returned(r, "ok") /\ Respond(r, 200, {http[r].id}, FALSE)
     \/ (Returned(r, "not_found") \/ Returned(r, "error")) /\ WriteError(r, 500)
  /\ UNCHANGED vars

\* The store serves r's call.
Serve(r) ==
  /\ Progress(r) \/ CommitUnacknowledged(r) \/ Fail(r)
  /\ UNCHANGED apiVars

Drain == Flush /\ UNCHANGED apiVars

\* The process dies: nobody gets an answer.
Die ==
  /\ Crash
  /\ http' = [r \in Reqs |-> IF step[r] = "idle" THEN http[r] ELSE None]
  /\ step' = [r \in Reqs |-> "idle"]
  /\ loaded' = [r \in Reqs |-> None]
  /\ status' = [r \in Reqs |-> 200]
  /\ UNCHANGED <<answer, owner>>

Handle(r) ==
  \/ Create(r) \/ List(r) \/ Forbid(r) \/ Refuse(r)
  \/ Update(r) \/ UpdateNothing(r) \/ Transition(r) \/ ListEvents(r)
  \/ Load(r) \/ Get(r) \/ ListComments(r) \/ RefuseComment(r) \/ AddComment(r)
  \/ Finish(r) \/ FinishTransition(r) \/ AddNote(r) \/ FinishNote(r)

ApiNext == (\E r \in Reqs : Receive(r) \/ Reject(r) \/ Handle(r) \/ Serve(r)) \/ Drain \/ Die

ApiSpec == ApiInit /\ [][ApiNext]_allVars

-----------------------------------------------------------------------------
(* Properties *)

Answered(r) == step[r] = "idle" /\ answer[r] # None

\* The issuer has made the caller an agent: said so in a token that verifies,
\* where it is read or where it is read when nothing is said there.
Granted(t) == t.valid /\ \E c \in {t.roles, t.realm} : c # None /\ NamesAgent(c)

\* What reaches the store was allowed by a token that verifies: a status or field
\* change, and an internal note, come from an agent, and a requester's comment is
\* on an item of theirs, however the item's other requests interleave with load
\* and the store call.
WritesAuthorised ==
  \A r \in Reqs : call[r] # None =>
    LET token == http[r].token IN
    /\ token.valid
    /\ call[r].op \in {"update", "transition"} => Granted(token)
    /\ call[r].op = "comment" =>
         \/ Granted(token)
         \/ call[r].arg = "public" /\ owner[call[r].item] = token.sub
    /\ call[r].op = "create" => owner[call[r].item] = token.sub

\* A response shows a requester nothing of anybody else's item and no internal
\* note (api.go:141-146, 257, 284-287), and nothing at all without a valid token.
NothingForeignShown ==
  \A r \in Reqs : (Answered(r) /\ ~Granted(http[r].token)) =>
    /\ \A w \in answer[r].items : http[r].token.valid /\ owner[w] = By(r)
    /\ ~answer[r].notes

\* Whoever the page offers an agent's controls (jwt.ts:19, TicketDetailPage.tsx:32)
\* is not refused them by the service, which reads the same token on its own
\* (oidc.go:64): 403 is for those the page takes for requesters.
OfferedIsAllowed ==
  \A r \in Reqs :
    Answered(r) /\ answer[r].code = 403 => ~NamesAgent(rolesFromToken(http[r].token))

\* A transition answered 200 is in the history, and its comment with it as an
\* internal note; one answered 409 changed nothing (api.go:211-221).
TransitionAnswersTruthful ==
  \A r \in Reqs : (Answered(r) /\ http[r].verb = "transition") =>
    /\ answer[r].code = 200 =>
         /\ \E i \in 1..Len(events[http[r].id]) :
              IsMove(events[http[r].id][i]) /\ events[http[r].id][i].to = http[r].arg
         /\ http[r].note =>
              [item |-> http[r].id, internal |-> TRUE, at |-> reply[r].at] \in comments
    /\ answer[r].code = 409 =>
         \A w \in Items : \A i \in 1..Len(events[w]) : events[w][i].at # reply[r].at

\* The request asks for a single write: not for a transition, which may be two.
WritesOnce(h) == h.verb \in {"create", "update", "addComment"} /\ h.arg # "nothing"

\* The kind of event such a request leaves.
KindAsked(h) == IF h.verb = "create" THEN "created"
                ELSE IF h.verb = "update" THEN h.arg ELSE "commented"

\* The history of w tells at the time at of what h asked for: a created item is of
\* the type and the requester of h, a comment is there and as internal as h said.
Kept(h, w, at) ==
  /\ \E i \in 1..Len(events[w]) : events[w][i].at = at /\ events[w][i].kind = KindAsked(h)
  /\ IF h.verb = "create" THEN owner[w] = h.token.sub /\ row[w] # None /\ row[w].type = h.arg
     ELSE w = h.id
  /\ h.verb = "addComment" =>
       [item |-> w, internal |-> h.arg = "internal", at |-> at] \in comments

\* A create, an update or a comment answered with success is in the tables as its
\* request had it, on the item it is answered with, whatever other requests do
\* between the commit and the answer and after it (api.go:119-131, 194-195,
\* 245-249, 292-299).
WriteAnswersTruthful ==
  \A r \in Reqs :
    (Answered(r) /\ WritesOnce(http[r]) /\ answer[r].code \in {200, 201}) =>
      \E w \in answer[r].items : Kept(http[r], w, reply[r].at)

\* "Requesters may only access their own items; mask others as 404." (api.go:284)
ForeignItemsMasked ==
  \A r \in Reqs :
    (Answered(r) /\ http[r].verb \in {"get", "listComments"} /\ ~isAgent(r)
       /\ http[r].id \in Items /\ owner[http[r].id] # By(r))
      => answer[r].code = 404
=============================================================================
