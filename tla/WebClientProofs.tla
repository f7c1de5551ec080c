-------------------------- MODULE WebClientProofs --------------------------
(***************************************************************************)
(* Theorems about WebClient, for any number of writes, resends, statuses   *)
(* gone for and changes by others.                                         *)
(***************************************************************************)
EXTENDS WebClient, SequenceTheorems, TLAPS

Versions == [status : Statuses, assignee : Assignees \cup {None}]
Writes == [op : Operations, to : Statuses \cup Assignees \cup {None}, picked : Nat,
           at : {"sent", "abandoned", "ok", "conflict"}, rev : Nat]

\* A fetch that has been served will bring what is owed and no less than is shown.
CacheOK(k) ==
  /\ owed[k] <= Latest(k)
  /\ fetch[k] \notin {None, Asked} =>
       fetch[k] \in Nat /\ view[k] <= fetch[k] /\ owed[k] <= fetch[k] /\ fetch[k] <= Latest(k)

\* The page offered the status to in the version picked, as the service would.
Offered(to, picked) == picked \in 1..Len(history) /\ CanTransition(history[picked].status, to)

\* The ticket's status was another one than in the version picked.
Changed(picked) ==
  \E j \in picked + 1 .. Len(history) : history[j].status # history[picked].status

\* A write acknowledged is in the service's tables; a transition was offered, and
\* only a transition is refused.
RequestOK(i) ==
  requests[i].at # "done" =>
    /\ requests[i].at = "ok" => requests[i].rev <= Latest(Changes(requests[i].op))
    /\ requests[i].at = "conflict" =>
         requests[i].op = "transition" /\ Changed(requests[i].picked)
    /\ requests[i].op = "transition" => Offered(requests[i].to, requests[i].picked)
    /\ requests[i].op = "update" => requests[i].to \in Assignees

PageInv ==
  /\ TypeOK /\ history # <<>>
  /\ \A k \in Queries : CacheOK(k)
  /\ next # None => Offered(next.to, next.picked)
  /\ \A i \in Ids : RequestOK(i)
  /\ FreshAfterWrite

-----------------------------------------------------------------------------
(* The service *)

\* The page's copy of the state machine offers what the service's allows.
LEMMA OfferedAllowed ==
  ASSUME NEW s \in Statuses, NEW t \in TRANSITIONS[s]
  PROVE  t \in Statuses /\ CanTransition(s, t)
BY DEF TRANSITIONS, Statuses, CanTransition, transitions

LEMMA AllowedIsStatus ==
  ASSUME NEW s, NEW t, CanTransition(s, t)
  PROVE  t \in Statuses
BY DEF Statuses, CanTransition, transitions

\* The tables only grow.
Grown ==
  /\ history' \in Seq(Versions) /\ comments' \in Nat /\ comments <= comments'
  /\ Len(history) <= Len(history')
  /\ \A j \in 1..Len(history) : history'[j] = history[j]

LEMMA Unchanged ==
  ASSUME TypeOK, UNCHANGED service
  PROVE  Grown /\ \A k \in Queries : Latest(k)' = Latest(k)
BY DEF TypeOK, service, Grown, Versions, Latest

LEMMA WriteGrows ==
  ASSUME TypeOK, history # <<>>, NEW op \in Operations, NEW to, Write(op, to),
         op = "transition" => to \in Statuses, op = "update" => to \in Assignees
  PROVE  Grown /\ Latest(Changes(op))' = Latest(Changes(op)) + 1
<1>1. history \in Seq(Versions) /\ Len(history) \in Nat /\ ticket \in Versions
  <2>1. history \in Seq(Versions)
    BY DEF TypeOK, Versions
  <2>2. Len(history) \in Nat /\ Len(history) \in 1..Len(history)
    BY <2>1
  <2> QED
    BY <2>1, <2>2, ElementOfSeq DEF ticket
<1>2. CASE op = "comment"
  BY <1>1, <1>2 DEF Write, Grown, Latest, Changes, TypeOK
<1>3. CASE op # "comment"
  <2>1. PICK v \in Versions : history' = Append(history, v) /\ comments' = comments
    <3>1. CASE op = "transition"
      BY <1>1, <3>1 DEF Write, Versions
    <3>2. CASE op = "update"
      BY <1>1, <3>2 DEF Write, Versions
    <3> QED
      BY <1>3, <3>1, <3>2 DEF Operations
  <2> QED
    BY <1>1, <1>3, <2>1 DEF Grown, Latest, Changes, TypeOK
<1> QED
  BY <1>2, <1>3

LEMMA LatestGrows ==
  ASSUME TypeOK, Grown, NEW k
  PROVE  /\ Latest(k) \in Nat /\ Latest(k)' \in Nat /\ Latest(k) <= Latest(k)'
         /\ history # <<>> => history' # <<>>
         /\ Len(history) \in Nat /\ Len(history') \in Nat
BY DEF TypeOK, Grown, Latest, Versions

LEMMA OfferedStays ==
  ASSUME TypeOK, Grown, NEW to, NEW picked, Offered(to, picked)
  PROVE  Offered(to, picked)'
BY LatestGrows DEF Offered, Grown

LEMMA ChangedStays ==
  ASSUME TypeOK, Grown, NEW picked \in 1..Len(history), Changed(picked)
  PROVE  Changed(picked)'
BY LatestGrows DEF Changed, Grown

-----------------------------------------------------------------------------
(* The parts of the page *)

\* What is shown stays within the service's tables, and the page's duty as it is.
LEMMA CacheKept ==
  ASSUME PageInv, Grown, UNCHANGED <<open, view, failed, fetch, owed>>
  PROVE  /\ \A k \in Queries : CacheOK(k)' /\ view[k] <= Latest(k)'
         /\ FreshAfterWrite'
<1>1. \A k \in Queries : view[k] \in Nat /\ owed[k] \in Nat /\ view[k] <= Latest(k)
  BY DEF PageInv, TypeOK
<1>2. \A k \in Queries : /\ Latest(k) \in Nat /\ Latest(k)' \in Nat /\ Latest(k) <= Latest(k)'
  BY LatestGrows DEF PageInv
<1>3. ASSUME NEW k \in Queries
      PROVE  CacheOK(k)' /\ view[k] <= Latest(k)'
  <2>1. CacheOK(k)
    BY DEF PageInv
  <2> QED
    BY <1>1, <1>2, <2>1 DEF CacheOK
<1>4. FreshAfterWrite'
  BY DEF PageInv, FreshAfterWrite
<1> QED
  BY <1>3, <1>4

LEMMA WriteTyped ==
  ASSUME TypeOK, NEW i \in Ids
  PROVE  requests[i] \in Writes \cup {Done} /\ (requests[i].at # "done" => requests[i] \in Writes)
BY DEF TypeOK, Ids, Writes, Done

LEMMA RequestKept ==
  ASSUME PageInv, Grown, NEW i \in Ids, requests'[i] = requests[i]
  PROVE  RequestOK(i)'
<1> SUFFICES ASSUME requests[i].at # "done"
             PROVE  RequestOK(i)'
  BY DEF RequestOK
<1>1. RequestOK(i) /\ requests[i] \in Writes
  BY WriteTyped DEF PageInv
<1>2. requests[i].at = "ok" => requests[i].rev <= Latest(Changes(requests[i].op))'
  <2>1. requests[i].rev \in Nat
    BY <1>1 DEF Writes
  <2> QED
    BY <1>1, <2>1, LatestGrows DEF RequestOK, PageInv
<1>3. requests[i].op = "transition" => Offered(requests[i].to, requests[i].picked)'
  BY <1>1, OfferedStays DEF RequestOK, PageInv
<1>4. requests[i].at = "conflict" =>
        requests[i].op = "transition" /\ Changed(requests[i].picked)'
  BY <1>1, ChangedStays DEF RequestOK, PageInv, Offered
<1> QED
  BY <1>1, <1>2, <1>3, <1>4 DEF RequestOK, Changes

\* A request that is done, or on its way again, owes nothing to the tables.
LEMMA RequestAgain ==
  ASSUME PageInv, Grown, NEW i \in Ids, NEW at \in {"sent", "abandoned"},
         requests[i].at # "done", requests'[i] = [requests[i] EXCEPT !.at = at]
  PROVE  requests'[i] \in Writes /\ RequestOK(i)'
<1>1. RequestOK(i) /\ requests[i] \in Writes
  BY WriteTyped DEF PageInv
<1>2. /\ requests'[i] \in Writes /\ requests'[i].at = at /\ requests'[i].op = requests[i].op
      /\ requests'[i].to = requests[i].to /\ requests'[i].picked = requests[i].picked
  BY <1>1 DEF Writes
<1>3. requests[i].op = "transition" => Offered(requests[i].to, requests[i].picked)'
  BY <1>1, OfferedStays DEF RequestOK, PageInv
<1> QED
  BY <1>1, <1>2, <1>3 DEF RequestOK

\* What stays when no request changes.
LEMMA RequestsKept ==
  ASSUME PageInv, Grown, UNCHANGED <<requests, next>>
  PROVE  /\ \A i \in Ids : RequestOK(i)'
         /\ Ids' = Ids
         /\ next # None => Offered(next.to, next.picked)'
         /\ next \in [to : Statuses, picked : 1..Len(history')] \cup {None}
<1>1. \A i \in Ids : RequestOK(i)'
  BY RequestKept
<1>2. next # None => Offered(next.to, next.picked)'
  BY OfferedStays DEF PageInv
<1>3. next \in [to : Statuses, picked : 1..Len(history')] \cup {None}
  BY LatestGrows DEF PageInv, TypeOK, Grown
<1> QED
  BY <1>1, <1>2, <1>3 DEF Ids

\* The forms reset, or waiting no more for what has ended.
FormsRelease ==
  /\ next' \in {next, None}
  /\ pending' \in [Operations -> Ids \cup {None}]

LEMMA UnmountReleases ==
  ASSUME TypeOK, NEW ops, Unmount(ops)
  PROVE  FormsRelease
BY DEF TypeOK, Unmount, FormsRelease

LEMMA RefetchedReleases ==
  ASSUME TypeOK, NEW k, Refetched(k)
  PROVE  FormsRelease
BY DEF TypeOK, Refetched, FormsRelease

\* A step of the cache or of the page's coming and going.
LEMMA PageStep ==
  ASSUME PageInv, FormsRelease, UNCHANGED <<service, requests, owed, resends>>,
         open' \in BOOLEAN, failed' \in [Queries -> BOOLEAN],
         view' \in [Queries -> Nat], fetch' \in [Queries -> Nat \cup {None}],
         \A k \in Queries : CacheOK(k)' /\ view'[k] <= Latest(k), FreshAfterWrite'
  PROVE  PageInv'
<1>1. Grown /\ \A k \in Queries : Latest(k)' = Latest(k)
  BY Unchanged DEF PageInv
<1>2. Ids' = Ids /\ \A i \in Ids : RequestOK(i)'
  BY <1>1, RequestKept DEF Ids
<1>3. (next # None => Offered(next.to, next.picked))'
  <2>1. \A to, picked : Offered(to, picked) => Offered(to, picked)'
    BY <1>1, OfferedStays DEF PageInv
  <2>2. next' # None => next' = next /\ next # None
    BY DEF FormsRelease
  <2> QED
    BY <2>1, <2>2 DEF PageInv
<1>4. TypeOK'
  BY <1>1, <1>2 DEF PageInv, TypeOK, FormsRelease, service
<1> QED
  BY <1>1, <1>2, <1>3, <1>4 DEF PageInv, service

LEMMA LatestIsNat ==
  ASSUME TypeOK, NEW k
  PROVE  Latest(k) \in Nat /\ Latest(k) # None
BY NoneAssumption DEF TypeOK, Latest

LEMMA ServeFetchKeeps ==
  ASSUME PageInv, NEW k \in Queries, ServeFetch(k)
  PROVE  PageInv'
<1>1. /\ fetch' = [fetch EXCEPT ![k] = Latest(k)]
      /\ UNCHANGED <<service, open, view, failed, next, requests, pending, owed, resends>>
  BY DEF ServeFetch
<1>2. FormsRelease
  BY <1>1 DEF FormsRelease, PageInv, TypeOK
<1>3. fetch' \in [Queries -> Nat \cup {None}] /\ fetch'[k] = Latest(k) /\ fetch'[k] # None
  BY <1>1, LatestIsNat DEF PageInv, TypeOK
<1>4. \A q \in Queries : Latest(q)' = Latest(q) /\ view[q] <= Latest(q) /\ view[q] \in Nat /\ owed[q] \in Nat
  BY <1>1, Unchanged DEF PageInv, TypeOK
<1>5. ASSUME NEW q \in Queries PROVE CacheOK(q)'
  <2>1. CacheOK(q)
    BY DEF PageInv
  <2> QED
    BY <1>1, <1>3, <1>4, <2>1, LatestIsNat DEF CacheOK, PageInv, TypeOK
<1>6. FreshAfterWrite'
  BY <1>1, <1>3 DEF FreshAfterWrite, PageInv, TypeOK
<1> QED
  BY <1>1, <1>2, <1>3, <1>4, <1>5, <1>6, PageStep DEF PageInv, TypeOK

LEMMA ArriveFetchKeeps ==
  ASSUME PageInv, NEW k \in Queries, ArriveFetch(k)
  PROVE  PageInv'
<1>1. /\ fetch[k] \notin {None, Asked}
      /\ view' = [view EXCEPT ![k] = fetch[k]]
      /\ failed' = [failed EXCEPT ![k] = FALSE]
      /\ fetch' = [fetch EXCEPT ![k] = None]
      /\ UNCHANGED <<service, open, requests, owed, resends>>
  BY DEF ArriveFetch
<1>2. FormsRelease
  BY UnmountReleases, RefetchedReleases DEF ArriveFetch, PageInv
<1>3. CacheOK(k)
  BY DEF PageInv
<1>4. /\ fetch[k] \in Nat /\ view[k] <= fetch[k] /\ owed[k] <= fetch[k] /\ fetch[k] <= Latest(k)
  BY <1>1, <1>3 DEF CacheOK
<1>5. \A q \in Queries : Latest(q)' = Latest(q) /\ view[q] <= Latest(q)
  BY <1>1, Unchanged DEF PageInv, TypeOK
<1>6. /\ view' \in [Queries -> Nat] /\ failed' \in [Queries -> BOOLEAN]
      /\ fetch' \in [Queries -> Nat \cup {None}] /\ view'[k] = fetch[k] /\ fetch'[k] = None
      /\ \A q \in Queries \ {k} : view'[q] = view[q] /\ failed'[q] = failed[q] /\ fetch'[q] = fetch[q]
  BY <1>1, <1>4 DEF PageInv, TypeOK
<1>7. ASSUME NEW q \in Queries PROVE CacheOK(q)' /\ view'[q] <= Latest(q)
  <2>1. CacheOK(q)
    BY DEF PageInv
  <2> QED
    BY <1>1, <1>3, <1>4, <1>5, <1>6, <2>1 DEF CacheOK
<1>8. FreshAfterWrite'
  BY <1>1, <1>4, <1>6 DEF FreshAfterWrite, PageInv
<1> QED
  BY <1>1, <1>2, <1>6, <1>7, <1>8, PageStep DEF PageInv, TypeOK

LEMMA LoseFetchKeeps ==
  ASSUME PageInv, NEW k \in Queries, LoseFetch(k)
  PROVE  PageInv'
<1>1. /\ fetch' = [fetch EXCEPT ![k] = None]
      /\ failed' = [failed EXCEPT ![k] = TRUE]
      /\ UNCHANGED <<service, open, view, requests, owed, resends>>
  BY DEF LoseFetch
<1>2. FormsRelease
  BY UnmountReleases, RefetchedReleases DEF LoseFetch, PageInv
<1>3. \A q \in Queries : Latest(q)' = Latest(q) /\ view[q] <= Latest(q)
  BY <1>1, Unchanged DEF PageInv, TypeOK
<1>4. /\ failed' \in [Queries -> BOOLEAN] /\ fetch' \in [Queries -> Nat \cup {None}]
      /\ failed'[k] /\ fetch'[k] = None
      /\ \A q \in Queries \ {k} : failed'[q] = failed[q] /\ fetch'[q] = fetch[q]
  BY <1>1 DEF PageInv, TypeOK
<1>5. ASSUME NEW q \in Queries PROVE CacheOK(q)'
  <2>1. CacheOK(q)
    BY DEF PageInv
  <2> QED
    BY <1>1, <1>3, <1>4, <2>1 DEF CacheOK
<1>6. FreshAfterWrite'
  BY <1>1, <1>4 DEF FreshAfterWrite, PageInv
<1> QED
  BY <1>1, <1>2, <1>3, <1>4, <1>5, <1>6, PageStep DEF PageInv, TypeOK

LEMMA LeaveKeeps ==
  ASSUME PageInv, Leave
  PROVE  PageInv'
<1>1. UNCHANGED <<service, view, failed, fetch, requests, owed, resends>> /\ open' = FALSE
  BY DEF Leave, cache
<1>2. FormsRelease
  BY UnmountReleases DEF Leave, PageInv
<1>3. \A q \in Queries : Latest(q)' = Latest(q) /\ CacheOK(q)
  BY <1>1, Unchanged DEF PageInv
<1>4. (\A q \in Queries : CacheOK(q)') /\ FreshAfterWrite'
  BY <1>1, <1>3 DEF CacheOK, FreshAfterWrite
<1> QED
  BY <1>1, <1>2, <1>4, PageStep DEF PageInv, TypeOK

LEMMA ReturnKeeps ==
  ASSUME PageInv, Return
  PROVE  PageInv'
<1>1. /\ UNCHANGED <<service, view, failed, next, requests, pending, owed, resends>>
      /\ open' = TRUE
      /\ fetch' = [k \in Queries |-> IF fetch[k] = None THEN Asked ELSE fetch[k]]
  BY DEF Return
<1>2. FormsRelease
  BY <1>1 DEF FormsRelease, PageInv, TypeOK
<1>3. \A q \in Queries : Latest(q)' = Latest(q) /\ CacheOK(q)
  BY <1>1, Unchanged DEF PageInv
<1>4. /\ fetch' \in [Queries -> Nat \cup {None}]
      /\ \A q \in Queries : fetch'[q] # None /\ fetch'[q] \in {Asked, fetch[q]}
  BY <1>1, NoneAssumption DEF PageInv, TypeOK, Asked
<1>5. (\A q \in Queries : CacheOK(q)') /\ FreshAfterWrite'
  BY <1>1, <1>3, <1>4 DEF CacheOK, FreshAfterWrite
<1> QED
  BY <1>1, <1>2, <1>4, <1>5, PageStep DEF PageInv, TypeOK

LEMMA SelectKeeps ==
  ASSUME PageInv, Select
  PROVE  PageInv'
<1>1. UNCHANGED <<service, open, view, failed, fetch, requests, pending, owed, resends>>
  BY DEF Select, cache
<1>2. /\ view["ticket"] \in 1..Len(history)
      /\ \E s \in TRANSITIONS[history[view["ticket"]].status] :
           next' = [to |-> s, picked |-> view["ticket"]]
  BY DEF Select, Showing, PageInv, TypeOK, Queries, Latest
<1>3. history[view["ticket"]].status \in Statuses
  <2>1. history \in Seq(Versions)
    BY DEF PageInv, TypeOK, Versions
  <2>2. history[view["ticket"]] \in Versions
    BY <1>2, <2>1, ElementOfSeq
  <2> QED
    BY <2>2 DEF Versions
<1>4. PICK s \in Statuses : next' = [to |-> s, picked |-> view["ticket"]] /\ Offered(s, view["ticket"])
  BY <1>2, <1>3, OfferedAllowed DEF Offered
<1>5. Grown
  BY <1>1, Unchanged DEF PageInv
<1>6. (\A k \in Queries : CacheOK(k)' /\ view[k] <= Latest(k)') /\ FreshAfterWrite'
  BY <1>1, <1>5, CacheKept
<1>7. Ids' = Ids /\ \A i \in Ids : RequestOK(i)'
  BY <1>1, <1>5, RequestKept DEF Ids
<1>8. (next # None => Offered(next.to, next.picked))'
  BY <1>1, <1>4 DEF Offered, service
<1>9. TypeOK'
  BY <1>1, <1>2, <1>4, <1>6, <1>7 DEF PageInv, TypeOK, service
<1> QED
  BY <1>1, <1>6, <1>7, <1>8, <1>9 DEF PageInv, service

-----------------------------------------------------------------------------
(* Writes *)

\* A step of the service and of the writes, which leaves the cache alone.
LEMMA WriteStep ==
  ASSUME PageInv, Grown, UNCHANGED <<open, view, failed, fetch, next, owed>>,
         resends' \in 0..MaxResends, requests' \in Seq(Writes \cup {Done}),
         \A i \in Ids' : RequestOK(i)', pending' \in [Operations -> Ids' \cup {None}]
  PROVE  PageInv'
<1>1. (\A k \in Queries : CacheOK(k)' /\ view[k] <= Latest(k)') /\ FreshAfterWrite'
  BY CacheKept
<1>2. (next # None => Offered(next.to, next.picked))'
  BY OfferedStays DEF PageInv
<1>3. next \in [to : Statuses, picked : 1..Len(history')] \cup {None}
  BY LatestGrows DEF PageInv, TypeOK, Grown
<1>4. TypeOK'
  BY <1>1, <1>3 DEF PageInv, TypeOK, Grown, Versions, Writes
<1>5. history' # <<>>
  BY LatestGrows DEF PageInv
<1> QED
  BY <1>1, <1>2, <1>4, <1>5 DEF PageInv

\* ... and changes one of them.
LEMMA OneWriteStep ==
  ASSUME PageInv, Grown, UNCHANGED <<open, view, failed, fetch, next, owed>>,
         resends' \in 0..MaxResends, NEW i \in Ids, NEW w \in Writes \cup {Done},
         requests' = [requests EXCEPT ![i] = w], RequestOK(i)',
         pending' \in [Operations -> Ids \cup {None}]
  PROVE  PageInv'
<1>1. requests \in Seq(Writes \cup {Done})
  BY DEF PageInv, TypeOK, Writes
<1>2. /\ requests' \in Seq(Writes \cup {Done}) /\ Ids' = Ids /\ requests'[i] = w
      /\ \A o \in Ids \ {i} : requests'[o] = requests[o]
  BY <1>1 DEF Ids
<1>3. \A o \in Ids' : RequestOK(o)'
  BY <1>2, RequestKept
<1> QED
  BY <1>2, <1>3, WriteStep

LEMMA SubmitKeeps ==
  ASSUME PageInv, NEW op, NEW to \in Statuses \cup Assignees \cup {None}, NEW picked \in Nat,
         Submit(op, to, picked), op = "transition" => Offered(to, picked),
         op = "update" => to \in Assignees
  PROVE  PageInv'
<1> DEFINE w == [op |-> op, to |-> to, picked |-> picked, at |-> "sent", rev |-> 0]
<1>1. /\ requests' = Append(requests, w)
      /\ pending' = [pending EXCEPT ![op] = Len(requests) + 1]
      /\ UNCHANGED <<service, open, view, failed, fetch, next, owed, resends>>
      /\ op \in Operations
  BY MenuAssumption DEF Submit, cache
<1>2. w \in Writes /\ requests \in Seq(Writes \cup {Done})
  BY <1>1 DEF PageInv, TypeOK, Writes
<1>3. Grown
  BY <1>1, Unchanged DEF PageInv
<1>4. PICK n \in Nat : n = Len(requests) + 1
  BY <1>2
<1>5. /\ requests' \in Seq(Writes \cup {Done}) /\ Ids' = Ids \cup {n}
      /\ requests'[n] = w /\ \A i \in Ids : requests'[i] = requests[i]
  BY <1>1, <1>2, <1>4 DEF Ids
<1>6. \A i \in Ids' : RequestOK(i)'
  <2>1. op = "transition" => Offered(to, picked)'
    BY <1>3, OfferedStays DEF PageInv
  <2>2. RequestOK(n)'
    BY <1>5, <2>1 DEF RequestOK
  <2>3. \A i \in Ids : RequestOK(i)'
    BY <1>3, <1>5, RequestKept
  <2> QED
    BY <1>5, <2>2, <2>3
<1>7. pending' \in [Operations -> Ids' \cup {None}]
  BY <1>1, <1>4, <1>5 DEF PageInv, TypeOK
<1>8. resends' \in 0..MaxResends
  BY <1>1 DEF PageInv, TypeOK
<1> QED
  BY <1>1, <1>3, <1>5, <1>6, <1>7, <1>8, WriteStep

LEMMA FormsKeep ==
  ASSUME PageInv, Apply \/ Save \/ AddComment
  PROVE  PageInv'
<1>1. CASE Apply
  <2>1. PICK to \in Statuses, picked \in Nat : to = next.to /\ picked = next.picked
    BY <1>1 DEF Apply, PageInv, TypeOK
  <2>2. Submit("transition", to, picked) /\ Offered(to, picked)
    BY <1>1, <2>1 DEF Apply, PageInv
  <2> QED
    BY <2>2, SubmitKeeps
<1>2. CASE Save
  <2>1. PICK a \in Assignees : Submit("update", a, 0)
    BY <1>2 DEF Save
  <2> QED
    BY <2>1, SubmitKeeps
<1>3. CASE AddComment
  BY <1>3, SubmitKeeps DEF AddComment
<1> QED
  BY <1>1, <1>2, <1>3

LEMMA ServeKeeps ==
  ASSUME PageInv, NEW i \in Ids, Serve(i)
  PROVE  PageInv'
<1>1. requests[i] \in Writes /\ RequestOK(i)
  BY WriteTyped DEF Serve, PageInv
<1>2. PICK r \in Writes : r = requests[i]
  BY <1>1
<1>3. PICK refused \in BOOLEAN :
        refused <=> (r.op = "transition" /\ ~CanTransition(ticket.status, r.to))
  OBVIOUS
<1>4. /\ r.at \in {"sent", "abandoned"}
      /\ IF refused THEN UNCHANGED service ELSE Write(r.op, r.to)
      /\ requests' = [requests EXCEPT ![i] =
           CASE r.at = "abandoned" -> Done
             [] r.at = "sent" /\ refused -> [r EXCEPT !.at = "conflict"]
             [] OTHER -> [r EXCEPT !.at = "ok", !.rev = Latest(Changes(r.op)) + 1]]
      /\ UNCHANGED <<open, view, failed, fetch, next, pending, owed, resends>>
  BY <1>2, <1>3 DEF Serve, cache
<1>5. /\ r.op = "transition" => Offered(r.to, r.picked)
      /\ r.op = "update" => r.to \in Assignees
  BY <1>1, <1>2, <1>4 DEF RequestOK
<1>6. /\ Grown
      /\ ~refused => Latest(Changes(r.op))' = Latest(Changes(r.op)) + 1
  <2>1. CASE refused
    BY <1>4, <2>1, Unchanged DEF PageInv
  <2>2. CASE ~refused
    <3>1. r.op \in Operations /\ Write(r.op, r.to)
      BY <1>4, <2>2 DEF Writes
    <3>2. r.op = "transition" => r.to \in Statuses
      BY <1>3, <2>2, AllowedIsStatus
    <3> QED
      BY <1>5, <3>1, <3>2, WriteGrows DEF PageInv
  <2> QED
    BY <2>1, <2>2
<1>7. /\ requests \in Seq(Writes \cup {Done}) /\ resends' \in 0..MaxResends
      /\ pending' \in [Operations -> Ids \cup {None}]
  BY <1>4 DEF PageInv, TypeOK, Writes
<1>8. ASSUME NEW w \in Writes \cup {Done}, requests' = [requests EXCEPT ![i] = w], RequestOK(i)'
      PROVE  PageInv'
  BY <1>4, <1>6, <1>7, <1>8, OneWriteStep
<1>9. CASE r.at = "abandoned"
  <2>1. requests' = [requests EXCEPT ![i] = Done]
    BY <1>4, <1>9
  <2>2. RequestOK(i)'
    BY <1>7, <2>1 DEF RequestOK, Done, Ids
  <2> QED
    BY <1>8, <2>1, <2>2
<1>10. CASE r.at = "sent" /\ refused
  <2> DEFINE w == [r EXCEPT !.at = "conflict"]
  <2>1. requests' = [requests EXCEPT ![i] = w] /\ requests'[i] = w
    BY <1>4, <1>7, <1>10 DEF Ids
  <2>2. /\ w \in Writes /\ w.at = "conflict" /\ w.op = "transition"
        /\ w.to = r.to /\ w.picked = r.picked
    BY <1>3, <1>10 DEF Writes
  <2>3. history' = history /\ Offered(r.to, r.picked)
    BY <1>3, <1>4, <1>5, <1>10 DEF service
  <2>4. Changed(r.picked)
    <3>1. /\ Len(history) \in Nat /\ r.picked \in 1..Len(history)
          /\ history[Len(history)].status # history[r.picked].status
      BY <1>3, <1>6, <1>10, <2>3, LatestGrows DEF Offered, ticket, PageInv
    <3> QED
      BY <3>1 DEF Changed
  <2>5. Offered(r.to, r.picked)' /\ Changed(r.picked)'
    BY <2>3, <2>4 DEF Offered, Changed
  <2>6. RequestOK(i)'
    BY <2>1, <2>2, <2>5 DEF RequestOK
  <2> QED
    BY <1>8, <2>1, <2>2, <2>6
<1>11. CASE r.at = "sent" /\ ~refused
  <2>1. PICK rev : rev = Latest(Changes(r.op)) + 1
    OBVIOUS
  <2> DEFINE w == [r EXCEPT !.at = "ok", !.rev = rev]
  <2>2. requests' = [requests EXCEPT ![i] = w] /\ requests'[i] = w
    BY <1>4, <1>7, <1>11, <2>1 DEF Ids
  <2>3. rev \in Nat
    BY <2>1, LatestIsNat DEF PageInv
  <2>4. /\ w \in Writes /\ w.at = "ok" /\ w.op = r.op /\ w.to = r.to
        /\ w.picked = r.picked /\ w.rev = rev
    BY <2>3 DEF Writes
  <2>5. rev <= Latest(Changes(r.op))'
    BY <1>6, <1>11, <2>1, <2>3
  <2>6. r.op = "transition" => Offered(r.to, r.picked)'
    BY <1>5, <1>6, OfferedStays DEF PageInv
  <2>7. RequestOK(i)'
    BY <1>5, <2>2, <2>4, <2>5, <2>6 DEF RequestOK, Changes
  <2> QED
    BY <1>8, <2>2, <2>4, <2>7
<1> QED
  BY <1>4, <1>9, <1>10, <1>11

LEMMA OthersKeep ==
  ASSUME PageInv, Others
  PROVE  PageInv'
<1>1. PICK op \in OthersMenu, to \in Targets \cup Assignees \cup {None} :
        /\ op = "transition" => CanTransition(ticket.status, to)
        /\ op = "update" => to \in Assignees
        /\ Write(op, to)
  BY DEF Others
<1>2. UNCHANGED <<open, view, failed, fetch, next, requests, pending, owed, resends>>
  BY DEF Others, cache
<1>3. op \in Operations /\ (op = "transition" => to \in Statuses)
  BY <1>1, MenuAssumption, AllowedIsStatus
<1>4. Grown
  BY <1>1, <1>3, WriteGrows DEF PageInv
<1>5. /\ requests' \in Seq(Writes \cup {Done}) /\ resends' \in 0..MaxResends
      /\ pending' \in [Operations -> Ids' \cup {None}] /\ Ids' = Ids
  BY <1>2 DEF PageInv, TypeOK, Writes, Ids
<1>6. \A i \in Ids' : RequestOK(i)'
  BY <1>2, <1>4, <1>5, RequestKept
<1> QED
  BY <1>2, <1>4, <1>5, <1>6, WriteStep

\* Answers that change nothing the page shows.
LEMMA AnswersKeep ==
  ASSUME PageInv, NEW i \in Ids, Resend(i) \/ SettleError(i) \/ Timeout(i)
  PROVE  PageInv'
<1>1. UNCHANGED <<service, open, view, failed, fetch, next, owed>>
  BY DEF Resend, SettleError, Timeout, cache
<1>2. requests[i].at # "done"
  BY DEF Resend, SettleError, Timeout
<1>3. \/ requests' = [requests EXCEPT ![i] = Done]
      \/ \E at \in {"sent", "abandoned"} :
           requests' = [requests EXCEPT ![i] = [requests[i] EXCEPT !.at = at]]
  BY DEF Resend, SettleError, Timeout
<1>4. pending' \in [Operations -> Ids \cup {None}] /\ resends' \in 0..MaxResends
  BY BoundAssumption DEF Resend, SettleError, Timeout, Release, PageInv, TypeOK
<1>5. Grown
  BY <1>1, Unchanged DEF PageInv
<1>6. requests \in Seq(Writes \cup {Done})
  BY DEF PageInv, TypeOK, Writes
<1>7. CASE requests' = [requests EXCEPT ![i] = Done]
  <2>1. RequestOK(i)'
    BY <1>6, <1>7 DEF RequestOK, Done, Ids
  <2> QED
    BY <1>1, <1>4, <1>5, <1>7, <2>1, OneWriteStep
<1>8. ASSUME NEW at \in {"sent", "abandoned"},
             requests' = [requests EXCEPT ![i] = [requests[i] EXCEPT !.at = at]]
      PROVE  PageInv'
  <2>1. PICK w : w = [requests[i] EXCEPT !.at = at]
    OBVIOUS
  <2>2. requests' = [requests EXCEPT ![i] = w] /\ requests'[i] = w
    BY <1>6, <1>8, <2>1 DEF Ids
  <2>3. w \in Writes /\ RequestOK(i)'
    BY <1>2, <1>5, <2>1, <2>2, RequestAgain
  <2> QED
    BY <1>1, <1>4, <1>5, <2>2, <2>3, OneWriteStep
<1> QED
  BY <1>3, <1>7, <1>8

\* What is owed from now on has not been asked for before, or is asked for anew.
LEMMA SettleOwes ==
  ASSUME PageInv, NEW i \in Ids, Settle(i)
  PROVE  /\ owed' \in [Queries -> Nat]
         /\ \A k \in Queries :
              \/ owed'[k] = owed[k]
              \/ /\ owed'[k] <= Latest(k)
                 /\ IF open THEN fetch'[k] = Asked ELSE fetch'[k] = None
<1>1. requests[i].at = "ok" /\ requests[i] \in Writes /\ RequestOK(i)
  BY WriteTyped DEF Settle, PageInv
<1>2. PICK op \in Operations, rev \in Nat : op = requests[i].op /\ rev = requests[i].rev
  BY <1>1 DEF Writes
<1>3. rev <= Latest(Changes(op)) /\ Changes(op) \in Queries /\ Changes(op) \in Invalidates[op]
  BY <1>1, <1>2 DEF RequestOK, Changes, Queries, Invalidates, Operations
<1> DEFINE joined(k) == fetch[k] # None /\ (~open \/ view[k] = 0)
<1>4. /\ fetch' = [k \in Queries |->
           IF open /\ k \in Invalidates[op] /\ ~joined(k) THEN Asked ELSE fetch[k]]
      /\ owed' = [owed EXCEPT ![Changes(op)] =
           IF joined(Changes(op)) \/ rev < @ THEN @ ELSE rev]
  BY <1>2 DEF Settle
<1>5. owed' \in [Queries -> Nat]
  BY <1>4 DEF PageInv, TypeOK
<1>6. ASSUME NEW k \in Queries, owed'[k] # owed[k]
      PROVE  owed'[k] <= Latest(k) /\ IF open THEN fetch'[k] = Asked ELSE fetch'[k] = None
  <2>1. k = Changes(op) /\ ~joined(k) /\ owed'[k] = rev
    BY <1>3, <1>4, <1>6 DEF PageInv, TypeOK
  <2> QED
    BY <1>3, <1>4, <2>1
<1> QED
  BY <1>5, <1>6

LEMMA SettleKeeps ==
  ASSUME PageInv, NEW i \in Ids, Settle(i)
  PROVE  PageInv'
<1>1. UNCHANGED <<service, open, view, failed, resends>>
  BY DEF Settle
<1>2. /\ fetch' \in [Queries -> Nat \cup {None}]
      /\ \A k \in Queries : fetch'[k] \in {Asked, fetch[k]}
  BY DEF Settle, Asked, PageInv, TypeOK
<1>3. next' \in {next, None} /\ pending' \in [Operations -> Ids \cup {None}]
  BY DEF Settle, PageInv, TypeOK
<1>4. requests \in Seq(Writes \cup {Done}) /\ requests' = [requests EXCEPT ![i] = Done]
  BY DEF Settle, PageInv, TypeOK, Writes
<1>5. /\ requests' \in Seq(Writes \cup {Done}) /\ Ids' = Ids /\ requests'[i] = Done
      /\ \A o \in Ids \ {i} : requests'[o] = requests[o]
  BY <1>4 DEF Ids
<1>6. Grown /\ \A k \in Queries : Latest(k)' = Latest(k)
  BY <1>1, Unchanged DEF PageInv
<1>7. \A o \in Ids' : RequestOK(o)'
  <2>1. RequestOK(i)'
    BY <1>5 DEF RequestOK, Done
  <2> QED
    BY <1>5, <1>6, <2>1, RequestKept
<1>8. ASSUME NEW k \in Queries PROVE CacheOK(k)'
  <2>1. CacheOK(k)
    BY DEF PageInv
  <2> QED
    BY <1>1, <1>2, <1>6, <2>1, SettleOwes, NoneAssumption DEF CacheOK, Asked
<1>9. FreshAfterWrite'
  BY <1>1, <1>2, SettleOwes, NoneAssumption DEF FreshAfterWrite, Asked, PageInv
<1>10. (next # None => Offered(next.to, next.picked))'
  <2>1. \A to, picked : Offered(to, picked) => Offered(to, picked)'
    BY <1>6, OfferedStays DEF PageInv
  <2>2. next' # None => next' = next /\ next # None
    BY <1>3
  <2> QED
    BY <2>1, <2>2 DEF PageInv
<1>11. TypeOK'
  BY <1>1, <1>2, <1>3, <1>5, <1>6, SettleOwes DEF PageInv, TypeOK, Writes, service
<1> QED
  BY <1>1, <1>7, <1>8, <1>9, <1>10, <1>11 DEF PageInv, service

-----------------------------------------------------------------------------
(* Theorems *)

LEMMA PageInvInit == Init => PageInv
<1> SUFFICES ASSUME Init
             PROVE  PageInv
  OBVIOUS
<1>1. history = <<[status |-> "new", assignee |-> None]>> /\ Len(history) = 1
  BY DEF Init
<1>2. history \in Seq(Versions)
  BY <1>1 DEF Versions, Statuses
<1>3. \A k : Latest(k) = 1
  BY <1>1 DEF Init, Latest
<1>4. TypeOK
  BY <1>2, <1>3, BoundAssumption DEF Init, TypeOK, Versions, Asked, Ids
<1>5. (\A k \in Queries : CacheOK(k)) /\ FreshAfterWrite
  BY <1>3, NoneAssumption DEF Init, CacheOK, FreshAfterWrite, Asked
<1>6. Ids = {}
  BY DEF Init, Ids
<1> QED
  BY <1>1, <1>4, <1>5, <1>6 DEF PageInv, Init

LEMMA PageInvNext == PageInv /\ [Next]_vars => PageInv'
<1> SUFFICES ASSUME PageInv, [Next]_vars
             PROVE  PageInv'
  OBVIOUS
<1>1. ASSUME NEW k \in Queries, ServeFetch(k) \/ ArriveFetch(k) \/ LoseFetch(k)
      PROVE  PageInv'
  BY <1>1, ServeFetchKeeps, ArriveFetchKeeps, LoseFetchKeeps
<1>2. CASE Leave \/ Return \/ Select
  BY <1>2, LeaveKeeps, ReturnKeeps, SelectKeeps
<1>3. CASE Apply \/ Save \/ AddComment \/ Others
  BY <1>3, FormsKeep, OthersKeep
<1>4. ASSUME NEW i \in Ids,
             Serve(i) \/ Resend(i) \/ Settle(i) \/ SettleError(i) \/ Timeout(i)
      PROVE  PageInv'
  BY <1>4, ServeKeeps, SettleKeeps, AnswersKeep
<1>5. CASE UNCHANGED vars
  <2>1. FormsRelease /\ UNCHANGED <<service, open, view, failed, fetch, requests, owed, resends>>
    BY <1>5 DEF vars, service, FormsRelease, PageInv, TypeOK
  <2>2. \A k \in Queries : Latest(k)' = Latest(k) /\ CacheOK(k)
    BY <2>1, Unchanged DEF PageInv
  <2>3. (\A k \in Queries : CacheOK(k)') /\ FreshAfterWrite'
    BY <2>1, <2>2 DEF CacheOK, FreshAfterWrite, PageInv
  <2> QED
    BY <2>1, <2>3, PageStep DEF PageInv, TypeOK
<1> QED
  BY <1>1, <1>2, <1>3, <1>4, <1>5 DEF Next

\* The inductive invariant holds in every reachable state of the page.
THEOREM PageInvAlways == Spec => []PageInv
<1> QED
  BY PageInvInit, PageInvNext, PTL DEF Spec

\* The page's state is well formed; it never shows what the service has not had.
THEOREM PageTypeCorrect == Spec => []TypeOK
<1>1. PageInv => TypeOK
  BY DEF PageInv
<1> QED
  BY <1>1, PageInvAlways, PTL

\* A page at rest shows its own acknowledged writes (hooks.ts:51-78).
THEOREM ShowsOwnWrites == Spec => []FreshAfterWrite
<1>1. PageInv => FreshAfterWrite
  BY DEF PageInv
<1> QED
  BY <1>1, PageInvAlways, PTL

\* A transition is refused only if the status changed since it was chosen
\* (meta.ts:40, domain.go:40).
THEOREM RefusalsExplained == Spec => []RefusedOnlyIfChanged
<1>1. PageInv => RefusedOnlyIfChanged
  BY DEF PageInv, RequestOK, Changed, RefusedOnlyIfChanged
<1> QED
  BY <1>1, PageInvAlways, PTL

\* What is shown never goes back (hooks.ts:13-49).
THEOREM NeverGoesBack == Spec => ViewsAdvance
<1>1. ASSUME PageInv, [Next]_vars
      PROVE  [\A k \in Queries : view'[k] >= view[k]]_vars
  <2>0. view \in [Queries -> Nat] /\ \A k \in Queries : CacheOK(k)
    BY <1>1 DEF PageInv, TypeOK
  <2>1. ASSUME NEW q \in Queries, ArriveFetch(q)
        PROVE  \A k \in Queries : view'[k] >= view[k]
    <3>1. view' = [view EXCEPT ![q] = fetch[q]] /\ fetch[q] \notin {None, Asked}
      BY <2>1 DEF ArriveFetch
    <3> QED
      BY <2>0, <3>1 DEF CacheOK
  <2>2. \/ view' = view
        \/ \E q \in Queries : ArriveFetch(q)
    <3>1. \A k \in Queries : ServeFetch(k) \/ LoseFetch(k) => view' = view
      BY DEF ServeFetch, LoseFetch
    <3>2. Leave \/ Return \/ Select \/ Others => view' = view
      BY DEF Leave, Return, Select, Others, cache
    <3>3. Apply \/ Save \/ AddComment => view' = view
      BY DEF Apply, Save, AddComment, Submit, cache
    <3>4. \A i \in Ids : Serve(i) \/ Resend(i) \/ Settle(i) \/ SettleError(i) \/ Timeout(i)
                         => view' = view
      BY DEF Serve, Resend, Settle, SettleError, Timeout, cache
    <3> QED
      BY <1>1, <3>1, <3>2, <3>3, <3>4 DEF Next, vars
  <2>3. view' = view => \A k \in Queries : view'[k] >= view[k]
    BY <2>0
  <2> QED
    BY <2>1, <2>2, <2>3
<1> QED
  BY <1>1, PageInvAlways, PTL DEF Spec, ViewsAdvance
=============================================================================
