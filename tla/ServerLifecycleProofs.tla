------------------------ MODULE ServerLifecycleProofs ------------------------
(***************************************************************************)
(* Theorems about ServerLifecycle, for any number of requests and any size *)
(* of the pool.                                                            *)
(***************************************************************************)
EXTENDS ServerLifecycle, FiniteSetTheorems, TLAPS

\* What has been opened so far: the pool before anything is served, and nothing
\* is closed before the serving is over.
Opened ==
  /\ phase = "starting" =>
       /\ todo \in 1..6 /\ (todo > 2 => pool = "open") /\ pool \in {"none", "open"}
       /\ \A r \in Reqs : req[r] = "none" /\ event[r] = "none"
  /\ phase \in {"serving", "stopping"} => pool = "open"
  /\ phase \in {"starting", "serving", "stopping"} => link \in {"none", "open"}

\* Who can still hold what: nobody without a pool or after the pool is closed,
\* nobody in a process that is gone, and no event without a publisher.
Held ==
  /\ pool = "none" => \A r \in Reqs : req[r] = "none"
  /\ pool = "closed" => \A r \in Reqs : req[r] # "querying"
  /\ phase \in Gone => \A r \in Reqs : req[r] \notin InFlight
  /\ phase \notin Gone => \A r \in Reqs : req[r] # "cut"
  /\ link = "none" => \A r \in Reqs : event[r] = "none"

\* Without an error nothing is in flight once Run has returned, so what Close has
\* flushed stays flushed.
Orderly ==
  /\ phase = "closing" /\ ~err => \A r \in Reqs : req[r] \notin InFlight
  /\ phase = "closing" /\ ~err /\ flushed /\ link \in {"draining", "closed"} =>
       \A r \in Reqs : event[r] # "queued"

LifeInv ==
  /\ TypeOK /\ Opened /\ Held /\ Orderly
  /\ AnsweredBeforeExit /\ AnnouncedBeforeExit /\ ClosedMetOnlyOnError

-----------------------------------------------------------------------------
(* The pool *)

\* Giving connections back never exceeds the pool.
LEMMA PoolShrinks ==
  ASSUME TypeOK, InUse' \subseteq InUse
  PROVE  Cardinality(InUse') <= PoolSize
<1>1. IsFiniteSet(InUse)
  BY LifecycleAssumption, FS_Subset DEF InUse
<1>2. Cardinality(InUse') <= Cardinality(InUse)
  BY <1>1, FS_Subset
<1>3. /\ Cardinality(InUse) \in Nat /\ Cardinality(InUse') \in Nat
      /\ Cardinality(InUse) <= PoolSize
  BY <1>1, FS_Subset, FS_CardinalityType DEF TypeOK
<1> QED
  BY <1>2, <1>3, LifecycleAssumption

\* Nor does handing one out while fewer than PoolSize are in use.
LEMMA PoolGrows ==
  ASSUME TypeOK, NEW r \in Reqs, InUse' \subseteq InUse \cup {r},
         Cardinality(InUse) < PoolSize
  PROVE  Cardinality(InUse') <= PoolSize
<1>1. IsFiniteSet(InUse)
  BY LifecycleAssumption, FS_Subset DEF InUse
<1>2. IsFiniteSet(InUse \cup {r}) /\ Cardinality(InUse \cup {r}) <= Cardinality(InUse) + 1
  <2>1. Cardinality(InUse) \in Nat
    BY <1>1, FS_CardinalityType
  <2>2. /\ IsFiniteSet(InUse \cup {r})
        /\ Cardinality(InUse \cup {r}) =
             IF r \in InUse THEN Cardinality(InUse) ELSE Cardinality(InUse) + 1
    BY <1>1, FS_AddElement
  <2> QED
    BY <2>1, <2>2
<1>3. Cardinality(InUse') <= Cardinality(InUse \cup {r})
  BY <1>2, FS_Subset
<1>4. /\ Cardinality(InUse) \in Nat /\ Cardinality(InUse') \in Nat
      /\ Cardinality(InUse \cup {r}) \in Nat
  BY <1>1, <1>2, FS_Subset, FS_CardinalityType
<1> QED
  BY <1>2, <1>3, <1>4, LifecycleAssumption

-----------------------------------------------------------------------------
(* The invariant *)

LEMMA LifeInvInit == Init => LifeInv
<1> SUFFICES ASSUME Init PROVE LifeInv
  OBVIOUS
<1>1. Cardinality(InUse) <= PoolSize
  <2>1. InUse = {}
    BY DEF InUse, Init
  <2> QED
    BY <2>1, FS_EmptySet, LifecycleAssumption
<1>2. TypeOK
  <2>1. /\ cfg \in [database : BOOLEAN, issuer : BOOLEAN, nats : BOOLEAN, cert : BOOLEAN, dev : BOOLEAN]
        /\ err \in BOOLEAN /\ flushed \in BOOLEAN
    BY Zenon DEF Init
  <2>2. req \in [Reqs -> InFlight \cup {"none", "answered", "cut"}] /\ met \in [Reqs -> BOOLEAN]
    BY DEF Init
  <2>3. /\ phase \in {"starting", "serving", "stopping", "closing"} \cup Gone
        /\ todo \in 1..(Len(Steps) + 1)
        /\ pool \in {"none", "open", "closing", "closed"}
        /\ link \in {"none", "open", "draining", "closed"}
        /\ event \in [Reqs -> {"none", "queued", "stored", "refused", "late"}]
    BY DEF Init, Steps
  <2> QED
    BY <1>1, <2>1, <2>2, <2>3 DEF TypeOK
<1>3. Opened /\ Held /\ Orderly
  BY DEF Init, Opened, Held, Orderly, Gone, InFlight
<1>4. AnsweredBeforeExit /\ AnnouncedBeforeExit /\ ClosedMetOnlyOnError
  BY DEF Init, AnsweredBeforeExit, AnnouncedBeforeExit, ClosedMetOnlyOnError
<1> QED
  BY <1>2, <1>3, <1>4 DEF LifeInv

\* The steps of startup: nothing is served and nothing can be lost yet.
LEMMA StartSteps ==
  ASSUME LifeInv, Start \/ StartFails
  PROVE  LifeInv'
<1> USE DEF LifeInv
<1>1. /\ phase = "starting" /\ todo \in 1..6
      /\ \A r \in Reqs : req[r] = "none" /\ event[r] = "none"
      /\ req' = req /\ event' = event /\ met' = met /\ flushed' = flushed
  BY DEF Start, StartFails, Opened, requests
<1>2. InUse' \subseteq InUse /\ Cardinality(InUse') <= PoolSize
  BY <1>1, PoolShrinks DEF InUse
<1>3. CASE Start
  <2>1. /\ todo' = todo + 1 /\ cfg' = cfg /\ err' = err
        /\ pool' = IF todo = 2 THEN "open" ELSE pool
        /\ link' \in {link, "open"}
        /\ phase' = IF todo = 6 THEN "serving" ELSE "starting"
    BY <1>1, <1>3 DEF Start, Steps
  <2>2. TypeOK'
    BY <1>1, <1>2, <2>1 DEF TypeOK, Steps, Gone, InFlight
  <2>3. Opened' /\ Held' /\ Orderly'
    BY <1>1, <2>1 DEF Opened, Held, Orderly, TypeOK, Gone, InFlight
  <2>4. AnsweredBeforeExit' /\ AnnouncedBeforeExit' /\ ClosedMetOnlyOnError'
    BY <1>1, <2>1 DEF AnsweredBeforeExit, AnnouncedBeforeExit, ClosedMetOnlyOnError
  <2> QED
    BY <2>2, <2>3, <2>4
<1>4. CASE StartFails
  <2> USE <1>4 DEF StartFails, requests
  <2>1. TypeOK'
    BY <1>2 DEF TypeOK, Gone, InFlight
  <2>2. Opened' /\ Held' /\ Orderly'
    BY <1>1 DEF Opened, Held, Orderly, Gone, InFlight
  <2>3. AnsweredBeforeExit' /\ AnnouncedBeforeExit' /\ ClosedMetOnlyOnError'
    BY <1>1 DEF AnsweredBeforeExit, AnnouncedBeforeExit, ClosedMetOnlyOnError
  <2> QED
    BY <2>1, <2>2, <2>3
<1> QED
  BY <1>3, <1>4

\* The steps of a request.
LEMMA ServeSteps ==
  ASSUME LifeInv, NEW r \in Reqs, Serve(r)
  PROVE  LifeInv'
<1> USE DEF LifeInv
<1>1. /\ phase \notin Gone /\ phase' = phase
      /\ UNCHANGED process
  BY DEF Serve, Accept, Acquire, Query, Publish, Answer, Ack, process, Gone
<1>2. Cardinality(InUse') <= PoolSize
  <2>1. CASE Acquire(r)
    <3>1. InUse' \subseteq InUse \cup {r} /\ Cardinality(InUse) < PoolSize
      BY <2>1 DEF Acquire, InUse, TypeOK
    <3> QED
      BY <3>1, PoolGrows
  <2>2. CASE ~Acquire(r)
    <3>1. InUse' \subseteq InUse
      BY <2>2 DEF Serve, Accept, Query, Publish, Answer, Ack, InUse, TypeOK
    <3> QED
      BY <3>1, PoolShrinks
  <2> QED
    BY <2>1, <2>2
<1>3. TypeOK'
  <2> USE <1>1, <1>2 DEF TypeOK, process, InFlight, Gone
  <2>1. CASE Accept(r)
    BY <2>1 DEF Accept
  <2>2. CASE Acquire(r)
    <3>1. met' \in [Reqs -> BOOLEAN]
      BY <2>2, Zenon DEF Acquire
    <3>2. req' \in [Reqs -> InFlight \cup {"none", "answered", "cut"}] /\ event' = event
      BY <2>2 DEF Acquire
    <3> QED
      BY <3>1, <3>2
  <2>3. CASE Query(r) \/ Answer(r)
    BY <2>3 DEF Query, Answer
  <2>4. CASE Publish(r) \/ Ack(r)
    BY <2>4 DEF Publish, Ack
  <2> QED
    BY <2>1, <2>2, <2>3, <2>4 DEF Serve
<1>4. Opened' /\ Held' /\ Orderly' /\ ClosedMetOnlyOnError'
  <2> USE <1>1 DEF TypeOK, Opened, Held, Orderly, ClosedMetOnlyOnError, process, InFlight, Gone
  <2>1. CASE Accept(r)
    BY <2>1 DEF Accept
  <2>2. CASE Acquire(r)
    BY <2>2 DEF Acquire
  <2>3. CASE Query(r)
    BY <2>3 DEF Query
  <2>4. CASE Publish(r)
    BY <2>4 DEF Publish
  <2>5. CASE Answer(r)
    BY <2>5 DEF Answer
  <2>6. CASE Ack(r)
    BY <2>6 DEF Ack
  <2> QED
    BY <2>1, <2>2, <2>3, <2>4, <2>5, <2>6 DEF Serve
<1>5. AnsweredBeforeExit' /\ AnnouncedBeforeExit'
  BY <1>1 DEF AnsweredBeforeExit, AnnouncedBeforeExit, Gone
<1> QED
  BY <1>3, <1>4, <1>5

\* The steps that end the serving: only Shutdown does so without an error, and it
\* has waited for the requests.
LEMMA StopSteps ==
  ASSUME LifeInv, Signal \/ Shutdown \/ ShutdownTimeout \/ ListenerFails
  PROVE  LifeInv'
<1> USE DEF LifeInv
<1>1. /\ phase \in {"serving", "stopping"} /\ phase' \in {"stopping", "closing"}
      /\ phase' = "closing" => err' \/ \A r \in Reqs : req[r] \notin InFlight
      /\ err' \in BOOLEAN /\ (err => err')
      /\ UNCHANGED <<cfg, todo, pool, link, flushed, req, met, event>>
  BY DEF Signal, Shutdown, ShutdownTimeout, ListenerFails, requests, TypeOK
<1>2. InUse' \subseteq InUse /\ Cardinality(InUse') <= PoolSize
  BY <1>1, PoolShrinks DEF InUse
<1>3. TypeOK'
  BY <1>1, <1>2 DEF TypeOK, Gone, InFlight
<1>4. Opened' /\ Held' /\ Orderly'
  BY <1>1 DEF Opened, Held, Orderly, Gone, InFlight
<1>5. AnsweredBeforeExit' /\ AnnouncedBeforeExit' /\ ClosedMetOnlyOnError'
  BY <1>1 DEF AnsweredBeforeExit, AnnouncedBeforeExit, ClosedMetOnlyOnError, TypeOK
<1> QED
  BY <1>3, <1>4, <1>5

\* The deferred Closes, and the drain that goes on behind them.
LEMMA CloseSteps ==
  ASSUME LifeInv, Flush \/ FlushTimeout \/ Drained \/ PoolClose \/ PoolClosed
  PROVE  LifeInv'
<1> USE DEF LifeInv
<1>1. /\ phase \notin Gone
      /\ UNCHANGED <<cfg, phase, todo, err, req, met, event>>
  BY DEF Flush, FlushTimeout, Drained, PoolClose, PoolClosed, requests, Gone
<1>2. InUse' \subseteq InUse /\ Cardinality(InUse') <= PoolSize
  BY <1>1, PoolShrinks DEF InUse
<1>3. TypeOK'
  <2>1. flushed' \in BOOLEAN /\ link' \in {link, "draining", "closed"}
    BY DEF Flush, FlushTimeout, Drained, PoolClose, PoolClosed, TypeOK
  <2>2. pool' \in {pool, "closing", "closed"}
    BY DEF Flush, FlushTimeout, Drained, PoolClose, PoolClosed
  <2> QED
    BY <1>1, <1>2, <2>1, <2>2 DEF TypeOK
<1>4. Opened' /\ Held' /\ Orderly'
  <2> USE <1>1 DEF TypeOK, Opened, Held, Orderly, Gone, InFlight
  <2>1. CASE Flush
    BY <2>1 DEF Flush, Pending
  <2>2. CASE FlushTimeout
    BY <2>2 DEF FlushTimeout
  <2>3. CASE Drained
    BY <2>3 DEF Drained
  <2>4. CASE PoolClose
    BY <2>4 DEF PoolClose
  <2>5. CASE PoolClosed
    BY <2>5 DEF PoolClosed, InUse
  <2> QED
    BY <2>1, <2>2, <2>3, <2>4, <2>5
<1>5. AnsweredBeforeExit' /\ AnnouncedBeforeExit' /\ ClosedMetOnlyOnError'
  BY <1>1 DEF AnsweredBeforeExit, AnnouncedBeforeExit, ClosedMetOnlyOnError, Gone
<1> QED
  BY <1>3, <1>4, <1>5

\* The end of the process: by Exit the closing has done its work.
LEMMA EndSteps ==
  ASSUME LifeInv, Exit \/ Kill
  PROVE  LifeInv'
<1> USE DEF LifeInv
<1>1. /\ phase \notin Gone /\ phase' \in Gone
      /\ req' = [r \in Reqs |-> IF req[r] \in InFlight THEN "cut" ELSE req[r]]
      /\ UNCHANGED <<cfg, todo, err, pool, link, flushed, met, event>>
  BY DEF Exit, Kill, End, Gone
<1>2. phase' = "exited" => phase = "closing" /\ link # "open"
  BY DEF Exit, Kill, End
<1>3. Cardinality(InUse') <= PoolSize
  <2>1. InUse' \subseteq InUse
    BY <1>1 DEF InUse, InFlight
  <2> QED
    BY <2>1, PoolShrinks
<1>4. TypeOK'
  BY <1>1, <1>3 DEF TypeOK, Gone, InFlight
<1>5. Opened' /\ Held' /\ Orderly'
  BY <1>1 DEF TypeOK, Opened, Held, Orderly, Gone, InFlight
<1>6. AnsweredBeforeExit'
  BY <1>1, <1>2 DEF TypeOK, Held, Orderly, AnsweredBeforeExit, InFlight
<1>7. AnnouncedBeforeExit'
  BY <1>1, <1>2 DEF TypeOK, Held, Orderly, AnnouncedBeforeExit, ClosedMetOnlyOnError
<1>8. ClosedMetOnlyOnError'
  BY <1>1 DEF ClosedMetOnlyOnError
<1> QED
  BY <1>4, <1>5, <1>6, <1>7, <1>8

LEMMA LifeInvNext == LifeInv /\ [Next]_vars => LifeInv'
<1> SUFFICES ASSUME LifeInv, [Next]_vars PROVE LifeInv'
  OBVIOUS
<1>1. CASE UNCHANGED vars
  BY <1>1 DEF LifeInv, TypeOK, InUse, Opened, Held, Orderly, AnsweredBeforeExit,
              AnnouncedBeforeExit, ClosedMetOnlyOnError, vars
<1>2. CASE Next
  BY <1>2, StartSteps, ServeSteps, StopSteps, CloseSteps, EndSteps DEF Next, Close
<1> QED
  BY <1>1, <1>2

-----------------------------------------------------------------------------
(* Theorems *)

\* The inductive invariant holds in every reachable state of the process.
THEOREM LifeInvAlways == Spec => []LifeInv
<1> QED
  BY LifeInvInit, LifeInvNext, PTL DEF Spec

\* The process's state is well formed, and no more connections are in use than
\* the pool has (main.go:35).
THEOREM LifeTypeCorrect == Spec => []TypeOK
<1>1. LifeInv => TypeOK
  BY DEF LifeInv
<1> QED
  BY <1>1, LifeInvAlways, PTL

\* Exit code 0 means that every accepted request was answered (server.go:86).
THEOREM AnsweredAtExit == Spec => []AnsweredBeforeExit
<1>1. LifeInv => AnsweredBeforeExit
  BY DEF LifeInv
<1> QED
  BY <1>1, LifeInvAlways, PTL

\* ... and, if the flush was not cut short, that every event was announced
\* (events.go:77-84).
THEOREM AnnouncedAtExit == Spec => []AnnouncedBeforeExit
<1>1. LifeInv => AnnouncedBeforeExit
  BY DEF LifeInv
<1> QED
  BY <1>1, LifeInvAlways, PTL

\* What the handlers use outlives them on every graceful stop (main.go:39, 59).
THEOREM ClosedMetOnError == Spec => []ClosedMetOnlyOnError
<1>1. LifeInv => ClosedMetOnlyOnError
  BY DEF LifeInv
<1> QED
  BY <1>1, LifeInvAlways, PTL

\* No exit cuts a transaction off (main.go:39).
THEOREM TransactionsFinish == Spec => NoTransactionCut
<1>1. ASSUME LifeInv, LifeInv', [Next]_vars
      PROVE  [phase' = "exited" => \A r \in Reqs : req[r] # "querying"]_vars
  <2>1. CASE phase = "exited"
    BY <1>1, <2>1 DEF LifeInv, Held, Gone, InFlight
  <2>2. CASE phase # "exited" /\ phase' = "exited"
    <3>1. Exit
      BY <1>1, <2>2 DEF Next, Start, StartFails, Serve, Accept, Acquire, Query, Publish,
           Answer, Ack, Signal, Shutdown, ShutdownTimeout, ListenerFails, Close, Flush,
           FlushTimeout, Drained, PoolClose, PoolClosed, Kill, End, vars, process
    <3> QED
      BY <1>1, <3>1 DEF Exit, LifeInv, Held
  <2>3. CASE phase' # "exited"
    BY <2>3
  <2> QED
    BY <2>1, <2>2, <2>3
<1> QED
  BY <1>1, LifeInvAlways, PTL DEF Spec, NoTransactionCut
=============================================================================
