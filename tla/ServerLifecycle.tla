-------------------------- MODULE ServerLifecycle --------------------------
(***************************************************************************)
(* The life of a ticketing process (services/ticketing/cmd/ticketing,      *)
(* pkg/server): it opens what its handlers use, serves, and stops on a     *)
(* signal or with its listener, closing what it opened while handlers may  *)
(* still be running.                                                       *)
(*                                                                         *)
(* starting opens the Steps in order; serving accepts requests; stopping   *)
(* is in ShutdownWithTimeout; closing has left Run and does the deferred   *)
(* Close of the publisher and then of the pool; exited has returned from   *)
(* main, killed was ended by a signal it does not handle.                  *)
(*                                                                         *)
(* A request r is running, querying (it holds a pooled connection),        *)
(* committed (the connection is given back), replying, and answered; cut   *)
(* when the process ends under it.  Outside src/: fasthttp, which closes   *)
(* its listener and waits for open connections; pgxpool, whose Close waits *)
(* for the connections in use; nats.go, whose Drain works in the           *)
(* background.                                                             *)
(***************************************************************************)
EXTENDS Naturals, Sequences, FiniteSets

CONSTANTS
  Reqs,      \* the requests of a behaviour, each served once
  PoolSize   \* connections of the pool

ASSUME LifecycleAssumption == IsFiniteSet(Reqs) /\ PoolSize \in Nat \ {0}

\* What run does before it serves: the required variables, db.Connect and
\* Migrate, OIDC discovery, events.Connect, and Run's listener.
Steps == <<"config", "pool", "migrations", "verifier", "publisher", "listener">>

VARIABLES
  cfg,      \* the environment, read once: what is configured
  phase,
  todo,     \* the position in Steps to be done next
  err,      \* run returns an error: the exit code is 1
  pool,     \* the pgx pool
  link,     \* the publisher's NATS connection
  flushed,  \* Close has not given up on pending publishes
  req,      \* where each request is
  met,      \* the request has met the closed pool
  event     \* what became of the event of its change

vars == <<cfg, phase, todo, err, pool, link, flushed, req, met, event>>
process == <<cfg, phase, todo, err, pool, link, flushed>>
requests == <<req, met, event>>

Gone == {"exited", "killed"}
InFlight == {"running", "querying", "committed", "replying"}

InUse == {r \in Reqs : req[r] = "querying"}

TypeOK ==
  /\ cfg \in [database : BOOLEAN, issuer : BOOLEAN, nats : BOOLEAN, cert : BOOLEAN, dev : BOOLEAN]
  /\ phase \in {"starting", "serving", "stopping", "closing"} \cup Gone
  /\ todo \in 1..(Len(Steps) + 1)
  /\ err \in BOOLEAN /\ flushed \in BOOLEAN
  /\ pool \in {"none", "open", "closing", "closed"}
  /\ link \in {"none", "open", "draining", "closed"}
  /\ req \in [Reqs -> InFlight \cup {"none", "answered", "cut"}]
  /\ met \in [Reqs -> BOOLEAN]
  /\ event \in [Reqs -> {"none", "queued", "stored", "refused", "late"}]
  /\ Cardinality(InUse) <= PoolSize

Init ==
  /\ cfg \in [database : BOOLEAN, issuer : BOOLEAN, nats : BOOLEAN, cert : BOOLEAN, dev : BOOLEAN]
  /\ phase = "starting" /\ todo = 1 /\ err = FALSE
  /\ pool = "none" /\ link = "none" /\ flushed = TRUE
  /\ req = [r \in Reqs |-> "none"]
  /\ met = [r \in Reqs |-> FALSE]
  /\ event = [r \in Reqs |-> "none"]

-----------------------------------------------------------------------------
(* Starting *)

\* The configuration a step refuses: no database or issuer, and outside dev no
\* certificate (in dev one is made up).
Refused ==
  \/ Steps[todo] = "config" /\ ~(cfg.database /\ cfg.issuer)
  \/ Steps[todo] = "listener" /\ ~cfg.cert /\ ~cfg.dev

\* A step succeeds.  Without NATS_URL there is no publisher to connect.
Start ==
  /\ phase = "starting" /\ ~Refused
  /\ pool' = IF Steps[todo] = "pool" THEN "open" ELSE pool
  /\ link' = IF Steps[todo] = "publisher" /\ cfg.nats THEN "open" ELSE link
  /\ todo' = todo + 1
  /\ phase' = IF Steps[todo] = "listener" THEN "serving" ELSE phase
  /\ UNCHANGED <<cfg, err, flushed, requests>>

\* A step is refused, fails, or takes longer than the startup context allows: run
\* returns, with what was opened so far still to be closed.
StartFails ==
  /\ phase = "starting"
  /\ phase' = "closing" /\ err' = TRUE
  /\ UNCHANGED <<cfg, todo, pool, link, flushed, requests>>

-----------------------------------------------------------------------------
(* Requests *)

Accept(r) ==
  /\ phase = "serving" /\ req[r] = "none"
  /\ req' = [req EXCEPT ![r] = "running"]
  /\ UNCHANGED <<process, met, event>>

\* Mutant: connections are opened beyond the pool's size.
AcquireFresh(r) ==
  /\ req[r] = "running" /\ phase \notin Gone
  /\ pool = "open"
  /\ req' = [req EXCEPT ![r] = "querying"]
  /\ UNCHANGED <<process, met, event>>

\* The handler gets a connection.  A pool being closed has none to give, but says
\* so only when one would be free.
Acquire(r) ==
  /\ req[r] = "running" /\ phase \notin Gone
  /\ Cardinality(InUse) < PoolSize
  /\ req' = [req EXCEPT ![r] = IF pool = "open" THEN "querying" ELSE "replying"]
  /\ met' = [met EXCEPT ![r] = pool # "open"]
  /\ UNCHANGED <<process, event>>

\* The transaction ends: the change is committed, or an error is to be answered.
\* Queries carry no deadline (c.UserContext() is the background context).
Query(r) ==
  /\ req[r] = "querying" /\ phase \notin Gone
  /\ \E next \in {"committed", "replying"} : req' = [req EXCEPT ![r] = next]
  /\ UNCHANGED <<process, met, event>>

\* PublishAsync queues the event; an open connection may refuse it (too many
\* pending), one being drained or closed does.  Either way the call goes on.
Publish(r) ==
  /\ req[r] = "committed" /\ phase \notin Gone
  /\ req' = [req EXCEPT ![r] = "replying"]
  /\ \E e \in CASE link = "open" -> {"queued", "refused"}
                [] link = "draining" -> {"queued", "late"}
                [] link = "closed" -> {"late"}
                [] link = "none" -> {"none"} :
       event' = [event EXCEPT ![r] = e]
  /\ UNCHANGED <<process, met>>

Answer(r) ==
  /\ req[r] = "replying" /\ phase \notin Gone
  /\ req' = [req EXCEPT ![r] = "answered"]
  /\ UNCHANGED <<process, met, event>>

\* JetStream acknowledges the event.  Nobody owes us this: NATS may be down.
Ack(r) ==
  /\ event[r] = "queued" /\ link \in {"open", "draining"} /\ phase \notin Gone
  /\ event' = [event EXCEPT ![r] = "stored"]
  /\ UNCHANGED <<process, req, met>>

-----------------------------------------------------------------------------
(* Stopping *)

\* SIGINT or SIGTERM: Shutdown closes the listener and waits for the requests.
Signal ==
  /\ phase = "serving"
  /\ phase' = "stopping"
  /\ UNCHANGED <<cfg, todo, err, pool, link, flushed, requests>>

\* Mutants: Run does not wait for Shutdown, or only for the handlers, not for what
\* they answer.
ShutdownAtOnce ==
  /\ phase = "stopping"
  /\ phase' = "closing"
  /\ UNCHANGED <<cfg, todo, err, pool, link, flushed, requests>>

ShutdownUnanswered ==
  /\ phase = "stopping"
  /\ \A r \in Reqs : req[r] \notin InFlight \ {"replying"}
  /\ phase' = "closing"
  /\ UNCHANGED <<cfg, todo, err, pool, link, flushed, requests>>

Shutdown ==
  /\ phase = "stopping"
  /\ \A r \in Reqs : req[r] \notin InFlight
  /\ phase' = "closing"
  /\ UNCHANGED <<cfg, todo, err, pool, link, flushed, requests>>

\* SHUTDOWN_TIMEOUT passes with requests still open: Run returns the error.
ShutdownTimeout ==
  /\ phase = "stopping"
  /\ \E r \in Reqs : req[r] \in InFlight
  /\ phase' = "closing" /\ err' = TRUE
  /\ UNCHANGED <<cfg, todo, pool, link, flushed, requests>>

\* The listener dies: Run returns its error and waits for no request.
ListenerFails ==
  /\ phase = "serving"
  /\ phase' = "closing" /\ err' = TRUE
  /\ UNCHANGED <<cfg, todo, pool, link, flushed, requests>>

Pending == \E r \in Reqs : event[r] = "queued"

\* Mutants: Close drains without waiting for the pending publishes; it waits for
\* them however long that takes.
FlushAtOnce ==
  /\ phase = "closing" /\ link = "open"
  /\ link' = "draining"
  /\ UNCHANGED <<cfg, phase, todo, err, pool, flushed, requests>>

FlushTimeoutNever == FALSE /\ UNCHANGED vars

\* NATSPublisher.Close: pending publishes are all acknowledged, or three seconds
\* pass; then the connection starts to drain.
Flush ==
  /\ phase = "closing" /\ link = "open" /\ ~Pending
  /\ link' = "draining"
  /\ UNCHANGED <<cfg, phase, todo, err, pool, flushed, requests>>

FlushTimeout ==
  /\ phase = "closing" /\ link = "open" /\ Pending
  /\ link' = "draining" /\ flushed' = FALSE
  /\ UNCHANGED <<cfg, phase, todo, err, pool, requests>>

\* Drain ends in the background, unless the process is faster.
Drained ==
  /\ link = "draining" /\ phase \notin Gone
  /\ link' = "closed"
  /\ UNCHANGED <<cfg, phase, todo, err, pool, flushed, requests>>

\* pool.Close, after the publisher's: nothing is handed out any more ...
PoolClose ==
  /\ phase = "closing" /\ link # "open" /\ pool = "open"
  /\ pool' = "closing"
  /\ UNCHANGED <<cfg, phase, todo, err, link, flushed, requests>>

\* Mutant: the pool is torn down under its connections.
PoolTornDown ==
  /\ phase = "closing" /\ pool = "closing"
  /\ pool' = "closed"
  /\ UNCHANGED <<cfg, phase, todo, err, link, flushed, requests>>

\* ... and it returns when the connections in use have come back.
PoolClosed ==
  /\ phase = "closing" /\ pool = "closing" /\ InUse = {}
  /\ pool' = "closed"
  /\ UNCHANGED <<cfg, phase, todo, err, link, flushed, requests>>

\* The process is no more, and what it was serving is cut.
End(how) ==
  /\ phase' = how
  /\ req' = [r \in Reqs |-> IF req[r] \in InFlight THEN "cut" ELSE req[r]]
  /\ UNCHANGED <<cfg, todo, err, pool, link, flushed, met, event>>

\* run has returned; Bootstrap ends the process.
Exit ==
  /\ phase = "closing" /\ link # "open" /\ pool \in {"none", "closed"}
  /\ End("exited")

\* A signal that is not handled: any during startup, SIGKILL always.
Kill == phase \notin Gone /\ End("killed")

Serve(r) == Accept(r) \/ Acquire(r) \/ Query(r) \/ Publish(r) \/ Answer(r) \/ Ack(r)

Close == Flush \/ FlushTimeout \/ PoolClose \/ PoolClosed \/ Exit

Next ==
  \/ Start \/ StartFails
  \/ \E r \in Reqs : Serve(r)
  \/ Signal \/ Shutdown \/ ShutdownTimeout \/ ListenerFails
  \/ Close \/ Drained \/ Kill

Spec == Init /\ [][Next]_vars

\* The process's own steps are taken: each startup step is bounded by the startup
\* context, the shutdown and the flush by their timers.
OwnFairness ==
  /\ WF_vars(Start \/ StartFails)
  /\ WF_vars(Shutdown \/ ShutdownTimeout)
  /\ WF_vars(Close)
  /\ \A r \in Reqs : WF_vars(Acquire(r)) /\ WF_vars(Publish(r)) /\ WF_vars(Answer(r))

\* Queries end, as long as PostgreSQL answers.
QueryFairness == \A r \in Reqs : WF_vars(Query(r))

HangSpec == Spec /\ OwnFairness
FairSpec == HangSpec /\ QueryFairness

-----------------------------------------------------------------------------
(* Properties *)

\* Exit code 0 means that every request accepted has been answered: the error of
\* a shutdown that ran out of time, or of the listener, is never lost on the way
\* out of run (server.go:80-87, 29-32).
AnsweredBeforeExit ==
  phase = "exited" /\ ~err => \A r \in Reqs : req[r] \in {"none", "answered"}

\* ... and that no event is left behind, provided the flush had the time it
\* needed: no handler announces a change after Close has begun (events.go:77-84),
\* so what is not refused outright is in the stream.
AnnouncedBeforeExit ==
  phase = "exited" /\ ~err /\ flushed =>
    \A r \in Reqs : event[r] \in {"none", "stored", "refused"}

\* A handler meets the closed pool, or the closed publisher, only when run is
\* returning an error: on a graceful stop what handlers use outlives them
\* (main.go:39, 59 against server.go:86).
ClosedMetOnlyOnError ==
  \A r \in Reqs : met[r] \/ event[r] = "late" => err

\* run does not return under an open transaction, whatever ended the serving: the
\* deferred pool.Close waits for it (main.go:39), so a commit is never cut off by
\* an exit, only by a kill.
NoTransactionCut ==
  [][phase' = "exited" => \A r \in Reqs : req[r] # "querying"]_vars

\* The process is always on the way to serving or to its end: no startup, shutdown,
\* listener failure or unreachable NATS leaves it hanging (server.go:51-54).
ComesToServeOrEnds == []<>(phase \in {"serving"} \cup Gone)

\* "ShutdownTimeout bounds graceful shutdown." (config.go:71): once asked to stop
\* the process ends, whether or not its queries do.
ShutdownBounded == phase = "stopping" ~> phase \in Gone
=============================================================================
