------------------------------ MODULE Migrator ------------------------------
(***************************************************************************)
(* Migrate of pkg/db, run by every replica of a service before it serves:  *)
(* replicas that start together race on one schema_migrations table, each  *)
(* with the migrations embedded in its own image.                          *)
(*                                                                         *)
(* Migrations are numbered in lexical order of their file names.  A        *)
(* replica p embeds 1..Embedded[p]: while a release is rolled out, old and *)
(* new images run side by side.                                            *)
(***************************************************************************)
EXTENDS Naturals, Sequences, FiniteSets

CONSTANTS
  Replicas,   \* the processes
  Embedded,   \* replica -> number of migrations in its image
  MaxExits,   \* bound on the exits for reasons of their own
  None        \* no transaction

ASSUME EmbeddedAssumption == Embedded \in [Replicas -> Nat]
ASSUME ExitsAssumption == MaxExits \in Nat
ASSUME NoneAssumption == None \notin Nat

VARIABLES
  tracked,  \* the schema and its schema_migrations table are there
  ledger,   \* committed migration bodies, in order: one version row each
  pc,       \* where each replica is
  version,  \* the migration its loop is at
  insert,   \* the version row its open transaction holds, or None
  exits     \* exits so far

vars == <<tracked, ledger, pc, version, insert, exits>>

Labels == {"starting", "creating", "checking", "applying", "inserted", "serving", "exited"}

TypeOK ==
  /\ tracked \in BOOLEAN
  /\ ledger \in Seq(Nat)
  /\ pc \in [Replicas -> Labels]
  /\ version \in [Replicas -> Nat]
  /\ insert \in [Replicas -> Nat \cup {None}]
  /\ exits \in 0..MaxExits

\* SELECT EXISTS ... WHERE version = $1 on the committed table.
isApplied(v) == \E i \in 1..Len(ledger) : ledger[i] = v

-----------------------------------------------------------------------------
(* One replica *)

Init ==
  /\ tracked = FALSE
  /\ ledger = <<>>
  /\ pc = [p \in Replicas |-> "starting"]
  /\ version = [p \in Replicas |-> 1]
  /\ insert = [p \in Replicas |-> None]
  /\ exits = 0

\* Migrate returns an error: run returns it, Bootstrap exits, and the server
\* rolls back what the connection had open.
Exit(p) ==
  /\ pc' = [pc EXCEPT ![p] = "exited"]
  /\ insert' = [insert EXCEPT ![p] = None]

\* CREATE SCHEMA and CREATE TABLE IF NOT EXISTS: they look first, ...
LookForTable(p) ==
  /\ pc[p] = "starting"
  /\ pc' = [pc EXCEPT ![p] = IF tracked THEN "checking" ELSE "creating"]
  /\ UNCHANGED <<tracked, ledger, version, insert, exits>>

CreateTable(p) ==
  /\ pc[p] = "creating" /\ ~tracked
  /\ tracked' = TRUE
  /\ pc' = [pc EXCEPT ![p] = "checking"]
  /\ UNCHANGED <<ledger, version, insert, exits>>

\* ... and fail if another replica has created the same since.
LoseTable(p) ==
  /\ pc[p] = "creating" /\ tracked
  /\ Exit(p)
  /\ UNCHANGED <<tracked, ledger, version, exits>>

\* The loop over sqlVersions: an applied version is skipped, ...
Skip(p) ==
  /\ pc[p] = "checking" /\ version[p] <= Embedded[p]
  /\ isApplied(version[p])
  /\ version' = [version EXCEPT ![p] = @ + 1]
  /\ UNCHANGED <<tracked, ledger, pc, insert, exits>>

\* ... one that is not is run: BEGIN and the statements of the file.
Apply(p) ==
  /\ pc[p] = "checking" /\ version[p] <= Embedded[p]
  /\ ~isApplied(version[p])
  /\ pc' = [pc EXCEPT ![p] = "applying"]
  /\ UNCHANGED <<tracked, ledger, version, insert, exits>>

\* Mutant: INSERT ... ON CONFLICT DO NOTHING.
InsertVersionTolerant(p) ==
  LET v == version[p] IN
  /\ pc[p] = "applying"
  /\ \A q \in Replicas \ {p} : insert[q] # v
  /\ insert' = [insert EXCEPT ![p] = v]
  /\ pc' = [pc EXCEPT ![p] = "inserted"]
  /\ UNCHANGED <<tracked, ledger, version, exits>>

\* INSERT of the version row: the primary key makes it wait for another open
\* transaction that holds the row, and refuses it once the row is committed.
InsertVersion(p) ==
  LET v == version[p] IN
  /\ pc[p] = "applying"
  /\ \A q \in Replicas \ {p} : insert[q] # v
  /\ ~isApplied(v)
  /\ insert' = [insert EXCEPT ![p] = v]
  /\ pc' = [pc EXCEPT ![p] = "inserted"]
  /\ UNCHANGED <<tracked, ledger, version, exits>>

\* Mutant: the migration is tried again without looking whether it is applied.
LoseRetrying(p) ==
  /\ pc[p] = "applying" /\ isApplied(version[p])
  /\ UNCHANGED vars

\* The race is lost: a statement of the body, or the INSERT, meets what another
\* replica has committed since isApplied, and the replica exits.
Lose(p) ==
  /\ pc[p] = "applying" /\ isApplied(version[p])
  /\ Exit(p)
  /\ UNCHANGED <<tracked, ledger, version, exits>>

\* Mutant: the whole rest of the image's migrations in one transaction.
CommitBatch(p) ==
  /\ pc[p] = "inserted"
  /\ ledger' = ledger \o [i \in 1..(Embedded[p] - Len(ledger)) |-> Len(ledger) + i]
  /\ insert' = [insert EXCEPT ![p] = None]
  /\ version' = [version EXCEPT ![p] = @ + 1]
  /\ pc' = [pc EXCEPT ![p] = "checking"]
  /\ UNCHANGED <<tracked, exits>>

\* Mutant: the row is let go before the commit.
CommitReleased(p) ==
  /\ pc[p] = "inserted"
  /\ insert' = [insert EXCEPT ![p] = None]
  /\ ledger' = Append(ledger, insert'[p])
  /\ version' = [version EXCEPT ![p] = @ + 1]
  /\ pc' = [pc EXCEPT ![p] = "checking"]
  /\ UNCHANGED <<tracked, exits>>

\* COMMIT: body and version row at once; the loop goes on.
Commit(p) ==
  /\ pc[p] = "inserted"
  /\ ledger' = Append(ledger, insert[p])
  /\ insert' = [insert EXCEPT ![p] = None]
  /\ version' = [version EXCEPT ![p] = @ + 1]
  /\ pc' = [pc EXCEPT ![p] = "checking"]
  /\ UNCHANGED <<tracked, exits>>

\* COMMIT is applied and its answer lost: the replica exits all the same.
CommitUnacknowledged(p) ==
  /\ pc[p] = "inserted" /\ exits < MaxExits
  /\ ledger' = Append(ledger, insert[p])
  /\ Exit(p)
  /\ exits' = exits + 1
  /\ UNCHANGED <<tracked, version>>

\* Mutant: a failed migration is skipped.
FailSkipping(p) ==
  /\ exits < MaxExits
  /\ IF pc[p] = "inserted"
     THEN /\ version' = [version EXCEPT ![p] = @ + 1]
          /\ pc' = [pc EXCEPT ![p] = "checking"]
          /\ insert' = [insert EXCEPT ![p] = None]
     ELSE Exit(p) /\ UNCHANGED version
  /\ exits' = exits + 1
  /\ UNCHANGED <<tracked, ledger>>

\* A statement fails, the 30 seconds of startup pass, or the process dies, also
\* when it is serving.
Fail(p) ==
  /\ pc[p] # "exited" /\ exits < MaxExits
  /\ Exit(p)
  /\ exits' = exits + 1
  /\ UNCHANGED <<tracked, ledger, version>>

\* The loop is done: Migrate returns nil and the service goes on to listen.
Serve(p) ==
  /\ pc[p] = "checking" /\ version[p] > Embedded[p]
  /\ pc' = [pc EXCEPT ![p] = "serving"]
  /\ UNCHANGED <<tracked, ledger, version, insert, exits>>

\* The platform starts an exited replica again, from the first migration.
Restart(p) ==
  /\ pc[p] = "exited"
  /\ pc' = [pc EXCEPT ![p] = "starting"]
  /\ version' = [version EXCEPT ![p] = 1]
  /\ UNCHANGED <<tracked, ledger, insert, exits>>

Progress(p) ==
  \/ LookForTable(p) \/ CreateTable(p) \/ LoseTable(p) \/ Skip(p) \/ Apply(p) \/ InsertVersion(p) \/ Lose(p)
  \/ Commit(p) \/ Serve(p) \/ Restart(p)

Next == \E p \in Replicas : Progress(p) \/ CommitUnacknowledged(p) \/ Fail(p)

Spec == Init /\ [][Next]_vars

\* Statements end, waits for the row of a transaction that ends are served, and
\* exited replicas are restarted.
FairSpec == Spec /\ \A p \in Replicas : WF_vars(Progress(p))

-----------------------------------------------------------------------------
(* Properties *)

\* "applies every *.sql file in lexical order, exactly once" (migrate.go:14-15),
\* whatever replicas race, lose, fail in the middle or embed: the committed
\* migrations are 1, 2, 3 ... without a gap, a repetition or a swap.
OnceInOrder == \A i \in 1..Len(ledger) : ledger[i] = i

\* A replica that serves has the whole schema its image was built for.
ServesMigrated ==
  \A p \in Replicas : pc[p] = "serving" => \A v \in 1..Embedded[p] : isApplied(v)

\* A lost race costs an exit, never the service: every replica comes to serve
\* once failures stop.
AllServe == \A p \in Replicas : <>[](pc[p] = "serving")

\* Seen from the schema, the replicas that race, fail and restart are one migrator:
\* it goes forward one whole migration at a time, at most as far as an image that
\* starts has them, and never back (migrate.go:14-17).
servingNow == {p \in Replicas : pc[p] = "serving"}

Promise == INSTANCE Schema WITH schema <- ledger, serving <- servingNow

ImplementsSchema == Promise!Spec
=============================================================================
