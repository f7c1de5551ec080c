--------------------------- MODULE MigratorProofs ---------------------------
(***************************************************************************)
(* Theorems about Migrator, for any number of replicas and migrations.     *)
(***************************************************************************)
EXTENDS Migrator, TLAPS

\* In the loop, every version below the current one is applied; the row a
\* transaction holds is that of the next version, one of its image's; a replica that
\* serves has come to the end of its list.
Loop(p) ==
  /\ version[p] >= 1
  /\ pc[p] \in {"starting", "creating"} => version[p] = 1
  /\ pc[p] # "inserted" => insert[p] = None
  /\ pc[p] \in {"checking", "applying"} => version[p] <= Len(ledger) + 1
  /\ pc[p] = "inserted" => insert[p] = version[p] /\ version[p] = Len(ledger) + 1
  /\ pc[p] \in {"applying", "inserted"} => version[p] <= Embedded[p]
  /\ pc[p] = "serving" => Embedded[p] <= Len(ledger)

\* Only one transaction holds the next version's row.
OneHolder ==
  \A p, q \in Replicas : (p # q /\ pc[p] = "inserted") => pc[q] # "inserted"

MigratorInv ==
  /\ TypeOK
  /\ OnceInOrder
  /\ \A p \in Replicas : Loop(p)
  /\ OneHolder

-----------------------------------------------------------------------------
(* The ledger as the set of applied versions *)

\* With the ledger in order, a version is applied when it is within its length
\* (isApplied, migrate.go:71-80).
LEMMA AppliedPrefix ==
  ASSUME TypeOK, OnceInOrder, NEW v \in Nat, v >= 1
  PROVE  isApplied(v) <=> v <= Len(ledger)
<1>1. ledger \in Seq(Nat)
  BY DEF TypeOK
<1>2. Len(ledger) \in Nat
  BY <1>1
<1> QED
  BY <1>1, <1>2 DEF OnceInOrder, isApplied

\* Committing the next version keeps the ledger in order (applyOne,
\* migrate.go:87-102).
LEMMA AppendNext ==
  ASSUME TypeOK, OnceInOrder, NEW v, v = Len(ledger) + 1,
         ledger' = Append(ledger, v)
  PROVE  ledger' \in Seq(Nat) /\ OnceInOrder' /\ Len(ledger') = Len(ledger) + 1
<1>1. ledger \in Seq(Nat) /\ Len(ledger) \in Nat
  BY DEF TypeOK
<1>2. v \in Nat
  BY <1>1
<1>3. ledger' \in Seq(Nat) /\ Len(ledger') = Len(ledger) + 1
  BY <1>1, <1>2
<1>4. ASSUME NEW i \in 1..Len(ledger')
      PROVE  ledger'[i] = i
  <2>1. CASE i = Len(ledger) + 1
    BY <1>1, <1>2, <2>1
  <2>2. CASE i \in 1..Len(ledger)
    BY <1>1, <1>2, <2>2 DEF OnceInOrder
  <2> QED
    BY <1>1, <1>3, <2>1, <2>2
<1> QED
  BY <1>3, <1>4 DEF OnceInOrder

-----------------------------------------------------------------------------
(* The invariant *)

LEMMA MigratorInvInit == Init => MigratorInv
<1> SUFFICES ASSUME Init PROVE MigratorInv
  OBVIOUS
<1>1. ledger = <<>> /\ Len(ledger) = 0
  BY DEF Init
<1>2. TypeOK
  <2>1. /\ ledger \in Seq(Nat)
        /\ tracked \in BOOLEAN
        /\ exits \in 0..MaxExits
    <3>1. ledger \in Seq(Nat)
      BY <1>1
    <3>2. tracked \in BOOLEAN
      BY Zenon DEF Init
    <3>3. exits \in 0..MaxExits
      BY ExitsAssumption DEF Init
    <3> QED
      BY <3>1, <3>2, <3>3
  <2>2. pc \in [Replicas -> Labels]
    BY DEF Init, Labels
  <2>3. version \in [Replicas -> Nat] /\ insert \in [Replicas -> Nat \cup {None}]
    BY DEF Init
  <2> QED
    BY <2>1, <2>2, <2>3 DEF TypeOK
<1>3. OnceInOrder
  BY <1>1 DEF OnceInOrder
<1>4. (\A p \in Replicas : Loop(p)) /\ OneHolder
  BY DEF Init, Loop, OneHolder
<1> QED
  BY <1>2, <1>3, <1>4 DEF MigratorInv

\* The steps that leave the ledger and the rows held alone: they only have to
\* keep the replica's own place in the loop.
LEMMA QuietSteps ==
  ASSUME MigratorInv, NEW p \in Replicas,
         LookForTable(p) \/ CreateTable(p) \/ LoseTable(p) \/ Skip(p) \/ Apply(p)
           \/ Lose(p) \/ Serve(p) \/ Restart(p) \/ Fail(p)
  PROVE  MigratorInv'
<1> USE DEF MigratorInv
<1>1. TypeOK'
  <2> USE DEF TypeOK, Labels
  <2>1. CASE LookForTable(p) \/ CreateTable(p)
    BY <2>1 DEF LookForTable, CreateTable
  <2>2. CASE LoseTable(p) \/ Lose(p)
    BY <2>2 DEF LoseTable, Lose, Exit
  <2>3. CASE Skip(p)
    BY <2>3 DEF Skip
  <2>4. CASE Apply(p)
    BY <2>4 DEF Apply
  <2>5. CASE Serve(p)
    BY <2>5 DEF Serve
  <2>6. CASE Restart(p)
    BY <2>6 DEF Restart
  <2>7. CASE Fail(p)
    BY <2>7, ExitsAssumption DEF Fail, Exit
  <2> QED
    BY <2>1, <2>2, <2>3, <2>4, <2>5, <2>6, <2>7
<1>2. ledger' = ledger /\ OnceInOrder'
  BY DEF OnceInOrder, LookForTable, CreateTable, LoseTable, Skip, Apply, Lose,
         Serve, Restart, Fail
<1>3. ASSUME NEW q \in Replicas PROVE Loop(q)'
  <2>1. Len(ledger) \in Nat /\ version[p] \in Nat /\ version[p] >= 1 /\ Embedded[p] \in Nat
    BY EmbeddedAssumption DEF TypeOK, Loop
  <2>2. isApplied(version[p]) <=> version[p] <= Len(ledger)
    BY <2>1, AppliedPrefix
  <2> USE DEF TypeOK, Labels, Loop
  <2>3. CASE LookForTable(p) \/ CreateTable(p)
    <3>1. pc[p] = "starting" \/ pc[p] = "creating"
      BY <2>3 DEF LookForTable, CreateTable
    <3> QED
      BY <1>2, <2>1, <2>3, <3>1 DEF LookForTable, CreateTable
  <2>4. CASE LoseTable(p) \/ Lose(p) \/ Fail(p)
    <3>1. Exit(p) /\ version' = version
      BY <2>4 DEF LoseTable, Lose, Fail
    <3>2. CASE q = p
      BY <1>2, <3>1, <3>2 DEF Exit
    <3>3. CASE q # p
      BY <1>2, <3>1, <3>3 DEF Exit
    <3> QED
      BY <3>2, <3>3
  <2>5. CASE Skip(p)
    <3>1. /\ pc[p] = "checking" /\ version[p] <= Len(ledger)
          /\ version' = [version EXCEPT ![p] = @ + 1]
          /\ pc' = pc /\ insert' = insert
      BY <2>2, <2>5 DEF Skip
    <3>2. CASE q = p
      BY <1>2, <2>1, <3>1, <3>2
    <3>3. CASE q # p
      BY <1>2, <3>1, <3>3
    <3> QED
      BY <3>2, <3>3
  <2>6. CASE Apply(p)
    BY <1>2, <2>6 DEF Apply
  <2>7. CASE Serve(p)
    BY <1>2, <2>1, <2>7 DEF Serve
  <2>8. CASE Restart(p)
    BY <1>2, <2>8 DEF Restart
  <2> QED
    BY <2>3, <2>4, <2>5, <2>6, <2>7, <2>8
<1>4. OneHolder'
  <2>1. \A q \in Replicas : pc'[q] = "inserted" => pc[q] = "inserted"
    BY DEF TypeOK, LookForTable, CreateTable, LoseTable, Skip, Apply, Lose, Serve,
           Restart, Fail, Exit
  <2> QED
    BY <2>1 DEF OneHolder
<1> QED
  BY <1>1, <1>2, <1>3, <1>4

\* The row that is inserted is the next version's, and nobody else's.
LEMMA InsertStep ==
  ASSUME MigratorInv, NEW p \in Replicas, InsertVersion(p)
  PROVE  MigratorInv'
<1> USE DEF MigratorInv
<1>1. Len(ledger) \in Nat /\ version[p] \in Nat /\ version[p] >= 1
  BY DEF TypeOK, Loop
<1>2. version[p] = Len(ledger) + 1
  BY <1>1, AppliedPrefix DEF InsertVersion, Loop
<1>3. TypeOK'
  BY DEF TypeOK, InsertVersion, Labels
<1>4. ledger' = ledger /\ OnceInOrder'
  BY DEF OnceInOrder, InsertVersion
<1>5. \A q \in Replicas : Loop(q)'
  BY <1>1, <1>2, <1>4 DEF TypeOK, Loop, InsertVersion, Labels
<1>6. \A q \in Replicas \ {p} : pc[q] # "inserted"
  BY <1>2 DEF Loop, InsertVersion
<1>7. OneHolder'
  BY <1>6 DEF OneHolder, InsertVersion, TypeOK
<1> QED
  BY <1>3, <1>4, <1>5, <1>7

\* Both outcomes of a COMMIT the server has applied.
LEMMA CommitStep ==
  ASSUME MigratorInv, NEW p \in Replicas, Commit(p) \/ CommitUnacknowledged(p)
  PROVE  MigratorInv'
<1> USE DEF MigratorInv
<1>1. pc[p] = "inserted" /\ ledger' = Append(ledger, insert[p])
  BY DEF Commit, CommitUnacknowledged
<1>2. insert[p] = Len(ledger) + 1 /\ version[p] = insert[p]
  BY <1>1 DEF Loop
<1>3. ledger' \in Seq(Nat) /\ OnceInOrder' /\ Len(ledger') = Len(ledger) + 1
  BY <1>1, <1>2, AppendNext
<1>4. Len(ledger) \in Nat
  BY DEF TypeOK
<1>5. TypeOK'
  <2>1. CASE Commit(p)
    BY <1>3, <2>1 DEF TypeOK, Commit, Labels
  <2>2. CASE CommitUnacknowledged(p)
    BY <1>3, <2>2, ExitsAssumption DEF TypeOK, CommitUnacknowledged, Exit, Labels
  <2> QED
    BY <2>1, <2>2
<1>6. \A q \in Replicas \ {p} : pc[q] # "inserted" /\ pc'[q] = pc[q]
  BY <1>1 DEF OneHolder, TypeOK, Commit, CommitUnacknowledged, Exit
<1>7. pc'[p] # "inserted"
  BY DEF TypeOK, Commit, CommitUnacknowledged, Exit
<1>8. ASSUME NEW q \in Replicas PROVE Loop(q)'
  <2>1. version[q] \in Nat /\ Embedded[q] \in Nat
    BY EmbeddedAssumption DEF TypeOK
  <2>2. CASE q = p
    BY <1>1, <1>2, <1>3, <1>4, <2>1, <2>2
       DEF TypeOK, Loop, Commit, CommitUnacknowledged, Exit
  <2>3. CASE q # p
    BY <1>3, <1>4, <1>6, <2>1, <2>3
       DEF TypeOK, Loop, Commit, CommitUnacknowledged, Exit
  <2> QED
    BY <2>2, <2>3
<1>9. OneHolder'
  BY <1>6, <1>7 DEF OneHolder
<1> QED
  BY <1>3, <1>5, <1>8, <1>9

LEMMA MigratorInvNext == MigratorInv /\ [Next]_vars => MigratorInv'
<1> SUFFICES ASSUME MigratorInv, [Next]_vars PROVE MigratorInv'
  OBVIOUS
<1>1. CASE UNCHANGED vars
  BY <1>1 DEF MigratorInv, TypeOK, OnceInOrder, Loop, OneHolder, vars
<1>2. CASE Next
  <2> PICK p \in Replicas : Progress(p) \/ CommitUnacknowledged(p) \/ Fail(p)
    BY <1>2 DEF Next
  <2> QED
    BY QuietSteps, InsertStep, CommitStep DEF Progress
<1> QED
  BY <1>1, <1>2

-----------------------------------------------------------------------------
(* Theorems *)

\* The inductive invariant holds in every reachable state of the migrator.
THEOREM MigratorInvAlways == Spec => []MigratorInv
<1> QED
  BY MigratorInvInit, MigratorInvNext, PTL DEF Spec

\* The state is well formed: the ledger holds versions, every replica is at a label
\* of Migrate.
THEOREM MigratorTypeCorrect == Spec => []TypeOK
<1>1. MigratorInv => TypeOK
  BY DEF MigratorInv
<1> QED
  BY <1>1, MigratorInvAlways, PTL

\* Every migration is committed exactly once and in lexical order, for any number
\* of replicas of any mix of images (migrate.go:14-17).
THEOREM MigratedOnceInOrder == Spec => []OnceInOrder
<1>1. MigratorInv => OnceInOrder
  BY DEF MigratorInv
<1> QED
  BY <1>1, MigratorInvAlways, PTL

\* No replica serves before all of its migrations are committed (migrate.go:36-53
\* and the call in cmd/ticketing/main.go:41).
THEOREM ServedMigrated == Spec => []ServesMigrated
<1>1. ASSUME MigratorInv PROVE ServesMigrated
  <2>1. ASSUME NEW p \in Replicas, pc[p] = "serving", NEW v \in 1..Embedded[p]
        PROVE  isApplied(v)
    <3>1. Embedded[p] \in Nat /\ Embedded[p] <= Len(ledger) /\ Len(ledger) \in Nat
      BY <1>1, <2>1, EmbeddedAssumption DEF MigratorInv, Loop, TypeOK
    <3>2. v \in Nat /\ v >= 1 /\ v <= Len(ledger)
      BY <3>1
    <3> QED
      BY <1>1, <3>2, AppliedPrefix DEF MigratorInv
  <2> QED
    BY <2>1 DEF ServesMigrated
<1> QED
  BY <1>1, MigratorInvAlways, PTL

-----------------------------------------------------------------------------
(***************************************************************************)
(* The replicas implement one migrator: a COMMIT the server applies is one *)
(* migration of the schema; to begin and to cease serving are steps of its *)
(* own; every other step of Migrate is none.                               *)
(***************************************************************************)
LEMMA CommitMigrates ==
  ASSUME MigratorInv, NEW p \in Replicas, Commit(p) \/ CommitUnacknowledged(p)
  PROVE  Promise!Migrate(p)
<1>1. pc[p] = "inserted" /\ ledger' = Append(ledger, insert[p])
  BY DEF Commit, CommitUnacknowledged
<1>2. insert[p] = Len(ledger) + 1 /\ insert[p] <= Embedded[p]
  BY <1>1 DEF MigratorInv, Loop
<1>3. Len(ledger) < Embedded[p]
  <2>1. Len(ledger) \in Nat /\ Embedded[p] \in Nat
    BY EmbeddedAssumption DEF MigratorInv, TypeOK
  <2> QED
    BY <1>2, <2>1
<1>4. servingNow' = servingNow /\ p \notin servingNow
  <2>1. /\ pc'[p] # "serving" /\ \A q \in Replicas \ {p} : pc'[q] = pc[q]
    BY DEF MigratorInv, TypeOK, Commit, CommitUnacknowledged, Exit
  <2> QED
    BY <1>1, <2>1 DEF servingNow
<1> QED
  BY <1>1, <1>2, <1>3, <1>4 DEF Promise!Migrate

LEMMA ServeServes ==
  ASSUME MigratorInv, NEW p \in Replicas, Serve(p) PROVE Promise!Serve(p)
<1>1. pc[p] = "checking" /\ version[p] > Embedded[p] /\ ledger' = ledger
      /\ pc' = [pc EXCEPT ![p] = "serving"]
  BY DEF Serve
<1>2. Embedded[p] <= Len(ledger)
  <2>1. version[p] <= Len(ledger) + 1
    BY <1>1 DEF MigratorInv, Loop
  <2>2. Len(ledger) \in Nat /\ Embedded[p] \in Nat /\ version[p] \in Nat
    BY EmbeddedAssumption DEF MigratorInv, TypeOK
  <2> QED
    BY <1>1, <2>1, <2>2
<1>3. p \notin servingNow /\ servingNow' = servingNow \cup {p}
  BY <1>1 DEF servingNow, MigratorInv, TypeOK
<1> QED
  BY <1>1, <1>2, <1>3 DEF Promise!Serve

LEMMA FailStops ==
  ASSUME MigratorInv, NEW p \in Replicas, Fail(p)
  PROVE  Promise!Stop(p) \/ UNCHANGED <<ledger, servingNow>>
<1>1. ledger' = ledger /\ pc' = [pc EXCEPT ![p] = "exited"]
  BY DEF Fail, Exit
<1>2. servingNow' = servingNow \ {p}
  BY <1>1 DEF servingNow, MigratorInv, TypeOK
<1> QED
  BY <1>1, <1>2 DEF Promise!Stop

LEMMA OthersPromiseNothing ==
  ASSUME MigratorInv, NEW p \in Replicas,
         LookForTable(p) \/ CreateTable(p) \/ LoseTable(p) \/ Skip(p) \/ Apply(p)
           \/ InsertVersion(p) \/ Lose(p) \/ Restart(p)
  PROVE  UNCHANGED <<ledger, servingNow>>
<1>1. /\ ledger' = ledger /\ pc[p] # "serving" /\ pc'[p] # "serving"
      /\ \A q \in Replicas \ {p} : pc'[q] = pc[q]
  BY DEF MigratorInv, TypeOK, LookForTable, CreateTable, LoseTable, Skip, Apply, InsertVersion,
         Lose, Restart, Exit
<1> QED
  BY <1>1 DEF servingNow

\* Whatever replicas of whatever images race, lose, fail and restart, the schema is
\* migrated and served as if a single migrator did it (migrate.go:14-17).
THEOREM MigratorImplementsSchema == Spec => ImplementsSchema
<1>1. Init => Promise!Init
  BY DEF Init, Promise!Init, servingNow
<1>2. MigratorInv /\ [Next]_vars => [Promise!Next]_<<ledger, servingNow>>
  <2> SUFFICES ASSUME MigratorInv, [Next]_vars PROVE [Promise!Next]_<<ledger, servingNow>>
    OBVIOUS
  <2>1. CASE UNCHANGED vars
    BY <2>1 DEF vars, servingNow
  <2>2. CASE Next
    <3>1. PICK p \in Replicas : Progress(p) \/ CommitUnacknowledged(p) \/ Fail(p)
      BY <2>2 DEF Next
    <3>2. \/ Promise!Migrate(p) \/ Promise!Serve(p) \/ Promise!Stop(p)
          \/ UNCHANGED <<ledger, servingNow>>
      BY <3>1, CommitMigrates, ServeServes, FailStops, OthersPromiseNothing DEF Progress
    <3> QED
      BY <3>2 DEF Promise!Next
  <2> QED
    BY <2>1, <2>2
<1> QED
  BY <1>1, <1>2, MigratorInvAlways, PTL DEF Spec, ImplementsSchema, Promise!Spec
=============================================================================
