------------------------------- MODULE Schema -------------------------------
(***************************************************************************)
(* What Migrate of pkg/db promises a service's replicas, without their     *)
(* loops, transactions, races, failures or restarts: one schema, moved     *)
(* forward by whole migrations, and served by those it is ready for.       *)
(***************************************************************************)
EXTENDS Naturals, Sequences

CONSTANTS Replicas, Embedded

VARIABLES
  schema,  \* the migrations it has been through, in order
  serving  \* the replicas that serve from it

Init == schema = <<>> /\ serving = {}

\* The next migration of an image that has it, while its replica does not serve.
Migrate(p) ==
  /\ p \notin serving /\ Len(schema) < Embedded[p]
  /\ schema' = Append(schema, Len(schema) + 1)
  /\ UNCHANGED serving

\* A replica serves once the schema has all of its image's migrations.
Serve(p) ==
  /\ p \notin serving /\ Embedded[p] <= Len(schema)
  /\ serving' = serving \cup {p}
  /\ UNCHANGED schema

\* It goes, and takes nothing back.
Stop(p) ==
  /\ p \in serving
  /\ serving' = serving \ {p}
  /\ UNCHANGED schema

Next == \E p \in Replicas : Migrate(p) \/ Serve(p) \/ Stop(p)

Spec == Init /\ [][Next]_<<schema, serving>>
=============================================================================
