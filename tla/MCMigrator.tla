----------------------------- MODULE MCMigrator -----------------------------
(***************************************************************************)
(* Instances of Migrator for TLC: a rollout, two replicas of the new image *)
(* beside one of the old.                                                  *)
(***************************************************************************)
EXTENDS Migrator, TLC

CONSTANTS new1, new2, old

Rollout == (new1 :> 3) @@ (new2 :> 3) @@ (old :> 1)
=============================================================================
