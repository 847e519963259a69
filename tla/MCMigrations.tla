---------------------------- MODULE MCMigrations ----------------------------
(***************************************************************************)
(* A small instance of Migrations for TLC: two seeded orders, one without  *)
(* an executor, room for two more, and three ids for technicians of two    *)
(* names, one of them known to migration 00003, the other one not.         *)
(***************************************************************************)
EXTENDS Migrations, TLC

CONSTANTS ivanov, petrov

MCNames == {ivanov, petrov}
MCKnown == {ivanov}
MCSeedExecutor == 1 :> petrov @@ 2 :> Nobody
=============================================================================
