---------------------------- MODULE MCMigrations ----------------------------
(***************************************************************************)
(* Migrations for TLC: two operators.                                      *)
(***************************************************************************)
EXTENDS Migrations, TLC

CONSTANTS op1, op2

Symmetry == Permutations({op1, op2})
=============================================================================
