----------------------------- MODULE MCRestore -----------------------------
(***************************************************************************)
(* TLC instances of Restore; the configurations choose how many calls stop *)
(* and how many validations are interrupted.                               *)
(***************************************************************************)
EXTENDS Restore
=============================================================================
