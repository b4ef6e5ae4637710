----------------------------- MODULE MCDeletion -----------------------------
(***************************************************************************)
(* Deletion for TLC: operators who run commands of the restore gate are    *)
(* alike.                                                                  *)
(***************************************************************************)
EXTENDS Deletion, TLC

OperatorSymmetry == Permutations(Operators)
=============================================================================
