---------------------------- MODULE MCAttServer ----------------------------
(***************************************************************************)
(* Small instances of AttServer for TLC.                                   *)
(***************************************************************************)
EXTENDS AttServer, TLC

Symmetry == Permutations(Handles)
=============================================================================
