--------------------------- MODULE MCGattRuntime ---------------------------
(***************************************************************************)
(* Small instances of GattRuntime for TLC.                                 *)
(***************************************************************************)
EXTENDS GattRuntime, TLC

CONSTANTS h1, h2, a1

Symmetry == Permutations(Handles)
=============================================================================
