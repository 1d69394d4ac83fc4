------------------------------- MODULE MCGcdb -------------------------------
(***************************************************************************)
(* The updater of the controller database on an executor, for TLC.         *)
(***************************************************************************)
EXTENDS GcdbProofs, TLC

CONSTANTS w1, w2, a1, a2

=============================================================================
