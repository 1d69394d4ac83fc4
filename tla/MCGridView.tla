----------------------------- MODULE MCGridView -----------------------------
(* Instances of GridView for TLC.                                           *)
EXTENDS GridView
=============================================================================
