----------------------------- MODULE MCExecutor -----------------------------
(* Instances of Executor for TLC: see the .cfg files.                       *)
EXTENDS ExecutorProofs, TLC

CONSTANTS w1, w2, own, client, a1, a2, a3

SafetySymmetry == Permutations({w1, w2}) \cup Permutations({a1, a2})
=============================================================================
