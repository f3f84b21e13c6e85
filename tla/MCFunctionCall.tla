---------------------------- MODULE MCFunctionCall ----------------------------
(* Calls are interchangeable. *)
EXTENDS FunctionCall, TLC

Symmetry == Permutations(Calls)
=============================================================================
