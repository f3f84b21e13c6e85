----------------------------- MODULE MCSmartHttp -----------------------------
(* A commit, two on top of it, and ZERO_SHA; or just the one. *)
EXTENDS SmartHttp, TLC

CONSTANTS a, b, x

MCHistory == (a :> {a}) @@ (b :> {a, b}) @@ (x :> {a, x})

MCOne == a :> {a}

Symmetry == Permutations(Pushes) \cup Permutations(RefNames) \cup Permutations({b, x})
=============================================================================
