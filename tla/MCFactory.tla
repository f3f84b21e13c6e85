----------------------------- MODULE MCFactory -----------------------------
EXTENDS Factory, TLC

Symmetry == Permutations(Calls)
=============================================================================
