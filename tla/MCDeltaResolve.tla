---------------------------- MODULE MCDeltaResolve ----------------------------
(* Every list of two packs with at most one object and two deltas each. *)
EXTENDS DeltaResolve, FiniteSets, TLC

Few(S, n) == {T \in SUBSET S : Cardinality(T) <= n}

MCPacks ==
    {[parses |-> TRUE, objects |-> os, deltas |-> ds] :
        os \in Few(Objects, 1), ds \in Few([base: Objects, result: Objects], 2)}
    \cup {[parses |-> TRUE, objects |-> Objects \ {o},
           deltas |-> {[base |-> p, result |-> Corrupt]}] : o, p \in Objects}
    \cup {[parses |-> FALSE, objects |-> Objects, deltas |-> {}]}

MCInputs == {<<p, q>> : p, q \in MCPacks}

Symmetry == Permutations(Objects)
=============================================================================
