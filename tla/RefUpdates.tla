------------------------------ MODULE RefUpdates ------------------------------
(***************************************************************************)
(* Ref updates with compare-and-swap, and what a list of them does: shared *)
(* by the contract and by the clients that call it.                        *)
(***************************************************************************)
EXTENDS Integers, Sequences

CONSTANTS
    RefNames,   \* names such as refs/heads/main
    Shas,       \* what a ref may hold: the contract does not look inside
    NoSha       \* None, as old_sha, and the value of a name refs does not hold

Updates == [name: RefNames, old: Shas \cup {NoSha}, new: Shas]

RefMap == [RefNames -> Shas \cup {NoSha}]

NoRefs == [name \in RefNames |-> NoSha]

\* The updates among the first n that write name.
Writes(ups, n, name) == {j \in 1..n : ups[j].name = name}

LastWrite(ups, n, name) ==
    CHOOSE j \in Writes(ups, n, name) : \A k \in Writes(ups, n, name) : k <= j

\* What the refs r are once the first n updates are applied: of the updates
\* to one name the last one counts.
RefsAfter(r, ups, n) ==
    [name \in RefNames |->
        IF Writes(ups, n, name) = {}
        THEN r[name]
        ELSE ups[LastWrite(ups, n, name)].new]

\* Each of the first n updates expects what the updates before it leave.
Accepted(r, ups, n) ==
    \A k \in 1..n : ups[k].old = RefsAfter(r, ups, k - 1)[ups[k].name]
=============================================================================
