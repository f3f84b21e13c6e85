---------------------------- MODULE MCRemoteHelper ----------------------------
(* Two clones, two or three commits, one or two refs. *)
EXTENDS RemoteHelper, SequencesExt

CONSTANTS c1, c2, a, b, x, main, dev

\* Imported, without a word on order, is what a loop over the packs leaves.
IndexPack(have, pack) == IF pack.base \in have \cup {NoSha} THEN have \cup pack.objs ELSE have

ASSUME IndexedInTurn ==
    \A have \in SUBSET {a, b} : \A packs \in SeqOf([objs: SUBSET {a, b}, base: {a, b, NoSha}], 3) :
        Indexed(have, packs) = FoldLeft(IndexPack, have, packs)

\* The properties of the race say nothing of what follows a blind push.
Sighted == ~blind

Symmetry == Permutations(Shas) \cup Permutations(RefNames) \cup Permutations(Clones)
=============================================================================
