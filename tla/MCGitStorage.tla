----------------------------- MODULE MCGitStorage -----------------------------
(***************************************************************************)
(* The contract on small sets: an owner and a stranger, two refs, two      *)
(* shas, every push of at most two updates, and indices that run out.      *)
(***************************************************************************)
EXTENDS GitStorage

CONSTANTS alice, factory, main, dev, s1, s2, p1, p2

MCAccounts == {alice, factory}
MCRefNames == {main, dev}
MCShas == {s1, s2}
MCPacks == {p1, p2}

MCUpdates == [name: MCRefNames, old: MCShas \cup {NoSha}, new: MCShas]

MCPairs == {<<u, v>> : u \in MCUpdates, v \in MCUpdates}

Receipt(method, signer, caller, pack, ups) ==
    [method |-> method, signer |-> signer, caller |-> caller,
     pack |-> pack, ups |-> ups]

\* alice creates the repository through the factory and pushes to it; the
\* factory, a stranger to every other method, pushes one update.
MCCalls ==
    {Receipt("new", alice, factory, NoPack, << >>)}
    \cup {Receipt("push", alice, alice, pack, ups) :
              pack \in MCPacks \cup {NoPack},
              ups \in {<< >>} \cup {<<u>> : u \in MCUpdates}}
    \cup {Receipt("push", alice, alice, p1, ups) : ups \in MCPairs}
    \cup {Receipt("push", alice, factory, p1, <<u>>) : u \in MCUpdates}
    \cup {Receipt(method, alice, caller, NoPack, << >>) :
              method \in {"clear_storage", "self_delete"}, caller \in MCAccounts}
=============================================================================
