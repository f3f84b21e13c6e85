------------------------------ MODULE GitStorage ------------------------------
(***************************************************************************)
(* The repository contract, src/lib.rs, executed step by step.             *)
(*                                                                         *)
(* The chain runs one receipt at a time.  Receive loads the contract's     *)
(* state from the trie into self (refs, packs, pack_count); the method     *)
(* then works on self, one iteration of a loop a step; Return writes self  *)
(* back.  A panic, or the end of the gas, abandons self and leaves the     *)
(* trie as the receipt found it.  View calls read the trie.                *)
(***************************************************************************)
EXTENDS Integers, Sequences, FiniteSets

CONSTANTS
    Accounts, RefNames, Shas, Packs, NoSha, NoPack, NoOwner, NoCall, Calls,
    MaxU32,
    MaxDeletes  \* bound: delete_account receipts that wait at one time

VARIABLES
    trie,       \* the committed state: owner, refs, packs, pack_count
    refs,       \* self.refs, an IterableMap
    packs,      \* self.packs, a LookupMap over u32
    pack_count, \* self.pack_count
    call,       \* the receipt being executed, NoCall between two
    answer,     \* "pending" while it runs, then its outcome
    pc,         \* where in the method it is
    i,          \* the loop counter of that method
    ref_keys,   \* clear_storage: the collected keys still to be removed
    deletes     \* delete_account receipts sent by self_delete, not yet executed

self == <<refs, packs, pack_count>>
vars == <<trie, refs, packs, pack_count, call, answer, pc, i, ref_keys, deletes>>

U32 == 0 .. MaxU32

\* The log as GitRepo sees it: packs 0 .. pack_count - 1.
Log(packMap, count) == [n \in 1..count |-> packMap[n - 1]]

Repo == INSTANCE GitRepo WITH
    owner <- trie.owner,
    refs <- trie.refs,
    log <- Log(trie.packs, trie.pack_count)

ASSUME Constants ==
    /\ NoSha \notin Shas
    /\ NoPack \notin Packs
    /\ NoOwner \notin Accounts
    /\ NoCall \notin Calls
    /\ MaxU32 \in Nat
    /\ Calls \subseteq [method: Repo!Methods, signer: Accounts, caller: Accounts,
                        pack: Packs \cup {NoPack}, ups: Seq(Repo!Updates)]

NoPacks == [k \in U32 |-> NoPack]

EmptyTrie ==
    [owner |-> NoOwner, refs |-> Repo!NoRefs, packs |-> NoPacks, pack_count |-> 0]

Exists == trie.owner # NoOwner

-----------------------------------------------------------------------------
\* A receipt starts: the state is read from the trie.
Receive(c) ==
    /\ answer # "pending"
    /\ c.method = "self_delete" => deletes < MaxDeletes
    /\ call' = c
    /\ answer' = "pending"
    /\ pc' = IF c.method = "new" THEN "new" ELSE "assert_owner"
    /\ UNCHANGED <<trie, self, i, ref_keys, deletes>>

At(label) == answer = "pending" /\ pc = label

\* The method returns and what it did to self is committed.
Return ==
    /\ answer' = "ok"
    /\ call' = NoCall
    /\ pc' = "idle"
    /\ i' = 0

Commit ==
    trie' = [trie EXCEPT !.refs = refs, !.packs = packs, !.pack_count = pack_count]

Rollback(outcome) ==
    /\ answer' = outcome
    /\ call' = NoCall
    /\ pc' = "idle"
    /\ i' = 0
    /\ refs' = trie.refs
    /\ packs' = trie.packs
    /\ pack_count' = trie.pack_count
    /\ ref_keys' = {}
    /\ UNCHANGED <<trie, deletes>>

\* The signer of the transaction becomes the owner, whoever called.
New ==
    /\ At("new")
    /\ ~Exists
    /\ refs' = Repo!NoRefs
    /\ packs' = NoPacks
    /\ pack_count' = 0
    /\ trie' = [owner |-> call.signer, refs |-> refs', packs |-> packs',
                pack_count |-> pack_count']
    /\ Return
    /\ UNCHANGED <<ref_keys, deletes>>

\* The predecessor must be the owner; then the body of the method starts.
\* clear_storage collects its keys later, at "keys".
AssertOwner ==
    /\ At("assert_owner")
    /\ Exists
    /\ call.caller = trie.owner
    /\ pc' = CASE call.method = "push"          -> "store"
               [] call.method = "clear_storage" -> "packs"
               [] call.method = "self_delete"   -> "delete"
    /\ UNCHANGED <<trie, self, call, answer, i, ref_keys, deletes>>

-----------------------------------------------------------------------------
\* Mutant: pack_count grows without its overflow check.
StorePackUnchecked ==
    /\ At("store")
    /\ IF call.pack = NoPack
       THEN UNCHANGED <<packs, pack_count>>
       ELSE /\ packs' = [packs EXCEPT ![pack_count] = call.pack]
            /\ pack_count' = pack_count + 1
    /\ pc' = "refs"
    /\ UNCHANGED <<trie, refs, call, answer, i, ref_keys, deletes>>

\* push: the packfile goes to index pack_count, before any update is looked at.
StorePack ==
    /\ At("store")
    /\ IF call.pack = NoPack
       THEN UNCHANGED <<packs, pack_count>>
       ELSE /\ pack_count < MaxU32
            /\ packs' = [packs EXCEPT ![pack_count] = call.pack]
            /\ pack_count' = pack_count + 1
    /\ pc' = "refs"
    /\ UNCHANGED <<trie, refs, call, answer, i, ref_keys, deletes>>

\* Mutant: every update is checked against the refs before the push.
MatchesCommitted(update) == update.old = trie.refs[update.name]

\* One arm of the match for both (None, None) and (Some(old), Some(cur)).
Matches(update) == update.old = refs[update.name]

\* Mutant: an update that expects nothing creates or overwrites.
UpdateRefOrCreate ==
    /\ At("refs")
    /\ i < Len(call.ups)
    /\ LET update == call.ups[i + 1]
       IN  /\ update.old # NoSha => Matches(update)
           /\ refs' = [refs EXCEPT ![update.name] = update.new]
    /\ i' = i + 1
    /\ UNCHANGED <<trie, packs, pack_count, call, answer, pc, ref_keys, deletes>>

UpdateRef ==
    /\ At("refs")
    /\ i < Len(call.ups)
    /\ LET update == call.ups[i + 1]
       IN  /\ Matches(update)
           /\ refs' = [refs EXCEPT ![update.name] = update.new]
    /\ i' = i + 1
    /\ UNCHANGED <<trie, packs, pack_count, call, answer, pc, ref_keys, deletes>>

ReturnFromPush ==
    /\ At("refs")
    /\ i = Len(call.ups)
    /\ Commit
    /\ Return
    /\ UNCHANGED <<self, ref_keys, deletes>>

-----------------------------------------------------------------------------
\* Mutant: the loop does not advance.
RemovePackAgain ==
    /\ At("packs")
    /\ i < pack_count
    /\ packs' = [packs EXCEPT ![i] = NoPack]
    /\ UNCHANGED <<trie, refs, pack_count, call, answer, pc, i, ref_keys, deletes>>

\* clear_storage: packs 0 .. pack_count - 1, then the counter, then the refs.
RemovePack ==
    /\ At("packs")
    /\ i < pack_count
    /\ packs' = [packs EXCEPT ![i] = NoPack]
    /\ i' = i + 1
    /\ UNCHANGED <<trie, refs, pack_count, call, answer, pc, ref_keys, deletes>>

\* Mutant: pack_count is not reset.
CollectKeysOnly ==
    /\ At("packs")
    /\ i = pack_count
    /\ ref_keys' = {name \in RefNames : refs[name] # NoSha}
    /\ pc' = "keys"
    /\ UNCHANGED <<trie, refs, packs, pack_count, call, answer, i, deletes>>

CollectKeys ==
    /\ At("packs")
    /\ i = pack_count
    /\ pack_count' = 0
    /\ ref_keys' = {name \in RefNames : refs[name] # NoSha}
    /\ pc' = "keys"
    /\ UNCHANGED <<trie, refs, packs, call, answer, i, deletes>>

RemoveRef ==
    /\ At("keys")
    /\ \E key \in ref_keys :
          /\ refs' = [refs EXCEPT ![key] = NoSha]
          /\ ref_keys' = ref_keys \ {key}
    /\ UNCHANGED <<trie, packs, pack_count, call, answer, pc, i, deletes>>

ReturnFromClear ==
    /\ At("keys")
    /\ ref_keys = {}
    /\ Commit
    /\ Return
    /\ UNCHANGED <<self, ref_keys, deletes>>

-----------------------------------------------------------------------------
\* self_delete only sends the delete_account receipt: calls that arrive before
\* it executes still succeed.
SelfDelete ==
    /\ At("delete")
    /\ deletes' = deletes + 1
    /\ Return
    /\ UNCHANGED <<trie, self, ref_keys>>

\* The runtime refuses to delete an account with a large state; an account
\* that stores no pack and no ref is never large.
MayBeLarge == trie.pack_count > 0 \/ \E name \in RefNames : trie.refs[name] # NoSha

DeleteAccount ==
    /\ answer # "pending"
    /\ deletes > 0
    /\ deletes' = deletes - 1
    /\ \/ /\ ~Exists \/ MayBeLarge
          /\ UNCHANGED <<trie, self>>
       \/ /\ Exists
          /\ trie' = EmptyTrie
          /\ refs' = EmptyTrie.refs
          /\ packs' = EmptyTrie.packs
          /\ pack_count' = EmptyTrie.pack_count
    /\ UNCHANGED <<call, answer, pc, i, ref_keys>>

-----------------------------------------------------------------------------
\* The views run on the committed state, between receipts or beside one.
GetRefs == {<<name, trie.refs[name]>> :
                name \in {n \in RefNames : trie.refs[n] # NoSha}}

\* filter_map and collect: the packs that are found at from .. until - 1.
PacksFound(from, until) ==
    LET found[n \in Nat] ==
            IF n <= from THEN <<>>
            ELSE IF trie.packs[n - 1] = NoPack THEN found[n - 1]
            ELSE Append(found[n - 1], trie.packs[n - 1])
    IN  found[until]

\* Mutant: the range starts behind from.
GetPacksBehind(from) == PacksFound(from + 1, trie.pack_count)

\* Indices without a pack are dropped, so an answer shorter than
\* pack_count - from would not say which pack is missing.
GetPacks(from) == PacksFound(from, trie.pack_count)

-----------------------------------------------------------------------------
\* Where the contract, or the SDK around it, panics.
Panic ==
    /\ \/ At("new") /\ Exists
       \/ At("assert_owner") /\ ~(Exists /\ call.caller = trie.owner)
       \/ At("store") /\ call.pack # NoPack /\ pack_count = MaxU32
       \/ At("refs") /\ i < Len(call.ups) /\ ~Matches(call.ups[i + 1])
    /\ Rollback("panicked")

\* The gas attached to the receipt may end at any step.
OutOfGas == answer = "pending" /\ Rollback("aborted")

Init ==
    /\ trie = EmptyTrie
    /\ refs = EmptyTrie.refs
    /\ packs = EmptyTrie.packs
    /\ pack_count = 0
    /\ call = NoCall
    /\ answer = "ok"
    /\ pc = "idle"
    /\ i = 0
    /\ ref_keys = {}
    /\ deletes = 0

Step ==
    \/ New \/ AssertOwner
    \/ StorePack \/ UpdateRef \/ ReturnFromPush
    \/ RemovePack \/ CollectKeys \/ RemoveRef \/ ReturnFromClear
    \/ SelfDelete
    \/ Panic

Next == (\E c \in Calls : Receive(c)) \/ Step \/ OutOfGas \/ DeleteAccount

Spec == Init /\ [][Next]_vars

\* The chain keeps executing the receipt it has started.
FairSpec == Spec /\ WF_vars(Step)

-----------------------------------------------------------------------------
(* Properties *)

TrieType ==
    [owner: Accounts \cup {NoOwner}, refs: Repo!RefMap,
     packs: [U32 -> Packs \cup {NoPack}], pack_count: U32]

Labels == {"idle", "new", "assert_owner", "store", "refs", "packs", "keys", "delete"}

\* Type invariant: the fields of the contract and the place of the running
\* method, src/lib.rs.
TypeOK ==
    /\ trie \in TrieType
    /\ refs \in Repo!RefMap
    /\ packs \in [U32 -> Packs \cup {NoPack}]
    /\ pack_count \in U32
    /\ answer \in {"pending", "ok", "panicked", "aborted"}
    /\ pc \in Labels
    /\ call \in IF answer = "pending" THEN Calls ELSE {NoCall}
    /\ i \in Nat
    /\ ref_keys \subseteq RefNames
    /\ deletes \in Nat

Dense(packMap, count) == \A k \in U32 : packMap[k] # NoPack <=> k < count

\* The committed pack log has no hole and nothing after its end, whichever
\* pushes panicked after storing their pack and however often the storage was
\* cleared and its indices used again (push, clear_storage).
PackLogDense == Dense(trie.packs, trie.pack_count)

\* get_packs(from) answers with every pack from index from on, in the order
\* of the pushes that stored them: its filter_map never drops one.
GetPacksIsSuffix ==
    \A from \in U32 :
        GetPacks(from) = SubSeq(Log(trie.packs, trie.pack_count),
                                from + 1, trie.pack_count)

\* What self holds while a method works on it, in terms of the trie it was
\* loaded from.
Untouched ==
    /\ refs = trie.refs
    /\ packs = trie.packs
    /\ pack_count = trie.pack_count
    /\ i = 0
    /\ ref_keys = {}

PackStored ==
    IF call.pack = NoPack
    THEN packs = trie.packs /\ pack_count = trie.pack_count
    ELSE /\ trie.pack_count < MaxU32
         /\ packs = [trie.packs EXCEPT ![trie.pack_count] = call.pack]
         /\ pack_count = trie.pack_count + 1

InPush ==
    /\ PackStored
    /\ i \in 0..Len(call.ups)
    /\ Repo!Accepted(trie.refs, call.ups, i)
    /\ refs = Repo!RefsAfter(trie.refs, call.ups, i)
    /\ ref_keys = {}

RemovingPacks ==
    /\ i \in 0..pack_count
    /\ pack_count = trie.pack_count
    /\ \A k \in U32 : packs[k] = IF k < i THEN NoPack ELSE trie.packs[k]
    /\ refs = trie.refs
    /\ ref_keys = {}

RemovingRefs ==
    /\ packs = NoPacks
    /\ pack_count = 0
    /\ \A name \in RefNames \ ref_keys : refs[name] = NoSha

Authorised == Exists /\ call.caller = trie.owner

AtMethod ==
    CASE pc = "new"          -> call.method = "new" /\ Untouched
      [] pc = "assert_owner" -> call.method # "new" /\ Untouched
      [] pc = "store"        -> call.method = "push" /\ Authorised /\ Untouched
      [] pc = "refs"         -> call.method = "push" /\ Authorised /\ InPush
      [] pc = "packs"        -> call.method = "clear_storage" /\ Authorised /\ RemovingPacks
      [] pc = "keys"         -> call.method = "clear_storage" /\ Authorised /\ RemovingRefs
      [] pc = "delete"       -> call.method = "self_delete" /\ Authorised /\ Untouched
      [] pc = "idle"         -> FALSE

\* The loop invariants of push and clear_storage: after i updates self.refs is
\* what GitRepo says i accepted updates leave, whatever happens to the rest;
\* clear_storage has emptied a prefix of the packs; between receipts self is
\* the trie, and an account that does not exist stores nothing.
LoopInv ==
    /\ IF answer = "pending" THEN AtMethod ELSE pc = "idle" /\ Untouched
    /\ ~Exists => trie = EmptyTrie

\* The step-by-step contract implements the atomic repository: a push with
\* several updates takes effect whole, with every CAS checked against the
\* update before it, or not at all; nothing but what GitRepo names is refused;
\* a clear leaves no ref and no pack behind (push, clear_storage, self_delete).
RepoSpec == Repo!Spec

\* Every receipt that starts is answered, whatever the loops go through.
Answered == answer = "pending" ~> answer # "pending"
=============================================================================
