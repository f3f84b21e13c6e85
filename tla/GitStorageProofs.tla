--------------------------- MODULE GitStorageProofs ---------------------------
(***************************************************************************)
(* Proofs about the repository contract for any sets of accounts, refs,    *)
(* shas, packs and receipts and any width of pack_count: the inductive     *)
(* invariant, what follows from it, and that GitStorage implements GitRepo.*)
(***************************************************************************)
EXTENDS GitStorage, SequenceTheorems, Induction, TLAPS

-----------------------------------------------------------------------------
(* The operators of GitRepo *)

\* With no update applied the refs are what they were.
LEMMA RefsAfterNone ==
    ASSUME NEW r \in Repo!RefMap, NEW ups
    PROVE  Repo!RefsAfter(r, ups, 0) = r
<1>1. \A name : Repo!Writes(ups, 0, name) = {}
  BY DEF Repo!Writes
<1>2. r = [name \in RefNames |-> r[name]]
  BY DEF Repo!RefMap
<1> QED
  BY <1>1, <1>2 DEF Repo!RefsAfter

\* Applying one more update overwrites the name it writes and no other.
LEMMA RefsAfterOne ==
    ASSUME NEW r \in Repo!RefMap, NEW ups \in Seq(Repo!Updates),
           NEW n \in Nat, n < Len(ups)
    PROVE  Repo!RefsAfter(r, ups, n + 1)
             = [Repo!RefsAfter(r, ups, n) EXCEPT ![ups[n + 1].name] = ups[n + 1].new]
<1> DEFINE m == n + 1
<1>1. ASSUME NEW name \in RefNames, name # ups[m].name
      PROVE  Repo!Writes(ups, m, name) = Repo!Writes(ups, n, name)
  BY <1>1 DEF Repo!Writes
<1>2. ASSUME NEW name \in RefNames, name = ups[m].name
      PROVE  Repo!Writes(ups, m, name) # {} /\ Repo!LastWrite(ups, m, name) = m
  <2>1. m \in Repo!Writes(ups, m, name) /\ \A k \in Repo!Writes(ups, m, name) : k <= m
    BY <1>2 DEF Repo!Writes
  <2>2. \A j \in Repo!Writes(ups, m, name) : m <= j => j = m
    BY DEF Repo!Writes
  <2> QED
    BY <2>1, <2>2 DEF Repo!LastWrite
<1>3. ASSUME NEW name \in RefNames
      PROVE  Repo!RefsAfter(r, ups, m)[name] =
                IF name = ups[m].name THEN ups[m].new
                ELSE Repo!RefsAfter(r, ups, n)[name]
  <2>1. CASE name = ups[m].name
    BY <1>2, <2>1 DEF Repo!RefsAfter
  <2>2. CASE name # ups[m].name
    <3>1. Repo!Writes(ups, m, name) = Repo!Writes(ups, n, name)
      BY <1>1, <2>2
    <3>2. Repo!LastWrite(ups, m, name) = Repo!LastWrite(ups, n, name)
      BY <3>1 DEF Repo!LastWrite
    <3> QED
      BY <2>2, <3>1, <3>2 DEF Repo!RefsAfter
  <2> QED
    BY <2>1, <2>2
<1> QED
  BY <1>3 DEF Repo!RefsAfter

-----------------------------------------------------------------------------
(* The inductive invariant *)

\* PackLogDense and LoopInv say what TypeOK alone cannot: that self is the trie
\* plus what the running method has done to it so far.
IInv == TypeOK /\ PackLogDense /\ LoopInv

\* A receipt's fields have their types.
LEMMA CallFields ==
    ASSUME TypeOK, answer = "pending"
    PROVE  /\ call \in Calls
           /\ call.method \in Repo!Methods
           /\ call.signer \in Accounts
           /\ call.pack \in Packs \cup {NoPack}
           /\ call.ups \in Seq(Repo!Updates)
           /\ Len(call.ups) \in Nat
           /\ \A k \in 1..Len(call.ups) : call.ups[k] \in Repo!Updates
<1>1. call \in Calls
  BY DEF TypeOK
<1>2. call.ups \in Seq(Repo!Updates)
  BY <1>1, Constants
<1> QED
  BY <1>1, <1>2, Constants

\* An account that stores nothing is well-formed.
LEMMA EmptyTrieType == EmptyTrie \in TrieType
  BY Constants DEF EmptyTrie, TrieType, NoPacks, U32, Repo!NoRefs, Repo!RefMap

\* The state before the first receipt satisfies the invariant.
LEMMA InitInv == Init => IInv
<1> SUFFICES ASSUME Init
             PROVE  IInv
  OBVIOUS
<1>1. TypeOK
  BY EmptyTrieType DEF Init, TypeOK, TrieType, Labels, EmptyTrie
<1>2. PackLogDense
  BY DEF Init, PackLogDense, Dense, EmptyTrie, NoPacks, U32
<1>3. LoopInv
  BY DEF Init, LoopInv, Untouched, EmptyTrie
<1> QED
  BY <1>1, <1>2, <1>3 DEF IInv

\* A receipt starts with self as the trie has it.
LEMMA ReceiveInv ==
    ASSUME IInv, NEW c \in Calls, Receive(c)
    PROVE  IInv'
<1>1. TypeOK'
  BY DEF IInv, TypeOK, Receive, self, Labels
<1>2. PackLogDense'
  BY DEF IInv, PackLogDense, Receive
<1>3. LoopInv'
  BY DEF IInv, LoopInv, Receive, self, AtMethod, Untouched, Exists
<1> QED
  BY <1>1, <1>2, <1>3 DEF IInv

\* new commits a contract that stores nothing.
LEMMA NewInv ==
    ASSUME IInv, New
    PROVE  IInv'
<1> USE DEF IInv
<1>1. /\ trie' = [owner |-> call.signer, refs |-> Repo!NoRefs, packs |-> NoPacks,
                  pack_count |-> 0]
      /\ refs' = Repo!NoRefs /\ packs' = NoPacks /\ pack_count' = 0
      /\ answer' = "ok" /\ call' = NoCall /\ pc' = "idle" /\ i' = 0
      /\ ref_keys' = ref_keys /\ deletes' = deletes
      /\ pc = "new" /\ answer = "pending"
  BY DEF New, Return, At
<1>2. call.signer \in Accounts
  BY <1>1, CallFields
<1>3. Repo!NoRefs \in Repo!RefMap /\ NoPacks \in [U32 -> Packs \cup {NoPack}] /\ 0 \in U32
  BY Constants DEF Repo!NoRefs, Repo!RefMap, NoPacks, U32
<1>4. TypeOK'
  BY <1>1, <1>2, <1>3 DEF TypeOK, TrieType, Labels
<1>5. PackLogDense'
  BY <1>1 DEF PackLogDense, Dense, NoPacks, U32
<1>6. LoopInv'
  BY <1>1, <1>2, Constants DEF LoopInv, AtMethod, Untouched, Exists
<1> QED
  BY <1>4, <1>5, <1>6

\* The owner's call goes on to the body of its method, self still untouched.
LEMMA AssertOwnerInv ==
    ASSUME IInv, AssertOwner
    PROVE  IInv'
<1> USE DEF IInv
<1>1. call.method \in Repo!Methods \ {"new"} /\ Untouched
  BY CallFields DEF AssertOwner, At, LoopInv, AtMethod
<1>2. TypeOK'
  BY <1>1 DEF AssertOwner, At, TypeOK, self, Labels, Repo!Methods
<1>3. PackLogDense'
  BY DEF PackLogDense, AssertOwner
<1>4. LoopInv'
  <2>1. CASE call.method = "clear_storage"
    <3>1. 0 \in 0..pack_count /\ \A k \in U32 : ~(k < 0)
      BY <1>1 DEF TypeOK, TrieType, U32, Untouched
    <3> QED
      BY <1>1, <2>1, <3>1 DEF AssertOwner, At, self, LoopInv, AtMethod, Untouched,
         RemovingPacks, Authorised, Exists
  <2>2. CASE call.method # "clear_storage"
    BY <1>1, <2>2 DEF AssertOwner, At, self, LoopInv, AtMethod, Untouched, Authorised,
       Exists, Repo!Methods
  <2> QED
    BY <2>1, <2>2
<1> QED
  BY <1>2, <1>3, <1>4

\* push: the pack is stored, and no update is applied yet.
LEMMA StorePackInv ==
    ASSUME IInv, StorePack
    PROVE  IInv'
<1> USE DEF IInv
<1>1. /\ call.method = "push" /\ Authorised /\ Untouched
      /\ answer = "pending" /\ pc = "store"
  BY DEF StorePack, At, LoopInv, AtMethod
<1>2. /\ trie \in TrieType /\ pack_count \in U32 /\ refs \in Repo!RefMap
      /\ packs \in [U32 -> Packs \cup {NoPack}]
  BY DEF TypeOK
<1>3. TypeOK'
  BY <1>1, <1>2, CallFields, Constants DEF StorePack, At, TypeOK, Labels, U32
<1>4. PackLogDense'
  BY DEF PackLogDense, StorePack
<1>5. PackStored'
  BY <1>1, <1>2 DEF StorePack, PackStored, Untouched
<1>6. Repo!RefsAfter(trie.refs, call.ups, 0) = trie.refs
  BY <1>2, RefsAfterNone DEF TrieType
<1>7. 0 \in 0..Len(call.ups) /\ Repo!Accepted(trie.refs, call.ups, 0)
  BY <1>1, CallFields DEF Repo!Accepted
<1>8. InPush'
  BY <1>1, <1>5, <1>6, <1>7 DEF InPush, StorePack, Untouched
<1>9. LoopInv'
  BY <1>1, <1>8 DEF LoopInv, AtMethod, StorePack, Authorised, Exists
<1> QED
  BY <1>3, <1>4, <1>9

\* push: an update that matches extends what is accepted by one.
LEMMA UpdateRefInv ==
    ASSUME IInv, UpdateRef
    PROVE  IInv'
<1> USE DEF IInv
<1> DEFINE update == call.ups[i + 1]
<1>1. /\ call.method = "push" /\ Authorised /\ InPush
      /\ answer = "pending" /\ pc = "refs"
  BY DEF UpdateRef, At, LoopInv, AtMethod
<1>2. /\ call.ups \in Seq(Repo!Updates) /\ Len(call.ups) \in Nat
      /\ i \in Nat /\ i < Len(call.ups) /\ update \in Repo!Updates
  BY <1>1, CallFields DEF UpdateRef, TypeOK
<1>3. /\ refs' = [refs EXCEPT ![update.name] = update.new] /\ i' = i + 1
      /\ update.old = refs[update.name]
      /\ UNCHANGED <<trie, packs, pack_count, call, answer, pc, ref_keys, deletes>>
  BY DEF UpdateRef, Matches
<1>4. TypeOK'
  <2>1. refs' \in Repo!RefMap
    BY <1>2, <1>3 DEF TypeOK, Repo!RefMap, Repo!Updates
  <2> QED
    BY <1>2, <1>3, <2>1 DEF TypeOK
<1>5. PackLogDense'
  BY <1>3 DEF PackLogDense
<1>6. refs' = Repo!RefsAfter(trie.refs, call.ups, i + 1)
  <2>1. trie.refs \in Repo!RefMap /\ refs = Repo!RefsAfter(trie.refs, call.ups, i)
    BY <1>1 DEF InPush, TypeOK, TrieType
  <2>2. Repo!RefsAfter(trie.refs, call.ups, i + 1)
          = [Repo!RefsAfter(trie.refs, call.ups, i) EXCEPT ![update.name] = update.new]
    BY <1>2, <2>1, RefsAfterOne
  <2> QED
    BY <1>3, <2>1, <2>2
<1>7. Repo!Accepted(trie.refs, call.ups, i + 1)
  <2> SUFFICES ASSUME NEW k \in 1..(i + 1)
               PROVE  call.ups[k].old
                        = Repo!RefsAfter(trie.refs, call.ups, k - 1)[call.ups[k].name]
    BY DEF Repo!Accepted
  <2>1. CASE k = i + 1
    BY <1>1, <1>2, <1>3, <2>1 DEF InPush
  <2>2. CASE k \in 1..i
    BY <1>1, <2>2 DEF InPush, Repo!Accepted
  <2> QED
    BY <1>2, <2>1, <2>2
<1>8. InPush'
  BY <1>1, <1>2, <1>3, <1>6, <1>7 DEF InPush, PackStored
<1>9. LoopInv'
  BY <1>1, <1>3, <1>8 DEF LoopInv, AtMethod, Authorised, Exists
<1> QED
  BY <1>4, <1>5, <1>9

\* A log without a hole that grows by one pack at its end has no hole.
LEMMA DenseStored ==
    ASSUME IInv, PackStored, answer = "pending"
    PROVE  Dense(packs, pack_count)
<1>1. call.pack \in Packs \cup {NoPack}
  BY CallFields DEF IInv
<1>2. CASE call.pack = NoPack
  BY <1>2 DEF IInv, PackLogDense, PackStored
<1>3. CASE call.pack # NoPack
  BY <1>3, Constants DEF IInv, PackLogDense, PackStored, Dense, TypeOK, TrieType, U32
<1> QED
  BY <1>2, <1>3

\* What Commit and Return do together.
LEMMA Committed ==
    ASSUME IInv, Commit, Return, UNCHANGED <<self, ref_keys, deletes>>,
           answer = "pending", Authorised, ref_keys = {},
           Dense(packs, pack_count)
    PROVE  IInv'
<1> USE DEF IInv
<1>1. /\ trie' = [trie EXCEPT !.refs = refs, !.packs = packs, !.pack_count = pack_count]
      /\ answer' = "ok" /\ call' = NoCall /\ pc' = "idle" /\ i' = 0
      /\ UNCHANGED <<refs, packs, pack_count, ref_keys, deletes>>
  BY DEF Commit, Return, self
<1>2. TypeOK'
  BY <1>1 DEF TypeOK, TrieType, Labels
<1>3. /\ trie'.packs = packs /\ trie'.pack_count = pack_count
      /\ trie'.refs = refs /\ trie'.owner = trie.owner
  BY <1>1 DEF TypeOK, TrieType
<1>4. PackLogDense'
  BY <1>3 DEF PackLogDense, Dense
<1>5. LoopInv'
  BY <1>1, <1>3 DEF LoopInv, Untouched, Authorised, Exists
<1> QED
  BY <1>2, <1>4, <1>5

LEMMA ReturnFromPushInv ==
    ASSUME IInv, ReturnFromPush
    PROVE  IInv'
<1>1. Authorised /\ InPush /\ answer = "pending"
  BY DEF IInv, ReturnFromPush, At, LoopInv, AtMethod
<1>2. Dense(packs, pack_count)
  BY <1>1, DenseStored DEF InPush
<1> QED
  BY <1>1, <1>2, Committed DEF ReturnFromPush, InPush

\* clear_storage: one more index of the prefix is empty.
LEMMA RemovePackInv ==
    ASSUME IInv, RemovePack
    PROVE  IInv'
<1> USE DEF IInv
<1>1. /\ call.method = "clear_storage" /\ Authorised /\ RemovingPacks
      /\ answer = "pending" /\ pc = "packs"
  BY DEF RemovePack, At, LoopInv, AtMethod
<1>2. /\ packs' = [packs EXCEPT ![i] = NoPack] /\ i' = i + 1 /\ i < pack_count
      /\ UNCHANGED <<trie, refs, pack_count, call, answer, pc, ref_keys, deletes>>
  BY DEF RemovePack
<1>3. /\ i \in Nat /\ pack_count \in Nat
      /\ packs \in [U32 -> Packs \cup {NoPack}]
  BY DEF TypeOK, U32
<1>4. TypeOK'
  <2>1. packs' \in [U32 -> Packs \cup {NoPack}]
    BY <1>2, <1>3
  <2>2. i' \in Nat
    BY <1>2, <1>3
  <2> QED
    BY <1>2, <2>1, <2>2 DEF TypeOK
<1>5. PackLogDense'
  BY <1>2 DEF PackLogDense
<1>6. \A k \in U32 : packs'[k] = IF k < i + 1 THEN NoPack ELSE trie.packs[k]
  BY <1>1, <1>2, <1>3 DEF RemovingPacks, U32
<1>7. RemovingPacks'
  BY <1>1, <1>2, <1>3, <1>6 DEF RemovingPacks
<1>8. LoopInv'
  BY <1>1, <1>2, <1>7 DEF LoopInv, AtMethod, Authorised, Exists
<1> QED
  BY <1>4, <1>5, <1>8

\* clear_storage: the loop over the packs went over all of them.
LEMMA CollectKeysInv ==
    ASSUME IInv, CollectKeys
    PROVE  IInv'
<1> USE DEF IInv
<1>1. /\ call.method = "clear_storage" /\ Authorised /\ RemovingPacks
      /\ answer = "pending" /\ pc = "packs"
  BY DEF CollectKeys, At, LoopInv, AtMethod
<1>2. /\ i = pack_count /\ pack_count' = 0 /\ pc' = "keys"
      /\ ref_keys' = {name \in RefNames : refs[name] # NoSha}
      /\ UNCHANGED <<trie, refs, packs, call, answer, i, deletes>>
  BY DEF CollectKeys
<1>3. TypeOK'
  BY <1>2, Constants DEF TypeOK, Labels, U32
<1>4. PackLogDense'
  BY <1>2 DEF PackLogDense
<1>5. packs = NoPacks
  BY <1>1, <1>2 DEF RemovingPacks, PackLogDense, Dense, NoPacks, U32, TypeOK, TrieType
<1>6. LoopInv'
  BY <1>1, <1>2, <1>5 DEF LoopInv, AtMethod, RemovingRefs, Authorised, Exists
<1> QED
  BY <1>3, <1>4, <1>6

\* clear_storage: a name is absent once it is no longer to be removed.
LEMMA RemoveRefInv ==
    ASSUME IInv, RemoveRef
    PROVE  IInv'
<1> USE DEF IInv
<1>1. /\ call.method = "clear_storage" /\ Authorised /\ RemovingRefs
      /\ answer = "pending" /\ pc = "keys"
  BY DEF RemoveRef, At, LoopInv, AtMethod
<1>2. PICK key \in ref_keys : /\ refs' = [refs EXCEPT ![key] = NoSha]
                              /\ ref_keys' = ref_keys \ {key}
  BY DEF RemoveRef
<1>3. UNCHANGED <<trie, packs, pack_count, call, answer, pc, i, deletes>>
  BY DEF RemoveRef
<1>4. TypeOK'
  BY <1>2, <1>3 DEF TypeOK, Repo!RefMap
<1>5. PackLogDense'
  BY <1>3 DEF PackLogDense
<1>6. RemovingRefs'
  BY <1>1, <1>2, <1>3 DEF RemovingRefs, TypeOK, Repo!RefMap
<1>7. LoopInv'
  BY <1>1, <1>3, <1>6 DEF LoopInv, AtMethod, Authorised, Exists
<1> QED
  BY <1>4, <1>5, <1>7

\* clear_storage returns with nothing stored.
LEMMA ReturnFromClearInv ==
    ASSUME IInv, ReturnFromClear
    PROVE  IInv' /\ refs = Repo!NoRefs /\ packs = NoPacks /\ pack_count = 0
<1>1. Authorised /\ RemovingRefs /\ answer = "pending" /\ ref_keys = {}
  BY DEF IInv, ReturnFromClear, At, LoopInv, AtMethod
<1>2. refs = Repo!NoRefs /\ packs = NoPacks /\ pack_count = 0
  BY <1>1 DEF IInv, RemovingRefs, Repo!NoRefs, TypeOK, Repo!RefMap
<1>3. Dense(packs, pack_count)
  BY <1>2 DEF Dense, NoPacks, U32
<1> QED
  BY <1>1, <1>2, <1>3, Committed DEF ReturnFromClear

LEMMA SelfDeleteInv ==
    ASSUME IInv, SelfDelete
    PROVE  IInv'
<1> USE DEF IInv
<1>1. TypeOK'
  BY DEF SelfDelete, At, Return, TypeOK, self, Labels
<1>2. PackLogDense'
  BY DEF SelfDelete, PackLogDense
<1>3. LoopInv'
  BY DEF SelfDelete, At, Return, self, LoopInv, AtMethod, Untouched, Exists
<1> QED
  BY <1>1, <1>2, <1>3

LEMMA DeleteAccountInv ==
    ASSUME IInv, DeleteAccount
    PROVE  IInv'
<1> USE DEF IInv
<1>1. CASE UNCHANGED <<trie, self>>
  <2>1. TypeOK'
    BY <1>1 DEF DeleteAccount, TypeOK, self
  <2>2. PackLogDense' /\ LoopInv'
    BY <1>1 DEF DeleteAccount, PackLogDense, LoopInv, self, Untouched, Exists
  <2> QED
    BY <2>1, <2>2
<1>2. CASE /\ trie' = EmptyTrie /\ refs' = EmptyTrie.refs /\ packs' = EmptyTrie.packs
           /\ pack_count' = EmptyTrie.pack_count
  <2>1. TypeOK'
    BY <1>2, EmptyTrieType DEF DeleteAccount, TypeOK, TrieType
  <2>2. PackLogDense'
    BY <1>2 DEF PackLogDense, Dense, EmptyTrie, NoPacks, U32
  <2>3. LoopInv'
    BY <1>2 DEF DeleteAccount, LoopInv, Untouched
  <2> QED
    BY <2>1, <2>2, <2>3
<1> QED
  BY <1>1, <1>2 DEF DeleteAccount

\* A panic and the end of the gas both give back what the trie holds.
LEMMA RollbackInv ==
    ASSUME IInv, Rollback("panicked") \/ Rollback("aborted")
    PROVE  IInv'
<1> USE DEF IInv
<1>1. TypeOK'
  BY DEF Rollback, TypeOK, TrieType, Labels
<1>2. PackLogDense'
  BY DEF Rollback, PackLogDense
<1>3. LoopInv'
  BY DEF Rollback, LoopInv, Untouched, Exists
<1> QED
  BY <1>1, <1>2, <1>3

LEMMA NextInv == IInv /\ [Next]_vars => IInv'
<1> SUFFICES ASSUME IInv, [Next]_vars
             PROVE  IInv'
  OBVIOUS
<1>1. CASE \E c \in Calls : Receive(c)
  BY <1>1, ReceiveInv
<1>2. CASE New
  BY <1>2, NewInv
<1>3. CASE AssertOwner
  BY <1>3, AssertOwnerInv
<1>4. CASE StorePack
  BY <1>4, StorePackInv
<1>5. CASE UpdateRef
  BY <1>5, UpdateRefInv
<1>6. CASE ReturnFromPush
  BY <1>6, ReturnFromPushInv
<1>7. CASE RemovePack
  BY <1>7, RemovePackInv
<1>8. CASE CollectKeys
  BY <1>8, CollectKeysInv
<1>9. CASE RemoveRef
  BY <1>9, RemoveRefInv
<1>10. CASE ReturnFromClear
  BY <1>10, ReturnFromClearInv
<1>11. CASE SelfDelete
  BY <1>11, SelfDeleteInv
<1>12. CASE Panic \/ OutOfGas
  BY <1>12, RollbackInv DEF Panic, OutOfGas
<1>13. CASE DeleteAccount
  BY <1>13, DeleteAccountInv
<1>14. CASE UNCHANGED vars
  BY <1>14 DEF vars, self, IInv, TypeOK, PackLogDense, LoopInv, AtMethod, Untouched,
     InPush, PackStored, RemovingPacks, RemovingRefs, Authorised, Exists
<1> QED
  BY <1>1, <1>2, <1>3, <1>4, <1>5, <1>6, <1>7, <1>8, <1>9, <1>10, <1>11, <1>12, <1>13, <1>14
     DEF Next, Step

\* Every state the contract reaches satisfies the inductive invariant.
THEOREM Invariance == Spec => []IInv
  BY InitInv, NextInv, PTL DEF Spec

\* Type correctness of the contract and of the place of the running method.
THEOREM TypeCorrect == Spec => []TypeOK
<1>1. IInv => TypeOK
  BY DEF IInv
<1> QED
  BY <1>1, Invariance, PTL

\* The committed pack log never has a hole: a panic after a pack is stored, a
\* clear that runs out of gas and indices used again included.
THEOREM PackLogNeverHasHoles == Spec => []PackLogDense
<1>1. IInv => PackLogDense
  BY DEF IInv
<1> QED
  BY <1>1, Invariance, PTL

\* The loop invariants of push and clear_storage.
THEOREM LoopsCorrect == Spec => []LoopInv
<1>1. IInv => LoopInv
  BY DEF IInv
<1> QED
  BY <1>1, Invariance, PTL

-----------------------------------------------------------------------------
(* Refinement *)

\* The log is a sequence as long as pack_count.
LEMMA LogIsSeq ==
    ASSUME NEW f \in [U32 -> Packs \cup {NoPack}], NEW count \in U32, Dense(f, count)
    PROVE  Log(f, count) \in Seq(Packs) /\ Len(Log(f, count)) = count
<1>1. \A n \in 1..count : n - 1 \in U32 /\ n - 1 < count
  BY Constants DEF U32
<1>2. \A n \in 1..count : f[n - 1] \in Packs
  BY <1>1 DEF Dense
<1> QED
  BY <1>2, Constants DEF Log, U32

\* Storing a pack at index pack_count appends it to the log.
LEMMA LogAppend ==
    ASSUME NEW f \in [U32 -> Packs \cup {NoPack}], NEW count \in U32, count < MaxU32,
           Dense(f, count), NEW pack \in Packs
    PROVE  Log([f EXCEPT ![count] = pack], count + 1) = Append(Log(f, count), pack)
<1> DEFINE g == [f EXCEPT ![count] = pack]
<1>1. count \in Nat /\ count + 1 \in U32
  BY Constants DEF U32
<1>2. g \in [U32 -> Packs \cup {NoPack}] /\ Dense(g, count + 1)
  BY <1>1, Constants DEF Dense, U32
<1>3. /\ Log(f, count) \in Seq(Packs) /\ Len(Log(f, count)) = count
      /\ Log(g, count + 1) \in Seq(Packs) /\ Len(Log(g, count + 1)) = count + 1
  BY <1>1, <1>2, LogIsSeq
<1>4. \A n \in 1..(count + 1) :
         Log(g, count + 1)[n] = IF n <= count THEN Log(f, count)[n] ELSE pack
  BY <1>1, Constants DEF Log, U32
<1>5. /\ Append(Log(f, count), pack) \in Seq(Packs)
      /\ Len(Append(Log(f, count), pack)) = count + 1
      /\ \A n \in 1..(count + 1) :
            Append(Log(f, count), pack)[n] = IF n <= count THEN Log(f, count)[n] ELSE pack
  BY <1>1, <1>3, AppendProperties
<1> QED
  BY <1>3, <1>4, <1>5, SeqEqual

\* An empty log.
LEMMA LogEmpty == \A f : Log(f, 0) = << >>
  BY DEF Log

LEMMA InitRefines == Init => Repo!Init
  BY LogEmpty DEF Init, Repo!Init, EmptyTrie

\* Steps that work on self only are invisible to GitRepo.
LEMMA Hidden ==
    ASSUME UNCHANGED <<trie, call, answer, deletes>>
    PROVE  UNCHANGED Repo!vars
  BY DEF Repo!vars

\* A committed push is GitRepo's push of the same updates, all at once.
LEMMA PushRefines ==
    ASSUME IInv, ReturnFromPush
    PROVE  Repo!Push
<1>1. /\ call.method = "push" /\ Authorised /\ InPush /\ answer = "pending"
      /\ i = Len(call.ups) /\ trie \in TrieType /\ call.pack \in Packs \cup {NoPack}
  BY CallFields DEF IInv, ReturnFromPush, At, LoopInv, AtMethod, TypeOK
<1>2. /\ trie' = [trie EXCEPT !.refs = refs, !.packs = packs, !.pack_count = pack_count]
      /\ answer' = "ok" /\ call' = NoCall /\ deletes' = deletes
  BY DEF ReturnFromPush, Commit, Return
<1>3. /\ trie'.packs = packs /\ trie'.pack_count = pack_count
      /\ trie'.refs = refs /\ trie'.owner = trie.owner
  BY <1>1, <1>2 DEF TrieType
<1>4. Len(Log(trie.packs, trie.pack_count)) = trie.pack_count
  BY <1>1, LogIsSeq DEF IInv, PackLogDense, TrieType
<1>5. Log(packs, pack_count) =
        IF call.pack = NoPack THEN Log(trie.packs, trie.pack_count)
        ELSE Append(Log(trie.packs, trie.pack_count), call.pack)
  <2>1. CASE call.pack = NoPack
    BY <1>1, <2>1 DEF InPush, PackStored
  <2>2. CASE call.pack # NoPack
    BY <1>1, <2>2, LogAppend DEF InPush, PackStored, IInv, PackLogDense, TrieType
  <2> QED
    BY <2>1, <2>2
<1>6. Repo!Fits
  BY <1>1, <1>4 DEF InPush, PackStored, Repo!Fits
<1> QED
  BY <1>1, <1>2, <1>3, <1>5, <1>6
     DEF Repo!Push, Repo!Executing, Repo!ByOwner, Authorised, Exists, InPush

\* A committed clear_storage is GitRepo's.
LEMMA ClearRefines ==
    ASSUME IInv, ReturnFromClear
    PROVE  Repo!Clear
<1>1. /\ call.method = "clear_storage" /\ Authorised /\ answer = "pending"
      /\ trie \in TrieType
  BY DEF IInv, ReturnFromClear, At, LoopInv, AtMethod, TypeOK
<1>2. /\ trie' = [trie EXCEPT !.refs = refs, !.packs = packs, !.pack_count = pack_count]
      /\ answer' = "ok" /\ call' = NoCall /\ deletes' = deletes
  BY DEF ReturnFromClear, Commit, Return
<1>3. refs = Repo!NoRefs /\ pack_count = 0
  BY ReturnFromClearInv
<1>4. /\ Log(trie'.packs, trie'.pack_count) = << >>
      /\ trie'.refs = Repo!NoRefs /\ trie'.owner = trie.owner
  BY <1>1, <1>2, <1>3, LogEmpty DEF TrieType
<1> QED
  BY <1>1, <1>2, <1>4 DEF Repo!Clear, Repo!Executing, Repo!ByOwner, Authorised, Exists

\* new, self_delete and the deletion of the account.
LEMMA LifecycleRefines ==
    ASSUME IInv, New \/ SelfDelete \/ DeleteAccount
    PROVE  Repo!New \/ Repo!SelfDelete \/ Repo!Deleted
<1>1. CASE New
  <2>1. /\ call.method = "new" /\ answer = "pending" /\ trie = EmptyTrie
    BY <1>1 DEF IInv, New, At, LoopInv, AtMethod
  <2>2. /\ trie' = [owner |-> call.signer, refs |-> Repo!NoRefs, packs |-> NoPacks,
                    pack_count |-> 0]
        /\ answer' = "ok" /\ call' = NoCall /\ deletes' = deletes
    BY <1>1 DEF New, Return
  <2> QED
    BY <2>1, <2>2 DEF Repo!New, Repo!Executing, EmptyTrie
<1>2. CASE SelfDelete
  <2>1. /\ call.method = "self_delete" /\ Authorised /\ answer = "pending"
    BY <1>2 DEF IInv, SelfDelete, At, LoopInv, AtMethod
  <2> QED
    BY <1>2, <2>1 DEF SelfDelete, Return, Repo!SelfDelete, Repo!Executing, Repo!ByOwner,
       Authorised, Exists
<1>3. CASE DeleteAccount
  <2>1. CASE trie' = trie
    BY <1>3, <2>1 DEF DeleteAccount, Repo!Deleted
  <2>2. CASE trie' = EmptyTrie
    BY <1>3, <2>2, LogEmpty DEF DeleteAccount, Repo!Deleted, EmptyTrie
  <2> QED
    BY <1>3, <2>1, <2>2 DEF DeleteAccount
<1> QED
  BY <1>1, <1>2, <1>3

\* The contract panics only where GitRepo may refuse.
LEMMA PanicRefines ==
    ASSUME IInv, Panic
    PROVE  Repo!Refuse
<1>1. /\ answer = "pending" /\ answer' = "panicked" /\ call' = NoCall
      /\ trie' = trie /\ deletes' = deletes /\ trie \in TrieType
  BY DEF Panic, At, Rollback, IInv, TypeOK
<1>2. Repo!Refusable
  <2>1. CASE At("new") /\ Exists
    BY <2>1 DEF IInv, LoopInv, AtMethod, At, Exists, Repo!Refusable
  <2>2. CASE At("assert_owner") /\ ~(Exists /\ call.caller = trie.owner)
    BY <2>2 DEF IInv, LoopInv, AtMethod, At, Exists, Repo!Refusable, Repo!ByOwner
  <2>3. CASE At("store") /\ call.pack # NoPack /\ pack_count = MaxU32
    <3>1. call.method = "push" /\ trie.pack_count = MaxU32
      BY <2>3 DEF IInv, LoopInv, AtMethod, At, Untouched
    <3>2. Len(Log(trie.packs, trie.pack_count)) = MaxU32
      BY <1>1, <3>1, LogIsSeq DEF IInv, PackLogDense, TrieType
    <3> QED
      BY <2>3, <3>1, <3>2, Constants DEF Repo!Refusable, Repo!Fits
  <2>4. CASE At("refs") /\ i < Len(call.ups) /\ ~Matches(call.ups[i + 1])
    <3>1. call.method = "push" /\ InPush /\ Len(call.ups) \in Nat /\ i \in Nat
      BY <2>4, CallFields DEF IInv, LoopInv, AtMethod, At, TypeOK
    <3>2. call.ups[i + 1].old
            # Repo!RefsAfter(trie.refs, call.ups, i)[call.ups[i + 1].name]
      BY <2>4, <3>1 DEF Matches, InPush
    <3>3. ~Repo!Accepted(trie.refs, call.ups, Len(call.ups))
      <4>1. i + 1 \in 1..Len(call.ups) /\ (i + 1) - 1 = i
        BY <2>4, <3>1
      <4> QED
        BY <3>2, <4>1 DEF Repo!Accepted
    <3> QED
      BY <3>1, <3>3 DEF Repo!Refusable
  <2> QED
    BY <2>1, <2>2, <2>3, <2>4 DEF Panic
<1> QED
  BY <1>1, <1>2 DEF Repo!Refuse

LEMMA NextRefines == IInv /\ [Next]_vars => [Repo!Next]_(Repo!vars)
<1> SUFFICES ASSUME IInv, [Next]_vars
             PROVE  Repo!Next \/ UNCHANGED Repo!vars
  OBVIOUS
<1>1. CASE \E c \in Calls : Receive(c)
  BY <1>1 DEF Receive, Repo!Next, Repo!Receive
<1>2. CASE AssertOwner \/ StorePack \/ UpdateRef \/ RemovePack \/ CollectKeys \/ RemoveRef
  BY <1>2, Hidden DEF AssertOwner, StorePack, UpdateRef, RemovePack, CollectKeys, RemoveRef
<1>3. CASE ReturnFromPush
  BY <1>3, PushRefines DEF Repo!Next
<1>4. CASE ReturnFromClear
  BY <1>4, ClearRefines DEF Repo!Next
<1>5. CASE New \/ SelfDelete \/ DeleteAccount
  BY <1>5, LifecycleRefines DEF Repo!Next
<1>6. CASE Panic
  BY <1>6, PanicRefines DEF Repo!Next
<1>7. CASE OutOfGas
  BY <1>7 DEF OutOfGas, Rollback, Repo!Next, Repo!Abort
<1>8. CASE UNCHANGED vars
  BY <1>8, Hidden DEF vars
<1> QED
  BY <1>1, <1>2, <1>3, <1>4, <1>5, <1>6, <1>7, <1>8 DEF Next, Step

\* The contract, one loop iteration a step and any receipt cut short anywhere,
\* implements the atomic repository.
THEOREM Refinement == Spec => RepoSpec
<1>1. IInv /\ [Next]_vars => [Repo!Next]_(Repo!vars)
  BY NextRefines
<1> QED
  BY <1>1, InitRefines, Invariance, PTL DEF Spec, RepoSpec, Repo!Spec

-----------------------------------------------------------------------------
(* What get_packs answers *)

\* The recursion of PacksFound has a function that satisfies it.
LEMMA PacksFoundDef ==
    ASSUME NEW from \in Nat
    PROVE  \E found : /\ found = [n \in Nat |->
                              IF n <= from THEN <<>>
                              ELSE IF trie.packs[n - 1] = NoPack THEN found[n - 1]
                              ELSE Append(found[n - 1], trie.packs[n - 1])]
                     /\ \A until \in Nat : PacksFound(from, until) = found[until]
<1> DEFINE V == Seq({trie.packs[k] : k \in Nat})
           m == [n \in Nat |-> n]
           body(f, n) == IF n <= from THEN <<>>
                         ELSE IF trie.packs[n - 1] = NoPack THEN f[n - 1]
                         ELSE Append(f[n - 1], trie.packs[n - 1])
           G == [n \in Nat |-> [f \in [Nat -> V] |-> body(f, n)]]
<1>1. <<>> \in V
  OBVIOUS
<1>2. ASSUME NEW n \in Nat, NEW f \in [Nat -> V] PROVE body(f, n) \in V
  <2>1. CASE n <= from
    BY <1>1, <2>1
  <2>2. CASE ~(n <= from)
    <3>1. n - 1 \in Nat
      BY <2>2
    <3>2. f[n - 1] \in V /\ trie.packs[n - 1] \in {trie.packs[k] : k \in Nat}
      BY <3>1
    <3>3. Append(f[n - 1], trie.packs[n - 1]) \in V
      <4> HIDE DEF body
      <4> QED BY <3>2, AppendProperties
    <3> HIDE DEF V
    <3> QED BY <2>2, <3>2, <3>3
  <2> QED BY <2>1, <2>2
<1>3. G \in [Nat -> [[Nat -> V] -> V]]
  <2> HIDE DEF V, body
  <2> QED BY <1>2
<1>4. ASSUME NEW n \in Nat, NEW f \in [Nat -> V], NEW g \in [Nat -> V],
             \A k \in Nat : m[k] < m[n] => f[k] = g[k]
      PROVE  G[n][f] = G[n][g]
  <2>1. n > 0 => n - 1 \in Nat /\ m[n - 1] < m[n]
    OBVIOUS
  <2>2. n > 0 => f[n - 1] = g[n - 1]
    BY <1>4, <2>1
  <2>3. body(f, n) = body(g, n)
    BY <2>2
  <2> HIDE DEF V, body
  <2> QED BY <2>3
<1>5. IsRecursion(Nat, V, m, G)
  <2>1. (\A n \in Nat : m[n] \in Nat) /\ V # {}
    BY <1>1
  <2> HIDE DEF V, m, G
  <2> QED BY <1>3, <1>4, <2>1 DEF IsRecursion
<1>6. PICK found \in [Nat -> V] : \A n \in Nat : found[n] = G[n][found]
  <2> HIDE DEF V, m, G
  <2> QED BY <1>5, RecursiveFunction
<1>7. found = [n \in Nat |-> body(found, n)]
  <2> HIDE DEF V, body
  <2> QED BY <1>6
<1> HIDE DEF V, G, m
<1> QED BY <1>7, Zenon DEF PacksFound

\* What is found in a log without holes is the log from the index on.
LEMMA PacksFoundDense ==
    ASSUME TypeOK, PackLogDense, NEW from \in Nat
    PROVE  PacksFound(from, trie.pack_count)
             = SubSeq(Log(trie.packs, trie.pack_count), from + 1, trie.pack_count)
<1> DEFINE count == trie.pack_count
           log == Log(trie.packs, count)
<1>1. PICK found : /\ found = [n \in Nat |->
                          IF n <= from THEN <<>>
                          ELSE IF trie.packs[n - 1] = NoPack THEN found[n - 1]
                          ELSE Append(found[n - 1], trie.packs[n - 1])]
                   /\ \A until \in Nat : PacksFound(from, until) = found[until]
  BY PacksFoundDef
<1>2. count \in Nat /\ count \in U32 /\ trie.packs \in [U32 -> Packs \cup {NoPack}]
  BY Constants DEF TypeOK, TrieType, U32
<1>3. log \in Seq(Packs) /\ Len(log) = count
  BY <1>2, LogIsSeq DEF PackLogDense
<1>4. \A n \in Nat : n > 0 /\ n <= count => log[n] = trie.packs[n - 1] /\ trie.packs[n - 1] # NoPack
  <2>1. \A n \in Nat : n > 0 /\ n <= count => n - 1 \in U32 /\ n - 1 < count
    BY <1>2, Constants DEF U32
  <2> QED BY <1>2, <2>1 DEF PackLogDense, Dense, Log
<1> HIDE DEF log, count
<1> DEFINE P == {n \in Nat : n <= count => found[n] = SubSeq(log, from + 1, n)}
<1>5. 0 \in P
  <2>1. found[0] = <<>>
    BY <1>1
  <2>2. SubSeq(log, from + 1, 0) = <<>>
    BY <1>3
  <2> QED BY <2>1, <2>2
<1>6. ASSUME NEW n \in Nat, n \in P PROVE n + 1 \in P
  <2> SUFFICES ASSUME n + 1 <= count PROVE found[n + 1] = SubSeq(log, from + 1, n + 1)
    OBVIOUS
  <2>1. CASE n + 1 <= from
    BY <1>1, <1>3, <2>1
  <2>2. CASE ~(n + 1 <= from)
    <3>1. found[n] = SubSeq(log, from + 1, n)
      BY <1>2, <1>6
    <3>2. (n + 1) - 1 = n /\ log[n + 1] = trie.packs[n] /\ trie.packs[n] # NoPack
      BY <1>4
    <3>3. found[n + 1] = Append(found[n], trie.packs[n])
      BY <1>1, <2>2, <3>2
    <3>4. from + 1 \in 1..(n + 1) /\ n + 1 \in 1..Len(log)
      BY <1>2, <1>3, <2>2
    <3>5. SubSeq(log, from + 1, n + 1) = Append(SubSeq(log, from + 1, n), log[n + 1])
      BY <1>2, <1>3, <3>4
    <3> QED BY <3>1, <3>2, <3>3, <3>5
  <2> QED BY <2>1, <2>2
<1>7. count \in P
  <2> HIDE DEF P
  <2> QED BY <1>2, <1>5, <1>6, NaturalInduction
<1>8. found[count] = SubSeq(log, from + 1, count)
  BY <1>2, <1>7
<1>9. PacksFound(from, count) = found[count]
  BY <1>1, <1>2, Zenon
<1> QED BY <1>8, <1>9 DEF count, log

\* get_packs answers with every pack from its index on, in order, for any
\* number of packs: no pack it looks up is missing.
THEOREM GetPacksAnswersAll == Spec => []GetPacksIsSuffix
<1>1. IInv => GetPacksIsSuffix
  BY PacksFoundDense, Constants DEF IInv, GetPacksIsSuffix, GetPacks, U32
<1> QED
  BY <1>1, Invariance, PTL
=============================================================================
