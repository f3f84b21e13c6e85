---------------------------- MODULE FactoryProofs ----------------------------
(***************************************************************************)
(* Proofs about the factory, for any number of calls, users and names and  *)
(* any hashes.  An account that exists was created by a call whose record  *)
(* does not change any more; with what a pending batch carries this gives  *)
(* pinning and the reasons of a failure, and with the receipts under way   *)
(* that a deletion is its owner's.                                         *)
(***************************************************************************)
EXTENDS Factory, Induction, TLAPS

\* A batch on its way carries the hash that was current, and can pay the fee.
Promised ==
    \A c \in Phase("pending") : call[c].code = call[c].asked /\ call[c].deposit >= MinDeposit

\* The receipts that wait for a repository created without any are its owner's.
FreshDeletes ==
    \A n \in Names : repo[n] # NoRepo /\ repo[n].fresh =>
        \A i \in 1..Len(deletes[n]) : deletes[n][i] = repo[n].owner

Inv == TypeOK /\ Promised /\ RepoIsPinned /\ FailsForAReason /\ FreshDeletes

\* A call that was made has the record of a creation.
LEMMA CallType ==
    ASSUME TypeOK, NEW c \in Calls, call[c].phase # "idle"
    PROVE  call[c] \in Creations
BY DEF TypeOK

\* The initial state.
LEMMA InitInv == Init => Inv
<1> SUFFICES ASSUME Init PROVE Inv
  OBVIOUS
<1>1. TypeOK
  BY FactoryConstants, RepoConstants DEF Init, TypeOK
<1>2. Promised /\ RepoIsPinned /\ FailsForAReason /\ FreshDeletes
  BY DEF Init, Promised, RepoIsPinned, FailsForAReason, FreshDeletes, Phase
<1> QED BY <1>1, <1>2 DEF Inv

\* Every step keeps the types.
LEMMA NextType ==
    ASSUME TypeOK, Promised, [Next]_vars
    PROVE  TypeOK'
<1>1. ASSUME NEW c \in Calls, NEW name \in Names \cup Dotted, NEW signer \in Users,
             NEW predecessor \in Predecessors, NEW deposit \in Deposits,
             CreateRepo(c, name, signer, predecessor, deposit)
      PROVE  TypeOK'
  BY <1>1 DEF TypeOK, CreateRepo, Creations
<1>2. ASSUME NEW a \in Predecessors, NEW hash \in Hashes, SetGlobalContractHash(a, hash)
      PROVE  TypeOK'
  BY <1>2 DEF TypeOK, SetGlobalContractHash
<1>3. ASSUME NEW c \in Calls, ExecuteBatch(c)
      PROVE  TypeOK'
  <2>1. call[c] \in Creations /\ call[c].deposit \in Nat
    BY <1>3, CallType, FactoryConstants DEF ExecuteBatch, Creations
  <2>2. call' \in [Calls -> Creations \cup {[phase |-> "idle"]}]
    <3>1. call' = [call EXCEPT ![c].phase = "created"] \/ call' = [call EXCEPT ![c].phase = "failed"]
      BY <1>3 DEF ExecuteBatch, BatchSucceeds, BatchFails
    <3>2. [call[c] EXCEPT !.phase = "created"] \in Creations
          /\ [call[c] EXCEPT !.phase = "failed"] \in Creations
      BY <2>1 DEF Creations
    <3> QED BY <3>1, <3>2 DEF TypeOK
  <2>3. CASE BatchSucceeds(c)
    <3>1. NewRepo(c) \in Repos /\ NewRepo(c).funds >= 0
      BY <2>1, <2>3, FactoryConstants DEF NewRepo, Repos, Creations, BatchSucceeds, ServiceFee
    <3>2. call[c].name \in Names
      BY <2>3 DEF BatchSucceeds, CanCreate
    <3>3. repo' \in [Names -> Repos \cup {NoRepo}] /\ \A n \in Names : repo'[n] # NoRepo => repo'[n].funds >= 0
      BY <2>3, <3>1, <3>2 DEF BatchSucceeds, TypeOK
    <3>4. received' \in [Accounts -> Nat]
      BY <2>3 DEF BatchSucceeds, TypeOK, Accounts, ServiceFee
    <3> QED BY <2>2, <2>3, <3>3, <3>4 DEF BatchSucceeds, TypeOK
  <2>4. CASE BatchFails(c)
    <3>1. received' \in [Accounts -> Nat]
      BY <2>1, <2>4 DEF BatchFails, TypeOK, Accounts
    <3> QED BY <2>2, <2>4, <3>1 DEF BatchFails, TypeOK
  <2> QED BY <1>3, <2>3, <2>4 DEF ExecuteBatch
<1>4. ASSUME NEW n \in Names, DeleteAccount(n)
      PROVE  TypeOK'
  <2>1. Head(deletes[n]) \in Users /\ Tail(deletes[n]) \in Seq(Users)
    BY <1>4 DEF DeleteAccount, TypeOK
  <2>2. Head(deletes[n]) \in Accounts
    BY <2>1 DEF Accounts, Predecessors
  <2>3. repo[n] # NoRepo => repo[n].funds \in Nat
    BY DEF TypeOK, Repos
  <2>4. received' \in [Accounts -> Nat]
    BY <1>4, <2>2, <2>3 DEF DeleteAccount, TypeOK
  <2>5. repo' \in [Names -> Repos \cup {NoRepo}] /\ \A m \in Names : repo'[m] # NoRepo => repo'[m].funds >= 0
    BY <1>4 DEF DeleteAccount, TypeOK
  <2> QED BY <1>4, <2>1, <2>4, <2>5 DEF DeleteAccount, TypeOK
<1>5. ASSUME NEW n \in Names, NEW a \in Predecessors, SelfDelete(n, a)
      PROVE  TypeOK'
  <2>1. repo[n].owner \in Users
    BY <1>5 DEF SelfDelete, TypeOK, Repos
  <2> QED BY <1>5, <2>1 DEF SelfDelete, TypeOK
<1>6. CASE UNCHANGED vars
  BY <1>6 DEF vars, TypeOK
<1> QED BY <1>1, <1>2, <1>3, <1>4, <1>5, <1>6 DEF Next, Create, SetHash, EndRepo

\* Every step keeps what pending batches carry, pinning and the reasons.
LEMMA NextCreation ==
    ASSUME Inv, [Next]_vars
    PROVE  (Promised /\ RepoIsPinned /\ FailsForAReason)'
<1> USE DEF Inv
<1>1. ASSUME NEW c \in Calls, NEW name \in Names \cup Dotted, NEW signer \in Users,
             NEW predecessor \in Predecessors, NEW deposit \in Deposits,
             CreateRepo(c, name, signer, predecessor, deposit)
      PROVE  (Promised /\ RepoIsPinned /\ FailsForAReason)'
  <2>1. /\ \A d \in Calls : d # c => call'[d] = call[d]
        /\ call'[c].phase = "pending" /\ call'[c].code = call'[c].asked
        /\ call'[c].deposit >= MinDeposit
    BY <1>1 DEF CreateRepo, TypeOK
  <2>2. call[c].phase = "idle" /\ UNCHANGED repo
    BY <1>1 DEF CreateRepo
  <2>3. Phase("created")' = Phase("created") /\ Phase("failed")' = Phase("failed")
    BY <2>1, <2>2 DEF Phase
  <2>4. \A d \in Phase("created") \cup Phase("failed") : call'[d] = call[d]
    BY <2>1, <2>2 DEF Phase
  <2>5. Promised'
    BY <2>1 DEF Promised, Phase
  <2>6. RepoIsPinned'
    BY <2>2, <2>3, <2>4 DEF RepoIsPinned, PinnedTo
  <2>7. FailsForAReason'
    BY <2>3, <2>4 DEF FailsForAReason, HasCode
  <2> QED BY <2>5, <2>6, <2>7
<1>2. ASSUME NEW a \in Predecessors, NEW hash \in Hashes, SetGlobalContractHash(a, hash)
      PROVE  (Promised /\ RepoIsPinned /\ FailsForAReason)'
  BY <1>2 DEF SetGlobalContractHash, Promised, RepoIsPinned, FailsForAReason, Phase, HasCode, PinnedTo
<1>3. ASSUME NEW c \in Calls, ExecuteBatch(c)
      PROVE  (Promised /\ RepoIsPinned /\ FailsForAReason)'
  <2>0. c \in Phase("pending") /\ call[c] \in Creations
    BY <1>3, CallType DEF ExecuteBatch, Phase
  <2>1. /\ \A d \in Calls : d # c => call'[d] = call[d]
        /\ call'[c].code = call[c].code /\ call'[c].asked = call[c].asked
        /\ call'[c].name = call[c].name /\ call'[c].signer = call[c].signer
    BY <1>3, <2>0 DEF ExecuteBatch, BatchSucceeds, BatchFails, TypeOK, Creations
  <2>2. call'[c].phase = IF BatchSucceeds(c) THEN "created" ELSE "failed"
    BY <1>3, <2>0 DEF ExecuteBatch, BatchSucceeds, BatchFails, TypeOK, Creations
  <2>3. Promised'
    BY <2>1, <2>2 DEF Promised, Phase
  <2>4. \A d \in Phase("created") : d \in Phase("created")' /\ call'[d] = call[d]
    BY <2>0, <2>1 DEF Phase
  <2>5. CASE BatchSucceeds(c)
    <3>1. RepoIsPinned'
      <4> SUFFICES ASSUME NEW n \in Names, repo'[n] # NoRepo
                   PROVE  \E d \in Phase("created")' : call'[d].name = n /\ PinnedTo(repo[n], d)'
        BY DEF RepoIsPinned
      <4>1. CASE n = call[c].name
        <5>1. repo'[n] = NewRepo(c)
          BY <2>5, <4>1 DEF BatchSucceeds, TypeOK
        <5>2. c \in Phase("created")'
          BY <2>2, <2>5 DEF Phase
        <5>3. call[c].code = call[c].asked
          BY <2>0 DEF Promised
        <5> QED BY <2>1, <4>1, <5>1, <5>2, <5>3 DEF NewRepo, PinnedTo
      <4>2. CASE n # call[c].name
        <5>1. repo'[n] = repo[n]
          BY <2>5, <4>2 DEF BatchSucceeds, TypeOK
        <5> QED BY <2>4, <5>1 DEF RepoIsPinned, PinnedTo
      <4> QED BY <4>1, <4>2
    <3>2. FailsForAReason'
      BY <2>1, <2>2, <2>4, <2>5 DEF FailsForAReason, Phase, HasCode
    <3> QED BY <2>3, <3>1, <3>2
  <2>6. CASE ~BatchSucceeds(c)
    <3>0. BatchFails(c)
      BY <1>3, <2>6 DEF ExecuteBatch
    <3>1. RepoIsPinned'
      BY <2>4, <3>0 DEF BatchFails, RepoIsPinned, PinnedTo
    <3>2. call[c].name \in Dotted \/ ~HasCode(c) \/ \E d \in Phase("created") : call[d].name = call[c].name
      <4>0. call[c].deposit \in Nat /\ call[c].deposit >= MinDeposit
        BY <2>0, FactoryConstants DEF Promised, Creations
      <4>1. call[c].deposit >= ServiceFee
        BY <4>0 DEF MinDeposit, ServiceFee
      <4>2. call[c].name \in Names \cup Dotted
        BY <2>0 DEF Creations
      <4> QED BY <3>0, <4>1, <4>2 DEF BatchFails, CanCreate, RepoIsPinned
    <3>3. FailsForAReason'
      BY <2>1, <2>2, <2>4, <2>6, <3>2 DEF FailsForAReason, Phase, HasCode
    <3> QED BY <2>3, <3>1, <3>3
  <2> QED BY <2>5, <2>6
<1>4. ASSUME NEW n \in Names, DeleteAccount(n)
      PROVE  (Promised /\ RepoIsPinned /\ FailsForAReason)'
  <2>1. UNCHANGED call /\ \A m \in Names : repo'[m] \in {repo[m], NoRepo}
    BY <1>4 DEF DeleteAccount, TypeOK
  <2> QED BY <2>1 DEF Promised, RepoIsPinned, FailsForAReason, Phase, HasCode, PinnedTo
<1>5. ASSUME NEW n \in Names, NEW a \in Predecessors, SelfDelete(n, a)
      PROVE  (Promised /\ RepoIsPinned /\ FailsForAReason)'
  BY <1>5 DEF SelfDelete, Promised, RepoIsPinned, FailsForAReason, Phase, HasCode, PinnedTo
<1>6. CASE UNCHANGED vars
  BY <1>6 DEF vars, Promised, RepoIsPinned, FailsForAReason, Phase, HasCode, PinnedTo
<1> QED BY <1>1, <1>2, <1>3, <1>4, <1>5, <1>6 DEF Next, Create, SetHash, EndRepo

\* Every step keeps the receipts of a fresh repository its owner's.
LEMMA NextDeletes ==
    ASSUME Inv, [Next]_vars
    PROVE  FreshDeletes'
<1> USE DEF Inv
<1>1. ASSUME NEW c \in Calls, ExecuteBatch(c)
      PROVE  FreshDeletes'
  <2> SUFFICES ASSUME NEW n \in Names, repo'[n] # NoRepo, repo'[n].fresh,
                      NEW i \in 1..Len(deletes'[n])
               PROVE  deletes'[n][i] = repo'[n].owner
    BY DEF FreshDeletes
  <2>1. UNCHANGED deletes
    BY <1>1 DEF ExecuteBatch, BatchSucceeds, BatchFails
  <2>2. CASE repo'[n] = repo[n]
    BY <2>1, <2>2 DEF FreshDeletes
  <2>3. CASE repo'[n] # repo[n]
    <3>1. repo'[n] = NewRepo(c) /\ n = call[c].name
      BY <1>1, <2>3 DEF ExecuteBatch, BatchSucceeds, BatchFails, TypeOK
    <3>2. deletes[n] = <<>>
      <4>1. NewRepo(c).fresh = (deletes[call[c].name] = <<>>)
        BY DEF NewRepo
      <4> QED BY <3>1, <4>1
    <3> QED BY <2>1, <3>2
  <2> QED BY <2>2, <2>3
<1>2. ASSUME NEW n \in Names, DeleteAccount(n)
      PROVE  FreshDeletes'
  <2>1. repo'[n] = NoRepo
    BY <1>2 DEF DeleteAccount, TypeOK
  <2>2. \A m \in Names : m # n => repo'[m] = repo[m] /\ deletes'[m] = deletes[m]
    BY <1>2 DEF DeleteAccount, TypeOK
  <2> QED BY <2>1, <2>2 DEF FreshDeletes
<1>3. ASSUME NEW n \in Names, NEW a \in Predecessors, SelfDelete(n, a)
      PROVE  FreshDeletes'
  <2>1. deletes'[n] = Append(deletes[n], repo[n].owner) /\ deletes[n] \in Seq(Users)
    BY <1>3 DEF SelfDelete, TypeOK
  <2>2. \A i \in 1..Len(deletes'[n]) :
           deletes'[n][i] = IF i <= Len(deletes[n]) THEN deletes[n][i] ELSE repo[n].owner
    BY <1>3, <2>1 DEF SelfDelete, TypeOK, Repos
  <2>3. \A m \in Names : m # n => deletes'[m] = deletes[m]
    BY <1>3 DEF SelfDelete, TypeOK
  <2>4. UNCHANGED repo
    BY <1>3 DEF SelfDelete
  <2>5. Len(deletes[n]) \in Nat
    BY <2>1
  <2> QED BY <2>2, <2>3, <2>4, <2>5 DEF FreshDeletes
<1>4. CASE UNCHANGED <<repo, deletes>>
  BY <1>4 DEF FreshDeletes
<1>5. Create \/ SetHash \/ UNCHANGED vars => UNCHANGED <<repo, deletes>>
  BY DEF Create, CreateRepo, SetHash, SetGlobalContractHash, vars
<1> QED BY <1>1, <1>2, <1>3, <1>4, <1>5 DEF Next, EndRepo

-----------------------------------------------------------------------------
\* The factory's state is well-typed: an owner signs transactions, and no
\* repository is in debt for its fee.
THEOREM TypeCorrect == Spec => []TypeOK
<1>1. Inv /\ [Next]_vars => Inv'
  BY NextType, NextCreation, NextDeletes DEF Inv
<1>2. Inv => TypeOK
  BY DEF Inv
<1> QED BY InitInv, <1>1, <1>2, PTL DEF Spec

\* A repository has the code that was current when create_repo was called, and
\* the signer of that call as its owner.
THEOREM Pinned == Spec => []RepoIsPinned
<1>1. Inv /\ [Next]_vars => Inv'
  BY NextType, NextCreation, NextDeletes DEF Inv
<1>2. Inv => RepoIsPinned
  BY DEF Inv
<1> QED BY InitInv, <1>1, <1>2, PTL DEF Spec

\* A batch of create_repo fails only for one of three reasons.
THEOREM Reasons == Spec => []FailsForAReason
<1>1. Inv /\ [Next]_vars => Inv'
  BY NextType, NextCreation, NextDeletes DEF Inv
<1>2. Inv => FailsForAReason
  BY DEF Inv
<1> QED BY InitInv, <1>1, <1>2, PTL DEF Spec

\* A repository created while no deletion of its name was under way is deleted
\* only for its owner, who receives what it has.
THEOREM OwnDeletion == Spec => DeletedForItsOwner
<1>1. Inv /\ [Next]_vars => Inv'
  BY NextType, NextCreation, NextDeletes DEF Inv
<1>2. ASSUME Inv, [Next]_vars
      PROVE  [\A n \in Names : repo[n] # NoRepo /\ repo[n].fresh /\ repo'[n] = NoRepo
                => received'[repo[n].owner] = received[repo[n].owner] + repo[n].funds]_vars
  <2> SUFFICES ASSUME NEW n \in Names, repo[n] # NoRepo, repo[n].fresh, repo'[n] = NoRepo
               PROVE  received'[repo[n].owner] = received[repo[n].owner] + repo[n].funds
    OBVIOUS
  <2>1. \A c \in Calls : ~ExecuteBatch(c)
    <3> SUFFICES ASSUME NEW c \in Calls, ExecuteBatch(c) PROVE FALSE
      OBVIOUS
    <3>1. repo'[n] \in {repo[n], NewRepo(c)}
      BY <1>2 DEF ExecuteBatch, BatchSucceeds, BatchFails, Inv, TypeOK
    <3>2. call[c].phase # "idle"
      BY DEF ExecuteBatch
    <3>3. NewRepo(c) \in Repos
      <4>1. call[c] \in Creations /\ call[c].deposit \in Nat
        BY <1>2, <3>2, CallType, FactoryConstants DEF Inv, Creations
      <4> QED BY <4>1, FactoryConstants DEF Creations, Repos, NewRepo, ServiceFee
    <3> QED BY <3>1, <3>3, RepoConstants
  <2>2. ~(Create \/ SetHash \/ UNCHANGED vars) /\ \A m \in Names, a \in Predecessors : ~SelfDelete(m, a)
    BY DEF Create, CreateRepo, SetHash, SetGlobalContractHash, SelfDelete, vars
  <2>3. PICK m \in Names : DeleteAccount(m)
    BY <1>2, <2>1, <2>2 DEF Next, EndRepo
  <2>4. m = n
    BY <1>2, <2>3 DEF DeleteAccount, Inv, TypeOK
  <2>5. Head(deletes[n]) = repo[n].owner
    <3>1. deletes[n] \in Seq(Users) /\ deletes[n] # <<>>
      BY <1>2, <2>3, <2>4 DEF DeleteAccount, Inv, TypeOK
    <3>2. 1 \in 1..Len(deletes[n]) /\ Head(deletes[n]) = deletes[n][1]
      BY <3>1
    <3> QED BY <1>2, <3>2 DEF Inv, FreshDeletes
  <2>6. repo[n].owner \in Accounts
    BY <1>2 DEF Inv, TypeOK, Repos, Accounts, Predecessors
  <2> QED BY <1>2, <2>3, <2>4, <2>5, <2>6 DEF DeleteAccount, Inv, TypeOK
<1> QED BY InitInv, <1>1, <1>2, PTL DEF Spec, DeletedForItsOwner

\* Nothing that happens to a repository, short of its deletion, changes its
\* owner or its code: no later batch takes its name.
THEOREM NotTakenOver == Spec => NoTakeover
<1>1. Inv /\ [Next]_vars => Inv'
  BY NextType, NextCreation, NextDeletes DEF Inv
<1>2. ASSUME Inv, [Next]_vars
      PROVE  [\A n \in Names : repo[n] # NoRepo => repo'[n] \in {repo[n], NoRepo}]_vars
  <2> SUFFICES ASSUME NEW n \in Names, repo[n] # NoRepo
               PROVE  repo'[n] \in {repo[n], NoRepo}
    OBVIOUS
  <2>1. ASSUME NEW c \in Calls, ExecuteBatch(c)
        PROVE  repo'[n] = repo[n]
    <3>1. CASE BatchSucceeds(c)
      <4>1. call[c].name # n
        BY <3>1 DEF BatchSucceeds, CanCreate
      <4> QED BY <1>2, <3>1, <4>1 DEF BatchSucceeds, Inv, TypeOK
    <3>2. CASE BatchFails(c)
      BY <3>2 DEF BatchFails
    <3> QED BY <2>1, <3>1, <3>2 DEF ExecuteBatch
  <2>2. ASSUME NEW m \in Names, DeleteAccount(m)
        PROVE  repo'[n] \in {repo[n], NoRepo}
    BY <1>2, <2>2 DEF DeleteAccount, Inv, TypeOK
  <2>3. ASSUME NEW m \in Names, NEW a \in Predecessors, SelfDelete(m, a)
        PROVE  repo'[n] = repo[n]
    BY <2>3 DEF SelfDelete
  <2>4. Create \/ SetHash \/ UNCHANGED vars => repo'[n] = repo[n]
    BY DEF Create, CreateRepo, SetHash, SetGlobalContractHash, vars
  <2> QED BY <1>2, <2>1, <2>2, <2>3, <2>4 DEF Next, EndRepo
<1> QED BY InitInv, <1>1, <1>2, PTL DEF Spec, NoTakeover

-----------------------------------------------------------------------------
(* The deposits *)

Made == Calls \ Phase("idle")

\* Only finitely many calls were made and finitely many repositories exist, so
\* that their tokens have a sum.
Accounted ==
    /\ IsFiniteSet(Made)
    /\ IsFiniteSet(Existing)
    /\ DepositsAccounted

LEMMA AccountsFinite == IsFiniteSet(Accounts) /\ "factory" \in Accounts /\ "fee" \in Accounts
<1> DEFINE U == Users \cup Relays
           T == U \cup {"factory"}
<1>1. IsFiniteSet(U)
  BY FactoryConstants
<1> HIDE DEF U
<1>2. IsFiniteSet(T)
  BY <1>1, FS_AddElement
<1> HIDE DEF T
<1>3. IsFiniteSet(T \cup {"fee"})
  BY <1>2, FS_AddElement
<1>4. Accounts = T \cup {"fee"}
  BY DEF Accounts, Predecessors, T, U
<1> QED BY <1>3, <1>4 DEF Accounts

\* The deposits of some calls, those that a record of all calls has.
DepositsOf(calls, S) == SumFunctionOnSet([c \in S |-> calls[c].deposit], S)

LEMMA AccountsInSteps ==
    /\ DepositsAccounted <=>
          /\ received["factory"] = DepositsOf(call, Phase("failed"))
          /\ DepositsOf(call, Made) = DepositsOf(call, Phase("pending")) + Held + Received
    /\ DepositsAccounted' <=>
          /\ received'["factory"] = DepositsOf(call', Phase("failed")')
          /\ DepositsOf(call', Made') = DepositsOf(call', Phase("pending")') + Held' + Received'
BY DEF DepositsAccounted, Deposited, DepositsOf, Made

\* The calls of a phase are finitely many, and have deposits.
LEMMA DepositsInt ==
    ASSUME TypeOK, IsFiniteSet(Made), NEW S, S \subseteq Made
    PROVE  IsFiniteSet(S) /\ \A c \in S : [d \in S |-> call[d].deposit][c] \in Int
<1>1. IsFiniteSet(S)
  BY FS_Subset
<1>2. ASSUME NEW c \in S PROVE call[c].deposit \in Int
  <2>1. call[c] \in Creations
    BY CallType DEF Made, Phase
  <2>2. call[c].deposit \in Deposits
    BY <2>1 DEF Creations
  <2>3. Deposits \subseteq Nat
    BY FactoryConstants
  <2>4. call[c].deposit \in Nat
    BY <2>2, <2>3, Zenon
  <2>5. \A x \in Nat : x \in Int
    OBVIOUS
  <2> QED BY <2>4, <2>5, Zenon
<1> QED BY <1>1, <1>2

\* A set of calls whose records stay has the same deposits.
LEMMA DepositsStay ==
    ASSUME TypeOK, IsFiniteSet(Made), NEW S, S \subseteq Made,
           \A c \in S : call'[c].deposit = call[c].deposit
    PROVE  DepositsOf(call', S) = DepositsOf(call, S) /\ DepositsOf(call, S) \in Int
<1> DEFINE f == [c \in S |-> call[c].deposit]
           g == [c \in S |-> call'[c].deposit]
<1>1. IsFiniteSet(S) /\ \A c \in S : f[c] \in Int /\ g[c] = f[c]
  BY DepositsInt
<1> HIDE DEF f, g
<1>2. SumFunctionOnSet(f, S) = SumFunctionOnSet(g, S) /\ SumFunctionOnSet(f, S) \in Int
  BY <1>1, SumEqual
<1> QED BY <1>2 DEF f, g, DepositsOf

\* One more call.
LEMMA DepositsWith ==
    ASSUME TypeOK, IsFiniteSet(Made), NEW S, S \subseteq Made, NEW c, c \notin S,
           \A d \in S : call'[d].deposit = call[d].deposit, call'[c].deposit \in Int
    PROVE  DepositsOf(call', S \cup {c}) = call'[c].deposit + DepositsOf(call, S) /\ DepositsOf(call, S) \in Int
<1> DEFINE T == S \cup {c}
           f == [d \in S |-> call[d].deposit]
           g == [d \in T |-> call'[d].deposit]
<1>1. IsFiniteSet(S) /\ \A d \in S : f[d] \in Int /\ g[d] = f[d]
  BY DepositsInt
<1>2. g[c] = call'[c].deposit /\ \A d \in S \cup {c} : g[d] \in Int
  BY <1>1
<1> HIDE DEF f, g
<1>3. SumFunctionOnSet(f, S) = SumFunctionOnSet(g, S) /\ SumFunctionOnSet(f, S) \in Int
  BY <1>1, SumEqual
<1>4. SumFunctionOnSet(g, S \cup {c}) = g[c] + SumFunctionOnSet(g, S)
  BY <1>1, <1>2, SumWith
<1> QED BY <1>2, <1>3, <1>4 DEF f, g, DepositsOf

\* One call less.
LEMMA DepositsWithout ==
    ASSUME TypeOK, IsFiniteSet(Made), NEW S, S \subseteq Made, NEW c \in S,
           \A d \in S : call'[d].deposit = call[d].deposit
    PROVE  DepositsOf(call, S) = call[c].deposit + DepositsOf(call', S \ {c}) /\ DepositsOf(call', S \ {c}) \in Int
<1> DEFINE T == S \ {c}
           f == [d \in S |-> call[d].deposit]
           g == [d \in T |-> call'[d].deposit]
<1>1. IsFiniteSet(S) /\ \A d \in S : f[d] \in Int
  BY DepositsInt
<1>2. IsFiniteSet(T) /\ \A d \in T : f[d] \in Int /\ g[d] = f[d]
  BY <1>1, FS_RemoveElement
<1>3. f[c] = call[c].deposit
  OBVIOUS
<1> HIDE DEF f, g
<1>4. SumFunctionOnSet(f, S) = f[c] + SumFunctionOnSet(f, T)
  BY <1>1, SumWithout
<1>5. SumFunctionOnSet(f, T) = SumFunctionOnSet(g, T) /\ SumFunctionOnSet(f, T) \in Int
  BY <1>2, SumEqual
<1> QED BY <1>3, <1>4, <1>5 DEF f, g, DepositsOf

\* An account receives tokens.
LEMMA ReceivedMore ==
    ASSUME TypeOK, NEW a \in Accounts, NEW k \in Int,
           received' = [received EXCEPT ![a] = @ + k]
    PROVE  Received' = Received + k /\ Received \in Int
<1>1. IsFiniteSet(Accounts)
  BY AccountsFinite
<1>2. \A x \in Accounts : received[x] \in Int /\ received'[x] \in Int
  BY DEF TypeOK
<1>3. received'[a] = received[a] + k /\ \A x \in Accounts \ {a} : received'[x] = received[x]
  BY DEF TypeOK
<1>4. SumFunctionOnSet(received', Accounts)
        = SumFunctionOnSet(received, Accounts) + (received'[a] - received[a])
  <2>1. \A f, g : (\A x \in Accounts : f[x] \in Int /\ g[x] \in Int) /\ (\A x \in Accounts \ {a} : g[x] = f[x])
           => SumFunctionOnSet(g, Accounts) = SumFunctionOnSet(f, Accounts) + (g[a] - f[a])
    BY <1>1, SumChange
  <2> QED BY <1>2, <1>3, <2>1
<1>5. SumFunctionOnSet(received, Accounts) \in Int
  BY <1>1, <1>2, SumEqual
<1> QED BY <1>2, <1>3, <1>4, <1>5 DEF Received

LEMMA ReceivedInt == ASSUME TypeOK PROVE Received \in Int
<1>1. \A x \in Accounts : received[x] \in Int
  BY DEF TypeOK
<1> QED BY <1>1, AccountsFinite, SumEqual DEF Received

\* A repository is created.
LEMMA HeldWith ==
    ASSUME TypeOK, IsFiniteSet(Existing), NEW n \in Names, repo[n] = NoRepo,
           NEW r, r # NoRepo, r.funds \in Int, repo' = [repo EXCEPT ![n] = r]
    PROVE  IsFiniteSet(Existing') /\ Held' = r.funds + Held /\ Held \in Int
<1> DEFINE S == Existing
           T == Existing \cup {n}
           f == [x \in S |-> repo[x].funds]
           g == [x \in T |-> repo'[x].funds]
<1>1. Existing' = T /\ n \notin S
  BY DEF Existing, TypeOK
<1>2. \A x \in S : f[x] \in Int /\ g[x] = f[x]
  BY DEF Existing, TypeOK, Repos
<1>3. g[n] = r.funds /\ \A x \in S \cup {n} : g[x] \in Int
  BY <1>2 DEF TypeOK
<1>4. Held = SumFunctionOnSet(f, S) /\ Held' = SumFunctionOnSet(g, S \cup {n})
  BY <1>1 DEF Held
<1>5. IsFiniteSet(S) /\ IsFiniteSet(S \cup {n})
  BY FS_AddElement
<1> HIDE DEF f, g, S
<1>6. SumFunctionOnSet(f, S) = SumFunctionOnSet(g, S) /\ SumFunctionOnSet(f, S) \in Int
  BY <1>2, <1>5, SumEqual
<1>7. SumFunctionOnSet(g, S \cup {n}) = g[n] + SumFunctionOnSet(g, S)
  BY <1>1, <1>3, <1>5, SumWith
<1> QED BY <1>1, <1>3, <1>4, <1>5, <1>6, <1>7 DEF S

\* A repository is deleted.
LEMMA HeldWithout ==
    ASSUME TypeOK, IsFiniteSet(Existing), NEW n \in Names, repo[n] # NoRepo,
           repo' = [repo EXCEPT ![n] = NoRepo]
    PROVE  IsFiniteSet(Existing') /\ Held = repo[n].funds + Held' /\ Held' \in Int
<1> DEFINE S == Existing
           T == S \ {n}
           f == [x \in S |-> repo[x].funds]
           g == [x \in T |-> repo'[x].funds]
<1>1. Existing' = T /\ n \in S
  BY DEF Existing, TypeOK
<1>2. \A x \in S : f[x] \in Int
  BY DEF Existing, TypeOK, Repos
<1>3. f[n] = repo[n].funds /\ \A x \in T : f[x] \in Int /\ g[x] = f[x]
  BY <1>1, <1>2 DEF TypeOK
<1>4. Held = SumFunctionOnSet(f, S) /\ Held' = SumFunctionOnSet(g, T)
  BY <1>1 DEF Held
<1>5. IsFiniteSet(S) /\ IsFiniteSet(S \ {n})
  BY FS_RemoveElement
<1> HIDE DEF f, g, S
<1>6. SumFunctionOnSet(f, S) = f[n] + SumFunctionOnSet(f, S \ {n})
  BY <1>1, <1>2, <1>5, SumWithout
<1> HIDE DEF T
<1>7. T = S \ {n}
  BY DEF T
<1>8. SumFunctionOnSet(f, T) = SumFunctionOnSet(g, T) /\ SumFunctionOnSet(f, T) \in Int
  BY <1>3, <1>5, <1>7, SumEqual
<1> QED BY <1>1, <1>3, <1>4, <1>5, <1>6, <1>7, <1>8

LEMMA HeldInt == ASSUME TypeOK, IsFiniteSet(Existing) PROVE Held \in Int
<1> DEFINE f == [x \in Existing |-> repo[x].funds]
<1>1. \A x \in Existing : f[x] \in Int
  BY DEF Existing, TypeOK, Repos
<1> HIDE DEF f
<1>2. SumFunctionOnSet(f, Existing) \in Int
  BY <1>1, SumEqual
<1> QED BY <1>2 DEF Held, f

LEMMA InitAccounted == Init => Accounted
<1> SUFFICES ASSUME Init PROVE Accounted
  OBVIOUS
<1>1. Made = {} /\ Phase("pending") = {} /\ Phase("failed") = {} /\ Existing = {}
  BY DEF Init, Made, Phase, Existing
<1>2. \A S : S = {} => DepositsOf(call, S) = 0
  BY SumEmpty DEF DepositsOf
<1>3. Held = 0
  BY <1>1, SumEmpty DEF Held
<1>4. Received = 0
  <2> DEFINE P == {S \in SUBSET Accounts : SumFunctionOnSet(received, S) = 0}
             m == [S \in SUBSET Accounts |-> Cardinality(S)]
             D == SUBSET Accounts
  <2>1. ASSUME NEW S \in D, \A T \in D : m[T] < m[S] => T \in P
        PROVE  S \in P
    <3>1. CASE S = {}
      BY <3>1, SumEmpty
    <3>2. CASE S # {}
      <4>1. PICK a \in S : TRUE
        BY <3>2
      <4>2. IsFiniteSet(S) /\ S \ {a} \in D /\ m[S \ {a}] < m[S]
        BY <4>1, AccountsFinite, Smaller
      <4>3. \A x \in S : received[x] \in Int /\ received[x] = 0
        BY DEF Init
      <4>4. SumFunctionOnSet(received, S) = received[a] + SumFunctionOnSet(received, S \ {a})
        BY <4>1, <4>2, <4>3, SumWithout
      <4>5. SumFunctionOnSet(received, S \ {a}) = 0
        BY <2>1, <4>2
      <4> QED BY <4>1, <4>3, <4>4, <4>5
    <3> QED BY <3>1, <3>2
  <2>2. \A S \in D : m[S] \in Nat
    BY AccountsFinite, Smaller
  <2> HIDE DEF P, m, D
  <2>3. D \subseteq P
    BY <2>1, <2>2, MeasureInduction
  <2> QED BY <2>3 DEF D, P, Received
<1>5. received["factory"] = 0
  BY AccountsFinite DEF Init
<1>6. IsFiniteSet({})
  BY FS_EmptySet
<1> QED BY <1>1, <1>2, <1>3, <1>4, <1>5, <1>6, AccountsInSteps DEF Accounted

\* The phases of the calls other than c stay.
LEMMA CreateAccounted ==
    ASSUME TypeOK, Accounted, NEW c \in Calls, NEW name \in Names \cup Dotted,
           NEW signer \in Users, NEW predecessor \in Predecessors, NEW deposit \in Deposits,
           CreateRepo(c, name, signer, predecessor, deposit)
    PROVE  Accounted'
<1>1. /\ call[c].phase = "idle" /\ call'[c].phase = "pending" /\ call'[c].deposit = deposit
      /\ \A d \in Calls : d # c => call'[d] = call[d]
      /\ UNCHANGED <<repo, received>>
  BY DEF CreateRepo, TypeOK
<1>2. /\ Made' = Made \cup {c} /\ Phase("pending")' = Phase("pending") \cup {c}
      /\ Phase("failed")' = Phase("failed")
      /\ c \notin Made /\ c \notin Phase("pending")
      /\ Phase("pending") \subseteq Made /\ Phase("failed") \subseteq Made
  BY <1>1 DEF Made, Phase
<1>3. deposit \in Int
  <2>1. Deposits \subseteq Nat
    BY FactoryConstants
  <2>2. deposit \in Nat
    BY <2>1, Zenon
  <2> QED BY <2>2
<1>4. IsFiniteSet(Made) /\ IsFiniteSet(Made')
  BY <1>2, FS_AddElement DEF Accounted
<1>5. \A d \in Made : call'[d].deposit = call[d].deposit
  BY <1>1, <1>2 DEF Made
<1>6. DepositsOf(call', Made \cup {c}) = deposit + DepositsOf(call, Made) /\ DepositsOf(call, Made) \in Int
  BY <1>1, <1>2, <1>3, <1>4, <1>5, DepositsWith
<1>7. DepositsOf(call', Phase("pending") \cup {c}) = deposit + DepositsOf(call, Phase("pending"))
      /\ DepositsOf(call, Phase("pending")) \in Int
  BY <1>1, <1>2, <1>3, <1>4, <1>5, DepositsWith
<1>8. DepositsOf(call', Phase("failed")) = DepositsOf(call, Phase("failed"))
  BY <1>2, <1>4, <1>5, DepositsStay
<1>9. Held' = Held /\ Received' = Received /\ Existing' = Existing
  BY <1>1 DEF Held, Received, Existing
<1>10. Held \in Int /\ Received \in Int
  BY HeldInt, ReceivedInt DEF Accounted
<1>11. DepositsOf(call', Made') = deposit + DepositsOf(call, Made)
       /\ DepositsOf(call', Phase("pending")') = deposit + DepositsOf(call, Phase("pending"))
       /\ DepositsOf(call', Phase("failed")') = DepositsOf(call, Phase("failed"))
  BY <1>2, <1>6, <1>7, <1>8
<1>12. /\ received["factory"] = DepositsOf(call, Phase("failed"))
       /\ DepositsOf(call, Made) = DepositsOf(call, Phase("pending")) + Held + Received
  BY AccountsInSteps DEF Accounted
<1>13. DepositsOf(call', Made') = DepositsOf(call', Phase("pending")') + Held' + Received'
  BY <1>3, <1>6, <1>7, <1>9, <1>10, <1>11, <1>12
<1>14. received'["factory"] = DepositsOf(call', Phase("failed")')
  BY <1>1, <1>11, <1>12
<1> QED BY <1>4, <1>9, <1>13, <1>14, AccountsInSteps DEF Accounted

LEMMA BatchAccounted ==
    ASSUME TypeOK, Accounted, NEW c \in Calls, ExecuteBatch(c)
    PROVE  Accounted'
<1> DEFINE pending == Phase("pending")
           failed == Phase("failed")
           k == call[c].deposit
<1>1. /\ call[c].phase = "pending" /\ call[c] \in Creations
      /\ \A d \in Calls : d # c => call'[d] = call[d]
      /\ call'[c].deposit = k /\ call'[c].phase \in {"created", "failed"}
      /\ BatchSucceeds(c) => call'[c].phase = "created"
      /\ BatchFails(c) => call'[c].phase = "failed"
  BY CallType DEF ExecuteBatch, BatchSucceeds, BatchFails, TypeOK, Creations
<1>2. /\ Made' = Made /\ pending' = pending \ {c} /\ c \in pending
      /\ pending \subseteq Made /\ failed \subseteq Made /\ c \notin failed
      /\ BatchSucceeds(c) => failed' = failed
      /\ BatchFails(c) => failed' = failed \cup {c}
  BY <1>1 DEF Made, Phase
<1>3. k \in Int
  <2>1. k \in Deposits
    BY <1>1 DEF Creations
  <2>2. Deposits \subseteq Nat
    BY FactoryConstants
  <2>3. k \in Nat
    BY <2>1, <2>2, Zenon
  <2> QED BY <2>3
<1>4. IsFiniteSet(Made)
  BY DEF Accounted
<1>5. \A d \in Made : call'[d].deposit = call[d].deposit
  BY <1>1 DEF Made
<1> HIDE DEF pending, failed, k
<1>6. DepositsOf(call', Made') = DepositsOf(call, Made) /\ DepositsOf(call, Made) \in Int
  BY <1>2, <1>4, <1>5, DepositsStay
<1>7. DepositsOf(call, pending) = k + DepositsOf(call', pending \ {c})
      /\ DepositsOf(call', pending \ {c}) \in Int
  BY <1>2, <1>4, <1>5, DepositsWithout DEF k
<1>8. /\ received["factory"] = DepositsOf(call, failed)
      /\ DepositsOf(call, Made) = DepositsOf(call, pending) + Held + Received
  BY AccountsInSteps DEF Accounted, pending, failed
<1>9. Held \in Int /\ Received \in Int
  BY HeldInt, ReceivedInt DEF Accounted
<1>10. SUFFICES /\ IsFiniteSet(Existing')
                /\ received'["factory"] = DepositsOf(call', failed')
                /\ DepositsOf(call, Made) = DepositsOf(call', pending \ {c}) + Held' + Received'
  BY <1>2, <1>4, <1>6, AccountsInSteps DEF Accounted, pending, failed
<1>11. CASE BatchSucceeds(c)
  <2>1. DepositsOf(call', failed') = DepositsOf(call, failed)
    BY <1>2, <1>4, <1>5, <1>11, DepositsStay
  <2>2. Received' = Received + ServiceFee /\ received'["factory"] = received["factory"]
    <3>1. "fee" \in Accounts /\ ServiceFee \in Int /\ received' = [received EXCEPT !["fee"] = @ + ServiceFee]
      BY <1>11, AccountsFinite DEF BatchSucceeds, ServiceFee
    <3>2. Received' = Received + ServiceFee
      BY <3>1, ReceivedMore
    <3>3. received'["factory"] = received["factory"]
      BY <3>1, AccountsFinite DEF TypeOK
    <3> QED BY <3>2, <3>3
  <2>3. IsFiniteSet(Existing') /\ Held' = (k - ServiceFee) + Held
    <3>1. call[c].name \in Names /\ repo[call[c].name] = NoRepo
      BY <1>11 DEF BatchSucceeds, CanCreate
    <3>2. NewRepo(c) # NoRepo /\ NewRepo(c).funds = k - ServiceFee /\ NewRepo(c).funds \in Int
      <4>1. NewRepo(c) \in Repos
        BY <1>1, <1>3, FactoryConstants DEF NewRepo, Repos, Creations, ServiceFee, k
      <4> QED BY <1>3, <4>1, RepoConstants DEF NewRepo, ServiceFee, k
    <3>3. repo' = [repo EXCEPT ![call[c].name] = NewRepo(c)]
      BY <1>11 DEF BatchSucceeds
    <3> QED BY <3>1, <3>2, <3>3, HeldWith DEF Accounted
  <2> QED BY <1>3, <1>7, <1>8, <1>9, <2>1, <2>2, <2>3 DEF ServiceFee
<1>12. CASE BatchFails(c)
  <2>1. DepositsOf(call', failed \cup {c}) = k + DepositsOf(call, failed)
    BY <1>1, <1>2, <1>3, <1>4, <1>5, DepositsWith
  <2>2. Received' = Received + k /\ received'["factory"] = received["factory"] + k
    <3>1. received' = [received EXCEPT !["factory"] = @ + k] /\ "factory" \in Accounts
      BY <1>12, AccountsFinite DEF BatchFails, k
    <3>2. Received' = Received + k
      BY <1>3, <3>1, ReceivedMore
    <3>3. received'["factory"] = received["factory"] + k
      BY <3>1 DEF TypeOK
    <3> QED BY <3>2, <3>3
  <2>3. Existing' = Existing /\ Held' = Held
    BY <1>12 DEF BatchFails, Held, Existing
  <2>4. received["factory"] \in Int
    BY AccountsFinite DEF TypeOK
  <2>5. received'["factory"] = DepositsOf(call', failed')
    <3>1. DepositsOf(call', failed') = DepositsOf(call', failed \cup {c})
      BY <1>2, <1>12
    <3>2. received["factory"] + k = k + DepositsOf(call, failed)
      BY <1>3, <1>8, <2>4
    <3> QED BY <2>1, <2>2, <3>1, <3>2, Zenon
  <2>6. DepositsOf(call, Made) = DepositsOf(call', pending \ {c}) + Held' + Received'
    BY <1>3, <1>7, <1>8, <1>9, <2>2, <2>3
  <2> QED BY <2>3, <2>5, <2>6 DEF Accounted
<1> QED BY <1>11, <1>12 DEF ExecuteBatch

LEMMA DeleteAccounted ==
    ASSUME TypeOK, Accounted, NEW n \in Names, DeleteAccount(n)
    PROVE  Accounted'
<1>1. UNCHANGED call
  BY DEF DeleteAccount
<1>2. Made' = Made /\ Phase("pending")' = Phase("pending") /\ Phase("failed")' = Phase("failed")
  BY <1>1 DEF Made, Phase
<1>3. Held \in Int /\ Received \in Int
  BY HeldInt, ReceivedInt DEF Accounted
<1>4. \A S : DepositsOf(call', S) = DepositsOf(call, S)
  BY <1>1 DEF DepositsOf
<1>5. ASSUME IsFiniteSet(Existing'), received'["factory"] = received["factory"],
             Held' + Received' = Held + Received, Held' \in Int, Received' \in Int
      PROVE  Accounted'
  <2>1. DepositsOf(call, Made) = DepositsOf(call, Phase("pending")) + Held + Received
    BY AccountsInSteps DEF Accounted
  <2>2. DepositsOf(call, Phase("pending")) \in Int
    <3>1. Phase("pending") \subseteq Made
      BY DEF Phase, Made
    <3> QED BY <1>1, <3>1, DepositsStay DEF Accounted
  <2>3. DepositsOf(call, Made) = DepositsOf(call, Phase("pending")) + Held' + Received'
    <3> DEFINE p == DepositsOf(call, Phase("pending"))
               h == Held
               r == Received
               g == Held'
               q == Received'
    <3>1. p \in Int /\ h \in Int /\ r \in Int
      BY <1>3, <2>2
    <3>2. g \in Int /\ q \in Int /\ g + q = h + r
      BY <1>5
    <3> HIDE DEF p, h, r, g, q
    <3>3. p + h + r = p + g + q
      BY <3>1, <3>2
    <3> QED BY <2>1, <3>3 DEF p, h, r, g, q
  <2> QED BY <1>2, <1>4, <1>5, <2>3, AccountsInSteps DEF Accounted
<1>6. CASE repo[n] = NoRepo
  <2>1. UNCHANGED <<repo, received>>
    BY <1>6 DEF DeleteAccount
  <2>2. Held' = Held /\ Received' = Received /\ Existing' = Existing
    BY <2>1 DEF Held, Existing, Received
  <2> QED BY <1>3, <1>5, <2>1, <2>2 DEF Accounted
<1>7. CASE repo[n] # NoRepo
  <2> DEFINE a == Head(deletes[n])
  <2>1. a \in Users
    BY DEF DeleteAccount, TypeOK
  <2>2. a \in Accounts /\ a # "factory"
    BY <2>1, FactoryConstants DEF Accounts, Predecessors
  <2>3. repo[n].funds \in Int
    BY <1>7 DEF TypeOK, Repos
  <2>4. /\ received' = [received EXCEPT ![a] = @ + repo[n].funds]
        /\ repo' = [repo EXCEPT ![n] = NoRepo]
    BY <1>7 DEF DeleteAccount
  <2> HIDE DEF a
  <2>5. Received' = Received + repo[n].funds
    BY <2>2, <2>3, <2>4, ReceivedMore
  <2>6. IsFiniteSet(Existing') /\ Held = repo[n].funds + Held' /\ Held' \in Int
    BY <1>7, <2>4, HeldWithout DEF Accounted
  <2>7. received'["factory"] = received["factory"]
    BY <2>2, <2>4, AccountsFinite DEF TypeOK
  <2>8. Received' \in Int /\ Held' + Received' = Held + Received
    BY <1>3, <2>3, <2>5, <2>6
  <2> QED BY <1>5, <2>6, <2>7, <2>8
<1> QED BY <1>6, <1>7

LEMMA NextAccounted ==
    ASSUME TypeOK, Accounted, [Next]_vars
    PROVE  Accounted'
<1>1. CASE UNCHANGED <<call, repo, received>>
  BY <1>1 DEF Accounted, DepositsAccounted, Deposited, Made, Phase, Held, Existing, Received
<1>2. CASE Create
  BY <1>2, CreateAccounted DEF Create
<1>3. CASE SetHash
  BY <1>1, <1>3 DEF SetHash, SetGlobalContractHash
<1>4. ASSUME NEW c \in Calls, ExecuteBatch(c) PROVE Accounted'
  BY <1>4, BatchAccounted
<1>5. ASSUME NEW n \in Names, DeleteAccount(n) PROVE Accounted'
  BY <1>5, DeleteAccounted
<1>6. ASSUME NEW n \in Names, NEW a \in Predecessors, SelfDelete(n, a) PROVE Accounted'
  BY <1>1, <1>6 DEF SelfDelete
<1>7. CASE UNCHANGED vars
  BY <1>1, <1>7 DEF vars
<1> QED BY <1>2, <1>3, <1>4, <1>5, <1>6, <1>7 DEF Next, EndRepo

\* No deposit of create_repo is lost or counted twice, and the factory keeps
\* those of the batches that failed, for any number of calls and accounts.
THEOREM NoDepositLost == Spec => []DepositsAccounted
<1>1. Inv /\ Accounted /\ [Next]_vars => (Inv /\ Accounted)'
  BY NextType, NextCreation, NextDeletes, NextAccounted DEF Inv
<1>2. Inv /\ Accounted => DepositsAccounted
  BY DEF Accounted
<1> QED BY InitInv, InitAccounted, <1>1, <1>2, PTL DEF Spec
=============================================================================
