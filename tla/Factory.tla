------------------------------- MODULE Factory -------------------------------
(***************************************************************************)
(* The factory contract (factory/src/lib.rs) and the life of the           *)
(* repositories it creates, up to their deletion (src/lib.rs, new and      *)
(* self_delete).                                                           *)
(*                                                                         *)
(* create_repo only sends a batch of actions to the account of the new     *)
(* repository.  The batch is executed later, whole or not at all, and when *)
(* it fails its deposit goes back to the account that sent it, which is    *)
(* the factory.  self_delete, likewise, only sends a receipt.              *)
(*                                                                         *)
(* Amounts are tenths of a NEAR.  A transfer to an account that is not     *)
(* modelled further (the fee, a refund, what a deletion leaves) counts as  *)
(* received when it is sent.                                               *)
(***************************************************************************)
EXTENDS Integers, Sequences, FiniteSetsExt

CONSTANTS
    Calls,          \* calls of create_repo
    Users,          \* accounts that sign transactions
    Relays,         \* contracts through which a user may call
    FactoryOwner,   \* the account that called new of the factory
    Names,          \* repository names that give a sub-account of the factory
    Dotted,         \* names with a dot: account ids, but not the factory's to create
    Hashes,         \* 32-byte hashes
    Deployed,       \* the hashes there is a global contract for
    Deposits,       \* attached deposits
    MaxDeletes,     \* bound: delete_account receipts that wait for one name
    FirstHash,      \* the hash given to new of the factory
    NoRepo          \* the value of a name without account

ASSUME FactoryConstants ==
    /\ Deployed \subseteq Hashes
    /\ FirstHash \in Hashes
    /\ Deposits \subseteq Nat
    /\ MaxDeletes \in Nat
    /\ FactoryOwner \in Users
    /\ Names \cap Dotted = {}
    /\ Users \cap Relays = {}
    /\ {"factory", "fee"} \cap (Users \cup Relays) = {}
    /\ IsFiniteSet(Users \cup Relays)

\* Mutant: the deposit is not checked.
NoMinimum == 0

\* 1 NEAR.
MinDeposit == 10

\* SERVICE_FEE, 0.1 NEAR.
ServiceFee == 1

Predecessors == Users \cup Relays

Accounts == Predecessors \cup {"factory", "fee"}

\* A call of create_repo: who signed and who called (predecessor_account_id),
\* what the batch carries, and the hash that was current when it was made.
Creations == [phase : {"pending", "created", "failed"}, name : Names \cup Dotted,
              signer : Users, predecessor : Predecessors, deposit : Deposits,
              code : Hashes, asked : Hashes]

\* fresh: no deletion of the name was under way when it was created.
Repos == [owner : Users, code : Hashes, funds : Int, fresh : BOOLEAN]

ASSUME RepoConstants == NoRepo \notin Repos

VARIABLES
    global_contract_hash,
    call,       \* [Calls -> a creation, or [phase |-> "idle"]]
    repo,       \* [Names -> the repository contract of that name, or NoRepo]
    deletes,    \* [Names -> beneficiaries of the delete_account receipts under way]
    received    \* [Accounts -> tokens received]

vars == <<global_contract_hash, call, repo, deletes, received>>

Phase(p) == {c \in Calls : call[c].phase = p}

\* A user calls himself or has a contract make the call.
MayCall(signer, predecessor) == predecessor \in {signer} \cup Relays

-----------------------------------------------------------------------------
(* The factory *)

\* create_repo: a name that is no account id or a deposit below the minimum
\* makes the call panic, which changes nothing.
CreateRepo(c, name, signer, predecessor, deposit) ==
    /\ call[c].phase = "idle"
    /\ MayCall(signer, predecessor)
    /\ deposit >= MinDeposit
    /\ call' = [call EXCEPT ![c] =
          [phase |-> "pending", name |-> name, signer |-> signer, predecessor |-> predecessor,
           deposit |-> deposit, code |-> global_contract_hash, asked |-> global_contract_hash]]
    /\ UNCHANGED <<global_contract_hash, repo, deletes, received>>

\* set_global_contract_hash takes any 32 bytes, a global contract or not.
SetGlobalContractHash(predecessor, hash) ==
    /\ predecessor = FactoryOwner
    /\ global_contract_hash' = hash
    /\ UNCHANGED <<call, repo, deletes, received>>

-----------------------------------------------------------------------------
(* The batch *)

\* Mutant: the account may be there already.
CanCreateAgain(c) == call[c].name \in Names

\* create_account needs a direct sub-account of the factory that does not exist.
CanCreate(c) == call[c].name \in Names /\ repo[call[c].name] = NoRepo

\* use_global_contract.
HasCode(c) == call[c].code \in Deployed

\* Mutant: the owner is the account that called new.
NewForPredecessor(c) ==
    [owner |-> call[c].predecessor, code |-> call[c].code,
     funds |-> call[c].deposit - ServiceFee, fresh |-> deletes[call[c].name] = <<>>]

\* Mutant: the fee is not taken from the deposit.
NewForFree(c) ==
    [owner |-> call[c].signer, code |-> call[c].code,
     funds |-> call[c].deposit, fresh |-> deletes[call[c].name] = <<>>]

\* Mutant: the code is looked up when the batch is executed.
NewWithCurrentCode(c) ==
    [owner |-> call[c].signer, code |-> global_contract_hash,
     funds |-> call[c].deposit - ServiceFee, fresh |-> deletes[call[c].name] = <<>>]

\* new of the repository contract: the owner is the signer, the fee is sent off.
NewRepo(c) ==
    [owner |-> call[c].signer, code |-> call[c].code,
     funds |-> call[c].deposit - ServiceFee, fresh |-> deletes[call[c].name] = <<>>]

\* create_account, transfer, use_global_contract and new, which can pay the fee.
BatchSucceeds(c) ==
    /\ CanCreate(c)
    /\ HasCode(c)
    /\ call[c].deposit >= ServiceFee
    /\ call' = [call EXCEPT ![c].phase = "created"]
    /\ repo' = [repo EXCEPT ![call[c].name] = NewRepo(c)]
    /\ received' = [received EXCEPT !["fee"] = @ + ServiceFee]
    /\ UNCHANGED <<global_contract_hash, deletes>>

\* Mutant: the refund goes to the caller of create_repo.
RefundCaller(c) ==
    /\ ~ (CanCreate(c) /\ HasCode(c) /\ call[c].deposit >= ServiceFee)
    /\ call' = [call EXCEPT ![c].phase = "failed"]
    /\ received' = [received EXCEPT ![call[c].predecessor] = @ + call[c].deposit]
    /\ UNCHANGED <<global_contract_hash, repo, deletes>>

\* One action fails, none has an effect, and the refund goes to the
\* predecessor of the batch.
BatchFails(c) ==
    /\ ~ (CanCreate(c) /\ HasCode(c) /\ call[c].deposit >= ServiceFee)
    /\ call' = [call EXCEPT ![c].phase = "failed"]
    /\ received' = [received EXCEPT !["factory"] = @ + call[c].deposit]
    /\ UNCHANGED <<global_contract_hash, repo, deletes>>

ExecuteBatch(c) == call[c].phase = "pending" /\ (BatchSucceeds(c) \/ BatchFails(c))

-----------------------------------------------------------------------------
(* The end of a repository *)

\* Mutant: no assert_owner, and the caller is the beneficiary.
DeleteByAnybody(n, predecessor) ==
    /\ repo[n] # NoRepo
    /\ Len(deletes[n]) < MaxDeletes
    /\ deletes' = [deletes EXCEPT ![n] = Append(@, predecessor)]
    /\ UNCHANGED <<global_contract_hash, call, repo, received>>

\* self_delete: the receipt names the owner as beneficiary.
SelfDelete(n, predecessor) ==
    /\ repo[n] # NoRepo
    /\ predecessor = repo[n].owner
    /\ Len(deletes[n]) < MaxDeletes
    /\ deletes' = [deletes EXCEPT ![n] = Append(@, repo[n].owner)]
    /\ UNCHANGED <<global_contract_hash, call, repo, received>>

\* The receipt: it deletes the account that has the name then, or fails.
DeleteAccount(n) ==
    /\ deletes[n] # <<>>
    /\ deletes' = [deletes EXCEPT ![n] = Tail(@)]
    /\ IF repo[n] = NoRepo
       THEN UNCHANGED <<repo, received>>
       ELSE /\ repo' = [repo EXCEPT ![n] = NoRepo]
            /\ received' = [received EXCEPT ![Head(deletes[n])] = @ + repo[n].funds]
    /\ UNCHANGED <<global_contract_hash, call>>

-----------------------------------------------------------------------------
Init ==
    /\ global_contract_hash = FirstHash
    /\ call = [c \in Calls |-> [phase |-> "idle"]]
    /\ repo = [n \in Names |-> NoRepo]
    /\ deletes = [n \in Names |-> <<>>]
    /\ received = [a \in Accounts |-> 0]

Create ==
    \E c \in Calls, name \in Names \cup Dotted, signer \in Users,
       predecessor \in Predecessors, deposit \in Deposits :
          CreateRepo(c, name, signer, predecessor, deposit)

SetHash == \E a \in Predecessors, hash \in Hashes : SetGlobalContractHash(a, hash)

EndRepo == \E n \in Names : DeleteAccount(n) \/ \E a \in Predecessors : SelfDelete(n, a)

Next == Create \/ SetHash \/ (\E c \in Calls : ExecuteBatch(c)) \/ EndRepo

Spec == Init /\ [][Next]_vars

-----------------------------------------------------------------------------
(* Properties *)

\* The variables are well-typed: an owner is always an account that signs
\* transactions, and a repository is never in debt for its fee (new).
TypeOK ==
    /\ global_contract_hash \in Hashes
    /\ call \in [Calls -> Creations \cup {[phase |-> "idle"]}]
    /\ repo \in [Names -> Repos \cup {NoRepo}]
    /\ \A n \in Names : repo[n] # NoRepo => repo[n].funds >= 0
    /\ deletes \in [Names -> Seq(Users)]
    /\ received \in [Accounts -> Nat]

\* Tokens: the deposits of some calls, the funds of all repositories, and what
\* all accounts received.
Deposited(calls) == SumFunctionOnSet([c \in calls |-> call[c].deposit], calls)

Existing == {n \in Names : repo[n] # NoRepo}

Held == SumFunctionOnSet([n \in Existing |-> repo[n].funds], Existing)

Received == SumFunctionOnSet(received, Accounts)

\* A deposit of create_repo leaves the hands of the caller for good, and none is
\* lost or counted twice: the factory keeps those of the batches that failed, and
\* those only (there is no callback that passes a refund on); any other is on its
\* way, in a repository, or was received by the fee recipient or an owner.
DepositsAccounted ==
    /\ received["factory"] = Deposited(Phase("failed"))
    /\ Deposited(Calls \ Phase("idle")) = Deposited(Phase("pending")) + Held + Received

\* A batch fails only if its name is not the factory's to give, if its hash is
\* no global contract, or if another call has created the name: a deletion
\* makes it available again (create_repo, self_delete).
FailsForAReason ==
    \A c \in Phase("failed") :
        \/ call[c].name \in Dotted
        \/ ~HasCode(c)
        \/ \E d \in Phase("created") : call[d].name = call[c].name

\* A repository has the code that was current when somebody called create_repo
\* for its name, whatever was set before the batch was executed, and that
\* call's signer is its owner (create_repo, new).
PinnedTo(r, c) == call[c].asked = r.code /\ call[c].signer = r.owner

RepoIsPinned ==
    \A n \in Names : repo[n] # NoRepo =>
        \E c \in Phase("created") : call[c].name = n /\ PinnedTo(repo[n], c)

\* No step, and no second creation of the name, changes the owner or the code
\* of a repository that exists ("no surprise upgrades", README.md).
NoTakeover ==
    [][\A n \in Names : repo[n] # NoRepo => repo'[n] \in {repo[n], NoRepo}]_vars

\* A repository created while no deletion of its name was under way is deleted
\* only for its owner, who receives what it has (self_delete).
\* A second self_delete, sent before the first deletion is executed, may meet
\* a repository that somebody else has created in between.
DeletedForItsOwner ==
    [][\A n \in Names : repo[n] # NoRepo /\ repo[n].fresh /\ repo'[n] = NoRepo
          => received'[repo[n].owner] = received[repo[n].owner] + repo[n].funds]_vars
=============================================================================
