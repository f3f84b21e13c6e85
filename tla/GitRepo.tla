------------------------------- MODULE GitRepo -------------------------------
(***************************************************************************)
(* What one repository contract promises its callers, with no word on how  *)
(* it keeps its state: a map from ref names to shas, an append-only log of *)
(* packfiles, one owner, and calls that take effect whole or not at all.   *)
(*                                                                         *)
(* Calls are the receipts the chain hands to the account, one at a time.   *)
(* An accepted push with several ref updates is described at once, by what *)
(* the refs are afterwards; GitStorage, which loops over the updates,      *)
(* implements this module.                                                 *)
(***************************************************************************)
EXTENDS RefUpdates

CONSTANTS
    Accounts,   \* NEAR accounts that sign transactions or call the contract
    Packs,      \* non-empty packfiles, stored verbatim
    NoPack,     \* empty pack_data
    NoOwner,    \* owner of an account that does not exist
    NoCall,     \* no receipt is being executed
    Calls,      \* the receipts that may arrive
    MaxU32      \* largest pack_count, a u32: 2^32 - 1

Methods == {"new", "push", "clear_storage", "self_delete"}

VARIABLES
    owner,      \* NoOwner while the account does not exist
    refs,
    log,        \* every packfile stored since the last clear, oldest first
    call,       \* the receipt being executed, NoCall between two
    answer,     \* "pending" while it executes, then how it ended: "ok",
                \* "panicked", refused by the contract, or "aborted", out of gas
    deletes     \* delete_account receipts sent and not yet executed

vars == <<owner, refs, log, call, answer, deletes>>

-----------------------------------------------------------------------------
Receive ==
    /\ answer # "pending"
    /\ call' \in Calls
    /\ answer' = "pending"
    /\ UNCHANGED <<owner, refs, log, deletes>>

Executing(method) ==
    /\ answer = "pending"
    /\ call.method = method
    /\ call' = NoCall

New ==
    /\ Executing("new")
    /\ owner = NoOwner
    /\ owner' = call.signer
    /\ answer' = "ok"
    /\ UNCHANGED <<refs, log, deletes>>

ByOwner == owner # NoOwner /\ call.caller = owner

Fits == call.pack = NoPack \/ Len(log) < MaxU32

Push ==
    /\ Executing("push")
    /\ ByOwner
    /\ Fits
    /\ Accepted(refs, call.ups, Len(call.ups))
    /\ refs' = RefsAfter(refs, call.ups, Len(call.ups))
    /\ log' = IF call.pack = NoPack THEN log ELSE Append(log, call.pack)
    /\ answer' = "ok"
    /\ UNCHANGED <<owner, deletes>>

Clear ==
    /\ Executing("clear_storage")
    /\ ByOwner
    /\ refs' = NoRefs
    /\ log' = << >>
    /\ answer' = "ok"
    /\ UNCHANGED <<owner, deletes>>

SelfDelete ==
    /\ Executing("self_delete")
    /\ ByOwner
    /\ deletes' = deletes + 1
    /\ answer' = "ok"
    /\ UNCHANGED <<owner, refs, log>>

\* What the contract may refuse: nothing else, and then it changes nothing.
Refusable ==
    \/ call.method = "new" /\ owner # NoOwner
    \/ call.method # "new" /\ ~ByOwner
    \/ call.method = "push" /\ ~(Fits /\ Accepted(refs, call.ups, Len(call.ups)))

Refuse ==
    /\ answer = "pending"
    /\ Refusable
    /\ answer' = "panicked"
    /\ call' = NoCall
    /\ UNCHANGED <<owner, refs, log, deletes>>

Abort ==
    /\ answer = "pending"
    /\ answer' = "aborted"
    /\ call' = NoCall
    /\ UNCHANGED <<owner, refs, log, deletes>>

\* The receipt of an earlier self_delete: the account goes, with all it
\* stores, or stays as it was.
Deleted ==
    /\ answer # "pending"
    /\ deletes > 0
    /\ deletes' = deletes - 1
    /\ \/ UNCHANGED <<owner, refs, log>>
       \/ owner' = NoOwner /\ refs' = NoRefs /\ log' = << >>
    /\ UNCHANGED <<call, answer>>

-----------------------------------------------------------------------------
Init ==
    /\ owner = NoOwner
    /\ refs = NoRefs
    /\ log = << >>
    /\ call = NoCall
    /\ answer = "ok"
    /\ deletes = 0

Next ==
    \/ Receive
    \/ New \/ Push \/ Clear \/ SelfDelete \/ Refuse \/ Abort
    \/ Deleted

Spec == Init /\ [][Next]_vars
=============================================================================
