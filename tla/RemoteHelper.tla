----------------------------- MODULE RemoteHelper -----------------------------
(***************************************************************************)
(* Clones that push to and fetch from one repository contract through      *)
(* git-remote-near, git-remote-near/src/main.rs.                           *)
(*                                                                         *)
(* A sha stands for a commit with its trees and blobs; history[s] is all   *)
(* that is reachable from s.  A packfile is the set of commits whose       *)
(* objects it holds and, when it is thin, a commit whose objects its       *)
(* deltas need.  The contract executes a push at once, as GitRepo has it.  *)
(***************************************************************************)
EXTENDS RefUpdates

CONSTANTS
    Clones,
    Pushers,    \* the clones that hold the owner's key
    MaxPacks,   \* bound: packs in the log when a push starts, + 1
    MaxLost,    \* bound: transactions whose answer never arrives
    MaxClears,  \* bound: clear_storage calls of the owner
    PackObjectsMayFail

ASSUME HelperConstants ==
    /\ Pushers \subseteq Clones
    /\ NoSha \notin Shas
    /\ MaxPacks \in Nat /\ MaxLost \in Nat /\ MaxClears \in Nat
    /\ PackObjectsMayFail \in BOOLEAN

VARIABLES
    refs, log,  \* the contract's committed state; log is a sequence of packs
    history,    \* commit -> the commits reachable from it; {} while not made
    odb,        \* clone -> the commits in its object database
    pc,         \* clone -> where its helper is
    seen,       \* clone -> the answer to git's last "list"
    remote,     \* clone -> remote_ref_map of the do_push in progress
    todo,       \* clone -> destinations the batch has still to push to
    src,        \* clone -> destination -> the commit its source named when it
                \* was last looked up, by git or the helper; NoSha for a delete
    unchecked,  \* clone -> destinations git's fast-forward check is void for:
                \* given with "+", or their source moved since
    tx,         \* clone -> the transaction it waits for
    orphans,    \* transactions given up by their helper, not yet executed
    lost, clears,   \* counters for the bounds
    blind       \* some push took the failure of git for nothing to send

contract == <<refs, log, clears>>
session == <<seen, remote, todo, src, unchecked>>
vars == <<contract, history, odb, pc, session, tx, orphans, lost, blind>>

NoPack == [objs |-> {}, base |-> NoSha]

PackType == [objs: SUBSET Shas, base: Shas \cup {NoSha}]

TxType == [pack: PackType, name: RefNames, old: Shas \cup {NoSha}, new: Shas]

NoTx == [pack |-> NoPack, name |-> CHOOSE n \in RefNames : TRUE, old |-> NoSha, new |-> NoSha]

Reach(s) == IF s = NoSha THEN {} ELSE history[s]

Knows(c, s) == s \in odb[c] /\ history[s] \subseteq odb[c]

-----------------------------------------------------------------------------
(* git *)

\* A new commit on at most two commits of the clone: a root, a child, a merge,
\* or, beside a commit already pushed, an amended one.
Commit(c, s, parents) ==
    /\ pc[c] = "idle"
    /\ c \in Pushers  \* what another clone commits never leaves it
    /\ history[s] = {}
    /\ \A p \in parents : Knows(c, p)
    /\ history' = [history EXCEPT ![s] = {s} \cup UNION {history[p] : p \in parents}]
    /\ odb' = [odb EXCEPT ![c] = @ \cup {s}]
    /\ UNCHANGED <<contract, pc, session, tx, orphans, lost, blind>>

\* git asks for "list" or "list for-push".
List(c) ==
    /\ pc[c] = "idle"
    /\ seen' = [seen EXCEPT ![c] = refs]
    /\ pc' = [pc EXCEPT ![c] = "listed"]
    /\ UNCHANGED <<contract, history, odb, remote, todo, src, unchecked, tx, orphans, lost, blind>>

\* git itself refuses a push that is not a fast-forward of what "list for-push"
\* answered, or whose old value it does not have, unless it is forced.
FastForward(c, name, s) ==
    seen[c][name] # NoSha =>
        seen[c][name] \in odb[c] /\ seen[c][name] \in Reach(s)

-----------------------------------------------------------------------------
(* do_push *)

\* git hands over a batch of specs, forced ("+") where it would refuse them
\* otherwise; the helper reads the refs a second time and ignores the "+".
DoPush(c, names, sources) ==
    /\ pc[c] = "listed"
    /\ c \in Pushers
    /\ Len(log) < MaxPacks
    /\ \A name \in names :
          /\ sources[name] # NoSha => Knows(c, sources[name])
          /\ sources[name] # seen[c][name]
    /\ remote' = [remote EXCEPT ![c] = refs]
    /\ todo' = [todo EXCEPT ![c] = names]
    /\ src' = [src EXCEPT ![c] =
                  [name \in RefNames |-> IF name \in names THEN sources[name] ELSE NoSha]]
    /\ unchecked' = [unchecked EXCEPT ![c] =
                        {name \in names : ~FastForward(c, name, sources[name])}]
    /\ pc' = [pc EXCEPT ![c] = "pushing"]
    /\ UNCHANGED <<contract, history, odb, seen, tx, orphans, lost, blind>>

\* Mutant: "--not" is given although there is no old value.
RevListFailsNew(c, old) == old \notin odb[c]

\* git rev-list --objects new --not old, which fails when the clone lacks old.
RevListFails(c, old) == old # NoSha /\ old \notin odb[c]

\* The helper takes a failure for an empty list.
CollectNewShas(c, new, old) ==
    IF RevListFails(c, old) THEN {} ELSE Reach(new) \ Reach(old)

\* Mutant: deltas against anything the clone has.
BuildPackfileLocal(c, new, old) ==
    [objs: {Reach(new) \ Reach(old)}, base: {NoSha} \cup odb[c]]

\* git pack-objects --revs --thin: a delta against old, or no delta needed.
\* When it fails what it wrote is taken all the same, at worst nothing.
BuildPackfile(c, new, old) ==
    [objs: {Reach(new) \ Reach(old)}, base: {NoSha, old}]
        \cup (IF PackObjectsMayFail THEN {NoPack} ELSE {})

\* The pack that goes with an update, if any.
PushedPack(c, new, old) ==
    IF CollectNewShas(c, new, old) = {} THEN {NoPack} ELSE BuildPackfile(c, new, old)

\* One spec of the batch becomes one transaction.  git gave the source by
\* name and the helper looks it up now: its user may have moved the branch
\* since (a commit made meanwhile is as if made before).
SendPush(c, name, new) ==
    /\ pc[c] = "pushing"
    /\ name \in todo[c]
    /\ src[c][name] # NoSha
    /\ Knows(c, new)
    /\ unchecked' = [unchecked EXCEPT ![c] =
                        IF new = src[c][name] THEN @ ELSE @ \cup {name}]
    /\ src' = [src EXCEPT ![c][name] = new]
    /\ LET old == remote[c][name]
       IN  \E pack \in PushedPack(c, new, old) :
              /\ tx' = [tx EXCEPT ![c] =
                          [pack |-> pack, name |-> name, old |-> old, new |-> new]]
              /\ blind' = (blind \/ pack.objs # Reach(new) \ Reach(old))
    /\ pc' = [pc EXCEPT ![c] = "sent"]
    /\ UNCHANGED <<contract, history, odb, seen, remote, todo, orphans, lost>>

EndSession(c) ==
    /\ seen' = [seen EXCEPT ![c] = NoRefs]
    /\ remote' = [remote EXCEPT ![c] = NoRefs]
    /\ todo' = [todo EXCEPT ![c] = {}]
    /\ src' = [src EXCEPT ![c] = NoRefs]
    /\ unchecked' = [unchecked EXCEPT ![c] = {}]

\* Mutant: the batch is left in the middle.
NextOpStuck(c, name) ==
    /\ pc' = [pc EXCEPT ![c] = "next"]
    /\ EndSession(c)
    /\ UNCHANGED <<history, odb, blind>>

\* The result of one spec is in, whatever it is: on to the next, or done.
NextOp(c, name) ==
    /\ IF todo[c] = {name}
       THEN pc' = [pc EXCEPT ![c] = "idle"] /\ EndSession(c)
       ELSE /\ pc' = [pc EXCEPT ![c] = "pushing"]
            /\ todo' = [todo EXCEPT ![c] = @ \ {name}]
            /\ UNCHANGED <<seen, remote, src, unchecked>>
    /\ UNCHANGED <<history, odb, blind>>

\* "error delete not supported yet"; "error cannot resolve ref", when the user
\* has deleted the branch since.
RefuseSpec(c, name) ==
    /\ pc[c] = "pushing"
    /\ name \in todo[c]
    /\ NextOp(c, name)
    /\ UNCHANGED <<contract, tx, orphans, lost>>

\* Mutant: the contract does not compare, it swaps.
ApplyUnchecked(t) ==
    /\ clears' = clears
    /\ refs' = [refs EXCEPT ![t.name] = t.new]
    /\ log' = IF t.pack = NoPack THEN log ELSE Append(log, t.pack)

\* The contract's push of one update.
Apply(t) ==
    /\ clears' = clears
    /\ LET ups == <<[name |-> t.name, old |-> t.old, new |-> t.new]>>
       IN  IF Accepted(refs, ups, 1)
           THEN /\ refs' = RefsAfter(refs, ups, 1)
                /\ log' = IF t.pack = NoPack THEN log ELSE Append(log, t.pack)
           ELSE UNCHANGED <<refs, log>>

\* The transaction executes, "ok" or "error", and the helper hears of it.
Execute(c) ==
    /\ pc[c] = "sent"
    /\ Apply(tx[c])
    /\ tx' = [tx EXCEPT ![c] = NoTx]
    /\ NextOp(c, tx[c].name)
    /\ UNCHANGED <<orphans, lost>>

GiveUp(c) ==
    /\ lost < MaxLost
    /\ lost' = lost + 1
    /\ orphans' = orphans \cup {tx[c]}
    /\ tx' = [tx EXCEPT ![c] = NoTx]

\* The helper reports "error" because no answer came: the transaction may
\* have been executed, may yet be, or never will.
LoseAnswer(c) ==
    /\ pc[c] = "sent"
    /\ GiveUp(c)
    /\ NextOp(c, tx[c].name)
    /\ UNCHANGED contract

\* The helper is killed in the middle of a batch, or panics: what it sent may
\* still be executed, the rest of the batch is not sent.
PushDies(c) ==
    /\ \/ pc[c] = "pushing" /\ UNCHANGED <<tx, orphans, lost>>
       \/ pc[c] = "sent" /\ GiveUp(c)
    /\ pc' = [pc EXCEPT ![c] = "idle"]
    /\ EndSession(c)
    /\ UNCHANGED <<contract, history, odb, blind>>

ExecuteOrphan(t) ==
    /\ Apply(t)
    /\ orphans' = orphans \ {t}
    /\ UNCHANGED <<history, odb, pc, session, tx, lost, blind>>

\* The owner clears the contract, from outside git.
ClearStorage ==
    /\ clears < MaxClears
    /\ clears' = clears + 1
    /\ refs' = NoRefs
    /\ log' = << >>
    /\ UNCHANGED <<history, odb, pc, session, tx, orphans, lost, blind>>

-----------------------------------------------------------------------------
(* do_fetch *)

\* Whether git index-pack --fix-thin can complete pack k, given the clone's own
\* commits and those of the packs in T: deltas need their base.
Completes(k, packs, have, T) ==
    \/ packs[k].base \in have \cup {NoSha}
    \/ \E j \in T : j < k /\ packs[k].base \in packs[j].objs

\* The packs that are imported, fed one after the other.  One that is refused
\* is passed over, so they are the most that only need what came before them.
Imported(have, packs) ==
    UNION {T \in SUBSET DOMAIN packs : \A k \in T : Completes(k, packs, have, T)}

\* What the clone has afterwards.
Indexed(have, packs) == have \cup UNION {packs[k].objs : k \in Imported(have, packs)}

\* Mutant: a clone that has anything takes the first pack for granted.
DoFetchMore(c) ==
    /\ pc[c] = "listed"
    /\ odb' = [odb EXCEPT ![c] = Indexed(@, IF @ = {} \/ log = << >> THEN log ELSE Tail(log))]
    /\ pc' = [pc EXCEPT ![c] = "idle"]
    /\ EndSession(c)
    /\ UNCHANGED <<contract, history, tx, orphans, lost, blind>>

\* Every pack of the contract, from index 0, whatever was wanted.
DoFetch(c) ==
    /\ pc[c] = "listed"
    /\ odb' = [odb EXCEPT ![c] = Indexed(@, log)]
    /\ pc' = [pc EXCEPT ![c] = "idle"]
    /\ EndSession(c)
    /\ UNCHANGED <<contract, history, tx, orphans, lost, blind>>

\* A fetch that dies, on an unwrap or killed, leaves what it has indexed; with
\* nothing indexed this is also a session that git ends after "list".
FetchDies(c) ==
    /\ pc[c] = "listed"
    /\ \E k \in 0..Len(log) : odb' = [odb EXCEPT ![c] = Indexed(@, SubSeq(log, 1, k))]
    /\ pc' = [pc EXCEPT ![c] = "idle"]
    /\ EndSession(c)
    /\ UNCHANGED <<contract, history, tx, orphans, lost, blind>>

-----------------------------------------------------------------------------
Init ==
    /\ refs = NoRefs
    /\ log = << >>
    /\ history = [s \in Shas |-> {}]
    /\ odb = [c \in Clones |-> {}]
    /\ pc = [c \in Clones |-> "idle"]
    /\ seen = [c \in Clones |-> NoRefs]
    /\ remote = [c \in Clones |-> NoRefs]
    /\ todo = [c \in Clones |-> {}]
    /\ src = [c \in Clones |-> NoRefs]
    /\ unchecked = [c \in Clones |-> {}]
    /\ tx = [c \in Clones |-> NoTx]
    /\ orphans = {}
    /\ lost = 0
    /\ clears = 0
    /\ blind = FALSE

Git(c) ==
    \/ \E s \in Shas, parents \in {{p, q} : p, q \in odb[c]} \cup {{}} :
          Commit(c, s, parents)
    \/ List(c)

Helper(c) ==
    \/ \E names \in SUBSET RefNames \ {{}} : \E sources \in [names -> odb[c] \cup {NoSha}] :
          DoPush(c, names, sources)
    \/ \E name \in todo[c] :
          RefuseSpec(c, name) \/ \E new \in odb[c] : SendPush(c, name, new)
    \/ Execute(c)
    \/ LoseAnswer(c)
    \/ PushDies(c)
    \/ DoFetch(c)
    \/ FetchDies(c)

Next ==
    \/ \E c \in Clones : Git(c) \/ Helper(c)
    \/ \E t \in orphans : ExecuteOrphan(t)
    \/ ClearStorage

Spec == Init /\ [][Next]_vars

-----------------------------------------------------------------------------
(* Properties *)

\* Type invariant.
TypeOK ==
    /\ refs \in RefMap
    /\ log \in Seq(PackType)
    /\ history \in [Shas -> SUBSET Shas]
    /\ odb \in [Clones -> SUBSET Shas]
    /\ pc \in [Clones -> {"idle", "listed", "pushing", "sent"}]
    /\ seen \in [Clones -> RefMap] /\ remote \in [Clones -> RefMap]
    /\ todo \in [Clones -> SUBSET RefNames]
    /\ src \in [Clones -> RefMap] /\ unchecked \in [Clones -> SUBSET RefNames]
    /\ tx \in [Clones -> TxType \cup {NoTx}] /\ orphans \subseteq TxType
    /\ lost \in 0..MaxLost /\ clears \in 0..MaxClears
    /\ blind \in BOOLEAN

Stored == UNION {log[k].objs : k \in DOMAIN log}

\* Unless a push was sent blind, the packs of the contract hold the whole
\* history of every ref: whatever pushes raced, were cut by a clear_storage or
\* by the death of their helper, or were executed after it gave up on them
\* (collect_new_shas, build_packfile and the contract's CAS together).
ClosedUnlessBlind ==
    ~blind => \A name \in RefNames : Reach(refs[name]) \subseteq Stored

\* Unless a push was sent blind, a thin pack comes after a pack that holds the
\* base of its deltas, so that packs indexed in order are all taken: its base
\* was the old value that the CAS of the same transaction checked
\* (build_packfile, push).
BasesEarlierUnlessBlind ==
    ~blind => \A k \in DOMAIN log :
                 log[k].base # NoSha => \E j \in 1..(k - 1) : log[k].base \in log[j].objs

\* A fetch leaves the clone with the whole history of every ref that "list"
\* answered before it, although packs are read after the refs: unless the
\* storage was cleared in between or a push was sent blind (do_fetch).
FetchConnects ==
    [][\A c \in Clones : DoFetch(c) /\ ~blind /\ clears = 0 =>
          \A name \in RefNames : Reach(seen[c][name]) \subseteq odb'[c]]_vars

\* A push that is not forced, of a branch that did not move, discards nothing
\* but what was pushed between git's "list", which its fast-forward check used,
\* and the helper's own read of the refs, which the CAS protects: whoever else
\* pushes, and whenever a transaction given up executes (do_push, and the
\* contract's CAS).
FastForwardUnlessMoved ==
    [][\A c \in Clones :
          LET name == tx[c].name
          IN  /\ Execute(c)
              /\ name \notin unchecked[c]
              /\ seen[c][name] = remote[c][name]
              /\ refs' # refs
              => Reach(refs[name]) \subseteq Reach(refs'[name])]_vars

\* The one clone that pushes is never blind: it has all it ever pushed.
NeverBlind == ~blind

\* git-remote-near/src/main.rs:348, "Nothing new, just update ref": a ref sent
\* without a pack is in the contract with its history.
NothingNew ==
    \A c \in Clones :
        pc[c] = "sent" /\ tx[c].pack = NoPack => Reach(tx[c].new) \subseteq Stored
=============================================================================
