------------------------------- MODULE SmartHttp -------------------------------
(***************************************************************************)
(* git's smart HTTP requests served from a repository contract: by the     *)
(* service worker (near-git-sw.js) or by the HTTP server                   *)
(* (git-server/src/main.rs).  A push or a fetch is two requests, info/refs *)
(* and receive-pack or upload-pack, and each of their steps that waits for *)
(* the network is a step here.                                             *)
(*                                                                         *)
(* A contract executes a push at once, as GitRepo has it.  All versions of *)
(* the chain are kept: a view answers from the latest or from an older one.*)
(* A sha is a commit with its trees and blobs; a packfile is the set of    *)
(* commits whose objects it holds and a commit its deltas need, if any.    *)
(*                                                                         *)
(* The HTTP server has one contract.  The service worker has the one of    *)
(* the last configure message, from whatever page, and asks for it again   *)
(* whenever it needs it: between two steps of a request it may change.     *)
(***************************************************************************)
EXTENDS RefUpdates

CONSTANTS
    Pushes, Fetches,    \* the pushes and fetches git makes
    Repos,              \* the repository contracts
    NoConfig,           \* config is null
    Zero,               \* ZERO_SHA
    History,            \* commit -> the commits reachable from it
    Programs,           \* the programs looked at: "worker", "server"
    Nodes,              \* TRUE: views come from one node and never go back
    MaxClears,          \* bound: clear_storage calls of each owner
    MaxConfigures,      \* bound: configure messages
    MaxStops            \* bound: times the browser stops the worker

Requests == Pushes \cup Fetches

Commits == Shas \ {Zero}

ASSUME HttpConstants ==
    /\ Pushes \cap Fetches = {}
    /\ NoConfig \notin Repos
    /\ Zero \in Shas /\ NoSha \notin Shas
    /\ History \in [Commits -> SUBSET Commits]
    /\ \A s \in Commits : s \in History[s] /\ \A t \in History[s] : History[t] \subseteq History[s]
    /\ Programs \subseteq {"worker", "server"} /\ Nodes \subseteq BOOLEAN
    /\ MaxClears \in Nat /\ MaxConfigures \in Nat /\ MaxStops \in Nat

VARIABLES
    program,    \* the one that answers
    oneNode,    \* views never go back in time
    hist,       \* the chain's versions: what each contract held
    lowest,     \* with oneNode, the version the last view answered from
    config,     \* the contract of config, or NoConfig
    messages,   \* configure messages so far
    stops,      \* how often the worker was stopped
    pc,         \* request -> where it is or how it ended
    shown,      \* request -> the version info/refs showed git, 0 before
    from,       \* request -> the contract whose refs it showed
    new,        \* push -> name -> the new value, NoSha if it is not updated
    pack,       \* push -> the packfile git sent, then the one stored
    lives,      \* request -> the contracts it looked at, and in which life of theirs
    to,         \* push -> the contract its transaction calls
    sent,       \* pushes whose transaction may still be executed
    applied,    \* push -> the version it made, 0 if none
    unseen,     \* pushes acknowledged though their contract did not show them yet
    got         \* fetch -> the commits it was served

setting == <<program, oneNode>>
worker == <<config, messages, stops>>
chain == <<hist, sent, applied, to>>
request == <<shown, from, new>>
vars == <<setting, hist, lowest, worker, pc, request, pack, lives, to, sent, applied,
          unseen, got>>

Worker == program = "worker"

Reach(s) == IF s \in Commits THEN History[s] ELSE {}

ReachAll(S) == UNION {Reach(s) : s \in S}

NoPack == [objs |-> {}, base |-> NoSha, empty |-> TRUE]

PackType == [objs: SUBSET Commits, base: Commits \cup {NoSha}, empty: BOOLEAN]

\* What a contract holds: its refs, the number of its packs and what they
\* give, and how often it was cleared.
Version == [refs: RefMap, packs: Nat, have: SUBSET Commits, life: 0..MaxClears]

Blank == [refs |-> NoRefs, packs |-> 0, have |-> {}, life |-> 0]

Latest == hist[Len(hist)]

Visible == {v \in 1..Len(hist) : oneNode => v >= lowest}

\* Request r views the configured contract, in version v.
Looks(r, v) ==
    /\ lowest' = IF oneNode THEN v ELSE lowest
    /\ lives' = [lives EXCEPT ![r] = @ \cup {<<config, hist[v][config].life>>}]

To(r, place) == pc' = [pc EXCEPT ![r] = place]

Updated(r) == {name \in RefNames : new[r][name] # NoSha}

DeleteOnly(r) == \A name \in Updated(r) : new[r][name] = Zero

Advert(r) == hist[shown[r]][from[r]].refs

\* old_sha: the value shown, and None for ZERO_SHA.
OldSha(r, name) == IF Advert(r)[name] = Zero THEN NoSha ELSE Advert(r)[name]

-----------------------------------------------------------------------------
(* The service worker's configuration *)

\* A page sends a configure message.
Configure ==
    /\ Worker
    /\ messages < MaxConfigures
    /\ config' \in Repos \ {config}
    /\ messages' = messages + 1
    /\ UNCHANGED <<setting, chain, lowest, stops, pc, request, pack, lives, unseen, got>>

\* ensureReady: a request waits for the first of them.
Ready == config # NoConfig

Handling == {"bases", "sign", "called", "waiting", "packs"}

\* The browser stops the worker: config is gone, and the requests it was
\* answering or, some of them, held back are never answered.  What was sent is not recalled.
Stop ==
    /\ Worker
    /\ stops < MaxStops
    /\ config' = NoConfig
    /\ stops' = stops + 1
    /\ \E lost \in SUBSET {r \in Requests : pc[r] = "posted"} :
          pc' = [r \in Requests |-> IF pc[r] \in Handling \/ r \in lost THEN "failed" ELSE pc[r]]
    /\ UNCHANGED <<setting, chain, lowest, messages, request, pack, lives, unseen, got>>

-----------------------------------------------------------------------------
(* info/refs *)

InfoRefs(r) ==
    /\ pc[r] = "idle"
    /\ Ready
    /\ \E v \in Visible :
          /\ Looks(r, v)
          /\ shown' = [shown EXCEPT ![r] = v]
    /\ from' = [from EXCEPT ![r] = config]
    /\ To(r, "shown")
    /\ UNCHANGED <<setting, worker, chain, new, pack, unseen, got>>

-----------------------------------------------------------------------------
(* git: what it sends *)

\* Refs are updated to s, others deleted.
Commands(names, gone, s) ==
    [name \in RefNames |-> IF name \in names THEN s ELSE IF name \in gone THEN Zero ELSE NoSha]

\* A pack with s leaves out what is reachable from the shown values the clone
\* has; a thin one, which libgit2 does not make, has deltas against such a
\* commit.  Deletions alone come without a pack.
GitPacks(names, s, has) ==
    IF names = {}
    THEN {NoPack}
    ELSE [objs: {Reach(s) \ ReachAll(has)},
          base: {NoSha} \cup IF Worker THEN {} ELSE ReachAll(has),
          empty: {FALSE}]

\* Updates may be forced.
GitPush(r) ==
    /\ pc[r] = "shown"
    /\ r \in Pushes
    /\ \E names, gone \in SUBSET RefNames, s \in Commits,
          has \in SUBSET {Advert(r)[name] : name \in RefNames} :
          /\ names \cup gone # {} /\ names \cap gone = {}
          /\ \A name \in names : s # Advert(r)[name]
          /\ \A name \in gone : Advert(r)[name] \in Commits
          /\ new' = [new EXCEPT ![r] = Commands(names, gone, s)]
          /\ \E p \in GitPacks(names, s, has) : pack' = [pack EXCEPT ![r] = p]
    /\ To(r, "posted")
    /\ UNCHANGED <<setting, worker, chain, lowest, shown, from, lives, unseen, got>>

GitFetch(r) ==
    /\ pc[r] = "shown"
    /\ r \in Fetches
    /\ To(r, IF \E name \in RefNames : Advert(r)[name] \in Commits THEN "posted" ELSE "served")
    /\ UNCHANGED <<setting, worker, chain, lowest, request, pack, lives, unseen, got>>

-----------------------------------------------------------------------------
(* receive-pack *)

\* The transaction is sent, to the contract that is configured now.
Send(r) ==
    /\ To(r, "called")
    /\ sent' = sent \cup {r}
    /\ to' = [to EXCEPT ![r] = config]

\* The server calls the contract with what it was sent.
ReceivePack(r) ==
    /\ ~Worker
    /\ pc[r] = "posted"
    /\ r \in Pushes
    /\ Send(r)
    /\ UNCHANGED <<setting, worker, hist, applied, lowest, request, pack, lives, unseen, got>>

\* Without a pack the service worker makes no call at all; with one it asks
\* for the number of packs first.
CountForPush(r) ==
    /\ Worker
    /\ pc[r] = "posted"
    /\ r \in Pushes
    /\ Ready
    /\ IF DeleteOnly(r)
       THEN To(r, "waiting") /\ UNCHANGED <<lowest, lives>>
       ELSE \E v \in Visible :
               /\ Looks(r, v)
               /\ To(r, IF hist[v][config].packs = 0 THEN "sign" ELSE "bases")
    /\ UNCHANGED <<setting, worker, chain, request, pack, unseen, got>>

\* Mutants: the map of bases starts with the objects of the push itself; it
\* has an entry for the value of a deleted ref.
BasesAliased(r, have) == have \cup pack[r].objs

BasesWithZero(r, have) == have \cup {Zero}

Bases(r, have) == have

\* All packs are read: what they hold is left out of the pack, and may be the
\* base of a delta in it.
ReadBases(r) ==
    /\ pc[r] = "bases"
    /\ \E v \in Visible :
          /\ Looks(r, v)
          /\ LET have == Bases(r, hist[v][config].have)
             IN  \E base \in {NoSha} \cup have :
                    pack' = [pack EXCEPT ![r] = [objs |-> @.objs \ have, base |-> base,
                                                 empty |-> FALSE]]
    /\ To(r, "sign")
    /\ UNCHANGED <<setting, worker, chain, request, unseen, got>>

\* The nonce of the access key has arrived.
Sign(r) ==
    /\ pc[r] = "sign"
    /\ Send(r)
    /\ UNCHANGED <<setting, worker, hist, applied, lowest, request, pack, lives, unseen, got>>

\* Mutant: the transaction that is signed again after its refusal is one that
\* has been executed.
ResignExecuted(r) ==
    /\ Worker
    /\ pc[r] = "called"
    /\ config # to[r]
    /\ Send(r)
    /\ UNCHANGED <<setting, worker, hist, applied, lowest, request, pack, lives, unseen, got>>

\* The transaction is refused for its nonce, and signed again: for the contract
\* configured now.
Resign(r) ==
    /\ Worker
    /\ pc[r] = "called"
    /\ r \in sent
    /\ config # to[r]
    /\ Send(r)
    /\ UNCHANGED <<setting, worker, hist, applied, lowest, request, pack, lives, unseen, got>>

\* The call has been executed and its outcome arrives.
Answer(r) ==
    /\ pc[r] = "called"
    /\ r \notin sent
    /\ To(r, IF applied[r] = 0 THEN "failed" ELSE IF Worker THEN "waiting" ELSE "ok")
    /\ UNCHANGED <<setting, worker, chain, lowest, request, pack, lives, unseen, got>>

\* Mutant: an error is not told from a success.
CallFailsAsOk(r) ==
    /\ pc[r] = "called"
    /\ To(r, IF Worker THEN "waiting" ELSE "ok")
    /\ UNCHANGED <<setting, worker, chain, lowest, request, pack, lives, unseen, got>>

\* Or it does not: git is told "ng", or gets status 500, whatever becomes of
\* the transaction.
CallFails(r) ==
    /\ pc[r] = "called"
    /\ To(r, "failed")
    /\ UNCHANGED <<setting, worker, chain, lowest, request, pack, lives, unseen, got>>

\* Mutant: the poll looks for the names only.
CaughtUpByName(r, refs) == \A name \in Updated(r) : refs[name] # NoSha

\* What get_refs should answer: the new value, or nothing for a deleted ref.
Awaited(r, name) == IF new[r][name] = Zero THEN NoSha ELSE new[r][name]

CaughtUp(r, refs) == \A name \in Updated(r) : refs[name] = Awaited(r, name)

\* One poll of waitForRefsToCatchUp: of the contract configured now.
Poll(r) ==
    /\ pc[r] = "waiting"
    /\ \E v \in Visible :
          /\ lowest' = IF oneNode THEN v ELSE lowest
          /\ IF CaughtUp(r, hist[v][config].refs)
             THEN /\ To(r, "ok")
                  /\ unseen' = IF config = to[r] THEN unseen ELSE unseen \cup {r}
             ELSE UNCHANGED <<pc, unseen>>
    /\ UNCHANGED <<setting, worker, chain, request, pack, lives, got>>

\* Mutant: the wait has no deadline.
DeadlineNever(r) == FALSE /\ UNCHANGED vars

\* The deadline passes.
Deadline(r) ==
    /\ pc[r] = "waiting"
    /\ To(r, "ok")
    /\ unseen' = unseen \cup {r}
    /\ UNCHANGED <<setting, worker, chain, lowest, request, pack, lives, got>>

-----------------------------------------------------------------------------
(* upload-pack *)

\* The service worker asks for the number of packs first, and answers with
\* none if there are none.
CountForFetch(r) ==
    /\ Worker
    /\ pc[r] = "posted"
    /\ r \in Fetches
    /\ Ready
    /\ \E v \in Visible :
          /\ Looks(r, v)
          /\ To(r, IF hist[v][config].packs = 0 THEN "served" ELSE "packs")
    /\ UNCHANGED <<setting, worker, chain, request, pack, unseen, got>>

\* Mutant: packs stored before info/refs was answered are taken for known.
ReadPacksSinceShown(r) ==
    /\ pc[r] = (IF Worker THEN "packs" ELSE "posted")
    /\ r \in Fetches
    /\ \E v \in Visible :
          /\ Looks(r, v)
          /\ got' = [got EXCEPT ![r] = hist[v][config].have \ hist[shown[r]][config].have]
    /\ To(r, "served")
    /\ UNCHANGED <<setting, worker, chain, request, pack, unseen>>

\* get_packs(0): everything is served, whatever was wanted.
ReadPacks(r) ==
    /\ pc[r] = (IF Worker THEN "packs" ELSE "posted")
    /\ r \in Fetches
    /\ \E v \in Visible :
          /\ Looks(r, v)
          /\ got' = [got EXCEPT ![r] = hist[v][config].have]
    /\ To(r, "served")
    /\ UNCHANGED <<setting, worker, chain, request, pack, unseen>>

\* A view fails, outside the polls: status 500, or no answer at all.
ViewFails(r) ==
    /\ Ready
    /\ \/ pc[r] \in {"idle", "bases", "sign", "packs"}
       \/ pc[r] = "posted" /\ (r \in Pushes => Worker /\ ~DeleteOnly(r))
    /\ To(r, "failed")
    /\ UNCHANGED <<setting, worker, chain, lowest, request, pack, lives, unseen, got>>

-----------------------------------------------------------------------------
(* The contracts *)

\* Mutant: the refs of the push are not compared with the contract's.
MatchesAny(r) == TRUE

Matches(r) == \A name \in Updated(r) : Latest[to[r]].refs[name] = OldSha(r, name)

\* What contract holds once it has stored the push: a pack whose base is not there
\* gives nothing.
Stored(r, contract) ==
    [refs |-> [name \in RefNames |->
                  IF name \in Updated(r) THEN new[r][name] ELSE contract.refs[name]],
     packs |-> IF pack[r].empty THEN contract.packs ELSE contract.packs + 1,
     have |-> IF pack[r].base \in contract.have \cup {NoSha}
              THEN contract.have \cup pack[r].objs ELSE contract.have,
     life |-> contract.life]

\* The transaction is executed, or dropped.
Execute(r) ==
    /\ r \in sent
    /\ sent' = sent \ {r}
    /\ \/ /\ Matches(r)
          /\ hist' = Append(hist, [Latest EXCEPT ![to[r]] = Stored(r, Latest[to[r]])])
          /\ applied' = [applied EXCEPT ![r] = Len(hist) + 1]
       \/ UNCHANGED <<hist, applied>>
    /\ UNCHANGED <<setting, worker, lowest, pc, request, pack, lives, to, unseen, got>>

Clear(repo) ==
    /\ Latest[repo].life < MaxClears
    /\ hist' = Append(hist, [Latest EXCEPT ![repo] = [Blank EXCEPT !.life = Latest[repo].life + 1]])
    /\ UNCHANGED <<setting, worker, lowest, pc, request, pack, lives, to, sent, applied,
                   unseen, got>>

-----------------------------------------------------------------------------
Init ==
    /\ program \in Programs
    /\ oneNode \in Nodes
    /\ hist = <<[repo \in Repos |-> Blank]>>
    /\ lowest = 1
    /\ config \in IF Worker THEN {NoConfig} ELSE Repos
    /\ messages = 0 /\ stops = 0
    /\ pc = [r \in Requests |-> "idle"]
    /\ shown = [r \in Requests |-> 0]
    /\ from = [r \in Requests |-> NoConfig]
    /\ new = [r \in Pushes |-> NoRefs]
    /\ pack = [r \in Pushes |-> NoPack]
    /\ lives = [r \in Requests |-> {}]
    /\ to = [r \in Pushes |-> NoConfig]
    /\ sent = {}
    /\ applied = [r \in Pushes |-> 0]
    /\ unseen = {}
    /\ got = [r \in Fetches |-> {}]

\* What the handler of r does next.
Handle(r) ==
    \/ ReceivePack(r) \/ CountForPush(r) \/ ReadBases(r) \/ Sign(r)
    \/ Answer(r) \/ CallFails(r)
    \/ CountForFetch(r) \/ ReadPacks(r) \/ ViewFails(r)

Next ==
    \/ Configure \/ Stop
    \/ \E r \in Requests : InfoRefs(r) \/ GitPush(r) \/ GitFetch(r) \/ Handle(r)
    \/ \E r \in Pushes : Resign(r) \/ Poll(r) \/ Deadline(r) \/ Execute(r)
    \/ \E repo \in Repos : Clear(repo)

Spec == Init /\ [][Next]_vars

\* The RPC node answers or fails, and time passes.  No page need send another
\* configure message.
FairSpec ==
    /\ Spec
    /\ \A r \in Requests : WF_vars(Handle(r))
    /\ \A r \in Pushes : WF_vars(Deadline(r))

-----------------------------------------------------------------------------
(* Properties *)

\* Type invariant.
TypeOK ==
    /\ program \in {"worker", "server"} /\ oneNode \in BOOLEAN
    /\ hist \in Seq([Repos -> Version]) /\ hist # << >>
    /\ lowest \in 1..Len(hist)
    /\ config \in Repos \cup {NoConfig}
    /\ messages \in 0..MaxConfigures /\ stops \in 0..MaxStops
    /\ pc \in [Requests -> {"idle", "shown", "posted", "bases", "sign", "called", "waiting",
                            "packs", "ok", "failed", "served"}]
    /\ shown \in [Requests -> 0..Len(hist)]
    /\ from \in [Requests -> Repos \cup {NoConfig}]
    /\ new \in [Pushes -> RefMap]
    /\ pack \in [Pushes -> PackType]
    /\ lives \in [Requests -> SUBSET (Repos \X (0..MaxClears))]
    /\ to \in [Pushes -> Repos \cup {NoConfig}]
    /\ sent \subseteq Pushes
    /\ applied \in [Pushes -> 0..Len(hist)]
    /\ unseen \subseteq Pushes
    /\ got \in [Fetches -> SUBSET Commits]

\* git is told "ok" only for a push one contract has applied, all refs of it
\* in one version, whatever is configured meanwhile; the service worker's
\* deletions are the exception.
OkIsApplied ==
    \A r \in Pushes : pc[r] = "ok" /\ ~(Worker /\ DeleteOnly(r)) =>
        /\ applied[r] # 0
        /\ \A name \in Updated(r) : hist[applied[r]][to[r]].refs[name] = new[r][name]

\* A push replaces exactly the values its author was shown by info/refs,
\* however many pushes and clears came in between or while it was under way,
\* and even if it ends in another contract than the one shown; where it
\* was shown the zeros of a deletion it may also replace nothing.
ReplacesWhatWasShown ==
    \A r \in Pushes : applied[r] # 0 =>
        \A name \in Updated(r) :
            LET was == hist[applied[r] - 1][to[r]].refs[name]
            IN  was = Advert(r)[name] \/ (was = NoSha /\ Advert(r)[name] = Zero)

\* The pushes that made version v of repo what it is looked at no earlier life
\* of it, and at no other contract.
Unmixed(v, repo) ==
    \A r \in Pushes :
        /\ applied[r] \in 1..v /\ to[r] = repo
        /\ hist[applied[r]][repo].life = hist[v][repo].life
        => lives[r] = {<<repo, hist[v][repo].life>>}

\* In every version whatever is reachable from a ref can be had from the packs,
\* though each pack leaves out what some view of another version held, and is
\* full of deltas against it.
RefsClosed ==
    \A v \in 1..Len(hist), repo \in Repos : Unmixed(v, repo) =>
        \A name \in RefNames : Reach(hist[v][repo].refs[name]) \subseteq hist[v][repo].have

\* A fetch is served what it was shown, unless a clear or a configure message
\* fell between its views or between those of a push: pushes do no harm.
FetchIsComplete ==
    \A r \in Fetches :
        /\ oneNode /\ pc[r] = "served"
        /\ \E life \in 0..MaxClears : lives[r] = {<<from[r], life>>}
        /\ Unmixed(shown[r], from[r])
        => \A name \in RefNames : Reach(Advert(r)[name]) \subseteq got[r]

\* Some ref has not had the awaited value from when git was shown the refs to
\* when the push was applied.
Fresh(r) ==
    \E name \in Updated(r) :
        \A v \in shown[r]..(applied[r] - 1) : hist[v][to[r]].refs[name] # Awaited(r, name)

\* "Hold the push response until get_refs reflects what we just pushed"
\* (near-git-sw.js, handleReceivePack): after an "ok" in time no view is older
\* than the push, forced back to an old value or not, unless all its refs went
\* back and forth while it was under way, or another contract was polled.
ReadYourWrites ==
    \A r \in Pushes :
        /\ oneNode /\ Worker
        /\ pc[r] = "ok" /\ r \notin unseen /\ applied[r] # 0 /\ Fresh(r)
        => lowest >= applied[r]

\* A ref whose deletion git was told is "ok" is absent from get_refs
\* (near-git-sw.js, waitForRefsToCatchUp; "delete-refs" in CAPABILITIES).
DeletedRefsAreGone ==
    \A r \in Pushes : pc[r] = "ok" =>
        \A name \in Updated(r) : new[r][name] = Zero =>
            applied[r] # 0 /\ hist[applied[r]][to[r]].refs[name] = NoSha

\* Every request git has sent is answered, or fails with the worker it was
\* sent to, unless the worker is stopped and no page ever configures it again:
\* ensureReady has no deadline.
Answered ==
    \A r \in Requests :
        (<>[](config = NoConfig)) \/ (pc[r] = "posted" ~> pc[r] \in {"ok", "failed", "served"})
=============================================================================
