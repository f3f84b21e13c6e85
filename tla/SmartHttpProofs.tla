---------------------------- MODULE SmartHttpProofs ----------------------------
(***************************************************************************)
(* Of any number of pushes and fetches, contracts, clears, configure       *)
(* messages and restarts of the worker: what git is told is so, a push     *)
(* replaces what its author was shown, and refs stay closed.               *)
(*                                                                         *)
(* The argument: versions are only added, so what a request was shown      *)
(* stays there; within a life of a contract packs are only added; and what *)
(* a push leaves out of its pack was in a version of the life it will be   *)
(* stored in, since its looks are all of that one life.                    *)
(***************************************************************************)
EXTENDS SmartHttp, TLAPS

LEMMA OneMore ==
    ASSUME NEW S, NEW s \in Seq(S), NEW e \in S
    PROVE  /\ Append(s, e) \in Seq(S) /\ Append(s, e) # << >>
           /\ Len(s) \in Nat /\ Len(Append(s, e)) = Len(s) + 1
           /\ \A i \in 1..Len(s) : Append(s, e)[i] = s[i]
           /\ Append(s, e)[Len(s) + 1] = e
  OBVIOUS

LEMMA StoredType ==
    ASSUME NEW contract \in Version, NEW r \in Pushes, TypeOK
    PROVE  Stored(r, contract) \in Version
<1>1. new[r] \in RefMap /\ pack[r] \in PackType
  BY DEF TypeOK
<1>2. [name \in RefNames |-> IF name \in Updated(r) THEN new[r][name] ELSE contract.refs[name]]
        \in RefMap
  BY <1>1 DEF RefMap, Version
<1>3. /\ (IF pack[r].empty THEN contract.packs ELSE contract.packs + 1) \in Nat
      /\ (IF pack[r].base \in contract.have \cup {NoSha}
          THEN contract.have \cup pack[r].objs ELSE contract.have) \in SUBSET Commits
  BY <1>1 DEF PackType, Version
<1> QED
  BY <1>2, <1>3 DEF Stored, Version

LEMMA ReachType ==
    /\ \A s : Reach(s) \subseteq Commits
    /\ \A S : ReachAll(S) \subseteq Commits
    /\ NoRefs \in RefMap
    /\ \A name \in RefNames : Reach(NoRefs[name]) = {}
    /\ Blank \in Version
  BY HttpConstants DEF Reach, ReachAll, NoRefs, RefMap, Blank, Version, Commits

LEMMA GitPacksType ==
    ASSUME NEW names, NEW s, NEW has
    PROVE  /\ GitPacks(names, s, has) \subseteq PackType
           /\ \A p \in GitPacks(names, s, has) : p.empty => p.objs = {}
<1>1. NoPack \in PackType /\ NoPack.objs = {}
  BY DEF NoPack, PackType
<1>2. CASE names = {}
  BY <1>1, <1>2 DEF GitPacks
<1>3. CASE names # {}
  BY <1>3, ReachType DEF GitPacks, PackType
<1> QED
  BY <1>2, <1>3

\* The parts of a version, and what a view answers from.
LEMMA Parts ==
    ASSUME TypeOK, NEW v \in 1..Len(hist), NEW repo \in Repos
    PROVE  /\ hist[v] \in [Repos -> Version]
           /\ hist[v][repo].refs \in RefMap /\ hist[v][repo].packs \in Nat
           /\ hist[v][repo].have \subseteq Commits /\ hist[v][repo].life \in 0..MaxClears
<1>1. hist[v] \in [Repos -> Version]
  BY DEF TypeOK
<1> QED
  BY <1>1 DEF Version

LEMMA LatestType ==
    ASSUME TypeOK
    PROVE  Len(hist) \in Nat \ {0} /\ Len(hist) \in 1..Len(hist) /\ Latest \in [Repos -> Version]
<1>1. Len(hist) \in Nat \ {0}
  BY DEF TypeOK
<1> QED
  BY <1>1 DEF TypeOK, Latest

\* What a push or a clear adds to the versions.
Pushed(r) == [Latest EXCEPT ![to[r]] = Stored(r, Latest[to[r]])]

Cleared(repo) == [Latest EXCEPT ![repo] = [Blank EXCEPT !.life = Latest[repo].life + 1]]

LEMMA PushedType ==
    ASSUME TypeOK, NEW r \in Pushes
    PROVE  Pushed(r) \in [Repos -> Version]
  BY StoredType, LatestType DEF Pushed

LEMMA ClearedType ==
    ASSUME TypeOK, NEW repo \in Repos, Clear(repo)
    PROVE  Cleared(repo) \in [Repos -> Version]
<1>1. Latest[repo].life + 1 \in 0..MaxClears
  BY LatestType, HttpConstants DEF Clear, Version
<1>2. [Blank EXCEPT !.life = Latest[repo].life + 1] \in Version
  BY <1>1, ReachType DEF Version
<1> QED
  BY <1>2, LatestType DEF Cleared

LEMMA LooksType ==
    ASSUME TypeOK, NEW r \in Requests, NEW v \in Visible, Looks(r, v), config \in Repos
    PROVE  lowest' \in 1..Len(hist) /\ lives' \in [Requests -> SUBSET (Repos \X (0..MaxClears))]
<1>1. v \in 1..Len(hist) /\ hist[v][config].life \in 0..MaxClears
  BY Parts DEF Visible
<1> QED
  BY <1>1 DEF Looks, TypeOK

-----------------------------------------------------------------------------
(* Types, and who is where *)

\* Only pushes are called and waited for, only fetches served; and a worker
\* that is at work is configured.
Places ==
    /\ \A r \in Requests :
          /\ pc[r] \in {"bases", "sign", "called", "waiting", "ok"} => r \in Pushes
          /\ pc[r] \in {"packs", "served"} => r \in Fetches
          /\ pc[r] \in Handling => Ready
    /\ ~Worker => Ready

Typed == TypeOK /\ Places

LEMMA TypedInit == Init => Typed
<1> SUFFICES ASSUME Init PROVE Typed
  OBVIOUS
<1>1. NoPack \in PackType
  BY DEF NoPack, PackType
<1>2. hist \in Seq([Repos -> Version]) /\ Len(hist) = 1 /\ hist # << >>
  BY ReachType DEF Init
<1>3. /\ program \in {"worker", "server"} /\ oneNode \in BOOLEAN
      /\ config \in Repos \cup {NoConfig} /\ (~Worker => Ready)
      /\ messages \in 0..MaxConfigures /\ stops \in 0..MaxStops
  BY HttpConstants DEF Init, Ready, Worker
<1>4. TypeOK
  BY <1>1, <1>2, <1>3, ReachType DEF Init, TypeOK
<1> QED
  BY <1>3, <1>4 DEF Init, Typed, Places, Handling

LEMMA TypedInfo ==
    ASSUME Typed, NEW r \in Requests,
           InfoRefs(r) \/ GitPush(r) \/ GitFetch(r)
    PROVE  Typed'
<1> USE DEF Typed, setting, worker, chain, request, To
<1>1. CASE InfoRefs(r)
  <2>1. config \in Repos
    BY <1>1 DEF InfoRefs, Ready, TypeOK
  <2>2. PICK v \in Visible : Looks(r, v) /\ shown' = [shown EXCEPT ![r] = v]
    BY <1>1 DEF InfoRefs
  <2>3. lowest' \in 1..Len(hist) /\ lives' \in [Requests -> SUBSET (Repos \X (0..MaxClears))]
    BY <2>1, <2>2, LooksType
  <2>4. shown' \in [Requests -> 0..Len(hist)]
    BY <2>2 DEF TypeOK, Visible
  <2>5. TypeOK'
    BY <1>1, <2>1, <2>3, <2>4 DEF InfoRefs, TypeOK
  <2> QED
    BY <1>1, <2>5 DEF InfoRefs, Places, TypeOK, Handling, Worker, Ready
<1>2. CASE GitPush(r)
  <2>1. new' \in [Pushes -> RefMap]
    BY <1>2, HttpConstants DEF GitPush, TypeOK, RefMap, Commits, Commands
  <2>2. pack' \in [Pushes -> PackType]
    <3>1. PICK names \in SUBSET RefNames, s \in Commits,
               has \in SUBSET {Advert(r)[name] : name \in RefNames} :
            \E p \in GitPacks(names, s, has) : pack' = [pack EXCEPT ![r] = p]
      BY <1>2 DEF GitPush
    <3>2. GitPacks(names, s, has) \subseteq PackType
      BY GitPacksType
    <3> QED
      BY <1>2, <3>1, <3>2 DEF GitPush, TypeOK
  <2>3. TypeOK'
    BY <1>2, <2>1, <2>2 DEF GitPush, TypeOK
  <2> QED
    BY <1>2, <2>3 DEF GitPush, Places, TypeOK, Handling, Worker, Ready
<1>3. CASE GitFetch(r)
  BY <1>3 DEF GitFetch, TypeOK, Places, Handling, Worker, Ready
<1> QED
  BY <1>1, <1>2, <1>3

LEMMA TypedHandle ==
    ASSUME Typed, NEW r \in Requests, Handle(r)
    PROVE  Typed'
<1> USE DEF Typed, setting, worker, chain, request, To
<1>1. CASE ReceivePack(r)
  BY <1>1 DEF ReceivePack, Send, TypeOK, Places, Handling, Worker, Ready
<1>2. CASE CountForPush(r)
  <2>1. config \in Repos
    BY <1>2 DEF CountForPush, Ready, TypeOK
  <2>2. lowest' \in 1..Len(hist) /\ lives' \in [Requests -> SUBSET (Repos \X (0..MaxClears))]
    BY <1>2, <2>1, LooksType DEF CountForPush, TypeOK
  <2>3. TypeOK'
    BY <1>2, <2>2 DEF CountForPush, TypeOK
  <2> QED
    BY <1>2, <2>3 DEF CountForPush, Places, TypeOK, Handling, Worker, Ready
<1>3. CASE ReadBases(r)
  <2>1. r \in Pushes /\ config \in Repos
    BY <1>3 DEF ReadBases, Places, Handling, Ready, TypeOK
  <2>2. PICK v \in Visible :
          /\ Looks(r, v)
          /\ \E base \in {NoSha} \cup hist[v][config].have :
                pack' = [pack EXCEPT ![r] = [objs |-> pack[r].objs \ hist[v][config].have,
                                             base |-> base, empty |-> FALSE]]
    BY <1>3 DEF ReadBases, Bases
  <2>3. lowest' \in 1..Len(hist) /\ lives' \in [Requests -> SUBSET (Repos \X (0..MaxClears))]
    BY <2>1, <2>2, LooksType
  <2>4. hist[v][config].have \subseteq Commits
    BY <2>1, Parts DEF Visible
  <2>5. pack' \in [Pushes -> PackType]
    BY <2>1, <2>2, <2>4 DEF TypeOK, PackType
  <2>6. TypeOK'
    BY <1>3, <2>3, <2>5 DEF ReadBases, TypeOK
  <2> QED
    BY <1>3, <2>6 DEF ReadBases, Places, TypeOK, Handling, Worker, Ready
<1>4. CASE Sign(r)
  BY <1>4 DEF Sign, Send, TypeOK, Places, Handling, Worker, Ready
<1>5. CASE Answer(r)
  BY <1>5 DEF Answer, TypeOK, Places, Handling, Worker, Ready
<1>6. CASE CallFails(r)
  BY <1>6 DEF CallFails, TypeOK, Places, Handling, Worker, Ready
<1>7. CASE CountForFetch(r)
  <2>1. config \in Repos
    BY <1>7 DEF CountForFetch, Ready, TypeOK
  <2>2. lowest' \in 1..Len(hist) /\ lives' \in [Requests -> SUBSET (Repos \X (0..MaxClears))]
    BY <1>7, <2>1, LooksType DEF CountForFetch
  <2>3. TypeOK'
    BY <1>7, <2>2 DEF CountForFetch, TypeOK
  <2> QED
    BY <1>7, <2>3 DEF CountForFetch, Places, TypeOK, Handling, Worker, Ready
<1>8. CASE ReadPacks(r)
  <2>1. config \in Repos
    BY <1>8 DEF ReadPacks, Places, Handling, Ready, TypeOK
  <2>2. PICK v \in Visible : Looks(r, v) /\ got' = [got EXCEPT ![r] = hist[v][config].have]
    BY <1>8 DEF ReadPacks
  <2>3. lowest' \in 1..Len(hist) /\ lives' \in [Requests -> SUBSET (Repos \X (0..MaxClears))]
    BY <2>1, <2>2, LooksType
  <2>4. got' \in [Fetches -> SUBSET Commits]
    BY <2>1, <2>2, Parts DEF Visible, TypeOK
  <2>5. TypeOK'
    BY <1>8, <2>3, <2>4 DEF ReadPacks, TypeOK
  <2> QED
    BY <1>8, <2>5 DEF ReadPacks, Places, TypeOK, Handling, Worker, Ready
<1>9. CASE ViewFails(r)
  BY <1>9 DEF ViewFails, TypeOK, Places, Handling, Worker, Ready
<1> QED
  BY <1>1, <1>2, <1>3, <1>4, <1>5, <1>6, <1>7, <1>8, <1>9 DEF Handle

LEMMA TypedRest ==
    ASSUME Typed,
           \/ Configure \/ Stop
           \/ \E r \in Pushes : Resign(r) \/ Poll(r) \/ Deadline(r) \/ Execute(r)
           \/ \E repo \in Repos : Clear(repo)
    PROVE  Typed'
<1> USE DEF Typed, setting, worker, chain, request, To
<1>1. CASE Configure
  BY <1>1, HttpConstants DEF Configure, TypeOK, Places, Handling, Worker, Ready
<1>2. CASE Stop
  <2>1. TypeOK'
    BY <1>2, HttpConstants DEF Stop, TypeOK
  <2> QED
    BY <1>2, <2>1 DEF Stop, TypeOK, Places, Handling, Worker, Ready
<1>3. ASSUME NEW r \in Pushes, Resign(r)
      PROVE  Typed'
  BY <1>3 DEF Resign, Send, TypeOK, Places, Handling, Worker, Ready
<1>4. ASSUME NEW r \in Pushes, Poll(r)
      PROVE  Typed'
  <2>1. lowest' \in 1..Len(hist)
    BY <1>4 DEF Poll, TypeOK, Visible
  <2>2. TypeOK'
    BY <1>4, <2>1 DEF Poll, TypeOK
  <2> QED
    BY <1>4, <2>2 DEF Poll, TypeOK, Places, Handling, Worker, Ready
<1>5. ASSUME NEW r \in Pushes, Deadline(r)
      PROVE  Typed'
  BY <1>5 DEF Deadline, TypeOK, Places, Handling, Worker, Ready
<1>6. ASSUME NEW r \in Pushes, Execute(r)
      PROVE  Typed'
  <2>1. CASE UNCHANGED <<hist, applied>>
    BY <1>6, <2>1 DEF Execute, TypeOK, Places, Handling, Worker, Ready
  <2>2. CASE /\ hist' = Append(hist, Pushed(r))
             /\ applied' = [applied EXCEPT ![r] = Len(hist) + 1]
    <3>1. Pushed(r) \in [Repos -> Version]
      BY PushedType
    <3>2. hist' \in Seq([Repos -> Version]) /\ Len(hist') = Len(hist) + 1 /\ hist' # << >>
      BY <2>2, <3>1, OneMore DEF TypeOK
    <3>3. Len(hist) \in Nat
      BY LatestType
    <3>4. /\ lowest' \in 1..Len(hist') /\ shown' \in [Requests -> 0..Len(hist')]
          /\ applied' \in [Pushes -> 0..Len(hist')] /\ sent' \subseteq Pushes
      BY <1>6, <2>2, <3>2, <3>3 DEF Execute, TypeOK
    <3>5. TypeOK'
      BY <1>6, <3>2, <3>4 DEF Execute, TypeOK
    <3> QED
      BY <1>6, <3>5 DEF Execute, TypeOK, Places, Handling, Worker, Ready
  <2> QED
    BY <1>6, <2>1, <2>2 DEF Execute, Pushed
<1>7. ASSUME NEW repo \in Repos, Clear(repo)
      PROVE  Typed'
  <2>3. hist' = Append(hist, Cleared(repo)) /\ Cleared(repo) \in [Repos -> Version]
    BY <1>7, ClearedType DEF Clear, Cleared
  <2>4. hist' \in Seq([Repos -> Version]) /\ Len(hist') = Len(hist) + 1 /\ hist' # << >>
    <3>1. hist \in Seq([Repos -> Version])
      BY DEF TypeOK
    <3> QED
      BY <2>3, <3>1, OneMore
  <2>5. Len(hist) \in Nat
    BY LatestType
  <2>6. TypeOK'
    <3>1. /\ lowest' \in 1..Len(hist') /\ shown' \in [Requests -> 0..Len(hist')]
          /\ applied' \in [Pushes -> 0..Len(hist')]
      BY <1>7, <2>4, <2>5 DEF Clear, TypeOK
    <3> QED
      BY <1>7, <2>4, <3>1 DEF Clear, TypeOK
  <2> QED
    BY <1>7, <2>6 DEF Clear, TypeOK, Places, Handling, Worker, Ready
<1> QED
  BY <1>1, <1>2, <1>3, <1>4, <1>5, <1>6, <1>7

LEMMA TypedNext ==
    ASSUME Typed, [Next]_vars
    PROVE  Typed'
<1>1. CASE UNCHANGED vars
  BY <1>1 DEF vars, setting, worker, request, Typed, TypeOK, Places, Handling, Worker, Ready
<1> QED
  BY <1>1, TypedInfo, TypedHandle, TypedRest DEF Next

\* The type invariant of the smart HTTP requests holds in every behaviour.
THEOREM HttpTypeCorrect == Spec => []TypeOK
<1>1. Typed /\ [Next]_vars => Typed'
  BY TypedNext
<1>2. Typed => TypeOK
  BY DEF Typed
<1> QED
  BY <1>1, <1>2, TypedInit, PTL DEF Spec

-----------------------------------------------------------------------------
(* How a push goes *)

\* A transaction is sent once, by a push that was shown the refs, and its
\* contract is known while it may be executed and afterwards.
Flow ==
    \A r \in Pushes :
        /\ pc[r] \in {"idle", "shown", "posted", "bases", "sign"} =>
              r \notin sent /\ applied[r] = 0
        /\ r \in sent => applied[r] = 0
        /\ r \in sent \/ applied[r] # 0 => to[r] \in Repos /\ shown[r] # 0
        /\ pc[r] \in {"waiting", "ok"} /\ ~(Worker /\ DeleteOnly(r)) => applied[r] # 0
        /\ pc[r] \in {"idle", "shown"} => new[r] = NoRefs /\ pack[r] = NoPack
        /\ pack[r].empty => pack[r].objs = {}

Shows ==
    \A r \in Requests :
        /\ pc[r] = "idle" => shown[r] = 0 /\ lives[r] = {}
        /\ pc[r] \notin {"idle", "failed"} => shown[r] # 0

\* What a step leaves as it was.
Kept ==
    /\ \/ hist' = hist /\ applied' = applied
       \/ \E x \in [Repos -> Version] : hist' = Append(hist, x)
    /\ \A r \in Pushes :
          /\ applied[r] # 0 => /\ applied'[r] = applied[r] /\ to'[r] = to[r]
                               /\ new'[r] = new[r] /\ lives'[r] = lives[r]
          /\ applied'[r] \in {applied[r], Len(hist) + 1}
    /\ \A r \in Requests :
          /\ shown[r] # 0 => shown'[r] = shown[r] /\ from'[r] = from[r]
          /\ lives[r] \subseteq lives'[r]

Going == Typed /\ Flow /\ Shows

LEMMA GoingInit == Init => Going
  BY TypedInit DEF Going, Flow, Shows, Init, NoPack, Requests

\* Of steps that leave the transactions alone: requests end, or fetches go on.
LEMMA Quiet ==
    ASSUME Flow, Shows,
           UNCHANGED <<program, hist, sent, applied, to, shown, from, new, pack>>,
           \A r \in Requests :
              /\ \/ pc'[r] = pc[r] \/ pc'[r] = "failed"
                 \/ pc[r] = "waiting" /\ pc'[r] = "ok"
                 \/ r \notin Pushes /\ pc[r] \notin {"idle", "failed"} /\ pc'[r] # "idle"
              /\ lives[r] \subseteq lives'[r]
              /\ r \in Pushes \/ pc'[r] = "idle" => lives'[r] = lives[r]
    PROVE  Flow' /\ Shows' /\ Kept
<1> USE DEF Requests
<1>1. Flow'
  BY DEF Flow, Worker, DeleteOnly, Updated
<1>2. Shows'
  BY DEF Shows
<1>3. Kept
  BY DEF Kept
<1> QED
  BY <1>1, <1>2, <1>3

LEMMA GoingInfo ==
    ASSUME Going, NEW r \in Requests,
           InfoRefs(r) \/ GitPush(r) \/ GitFetch(r)
    PROVE  Flow' /\ Shows' /\ Kept
<1> USE DEF Going, Typed, TypeOK, setting, worker, chain, request, To
<1>1. CASE InfoRefs(r)
  <2>1. PICK v \in Visible : Looks(r, v) /\ shown' = [shown EXCEPT ![r] = v]
    BY <1>1 DEF InfoRefs
  <2>2. v # 0
    BY DEF Visible
  <2> QED
    BY <1>1, <2>1, <2>2 DEF InfoRefs, Looks, Flow, Shows, Kept, Worker, DeleteOnly, Updated
<1>2. CASE GitPush(r)
  <2>1. \E p \in PackType : pack' = [pack EXCEPT ![r] = p] /\ (p.empty => p.objs = {})
    <3>1. PICK names \in SUBSET RefNames, s \in Commits,
               has \in SUBSET {Advert(r)[name] : name \in RefNames} :
            \E p \in GitPacks(names, s, has) : pack' = [pack EXCEPT ![r] = p]
      BY <1>2 DEF GitPush
    <3>3. PICK p \in GitPacks(names, s, has) : pack' = [pack EXCEPT ![r] = p]
      BY <3>1
    <3>4. p \in PackType /\ (p.empty => p.objs = {})
      BY GitPacksType
    <3> QED
      BY <3>3, <3>4
  <2>2. \A d \in Pushes : (pack'[d].empty => pack'[d].objs = {})
                          /\ (d # r => new'[d] = new[d] /\ pack'[d] = pack[d])
    BY <1>2, <2>1 DEF GitPush, Flow
  <2> QED
    BY <1>2, <2>2 DEF GitPush, Flow, Shows, Kept, Worker, DeleteOnly, Updated
<1>3. CASE GitFetch(r)
  BY <1>3 DEF GitFetch, Flow, Shows, Kept, Worker, DeleteOnly, Updated
<1> QED
  BY <1>1, <1>2, <1>3

LEMMA GoingHandle ==
    ASSUME Going, NEW r \in Requests, Handle(r)
    PROVE  Flow' /\ Shows' /\ Kept
<1> USE DEF Going, Typed, TypeOK, setting, worker, chain, request, To, Worker, DeleteOnly, Updated,
           Requests
<1>1. CASE ReceivePack(r)
  BY <1>1 DEF ReceivePack, Send, Places, Ready, Flow, Shows, Kept, Worker
<1>2. CASE CountForPush(r)
  <2>1. CASE DeleteOnly(r)
    BY <1>2, <2>1 DEF CountForPush, Flow, Shows, Kept
  <2>2. CASE ~DeleteOnly(r)
    <3>1. PICK v \in Visible :
            Looks(r, v) /\ To(r, IF hist[v][config].packs = 0 THEN "sign" ELSE "bases")
      BY <1>2, <2>2 DEF CountForPush
    <3> QED
      BY <1>2, <3>1 DEF CountForPush, Looks, Flow, Shows, Kept
  <2> QED
    BY <2>1, <2>2
<1>3. CASE ReadBases(r)
  <2>1. r \in Pushes
    BY <1>3 DEF ReadBases, Places
  <2>2. PICK v \in Visible :
          /\ Looks(r, v)
          /\ \E base \in {NoSha} \cup hist[v][config].have :
                pack' = [pack EXCEPT ![r] = [objs |-> pack[r].objs \ hist[v][config].have,
                                             base |-> base, empty |-> FALSE]]
    BY <1>3 DEF ReadBases, Bases
  <2>3. \A d \in Pushes : (pack'[d].empty => pack'[d].objs = {})
                          /\ (d # r => pack'[d] = pack[d])
    BY <2>1, <2>2 DEF Flow
  <2> QED
    BY <1>3, <2>1, <2>2, <2>3 DEF ReadBases, Looks, Flow, Shows, Kept
<1>4. CASE Sign(r)
  BY <1>4 DEF Sign, Send, Places, Handling, Ready, Flow, Shows, Kept
<1>5. CASE Answer(r)
  BY <1>5 DEF Answer, Flow, Shows, Kept
<1>6. CASE CallFails(r)
  BY <1>6, Quiet DEF CallFails
<1>7. CASE CountForFetch(r)
  BY <1>7, HttpConstants, Quiet DEF CountForFetch, Looks
<1>8. CASE ReadPacks(r)
  BY <1>8, HttpConstants, Quiet DEF ReadPacks, Looks
<1>9. CASE ViewFails(r)
  BY <1>9, Quiet DEF ViewFails
<1> QED
  BY <1>1, <1>2, <1>3, <1>4, <1>5, <1>6, <1>7, <1>8, <1>9 DEF Handle

LEMMA GoingRest ==
    ASSUME Going,
           \/ Configure \/ Stop
           \/ \E r \in Pushes : Resign(r) \/ Poll(r) \/ Deadline(r) \/ Execute(r)
           \/ \E repo \in Repos : Clear(repo)
    PROVE  Flow' /\ Shows' /\ Kept
<1> USE DEF Going, Typed, TypeOK, setting, worker, chain, request, To, Worker, DeleteOnly, Updated,
           Requests
<1>1. CASE Configure
  BY <1>1, Quiet DEF Configure
<1>2. CASE Stop
  BY <1>2, Quiet DEF Stop
<1>3. ASSUME NEW r \in Pushes, Resign(r)
      PROVE  Flow' /\ Shows' /\ Kept
  BY <1>3 DEF Resign, Send, Places, Handling, Ready, Flow, Shows, Kept
<1>4. ASSUME NEW r \in Pushes, Poll(r)
      PROVE  Flow' /\ Shows' /\ Kept
  BY <1>4, Quiet DEF Poll
<1>5. ASSUME NEW r \in Pushes, Deadline(r)
      PROVE  Flow' /\ Shows' /\ Kept
  BY <1>5, Quiet DEF Deadline
<1>6. ASSUME NEW r \in Pushes, Execute(r)
      PROVE  Flow' /\ Shows' /\ Kept
  <2>1. CASE UNCHANGED <<hist, applied>>
    BY <1>6, <2>1 DEF Execute, Flow, Shows, Kept
  <2>2. CASE /\ hist' = Append(hist, Pushed(r))
             /\ applied' = [applied EXCEPT ![r] = Len(hist) + 1]
    <3>1. Pushed(r) \in [Repos -> Version]
      BY PushedType
    <3>2. Len(hist) + 1 # 0
      BY LatestType
    <3>3. Kept
      BY <1>6, <2>2, <3>1 DEF Execute, Flow, Kept
    <3> QED
      BY <1>6, <2>2, <3>2, <3>3 DEF Execute, Flow, Shows
  <2> QED
    BY <1>6, <2>1, <2>2 DEF Execute, Pushed
<1>7. ASSUME NEW repo \in Repos, Clear(repo)
      PROVE  Flow' /\ Shows' /\ Kept
  <2>3. hist' = Append(hist, Cleared(repo)) /\ Cleared(repo) \in [Repos -> Version]
    BY <1>7, ClearedType DEF Clear, Cleared
  <2>4. Kept
    BY <1>7, <2>3 DEF Clear, Kept
  <2> QED
    BY <1>7, <2>4 DEF Clear, Flow, Shows
<1> QED
  BY <1>1, <1>2, <1>3, <1>4, <1>5, <1>6, <1>7

LEMMA GoingNext ==
    ASSUME Going, [Next]_vars
    PROVE  Going' /\ Kept
<1>1. CASE UNCHANGED vars
  <2>1. Typed'
    BY <1>1, TypedNext DEF Going
  <2> QED
    BY <1>1, <2>1 DEF vars, setting, worker, request, Going, Flow, Shows, Kept, Worker,
       DeleteOnly, Updated
<1>2. CASE Next
  BY <1>2, TypedNext, GoingInfo, GoingHandle, GoingRest DEF Going, Next
<1> QED
  BY <1>1, <1>2

-----------------------------------------------------------------------------
(* What git is told *)

\* The versions so far are there to stay.
LEMMA OldStays ==
    ASSUME Going, Kept
    PROVE  /\ Len(hist) \in Nat \ {0} /\ Len(hist') \in {Len(hist), Len(hist) + 1}
           /\ \A v \in 1..Len(hist) : v \in 1..Len(hist') /\ hist'[v] = hist[v]
<1>1. hist \in Seq([Repos -> Version]) /\ Len(hist) \in Nat \ {0}
  BY DEF Going, Typed, TypeOK
<1> QED
  BY <1>1, OneMore DEF Kept

\* The push r takes effect.
Lands(r) ==
    /\ Execute(r)
    /\ Matches(r)
    /\ hist' = Append(hist, Pushed(r))
    /\ applied' = [applied EXCEPT ![r] = Len(hist) + 1]

LEMMA Adds ==
    ASSUME [Next]_vars
    PROVE  \/ UNCHANGED <<hist, applied>>
           \/ \E r \in Pushes : Lands(r)
           \/ \E repo \in Repos : Clear(repo) /\ hist' = Append(hist, Cleared(repo))
<1> USE DEF chain
<1>1. ASSUME NEW r \in Requests, InfoRefs(r) \/ GitPush(r) \/ GitFetch(r) \/ Handle(r)
      PROVE  UNCHANGED <<hist, applied>>
  BY <1>1 DEF InfoRefs, GitPush, GitFetch, Handle, ReceivePack, CountForPush, ReadBases, Sign,
     Answer, CallFails, CountForFetch, ReadPacks, ViewFails
<1>2. ASSUME Configure \/ Stop \/ UNCHANGED vars
      PROVE  UNCHANGED <<hist, applied>>
  BY <1>2 DEF Configure, Stop, vars
<1>3. ASSUME NEW r \in Pushes, Resign(r) \/ Poll(r) \/ Deadline(r) \/ Execute(r)
      PROVE  UNCHANGED <<hist, applied>> \/ Lands(r)
  BY <1>3 DEF Resign, Poll, Deadline, Execute, Lands, Pushed
<1>4. ASSUME NEW repo \in Repos, Clear(repo)
      PROVE  hist' = Append(hist, Cleared(repo))
  BY <1>4 DEF Clear, Cleared
<1> QED
  BY <1>1, <1>2, <1>3, <1>4 DEF Next

\* What an applied push replaced, and by what.
Landed ==
    \A r \in Pushes : applied[r] # 0 =>
        /\ applied[r] - 1 \in 1..Len(hist)
        /\ \A name \in Updated(r) :
              /\ hist[applied[r]][to[r]].refs[name] = new[r][name]
              /\ hist[applied[r] - 1][to[r]].refs[name] = OldSha(r, name)

LEMMA LandedNext ==
    ASSUME Going, Landed, [Next]_vars
    PROVE  Landed'
<1>0. Going' /\ Kept
  BY GoingNext
<1>1. SUFFICES ASSUME NEW r \in Pushes, applied'[r] # 0
               PROVE  /\ applied'[r] - 1 \in 1..Len(hist')
                      /\ \A name \in Updated(r)' :
                            /\ hist'[applied'[r]][to'[r]].refs[name] = new'[r][name]
                            /\ hist'[applied'[r] - 1][to'[r]].refs[name] = OldSha(r, name)'
  BY DEF Landed
<1>2. /\ Len(hist) \in Nat \ {0} /\ Len(hist') \in {Len(hist), Len(hist) + 1}
      /\ \A v \in 1..Len(hist) : v \in 1..Len(hist') /\ hist'[v] = hist[v]
  BY <1>0, OldStays
<1>3. r \in Requests /\ shown[r] \in 0..Len(hist) /\ applied[r] \in 0..Len(hist)
  BY DEF Requests, Going, Typed, TypeOK
<1>4. ASSUME shown[r] # 0, new'[r] = new[r]
      PROVE  Updated(r)' = Updated(r) /\ \A name : OldSha(r, name)' = OldSha(r, name)
  <2>1. shown'[r] = shown[r] /\ from'[r] = from[r] /\ hist'[shown[r]] = hist[shown[r]]
    BY <1>0, <1>2, <1>3, <1>4 DEF Kept
  <2> QED
    BY <1>4, <2>1 DEF Updated, OldSha, Advert
<1>5. CASE applied[r] # 0
  <2>1. applied'[r] = applied[r] /\ to'[r] = to[r] /\ new'[r] = new[r] /\ shown[r] # 0
    BY <1>0, <1>5 DEF Kept, Going, Flow
  <2>2. hist'[applied[r]] = hist[applied[r]] /\ hist'[applied[r] - 1] = hist[applied[r] - 1]
    BY <1>2, <1>3, <1>5 DEF Landed
  <2> QED
    BY <1>2, <1>4, <1>5, <2>1, <2>2 DEF Landed
<1>6. CASE applied[r] = 0
  <2>1. Lands(r) /\ applied'[r] = Len(hist) + 1
    <3>1. PICK d \in Pushes : Lands(d)
      BY <1>1, <1>6, Adds DEF Clear
    <3> QED
      BY <1>1, <1>6, <3>1 DEF Lands, Going, Typed, TypeOK
  <2>2. r \in sent /\ to'[r] = to[r] /\ new'[r] = new[r]
    BY <2>1 DEF Lands, Execute, request
  <2>3. to[r] \in Repos /\ shown[r] # 0
    BY <2>2 DEF Going, Flow
  <2>4. Pushed(r) \in [Repos -> Version] /\ Latest \in [Repos -> Version]
    BY PushedType, LatestType DEF Going, Typed
  <2>5. hist \in Seq([Repos -> Version])
    BY DEF Going, Typed, TypeOK
  <2>6. hist'[Len(hist) + 1] = Pushed(r) /\ hist'[Len(hist)] = Latest
    BY <1>2, <2>1, <2>4, <2>5, OneMore DEF Lands, Latest
  <2>7. \A name \in Updated(r) : /\ Pushed(r)[to[r]].refs[name] = new[r][name]
                                 /\ Latest[to[r]].refs[name] = OldSha(r, name)
    BY <2>1, <2>3, <2>4 DEF Pushed, Stored, Lands, Matches, Updated
  <2> QED
    BY <1>2, <1>4, <2>1, <2>2, <2>3, <2>6, <2>7
<1> QED
  BY <1>5, <1>6

LEMMA LandedInit == Init => Landed
  BY DEF Init, Landed

LEMMA TellsTheTruth ==
    ASSUME Going, Landed
    PROVE  OkIsApplied /\ ReplacesWhatWasShown
  BY DEF Going, Flow, Landed, OkIsApplied, ReplacesWhatWasShown, OldSha, Typed, TypeOK

\* Whatever any number of contracts, pushes, clears, configure messages
\* and restarts do, "ok" is only said of a push that one contract has applied
\* whole.
THEOREM OkIsTrue == Spec => []OkIsApplied
<1>1. Init => Going /\ Landed
  BY GoingInit, LandedInit
<1>2. Going /\ Landed /\ [Next]_vars => (Going /\ Landed)'
  BY GoingNext, LandedNext
<1>3. Going /\ Landed => OkIsApplied
  BY TellsTheTruth
<1> QED
  BY <1>1, <1>2, <1>3, PTL DEF Spec

\* And a push never replaces what its author was not shown.
THEOREM NothingLost == Spec => []ReplacesWhatWasShown
<1>1. Init => Going /\ Landed
  BY GoingInit, LandedInit
<1>2. Going /\ Landed /\ [Next]_vars => (Going /\ Landed)'
  BY GoingNext, LandedNext
<1>3. Going /\ Landed => ReplacesWhatWasShown
  BY TellsTheTruth
<1> QED
  BY <1>1, <1>2, <1>3, PTL DEF Spec

-----------------------------------------------------------------------------
(* What requests have looked at *)

\* What a request was shown is one of its looks, and views later than that.
Looked ==
    \A r \in Requests : shown[r] # 0 =>
        /\ from[r] \in Repos
        /\ <<from[r], hist[shown[r]][from[r]].life>> \in lives[r]
        /\ oneNode => shown[r] <= lowest

LEMMA ShownBy ==
    ASSUME [Next]_vars
    PROVE  \/ UNCHANGED <<shown, from>>
           \/ \E r \in Requests : InfoRefs(r)
<1> USE DEF request
<1>1. ASSUME NEW r \in Requests, GitPush(r) \/ GitFetch(r) \/ Handle(r)
      PROVE  UNCHANGED <<shown, from>>
  BY <1>1 DEF GitPush, GitFetch, Handle, ReceivePack, CountForPush, ReadBases, Sign,
     Answer, CallFails, CountForFetch, ReadPacks, ViewFails
<1>2. ASSUME Configure \/ Stop \/ UNCHANGED vars
      PROVE  UNCHANGED <<shown, from>>
  BY <1>2 DEF Configure, Stop, vars
<1>3. ASSUME NEW r \in Pushes, Resign(r) \/ Poll(r) \/ Deadline(r) \/ Execute(r)
      PROVE  UNCHANGED <<shown, from>>
  BY <1>3 DEF Resign, Poll, Deadline, Execute
<1>4. ASSUME NEW repo \in Repos, Clear(repo)
      PROVE  UNCHANGED <<shown, from>>
  BY <1>4 DEF Clear
<1> QED
  BY <1>1, <1>2, <1>3, <1>4 DEF Next

LEMMA ViewsRise ==
    ASSUME Typed, [Next]_vars
    PROVE  UNCHANGED setting /\ (oneNode => lowest <= lowest')
<1> USE DEF setting
<1>0. lowest \in Int
  BY DEF Typed, TypeOK
<1>1. ASSUME NEW r \in Requests, InfoRefs(r) \/ GitPush(r) \/ GitFetch(r) \/ Handle(r)
      PROVE  UNCHANGED setting /\ (oneNode => lowest <= lowest')
  BY <1>0, <1>1 DEF InfoRefs, GitPush, GitFetch, Handle, ReceivePack, CountForPush, ReadBases,
     Sign, Answer, CallFails, CountForFetch, ReadPacks, ViewFails, Looks, Visible
<1>2. ASSUME Configure \/ Stop \/ UNCHANGED vars
      PROVE  UNCHANGED setting /\ (oneNode => lowest <= lowest')
  BY <1>0, <1>2 DEF Configure, Stop, vars
<1>3. ASSUME NEW r \in Pushes, Resign(r) \/ Poll(r) \/ Deadline(r) \/ Execute(r)
      PROVE  UNCHANGED setting /\ (oneNode => lowest <= lowest')
  BY <1>0, <1>3 DEF Resign, Poll, Deadline, Execute, Visible
<1>4. ASSUME NEW repo \in Repos, Clear(repo)
      PROVE  UNCHANGED setting /\ (oneNode => lowest <= lowest')
  BY <1>0, <1>4 DEF Clear
<1> QED
  BY <1>1, <1>2, <1>3, <1>4 DEF Next

LEMMA LookedNext ==
    ASSUME Going, Looked, [Next]_vars
    PROVE  Looked'
<1>0. Going' /\ Kept
  BY GoingNext
<1>1. SUFFICES ASSUME NEW r \in Requests, shown'[r] # 0
               PROVE  /\ from'[r] \in Repos
                      /\ <<from'[r], hist'[shown'[r]][from'[r]].life>> \in lives'[r]
                      /\ oneNode' => shown'[r] <= lowest'
  BY DEF Looked
<1>2. UNCHANGED setting /\ (oneNode => lowest <= lowest')
  BY ViewsRise DEF Going
<1>3. CASE shown[r] # 0
  <2>1. shown'[r] = shown[r] /\ from'[r] = from[r] /\ lives[r] \subseteq lives'[r]
    BY <1>0, <1>3 DEF Kept
  <2>2. hist'[shown[r]] = hist[shown[r]]
    <3>1. shown[r] \in 1..Len(hist)
      BY <1>3 DEF Going, Typed, TypeOK
    <3> QED
      BY <1>0, <3>1, OldStays
  <2>3. shown[r] \in Int /\ lowest \in Int /\ lowest' \in Int
    BY <1>0 DEF Going, Typed, TypeOK
  <2> QED
    BY <1>2, <1>3, <2>1, <2>2, <2>3 DEF Looked, setting
<1>4. CASE shown[r] = 0
  <2>1. InfoRefs(r)
    BY <1>1, <1>4, ShownBy DEF InfoRefs, Going, Typed, TypeOK
  <2>2. PICK v \in Visible : Looks(r, v) /\ shown' = [shown EXCEPT ![r] = v]
    BY <2>1 DEF InfoRefs
  <2>3. /\ from'[r] = config /\ config \in Repos /\ hist' = hist
        /\ shown'[r] = v /\ v \in Int
        /\ lives'[r] = lives[r] \cup {<<config, hist[v][config].life>>}
        /\ oneNode => lowest' = v
    BY <2>1, <2>2 DEF InfoRefs, Looks, Ready, Going, Typed, TypeOK, chain, Visible
  <2> QED
    BY <1>2, <2>3 DEF setting
<1> QED
  BY <1>3, <1>4

-----------------------------------------------------------------------------
(* The history of a contract *)

\* Its lives follow each other, and within one packs are only added.
Grows ==
    /\ \A v \in 1..Len(hist), repo \in Repos :
          hist[v][repo].packs = 0 => hist[v][repo].have = {}
    /\ \A u, v \in 1..Len(hist), repo \in Repos : u <= v =>
          /\ hist[u][repo].life <= hist[v][repo].life
          /\ hist[u][repo].life = hist[v][repo].life
                => hist[u][repo].have \subseteq hist[v][repo].have

\* Version x may come after the latest.
Follows(x) ==
    /\ x \in [Repos -> Version]
    /\ \A repo \in Repos :
          /\ x[repo].packs = 0 => x[repo].have = {}
          /\ Latest[repo].life <= x[repo].life
          /\ Latest[repo].life = x[repo].life => Latest[repo].have \subseteq x[repo].have

LEMMA PushedFollows ==
    ASSUME Going, Grows, NEW r \in Pushes, r \in sent
    PROVE  /\ Follows(Pushed(r))
           /\ \A repo \in Repos \ {to[r]} : Pushed(r)[repo] = Latest[repo]
           /\ Pushed(r)[to[r]] = Stored(r, Latest[to[r]])
<1>1. to[r] \in Repos
  BY DEF Going, Flow
<1>2. Latest \in [Repos -> Version] /\ Pushed(r) \in [Repos -> Version]
  BY LatestType, PushedType DEF Going, Typed
<1>3. /\ \A repo \in Repos \ {to[r]} : Pushed(r)[repo] = Latest[repo]
      /\ Pushed(r)[to[r]] = Stored(r, Latest[to[r]])
  BY <1>1, <1>2 DEF Pushed
<1>4. \A repo \in Repos : Latest[repo].packs = 0 => Latest[repo].have = {}
  BY LatestType DEF Going, Typed, Grows, Latest
<1>5. LET x == Stored(r, Latest[to[r]])
      IN  /\ x.packs = 0 => x.have = {}
          /\ x.life = Latest[to[r]].life /\ Latest[to[r]].have \subseteq x.have
  <2>1. pack[r].empty => pack[r].objs = {}
    BY DEF Going, Flow
  <2>2. Latest[to[r]].packs \in Nat
    BY <1>1, <1>2 DEF Version
  <2> QED
    BY <1>1, <1>4, <2>1, <2>2 DEF Stored
<1>6. \A repo \in Repos : Latest[repo].life \in Int
  BY <1>2 DEF Version
<1>7. ASSUME NEW repo \in Repos
      PROVE  /\ Pushed(r)[repo].packs = 0 => Pushed(r)[repo].have = {}
             /\ Pushed(r)[repo].life = Latest[repo].life
             /\ Latest[repo].have \subseteq Pushed(r)[repo].have
  BY <1>3, <1>4, <1>5
<1> QED
  BY <1>2, <1>3, <1>6, <1>7 DEF Follows

LEMMA ClearedFollows ==
    ASSUME Going, Grows, NEW repo \in Repos, Clear(repo)
    PROVE  /\ Follows(Cleared(repo))
           /\ \A other \in Repos \ {repo} : Cleared(repo)[other] = Latest[other]
           /\ Cleared(repo)[repo] = [Blank EXCEPT !.life = Latest[repo].life + 1]
<1>1. Latest \in [Repos -> Version] /\ Cleared(repo) \in [Repos -> Version]
  BY LatestType, ClearedType DEF Going, Typed
<1>2. /\ \A other \in Repos \ {repo} : Cleared(repo)[other] = Latest[other]
      /\ Cleared(repo)[repo] = [Blank EXCEPT !.life = Latest[repo].life + 1]
  BY <1>1 DEF Cleared
<1>3. \A other \in Repos : Latest[other].packs = 0 => Latest[other].have = {}
  BY LatestType DEF Going, Typed, Grows, Latest
<1>4. \A other \in Repos : Latest[other].life \in Int
  BY <1>1 DEF Version
<1> QED
  BY <1>1, <1>2, <1>3, <1>4 DEF Follows, Blank

LEMMA AddsFollower ==
    ASSUME Going, Grows, [Next]_vars
    PROVE  hist' = hist \/ \E x : Follows(x) /\ hist' = Append(hist, x)
<1>1. ASSUME NEW r \in Pushes, Lands(r)
      PROVE  Follows(Pushed(r)) /\ hist' = Append(hist, Pushed(r))
  BY <1>1, PushedFollows DEF Lands, Execute
<1> QED
  BY <1>1, Adds, ClearedFollows

LEMMA GrowsNext ==
    ASSUME Going, Grows, [Next]_vars
    PROVE  Grows'
<1>1. CASE hist' = hist
  BY <1>1 DEF Grows
<1>2. ASSUME NEW x, Follows(x), hist' = Append(hist, x)
      PROVE  Grows'
  <2>1. hist \in Seq([Repos -> Version]) /\ x \in [Repos -> Version] /\ Len(hist) \in Nat \ {0}
    BY <1>2, LatestType DEF Follows, Going, Typed, TypeOK
  <2>2. /\ Len(hist') = Len(hist) + 1 /\ hist'[Len(hist) + 1] = x
        /\ \A v \in 1..Len(hist) : hist'[v] = hist[v]
    BY <1>2, <2>1, OneMore
  <2>3. \A v \in 1..Len(hist'), repo \in Repos :
          hist'[v][repo].packs = 0 => hist'[v][repo].have = {}
    BY <1>2, <2>1, <2>2 DEF Grows, Follows
  <2>4. ASSUME NEW u \in 1..Len(hist'), NEW v \in 1..Len(hist'), NEW repo \in Repos, u <= v
        PROVE  /\ hist'[u][repo].life <= hist'[v][repo].life
               /\ hist'[u][repo].life = hist'[v][repo].life
                     => hist'[u][repo].have \subseteq hist'[v][repo].have
    <3>1. CASE v <= Len(hist)
      BY <2>1, <2>2, <2>4, <3>1 DEF Grows
    <3>2. CASE v = Len(hist) + 1 /\ u <= Len(hist)
      <4>1. /\ hist[u][repo].life <= Latest[repo].life
            /\ hist[u][repo].life = Latest[repo].life
                  => hist[u][repo].have \subseteq Latest[repo].have
        BY <2>1, <2>2, <3>2 DEF Grows, Latest
      <4>2. /\ Latest[repo].life <= x[repo].life
            /\ Latest[repo].life = x[repo].life => Latest[repo].have \subseteq x[repo].have
        BY <1>2 DEF Follows
      <4>3. hist[u][repo].life \in Int /\ Latest[repo].life \in Int /\ x[repo].life \in Int
        BY <2>1, <3>2, Parts, LatestType DEF Version, Going, Typed
      <4>4. hist'[u] = hist[u] /\ hist'[v] = x
        BY <2>2, <3>2
      <4>5. hist[u][repo].life = x[repo].life
              => hist[u][repo].life = Latest[repo].life /\ Latest[repo].life = x[repo].life
        BY <4>1, <4>2, <4>3
      <4> QED
        BY <4>1, <4>2, <4>3, <4>4, <4>5
    <3>3. CASE u = Len(hist) + 1 /\ v = Len(hist) + 1
      <4>1. x[repo].life \in Int
        BY <2>1 DEF Version
      <4> QED
        BY <2>2, <3>3, <4>1
    <3> QED
      BY <2>1, <2>2, <2>4, <3>1, <3>2, <3>3
  <2> QED
    BY <2>3, <2>4 DEF Grows
<1> QED
  BY <1>1, <1>2, AddsFollower

-----------------------------------------------------------------------------
(* What the packs hold *)

\* Whether a version was made by pushes of one life does not change.
LEMMA UnmixedStays ==
    ASSUME Going, Going', Kept, NEW v \in 1..Len(hist), NEW repo \in Repos
    PROVE  Unmixed(v, repo)' <=> Unmixed(v, repo)
<1>1. /\ Len(hist) \in Nat \ {0}
      /\ \A u \in 1..Len(hist) : hist'[u] = hist[u]
  BY OldStays
<1>2. \A r \in Pushes : applied[r] \in 0..Len(hist)
  BY DEF Going, Typed, TypeOK
<1>3. \A r \in Pushes : applied'[r] \in 1..v \/ applied[r] \in 1..v =>
        /\ applied[r] # 0 /\ applied'[r] = applied[r]
        /\ to'[r] = to[r] /\ lives'[r] = lives[r]
        /\ hist'[applied[r]] = hist[applied[r]]
  BY <1>1, <1>2 DEF Kept
<1> QED
  BY <1>1, <1>3 DEF Unmixed

\* The same of the version a step adds, if the life goes on.
LEMMA UnmixedLatest ==
    ASSUME Going, Going', Kept, NEW n, n = Len(hist), Len(hist') = n + 1,
           NEW repo \in Repos, Unmixed(n + 1, repo)',
           hist'[n + 1][repo].life = hist[n][repo].life
    PROVE  Unmixed(n, repo)
<1>1. /\ n \in Nat \ {0}
      /\ \A u \in 1..n : hist'[u] = hist[u]
  BY OldStays
<1>2. SUFFICES ASSUME NEW r \in Pushes, applied[r] \in 1..n, to[r] = repo,
                      hist[applied[r]][repo].life = hist[n][repo].life
               PROVE  lives[r] = {<<repo, hist[n][repo].life>>}
  BY DEF Unmixed
<1>3. /\ applied'[r] = applied[r] /\ to'[r] = to[r] /\ lives'[r] = lives[r]
      /\ applied[r] \in 1..(n + 1) /\ hist'[applied[r]] = hist[applied[r]]
  BY <1>1, <1>2 DEF Kept
<1> QED
  BY <1>2, <1>3 DEF Unmixed

\* What could be had from repo's packs in that life.
Had(repo, life) ==
    UNION {hist[v][repo].have : v \in {u \in 1..Len(hist) : hist[u][repo].life = life}}

LEMMA HadGrows ==
    ASSUME Going, Kept, NEW repo \in Repos, NEW life
    PROVE  Had(repo, life) \subseteq Had(repo, life)'
<1>1. \A v \in 1..Len(hist) : v \in 1..Len(hist') /\ hist'[v] = hist[v]
  BY OldStays
<1> QED
  BY <1>1 DEF Had

\* It is all there in the latest version.
LEMMA HadIsThere ==
    ASSUME Going, Grows, NEW repo \in Repos
    PROVE  Had(repo, Latest[repo].life) \subseteq Latest[repo].have
  BY LatestType DEF Had, Grows, Latest, Going, Typed

\* A push whose looks are all of one life leaves out of its pack nothing but
\* what could be had in that life, and needs no other base.
Builds ==
    \A r \in Pushes, repo \in Repos, life \in 0..MaxClears :
        shown[r] # 0 /\ lives[r] = {<<repo, life>>} /\ Unmixed(shown[r], repo) =>
            /\ \A name \in RefNames : Reach(new[r][name]) \subseteq pack[r].objs \cup Had(repo, life)
            /\ pack[r].base \in Had(repo, life) \cup {NoSha}

Whole == Going /\ Looked /\ Grows /\ Builds /\ RefsClosed

LEMMA BuiltBy ==
    ASSUME [Next]_vars
    PROVE  \/ UNCHANGED <<new, pack>>
           \/ \E r \in Requests : GitPush(r) \/ ReadBases(r)
<1> USE DEF request
<1>1. ASSUME NEW r \in Requests, InfoRefs(r) \/ GitFetch(r) \/ (Handle(r) /\ ~ReadBases(r))
      PROVE  UNCHANGED <<new, pack>>
  BY <1>1 DEF InfoRefs, GitFetch, Handle, ReceivePack, CountForPush, Sign,
     Answer, CallFails, CountForFetch, ReadPacks, ViewFails
<1>2. ASSUME Configure \/ Stop \/ UNCHANGED vars
      PROVE  UNCHANGED <<new, pack>>
  BY <1>2 DEF Configure, Stop, vars
<1>3. ASSUME NEW r \in Pushes, Resign(r) \/ Poll(r) \/ Deadline(r) \/ Execute(r)
      PROVE  UNCHANGED <<new, pack>>
  BY <1>3 DEF Resign, Poll, Deadline, Execute
<1>4. ASSUME NEW repo \in Repos, Clear(repo)
      PROVE  UNCHANGED <<new, pack>>
  BY <1>4 DEF Clear
<1> QED
  BY <1>1, <1>2, <1>3, <1>4 DEF Next

\* git leaves out what is reachable from what it was shown.
LEMMA GitBuilds ==
    ASSUME Whole, NEW r \in Pushes, GitPush(r), NEW repo \in Repos, NEW life \in 0..MaxClears,
           shown[r] # 0, lives[r] = {<<repo, life>>}, Unmixed(shown[r], repo)
    PROVE  /\ \A name \in RefNames :
                 Reach(new'[r][name]) \subseteq pack'[r].objs \cup Had(repo, life)
           /\ pack'[r].base \in Had(repo, life) \cup {NoSha}
<1> USE DEF Whole
<1>1. /\ r \in Requests /\ shown[r] \in 1..Len(hist)
      /\ from[r] = repo /\ hist[shown[r]][repo].life = life
  <2>1. r \in Requests /\ shown[r] \in 1..Len(hist)
    BY DEF Requests, Going, Typed, TypeOK
  <2>2. <<from[r], hist[shown[r]][from[r]].life>> = <<repo, life>>
    BY <2>1 DEF Looked
  <2> QED
    BY <2>1, <2>2
<1>2. \A name \in RefNames : Reach(Advert(r)[name]) \subseteq Had(repo, life)
  <2>1. \A name \in RefNames : Reach(Advert(r)[name]) \subseteq hist[shown[r]][repo].have
    BY <1>1 DEF RefsClosed, Advert
  <2> QED
    BY <1>1, <2>1 DEF Had
<1>3. new[r] = NoRefs /\ pack[r] = NoPack
  BY DEF GitPush, Going, Flow
<1>4. PICK names \in SUBSET RefNames, gone \in SUBSET RefNames, s \in Commits,
           has \in SUBSET {Advert(r)[name] : name \in RefNames} :
        /\ new' = [new EXCEPT ![r] = Commands(names, gone, s)]
        /\ \E p \in GitPacks(names, s, has) : pack' = [pack EXCEPT ![r] = p]
  BY DEF GitPush
<1>5. \A name \in RefNames : new'[r][name] \in (IF name \in names THEN {s} ELSE {Zero, NoSha})
  BY <1>4 DEF Going, Typed, TypeOK, Commands
<1>6. Reach(Zero) = {} /\ Reach(NoSha) = {}
  BY HttpConstants DEF Reach, Commits
<1>7. ReachAll(has) \subseteq Had(repo, life)
  BY <1>2 DEF ReachAll
<1>8. CASE names = {}
  <2>1. pack'[r] = NoPack
    BY <1>4, <1>8 DEF Going, Typed, TypeOK, GitPacks
  <2> QED
    BY <1>5, <1>6, <1>8, <2>1 DEF NoPack
<1>9. CASE names # {}
  <2>1. pack'[r] \in GitPacks(names, s, has)
    BY <1>4, <1>9 DEF Going, Typed, TypeOK
  <2>2. pack'[r].objs = Reach(s) \ ReachAll(has) /\ pack'[r].base \in {NoSha} \cup ReachAll(has)
    BY <1>9, <2>1 DEF GitPacks
  <2> QED
    BY <1>5, <1>6, <1>7, <2>2
<1> QED
  BY <1>8, <1>9

\* The worker leaves out what it has read.
LEMMA WorkerBuilds ==
    ASSUME Whole, NEW r \in Pushes, ReadBases(r), NEW repo \in Repos, NEW life \in 0..MaxClears,
           shown[r] # 0, lives'[r] = {<<repo, life>>}, lives[r] = lives'[r],
           Unmixed(shown[r], repo)
    PROVE  /\ \A name \in RefNames :
                 Reach(new'[r][name]) \subseteq pack'[r].objs \cup Had(repo, life)
           /\ pack'[r].base \in Had(repo, life) \cup {NoSha}
<1> USE DEF Whole
<1>1. PICK v \in Visible :
        /\ Looks(r, v)
        /\ \E base \in {NoSha} \cup hist[v][config].have :
              pack' = [pack EXCEPT ![r] = [objs |-> pack[r].objs \ hist[v][config].have,
                                           base |-> base, empty |-> FALSE]]
  BY DEF ReadBases, Bases
<1>2. config = repo /\ hist[v][repo].life = life /\ v \in 1..Len(hist)
  <2>1. v \in 1..Len(hist) /\ r \in Requests
    BY DEF Visible, Requests
  <2>2. <<config, hist[v][config].life>> \in lives'[r]
    BY <1>1, <2>1 DEF Looks, Going, Typed, TypeOK
  <2>3. <<config, hist[v][config].life>> = <<repo, life>>
    BY <2>2
  <2> QED
    BY <2>1, <2>3
<1>3. hist[v][repo].have \subseteq Had(repo, life)
  BY <1>2 DEF Had
<1>4. new' = new /\ \A name \in RefNames : Reach(new[r][name]) \subseteq pack[r].objs \cup Had(repo, life)
  BY DEF ReadBases, request, Builds
<1>5. /\ pack'[r].objs = pack[r].objs \ hist[v][repo].have
      /\ pack'[r].base \in {NoSha} \cup hist[v][repo].have
  BY <1>1, <1>2 DEF Going, Typed, TypeOK
<1> QED
  BY <1>3, <1>4, <1>5

LEMMA BuildsNext ==
    ASSUME Whole, [Next]_vars
    PROVE  Builds'
<1> USE DEF Whole
<1>0. Going' /\ Kept
  BY GoingNext
<1>1. SUFFICES ASSUME NEW r \in Pushes, NEW repo \in Repos, NEW life \in 0..MaxClears,
                      shown'[r] # 0, lives'[r] = {<<repo, life>>}, Unmixed(shown[r], repo)'
               PROVE  /\ \A name \in RefNames :
                            Reach(new'[r][name]) \subseteq pack'[r].objs \cup Had(repo, life)'
                      /\ pack'[r].base \in Had(repo, life)' \cup {NoSha}
  BY DEF Builds, Reach
<1>2. r \in Requests /\ shown[r] \in 0..Len(hist)
  BY DEF Requests, Going, Typed, TypeOK
<1>3. Had(repo, life) \subseteq Had(repo, life)'
  BY <1>0, HadGrows
<1>4. CASE shown[r] = 0
  <2>1. InfoRefs(r)
    BY <1>1, <1>2, <1>4, ShownBy DEF InfoRefs, Going, Typed, TypeOK
  <2>2. new'[r] = NoRefs /\ pack'[r] = NoPack
    BY <2>1 DEF InfoRefs, Going, Flow
  <2> QED
    BY <2>2, ReachType DEF NoPack
<1>5. CASE shown[r] # 0
  <2>1. shown'[r] = shown[r] /\ lives[r] # {} /\ lives[r] = lives'[r]
    BY <1>0, <1>1, <1>2, <1>5 DEF Kept, Looked
  <2>2. Unmixed(shown[r], repo)
    <3>1. PICK v \in 1..Len(hist) : v = shown[r]
      BY <1>2, <1>5
    <3>2. Unmixed(v, repo)'
      BY <1>1, <2>1, <3>1
    <3> QED
      BY <1>0, <3>1, <3>2, UnmixedStays
  <2>3. CASE UNCHANGED <<new, pack>>
    BY <1>1, <1>3, <1>5, <2>1, <2>2, <2>3 DEF Builds
  <2>4. ASSUME NEW d \in Requests, d # r, GitPush(d) \/ ReadBases(d)
        PROVE  new'[r] = new[r] /\ pack'[r] = pack[r]
    BY <2>4 DEF GitPush, ReadBases, request, Going, Typed, TypeOK
  <2>5. CASE GitPush(r)
    BY <1>1, <1>3, <1>5, <2>1, <2>2, <2>5, GitBuilds
  <2>6. CASE ReadBases(r)
    BY <1>1, <1>3, <1>5, <2>1, <2>2, <2>6, WorkerBuilds
  <2>7. CASE new'[r] = new[r] /\ pack'[r] = pack[r]
    BY <1>1, <1>3, <1>5, <2>1, <2>2, <2>7 DEF Builds
  <2> QED
    BY <2>3, <2>4, <2>5, <2>6, <2>7, BuiltBy
<1> QED
  BY <1>2, <1>4, <1>5

\* Versions after a push or a clear are closed as well.
LEMMA ClosedNext ==
    ASSUME Whole, [Next]_vars
    PROVE  RefsClosed'
<1> USE DEF Whole
<1>0. Going' /\ Kept
  BY GoingNext
<1>1. PICK n : n = Len(hist)
  OBVIOUS
<1>2. /\ n \in Nat \ {0} /\ Len(hist') \in {n, n + 1} /\ n \in 1..n
      /\ \A v \in 1..n : v \in 1..Len(hist') /\ hist'[v] = hist[v]
  BY <1>0, <1>1, OldStays
<1>3. ASSUME NEW v \in 1..n, NEW repo \in Repos, Unmixed(v, repo)', NEW name \in RefNames
      PROVE  Reach(hist'[v][repo].refs[name]) \subseteq hist'[v][repo].have
  <2>1. Unmixed(v, repo)
    BY <1>0, <1>1, <1>3, UnmixedStays
  <2> QED
    BY <1>1, <1>2, <2>1 DEF RefsClosed
<1>4. ASSUME NEW x, hist' = Append(hist, x), Follows(x), NEW repo \in Repos,
             x[repo] = Latest[repo], Unmixed(n + 1, repo)', NEW name \in RefNames
      PROVE  Reach(x[repo].refs[name]) \subseteq x[repo].have
  <2>1. Len(hist') = n + 1 /\ hist'[n + 1] = x /\ Latest = hist[n]
    BY <1>1, <1>4, OneMore DEF Follows, Going, Typed, TypeOK, Latest
  <2>2. Unmixed(n, repo)
    BY <1>0, <1>1, <1>4, <2>1, UnmixedLatest
  <2> QED
    BY <1>1, <1>2, <1>4, <2>1, <2>2 DEF RefsClosed
<1>5. ASSUME NEW r \in Pushes, Lands(r)
      PROVE  RefsClosed'
  <2>1. r \in sent /\ to[r] \in Repos /\ shown[r] # 0 /\ UNCHANGED <<to, lives>>
    BY <1>5 DEF Lands, Execute, Going, Flow
  <2>2. /\ Follows(Pushed(r)) /\ hist' = Append(hist, Pushed(r))
        /\ \A repo \in Repos \ {to[r]} : Pushed(r)[repo] = Latest[repo]
        /\ Pushed(r)[to[r]] = Stored(r, Latest[to[r]])
    BY <1>5, <2>1, PushedFollows DEF Lands
  <2>3. Len(hist') = n + 1 /\ hist'[n + 1] = Pushed(r) /\ Latest = hist[n]
    BY <1>1, <2>2, OneMore DEF Follows, Going, Typed, TypeOK, Latest
  <2>4. ASSUME NEW repo, repo = to[r], Unmixed(n + 1, repo)', NEW name \in RefNames
        PROVE  Reach(Pushed(r)[repo].refs[name]) \subseteq Pushed(r)[repo].have
    <3>1. PICK life : life = Latest[repo].life
      OBVIOUS
    <3>2. repo \in Repos /\ Pushed(r)[repo] = Stored(r, Latest[repo]) /\ life \in 0..MaxClears
      BY <2>1, <2>2, <2>4, <3>1, LatestType DEF Version, Going, Typed
    <3>3. Unmixed(n, repo)
      BY <1>0, <1>1, <2>3, <2>4, <3>2, UnmixedLatest DEF Stored
    <3>4. lives[r] = {<<repo, life>>}
      <4>1. applied'[r] = n + 1
        BY <1>1, <1>5 DEF Lands, Going, Typed, TypeOK
      <4>2. hist'[n + 1][repo].life = life
        BY <2>3, <3>1, <3>2 DEF Stored
      <4>3. applied'[r] \in 1..(n + 1) /\ to'[r] = repo
        BY <1>2, <2>1, <2>4, <4>1
      <4>4. lives'[r] = {<<repo, hist'[n + 1][repo].life>>}
        BY <2>4, <4>1, <4>3 DEF Unmixed
      <4> QED
        BY <2>1, <4>2, <4>4
    <3>5. /\ shown[r] \in 1..n /\ from[r] = repo
          /\ hist[shown[r]][repo].life = life
      <4>1. r \in Requests /\ shown[r] \in 1..n
        BY <1>1, <2>1 DEF Requests, Going, Typed, TypeOK
      <4>2. <<from[r], hist[shown[r]][from[r]].life>> = <<repo, life>>
        BY <2>1, <3>4, <4>1 DEF Looked
      <4> QED
        BY <4>1, <4>2
    <3>6. Unmixed(shown[r], repo)
      BY <1>1, <1>2, <2>3, <3>1, <3>3, <3>5 DEF Unmixed
    <3>7. /\ Reach(new[r][name]) \subseteq pack[r].objs \cup Had(repo, life)
          /\ pack[r].base \in Had(repo, life) \cup {NoSha}
      BY <2>1, <2>4, <3>2, <3>4, <3>6 DEF Builds
    <3>8. Had(repo, life) \subseteq Latest[repo].have
      BY <3>1, <3>2, HadIsThere
    <3>9. Reach(Latest[repo].refs[name]) \subseteq Latest[repo].have
      BY <1>1, <1>2, <2>3, <2>4, <3>2, <3>3 DEF RefsClosed
    <3>10. /\ Pushed(r)[repo].have = Latest[repo].have \cup pack[r].objs
           /\ Pushed(r)[repo].refs[name] \in {new[r][name], Latest[repo].refs[name]}
      BY <2>4, <3>2, <3>7, <3>8 DEF Stored
    <3> QED
      BY <3>7, <3>8, <3>9, <3>10
  <2>5. ASSUME NEW repo \in Repos, Unmixed(n + 1, repo)', NEW name \in RefNames
        PROVE  Reach(Pushed(r)[repo].refs[name]) \subseteq Pushed(r)[repo].have
    BY <1>4, <2>2, <2>4, <2>5
  <2> QED
    BY <1>1, <1>2, <1>3, <2>3, <2>5 DEF RefsClosed, Reach
<1>6. ASSUME NEW cleared \in Repos, Clear(cleared), hist' = Append(hist, Cleared(cleared))
      PROVE  RefsClosed'
  <2>1. /\ Follows(Cleared(cleared))
        /\ \A repo \in Repos \ {cleared} : Cleared(cleared)[repo] = Latest[repo]
        /\ Cleared(cleared)[cleared].refs = NoRefs
    BY <1>6, ClearedFollows DEF Blank
  <2>2. Len(hist') = n + 1 /\ hist'[n + 1] = Cleared(cleared)
    BY <1>1, <1>6, <2>1, OneMore DEF Follows, Going, Typed, TypeOK
  <2>3. ASSUME NEW repo \in Repos, Unmixed(n + 1, repo)', NEW name \in RefNames
        PROVE  Reach(Cleared(cleared)[repo].refs[name]) \subseteq Cleared(cleared)[repo].have
    BY <1>4, <1>6, <2>1, <2>3, ReachType
  <2> QED
    BY <1>1, <1>2, <1>3, <2>2, <2>3 DEF RefsClosed, Reach
<1>7. CASE UNCHANGED hist
  BY <1>1, <1>3, <1>7 DEF RefsClosed, Reach
<1> QED
  BY <1>5, <1>6, <1>7, Adds

LEMMA WholeInit == Init => Whole
<1> SUFFICES ASSUME Init PROVE Whole
  OBVIOUS
<1>1. Going
  BY GoingInit
<1>2. Len(hist) = 1 /\ hist[1] = [repo \in Repos |-> Blank] /\ \A r \in Requests : shown[r] = 0
  BY DEF Init
<1>3. Grows /\ RefsClosed
  BY <1>2, ReachType, HttpConstants DEF Grows, RefsClosed, Blank
<1>4. Looked /\ Builds
  BY <1>2 DEF Looked, Builds, Requests
<1> QED
  BY <1>1, <1>3, <1>4 DEF Whole

LEMMA WholeNext ==
    ASSUME Whole, [Next]_vars
    PROVE  Whole'
  BY GoingNext, LookedNext, GrowsNext, BuildsNext, ClosedNext DEF Whole

\* Whatever is reachable from a ref of a contract can be had from its packs,
\* though packs leave out what their builders saw in other versions: as long
\* as no push was built from looks at two contracts, or at two lives of one.
THEOREM PacksSuffice == Spec => []RefsClosed
<1>1. Whole => RefsClosed
  BY DEF Whole
<1> QED
  BY <1>1, WholeInit, WholeNext, PTL DEF Spec

-----------------------------------------------------------------------------
(* What a fetch is served *)

\* The packs of a life served last hold what the version shown held.
Served ==
    \A r \in Fetches, repo \in Repos, life \in 0..MaxClears :
        oneNode /\ pc[r] = "served" /\ lives[r] = {<<repo, life>>} =>
            \/ \A name \in RefNames : Advert(r)[name] \notin Commits
            \/ hist[shown[r]][repo].have \subseteq got[r]

LEMMA ServedBy ==
    ASSUME Typed, [Next]_vars, NEW r \in Fetches
    PROVE  \/ pc'[r] # "served"
           \/ UNCHANGED <<pc[r], lives[r], got[r]>>
           \/ GitFetch(r) \/ CountForFetch(r) \/ ReadPacks(r)
<1> USE DEF Typed, TypeOK, chain, request, To, Requests
<1>1. ASSUME NEW d \in Requests, InfoRefs(d) \/ GitPush(d) \/ GitFetch(d)
      PROVE  \/ pc'[r] # "served" \/ GitFetch(r)
             \/ UNCHANGED <<pc[r], lives[r], got[r]>>
  BY <1>1 DEF InfoRefs, GitPush, GitFetch, Looks
<1>2. ASSUME NEW d \in Requests,
             \/ ReceivePack(d) \/ CountForPush(d) \/ ReadBases(d) \/ Sign(d)
             \/ Answer(d) \/ CallFails(d) \/ ViewFails(d)
      PROVE  pc'[r] # "served" \/ UNCHANGED <<pc[r], lives[r], got[r]>>
  BY <1>2 DEF ReceivePack, CountForPush, ReadBases, Sign, Send, Answer, CallFails,
     ViewFails, Looks
<1>3. ASSUME NEW d \in Requests, CountForFetch(d) \/ ReadPacks(d)
      PROVE  CountForFetch(r) \/ ReadPacks(r) \/ UNCHANGED <<pc[r], lives[r], got[r]>>
  <2>1. CASE d = r
    BY <1>3, <2>1
  <2>2. CASE d # r
    BY <1>3, <2>2 DEF CountForFetch, ReadPacks, Looks
  <2> QED
    BY <2>1, <2>2
<1>4. ASSUME Configure \/ Stop \/ UNCHANGED vars
      PROVE  pc'[r] # "served" \/ UNCHANGED <<pc[r], lives[r], got[r]>>
  BY <1>4 DEF Configure, Stop, vars
<1>5. ASSUME NEW d \in Pushes, Resign(d) \/ Poll(d) \/ Deadline(d) \/ Execute(d)
      PROVE  pc'[r] # "served" \/ UNCHANGED <<pc[r], lives[r], got[r]>>
  BY <1>5 DEF Resign, Send, Poll, Deadline, Execute
<1>6. ASSUME NEW repo \in Repos, Clear(repo)
      PROVE  UNCHANGED <<pc[r], lives[r], got[r]>>
  BY <1>6 DEF Clear
<1> QED
  BY <1>1, <1>2, <1>3, <1>4, <1>5, <1>6 DEF Next, Handle

LEMMA ServedNext ==
    ASSUME Whole, Served, [Next]_vars
    PROVE  Served'
<1> USE DEF Whole
<1>0. Going' /\ Kept /\ Looked'
  BY GoingNext, LookedNext
<1>1. SUFFICES ASSUME NEW r \in Fetches, NEW repo \in Repos, NEW life \in 0..MaxClears,
                      oneNode', pc'[r] = "served", lives'[r] = {<<repo, life>>}
               PROVE  \/ \A name \in RefNames : Advert(r)'[name] \notin Commits
                      \/ hist'[shown'[r]][repo].have \subseteq got'[r]
  BY DEF Served
<1>2. r \in Requests /\ oneNode /\ pc[r] # "failed"
  <2>1. UNCHANGED setting
    BY ViewsRise DEF Going
  <2>2. pc[r] # "failed"
    BY <1>1, ServedBy DEF Going, GitFetch, CountForFetch, ReadPacks
  <2> QED
    BY <1>1, <2>1, <2>2 DEF Requests, setting
<1>3. pc[r] # "idle"
  BY <1>1, ServedBy DEF Going, GitFetch, CountForFetch, ReadPacks
<1>4. shown[r] \in 1..Len(hist) /\ shown'[r] = shown[r] /\ from'[r] = from[r]
  BY <1>0, <1>2, <1>3 DEF Kept, Going, Shows, Typed, TypeOK
<1>5. hist'[shown[r]] = hist[shown[r]] /\ Advert(r)' = Advert(r)
  BY <1>0, <1>4, OldStays DEF Advert
<1>6. <<from[r], hist[shown[r]][from[r]].life>> = <<repo, life>>
  <2>1. <<from'[r], hist'[shown'[r]][from'[r]].life>> \in lives'[r]
    BY <1>0, <1>2, <1>4 DEF Looked
  <2> QED
    BY <1>1, <1>4, <1>5, <2>1
<1>7. hist[shown[r]][repo].life = life
  BY <1>6
<1>8. CASE UNCHANGED <<pc[r], lives[r], got[r]>>
  BY <1>1, <1>2, <1>4, <1>5, <1>8 DEF Served
<1>9. CASE GitFetch(r)
  BY <1>1, <1>2, <1>5, <1>9 DEF GitFetch, To, Going, Typed, TypeOK
<1>10. ASSUME NEW v \in Visible, Looks(r, v)
       PROVE  hist[shown[r]][repo].have \subseteq hist[v][config].have
  <2>1. v \in 1..Len(hist) /\ shown[r] <= v
    <3>1. v \in 1..Len(hist) /\ lowest <= v
      BY <1>2, <1>10 DEF Visible
    <3>2. shown[r] <= lowest /\ lowest \in Int
      <4>1. lowest \in Int /\ shown[r] # 0
        BY <1>4 DEF Going, Typed, TypeOK
      <4> QED
        BY <1>2, <4>1 DEF Looked
    <3> QED
      BY <1>4, <3>1, <3>2
  <2>2. <<config, hist[v][config].life>> \in lives'[r]
    BY <1>2, <1>10 DEF Looks, Going, Typed, TypeOK
  <2>3. <<config, hist[v][config].life>> = <<repo, life>>
    BY <1>1, <2>2
  <2>4. config = repo /\ hist[v][repo].life = life
    BY <2>3
  <2> QED
    BY <1>4, <1>7, <2>1, <2>4 DEF Grows
<1>11. CASE CountForFetch(r)
  <2>1. PICK v \in Visible :
          Looks(r, v) /\ To(r, IF hist[v][config].packs = 0 THEN "served" ELSE "packs")
    BY <1>11 DEF CountForFetch
  <2>2. hist[v][config].packs = 0 /\ config \in Repos
    BY <1>1, <1>2, <1>11, <2>1 DEF To, CountForFetch, Ready, Going, Typed, TypeOK
  <2>3. hist[v][config].have = {}
    BY <2>2 DEF Grows, Visible
  <2> QED
    BY <1>4, <1>5, <1>10, <2>1, <2>3
<1>12. CASE ReadPacks(r)
  <2>1. PICK v \in Visible : Looks(r, v) /\ got' = [got EXCEPT ![r] = hist[v][config].have]
    BY <1>12 DEF ReadPacks
  <2>2. got'[r] = hist[v][config].have
    BY <2>1 DEF Going, Typed, TypeOK
  <2> QED
    BY <1>4, <1>5, <1>10, <2>1, <2>2
<1> QED
  BY <1>1, <1>8, <1>9, <1>11, <1>12, ServedBy DEF Going

\* A fetch that looks at one life of one contract is served all that is
\* reachable from the refs it was shown.
THEOREM FetchesComplete == Spec => []FetchIsComplete
<1>1. Init => Whole /\ Served
  BY WholeInit DEF Init, Served, Requests
<1>2. Whole /\ Served /\ [Next]_vars => (Whole /\ Served)'
  BY WholeNext, ServedNext
<1>3. Whole /\ Served => FetchIsComplete
  <2> SUFFICES ASSUME Whole, Served, NEW r \in Fetches, oneNode, pc[r] = "served",
                      NEW life \in 0..MaxClears, lives[r] = {<<from[r], life>>},
                      Unmixed(shown[r], from[r]), NEW name \in RefNames
               PROVE  Reach(Advert(r)[name]) \subseteq got[r]
    BY DEF FetchIsComplete
  <2>1. r \in Requests /\ shown[r] \in 1..Len(hist) /\ from[r] \in Repos
    <3>1. r \in Requests /\ shown[r] # 0
      BY DEF Requests, Whole, Going, Shows
    <3> QED
      <4>1. shown[r] \in 0..Len(hist) /\ Len(hist) \in Nat
        BY <3>1, LatestType DEF Whole, Going, Typed, TypeOK
      <4>2. from[r] \in Repos
        BY <3>1 DEF Whole, Looked
      <4> QED
        BY <3>1, <4>1, <4>2
  <2>2. Reach(Advert(r)[name]) \subseteq hist[shown[r]][from[r]].have
    BY <2>1 DEF Whole, RefsClosed, Advert
  <2>3. CASE Advert(r)[name] \notin Commits
    BY <2>3 DEF Reach
  <2>4. CASE hist[shown[r]][from[r]].have \subseteq got[r]
    BY <2>2, <2>4
  <2> QED
    BY <2>1, <2>3, <2>4 DEF Served
<1> QED
  BY <1>1, <1>2, <1>3, PTL DEF Spec

-----------------------------------------------------------------------------
(* What is seen of a push *)

\* Nothing of a push that waits for its refs, or is done, is under way.
Settled == \A r \in Pushes : pc[r] \in {"waiting", "ok"} => r \notin sent

LEMMA OkBy ==
    ASSUME Typed, [Next]_vars, NEW r \in Pushes
    PROVE  /\ unseen \subseteq unseen'
           /\ \/ pc'[r] # "ok" \/ pc'[r] = pc[r]
              \/ Poll(r) \/ Deadline(r) \/ (Answer(r) /\ ~Worker)
<1> USE DEF Typed, TypeOK, request, To, Requests
<1>1. ASSUME NEW d \in Requests, InfoRefs(d) \/ GitPush(d) \/ GitFetch(d)
      PROVE  unseen' = unseen /\ (pc'[r] # "ok" \/ pc'[r] = pc[r])
  BY <1>1 DEF InfoRefs, GitPush, GitFetch
<1>2. ASSUME NEW d \in Requests,
             \/ ReceivePack(d) \/ CountForPush(d) \/ ReadBases(d) \/ Sign(d)
             \/ CallFails(d) \/ ViewFails(d) \/ CountForFetch(d) \/ ReadPacks(d)
      PROVE  unseen' = unseen /\ (pc'[r] # "ok" \/ pc'[r] = pc[r])
  BY <1>2 DEF ReceivePack, CountForPush, ReadBases, Sign, Send, CallFails, ViewFails,
     CountForFetch, ReadPacks
<1>3. ASSUME NEW d \in Requests, Answer(d)
      PROVE  unseen' = unseen /\ (pc'[r] # "ok" \/ pc'[r] = pc[r] \/ (Answer(r) /\ ~Worker))
  <2>1. CASE d = r
    BY <1>3, <2>1 DEF Answer
  <2>2. CASE d # r
    BY <1>3, <2>2 DEF Answer
  <2> QED
    BY <2>1, <2>2
<1>4. ASSUME Configure \/ Stop \/ UNCHANGED vars
      PROVE  unseen' = unseen /\ (pc'[r] # "ok" \/ pc'[r] = pc[r])
  BY <1>4 DEF Configure, Stop, vars
<1>5. ASSUME NEW d \in Pushes, Resign(d) \/ Execute(d)
      PROVE  unseen' = unseen /\ (pc'[r] # "ok" \/ pc'[r] = pc[r])
  BY <1>5 DEF Resign, Send, Execute
<1>6. ASSUME NEW d \in Pushes, Poll(d) \/ Deadline(d)
      PROVE  unseen \subseteq unseen' /\ (pc'[r] = pc[r] \/ Poll(r) \/ Deadline(r))
  <2>1. CASE d = r
    BY <1>6, <2>1 DEF Poll, Deadline
  <2>2. CASE d # r
    BY <1>6, <2>2 DEF Poll, Deadline
  <2> QED
    BY <2>1, <2>2
<1>7. ASSUME NEW repo \in Repos, Clear(repo)
      PROVE  unseen' = unseen /\ pc'[r] = pc[r]
  BY <1>7 DEF Clear
<1> QED
  BY <1>1, <1>2, <1>3, <1>4, <1>5, <1>6, <1>7 DEF Next, Handle

LEMMA SettledNext ==
    ASSUME Going, Settled, [Next]_vars
    PROVE  Settled'
<1> USE DEF Going, Typed, TypeOK, request, chain, To, Requests
<1>1. ASSUME NEW r \in Requests, InfoRefs(r) \/ GitPush(r) \/ GitFetch(r)
      PROVE  Settled'
  BY <1>1 DEF InfoRefs, GitPush, GitFetch, Settled
<1>2. ASSUME NEW r \in Requests, ReceivePack(r) \/ Sign(r)
      PROVE  Settled'
  BY <1>2 DEF ReceivePack, Sign, Send, Settled
<1>3. ASSUME NEW r \in Requests, CountForPush(r)
      PROVE  Settled'
  BY <1>3 DEF CountForPush, Flow, Settled
<1>4. ASSUME NEW r \in Requests,
             ReadBases(r) \/ CallFails(r) \/ ViewFails(r) \/ CountForFetch(r) \/ ReadPacks(r)
      PROVE  Settled'
  BY <1>4 DEF ReadBases, CallFails, ViewFails, CountForFetch, ReadPacks, Settled
<1>5. ASSUME NEW r \in Requests, Answer(r)
      PROVE  Settled'
  BY <1>5 DEF Answer, Settled
<1>6. ASSUME Configure \/ Stop \/ UNCHANGED vars
      PROVE  Settled'
  BY <1>6 DEF Configure, Stop, vars, Settled
<1>7. ASSUME NEW r \in Pushes, Resign(r)
      PROVE  Settled'
  BY <1>7 DEF Resign, Send, Settled
<1>8. ASSUME NEW r \in Pushes, Poll(r) \/ Deadline(r)
      PROVE  Settled'
  BY <1>8 DEF Poll, Deadline, Settled
<1>9. ASSUME NEW r \in Pushes, Execute(r)
      PROVE  Settled'
  BY <1>9 DEF Execute, Settled
<1>10. ASSUME NEW repo \in Repos, Clear(repo)
       PROVE  Settled'
  BY <1>10 DEF Clear, Settled
<1> QED
  BY <1>1, <1>2, <1>3, <1>4, <1>5, <1>6, <1>7, <1>8, <1>9, <1>10 DEF Next, Handle

\* What is fresh of a push that is applied was fresh before the step.
LEMMA StaysFresh ==
    ASSUME Going, [Next]_vars, NEW r \in Pushes, applied[r] # 0, Fresh(r)'
    PROVE  Fresh(r) /\ applied'[r] = applied[r]
<1>1. Kept
  BY GoingNext
<1>2. r \in Requests /\ shown[r] # 0
  BY DEF Going, Flow, Requests
<1>3. /\ applied'[r] = applied[r] /\ to'[r] = to[r] /\ new'[r] = new[r]
      /\ shown'[r] = shown[r]
  BY <1>1, <1>2 DEF Kept
<1>4. \A v \in shown[r]..(applied[r] - 1) : hist'[v] = hist[v]
  <2>1. shown[r] \in 1..Len(hist) /\ applied[r] \in 0..Len(hist) /\ Len(hist) \in Nat
    BY <1>2, LatestType DEF Going, Typed, TypeOK
  <2>2. shown[r]..(applied[r] - 1) \subseteq 1..Len(hist)
    BY <2>1
  <2> QED
    BY <1>1, <2>2, OldStays
<1> QED
  BY <1>3, <1>4 DEF Fresh, Updated, Awaited

LEMMA SeenNext ==
    ASSUME Going, Looked, Settled, ReadYourWrites, [Next]_vars
    PROVE  ReadYourWrites'
<1>1. SUFFICES ASSUME NEW r \in Pushes, oneNode', Worker', pc'[r] = "ok", r \notin unseen',
                      applied'[r] # 0, Fresh(r)'
               PROVE  lowest' >= applied'[r]
  BY DEF ReadYourWrites
<1>2. oneNode /\ Worker /\ lowest <= lowest'
  BY <1>1, ViewsRise DEF Going, setting, Worker
<1>3. r \notin unseen /\ (pc[r] = "ok" \/ Poll(r) \/ Deadline(r))
  BY <1>1, <1>2, OkBy DEF Going
<1>4. pc[r] \in {"waiting", "ok"}
  BY <1>3 DEF Poll, Deadline
<1>5. applied[r] # 0
  <2> SUFFICES ASSUME applied[r] = 0
               PROVE  FALSE
    OBVIOUS
  <2>1. PICK d \in Pushes : Lands(d)
    BY <1>1, Adds DEF Clear
  <2>2. d = r
    BY <1>1, <2>1 DEF Lands, Going, Typed, TypeOK
  <2> QED
    BY <1>4, <2>1, <2>2 DEF Lands, Execute, Settled
<1>6. Fresh(r) /\ applied'[r] = applied[r]
  BY <1>1, <1>5, StaysFresh
<1>7. applied[r] \in Int /\ lowest \in Int /\ lowest' \in Int /\ shown[r] \in Int
  <2>1. Going'
    BY GoingNext
  <2> QED
    BY <2>1 DEF Going, Typed, TypeOK, Requests
<1>8. CASE pc[r] = "ok"
  BY <1>2, <1>3, <1>5, <1>6, <1>7, <1>8 DEF ReadYourWrites
<1>9. CASE Deadline(r)
  BY <1>1, <1>9 DEF Deadline
<1>10. CASE Poll(r)
  <2>1. PICK v \in Visible :
          /\ lowest' = v
          /\ IF CaughtUp(r, hist[v][config].refs)
             THEN /\ To(r, "ok")
                  /\ unseen' = IF config = to[r] THEN unseen ELSE unseen \cup {r}
             ELSE UNCHANGED <<pc, unseen>>
    BY <1>2, <1>10 DEF Poll
  <2>2. CaughtUp(r, hist[v][config].refs) /\ config = to[r]
    BY <1>1, <1>10, <2>1 DEF Poll
  <2>3. v \in Int /\ shown[r] <= v
    <3>1. v \in Int /\ lowest <= v
      BY <1>2, <2>1 DEF Visible
    <3>2. shown[r] <= lowest
      BY <1>2, <1>5 DEF Looked, Going, Flow, Requests
    <3> QED
      BY <1>7, <3>1, <3>2
  <2>4. v \notin shown[r]..(applied[r] - 1)
    <3>1. PICK name \in Updated(r) : \A w \in shown[r]..(applied[r] - 1) :
                                         hist[w][to[r]].refs[name] # Awaited(r, name)
      BY <1>6 DEF Fresh
    <3> QED
      BY <2>2, <3>1 DEF CaughtUp
  <2> QED
    BY <1>6, <1>7, <2>1, <2>3, <2>4
<1> QED
  BY <1>3, <1>8, <1>9, <1>10

\* With a single node, a push the service worker has waited for in time is seen
\* by every view from then on, whatever other requests look at or change in the
\* meantime; not if every one of its refs had the awaited value before, when an
\* old version passes for the new one.
THEOREM WritesAreRead == Spec => []ReadYourWrites
<1>1. Init => Going /\ Looked /\ Settled /\ ReadYourWrites
  <2> SUFFICES ASSUME Init
               PROVE  Going /\ Looked /\ Settled /\ ReadYourWrites
    OBVIOUS
  <2>1. Going /\ Looked
    BY WholeInit DEF Whole
  <2> QED
    BY <2>1 DEF Init, Settled, ReadYourWrites, Requests
<1>2. Going /\ Looked /\ Settled /\ ReadYourWrites /\ [Next]_vars
        => (Going /\ Looked /\ Settled /\ ReadYourWrites)'
  BY GoingNext, LookedNext, SettledNext, SeenNext
<1> QED
  BY <1>1, <1>2, PTL DEF Spec
=============================================================================
