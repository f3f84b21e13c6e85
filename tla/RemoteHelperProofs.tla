-------------------------- MODULE RemoteHelperProofs --------------------------
(***************************************************************************)
(* Of any number of clones, commits, refs, lost answers and deaths: the    *)
(* contract of a repository that nobody pushed to blindly can be cloned,   *)
(* and a single clone that pushes is never blind.                          *)
(*                                                                         *)
(* The argument: a commit's history is fixed once it is made, so what a    *)
(* pack was built from still holds when its transaction executes, however  *)
(* late; and a transaction that executes finds the ref at the very value   *)
(* its pack was built against.                                             *)
(***************************************************************************)
EXTENDS RemoteHelper, TLAPS

Made(s) == s \in history[s]

\* The transactions that may still execute.
Pending == orphans \cup {tx[c] : c \in {d \in Clones : pc[d] = "sent"}}

\* A history holds the histories of all that is in it.
Graph ==
    /\ \A s \in Shas : history[s] # {} => Made(s)
    /\ \A s \in Shas : \A t \in history[s] : Made(t) /\ history[t] \subseteq history[s]

MadeRefs(r) == \A name \in RefNames : r[name] # NoSha => Made(r[name])

\* Whatever names a commit, or holds its objects, names one that was made.
Real ==
    /\ MadeRefs(refs)
    /\ \A c \in Clones : MadeRefs(seen[c]) /\ (\A s \in odb[c] : Made(s))
    /\ \A k \in DOMAIN log : \A s \in log[k].objs : Made(s)
    /\ \A t \in Pending : Made(t.new) /\ (\A s \in t.pack.objs : Made(s))

\* A pack holds what its update needs beside the value it replaces, and is
\* thin against that value only.
BuiltFor(t) ==
    /\ t \in TxType
    /\ Reach(t.new) \subseteq t.pack.objs \cup Reach(t.old)
    /\ t.pack.base \in {NoSha, t.old}

Built == ~blind => \A t \in Pending : BuiltFor(t)

\* What was listed is still stored, unless cleared.
SeenStored ==
    ~blind /\ clears = 0 =>
        \A c \in Clones, name \in RefNames : Reach(seen[c][name]) \subseteq Stored

\* What git checked still holds of what the helper sends.
Checked(c) ==
    pc[c] \in {"pushing", "sent"} =>
        \A name \in todo[c] \ unchecked[c] :
            src[c][name] # NoSha /\ seen[c][name] # NoSha =>
                seen[c][name] \in history[src[c][name]]

Sent(c) ==
    pc[c] = "sent" =>
        /\ tx[c].name \in todo[c]
        /\ tx[c].new = src[c][tx[c].name]
        /\ tx[c].old = remote[c][tx[c].name]

Batches == \A c \in Clones : Checked(c) /\ Sent(c)

Store == Built /\ ClosedUnlessBlind /\ BasesEarlierUnlessBlind /\ SeenStored

SentType == \A c \in Clones : pc[c] = "sent" => tx[c] \in TxType

IInv == TypeOK /\ SentType /\ Graph /\ Real /\ Batches /\ Store

-----------------------------------------------------------------------------
(* Facts about the operators. *)

LEMMA ReachType ==
    ASSUME TypeOK
    PROVE  /\ \A s \in Shas \cup {NoSha} : Reach(s) \subseteq Shas
           /\ Reach(NoSha) = {}
           /\ \A s \in Shas : Reach(s) = history[s]
  BY HelperConstants DEF Reach, TypeOK

LEMMA IndexedType ==
    ASSUME NEW have \in SUBSET Shas, NEW packs \in Seq(PackType)
    PROVE  /\ Indexed(have, packs) \in SUBSET Shas
           /\ have \subseteq Indexed(have, packs)
           /\ \A s \in Indexed(have, packs) :
                 s \in have \/ \E k \in DOMAIN packs : s \in packs[k].objs
<1>1. \A k \in DOMAIN packs : packs[k].objs \in SUBSET Shas
  <2>1. \A k \in DOMAIN packs : packs[k] \in PackType
    OBVIOUS
  <2> QED
    BY <2>1 DEF PackType
<1>2. Imported(have, packs) \subseteq DOMAIN packs
  BY DEF Imported
<1> QED
  BY <1>1, <1>2 DEF Indexed

\* When every base is in an earlier pack, all packs are imported.
LEMMA AllImported ==
    ASSUME TypeOK, ~blind, BasesEarlierUnlessBlind, NEW have
    PROVE  Stored \subseteq Indexed(have, log)
<1>1. \A k \in DOMAIN log : Completes(k, log, have, DOMAIN log)
  <2> TAKE k \in DOMAIN log
  <2>1. CASE log[k].base = NoSha
    BY <2>1 DEF Completes
  <2>2. CASE log[k].base # NoSha
    <3>1. PICK j \in 1..(k - 1) : log[k].base \in log[j].objs
      BY <2>2 DEF BasesEarlierUnlessBlind
    <3>2. j \in DOMAIN log /\ j < k
      BY DEF TypeOK
    <3> QED
      BY <3>1, <3>2 DEF Completes
  <2> QED
    BY <2>1, <2>2
<1>2. DOMAIN log \subseteq Imported(have, log)
  BY <1>1 DEF Imported
<1> QED
  BY <1>2 DEF Indexed, Stored

LEMMA NoTxType ==
    /\ NoTx \notin TxType
    /\ NoPack \in PackType
    /\ NoPack.objs = {} /\ NoPack.base = NoSha
  BY HelperConstants DEF NoTx, TxType, NoPack, PackType

LEMMA PushedPackType ==
    ASSUME TypeOK, NEW c \in Clones, NEW s \in Shas, NEW old \in Shas \cup {NoSha},
           NEW pack \in PushedPack(c, s, old)
    PROVE  /\ pack \in PackType
           /\ pack.base \in {NoSha, old}
           /\ pack.objs \subseteq Reach(s)
<1>1. CASE pack = NoPack
  BY <1>1, NoTxType
<1>2. CASE pack \in [objs: {Reach(s) \ Reach(old)}, base: {NoSha, old}]
  BY <1>2, ReachType DEF PackType
<1> QED
  BY <1>1, <1>2 DEF PushedPack, BuildPackfile

\* What a transaction does to the contract.
LEMMA Applies ==
    ASSUME TypeOK, NEW t \in TxType, Apply(t)
    PROVE  /\ clears' = clears
           /\ \/ refs' = refs /\ log' = log
              \/ /\ refs[t.name] = t.old
                 /\ refs' = [refs EXCEPT ![t.name] = t.new]
                 /\ log' = IF t.pack = NoPack THEN log ELSE Append(log, t.pack)
<1> DEFINE ups == <<[name |-> t.name, old |-> t.old, new |-> t.new]>>
<1>1. /\ ups[1].name = t.name /\ ups[1].old = t.old /\ ups[1].new = t.new
  OBVIOUS
<1>2. Writes(ups, 0, t.name) = {}
  BY DEF Writes
<1>3. refs \in [RefNames -> Shas \cup {NoSha}] /\ t.name \in RefNames
  BY DEF TypeOK, RefMap, TxType
<1>4. RefsAfter(refs, ups, 0)[t.name] = refs[t.name]
  BY <1>2, <1>3 DEF RefsAfter
<1>5. Accepted(refs, ups, 1) => refs[t.name] = t.old
  <2> SUFFICES ASSUME Accepted(refs, ups, 1) PROVE refs[t.name] = t.old
    OBVIOUS
  <2>1. ups[1].old = RefsAfter(refs, ups, 1 - 1)[ups[1].name]
    BY DEF Accepted
  <2> QED
    BY <1>1, <1>4, <2>1
<1>6. \A n \in RefNames : Writes(ups, 1, n) = IF n = t.name THEN {1} ELSE {}
  BY <1>1 DEF Writes
<1>7. LastWrite(ups, 1, t.name) = 1
  <2>1. Writes(ups, 1, t.name) = {1}
    BY <1>3, <1>6
  <2> QED
    BY <2>1 DEF LastWrite
<1>8. RefsAfter(refs, ups, 1) = [refs EXCEPT ![t.name] = t.new]
  BY <1>1, <1>3, <1>6, <1>7 DEF RefsAfter
<1> QED
  BY <1>5, <1>8 DEF Apply

-----------------------------------------------------------------------------
(* Types. *)

LEMMA EndSessionType ==
    ASSUME TypeOK, NEW c \in Clones, EndSession(c)
    PROVE  /\ seen' \in [Clones -> RefMap] /\ remote' \in [Clones -> RefMap]
           /\ todo' \in [Clones -> SUBSET RefNames]
           /\ src' \in [Clones -> RefMap] /\ unchecked' \in [Clones -> SUBSET RefNames]
<1>1. NoRefs \in RefMap
  BY DEF NoRefs, RefMap
<1> QED
  BY <1>1 DEF TypeOK, EndSession

LEMMA NextOpType ==
    ASSUME TypeOK, NEW c \in Clones, NEW name, NextOp(c, name)
    PROVE  /\ pc' \in [Clones -> {"idle", "listed", "pushing", "sent"}]
           /\ pc'[c] \in {"idle", "pushing"}
           /\ \A d \in Clones \ {c} : pc'[d] = pc[d]
           /\ seen' \in [Clones -> RefMap] /\ remote' \in [Clones -> RefMap]
           /\ todo' \in [Clones -> SUBSET RefNames]
           /\ src' \in [Clones -> RefMap] /\ unchecked' \in [Clones -> SUBSET RefNames]
           /\ UNCHANGED <<history, odb, blind>>
<1>1. CASE pc' = [pc EXCEPT ![c] = "idle"] /\ EndSession(c)
  BY <1>1, EndSessionType DEF TypeOK, NextOp
<1>2. CASE /\ pc' = [pc EXCEPT ![c] = "pushing"]
           /\ todo' = [todo EXCEPT ![c] = @ \ {name}]
           /\ UNCHANGED <<seen, remote, src, unchecked>>
  BY <1>2 DEF TypeOK, NextOp
<1> QED
  BY <1>1, <1>2 DEF NextOp

LEMMA ApplyType ==
    ASSUME TypeOK, NEW t \in TxType, Apply(t)
    PROVE  refs' \in RefMap /\ log' \in Seq(PackType) /\ clears' = clears
<1>1. t.pack \in PackType /\ t.name \in RefNames /\ t.new \in Shas
  BY DEF TxType
<1>2. refs \in [RefNames -> Shas \cup {NoSha}] /\ log \in Seq(PackType)
  BY DEF TypeOK, RefMap
<1>3. \/ refs' = refs /\ log' = log
      \/ /\ refs' = [refs EXCEPT ![t.name] = t.new]
         /\ log' = IF t.pack = NoPack THEN log ELSE Append(log, t.pack)
  BY Applies
<1>4. refs' \in RefMap
  BY <1>1, <1>2, <1>3 DEF RefMap
<1>5. log' \in Seq(PackType)
  BY <1>1, <1>2, <1>3
<1> QED
  BY <1>4, <1>5, Applies

LEMMA GiveUpType ==
    ASSUME TypeOK, SentType, NEW c \in Clones, pc[c] = "sent", GiveUp(c)
    PROVE  /\ tx' \in [Clones -> TxType \cup {NoTx}] /\ orphans' \subseteq TxType
           /\ lost' \in 0..MaxLost
           /\ \A d \in Clones \ {c} : tx'[d] = tx[d]
<1>1. lost' \in 0..MaxLost
  BY HelperConstants DEF GiveUp, TypeOK
<1> QED
  BY <1>1 DEF GiveUp, TypeOK, SentType

LEMMA TypeStep ==
    ASSUME TypeOK, SentType, [Next]_vars
    PROVE  TypeOK' /\ SentType'
<1>1. ASSUME NEW c \in Clones, NEW s \in Shas, NEW parents \in SUBSET odb[c],
             Commit(c, s, parents)
      PROVE  TypeOK' /\ SentType'
  BY <1>1 DEF Commit, TypeOK, SentType, contract, session
<1>2. ASSUME NEW c \in Clones, List(c)
      PROVE  TypeOK' /\ SentType'
  BY <1>2 DEF List, TypeOK, SentType, contract
<1>3. ASSUME NEW c \in Clones, NEW names \in SUBSET RefNames,
             NEW sources \in [names -> odb[c] \cup {NoSha}], DoPush(c, names, sources)
      PROVE  TypeOK' /\ SentType'
  <2> DEFINE given == [name \in RefNames |-> IF name \in names THEN sources[name] ELSE NoSha]
  <2>1. given \in RefMap
    BY DEF TypeOK, RefMap
  <2>2. src' \in [Clones -> RefMap]
    BY <1>3, <2>1 DEF DoPush, TypeOK
  <2>3. {name \in names : ~FastForward(c, name, sources[name])} \in SUBSET RefNames
    OBVIOUS
  <2>4. unchecked' \in [Clones -> SUBSET RefNames]
    BY <1>3, <2>3 DEF DoPush, TypeOK
  <2> QED
    BY <1>3, <2>2, <2>4 DEF DoPush, TypeOK, SentType, contract
<1>4. ASSUME NEW c \in Clones, NEW name \in todo[c], NEW s \in odb[c], SendPush(c, name, s)
      PROVE  TypeOK' /\ SentType'
  <2>1. s \in Shas /\ name \in RefNames /\ remote[c][name] \in Shas \cup {NoSha}
    BY DEF TypeOK, RefMap
  <2>2. PICK pack \in PushedPack(c, s, remote[c][name]) :
             /\ tx' = [tx EXCEPT ![c] = [pack |-> pack, name |-> name,
                                         old |-> remote[c][name], new |-> s]]
             /\ blind' = (blind \/ pack.objs # Reach(s) \ Reach(remote[c][name]))
    BY <1>4 DEF SendPush
  <2>3. [pack |-> pack, name |-> name, old |-> remote[c][name], new |-> s] \in TxType
    BY <2>1, PushedPackType DEF TxType
  <2>4. src' \in [Clones -> RefMap]
    BY <1>4, <2>1 DEF SendPush, TypeOK, RefMap
  <2>5. unchecked' \in [Clones -> SUBSET RefNames]
    BY <1>4, <2>1 DEF SendPush, TypeOK
  <2>6. SentType' /\ tx' \in [Clones -> TxType \cup {NoTx}]
    BY <1>4, <2>2, <2>3 DEF SendPush, TypeOK, SentType
  <2>7. blind' \in BOOLEAN
    BY <2>2 DEF TypeOK
  <2> QED
    BY <1>4, <2>4, <2>5, <2>6, <2>7 DEF SendPush, TypeOK, contract
<1>5. ASSUME NEW c \in Clones, NEW name \in todo[c], RefuseSpec(c, name)
      PROVE  TypeOK' /\ SentType'
  BY <1>5, NextOpType DEF RefuseSpec, TypeOK, SentType, contract
<1>6. ASSUME NEW c \in Clones, Execute(c)
      PROVE  TypeOK' /\ SentType'
  <2>1. tx[c] \in TxType
    BY <1>6 DEF Execute, SentType
  <2>2. NextOp(c, tx[c].name) /\ Apply(tx[c]) /\ UNCHANGED <<orphans, lost>>
    BY <1>6 DEF Execute
  <2>3. tx' = [tx EXCEPT ![c] = NoTx]
    BY <1>6 DEF Execute
  <2>4. SentType'
    BY <2>2, <2>3, NextOpType DEF SentType, TypeOK
  <2> QED
    BY <2>1, <2>2, <2>3, <2>4, NextOpType, ApplyType DEF TypeOK
<1>7. ASSUME NEW c \in Clones, LoseAnswer(c)
      PROVE  TypeOK' /\ SentType'
  <2>1. /\ NextOp(c, tx[c].name) /\ GiveUp(c) /\ pc[c] = "sent"
        /\ refs' = refs /\ log' = log /\ clears' = clears
    BY <1>7 DEF LoseAnswer, contract
  <2>2. SentType'
    BY <2>1, NextOpType, GiveUpType DEF SentType
  <2> QED
    BY <2>1, <2>2, NextOpType, GiveUpType DEF TypeOK
<1>8. ASSUME NEW c \in Clones, PushDies(c)
      PROVE  TypeOK' /\ SentType'
  <2>1. /\ tx' \in [Clones -> TxType \cup {NoTx}] /\ orphans' \subseteq TxType
        /\ lost' \in 0..MaxLost
        /\ \A d \in Clones \ {c} : tx'[d] = tx[d]
    BY <1>8, GiveUpType DEF PushDies, TypeOK
  <2>2. SentType'
    BY <1>8, <2>1 DEF PushDies, SentType, TypeOK
  <2> QED
    BY <1>8, <2>1, <2>2, EndSessionType DEF PushDies, TypeOK, contract
<1>9. ASSUME NEW c \in Clones, DoFetch(c)
      PROVE  TypeOK' /\ SentType'
  <2>1. Indexed(odb[c], log) \in SUBSET Shas
    BY IndexedType DEF TypeOK
  <2> QED
    BY <1>9, <2>1, EndSessionType DEF DoFetch, TypeOK, SentType, contract
<1>10. ASSUME NEW c \in Clones, FetchDies(c)
      PROVE  TypeOK' /\ SentType'
  <2>1. PICK k \in 0..Len(log) : odb' = [odb EXCEPT ![c] = Indexed(@, SubSeq(log, 1, k))]
    BY <1>10 DEF FetchDies
  <2>2. SubSeq(log, 1, k) \in Seq(PackType)
    BY DEF TypeOK
  <2> DEFINE some == SubSeq(log, 1, k)
  <2>3. odb[c] \in SUBSET Shas
    BY DEF TypeOK
  <2>4. Indexed(odb[c], some) \in SUBSET Shas
    <3> HIDE DEF some
    <3>1. some \in Seq(PackType)
      BY <2>2 DEF some
    <3> QED
      BY <2>3, <3>1, IndexedType
  <2> QED
    BY <1>10, <2>1, <2>4, EndSessionType DEF some, FetchDies, TypeOK, SentType, contract
<1>11. ASSUME NEW t \in orphans, ExecuteOrphan(t)
      PROVE  TypeOK' /\ SentType'
  <2>1. t \in TxType
    BY DEF TypeOK
  <2> QED
    BY <1>11, <2>1, ApplyType DEF ExecuteOrphan, TypeOK, SentType, session
<1>12. ASSUME ClearStorage
      PROVE  TypeOK' /\ SentType'
  <2>1. clears' \in 0..MaxClears
    BY <1>12, HelperConstants DEF ClearStorage, TypeOK
  <2>2. NoRefs \in RefMap /\ << >> \in Seq(PackType)
    BY DEF NoRefs, RefMap
  <2> QED
    BY <1>12, <2>1, <2>2 DEF ClearStorage, TypeOK, SentType, session
<1>13. ASSUME UNCHANGED vars
      PROVE  TypeOK' /\ SentType'
  BY <1>13 DEF vars, contract, session, TypeOK, SentType
<1> QED
  BY <1>1, <1>2, <1>3, <1>4, <1>5, <1>6, <1>7, <1>8, <1>9, <1>10, <1>11, <1>12, <1>13
     DEF Next, Git, Helper

-----------------------------------------------------------------------------
(* Steps that leave the contract alone. *)

\* A commit that was made keeps its history.
Grown == \A s \in Shas : Made(s) => history'[s] = history[s]

LEMMA Frame ==
    ASSUME TypeOK, TypeOK', Graph, Grown
    PROVE  /\ \A s \in Shas : Made(s) => Made(s)'
           /\ \A s \in Shas : Made(s) => Reach(s)' = Reach(s)
           /\ \A s \in Shas \cup {NoSha} : Reach(s) \subseteq Reach(s)'
           /\ Reach(NoSha)' = {} /\ Reach(NoSha) = {}
<1>1. \A s \in Shas : Made(s) => Reach(s)' = Reach(s)
  BY HelperConstants DEF Grown, Reach
<1>2. \A s \in Shas : ~Made(s) => Reach(s) = {}
  BY HelperConstants DEF Graph, Reach
<1>3. Reach(NoSha)' = {} /\ Reach(NoSha) = {}
  BY DEF Reach
<1>4. \A s \in Shas : Made(s) => Made(s)'
  BY DEF Grown, Made
<1> QED
  BY <1>1, <1>2, <1>3, <1>4

\* A step that neither writes the contract nor sends.
Quiet ==
    /\ refs' = refs /\ log' = log /\ clears' = clears /\ blind' = blind
    /\ Pending' \subseteq Pending
    /\ \A c \in Clones, name \in RefNames : seen'[c][name] \in {seen[c][name], refs[name], NoSha}

LEMMA PendingType ==
    ASSUME TypeOK, SentType
    PROVE  \A t \in Pending : /\ t \in TxType /\ t.new \in Shas /\ t.old \in Shas \cup {NoSha}
                              /\ t.pack \in PackType /\ t.pack.objs \subseteq Shas
                              /\ t.name \in RefNames
<1>1. \A t \in Pending : t \in TxType
  BY DEF Pending, TypeOK, SentType
<1> QED
  BY <1>1 DEF TxType, PackType

LEMMA LogType ==
    ASSUME TypeOK
    PROVE  /\ Len(log) \in Nat /\ DOMAIN log = 1..Len(log)
           /\ \A k \in DOMAIN log : /\ log[k] \in PackType /\ log[k].objs \subseteq Shas
                                    /\ log[k].base \in Shas \cup {NoSha}
<1>1. \A k \in DOMAIN log : log[k] \in PackType
  BY DEF TypeOK
<1>2. Len(log) \in Nat /\ DOMAIN log = 1..Len(log)
  BY DEF TypeOK
<1> QED
  BY <1>1, <1>2 DEF PackType

LEMMA RefsType ==
    ASSUME TypeOK, NEW c \in Clones, NEW name \in RefNames
    PROVE  /\ refs[name] \in Shas \cup {NoSha}
           /\ seen[c][name] \in Shas \cup {NoSha} /\ remote[c][name] \in Shas \cup {NoSha}
           /\ src[c][name] \in Shas \cup {NoSha}
  BY DEF TypeOK, RefMap

LEMMA OdbType ==
    ASSUME TypeOK, NEW c \in Clones
    PROVE  odb[c] \subseteq Shas /\ todo[c] \subseteq RefNames
  BY DEF TypeOK

LEMMA QuietReal ==
    ASSUME IInv, TypeOK', Grown, Quiet, \A c \in Clones : \A s \in odb'[c] : Made(s)'
    PROVE  Real'
<1> USE DEF IInv
<1>1. MadeRefs(refs)'
  BY Frame, RefsType DEF MadeRefs, Real, Quiet, TypeOK, RefMap
<1>2. \A c \in Clones : MadeRefs(seen[c])'
  <2> SUFFICES ASSUME NEW c \in Clones, NEW name \in RefNames, NEW s \in Shas \cup {NoSha},
                      s = seen'[c][name], s # NoSha
               PROVE  Made(s)'
    BY DEF MadeRefs, Made, TypeOK, RefMap
  <2>1. s \in {seen[c][name], refs[name]}
    BY DEF Quiet
  <2>2. Made(s)
    BY <2>1 DEF Real, MadeRefs
  <2> QED
    BY <2>2, Frame
<1>3. \A k \in DOMAIN log' : \A s \in log'[k].objs : Made(s)'
  BY Frame, LogType DEF Real, Quiet
<1>4. \A t \in Pending' : Made(t.new)' /\ (\A s \in t.pack.objs : Made(s)')
  BY Frame, PendingType DEF Real, Quiet
<1> QED
  BY <1>1, <1>2, <1>3, <1>4 DEF Real

LEMMA QuietStore ==
    ASSUME IInv, TypeOK', Grown, Quiet
    PROVE  Store'
<1> USE DEF IInv
<1>0. Stored' = Stored
  BY DEF Stored, Quiet
<1>1. Built'
  <2> SUFFICES ASSUME ~blind', NEW t \in Pending' PROVE BuiltFor(t)'
    BY DEF Built
  <2>1. t \in Pending /\ ~blind
    BY DEF Quiet
  <2>2. BuiltFor(t) /\ Made(t.new)
    BY <2>1 DEF Store, Built, Real
  <2>3. t.new \in Shas /\ t.old \in Shas \cup {NoSha}
    BY <2>1, PendingType
  <2>4. Reach(t.new)' = Reach(t.new) /\ Reach(t.old) \subseteq Reach(t.old)'
    BY <2>2, <2>3, Frame
  <2> QED
    BY <2>2, <2>4 DEF BuiltFor
<1>2. ClosedUnlessBlind'
  <2> SUFFICES ASSUME ~blind', NEW name \in RefNames
               PROVE  Reach(refs[name])' \subseteq Stored
    BY <1>0 DEF ClosedUnlessBlind
  <2>1. Reach(refs[name]) \subseteq Stored
    BY DEF Store, ClosedUnlessBlind, Quiet
  <2>2. refs[name] # NoSha => Made(refs[name])
    BY DEF Real, MadeRefs
  <2>3. refs[name] \in Shas \cup {NoSha}
    BY DEF TypeOK, RefMap
  <2>5. CASE refs[name] = NoSha
    BY <2>5, Frame DEF Quiet
  <2>6. CASE refs[name] # NoSha
    BY <2>1, <2>2, <2>3, <2>6, Frame DEF Quiet
  <2> QED
    BY <2>5, <2>6
<1>3. BasesEarlierUnlessBlind'
  BY DEF Store, BasesEarlierUnlessBlind, Quiet
<1>4. SeenStored'
  <2> SUFFICES ASSUME ~blind', clears' = 0, NEW c \in Clones, NEW name \in RefNames,
                      NEW s \in Shas \cup {NoSha}, s = seen'[c][name]
               PROVE  Reach(s)' \subseteq Stored
    <3>1. \A c \in Clones, name \in RefNames : seen'[c][name] \in Shas \cup {NoSha}
      BY DEF TypeOK, RefMap
    <3> QED
      BY <1>0, <3>1 DEF SeenStored, Reach
  <2>1. s \in {seen[c][name], refs[name], NoSha}
    BY DEF Quiet
  <2>2. s # NoSha => Made(s)
    BY <2>1 DEF Real, MadeRefs
  <2>3. CASE s = NoSha
    BY <2>3, Frame
  <2>4. CASE s # NoSha
    <3>1. Reach(s) \subseteq Stored
      BY <2>1, <2>4 DEF Quiet, Store, SeenStored, ClosedUnlessBlind
    <3> QED
      BY <2>2, <2>4, <3>1, Frame
  <2> QED
    BY <2>3, <2>4
<1> QED
  BY <1>1, <1>2, <1>3, <1>4 DEF Store

-----------------------------------------------------------------------------
(* A transaction that executes. *)

\* What a push adds to the log.
LEMMA Logged ==
    ASSUME TypeOK, NEW t \in TxType,
           log' = IF t.pack = NoPack THEN log ELSE Append(log, t.pack)
    PROVE  /\ \A k \in DOMAIN log : k \in DOMAIN log' /\ log'[k] = log[k]
           /\ \A k \in DOMAIN log' : k \in DOMAIN log \/ (k = Len(log) + 1 /\ log'[k] = t.pack)
           /\ Stored' = Stored \cup t.pack.objs
<1>1. t.pack \in PackType /\ log \in Seq(PackType)
  BY DEF TypeOK, TxType
<1>2. CASE t.pack = NoPack
  BY <1>2, NoTxType DEF Stored
<1>3. CASE t.pack # NoPack
  <2>1. log' = Append(log, t.pack)
    BY <1>3
  <2>2. /\ DOMAIN log = 1..Len(log) /\ Len(log) \in Nat
        /\ DOMAIN log' = 1..(Len(log) + 1) /\ log'[Len(log) + 1] = t.pack
        /\ \A k \in DOMAIN log : log'[k] = log[k]
    BY <1>1, <2>1
  <2>3. \A k \in DOMAIN log : k \in DOMAIN log' /\ log'[k] = log[k]
    BY <2>2
  <2>4. \A k \in DOMAIN log' : k \in DOMAIN log \/ (k = Len(log) + 1 /\ log'[k] = t.pack)
    BY <2>2
  <2>5. Len(log) + 1 \in DOMAIN log'
    BY <2>2
  <2>6. Stored' = Stored \cup t.pack.objs
    BY <2>2, <2>3, <2>4, <2>5 DEF Stored
  <2> QED
    BY <2>3, <2>4, <2>6
<1> QED
  BY <1>2, <1>3

LEMMA Executed ==
    ASSUME IInv, TypeOK', NEW t \in Pending, Apply(t),
           history' = history, odb' = odb, blind' = blind, Pending' \subseteq Pending,
           \A c \in Clones, name \in RefNames : seen'[c][name] \in {seen[c][name], NoSha}
    PROVE  Real' /\ Store'
<1> USE DEF IInv
<1>1. t \in TxType /\ t.new \in Shas /\ t.old \in Shas \cup {NoSha} /\ t.name \in RefNames
  BY PendingType
<1>2. Grown /\ \A c \in Clones : \A s \in odb'[c] : Made(s)'
  BY DEF Grown, Made, Real
<1>3. CASE refs' = refs /\ log' = log
  <2>1. clears' = clears
    BY <1>1, Applies
  <2>2. Quiet
    BY <1>3, <2>1 DEF Quiet
  <2> QED
    BY <1>2, <2>2, QuietReal, QuietStore
<1>4. CASE /\ refs[t.name] = t.old
           /\ refs' = [refs EXCEPT ![t.name] = t.new]
           /\ log' = IF t.pack = NoPack THEN log ELSE Append(log, t.pack)
  <2>1. /\ \A k \in DOMAIN log : k \in DOMAIN log' /\ log'[k] = log[k]
        /\ \A k \in DOMAIN log' : k \in DOMAIN log \/ (k = Len(log) + 1 /\ log'[k] = t.pack)
        /\ Stored' = Stored \cup t.pack.objs
    BY <1>1, <1>4, Logged
  <2>2. \A name \in RefNames : refs'[name] = IF name = t.name THEN t.new ELSE refs[name]
    BY <1>1, <1>4 DEF TypeOK, RefMap
  <2>3. Made(t.new) /\ (\A s \in t.pack.objs : Made(s))
    BY DEF Real
  <2>4. clears' = clears
    BY <1>1, Applies
  <2>5. Real'
    <3>1. MadeRefs(refs)'
      BY <2>2, <2>3 DEF MadeRefs, Real, Made
    <3>2. \A c \in Clones : MadeRefs(seen[c])'
      BY DEF MadeRefs, Real, Made
    <3>3. \A k \in DOMAIN log' : \A s \in log'[k].objs : Made(s)'
      BY <2>1, <2>3 DEF Real, Made
    <3>4. \A u \in Pending' : Made(u.new)' /\ (\A s \in u.pack.objs : Made(s)')
      BY DEF Real, Made
    <3> QED
      BY <1>2, <3>1, <3>2, <3>3, <3>4 DEF Real
  <2>6. Built'
    BY DEF Built, BuiltFor, Store, Reach
  <2>7. ClosedUnlessBlind'
    <3> SUFFICES ASSUME ~blind', NEW name \in RefNames
                 PROVE  Reach(refs[name])' \subseteq Stored'
      BY DEF ClosedUnlessBlind
    <3>1. Reach(refs[name]) \subseteq Stored /\ Reach(refs[t.name]) \subseteq Stored
      BY <1>1 DEF Store, ClosedUnlessBlind
    <3>2. Reach(t.new) \subseteq t.pack.objs \cup Reach(t.old)
      BY DEF Store, Built, BuiltFor
    <3> QED
      BY <1>4, <2>1, <2>2, <3>1, <3>2 DEF Reach
  <2>8. BasesEarlierUnlessBlind'
    <3> SUFFICES ASSUME ~blind', NEW k \in DOMAIN log', log'[k].base # NoSha
                 PROVE  \E j \in 1..(k - 1) : log'[k].base \in log'[j].objs
      BY DEF BasesEarlierUnlessBlind
    <3>1. CASE k \in DOMAIN log
      <4>1. PICK j \in 1..(k - 1) : log[k].base \in log[j].objs
        BY <2>1, <3>1 DEF Store, BasesEarlierUnlessBlind
      <4>2. j \in DOMAIN log
        BY <3>1, LogType
      <4> QED
        BY <2>1, <3>1, <4>1, <4>2
    <3>2. CASE k = Len(log) + 1 /\ log'[k] = t.pack
      <4>1. t.pack.base = refs[t.name] /\ refs[t.name] # NoSha
        BY <1>4, <3>2 DEF Store, Built, BuiltFor
      <4>2. refs[t.name] \in Reach(refs[t.name])
        BY <1>1, <4>1 DEF Real, MadeRefs, Made, Reach
      <4>3. refs[t.name] \in Stored
        BY <1>1, <4>2 DEF Store, ClosedUnlessBlind
      <4>4. PICK j \in DOMAIN log : refs[t.name] \in log[j].objs
        BY <4>3 DEF Stored
      <4>5. j \in 1..(k - 1)
        BY <3>2, LogType
      <4> QED
        BY <2>1, <3>2, <4>1, <4>4, <4>5
    <3> QED
      BY <2>1, <3>1, <3>2
  <2>9. SeenStored'
    <3> SUFFICES ASSUME ~blind', clears' = 0, NEW c \in Clones, NEW name \in RefNames
                 PROVE  Reach(seen[c][name])' \subseteq Stored'
      BY DEF SeenStored
    <3>1. Reach(seen[c][name]) \subseteq Stored
      BY <2>4 DEF Store, SeenStored
    <3> QED
      BY <2>1, <3>1 DEF Reach
  <2> QED
    BY <2>5, <2>6, <2>7, <2>8, <2>9 DEF Store
<1> QED
  BY <1>1, <1>3, <1>4, Applies

-----------------------------------------------------------------------------
(* The batches of the helpers. *)

\* Only clone c takes part in the step.
Alone(c) ==
    \A d \in Clones \ {c} :
        /\ pc'[d] = pc[d] /\ tx'[d] = tx[d] /\ seen'[d] = seen[d] /\ remote'[d] = remote[d]
        /\ todo'[d] = todo[d] /\ src'[d] = src[d] /\ unchecked'[d] = unchecked[d]

LEMMA CheckedFrame ==
    ASSUME TypeOK, Graph, Grown, NEW d \in Clones, Checked(d),
           seen'[d] = seen[d], src'[d] = src[d], unchecked'[d] = unchecked[d],
           todo'[d] \subseteq todo[d],
           pc'[d] \in {"pushing", "sent"} => pc[d] \in {"pushing", "sent"}
    PROVE  Checked(d)'
<1> SUFFICES ASSUME pc[d] \in {"pushing", "sent"}, NEW name \in todo[d] \ unchecked[d],
                    src[d][name] # NoSha, seen[d][name] # NoSha
             PROVE  seen[d][name] \in history'[src[d][name]]
  BY DEF Checked
<1>1. seen[d][name] \in history[src[d][name]]
  BY DEF Checked
<1>2. src[d][name] \in Shas
  BY RefsType DEF TypeOK
<1>3. Made(src[d][name])
  BY <1>1, <1>2 DEF Graph
<1> QED
  BY <1>1, <1>2, <1>3 DEF Grown

LEMMA BatchesFrame ==
    ASSUME TypeOK, Graph, Grown, Batches, NEW c \in Clones, Alone(c), Checked(c)', Sent(c)'
    PROVE  Batches'
<1>1. \A d \in Clones \ {c} : Checked(d)'
  BY CheckedFrame DEF Batches, Alone
<1>2. \A d \in Clones \ {c} : Sent(d)'
  BY DEF Batches, Alone, Sent
<1> QED
  BY <1>1, <1>2 DEF Batches

\* A session that ends, or goes on to the next spec, has nothing to show.
LEMMA Ended ==
    ASSUME TypeOK, NEW c \in Clones, EndSession(c), pc'[c] # "sent"
    PROVE  Checked(c)' /\ Sent(c)'
<1>1. todo'[c] = {}
  BY DEF EndSession, TypeOK
<1> QED
  BY <1>1 DEF Checked, Sent

LEMMA EndsAlone ==
    ASSUME TypeOK, NEW c \in Clones, EndSession(c), NEW d \in Clones \ {c}
    PROVE  /\ seen'[d] = seen[d] /\ remote'[d] = remote[d] /\ todo'[d] = todo[d]
           /\ src'[d] = src[d] /\ unchecked'[d] = unchecked[d]
  BY DEF EndSession, TypeOK

LEMMA EndsUnseen ==
    ASSUME TypeOK, NEW c \in Clones, EndSession(c)
    PROVE  \A d \in Clones, name \in RefNames : seen'[d][name] \in {seen[d][name], NoSha}
  BY DEF EndSession, NoRefs, TypeOK

LEMMA Moved ==
    ASSUME TypeOK, Graph, Grown, Batches, NEW c \in Clones, NEW name, NextOp(c, name),
           pc[c] \in {"pushing", "sent"}, \A d \in Clones \ {c} : tx'[d] = tx[d]
    PROVE  /\ Batches'
           /\ \A d \in Clones, n \in RefNames : seen'[d][n] \in {seen[d][n], NoSha}
<1>1. CASE pc' = [pc EXCEPT ![c] = "idle"] /\ EndSession(c)
  <2>1. pc'[c] = "idle" /\ \A d \in Clones \ {c} : pc'[d] = pc[d]
    BY <1>1 DEF TypeOK
  <2>2. Alone(c)
    BY <1>1, <2>1, EndsAlone DEF Alone
  <2> QED
    BY <1>1, <2>1, <2>2, Ended, EndsUnseen, BatchesFrame
<1>2. CASE /\ pc' = [pc EXCEPT ![c] = "pushing"]
           /\ todo' = [todo EXCEPT ![c] = @ \ {name}]
           /\ UNCHANGED <<seen, remote, src, unchecked>>
  <2>1. /\ pc'[c] = "pushing" /\ \A d \in Clones \ {c} : pc'[d] = pc[d] /\ todo'[d] = todo[d]
        /\ todo'[c] \subseteq todo[c]
    BY <1>2 DEF TypeOK
  <2>2. Alone(c)
    BY <1>2, <2>1 DEF Alone
  <2>3. Sent(c)'
    BY <2>1 DEF Sent
  <2>4. Checked(c)'
    BY <1>2, <2>1, CheckedFrame DEF Batches
  <2> QED
    BY <1>2, <2>2, <2>3, <2>4, BatchesFrame
<1> QED
  BY <1>1, <1>2 DEF NextOp

-----------------------------------------------------------------------------
(* Each action keeps the invariant. *)

LEMMA Drops ==
    ASSUME NEW c \in Clones, pc'[c] # "sent", orphans' \subseteq Pending,
           \A d \in Clones \ {c} : pc'[d] = pc[d] /\ tx'[d] = tx[d]
    PROVE  Pending' \subseteq Pending
  BY DEF Pending

LEMMA SameHistory ==
    ASSUME Graph, history' = history
    PROVE  Graph' /\ Grown
  BY DEF Graph, Grown, Made

LEMMA QuietStep ==
    ASSUME IInv, TypeOK', SentType', Graph', Grown, Quiet, Batches',
           \A c \in Clones : \A s \in odb'[c] : Made(s)'
    PROVE  IInv'
  BY QuietReal, QuietStore DEF IInv

LEMMA CommitStep ==
    ASSUME IInv, TypeOK', SentType',
           NEW c \in Clones, NEW s \in Shas, NEW parents \in SUBSET odb[c], Commit(c, s, parents)
    PROVE  IInv'
<1> USE DEF IInv
<1> DEFINE behind == UNION {history[p] : p \in parents}
<1>1. /\ history[s] = {} /\ history' = [history EXCEPT ![s] = {s} \cup behind]
      /\ odb' = [odb EXCEPT ![c] = @ \cup {s}]
      /\ UNCHANGED <<refs, log, clears, pc, seen, remote, todo, src, unchecked, tx, orphans, blind>>
  BY DEF Commit, contract, session
<1>2. /\ history'[s] = {s} \cup behind
      /\ \A u \in Shas \ {s} : history'[u] = history[u]
  BY <1>1 DEF TypeOK
<1>3. Grown
  BY <1>1, <1>2 DEF Grown, Made
<1>4. \A p \in parents : p \in Shas
  BY OdbType
<1>5. \A u \in Shas : Made(u) => Made(u)'
  BY <1>3 DEF Grown, Made
<1>6. \A t \in behind : t \in Shas /\ t # s /\ Made(t) /\ history[t] \subseteq behind
  BY <1>1, <1>4 DEF Graph, Made, TypeOK
<1>7. Graph'
  <2>1. \A u \in Shas : history'[u] # {} => u \in history'[u]
    BY <1>2 DEF Graph, Made
  <2>2. \A t \in history'[s] : t \in history'[t] /\ history'[t] \subseteq history'[s]
    BY <1>2, <1>6 DEF Made
  <2>3. \A u \in Shas \ {s} : \A t \in history'[u] : t \in history'[t] /\ history'[t] \subseteq history'[u]
    <3> SUFFICES ASSUME NEW u \in Shas \ {s}, NEW t \in history[u]
                 PROVE  t \in history'[t] /\ history'[t] \subseteq history[u]
      BY <1>2
    <3>1. Made(t) /\ history[t] \subseteq history[u] /\ t \in Shas
      BY DEF Graph, TypeOK
    <3> QED
      BY <1>3, <3>1 DEF Grown, Made
  <2> QED
    BY <2>1, <2>2, <2>3 DEF Graph, Made
<1>8. \A d \in Clones : \A u \in odb'[d] : Made(u)'
  <2>1. Made(s)'
    BY <1>2 DEF Made
  <2>2. \A d \in Clones : odb'[d] \subseteq odb[d] \cup {s}
    BY <1>1 DEF TypeOK
  <2> QED
    BY <1>5, <2>1, <2>2, OdbType DEF Real
<1>9. Quiet
  BY <1>1 DEF Quiet, Pending
<1>10. Batches'
  <2>1. \A d \in Clones : Checked(d)'
    BY <1>1, <1>3, CheckedFrame DEF Batches
  <2> QED
    BY <1>1, <2>1 DEF Batches, Sent
<1> QED
  BY <1>3, <1>7, <1>8, <1>9, <1>10, QuietStep

LEMMA ListStep ==
    ASSUME IInv, TypeOK', SentType', NEW c \in Clones, List(c)
    PROVE  IInv'
<1> USE DEF IInv
<1>1. /\ pc[c] = "idle" /\ seen' = [seen EXCEPT ![c] = refs] /\ pc' = [pc EXCEPT ![c] = "listed"]
      /\ UNCHANGED <<refs, log, clears, history, odb, remote, todo, src, unchecked, tx, orphans, blind>>
  BY DEF List, contract
<1>2. Graph' /\ Grown /\ \A d \in Clones : \A u \in odb'[d] : Made(u)'
  BY <1>1, SameHistory DEF Real, Made
<1>3. /\ pc'[c] = "listed" /\ \A d \in Clones \ {c} : pc'[d] = pc[d] /\ seen'[d] = seen[d]
      /\ seen'[c] = refs
  BY <1>1 DEF TypeOK
<1>4. Pending' \subseteq Pending
  BY <1>1, <1>3 DEF Pending
<1>5. Quiet
  BY <1>1, <1>3, <1>4 DEF Quiet
<1>6. Batches'
  <2>1. Alone(c) /\ Checked(c)' /\ Sent(c)'
    BY <1>1, <1>3 DEF Alone, Checked, Sent
  <2> QED
    BY <1>2, <2>1, BatchesFrame
<1> QED
  BY <1>2, <1>5, <1>6, QuietStep

LEMMA DoPushStep ==
    ASSUME IInv, TypeOK', SentType',
           NEW c \in Clones, NEW names \in SUBSET RefNames,
           NEW sources \in [names -> odb[c] \cup {NoSha}], DoPush(c, names, sources)
    PROVE  IInv'
<1> USE DEF IInv
<1>1. /\ pc[c] = "listed" /\ pc' = [pc EXCEPT ![c] = "pushing"]
      /\ remote' = [remote EXCEPT ![c] = refs]
      /\ todo' = [todo EXCEPT ![c] = names]
      /\ src' = [src EXCEPT ![c] =
                   [name \in RefNames |-> IF name \in names THEN sources[name] ELSE NoSha]]
      /\ unchecked' = [unchecked EXCEPT ![c] =
                         {name \in names : ~FastForward(c, name, sources[name])}]
      /\ UNCHANGED <<refs, log, clears, history, odb, seen, tx, orphans, blind>>
  BY DEF DoPush, contract
<1>2. Graph' /\ Grown /\ \A d \in Clones : \A u \in odb'[d] : Made(u)'
  BY <1>1, SameHistory DEF Real, Made
<1>3. /\ pc'[c] = "pushing" /\ \A d \in Clones \ {c} : pc'[d] = pc[d]
      /\ todo'[c] = names /\ \A name \in names : src'[c][name] = sources[name]
      /\ unchecked'[c] = {name \in names : ~FastForward(c, name, sources[name])}
  BY <1>1 DEF TypeOK
<1>4. Pending' \subseteq Pending
  BY <1>1, <1>3, Drops DEF Pending
<1>5. Quiet
  BY <1>1, <1>4 DEF Quiet
<1>6. Batches'
  <2>1. Alone(c)
    BY <1>1 DEF Alone, TypeOK
  <2>2. Checked(c)'
    <3> SUFFICES ASSUME NEW name \in names, FastForward(c, name, sources[name]),
                        sources[name] # NoSha, seen[c][name] # NoSha
                 PROVE  seen[c][name] \in history[sources[name]]
      BY <1>1, <1>3 DEF Checked
    <3> QED
      BY DEF FastForward, Reach
  <2>3. Sent(c)'
    BY <1>3 DEF Sent
  <2> QED
    BY <1>2, <2>1, <2>2, <2>3, BatchesFrame
<1> QED
  BY <1>2, <1>5, <1>6, QuietStep

\* A step that ends a session or a spec without touching the contract.
LEMMA LeaveStep ==
    ASSUME IInv, TypeOK', SentType', NEW c \in Clones,
           refs' = refs, log' = log, clears' = clears, blind' = blind, history' = history,
           pc'[c] # "sent", \A d \in Clones \ {c} : pc'[d] = pc[d] /\ tx'[d] = tx[d],
           orphans' \subseteq Pending, Batches',
           \A d \in Clones, name \in RefNames : seen'[d][name] \in {seen[d][name], NoSha},
           \A d \in Clones : \A u \in odb'[d] : Made(u)
    PROVE  IInv'
<1> USE DEF IInv
<1>1. Graph' /\ Grown /\ \A d \in Clones : \A u \in odb'[d] : Made(u)'
  BY SameHistory DEF Made
<1>2. Quiet
  BY Drops DEF Quiet
<1> QED
  BY <1>1, <1>2, QuietStep

LEMMA RefuseStep ==
    ASSUME IInv, TypeOK', SentType', NEW c \in Clones, NEW name, RefuseSpec(c, name)
    PROVE  IInv'
<1> USE DEF IInv
<1>1. /\ NextOp(c, name) /\ pc[c] = "pushing"
      /\ UNCHANGED <<refs, log, clears, tx, orphans, lost>>
  BY DEF RefuseSpec, contract
<1>2. /\ UNCHANGED <<history, odb, blind>> /\ pc'[c] \in {"idle", "pushing"}
      /\ \A d \in Clones \ {c} : pc'[d] = pc[d]
  BY <1>1, NextOpType
<1>3. Graph' /\ Grown
  BY <1>2, SameHistory
<1>4. /\ Batches' /\ \A d \in Clones, n \in RefNames : seen'[d][n] \in {seen[d][n], NoSha}
  BY <1>1, <1>3, Moved
<1>5. \A d \in Clones : \A u \in odb'[d] : Made(u)
  BY <1>2 DEF Real
<1>6. orphans' \subseteq Pending
  BY <1>1 DEF Pending
<1> QED
  BY <1>1, <1>2, <1>4, <1>5, <1>6, LeaveStep

LEMMA LoseAnswerStep ==
    ASSUME IInv, TypeOK', SentType', NEW c \in Clones, LoseAnswer(c)
    PROVE  IInv'
<1> USE DEF IInv
<1>1. /\ NextOp(c, tx[c].name) /\ pc[c] = "sent" /\ GiveUp(c)
      /\ UNCHANGED <<refs, log, clears>>
  BY DEF LoseAnswer, contract
<1>2. /\ UNCHANGED <<history, odb, blind>> /\ pc'[c] \in {"idle", "pushing"}
      /\ \A d \in Clones \ {c} : pc'[d] = pc[d] /\ tx'[d] = tx[d]
  BY <1>1, NextOpType, GiveUpType
<1>3. Graph' /\ Grown
  BY <1>2, SameHistory
<1>4. /\ Batches' /\ \A d \in Clones, n \in RefNames : seen'[d][n] \in {seen[d][n], NoSha}
  BY <1>1, <1>2, <1>3, Moved
<1>5. \A d \in Clones : \A u \in odb'[d] : Made(u)
  BY <1>2 DEF Real
<1>6. orphans' \subseteq Pending
  BY <1>1 DEF Pending, GiveUp
<1> QED
  BY <1>1, <1>2, <1>4, <1>5, <1>6, LeaveStep

LEMMA PushDiesStep ==
    ASSUME IInv, TypeOK', SentType', NEW c \in Clones, PushDies(c)
    PROVE  IInv'
<1> USE DEF IInv
<1>1. /\ EndSession(c) /\ pc' = [pc EXCEPT ![c] = "idle"]
      /\ UNCHANGED <<refs, log, clears, history, odb, blind>>
  BY DEF PushDies, contract
<1>2. /\ pc'[c] = "idle" /\ \A d \in Clones \ {c} : pc'[d] = pc[d]
  BY <1>1 DEF TypeOK
<1>3. /\ \A d \in Clones \ {c} : tx'[d] = tx[d]
      /\ orphans' \subseteq Pending
  BY GiveUpType DEF PushDies, GiveUp, Pending
<1>4. Graph' /\ Grown
  BY <1>1, SameHistory
<1>5. Alone(c)
  BY <1>1, <1>2, <1>3, EndsAlone DEF Alone
<1>6. Batches'
  BY <1>1, <1>2, <1>4, <1>5, Ended, BatchesFrame
<1>7. \A d \in Clones : \A u \in odb'[d] : Made(u)
  BY <1>1 DEF Real
<1> QED
  BY <1>1, <1>2, <1>3, <1>6, <1>7, EndsUnseen, LeaveStep

\* A fetch, whole or cut short.
LEMMA FetchStep ==
    ASSUME IInv, TypeOK', SentType', NEW c \in Clones, NEW packs \in Seq(PackType),
           \A k \in DOMAIN packs : k \in DOMAIN log /\ packs[k] = log[k],
           odb' = [odb EXCEPT ![c] = Indexed(@, packs)],
           pc' = [pc EXCEPT ![c] = "idle"], EndSession(c),
           UNCHANGED <<contract, history, tx, orphans, lost, blind>>
    PROVE  IInv'
<1> USE DEF IInv
<1>1. UNCHANGED <<refs, log, clears>>
  BY DEF contract
<1>2. /\ pc'[c] = "idle" /\ \A d \in Clones \ {c} : pc'[d] = pc[d]
  BY DEF TypeOK
<1>3. Graph' /\ Grown
  BY SameHistory
<1>4. Alone(c)
  BY <1>2, EndsAlone DEF Alone
<1>5. Batches'
  BY <1>2, <1>3, <1>4, Ended, BatchesFrame
<1>6. \A d \in Clones : \A u \in odb'[d] : Made(u)
  <2>1. \A u \in Indexed(odb[c], packs) : u \in odb[c] \/ \E k \in DOMAIN log : u \in log[k].objs
    BY IndexedType, OdbType
  <2>2. \A u \in Indexed(odb[c], packs) : Made(u)
    BY <2>1 DEF Real
  <2> QED
    BY <2>2 DEF Real, TypeOK
<1>7. orphans' \subseteq Pending
  BY DEF Pending
<1> QED
  BY <1>1, <1>2, <1>5, <1>6, <1>7, EndsUnseen, LeaveStep

LEMMA SendStep ==
    ASSUME IInv, TypeOK', SentType',
           NEW c \in Clones, NEW name \in todo[c], NEW s \in odb[c], SendPush(c, name, s)
    PROVE  IInv'
<1> USE DEF IInv
<1> DEFINE old == remote[c][name]
<1>1. /\ pc[c] = "pushing" /\ pc' = [pc EXCEPT ![c] = "sent"]
      /\ src' = [src EXCEPT ![c][name] = s]
      /\ unchecked' = [unchecked EXCEPT ![c] = IF s = src[c][name] THEN @ ELSE @ \cup {name}]
      /\ UNCHANGED <<refs, log, clears, history, odb, seen, remote, todo, orphans>>
  BY DEF SendPush, contract
<1>2. name \in RefNames /\ s \in Shas /\ Made(s) /\ old \in Shas \cup {NoSha} /\ s # NoSha
  BY OdbType, RefsType, HelperConstants DEF Real
<1>3. PICK pack \in PushedPack(c, s, old) :
             /\ tx' = [tx EXCEPT ![c] = [pack |-> pack, name |-> name, old |-> old, new |-> s]]
             /\ blind' = (blind \/ pack.objs # Reach(s) \ Reach(old))
  BY DEF SendPush
<1> DEFINE t == [pack |-> pack, name |-> name, old |-> old, new |-> s]
<1>4. /\ pc'[c] = "sent" /\ tx'[c] = t
      /\ \A d \in Clones \ {c} : pc'[d] = pc[d] /\ tx'[d] = tx[d]
  BY <1>1, <1>3 DEF TypeOK
<1>5. \A u \in Pending' : u \in Pending \/ u = t
  BY <1>1, <1>4 DEF Pending
<1>6. pack \in PackType /\ pack.base \in {NoSha, old} /\ pack.objs \subseteq Reach(s)
  BY <1>2, PushedPackType
<1>7. Graph'
  BY <1>1, SameHistory
<1>8. Real'
  <2>1. \A u \in pack.objs : Made(u)
    BY <1>2, <1>6, ReachType DEF Graph
  <2>2. \A u \in Pending' : Made(u.new) /\ (\A v \in u.pack.objs : Made(v))
    BY <1>2, <1>5, <2>1 DEF Real
  <2> QED
    BY <1>1, <2>2 DEF Real, MadeRefs, Made
<1>9. Built'
  <2> SUFFICES ASSUME ~blind', NEW u \in Pending' PROVE BuiltFor(u)'
    BY DEF Built
  <2>1. CASE u \in Pending
    BY <1>1, <1>3, <2>1 DEF Store, Built, BuiltFor, Reach
  <2>2. CASE u = t
    <3>1. t \in TxType
      BY <1>2, <1>6 DEF TxType
    <3>2. pack.objs = Reach(s) \ Reach(old)
      BY <1>3
    <3> QED
      BY <1>1, <1>6, <2>2, <3>1, <3>2 DEF BuiltFor, Reach
  <2> QED
    BY <1>5, <2>1, <2>2
<1>10. Store'
  <2>1. ClosedUnlessBlind' /\ BasesEarlierUnlessBlind' /\ SeenStored'
    BY <1>1, <1>3 DEF Store, ClosedUnlessBlind, BasesEarlierUnlessBlind, SeenStored, Stored, Reach
  <2> QED
    BY <1>9, <2>1 DEF Store
<1>11. Batches'
  <2>1. Alone(c)
    BY <1>1, <1>4 DEF Alone, TypeOK
  <2>2. /\ src'[c][name] = s /\ \A n \in RefNames \ {name} : src'[c][n] = src[c][n]
        /\ unchecked'[c] = IF s = src[c][name] THEN unchecked[c] ELSE unchecked[c] \cup {name}
    BY <1>1, <1>2 DEF TypeOK, RefMap
  <2>3. Checked(c)'
    <3> SUFFICES ASSUME NEW n \in todo[c] \ unchecked'[c], src'[c][n] # NoSha, seen[c][n] # NoSha
                 PROVE  seen[c][n] \in history[src'[c][n]]
      BY <1>1 DEF Checked
    <3>1. n \notin unchecked[c] /\ n \in RefNames
      BY <2>2, OdbType
    <3>2. src'[c][n] = src[c][n]
      BY <2>2, <3>1
    <3> QED
      BY <1>1, <3>1, <3>2 DEF Batches, Checked
  <2>4. Sent(c)'
    BY <1>1, <1>4, <2>2 DEF Sent
  <2>5. Grown
    BY <1>1 DEF Grown
  <2> QED
    BY <2>1, <2>3, <2>4, <2>5, BatchesFrame
<1> QED
  BY <1>7, <1>8, <1>10, <1>11

LEMMA ExecuteStep ==
    ASSUME IInv, TypeOK', SentType', NEW c \in Clones, Execute(c)
    PROVE  IInv'
<1> USE DEF IInv
<1>1. /\ pc[c] = "sent" /\ Apply(tx[c]) /\ tx' = [tx EXCEPT ![c] = NoTx]
      /\ NextOp(c, tx[c].name) /\ UNCHANGED orphans
  BY DEF Execute
<1>2. /\ UNCHANGED <<history, odb, blind>> /\ pc'[c] \in {"idle", "pushing"}
      /\ \A d \in Clones \ {c} : pc'[d] = pc[d]
  BY <1>1, NextOpType
<1>3. \A d \in Clones \ {c} : tx'[d] = tx[d]
  BY <1>1 DEF TypeOK
<1>4. Graph' /\ Grown
  BY <1>2, SameHistory
<1>5. /\ Batches' /\ \A d \in Clones, n \in RefNames : seen'[d][n] \in {seen[d][n], NoSha}
  BY <1>1, <1>3, <1>4, Moved
<1>6. Pending' \subseteq Pending /\ tx[c] \in Pending
  BY <1>1, <1>2, <1>3, Drops DEF Pending
<1>7. Real' /\ Store'
  BY <1>1, <1>2, <1>5, <1>6, Executed
<1> QED
  BY <1>4, <1>5, <1>7

LEMMA OrphanStep ==
    ASSUME IInv, TypeOK', SentType', NEW t \in orphans, ExecuteOrphan(t)
    PROVE  IInv'
<1> USE DEF IInv
<1>1. /\ Apply(t) /\ orphans' = orphans \ {t}
      /\ UNCHANGED <<history, odb, pc, seen, remote, todo, src, unchecked, tx, blind>>
  BY DEF ExecuteOrphan, session
<1>2. Graph' /\ Grown
  BY <1>1, SameHistory
<1>3. Pending' \subseteq Pending /\ t \in Pending
  BY <1>1 DEF Pending
<1>4. Real' /\ Store'
  BY <1>1, <1>3, Executed
<1>5. Batches'
  BY <1>1 DEF Batches, Checked, Sent
<1> QED
  BY <1>2, <1>4, <1>5

LEMMA ClearStep ==
    ASSUME IInv, TypeOK', SentType', ClearStorage
    PROVE  IInv'
<1> USE DEF IInv
<1>1. /\ refs' = NoRefs /\ log' = << >> /\ clears' = clears + 1
      /\ UNCHANGED <<history, odb, pc, seen, remote, todo, src, unchecked, tx, orphans, blind>>
  BY DEF ClearStorage, session
<1>2. Graph'
  BY <1>1, SameHistory
<1>3. \A name \in RefNames : refs'[name] = NoSha
  BY <1>1 DEF NoRefs
<1>4. Real'
  BY <1>1, <1>3 DEF Real, MadeRefs, Made, Pending
<1>5. Built'
  BY <1>1 DEF Store, Built, BuiltFor, Reach, Pending
<1>6. ClosedUnlessBlind' /\ BasesEarlierUnlessBlind'
  BY <1>1, <1>3 DEF ClosedUnlessBlind, BasesEarlierUnlessBlind, Reach
<1>7. SeenStored'
  <2>1. clears' # 0
    BY <1>1 DEF TypeOK
  <2> QED
    BY <2>1 DEF SeenStored
<1>8. Batches'
  BY <1>1 DEF Batches, Checked, Sent
<1> QED
  BY <1>2, <1>4, <1>5, <1>6, <1>7, <1>8 DEF Store

LEMMA StutterStep ==
    ASSUME IInv, UNCHANGED vars
    PROVE  IInv'
<1>1. UNCHANGED <<refs, log, clears, history, odb, pc, seen, remote, todo, src, unchecked, tx,
                  orphans, lost, blind>>
  BY DEF vars, contract, session
<1>2. TypeOK' /\ SentType'
  BY <1>1 DEF IInv, TypeOK, SentType
<1>3. Graph' /\ Real' /\ Batches'
  BY <1>1 DEF IInv, Graph, Real, MadeRefs, Made, Pending, Batches, Checked, Sent
<1>4. Store'
  BY <1>1 DEF IInv, Store, Built, BuiltFor, ClosedUnlessBlind, BasesEarlierUnlessBlind, SeenStored,
              Stored, Reach, Pending
<1> QED
  BY <1>2, <1>3, <1>4 DEF IInv

LEMMA InvInit == Init => IInv
<1> SUFFICES ASSUME Init PROVE IInv
  OBVIOUS
<1>1. NoRefs \in RefMap /\ << >> \in Seq(PackType) /\ \A name \in RefNames : NoRefs[name] = NoSha
  BY DEF NoRefs, RefMap
<1>2. TypeOK /\ SentType
  <2>1. 0 \in 0..MaxLost /\ 0 \in 0..MaxClears
    BY HelperConstants
  <2>2. /\ history \in [Shas -> SUBSET Shas] /\ odb \in [Clones -> SUBSET Shas]
        /\ todo \in [Clones -> SUBSET RefNames] /\ unchecked \in [Clones -> SUBSET RefNames]
        /\ pc \in [Clones -> {"idle", "listed", "pushing", "sent"}]
        /\ tx \in [Clones -> TxType \cup {NoTx}] /\ orphans \subseteq TxType
    BY DEF Init
  <2> QED
    BY <1>1, <2>1, <2>2 DEF Init, TypeOK, SentType
<1>3. Pending = {}
  BY DEF Init, Pending
<1>4. Graph /\ Real /\ Batches
  BY <1>1, <1>3 DEF Init, Graph, Real, MadeRefs, Batches, Checked, Sent
<1>5. Store
  BY <1>1, <1>3 DEF Init, Store, Built, ClosedUnlessBlind, BasesEarlierUnlessBlind, SeenStored, Reach
<1> QED
  BY <1>2, <1>4, <1>5 DEF IInv

LEMMA InvStep == IInv /\ [Next]_vars => IInv'
<1> SUFFICES ASSUME IInv, [Next]_vars PROVE IInv'
  OBVIOUS
<1>1. TypeOK' /\ SentType'
  BY TypeStep DEF IInv
<1>2. ASSUME NEW c \in Clones, Git(c) PROVE IInv'
  BY <1>1, <1>2, CommitStep, ListStep DEF Git
<1>3. ASSUME NEW c \in Clones, DoFetch(c) PROVE IInv'
  <2>1. log \in Seq(PackType)
    BY DEF IInv, TypeOK
  <2> QED
    BY <1>1, <1>3, <2>1, FetchStep DEF DoFetch
<1>4. ASSUME NEW c \in Clones, FetchDies(c) PROVE IInv'
  <2>1. PICK k \in 0..Len(log) : odb' = [odb EXCEPT ![c] = Indexed(@, SubSeq(log, 1, k))]
    BY <1>4 DEF FetchDies
  <2>2. log \in Seq(PackType)
    BY DEF IInv, TypeOK
  <2>3. PICK packs : packs = SubSeq(log, 1, k)
    OBVIOUS
  <2>4. packs \in Seq(PackType) /\ \A j \in DOMAIN packs : j \in DOMAIN log /\ packs[j] = log[j]
    BY <2>2, <2>3
  <2>5. odb' = [odb EXCEPT ![c] = Indexed(@, packs)]
    BY <2>1, <2>3
  <2> QED
    BY <1>1, <1>4, <2>4, <2>5, FetchStep DEF FetchDies
<1>5. ASSUME NEW c \in Clones, Helper(c) PROVE IInv'
  BY <1>1, <1>3, <1>4, <1>5, DoPushStep, SendStep, RefuseStep, ExecuteStep, LoseAnswerStep,
     PushDiesStep DEF Helper
<1> QED
  BY <1>1, <1>2, <1>5, OrphanStep, ClearStep, StutterStep DEF Next

-----------------------------------------------------------------------------
(* The results. *)

LEMMA Invariant == Spec => []IInv
  BY InvInit, InvStep, PTL DEF Spec

\* Types, whatever the constants.
THEOREM TypeCorrect == Spec => []TypeOK
<1>1. IInv => TypeOK
  BY DEF IInv
<1> QED
  BY <1>1, Invariant, PTL

\* The packs hold what the refs need, unless a push was sent blind.
THEOREM Closed == Spec => []ClosedUnlessBlind
<1>1. IInv => ClosedUnlessBlind
  BY DEF IInv, Store
<1> QED
  BY <1>1, Invariant, PTL

\* Thin packs come after their bases, unless a push was sent blind.
THEOREM BasesComeFirst == Spec => []BasesEarlierUnlessBlind
<1>1. IInv => BasesEarlierUnlessBlind
  BY DEF IInv, Store
<1> QED
  BY <1>1, Invariant, PTL

LEMMA ConnectStep ==
    ASSUME IInv, NEW c \in Clones, DoFetch(c), ~blind, clears = 0, NEW name \in RefNames
    PROVE  Reach(seen[c][name]) \subseteq odb'[c]
<1>1. Reach(seen[c][name]) \subseteq Stored
  BY DEF IInv, Store, SeenStored
<1>2. Stored \subseteq Indexed(odb[c], log)
  BY AllImported DEF IInv, Store
<1>3. odb'[c] = Indexed(odb[c], log)
  BY DEF DoFetch, IInv, TypeOK
<1> QED
  BY <1>1, <1>2, <1>3

\* A fetch brings the history of every ref listed before it.
THEOREM FetchesConnect == Spec => FetchConnects
<1>1. IInv => (\A c \in Clones : DoFetch(c) /\ ~blind /\ clears = 0 =>
                  \A name \in RefNames : Reach(seen[c][name]) \subseteq odb'[c])
  BY ConnectStep
<1> QED
  BY <1>1, Invariant, PTL DEF FetchConnects

LEMMA ForwardStep ==
    ASSUME IInv, NEW c \in Clones, Execute(c), tx[c].name \notin unchecked[c],
           seen[c][tx[c].name] = remote[c][tx[c].name], refs' # refs
    PROVE  Reach(refs[tx[c].name]) \subseteq Reach(refs'[tx[c].name])
<1> USE DEF IInv
<1> DEFINE t == tx[c]
<1>1. pc[c] = "sent" /\ Apply(t) /\ t \in TxType
  BY DEF Execute, SentType
<1>2. t.name \in RefNames /\ t.new \in Shas
  BY <1>1 DEF TxType
<1>3. refs[t.name] = t.old /\ refs' = [refs EXCEPT ![t.name] = t.new]
  BY <1>1, Applies
<1>4. refs'[t.name] = t.new
  BY <1>2, <1>3 DEF TypeOK, RefMap
<1>5. t.name \in todo[c] /\ t.new = src[c][t.name] /\ t.old = seen[c][t.name]
  BY <1>1 DEF Batches, Sent
<1>6. CASE t.old = NoSha
  BY <1>3, <1>6, ReachType
<1>7. CASE t.old # NoSha
  <2>1. t.new # NoSha
    BY <1>2, HelperConstants
  <2>2. t.old \in history[t.new]
    BY <1>1, <1>5, <1>7, <2>1 DEF Batches, Checked
  <2>3. history[t.old] \subseteq history[t.new]
    BY <1>2, <2>2 DEF Graph
  <2> QED
    BY <1>3, <1>4, <1>7, <2>1, <2>3 DEF Reach
<1> QED
  BY <1>6, <1>7

\* A push that git checked, and that found the refs as git did, discards
\* nothing.
THEOREM FastForwards == Spec => FastForwardUnlessMoved
<1>1. IInv => (\A c \in Clones :
                  /\ Execute(c)
                  /\ tx[c].name \notin unchecked[c]
                  /\ seen[c][tx[c].name] = remote[c][tx[c].name]
                  /\ refs' # refs
                  => Reach(refs[tx[c].name]) \subseteq Reach(refs'[tx[c].name]))
  BY ForwardStep
<1> QED
  BY <1>1, Invariant, PTL DEF FastForwardUnlessMoved

-----------------------------------------------------------------------------
(* One clone that pushes. *)

\* All that the contract, and a transaction, names is in that clone.
Owned(p) ==
    /\ ~blind
    /\ \A name \in RefNames : refs[name] \in odb[p] \cup {NoSha}
    /\ \A name \in RefNames : remote[p][name] \in odb[p] \cup {NoSha}
    /\ \A t \in Pending : t.new \in odb[p]
    /\ \A c \in Clones : pc[c] \in {"pushing", "sent"} => c = p

LEMMA OwnedFrame ==
    ASSUME NEW p \in Clones, Owned(p), odb[p] \subseteq odb'[p], ~blind',
           \A name \in RefNames : refs'[name] \in odb[p] \cup {NoSha},
           \A name \in RefNames : remote'[p][name] \in {remote[p][name], refs[name], NoSha},
           \A t \in Pending' : t \in Pending \/ t.new \in odb[p],
           \A c \in Clones : pc'[c] \in {"pushing", "sent"} => c = p
    PROVE  Owned(p)'
  BY DEF Owned

\* Steps of a helper after which it waits for nothing.
LEMMA OwnedLeave ==
    ASSUME TypeOK, NEW p \in Clones, Owned(p), NEW c \in Clones,
           odb[p] \subseteq odb'[p], blind' = blind,
           \A name \in RefNames : refs'[name] \in odb[p] \cup {NoSha},
           EndSession(c) \/ remote' = remote,
           pc'[c] = "idle" \/ (pc'[c] = "pushing" /\ pc[c] \in {"pushing", "sent"}),
           \A d \in Clones \ {c} : pc'[d] = pc[d] /\ tx'[d] = tx[d],
           orphans' \subseteq Pending
    PROVE  Owned(p)'
<1>1. Pending' \subseteq Pending
  BY Drops
<1>2. \A name \in RefNames : remote'[p][name] \in {remote[p][name], NoSha}
  <2>1. CASE remote' = remote
    BY <2>1
  <2>2. CASE EndSession(c)
    <3>1. remote' = [remote EXCEPT ![c] = NoRefs] /\ remote \in [Clones -> RefMap]
      BY <2>2 DEF EndSession, TypeOK
    <3>2. \A name \in RefNames : NoRefs[name] = NoSha
      BY DEF NoRefs
    <3> QED
      BY <3>1, <3>2
  <2> QED
    BY <2>1, <2>2
<1>3. \A d \in Clones : pc'[d] \in {"pushing", "sent"} => d = p
  BY DEF Owned
<1>4. ~blind'
  BY DEF Owned
<1>5. /\ \A t \in Pending' : t \in Pending \/ t.new \in odb[p]
      /\ \A name \in RefNames : remote'[p][name] \in {remote[p][name], refs[name], NoSha}
  BY <1>1, <1>2
<1> QED
  BY <1>3, <1>4, <1>5, OwnedFrame

LEMMA OwnedApply ==
    ASSUME TypeOK, SentType, NEW p \in Clones, Owned(p), NEW t \in Pending, Apply(t)
    PROVE  \A name \in RefNames : refs'[name] \in odb[p] \cup {NoSha}
<1>1. t \in TxType /\ t.name \in RefNames /\ t.new \in odb[p]
  BY PendingType DEF Owned
<1>2. refs' = refs \/ refs' = [refs EXCEPT ![t.name] = t.new]
  BY <1>1, Applies
<1> QED
  BY <1>1, <1>2 DEF Owned, TypeOK, RefMap

LEMMA NextOpLeaves ==
    ASSUME NEW c, NEW name, NextOp(c, name)
    PROVE  EndSession(c) \/ remote' = remote
  BY DEF NextOp

\* The clone has what it pushes over: git rev-list does not fail.
LEMMA SendsSighted ==
    ASSUME TypeOK, ~PackObjectsMayFail, NEW p \in Clones, Owned(p),
           NEW name \in RefNames, NEW s \in Shas, NEW pack \in PushedPack(p, s, remote[p][name])
    PROVE  pack.objs = Reach(s) \ Reach(remote[p][name])
<1> DEFINE old == remote[p][name]
<1>1. ~RevListFails(p, old)
  BY DEF Owned, RevListFails
<1>2. CollectNewShas(p, s, old) = Reach(s) \ Reach(old)
  BY <1>1 DEF CollectNewShas
<1>3. CASE Reach(s) \ Reach(old) = {}
  BY <1>2, <1>3, NoTxType DEF PushedPack
<1>4. CASE Reach(s) \ Reach(old) # {}
  BY <1>2, <1>4 DEF PushedPack, BuildPackfile
<1> QED
  BY <1>3, <1>4

LEMMA OwnedStep ==
    ASSUME NEW p \in Clones, Pushers = {p}, ~PackObjectsMayFail, TypeOK, SentType, Owned(p),
           [Next]_vars
    PROVE  Owned(p)'
<1>0. /\ \A name \in RefNames : refs[name] \in odb[p] \cup {NoSha}
      /\ \A c \in Clones : pc[c] \in {"pushing", "sent"} => c = p
      /\ ~blind
  BY DEF Owned
<1>1. ASSUME NEW c \in Clones, NEW s \in Shas, NEW parents \in SUBSET odb[c], Commit(c, s, parents)
      PROVE  Owned(p)'
  <2>1. /\ odb' = [odb EXCEPT ![c] = @ \cup {s}]
        /\ UNCHANGED <<refs, remote, pc, tx, orphans, blind>>
    BY <1>1 DEF Commit, contract, session
  <2>2. Pending' = Pending /\ odb[p] \subseteq odb'[p]
    BY <2>1 DEF Pending, TypeOK
  <2> QED
    BY <1>0, <2>1, <2>2, OwnedFrame
<1>2. ASSUME NEW c \in Clones, List(c) PROVE Owned(p)'
  <2>1. /\ pc' = [pc EXCEPT ![c] = "listed"]
        /\ UNCHANGED <<refs, odb, remote, tx, orphans, blind>>
    BY <1>2 DEF List, contract
  <2>2. pc'[c] = "listed" /\ \A d \in Clones \ {c} : pc'[d] = pc[d]
    BY <2>1 DEF TypeOK
  <2>3. Pending' \subseteq Pending
    BY <2>1, <2>2, Drops DEF Pending
  <2>4. \A d \in Clones : pc'[d] \in {"pushing", "sent"} => d = p
    BY <1>0, <2>2
  <2> QED
    BY <1>0, <2>1, <2>3, <2>4, OwnedFrame
<1>3. ASSUME NEW c \in Clones, NEW names, NEW sources, DoPush(c, names, sources)
      PROVE  Owned(p)'
  <2>1. /\ c = p /\ remote' = [remote EXCEPT ![c] = refs]
        /\ pc' = [pc EXCEPT ![c] = "pushing"]
        /\ UNCHANGED <<refs, odb, tx, orphans, blind>>
    BY <1>3 DEF DoPush, contract
  <2>2. /\ pc'[c] = "pushing" /\ remote'[p] = refs
        /\ \A d \in Clones \ {c} : pc'[d] = pc[d]
    BY <2>1 DEF TypeOK
  <2>3. Pending' \subseteq Pending
    BY <2>1, <2>2, Drops DEF Pending
  <2>4. \A d \in Clones : pc'[d] \in {"pushing", "sent"} => d = p
    BY <1>0, <2>1, <2>2
  <2> QED
    BY <1>0, <2>1, <2>2, <2>3, <2>4, OwnedFrame
<1>4. ASSUME NEW c \in Clones, NEW name \in todo[c], NEW s \in odb[c], SendPush(c, name, s)
      PROVE  Owned(p)'
  <2>1. /\ c = p /\ pc' = [pc EXCEPT ![c] = "sent"]
        /\ UNCHANGED <<refs, odb, remote, orphans>>
    BY <1>0, <1>4 DEF SendPush, contract
  <2>2. name \in RefNames /\ s \in Shas
    BY OdbType
  <2>3. PICK pack \in PushedPack(c, s, remote[c][name]) :
             /\ tx' = [tx EXCEPT ![c] = [pack |-> pack, name |-> name,
                                         old |-> remote[c][name], new |-> s]]
             /\ blind' = (blind \/ pack.objs # Reach(s) \ Reach(remote[c][name]))
    BY <1>4 DEF SendPush
  <2>4. ~blind'
    <3>1. pack \in PushedPack(p, s, remote[p][name])
      BY <2>1, <2>3
    <3>2. pack.objs = Reach(s) \ Reach(remote[p][name])
      BY <2>2, <3>1, SendsSighted
    <3> QED
      BY <1>0, <2>1, <2>3, <3>2
  <2>5. /\ tx'[c].new = s /\ pc'[c] = "sent"
        /\ \A d \in Clones \ {c} : pc'[d] = pc[d] /\ tx'[d] = tx[d]
    BY <2>1, <2>3 DEF TypeOK
  <2>6. \A t \in Pending' : t \in Pending \/ t.new \in odb[p]
    BY <2>1, <2>5 DEF Pending
  <2>7. \A d \in Clones : pc'[d] \in {"pushing", "sent"} => d = p
    BY <1>0, <2>1, <2>5
  <2> QED
    BY <1>0, <2>1, <2>4, <2>6, <2>7, OwnedFrame
<1>5. ASSUME NEW c \in Clones, NEW name \in todo[c], RefuseSpec(c, name)
      PROVE  Owned(p)'
  <2>1. NextOp(c, name) /\ pc[c] = "pushing" /\ UNCHANGED <<refs, tx, orphans>>
    BY <1>5 DEF RefuseSpec, contract
  <2>2. orphans' \subseteq Pending
    BY <2>1 DEF Pending
  <2> QED
    BY <1>0, <2>1, <2>2, NextOpType, NextOpLeaves, OwnedLeave
<1>6. ASSUME NEW c \in Clones, Execute(c)
      PROVE  Owned(p)'
  <2>1. /\ NextOp(c, tx[c].name) /\ pc[c] = "sent" /\ Apply(tx[c])
        /\ tx' = [tx EXCEPT ![c] = NoTx] /\ UNCHANGED orphans
    BY <1>6 DEF Execute
  <2>2. orphans' \subseteq Pending /\ tx[c] \in Pending
    BY <2>1 DEF Pending
  <2>3. \A d \in Clones \ {c} : tx'[d] = tx[d]
    BY <2>1 DEF TypeOK
  <2>4. \A name \in RefNames : refs'[name] \in odb[p] \cup {NoSha}
    BY <2>1, <2>2, OwnedApply
  <2> QED
    BY <2>1, <2>2, <2>3, <2>4, NextOpType, NextOpLeaves, OwnedLeave
<1>7. ASSUME NEW c \in Clones, LoseAnswer(c)
      PROVE  Owned(p)'
  <2>1. NextOp(c, tx[c].name) /\ pc[c] = "sent" /\ GiveUp(c) /\ UNCHANGED refs
    BY <1>7 DEF LoseAnswer, contract
  <2>2. orphans' \subseteq Pending
    BY <2>1 DEF Pending, GiveUp
  <2> QED
    BY <1>0, <2>1, <2>2, GiveUpType, NextOpType, NextOpLeaves, OwnedLeave
<1>8. ASSUME NEW c \in Clones, PushDies(c)
      PROVE  Owned(p)'
  <2>1. EndSession(c) /\ pc' = [pc EXCEPT ![c] = "idle"] /\ UNCHANGED <<refs, odb, blind>>
    BY <1>8 DEF PushDies, contract
  <2>2. orphans' \subseteq Pending /\ \A d \in Clones \ {c} : tx'[d] = tx[d]
    BY <1>8, GiveUpType DEF PushDies, GiveUp, Pending
  <2>3. pc'[c] = "idle" /\ \A d \in Clones \ {c} : pc'[d] = pc[d]
    BY <2>1 DEF TypeOK
  <2> QED
    BY <1>0, <2>1, <2>2, <2>3, OwnedLeave
<1>9. ASSUME NEW c \in Clones, DoFetch(c) \/ FetchDies(c)
      PROVE  Owned(p)'
  <2>1. /\ EndSession(c) /\ pc' = [pc EXCEPT ![c] = "idle"] /\ UNCHANGED <<refs, tx, orphans, blind>>
        /\ \E packs : odb' = [odb EXCEPT ![c] = Indexed(@, packs)]
    BY <1>9 DEF DoFetch, FetchDies, contract
  <2>2. odb[p] \subseteq odb'[p]
    BY <2>1 DEF Indexed, TypeOK
  <2>3. pc'[c] = "idle" /\ \A d \in Clones \ {c} : pc'[d] = pc[d]
    BY <2>1 DEF TypeOK
  <2>4. orphans' \subseteq Pending
    BY <2>1 DEF Pending
  <2> QED
    BY <1>0, <2>1, <2>2, <2>3, <2>4, OwnedLeave
<1>10. ASSUME NEW t \in orphans, ExecuteOrphan(t)
      PROVE  Owned(p)'
  <2>1. Apply(t) /\ orphans' = orphans \ {t} /\ UNCHANGED <<odb, pc, remote, tx, blind>>
    BY <1>10 DEF ExecuteOrphan, session
  <2>2. t \in Pending /\ Pending' \subseteq Pending
    BY <2>1 DEF Pending
  <2>3. \A name \in RefNames : refs'[name] \in odb[p] \cup {NoSha}
    BY <2>1, <2>2, OwnedApply
  <2> QED
    BY <1>0, <2>1, <2>2, <2>3, OwnedFrame
<1>11. ASSUME ClearStorage
      PROVE  Owned(p)'
  <2>1. refs' = NoRefs /\ UNCHANGED <<odb, pc, remote, tx, orphans, blind>>
    BY <1>11 DEF ClearStorage, session
  <2>2. Pending' = Pending /\ \A name \in RefNames : refs'[name] = NoSha
    BY <2>1 DEF Pending, NoRefs
  <2> QED
    BY <1>0, <2>1, <2>2, OwnedFrame
<1>12. ASSUME UNCHANGED vars
      PROVE  Owned(p)'
  <2>1. UNCHANGED <<refs, odb, pc, remote, tx, orphans, blind>>
    BY <1>12 DEF vars, contract, session
  <2> QED
    BY <2>1 DEF Owned, Pending
<1> QED
  BY <1>1, <1>2, <1>3, <1>4, <1>5, <1>6, <1>7, <1>8, <1>9, <1>10, <1>11, <1>12
     DEF Next, Git, Helper

\* A clone that is the only one to push never takes a failure for nothing to
\* send, as long as git pack-objects itself does not fail.
THEOREM OnePusherSees ==
    ASSUME NEW p \in Clones, Pushers = {p}, ~PackObjectsMayFail
    PROVE  Spec => []NeverBlind
<1>1. Init => Owned(p)
  BY DEF Init, Owned, Pending, NoRefs
<1>2. IInv /\ Owned(p) /\ [Next]_vars => Owned(p)'
  BY OwnedStep DEF IInv
<1>3. Owned(p) => NeverBlind
  BY DEF Owned, NeverBlind
<1> QED
  BY <1>1, <1>2, <1>3, Invariant, PTL DEF Spec
================================================================================
