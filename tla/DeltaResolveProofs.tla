-------------------------- MODULE DeltaResolveProofs --------------------------
(***************************************************************************)
(* Proofs about the resolution loops for any objects and any packs: what   *)
(* they serve was stored, and the service worker's serve all of it.        *)
(***************************************************************************)
EXTENDS DeltaResolve, TLAPS

USE DEF PerPack

-----------------------------------------------------------------------------
(* The packs gathered so far *)

\* One more pack adds its objects and deltas to what was gathered, if it
\* parses, and nothing if it does not.
LEMMA OneMore ==
    ASSUME NEW n \in Nat
    PROVE  /\ Given(n) \subseteq Given(n + 1) /\ Deltas(n) \subseteq Deltas(n + 1)
           /\ packs[n + 1].parses =>
                /\ Given(n + 1) = Given(n) \cup packs[n + 1].objects
                /\ Deltas(n + 1) = Deltas(n) \cup packs[n + 1].deltas
           /\ ~packs[n + 1].parses =>
                Given(n + 1) = Given(n) /\ Deltas(n + 1) = Deltas(n)
<1>1. Parsed(n) \subseteq Parsed(n + 1)
  BY DEF Parsed
<1>2. CASE packs[n + 1].parses
  <2>1. Parsed(n + 1) = Parsed(n) \cup {n + 1}
    BY <1>2 DEF Parsed
  <2> QED
    BY <1>2, <2>1 DEF Given, Deltas
<1>3. CASE ~packs[n + 1].parses
  <2>1. Parsed(n + 1) = Parsed(n)
    BY <1>3 DEF Parsed
  <2> QED
    BY <1>3, <2>1 DEF Given, Deltas
<1> QED
  BY <1>2, <1>3

\* A set closed under more packs is closed under fewer.
LEMMA ClosedFewer ==
    ASSUME NEW n \in Nat, NEW S, Closed(S, n + 1)
    PROVE  Closed(S, n)
  BY OneMore DEF Closed

\* When bases come early enough, a closed set has whatever the deltas give.
LEMMA EarlyEnough ==
    ASSUME NEW n \in 0..Len(packs), packs \in Seq(PackType), BasesEarlier,
           NEW S \in SUBSET Objects, Closed(S, n), NEW d \in Deltas(n)
    PROVE  d.result \in S \cup {Corrupt}
<1>1. PICK j \in 1..n : packs[j].parses /\ d \in packs[j].deltas
  BY DEF Deltas, Parsed
<1>2. j \in 1..Len(packs)
  OBVIOUS
<1>3. Parsed(j) \subseteq Parsed(n)
  BY DEF Parsed
<1>4. Closed(S, j)
  BY <1>3 DEF Closed, Given, Deltas
<1>5. d.base \in S
  BY <1>1, <1>2, <1>4 DEF BasesEarlier
<1> QED
  BY <1>5 DEF Closed

-----------------------------------------------------------------------------
(* The inductive invariant *)

\* What is pending was gathered; what is gathered is there, applied, or
\* pending; a delta this pass has passed over has no base as long as the pass
\* made no progress; and the last pass passed over all of them.
Gathered ==
    /\ pending \subseteq Deltas(k)
    /\ pc # "failed" => Given(k) \subseteq local
    /\ ~PerPack /\ pc # "failed" =>
          \A d \in Deltas(k) : d \in pending \/ d.result \in local
    /\ pc = "pass" /\ ~progress => \A d \in pending \ todo : d.base \notin local
    /\ ~PerPack /\ pc = "done" => \A d \in pending : d.base \notin local

\* The server has all it can have of the packs before the next one, and of that
\* pack whatever is not pending, as long as no base comes later.
InStep ==
    PerPack /\ BasesEarlier =>
        /\ pc # "failed"
        /\ pc \in {"gather", "done"} => Closed(local, k)
        /\ pc = "pass" =>
              \A d \in Deltas(k) : d \in pending \/ d.result \in local \cup {Corrupt}

IInv == TypeOK /\ NothingInvented /\ Gathered /\ InStep

LEMMA InitInv == Init => IInv
<1> SUFFICES ASSUME Init
             PROVE  IInv
  OBVIOUS
<1>1. TypeOK
  <2>1. packs \in Seq(PackType)
    BY ResolveConstants DEF Init
  <2>2. Len(packs) \in Nat
    BY <2>1
  <2>3. 0 \in 0..Len(packs)
    BY <2>2
  <2> QED
    BY <2>1, <2>3 DEF Init, TypeOK
<1>2. NothingInvented
  BY DEF Init, NothingInvented
<1>3. Parsed(0) = {}
  BY DEF Parsed
<1>4. Given(0) = {} /\ Deltas(0) = {}
  BY <1>3 DEF Given, Deltas
<1>5. Gathered
  BY <1>4 DEF Init, Gathered
<1>6. InStep
  BY <1>4 DEF Init, InStep, Closed
<1> QED
  BY <1>1, <1>2, <1>5, <1>6 DEF IInv

LEMMA GatherInv ==
    ASSUME IInv, Gather
    PROVE  IInv'
<1> USE DEF IInv
<1> DEFINE pack == packs[k + 1]
<1>1. /\ k \in Nat /\ k + 1 \in 0..Len(packs) /\ k' = k + 1 /\ packs' = packs /\ reader' = reader
      /\ pack \in PackType
  BY DEF Gather, TypeOK
<1>2. /\ pack.parses => local' = local \cup pack.objects /\ pending' = pending \cup pack.deltas
      /\ ~pack.parses => local' = local /\ pending' = pending
      /\ todo' = pending' /\ progress' = FALSE /\ pc = "gather"
      /\ pc' \in {"gather", "pass", "failed"}
      /\ pc' = "failed" => ~pack.parses
      /\ ~pack.parses /\ ~PerPack => pc' = "failed"
  BY DEF Gather
<1>3. TypeOK'
  BY <1>1, <1>2 DEF TypeOK, PackType
<1>4. NothingInvented'
  <2> SUFFICES ASSUME NEW S \in SUBSET Objects, Closed(S, k)'
               PROVE  local' \subseteq S
    BY DEF NothingInvented
  <2>1. Closed(S, k + 1)
    BY <1>1 DEF Closed, Given, Deltas, Parsed
  <2>2. local \subseteq S
    BY <1>1, <2>1, ClosedFewer DEF NothingInvented
  <2>3. pack.parses => pack.objects \subseteq S
    BY <1>1, <2>1, OneMore DEF Closed
  <2> QED
    BY <1>1, <1>2, <2>2, <2>3 DEF PackType
<1>5. Given(k)' = Given(k + 1) /\ Deltas(k)' = Deltas(k + 1)
  BY <1>1 DEF Given, Deltas, Parsed
<1>6. Gathered'
  <2>1. pending' \subseteq Deltas(k + 1)
    BY <1>1, <1>2, OneMore DEF Gathered, PackType
  <2>2. Given(k + 1) \subseteq local'
    BY <1>1, <1>2, OneMore DEF Gathered, PackType
  <2>3. ~PerPack /\ pc' # "failed" =>
           \A d \in Deltas(k + 1) : d \in pending' \/ d.result \in local'
    BY <1>1, <1>2, OneMore DEF Gathered, PackType
  <2> QED
    BY <1>1, <1>2, <1>5, <2>1, <2>2, <2>3 DEF Gathered
<1>7. InStep'
  <2> SUFFICES ASSUME PerPack, BasesEarlier PROVE InStep'
    BY <1>1 DEF InStep, BasesEarlier, Closed, Given, Deltas, Parsed
  <2>1. Closed(local, k)
    BY <1>2 DEF InStep
  <2>2. pc' = IF pack.parses THEN "pass" ELSE "gather"
    BY DEF Gather
  <2>3. CASE ~pack.parses
    <3>1. Closed(local, k)'
      BY <1>1, <1>2, <1>5, <2>1, <2>3, OneMore DEF Closed
    <3> QED
      BY <2>2, <2>3, <3>1 DEF InStep
  <2>4. CASE pack.parses
    <3>1. \A d \in Deltas(k) : d.result \in local \cup {Corrupt}
      BY <2>1, EarlyEnough DEF TypeOK
    <3>2. \A d \in Deltas(k + 1) : d \in pending' \/ d.result \in local' \cup {Corrupt}
      <4>1. Deltas(k + 1) = Deltas(k) \cup pack.deltas
        BY <1>1, <2>4, OneMore
      <4>2. local \subseteq local' /\ pack.deltas \subseteq pending'
        BY <1>2, <2>4
      <4> HIDE DEF pack
      <4> QED
        BY <3>1, <4>1, <4>2
    <3> QED
      BY <1>5, <2>2, <2>4, <3>2 DEF InStep
  <2> QED
    BY <2>3, <2>4
<1> QED
  BY <1>3, <1>4, <1>6, <1>7

\* A step that gathers nothing sees the same packs.
LEMMA SamePacks ==
    ASSUME UNCHANGED <<reader, packs, k>>
    PROVE  /\ Given(k)' = Given(k) /\ Deltas(k)' = Deltas(k)
           /\ \A S : Closed(S, k)' = Closed(S, k)
           /\ BasesEarlier' = BasesEarlier
<1>1. Given(k)' = Given(k) /\ Deltas(k)' = Deltas(k) /\ \A S : Closed(S, k)' = Closed(S, k)
  BY DEF Given, Deltas, Parsed, Closed
<1>2. BasesEarlier' = BasesEarlier
  BY DEF BasesEarlier, Given, Deltas, Parsed, Closed
<1> QED
  BY <1>1, <1>2

LEMMA ApplyInv ==
    ASSUME IInv, NEW d \in todo, Apply(d)
    PROVE  IInv'
<1> USE DEF IInv
<1>1. /\ d.base \in local /\ d.result \in Objects /\ d.result # Corrupt
      /\ d \in Deltas(k)
      /\ local' = local \cup {d.result} /\ pending' = pending \ {d} /\ todo' = todo \ {d}
      /\ progress' = TRUE /\ pc' = "pass" /\ pc = "pass" /\ UNCHANGED <<reader, packs, k>>
  BY DEF Apply, TypeOK, Gathered, Delta
<1>2. TypeOK'
  BY <1>1 DEF TypeOK
<1>3. NothingInvented'
  <2> SUFFICES ASSUME NEW S \in SUBSET Objects, Closed(S, k)'
               PROVE  local' \subseteq S
    BY DEF NothingInvented
  <2>1. Closed(S, k)
    BY <1>1, SamePacks
  <2>2. local \subseteq S
    BY <2>1 DEF NothingInvented
  <2> QED
    BY <1>1, <2>1, <2>2 DEF Closed
<1>4. Gathered'
  BY <1>1, SamePacks DEF Gathered
<1>5. InStep'
  BY <1>1, SamePacks DEF InStep
<1> QED
  BY <1>2, <1>3, <1>4, <1>5

\* The steps that add nothing to local.
LEMMA QuietInv ==
    ASSUME IInv, \/ Finish \/ NextPass \/ LastPass
                 \/ \E d \in todo : Keep(d) \/ GiveUp(d)
    PROVE  IInv'
<1> USE DEF IInv
<1>1. UNCHANGED <<reader, packs, k, local>>
  BY DEF Finish, NextPass, LastPass, Keep, GiveUp
<1>2. NothingInvented'
  BY <1>1, SamePacks DEF NothingInvented
<1>3. CASE Finish
  <2>1. TypeOK' /\ Gathered'
    BY <1>1, <1>3, SamePacks DEF Finish, TypeOK, Gathered
  <2>2. InStep'
    BY <1>1, <1>3, SamePacks DEF Finish, InStep, Closed
  <2> QED
    BY <1>2, <2>1, <2>2
<1>4. CASE NextPass
  <2>1. TypeOK' /\ Gathered'
    BY <1>1, <1>4, SamePacks DEF NextPass, TypeOK, Gathered
  <2>2. InStep'
    BY <1>1, <1>4, SamePacks DEF NextPass, InStep
  <2> QED
    BY <1>2, <2>1, <2>2
<1>5. CASE LastPass
  <2>1. TypeOK' /\ Gathered'
    BY <1>1, <1>5, SamePacks DEF LastPass, TypeOK, Gathered
  <2>2. PerPack /\ BasesEarlier => Closed(local, k)
    BY <1>5 DEF LastPass, Gathered, InStep, Closed
  <2>3. Closed(local, k)' = Closed(local, k)
    BY <1>1 DEF Closed, Given, Deltas, Parsed
  <2>4. InStep'
    BY <1>1, <1>5, <2>2, <2>3, SamePacks DEF LastPass, InStep
  <2> QED
    BY <1>2, <2>1, <2>4
<1>6. ASSUME NEW d \in todo, Keep(d)
      PROVE  IInv'
  <2>1. TypeOK' /\ Gathered'
    BY <1>1, <1>6, SamePacks DEF Keep, TypeOK, Gathered
  <2>2. InStep'
    BY <1>1, <1>6, SamePacks DEF Keep, InStep
  <2> QED
    BY <1>2, <2>1, <2>2
<1>7. ASSUME NEW d \in todo, GiveUp(d)
      PROVE  IInv'
  <2>1. TypeOK' /\ Gathered'
    BY <1>1, <1>7, SamePacks DEF GiveUp, TypeOK, Gathered
  <2>2. InStep'
    BY <1>1, <1>7, SamePacks DEF GiveUp, InStep
  <2> QED
    BY <1>2, <2>1, <2>2
<1> QED
  BY <1>3, <1>4, <1>5, <1>6, <1>7

LEMMA NextInv == IInv /\ [Next]_vars => IInv'
<1> SUFFICES ASSUME IInv, [Next]_vars
             PROVE  IInv'
  OBVIOUS
<1>1. CASE Gather
  BY <1>1, GatherInv
<1>2. CASE \E d \in todo : Apply(d)
  BY <1>2, ApplyInv
<1>3. CASE Finish \/ NextPass \/ LastPass \/ \E d \in todo : Keep(d) \/ GiveUp(d)
  BY <1>3, QuietInv
<1>4. CASE UNCHANGED vars
  <2>1. (TypeOK /\ NothingInvented /\ Gathered)'
    BY <1>4, SamePacks DEF vars, IInv, TypeOK, NothingInvented, Gathered
  <2>2. InStep'
    BY <1>4, SamePacks DEF vars, IInv, InStep, Closed
  <2> QED
    BY <2>1, <2>2 DEF IInv
<1> QED
  BY <1>1, <1>2, <1>3, <1>4 DEF Next

THEOREM Invariance == Spec => []IInv
  BY InitInv, NextInv, PTL DEF Spec

\* Type correctness of both loops.
THEOREM TypeCorrect == Spec => []TypeOK
<1>1. IInv => TypeOK
  BY DEF IInv
<1> QED
  BY <1>1, Invariance, PTL

\* Whatever packs the contract holds, both readers serve only what is in every
\* set closed under them.
THEOREM ServedWasStored == Spec => []NothingInvented
<1>1. IInv => NothingInvented
  BY DEF IInv
<1> QED
  BY <1>1, Invariance, PTL

\* The service worker's passes end only when nothing more can be had.
THEOREM WorkerServesEverything == Spec => []ServesEverything
<1>1. IInv => ServesEverything
  <2> SUFFICES ASSUME IInv, ~PerPack, pc = "done"
               PROVE  Closed(local, k)
    BY DEF ServesEverything
  <2> QED
    BY DEF IInv, Gathered, Closed
<1> QED
  BY <1>1, Invariance, PTL

\* The server serves everything when no base comes later than a delta on it.
THEOREM ServerServesInStep == Spec => []ServesIfBasesEarlier
<1>1. IInv => ServesIfBasesEarlier
  <2> SUFFICES ASSUME IInv, BasesEarlier, pc = "done"
               PROVE  Closed(local, k)
    BY DEF ServesIfBasesEarlier
  <2>1. CASE PerPack
    BY <2>1 DEF IInv, InStep
  <2>2. CASE ~PerPack
    BY <2>2 DEF IInv, Gathered, Closed
  <2> QED
    BY <2>1, <2>2
<1> QED
  BY <1>1, Invariance, PTL
=============================================================================
