-------------------------- MODULE FunctionCallProofs --------------------------
(***************************************************************************)
(* Proofs about the transactions of the service worker, for any number of  *)
(* calls, of transactions signed elsewhere and of restarts.                *)
(***************************************************************************)
EXTENDS FunctionCall, FiniteSetTheorems, TLAPS

-----------------------------------------------------------------------------
(* The inductive invariants *)

\* A call has at most one transaction that may still be executed, the one
\* signed last, and none once it was executed.
OneTransaction ==
    /\ \A t \in pool : /\ t.nonce = txNonce[t.call]
                       /\ runs[t.call] = 0
                       /\ pc[t.call] \in {"waiting", "failed", "lost"}
    /\ \A c \in Calls : pc[c] \in {"idle", "query", "sent", "refused"} => runs[c] = 0
    /\ \A c \in Calls : runs[c] > 0 => result[c] # "none"

CallInv == TypeOK /\ ExecutedAtMostOnce /\ AnswersAreTrue /\ OneTransaction

\* While the key is the instance's alone, one call is live at a time and no
\* nonce is above lastUsed; that of a call about to be broadcast is lastUsed
\* itself, and above all others.
Alone ==
    clean =>
      /\ \A c, d \in Calls : pc[c] \in Live /\ pc[d] \in Live => c = d
      /\ \A n \in seen : n <= lastUsed
      /\ \A t \in pool : t.nonce <= lastUsed
      /\ \A c \in Calls : pc[c] = "sent" =>
            /\ txNonce[c] = lastUsed
            /\ \A n \in seen : n < lastUsed
            /\ \A t \in pool : t.nonce < lastUsed

AloneInv == TypeOK /\ Alone /\ SequentialCallsNeverCollide

\* The nonces the key has had below n.
Below(n) == {m \in seen : 0 < m /\ m < n}

\* Each retry is paid for by a nonce of somebody else's transaction.
Paid ==
    /\ IsFiniteSet(seen)
    /\ \A c \in Calls : pc[c] \in {"idle", "query"} => attempt[c] = 0
    /\ \A c \in Calls : pc[c] = "sent" =>
          txNonce[c] > 0 /\ Cardinality(Below(txNonce[c])) >= attempt[c]

PaidInv == TypeOK /\ Paid /\ RefusedOnlyIfOvertaken

-----------------------------------------------------------------------------
(* Type correctness *)

LEMMA InitType == Init => TypeOK
  BY CallConstants DEF Init, TypeOK, MaxRetries, Live, Ended

LEMMA NextType == TypeOK /\ [Next]_vars => TypeOK'
<1> SUFFICES ASSUME TypeOK, [Next]_vars
             PROVE  TypeOK'
  OBVIOUS
<1> USE DEF TypeOK, Live, Ended, worker, chain, MaxRetries
<1>1. ASSUME NEW c \in Calls, Start(c) \/ Answer(c) \/ OtherError(c)
      PROVE  TypeOK'
  BY <1>1 DEF Start, Answer, OtherError
<1>2. ASSUME NEW c \in Calls, Sign(c)
      PROVE  TypeOK'
  BY <1>2 DEF Sign, Larger
<1>3. ASSUME NEW c \in Calls, InvalidNonce(c)
      PROVE  TypeOK'
  <2>1. PICK v \in seen : Resign(c, v) \/ PassOn(c)
    BY <1>3 DEF InvalidNonce
  <2>2. v \in Nat /\ UNCHANGED <<chain, clean, foreign, restarts>>
    BY <1>3 DEF InvalidNonce
  <2>3. CASE Resign(c, v)
    BY <2>2, <2>3 DEF Resign
  <2>4. CASE PassOn(c)
    BY <2>2, <2>4 DEF PassOn
  <2> QED
    BY <2>1, <2>3, <2>4
<1>4. ASSUME NEW c \in Calls, Forward(c)
      PROVE  TypeOK'
  BY <1>4 DEF Forward
<1>5. ASSUME NEW t \in pool, Execute(t)
      PROVE  TypeOK'
  <2>1. t.call \in Calls /\ t.nonce \in Nat /\ t.nonce > ak
    BY <1>5 DEF Execute
  <2>2. ak' \in Nat /\ seen' \subseteq 0..ak'
    <3>1. ak' = t.nonce /\ seen' = seen \cup {t.nonce}
      BY <1>5 DEF Execute
    <3>2. ak \in Nat /\ seen \subseteq 0..ak
      OBVIOUS
    <3> HIDE DEF TypeOK
    <3>3. ASSUME NEW n \in seen'
          PROVE  n \in 0..ak'
      <4>1. CASE n \in seen
        <5>1. n \in Nat /\ n <= ak
          BY <3>2, <4>1
        <5> QED
          BY <2>1, <3>1, <3>2, <5>1
      <4>2. CASE n = t.nonce
        BY <2>1, <3>1, <4>2
      <4> QED
        BY <3>1, <3>3, <4>1, <4>2
    <3> QED
      BY <2>1, <3>1, <3>3
  <2>3. runs' \in [Calls -> Nat] /\ result' \in [Calls -> {"none", "value", "panic"}]
    BY <1>5, <2>1 DEF Execute
  <2> QED
    BY <1>5, <2>2, <2>3 DEF Execute
<1>6. ASSUME NEW t \in pool, Drop(t)
      PROVE  TypeOK'
  BY <1>6 DEF Drop
<1>7. CASE Restart
  <2>1. restarts' \in 0..MaxRestarts
    BY <1>7, CallConstants DEF Restart
  <2>2. pc' \in [Calls -> {"idle"} \cup Live \cup Ended]
    BY <1>7 DEF Restart
  <2> QED
    BY <1>7, <2>1, <2>2 DEF Restart
<1>8. CASE Foreign
  <2>1. foreign' \in 0..MaxForeign
    BY <1>8, CallConstants DEF Foreign
  <2>2. ak' \in Nat /\ seen' \subseteq 0..ak'
    BY <1>8 DEF Foreign
  <2> QED
    BY <1>8, <2>1, <2>2 DEF Foreign
<1>9. CASE UNCHANGED vars
  BY <1>9 DEF vars
<1> QED
  BY <1>1, <1>2, <1>3, <1>4, <1>5, <1>6, <1>7, <1>8, <1>9 DEF Next

\* Type correctness of the service worker's calls.
THEOREM TypeCorrect == Spec => []TypeOK
  BY InitType, NextType, PTL DEF Spec

-----------------------------------------------------------------------------
(* Executed at most once *)

LEMMA InitCall == Init => CallInv
<1> SUFFICES ASSUME Init
             PROVE  CallInv
  OBVIOUS
<1>1. TypeOK
  BY InitType
<1>2. ExecutedAtMostOnce /\ AnswersAreTrue /\ OneTransaction
  BY DEF Init, ExecutedAtMostOnce, AnswersAreTrue, OneTransaction
<1> QED
  BY <1>1, <1>2 DEF CallInv

LEMMA NextCall == CallInv /\ [Next]_vars => CallInv'
<1> SUFFICES ASSUME CallInv, [Next]_vars
             PROVE  CallInv'
  OBVIOUS
<1> USE DEF CallInv, ExecutedAtMostOnce, AnswersAreTrue, OneTransaction, Live,
            worker, chain
<1>1. TypeOK /\ TypeOK'
  BY NextType
<1>2. ASSUME NEW c \in Calls, Start(c)
      PROVE  CallInv'
  BY <1>1, <1>2 DEF Start, TypeOK
<1>3. ASSUME NEW c \in Calls, Sign(c)
      PROVE  CallInv'
  BY <1>1, <1>3 DEF Sign, TypeOK
<1>4. ASSUME NEW c \in Calls, InvalidNonce(c)
      PROVE  CallInv'
  BY <1>1, <1>4 DEF InvalidNonce, Resign, PassOn, TypeOK
<1>5. ASSUME NEW c \in Calls, Answer(c)
      PROVE  CallInv'
  BY <1>1, <1>5 DEF Answer, TypeOK
<1>6. ASSUME NEW c \in Calls, OtherError(c)
      PROVE  CallInv'
  BY <1>1, <1>6 DEF OtherError, TypeOK
<1>7. ASSUME NEW c \in Calls, Forward(c)
      PROVE  CallInv'
  BY <1>1, <1>7 DEF Forward, TypeOK
<1>8. ASSUME NEW t \in pool, Execute(t)
      PROVE  CallInv'
  <2>1. t.call \in Calls /\ runs[t.call] = 0 /\ pc[t.call] \in {"waiting", "failed", "lost"}
    BY <1>1 DEF TypeOK
  <2>2. runs' = [runs EXCEPT ![t.call] = 1] /\ pool' = pool \ {t} /\ UNCHANGED <<pc, txNonce>>
    BY <1>1, <1>8, <2>1 DEF Execute, TypeOK
  <2>3. \A u \in pool' : u.call # t.call
    BY <1>1, <2>2 DEF TypeOK
  <2>4. /\ \A c \in Calls : c # t.call => result'[c] = result[c]
        /\ result'[t.call] # "none"
    BY <1>1, <1>8 DEF Execute, TypeOK
  <2> QED
    BY <1>1, <2>1, <2>2, <2>3, <2>4 DEF TypeOK
<1>9. ASSUME NEW t \in pool, Drop(t)
      PROVE  CallInv'
  BY <1>1, <1>9 DEF Drop, TypeOK
<1>10. CASE Restart
  BY <1>1, <1>10 DEF Restart, TypeOK
<1>11. CASE Foreign
  BY <1>1, <1>11 DEF Foreign, TypeOK
<1>12. CASE UNCHANGED vars
  BY <1>1, <1>12 DEF vars, TypeOK
<1> QED
  BY <1>2, <1>3, <1>4, <1>5, <1>6, <1>7, <1>8, <1>9, <1>10, <1>11, <1>12 DEF Next

\* However many retries, restarts and lost answers: a call is executed at most
\* once.
THEOREM AtMostOnce == Spec => []ExecutedAtMostOnce
<1>1. CallInv => ExecutedAtMostOnce
  BY DEF CallInv
<1> QED
  BY <1>1, InitCall, NextCall, PTL DEF Spec

\* What a caller is told of the execution of its call is so.
THEOREM Honest == Spec => []AnswersAreTrue
<1>1. CallInv => AnswersAreTrue
  BY DEF CallInv
<1> QED
  BY <1>1, InitCall, NextCall, PTL DEF Spec

-----------------------------------------------------------------------------
(* One call at a time *)

LEMMA InitAlone == Init => AloneInv
<1> SUFFICES ASSUME Init
             PROVE  AloneInv
  OBVIOUS
<1>1. TypeOK
  BY InitType
<1>2. Alone /\ SequentialCallsNeverCollide
  BY DEF Init, Alone, SequentialCallsNeverCollide, Live
<1> QED
  BY <1>1, <1>2 DEF AloneInv

LEMMA NextAlone == AloneInv /\ [Next]_vars => AloneInv'
<1> SUFFICES ASSUME AloneInv, [Next]_vars, clean'
             PROVE  AloneInv'
  BY NextType DEF AloneInv, Alone, SequentialCallsNeverCollide
<1> USE DEF AloneInv, Alone, SequentialCallsNeverCollide, Live, worker, chain
<1>1. TypeOK /\ TypeOK'
  BY NextType
<1>2. ASSUME NEW c \in Calls, Start(c)
      PROVE  AloneInv'
  BY <1>1, <1>2 DEF Start, TypeOK
<1>3. ASSUME NEW c \in Calls, Sign(c)
      PROVE  AloneInv'
  <2>1. PICK v \in seen : /\ txNonce' = [txNonce EXCEPT ![c] = Larger(v, lastUsed) + 1]
                          /\ lastUsed' = Larger(v, lastUsed) + 1
    BY <1>3 DEF Sign
  <2>2. clean /\ v \in Nat /\ v <= lastUsed /\ lastUsed' = lastUsed + 1
    BY <1>1, <1>3, <2>1 DEF Sign, Larger, TypeOK
  <2>3. txNonce' = [txNonce EXCEPT ![c] = lastUsed + 1]
    BY <2>1, <2>2 DEF Larger
  <2>4. UNCHANGED <<seen, pool, attempt>> /\ pc' = [pc EXCEPT ![c] = "sent"] /\ pc[c] = "query"
    BY <1>3 DEF Sign
  <2>5. \A d \in Calls : pc'[d] \in Live => d = c
    BY <1>1, <2>2, <2>4 DEF TypeOK
  <2> QED
    BY <1>1, <2>2, <2>3, <2>4, <2>5 DEF TypeOK
<1>4. ASSUME NEW c \in Calls, InvalidNonce(c)
      PROVE  AloneInv'
  BY <1>1, <1>4 DEF InvalidNonce, TypeOK
<1>5. ASSUME NEW c \in Calls, Answer(c)
      PROVE  AloneInv'
  BY <1>1, <1>5 DEF Answer, TypeOK
<1>6. ASSUME NEW c \in Calls, OtherError(c)
      PROVE  AloneInv'
  BY <1>1, <1>6 DEF OtherError, TypeOK
<1>7. ASSUME NEW c \in Calls, Forward(c)
      PROVE  AloneInv'
  BY <1>1, <1>7 DEF Forward, TypeOK
<1>8. ASSUME NEW t \in pool, Execute(t)
      PROVE  AloneInv'
  BY <1>1, <1>8 DEF Execute, TypeOK
<1>9. ASSUME NEW t \in pool, Drop(t)
      PROVE  AloneInv'
  BY <1>1, <1>9 DEF Drop, TypeOK
<1>10. CASE Restart \/ Foreign
  BY <1>10 DEF Restart, Foreign
<1>11. CASE UNCHANGED vars
  BY <1>1, <1>11 DEF vars, TypeOK
<1> QED
  BY <1>2, <1>3, <1>4, <1>5, <1>6, <1>7, <1>8, <1>9, <1>10, <1>11 DEF Next

\* A worker alone with its key, one call at a time, never has a nonce refused.
THEOREM NoCollision == Spec => []SequentialCallsNeverCollide
<1>1. AloneInv => SequentialCallsNeverCollide
  BY DEF AloneInv
<1> QED
  BY <1>1, InitAlone, NextAlone, PTL DEF Spec

-----------------------------------------------------------------------------
(* Refused only if overtaken *)

LEMMA InitPaid == Init => PaidInv
<1> SUFFICES ASSUME Init
             PROVE  PaidInv
  OBVIOUS
<1>1. TypeOK
  BY InitType
<1>2. IsFiniteSet(seen)
  BY FS_Singleton DEF Init
<1>3. Paid /\ RefusedOnlyIfOvertaken
  BY <1>2 DEF Init, Paid, RefusedOnlyIfOvertaken
<1> QED
  BY <1>1, <1>3 DEF PaidInv

\* A nonce at or above n is one more below the next.
LEMMA OneMoreBelow ==
    ASSUME IsFiniteSet(seen), seen \subseteq Nat, NEW n \in Nat, n > 0,
           NEW v \in seen, n <= v
    PROVE  /\ Cardinality(Below(n)) \in Nat
           /\ Cardinality(Below(v + 1)) >= Cardinality(Below(n)) + 1
           /\ Cardinality(seen \ {0}) >= Cardinality(Below(n)) + 1
<1> DEFINE S == Below(n) \cup {v}
<1>1. IsFiniteSet(Below(n)) /\ v \notin Below(n)
  BY FS_Subset DEF Below
<1>2. IsFiniteSet(S) /\ Cardinality(S) = Cardinality(Below(n)) + 1
  BY <1>1, FS_AddElement
<1>3. IsFiniteSet(Below(v + 1)) /\ S \subseteq Below(v + 1)
  <2>1. \A m \in S : m \in seen /\ 0 < m /\ m < v + 1
    BY DEF Below
  <2>2. S \subseteq Below(v + 1) /\ Below(v + 1) \subseteq seen
    BY <2>1 DEF Below
  <2> QED
    BY <2>2, FS_Subset
<1>4. IsFiniteSet(seen \ {0}) /\ S \subseteq seen \ {0}
  BY FS_Subset DEF Below
<1>5. Cardinality(S) <= Cardinality(Below(v + 1))
  BY <1>3, FS_Subset
<1>6. Cardinality(S) <= Cardinality(seen \ {0})
  BY <1>4, FS_Subset
<1>7. /\ Cardinality(Below(n)) \in Nat
      /\ Cardinality(Below(v + 1)) \in Nat
      /\ Cardinality(seen \ {0}) \in Nat
  BY <1>1, <1>3, <1>4, FS_CardinalityType
<1> QED
  BY <1>2, <1>5, <1>6, <1>7

\* More nonces seen are more below each.
LEMMA Grows ==
    ASSUME IsFiniteSet(seen), NEW n, seen' = seen \cup {n}
    PROVE  /\ IsFiniteSet(seen')
           /\ \A m \in Nat : Cardinality(Below(m)') >= Cardinality(Below(m))
           /\ Cardinality(seen' \ {0}) >= Cardinality(seen \ {0})
<1>1. IsFiniteSet(seen')
  BY FS_AddElement
<1>2. ASSUME NEW S, NEW T, IsFiniteSet(T), S \subseteq T
      PROVE  Cardinality(T) >= Cardinality(S)
  <2>1. IsFiniteSet(S) /\ Cardinality(S) <= Cardinality(T)
    BY <1>2, FS_Subset
  <2>2. Cardinality(S) \in Nat /\ Cardinality(T) \in Nat
    BY <1>2, <2>1, FS_CardinalityType
  <2> QED
    BY <2>1, <2>2
<1>3. ASSUME NEW m \in Nat
      PROVE  Cardinality(Below(m)') >= Cardinality(Below(m))
  <2>1. IsFiniteSet(Below(m)') /\ Below(m) \subseteq Below(m)'
    BY <1>1, FS_Subset DEF Below
  <2> QED
    BY <1>2, <2>1
<1>4. IsFiniteSet(seen' \ {0}) /\ seen \ {0} \subseteq seen' \ {0}
  BY <1>1, FS_Subset
<1>5. Cardinality(seen' \ {0}) >= Cardinality(seen \ {0})
  BY <1>2, <1>4
<1> QED
  BY <1>1, <1>3, <1>5

LEMMA NextPaid == PaidInv /\ [Next]_vars => PaidInv'
<1> SUFFICES ASSUME PaidInv, [Next]_vars
             PROVE  PaidInv'
  OBVIOUS
<1> USE DEF PaidInv, Paid, RefusedOnlyIfOvertaken
<1>1. TypeOK /\ TypeOK'
  BY NextType
<1>2. \A m \in Nat : Cardinality(Below(m)) \in Nat
  <2> TAKE m \in Nat
  <2>1. IsFiniteSet(Below(m))
    BY FS_Subset DEF Below
  <2> QED
    BY <2>1, FS_CardinalityType
<1>0. seen' = seen => \A m : Below(m)' = Below(m)
  BY DEF Below
<1>3. ASSUME UNCHANGED <<seen, pc, txNonce, attempt>>
      PROVE  PaidInv'
  BY <1>1, <1>3 DEF Below
<1>4. ASSUME NEW n, seen' = seen \cup {n}, UNCHANGED <<pc, txNonce, attempt>>
      PROVE  PaidInv'
  <2>1. \A c \in Calls : txNonce[c] \in Nat /\ attempt[c] \in Nat
    BY <1>1 DEF TypeOK, MaxRetries
  <2>2. /\ IsFiniteSet(seen')
        /\ \A m \in Nat : Cardinality(Below(m)') >= Cardinality(Below(m))
        /\ Cardinality(seen' \ {0}) >= Cardinality(seen \ {0})
    BY <1>4, Grows
  <2>3. \A m \in Nat : Cardinality(Below(m)') \in Nat
    <3> TAKE m \in Nat
    <3>1. IsFiniteSet(Below(m)')
      BY <2>2, FS_Subset DEF Below
    <3> QED
      BY <3>1, FS_CardinalityType
  <2>4. Cardinality(seen \ {0}) \in Nat /\ Cardinality(seen' \ {0}) \in Nat
    BY <2>2, FS_Subset, FS_CardinalityType
  <2>5. ASSUME NEW c \in Calls, pc'[c] = "sent"
        PROVE  txNonce'[c] > 0 /\ Cardinality(Below(txNonce[c])') >= attempt'[c]
    BY <1>2, <1>4, <2>1, <2>2, <2>3, <2>5
  <2>6. RefusedOnlyIfOvertaken'
    BY <1>4, <2>2, <2>4
  <2> QED
    BY <1>1, <1>4, <2>2, <2>5, <2>6
<1>5. ASSUME NEW c \in Calls, Start(c) \/ Answer(c) \/ OtherError(c) \/ Forward(c)
      PROVE  PaidInv'
  BY <1>1, <1>5 DEF Start, Answer, OtherError, Forward, chain, TypeOK, Below
<1>6. ASSUME NEW c \in Calls, Sign(c)
      PROVE  PaidInv'
  <2>1. /\ seen' = seen /\ attempt' = attempt /\ attempt[c] = 0
        /\ pc[c] = "query" /\ pc' = [pc EXCEPT ![c] = "sent"]
        /\ \A d \in Calls : d # c => txNonce'[d] = txNonce[d]
        /\ txNonce'[c] \in Nat /\ txNonce'[c] > 0
    BY <1>1, <1>6 DEF Sign, Larger, TypeOK, chain, MaxRetries
  <2> QED
    <3>1. IsFiniteSet(seen') /\ RefusedOnlyIfOvertaken'
      BY <2>1 DEF TypeOK
    <3>2. ASSUME NEW d \in Calls, pc'[d] = "sent"
          PROVE  txNonce'[d] > 0 /\ Cardinality(Below(txNonce'[d])) >= attempt'[d]
      <4>1. CASE d = c
        BY <1>2, <2>1, <4>1
      <4>2. CASE d # c
        BY <2>1, <3>2, <4>2 DEF TypeOK
      <4> QED
        BY <4>1, <4>2
    <3>3. \A d \in Calls : pc'[d] \in {"idle", "query"} => attempt'[d] = 0
      BY <1>1, <2>1 DEF TypeOK
    <3> QED
      BY <1>0, <1>1, <2>1, <3>1, <3>2, <3>3
<1>7. ASSUME NEW c \in Calls, InvalidNonce(c)
      PROVE  PaidInv'
  <2>1. PICK v \in seen : txNonce[c] <= v /\ (Resign(c, v) \/ PassOn(c))
    BY <1>7 DEF InvalidNonce
  <2>2. /\ Cardinality(Below(txNonce[c])) \in Nat
        /\ Cardinality(Below(v + 1)) >= Cardinality(Below(txNonce[c])) + 1
        /\ Cardinality(seen \ {0}) >= Cardinality(Below(txNonce[c])) + 1
    <3>1. txNonce[c] \in Nat /\ txNonce[c] > 0 /\ seen \subseteq Nat /\ txNonce[c] <= v
      BY <1>1, <1>7, <2>1 DEF InvalidNonce, TypeOK
    <3> QED
      BY <3>1, OneMoreBelow
  <2>3. /\ attempt[c] \in 0..2 /\ Cardinality(Below(txNonce[c])) >= attempt[c]
        /\ v \in Nat /\ UNCHANGED seen
    BY <1>1, <1>7 DEF InvalidNonce, TypeOK, MaxRetries, chain
  <2>4. Cardinality(Below(v + 1)) \in Nat /\ Cardinality(seen \ {0}) \in Nat
    <3>1. IsFiniteSet(seen) /\ Below(v + 1) \subseteq seen /\ seen \ {0} \subseteq seen
      BY <1>2 DEF Below
    <3>2. IsFiniteSet(Below(v + 1)) /\ IsFiniteSet(seen \ {0})
      BY <3>1, FS_Subset
    <3> QED
      BY <3>2, FS_CardinalityType
  <2>5. CASE Resign(c, v)
    <3>1. /\ pc' = pc /\ pc[c] = "sent" /\ txNonce' = [txNonce EXCEPT ![c] = v + 1]
          /\ attempt' = [attempt EXCEPT ![c] = @ + 1]
      BY <1>7, <2>5 DEF Resign, InvalidNonce
    <3>2. ASSUME NEW d \in Calls, pc'[d] = "sent"
          PROVE  txNonce'[d] > 0 /\ Cardinality(Below(txNonce'[d])) >= attempt'[d]
      <4>1. CASE d = c
        BY <1>1, <2>2, <2>3, <2>4, <3>1, <4>1 DEF TypeOK
      <4>2. CASE d # c
        BY <1>1, <3>1, <3>2, <4>2 DEF TypeOK
      <4> QED
        BY <4>1, <4>2
    <3>3. \A d \in Calls : pc'[d] \in {"idle", "query"} => attempt'[d] = 0
      BY <1>1, <3>1 DEF TypeOK
    <3> QED
      BY <1>0, <1>1, <2>3, <3>1, <3>2, <3>3
  <2>6. CASE PassOn(c)
    <3>1. Cardinality(seen \ {0}) >= 3
      BY <2>2, <2>3, <2>4, <2>6 DEF PassOn, MaxRetries
    <3> QED
      BY <1>1, <2>3, <2>6, <3>1 DEF PassOn, TypeOK, Below
  <2> QED
    BY <2>1, <2>5, <2>6
<1>8. ASSUME NEW t \in pool, Execute(t)
      PROVE  PaidInv'
  BY <1>4, <1>8 DEF Execute, worker
<1>9. ASSUME NEW t \in pool, Drop(t)
      PROVE  PaidInv'
  BY <1>3, <1>9 DEF Drop, worker
<1>10. CASE Restart
  BY <1>1, <1>10 DEF Restart, TypeOK, chain, Below
<1>11. CASE Foreign
  BY <1>4, <1>11 DEF Foreign, worker
<1>12. CASE UNCHANGED vars
  BY <1>3, <1>12 DEF vars, worker, chain
<1> QED
  BY <1>5, <1>6, <1>7, <1>8, <1>9, <1>10, <1>11, <1>12 DEF Next

\* A call is refused for good only if three other transactions with the key
\* were executed.
THEOREM Overtaken == Spec => []RefusedOnlyIfOvertaken
<1>1. PaidInv => RefusedOnlyIfOvertaken
  BY DEF PaidInv
<1> QED
  BY <1>1, InitPaid, NextPaid, PTL DEF Spec
=============================================================================
