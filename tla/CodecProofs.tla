----------------------------- MODULE CodecProofs -----------------------------
(***************************************************************************)
(* Proofs about pkt-lines, deltas and packs for any radices, any lines and *)
(* any contents: what is written is read back.                             *)
(***************************************************************************)
EXTENDS Codec, SequenceTheorems, Induction, TLAPS

-----------------------------------------------------------------------------
(* Numbers *)

\* A number is its high digits and its low one.
LEMMA Division ==
    ASSUME NEW r \in Nat, r > 1, NEW n \in Nat
    PROVE  /\ n \div r \in Nat /\ n % r \in 0..(r - 1)
           /\ n = r * (n \div r) + (n % r)
           /\ n > 0 => n \div r < n
           /\ n < r => n \div r = 0 /\ n % r = n
<1> DEFINE q == n \div r
           d == n % r
<1>1. q \in Nat /\ d \in 0..(r - 1) /\ n = r * q + d
  OBVIOUS
<1>2. n > 0 => q < n
  OBVIOUS
<1> HIDE DEF q, d
<1>3. n < r => q = 0
  <2>1. q >= 1 => r * q >= r
    BY <1>1
  <2>2. r * q \in Nat
    BY <1>1
  <2> QED BY <1>1, <2>1, <2>2
<1>4. n < r => d = n
  BY <1>1, <1>3
<1>5. /\ q \in Nat /\ d \in 0..(r - 1)
      /\ n = r * q + d
      /\ n > 0 => q < n
      /\ n < r => q = 0 /\ d = n
  BY <1>1, <1>2, <1>3, <1>4
<1> QED BY <1>5 DEF q, d

\* A number below a multiple of the radix has high digits below the factor.
LEMMA HighDigits ==
    ASSUME NEW r \in Nat, r > 1, NEW n \in Nat, NEW m \in Nat, n < r * m
    PROVE  n \div r < m
<1> DEFINE q == n \div r
<1>1. q \in Nat /\ r * q <= n
  BY Division
<1> HIDE DEF q
<1>2. q >= m => r * q >= r * m
  BY <1>1
<1>3. r * q \in Nat /\ r * m \in Nat
  BY <1>1
<1> QED BY <1>1, <1>2, <1>3 DEF q

\* The digits of a number are those it was made of.
LEMMA Composed ==
    ASSUME NEW r \in Nat, r > 1, NEW q \in Nat, NEW d \in 0..(r - 1)
    PROVE  (r * q + d) \div r = q /\ (r * q + d) % r = d
<1> DEFINE n == r * q + d
           u == n \div r
           e == n % r
<1>1. n \in Nat
  OBVIOUS
<1>2. u \in Nat /\ e \in 0..(r - 1) /\ n = r * u + e
  <2> HIDE DEF n
  <2> QED BY <1>1, Division
<1>3. r * q + d = r * u + e
  BY <1>2
<1> HIDE DEF u, e
<1>4. ~(u < q)
  <2> SUFFICES ASSUME u + 1 <= q PROVE FALSE
    BY <1>2
  <2>1. r * (u + 1) <= r * q /\ r * (u + 1) = r * u + r
    BY <1>2
  <2> QED BY <1>2, <1>3, <2>1
<1>5. ~(q < u)
  <2> SUFFICES ASSUME q + 1 <= u PROVE FALSE
    BY <1>2
  <2>1. r * (q + 1) <= r * u /\ r * (q + 1) = r * q + r
    BY <1>2
  <2> QED BY <1>2, <1>3, <2>1
<1>6. u = q
  BY <1>2, <1>4, <1>5
<1>7. e = d
  BY <1>2, <1>3, <1>6
<1> QED BY <1>6, <1>7 DEF u, e, n

-----------------------------------------------------------------------------
(* Places in a sequence *)

\* The sequence w is in data behind pos.
At(data, pos, w) == pos + Len(w) <= Len(data) /\ \A k \in 1..Len(w) : data[pos + k] = w[k]

\* What is in one sequence and then another is in both.
LEMMA AtConcat ==
    ASSUME NEW D, NEW data \in Seq(D), NEW pos \in Nat, NEW u \in Seq(D), NEW w \in Seq(D),
           At(data, pos, u \o w)
    PROVE  At(data, pos, u) /\ At(data, pos + Len(u), w)
<1>1. Len(u) \in Nat /\ Len(w) \in Nat /\ Len(data) \in Nat /\ Len(u \o w) = Len(u) + Len(w)
  BY LenProperties, ConcatProperties
<1>2. \A k \in 1..Len(u) : data[pos + k] = u[k]
  <2>1. \A k \in 1..Len(u) : k \in 1..(Len(u) + Len(w)) /\ k <= Len(u)
    BY <1>1
  <2>2. \A k \in 1..Len(u) : (u \o w)[k] = u[k]
    BY <2>1, ConcatProperties
  <2> QED BY <1>1, <2>1, <2>2 DEF At
<1>3. ASSUME NEW k \in 1..Len(w) PROVE data[(pos + Len(u)) + k] = w[k]
  <2>1. Len(u) + k \in 1..(Len(u) + Len(w)) /\ ~(Len(u) + k <= Len(u)) /\ (Len(u) + k) - Len(u) = k
    BY <1>1
  <2>2. data[pos + (Len(u) + k)] = (u \o w)[Len(u) + k]
    BY <1>1, <2>1 DEF At
  <2>3. (u \o w)[Len(u) + k] = w[k]
    BY <2>1, ConcatProperties
  <2>4. pos + (Len(u) + k) = (pos + Len(u)) + k
    BY <1>1
  <2> QED BY <2>2, <2>3, <2>4
<1>4. pos + Len(u) <= Len(data) /\ (pos + Len(u)) + Len(w) <= Len(data)
  BY <1>1 DEF At
<1> QED BY <1>2, <1>3, <1>4 DEF At

\* What is in a sequence is its part there.
LEMMA AtSubSeq ==
    ASSUME NEW D, NEW data \in Seq(D), NEW pos \in Nat, NEW w \in Seq(D), At(data, pos, w)
    PROVE  SubSeq(data, pos + 1, pos + Len(w)) = w
<1> DEFINE part == SubSeq(data, pos + 1, pos + Len(w))
<1>1. Len(w) \in Nat /\ Len(data) \in Nat /\ \A i \in 1..Len(data) : data[i] \in D
  BY LenProperties, ElementOfSeq
<1>2. pos + 1 \in Int /\ pos + Len(w) \in Int /\ \A i \in (pos + 1)..(pos + Len(w)) : data[i] \in D
  BY <1>1 DEF At
<1>3. /\ part \in Seq(D) /\ Len(part) = Len(w)
      /\ \A i \in 1..((pos + Len(w)) - (pos + 1) + 1) : part[i] = data[(pos + 1) + i - 1]
  <2>1. Len(w) = IF pos + 1 <= pos + Len(w) THEN (pos + Len(w)) - (pos + 1) + 1 ELSE 0
    BY <1>1
  <2> QED BY <1>2, <2>1, SubSeqProperties
<1>4. ASSUME NEW i \in 1..Len(w) PROVE part[i] = w[i]
  <2>1. i \in 1..((pos + Len(w)) - (pos + 1) + 1) /\ (pos + 1) + i - 1 = pos + i
    BY <1>1
  <2>2. part[i] = data[pos + i]
    BY <1>3, <2>1
  <2> QED BY <2>2 DEF At
<1> HIDE DEF part
<1>5. part = w
  BY <1>3, <1>4, SeqEqual
<1> QED BY <1>5 DEF part

-----------------------------------------------------------------------------
(* pkt-lines *)

\* The length in front of a line is the one that was written.
LEMMA LengthWritten ==
    ASSUME NEW n \in Nat, n <= Longest + 4, NEW data, NEW pos \in Nat,
           \A k \in 1..4 : data[pos + k] = Digits4(n)[k]
    PROVE  LengthAt(data, pos) = n
<1> USE PktLineConstants
<1> DEFINE w == n \div Hex
           x == w \div Hex
           y == x \div Hex
<1>1. w \in Nat /\ n = Hex * w + (n % Hex)
  BY Division
<1>2. x \in Nat /\ w = Hex * x + (w % Hex)
  <2> HIDE DEF w
  <2> QED BY <1>1, Division
<1>3. y \in Nat /\ x = Hex * y + (x % Hex)
  <2> HIDE DEF x
  <2> QED BY <1>2, Division
<1>4. y % Hex = y
  <2>1. Hex * Hex \in Nat /\ Hex * Hex * Hex \in Nat /\ n < Hex * (Hex * Hex * Hex)
    BY DEF Longest
  <2>2. w < Hex * Hex * Hex
    BY <2>1, HighDigits
  <2>3. w < Hex * (Hex * Hex)
    BY <2>1, <2>2
  <2>4. x < Hex * Hex
    <3> HIDE DEF w
    <3> QED BY <1>1, <2>1, <2>3, HighDigits
  <2>5. y < Hex
    <3> HIDE DEF x
    <3> QED BY <1>2, <2>4, HighDigits
  <2> HIDE DEF y
  <2> QED BY <1>3, <2>5, Division
<1>5. /\ data[pos + 1] = <<"digit", y % Hex>> /\ data[pos + 2] = <<"digit", x % Hex>>
      /\ data[pos + 3] = <<"digit", w % Hex>> /\ data[pos + 4] = <<"digit", n % Hex>>
  BY DEF Digits4
<1> HIDE DEF w, x, y
<1>6. LengthAt(data, pos) = ((y * Hex + (x % Hex)) * Hex + (w % Hex)) * Hex + (n % Hex)
  <2>1. \A i \in 1..4 : data[pos + i][1] = "digit"
    BY <1>5
  <2>2. /\ data[pos + 1][2] = y /\ data[pos + 2][2] = x % Hex
        /\ data[pos + 3][2] = w % Hex /\ data[pos + 4][2] = n % Hex
    BY <1>4, <1>5
  <2> QED BY <2>1, <2>2 DEF LengthAt
<1>7. y * Hex = Hex * y /\ x * Hex = Hex * x /\ w * Hex = Hex * w
  BY <1>1, <1>2, <1>3
<1> QED BY <1>1, <1>2, <1>3, <1>6, <1>7

\* What Lines does at one place, if f is what it gives behind it.
LinesStep(f, data, pos) ==
    LET len == LengthAt(data, pos)
    IN  IF pos + 4 > Len(data) THEN [lines |-> <<>>, next |-> pos]
        ELSE IF len = 0 THEN [lines |-> <<>>, next |-> pos + 4]
        ELSE IF len < 4 \/ ~Complete(data, pos, len) THEN [lines |-> <<>>, next |-> pos]
        ELSE [f[pos + len] EXCEPT !.lines = <<SubSeq(data, pos + 5, pos + len)>> \o @]

\* A length is a number.
LEMMA LengthType ==
    ASSUME NEW D, \A b \in D : IsByte(b), NEW data \in Seq(D), NEW pos \in Nat, pos + 4 <= Len(data)
    PROVE  LengthAt(data, pos) \in Nat
<1> USE PktLineConstants
<1>1. Len(data) \in Nat /\ \A i \in 1..4 : pos + i \in 1..Len(data)
  BY LenProperties
<1>2. \A i \in 1..4 : data[pos + i] \in D
  BY <1>1, ElementOfSeq
<1>3. CASE \A i \in 1..4 : data[pos + i][1] = "digit"
  <2>1. \A i \in 1..4 : data[pos + i][2] \in Nat
    BY <1>2, <1>3 DEF IsByte
  <2> DEFINE d1 == data[pos + 1][2]
             d2 == data[pos + 2][2]
             d3 == data[pos + 3][2]
             d4 == data[pos + 4][2]
  <2>2. d1 \in Nat /\ d2 \in Nat /\ d3 \in Nat /\ d4 \in Nat
    BY <2>1
  <2>3. LengthAt(data, pos) = ((d1 * Hex + d2) * Hex + d3) * Hex + d4
    BY <1>3 DEF LengthAt
  <2> HIDE DEF d1, d2, d3, d4
  <2> QED BY <2>2, <2>3
<1>4. CASE ~(\A i \in 1..4 : data[pos + i][1] = "digit")
  BY <1>4 DEF LengthAt
<1> QED BY <1>3, <1>4

\* The recursion of Lines has a function that satisfies it.
LEMMA LinesDef ==
    ASSUME NEW D, \A b \in D : IsByte(b), NEW data \in Seq(D)
    PROVE  \A pos \in 0..Len(data) : Lines(data)[pos] = LinesStep(Lines(data), data, pos)
<1> DEFINE S == 0..Len(data)
           V == [lines : Seq(Seq(D)), next : Nat]
           m == [pos \in S |-> Len(data) - pos]
           len(pos) == LengthAt(data, pos)
           reads(pos) == pos + 4 <= Len(data) /\ len(pos) # 0 /\ len(pos) >= 4 /\ Complete(data, pos, len(pos))
           G == [pos \in S |-> [f \in [S -> V] |-> LinesStep(f, data, pos)]]
<1>0. Len(data) \in Nat /\ \A i \in 1..Len(data) : data[i] \in D
  BY LenProperties, ElementOfSeq
<1>1. \A pos \in S : pos + 4 <= Len(data) => len(pos) \in Nat
  BY <1>0, LengthType
<1>2. ASSUME NEW pos \in S, reads(pos)
      PROVE  pos + len(pos) \in S /\ m[pos + len(pos)] < m[pos]
  BY <1>0, <1>1, <1>2 DEF Complete
<1>3. ASSUME NEW pos \in S, reads(pos) PROVE SubSeq(data, pos + 5, pos + len(pos)) \in Seq(D)
  <2>1. pos + 5 \in Int /\ pos + len(pos) \in Int
        /\ \A i \in (pos + 5)..(pos + len(pos)) : i \in 1..Len(data)
    BY <1>0, <1>1, <1>3 DEF Complete
  <2> QED BY <1>0, <2>1, SubSeqProperties
<1>4. \A pos \in S : \A f : LinesStep(f, data, pos) =
          IF pos + 4 > Len(data) THEN [lines |-> <<>>, next |-> pos]
          ELSE IF len(pos) = 0 THEN [lines |-> <<>>, next |-> pos + 4]
          ELSE IF ~reads(pos) THEN [lines |-> <<>>, next |-> pos]
          ELSE [f[pos + len(pos)] EXCEPT !.lines = <<SubSeq(data, pos + 5, pos + len(pos))>> \o @]
  BY <1>0, <1>1 DEF LinesStep
<1> HIDE DEF reads, len
<1>5. ASSUME NEW pos \in S, NEW f \in [S -> V] PROVE LinesStep(f, data, pos) \in V
  <2>1. \A n \in Nat : [lines |-> <<>>, next |-> n] \in V
    BY EmptySeq
  <2>2. CASE reads(pos)
    <3> DEFINE r == f[pos + len(pos)]
               line == SubSeq(data, pos + 5, pos + len(pos))
    <3>1. r \in V /\ line \in Seq(D)
      BY <1>2, <1>3, <2>2
    <3> HIDE DEF r, line
    <3>2. <<line>> \in Seq(Seq(D))
      BY <3>1
    <3>3. <<line>> \o r.lines \in Seq(Seq(D))
      BY <3>1, <3>2, ConcatProperties
    <3>4. [r EXCEPT !.lines = <<line>> \o @] \in V
      BY <3>1, <3>3
    <3>5. LinesStep(f, data, pos) = [r EXCEPT !.lines = <<line>> \o @]
      <4>1. ~(pos + 4 > Len(data)) /\ len(pos) # 0
        BY <1>0, <2>2 DEF reads
      <4> HIDE DEF V
      <4> QED BY <1>4, <2>2, <4>1 DEF r, line
    <3> QED BY <3>4, <3>5
  <2>3. CASE ~reads(pos)
    <3>1. pos \in Nat /\ pos + 4 \in Nat
      BY <1>0
    <3> HIDE DEF V
    <3> QED BY <1>4, <2>1, <2>3, <3>1
  <2> QED BY <2>2, <2>3
<1>6. G \in [S -> [[S -> V] -> V]]
  <2> HIDE DEF V, S
  <2> QED BY <1>5
<1>7. ASSUME NEW pos \in S, NEW f \in [S -> V], NEW g \in [S -> V],
             \A q \in S : m[q] < m[pos] => f[q] = g[q]
      PROVE  G[pos][f] = G[pos][g]
  <2>1. reads(pos) => f[pos + len(pos)] = g[pos + len(pos)]
    BY <1>2, <1>7
  <2>2. LinesStep(f, data, pos) = LinesStep(g, data, pos)
    <3> HIDE DEF V, S
    <3> QED BY <1>4, <2>1
  <2> HIDE DEF V, S
  <2> QED BY <2>2
<1>8. IsRecursion(S, V, m, G)
  <2>1. (\A pos \in S : m[pos] \in Nat) /\ V # {}
    <3>1. [lines |-> <<>>, next |-> 0] \in V
      BY EmptySeq
    <3>2. \A pos \in S : Len(data) - pos \in Nat
      BY <1>0
    <3> QED BY <3>1, <3>2
  <2> HIDE DEF S, V, m, G
  <2> QED BY <1>6, <1>7, <2>1 DEF IsRecursion
<1>9. PICK f \in [S -> V] : \A pos \in S : f[pos] = G[pos][f]
  <2> HIDE DEF S, V, m, G
  <2> QED BY <1>8, RecursiveFunction
<1>10. f = [pos \in S |-> LinesStep(f, data, pos)]
  <2> HIDE DEF S, V
  <2> QED BY <1>9
<1> HIDE DEF V, G, m
<1>11. Lines(data) = CHOOSE g : g = [pos \in 0..Len(data) |-> LinesStep(g, data, pos)]
  BY Zenon DEF Lines, LinesStep
<1>12. Lines(data) = [pos \in S |-> LinesStep(Lines(data), data, pos)]
  BY <1>10, <1>11, Zenon
<1> QED BY <1>12

\* The sequences one after the other, up to each.
LEMMA FlattenDef ==
    ASSUME NEW D, NEW seqs \in Seq(Seq(D))
    PROVE  \E flat \in [0..Len(seqs) -> Seq(D)] :
              /\ flat[0] = <<>> /\ flat[Len(seqs)] = FlattenSeq(seqs)
              /\ \A i \in 1..Len(seqs) : flat[i] = flat[i - 1] \o seqs[i]
<1> DEFINE S == 1..Len(seqs)
           V == Seq(D)
           m == [i \in S |-> i]
           part(f, i) == IF i = 1 THEN seqs[i] ELSE f[i - 1] \o seqs[i]
           G == [i \in S |-> [f \in [S -> V] |-> part(f, i)]]
<1>0. Len(seqs) \in Nat /\ (\A i \in S : seqs[i] \in V) /\ <<>> \in V
  BY LenProperties, ElementOfSeq, EmptySeq
<1>1. \A i \in S : i # 1 => i - 1 \in S /\ m[i - 1] < m[i]
  BY <1>0
<1>2. ASSUME NEW i \in S, NEW f \in [S -> V] PROVE part(f, i) \in V
  <2>1. i # 1 => f[i - 1] \o seqs[i] \in V
    BY <1>0, <1>1, ConcatProperties
  <2> HIDE DEF V, S
  <2> QED BY <1>0, <2>1
<1>3. G \in [S -> [[S -> V] -> V]]
  <2> HIDE DEF V, S, part
  <2> QED BY <1>2
<1>4. ASSUME NEW i \in S, NEW f \in [S -> V], NEW g \in [S -> V],
             \A j \in S : m[j] < m[i] => f[j] = g[j]
      PROVE  G[i][f] = G[i][g]
  <2>1. part(f, i) = part(g, i)
    BY <1>1, <1>4
  <2> HIDE DEF V, S, part
  <2> QED BY <2>1
<1>5. IsRecursion(S, V, m, G)
  <2>1. (\A i \in S : m[i] \in Nat) /\ V # {}
    BY <1>0
  <2> HIDE DEF S, V, m, G
  <2> QED BY <1>3, <1>4, <2>1 DEF IsRecursion
<1>6. PICK f \in [S -> V] : \A i \in S : f[i] = G[i][f]
  <2> HIDE DEF S, V, m, G
  <2> QED BY <1>5, RecursiveFunction
<1>7. f = [i \in S |-> part(f, i)]
  <2> HIDE DEF S, V, part
  <2> QED BY <1>6
<1> DEFINE h == CHOOSE g : g = [i \in S |-> part(g, i)]
<1>8. h = [i \in S |-> part(h, i)]
  BY <1>7, Zenon
<1>9. Len(seqs) # 0 => FlattenSeq(seqs) = h[Len(seqs)]
  BY Zenon DEF FlattenSeq
<1> HIDE DEF h, G, m
<1>10. \A i \in S : h[i] = part(h, i)
  BY <1>8
<1> DEFINE P == {n \in Nat : n \in S => h[n] \in V}
<1>11. 0 \in P /\ \A n \in Nat : n \in P => n + 1 \in P
  <2>1. 0 \in P
    BY <1>0
  <2>2. ASSUME NEW n \in Nat, n \in P, n + 1 \in S PROVE h[n + 1] \in V
    <3>1. CASE n = 0
      BY <1>0, <1>10, <2>2, <3>1
    <3>2. CASE n # 0
      <4>1. n \in S /\ (n + 1) - 1 = n /\ n + 1 # 1
        BY <1>0, <2>2, <3>2
      <4>2. h[n + 1] = h[n] \o seqs[n + 1]
        BY <1>10, <2>2, <4>1
      <4> QED BY <1>0, <2>2, <4>1, <4>2, ConcatProperties
    <3> QED BY <3>1, <3>2
  <2> QED BY <2>1, <2>2
<1>12. \A i \in S : h[i] \in V
  <2> HIDE DEF P
  <2>1. Nat \subseteq P
    BY <1>11, NaturalInduction
  <2> QED BY <2>1, <1>0 DEF P
<1> DEFINE flat == [i \in 0..Len(seqs) |-> IF i = 0 THEN <<>> ELSE h[i]]
<1>13. \A i \in 0..Len(seqs) : i # 0 => i \in S
  BY <1>0
<1>14. flat \in [0..Len(seqs) -> Seq(D)]
  <2> HIDE DEF S
  <2> QED BY <1>0, <1>12, <1>13
<1>15. flat[0] = <<>> /\ 0 \in 0..Len(seqs) /\ Len(seqs) \in 0..Len(seqs)
  BY <1>0
<1>16. flat[Len(seqs)] = FlattenSeq(seqs)
  <2>1. CASE Len(seqs) = 0
    <3>1. seqs = <<>>
      BY <2>1, EmptySeq
    <3>2. FlattenSeq(seqs) = seqs
      BY <2>1 DEF FlattenSeq
    <3> QED BY <1>15, <2>1, <3>1, <3>2
  <2>2. CASE Len(seqs) # 0
    BY <1>9, <1>15, <2>2
  <2> QED BY <2>1, <2>2
<1>17. ASSUME NEW i \in S PROVE flat[i] = flat[i - 1] \o seqs[i]
  <2>1. flat[i] = h[i] /\ (i # 1 => flat[i - 1] = h[i - 1]) /\ (i = 1 => flat[i - 1] = <<>>)
    BY <1>0
  <2>2. <<>> \o seqs[i] = seqs[i]
    BY <1>0, ConcatEmptySeq
  <2> QED BY <1>10, <2>1, <2>2
<1> HIDE DEF flat
<1> QED BY <1>14, <1>15, <1>16, <1>17

\* Lines as long as a line can be and a flush, whatever is behind them, are
\* read as they were written (encode, flush, read_until_flush).
THEOREM RequestRead ==
    ASSUME NEW D, \A b \in D : IsByte(b), \A d \in 0..(Hex - 1) : <<"digit", d>> \in D,
           NEW lines \in Seq(Seq(D)), \A i \in 1..Len(lines) : Len(lines[i]) <= Longest,
           NEW rest \in Seq(D)
    PROVE  ReadUntilFlush(FlattenSeq([i \in 1..Len(lines) |-> Encode(lines[i])]) \o Flush \o rest)
              = [lines |-> lines, rest |-> rest]
<1> USE PktLineConstants
<1> DEFINE n == Len(lines)
           enc == [i \in 1..n |-> Encode(lines[i])]
           data == FlattenSeq(enc) \o Flush \o rest
<1>0. n \in Nat /\ \A i \in 1..n : lines[i] \in Seq(D) /\ Len(lines[i]) \in Nat
  BY LenProperties, ElementOfSeq
<1>1. \A k \in Nat : Digits4(k) \in Seq(D) /\ Len(Digits4(k)) = 4
  <2> TAKE k \in Nat
  <2> DEFINE w == k \div Hex
             x == w \div Hex
             y == x \div Hex
  <2>1. w \in Nat /\ k % Hex \in 0..(Hex - 1)
    BY Division
  <2>2. x \in Nat /\ w % Hex \in 0..(Hex - 1)
    <3> HIDE DEF w
    <3> QED BY <2>1, Division
  <2>3. y \in Nat /\ x % Hex \in 0..(Hex - 1)
    <3> HIDE DEF x
    <3> QED BY <2>2, Division
  <2>4. y % Hex \in 0..(Hex - 1)
    <3> HIDE DEF y
    <3> QED BY <2>3, Division
  <2>5. Digits4(k) = << <<"digit", y % Hex>>, <<"digit", x % Hex>>, <<"digit", w % Hex>>, <<"digit", k % Hex>> >>
    BY DEF Digits4
  <2> HIDE DEF w, x, y
  <2> QED BY <2>1, <2>2, <2>3, <2>4, <2>5
<1>2. Flush = Digits4(0) /\ Flush \in Seq(D) /\ Len(Flush) = 4
  <2>1. 0 \div Hex = 0 /\ 0 % Hex = 0
    BY Division
  <2>2. Digits4(0) = << <<"digit", 0>>, <<"digit", 0>>, <<"digit", 0>>, <<"digit", 0>> >>
    BY <2>1, Zenon DEF Digits4
  <2>3. Flush = << <<"digit", 0>>, <<"digit", 0>>, <<"digit", 0>>, <<"digit", 0>> >>
    BY DEF Flush
  <2> QED BY <1>1, <2>2, <2>3
<1>3. \A i \in 1..n : enc[i] = Digits4(Len(lines[i]) + 4) \o lines[i]
  BY DEF Encode, LineLength
<1>4. \A i \in 1..n : enc[i] \in Seq(D) /\ Len(enc[i]) = Len(lines[i]) + 4
  <2> TAKE i \in 1..n
  <2>1. Len(lines[i]) + 4 \in Nat
    BY <1>0
  <2>2. Digits4(Len(lines[i]) + 4) \in Seq(D) /\ Len(Digits4(Len(lines[i]) + 4)) = 4
    BY <1>1, <2>1
  <2> DEFINE u == Digits4(Len(lines[i]) + 4)
             w == lines[i]
  <2>3. enc[i] = u \o w /\ u \in Seq(D) /\ w \in Seq(D) /\ Len(u) = 4 /\ Len(w) \in Nat
    BY <1>0, <1>3, <2>2
  <2> HIDE DEF enc, u
  <2> HIDE DEF w
  <2>5. u \o w \in Seq(D)
    BY <2>3, ConcatProperties
  <2>6. Len(u \o w) = Len(u) + Len(w)
    BY <2>3, ConcatProperties
  <2>4. enc[i] \in Seq(D) /\ Len(enc[i]) = Len(u) + Len(w)
    BY <2>3, <2>5, <2>6
  <2>7. Len(w) = Len(lines[i]) /\ Len(lines[i]) \in Nat
    BY <1>0 DEF w
  <2> QED BY <2>3, <2>4, <2>7
<1>5. enc \in Seq(Seq(D)) /\ Len(enc) = n
  BY <1>0, <1>4
<1> HIDE DEF enc
<1>6. PICK flat \in [0..n -> Seq(D)] :
         /\ flat[0] = <<>> /\ flat[n] = FlattenSeq(enc)
         /\ \A i \in 1..n : flat[i] = flat[i - 1] \o enc[i]
  <2> HIDE DEF n
  <2>1. \E flat \in [0..Len(enc) -> Seq(D)] :
           /\ flat[0] = <<>> /\ flat[Len(enc)] = FlattenSeq(enc)
           /\ \A i \in 1..Len(enc) : flat[i] = flat[i - 1] \o enc[i]
    BY <1>5, FlattenDef
  <2> QED BY <1>5, <2>1
<1>7. \A i \in 0..n : flat[i] \in Seq(D) /\ Len(flat[i]) \in Nat
  BY <1>6, LenProperties
<1>8. n \in 0..n /\ 0 \in 0..n
  BY <1>0
<1> DEFINE end == Len(flat[n]) + 4
<1>9. /\ data \in Seq(D) /\ Len(data) = end + Len(rest) /\ Len(rest) \in Nat
      /\ At(data, 0, flat[n]) /\ At(data, Len(flat[n]), Flush) /\ At(data, end, rest)
  <2> DEFINE v == flat[n]
             u == v \o Flush
  <2>0. v \in Seq(D) /\ v = FlattenSeq(enc) /\ end = Len(v) + 4
    BY <1>6, <1>7, <1>8
  <2>1. data = u \o rest
    BY <2>0
  <2> HIDE DEF v, data, end
  <2>10. u \in Seq(D) /\ Len(u) = end
    <3>1. u \in Seq(D) /\ Len(u) = Len(v) + Len(Flush)
      <4>1. Flush \in Seq(D)
        BY <1>2
      <4> HIDE DEF u
      <4> QED BY <2>0, <4>1, ConcatProperties DEF u
    <3> HIDE DEF u
    <3> QED BY <1>2, <2>0, <3>1
  <2>2. data \in Seq(D) /\ Len(data) = end + Len(rest) /\ Len(rest) \in Nat
    <3> HIDE DEF u
    <3> QED BY <2>1, <2>10, ConcatProperties, LenProperties
  <2>3. At(data, 0, data)
    BY <2>2, LenProperties DEF At
  <2>4. At(data, 0, u) /\ At(data, 0 + Len(u), rest)
    <3> HIDE DEF u
    <3> QED BY <2>1, <2>2, <2>3, <2>10, AtConcat
  <2>5. At(data, 0, v) /\ At(data, 0 + Len(v), Flush)
    BY <1>2, <2>0, <2>2, <2>4, AtConcat
  <2>6. 0 + Len(v) = Len(v) /\ 0 + Len(u) = end
    BY <2>0, <2>10, LenProperties
  <2> QED BY <2>2, <2>4, <2>5, <2>6 DEF v
<1> HIDE DEF data
<1> DEFINE A == {k \in Nat : k <= n => At(data, 0, flat[n - k])}
<1>10. \A i \in 0..n : At(data, 0, flat[i])
  <2>1. 0 \in A
    BY <1>0, <1>9
  <2>2. ASSUME NEW k \in Nat, k \in A, k + 1 <= n PROVE At(data, 0, flat[n - (k + 1)])
    <3>1. n - k \in 1..n /\ n - (k + 1) \in 0..n /\ (n - k) - 1 = n - (k + 1) /\ k <= n
      BY <1>0, <2>2
    <3> DEFINE u == flat[n - (k + 1)]
               w == enc[n - k]
    <3>2. u \in Seq(D) /\ w \in Seq(D) /\ flat[n - k] = u \o w
      BY <1>4, <1>6, <1>7, <3>1
    <3>3. At(data, 0, u \o w)
      BY <2>2, <3>1, <3>2
    <3> HIDE DEF u, w
    <3>4. At(data, 0, u)
      BY <1>9, <3>2, <3>3, AtConcat
    <3> QED BY <3>4 DEF u
  <2>3. ASSUME NEW k \in Nat, k \in A PROVE k + 1 \in A
    <3>1. k + 1 <= n => At(data, 0, flat[n - (k + 1)])
      <4> HIDE DEF A
      <4> QED BY <2>2, <2>3
    <3>2. k + 1 \in Nat
      OBVIOUS
    <3> QED BY <3>1, <3>2
  <2> HIDE DEF A
  <2>4. Nat \subseteq A
    BY <2>1, <2>3, NaturalInduction
  <2>5. \A i \in 0..n : n - i \in Nat /\ n - i <= n /\ n - (n - i) = i
    BY <1>0
  <2> QED BY <2>4, <2>5 DEF A
<1>11. ASSUME NEW i \in 1..n
       PROVE  /\ i - 1 \in 0..n /\ Len(flat[i]) = Len(flat[i - 1]) + Len(lines[i]) + 4
              /\ At(data, Len(flat[i - 1]), enc[i]) /\ Len(flat[i]) <= Len(data)
  <2>1. i \in 0..n /\ i - 1 \in 0..n
    BY <1>0
  <2> DEFINE u == flat[i - 1]
             w == enc[i]
             v == flat[i]
             l == Len(lines[i])
  <2>2. /\ v = u \o w /\ v \in Seq(D) /\ u \in Seq(D) /\ w \in Seq(D)
        /\ Len(u) \in Nat /\ Len(w) = l + 4 /\ l \in Nat
    BY <1>0, <1>4, <1>6, <1>7, <2>1
  <2>3. At(data, 0, v)
    BY <1>10, <2>1
  <2> HIDE DEF u, w, v, l
  <2>4. At(data, 0 + Len(u), w)
    BY <1>9, <2>2, <2>3, AtConcat
  <2>5. Len(v) = Len(u) + Len(w)
    BY <2>2, ConcatProperties
  <2>6. Len(v) <= Len(data)
    BY <2>2, <2>3, <2>5 DEF At
  <2>7. 0 + Len(u) = Len(u) /\ Len(v) = Len(u) + l + 4
    BY <2>2, <2>5
  <2> QED BY <2>1, <2>4, <2>6, <2>7 DEF u, w, v, l
<1>12. \A pos \in 0..Len(data) : Lines(data)[pos] = LinesStep(Lines(data), data, pos)
  BY <1>9, LinesDef
<1> DEFINE got(i) == [lines |-> SubSeq(lines, i + 1, n), next |-> end]
           B == {k \in Nat : k <= n => Lines(data)[Len(flat[n - k])] = got(n - k)}
<1>13. 0 \in B
  <2> DEFINE pos == Len(flat[n])
  <2>1. pos \in 0..Len(data) /\ pos \in Nat /\ ~(pos + 4 > Len(data)) /\ Len(data) \in Nat
    BY <1>7, <1>8, <1>9
  <2>2. 0 <= Longest + 4 /\ \A k \in 1..4 : data[pos + k] = Digits4(0)[k]
    <3>1. 0 <= Longest + 4
      <4>1. \A a, b \in Nat : a >= 1 /\ b >= 1 => a * b \in Nat /\ a * b >= 1
        OBVIOUS
      <4>2. Hex * Hex \in Nat /\ Hex * Hex >= 1
        BY <4>1
      <4>3. (Hex * Hex) * (Hex * Hex) >= 1
        BY <4>1, <4>2
      <4>4. (Hex * Hex) * (Hex * Hex) \in Nat
        BY <4>2
      <4>5. Longest + 4 = (Hex * Hex) * (Hex * Hex) - 1
        BY DEF Longest
      <4> QED BY <4>3, <4>4, <4>5
    <3>2. \A k \in 1..4 : data[pos + k] = Flush[k]
      BY <1>2, <1>9 DEF At
    <3> QED BY <1>2, <3>1, <3>2
  <2>3. LengthAt(data, pos) = 0
    BY <2>1, <2>2, LengthWritten
  <2>4. Lines(data)[pos] = [lines |-> <<>>, next |-> pos + 4]
    <3>1. Lines(data)[pos] = LinesStep(Lines(data), data, pos)
      BY <1>12, <2>1
    <3> QED BY <2>1, <2>3, <3>1 DEF LinesStep
  <2>5. SubSeq(lines, n + 1, n) = <<>>
    BY <1>0, SubSeqEmpty
  <2>6. n - 0 = n
    BY <1>0
  <2> QED BY <2>4, <2>5, <2>6
<1>14. ASSUME NEW k \in Nat, k \in B, k + 1 <= n PROVE Lines(data)[Len(flat[n - (k + 1)])] = got(n - (k + 1))
  <2> DEFINE i == n - k
             pos == Len(flat[i - 1])
             line == lines[i]
             len == Len(line) + 4
             u == Digits4(len)
  <2>1. i \in 1..n /\ i \in 0..n /\ i - 1 \in 0..n /\ n - (k + 1) = i - 1 /\ k <= n
    BY <1>0, <1>14
  <2>2. Lines(data)[Len(flat[i])] = got(i)
    BY <1>14, <2>1
  <2> HIDE DEF i
  <2>3. /\ pos \in Nat /\ len \in Nat /\ Len(line) \in Nat /\ line \in Seq(D) /\ Len(line) <= Longest
        /\ Len(flat[i]) = pos + len /\ pos + len <= Len(data) /\ Len(data) \in Nat
    <3>1. Len(data) \in Nat
      BY <1>9, LenProperties
    <3>2. pos \in Nat /\ Len(line) \in Nat /\ line \in Seq(D) /\ Len(line) <= Longest
      BY <1>0, <1>7, <2>1
    <3>3. Len(flat[i]) = pos + Len(line) + 4 /\ Len(flat[i]) <= Len(data)
      BY <1>11, <2>1
    <3> HIDE DEF pos, line
    <3> QED BY <3>1, <3>2, <3>3
  <2>4. At(data, pos, u \o line)
    BY <1>3, <1>11, <2>1
  <2>5. u \in Seq(D) /\ Len(u) = 4
    BY <1>1, <2>3
  <2> HIDE DEF pos, line, u
  <2>6. At(data, pos, u) /\ At(data, pos + 4, line)
    BY <1>9, <2>3, <2>4, <2>5, AtConcat
  <2>7. LengthAt(data, pos) = len
    <3>1. len <= Longest + 4 /\ len \in Nat
      <4>1. Longest \in Int
        BY DEF Longest
      <4> QED BY <2>3, <4>1
    <3>2. \A j \in 1..4 : data[pos + j] = Digits4(len)[j]
      BY <2>5, <2>6 DEF At, u
    <3> HIDE DEF len
    <3> QED BY <2>3, <3>1, <3>2, LengthWritten
  <2>10. SubSeq(data, pos + 5, pos + len) = line
    <3>1. pos + 4 \in Nat
      BY <2>3
    <3>2. SubSeq(data, (pos + 4) + 1, (pos + 4) + Len(line)) = line
      BY <1>9, <2>3, <2>6, <3>1, AtSubSeq
    <3>3. (pos + 4) + 1 = pos + 5 /\ (pos + 4) + Len(line) = pos + len
      BY <2>3
    <3> QED BY <3>2, <3>3
  <2>8. Lines(data)[pos] = [got(i) EXCEPT !.lines = <<line>> \o @]
    <3>1. pos \in 0..Len(data) /\ ~(pos + 4 > Len(data)) /\ len # 0 /\ ~(len < 4)
      BY <2>3
    <3>2. Complete(data, pos, len)
      BY <2>3 DEF Complete
    <3>3. Lines(data)[pos] = LinesStep(Lines(data), data, pos)
      BY <1>12, <3>1
    <3>4. Lines(data)[pos + len] = got(i)
      BY <2>2, <2>3
    <3> HIDE DEF len, got
    <3> QED BY <2>7, <2>10, <3>1, <3>2, <3>3, <3>4 DEF LinesStep
  <2>9. SubSeq(lines, (i - 1) + 1, n) = <<line>> \o SubSeq(lines, i + 1, n)
    <3>1. n \in i..n /\ (i - 1) + 1 = i
      BY <1>0, <2>1
    <3> QED BY <2>1, <3>1, SubSeqRecursiveFirst DEF line
  <2> QED BY <2>1, <2>8, <2>9 DEF pos
<1>15. Lines(data)[0] = [lines |-> lines, next |-> end]
  <2>1. ASSUME NEW k \in Nat, k \in B PROVE k + 1 \in B
    <3>1. k + 1 <= n => Lines(data)[Len(flat[n - (k + 1)])] = got(n - (k + 1))
      <4> HIDE DEF B
      <4> QED BY <1>14, <2>1
    <3>2. k + 1 \in Nat
      OBVIOUS
    <3> QED BY <3>1, <3>2
  <2>2. Nat \subseteq B
    <3> HIDE DEF B
    <3> QED BY <1>13, <2>1, NaturalInduction
  <2>3. n - n = 0 /\ n <= n /\ 0 + 1 = 1
    BY <1>0
  <2>4. Lines(data)[Len(flat[0])] = got(0)
    BY <1>0, <2>2, <2>3
  <2>5. Len(flat[0]) = 0
    BY <1>6, EmptySeq
  <2>6. SubSeq(lines, 0 + 1, n) = lines
    BY <2>3, SubSeqFull
  <2> QED BY <2>4, <2>5, <2>6
<1>16. SubSeq(data, end + 1, Len(data)) = rest
  <2>1. end \in Nat
    BY <1>7, <1>8
  <2> HIDE DEF end
  <2> QED BY <1>9, <2>1, AtSubSeq
<1>17. ReadUntilFlush(data) = [lines |-> lines, rest |-> rest]
  <2> HIDE DEF end
  <2>1. Lines(data)[0].lines = lines /\ Lines(data)[0].next = end
    BY <1>15
  <2>2. ReadUntilFlush(data) = [lines |-> Lines(data)[0].lines,
                                rest |-> SubSeq(data, Lines(data)[0].next + 1, Len(data))]
    BY Zenon DEF ReadUntilFlush
  <2> QED BY <1>16, <2>1, <2>2, Zenon
<1> QED BY <1>17 DEF data, enc

-----------------------------------------------------------------------------
(* Sizes *)

\* The recursion of encode_size.
SizeStep(f, v) == IF v < High THEN <<v>> ELSE <<(v % High) + High>> \o f[v \div High]

\* A size is at least one byte.
LEMMA EncodeSizeDef ==
    \A v \in Nat : /\ EncodeSize[v] = SizeStep(EncodeSize, v)
                    /\ EncodeSize[v] \in Seq(Nat)
<1> USE DeltaConstants
<1> DEFINE V == Seq(Nat)
           m == [v \in Nat |-> v]
           G == [v \in Nat |-> [f \in [Nat -> V] |-> SizeStep(f, v)]]
<1>1. \A v \in Nat : v >= High => v \div High \in Nat /\ m[v \div High] < m[v] /\ (v % High) + High \in Nat
  <2> TAKE v \in Nat
  <2> HAVE v >= High
  <2> DEFINE q == v \div High
             d == v % High
  <2>1. q \in Nat /\ q < v /\ d \in 0..(High - 1)
    <3>1. v > 0
      OBVIOUS
    <3> QED BY <3>1, Division
  <2> HIDE DEF q, d
  <2>2. d + High \in Nat
    BY <2>1
  <2> QED BY <2>1, <2>2 DEF q, d
<1>2. ASSUME NEW v \in Nat, NEW f \in [Nat -> V] PROVE SizeStep(f, v) \in V
  <2>1. CASE v < High
    BY <2>1 DEF SizeStep
  <2>2. CASE ~(v < High)
    <3> DEFINE d == (v % High) + High
               w == f[v \div High]
    <3>1. d \in Nat /\ w \in Seq(Nat)
      <4>1. v \div High \in Nat /\ d \in Nat
        BY <1>1, <2>2
      <4> QED BY <4>1
    <3>2. SizeStep(f, v) = <<d>> \o w
      BY <2>2 DEF SizeStep
    <3> HIDE DEF d, w
    <3>3. <<d>> \in Seq(Nat)
      BY <3>1
    <3> QED BY <3>1, <3>2, <3>3, ConcatProperties
  <2> QED BY <2>1, <2>2
<1>3. G \in [Nat -> [[Nat -> V] -> V]]
  <2> HIDE DEF V
  <2> QED BY <1>2
<1>4. ASSUME NEW v \in Nat, NEW f, NEW g, \A w \in Nat : m[w] < m[v] => f[w] = g[w]
      PROVE  SizeStep(f, v) = SizeStep(g, v)
  BY <1>1, <1>4 DEF SizeStep
<1>5. IsRecursion(Nat, V, m, G)
  <2>1. (\A v \in Nat : m[v] \in Nat) /\ V # {}
    BY EmptySeq
  <2>2. ASSUME NEW v \in Nat, NEW f \in [Nat -> V], NEW g \in [Nat -> V],
               \A w \in Nat : m[w] < m[v] => f[w] = g[w]
        PROVE  G[v][f] = G[v][g]
    <3>1. SizeStep(f, v) = SizeStep(g, v)
      BY <1>4, <2>2
    <3> HIDE DEF V
    <3> QED BY <3>1
  <2> HIDE DEF V, m, G
  <2> QED BY <1>3, <2>1, <2>2 DEF IsRecursion
<1>6. PICK f \in [Nat -> V] : \A v \in Nat : f[v] = G[v][f]
  <2> HIDE DEF V, m, G
  <2> QED BY <1>5, RecursiveFunction
<1>7. \A v \in Nat : f[v] = SizeStep(f, v)
  <2> HIDE DEF V
  <2> QED BY <1>6
<1>8. f = [v \in Nat |-> SizeStep(f, v)]
  BY <1>6, <1>7
<1>9. EncodeSize = [v \in Nat |-> SizeStep(EncodeSize, v)]
  <2>1. EncodeSize = CHOOSE g : g = [v \in Nat |-> SizeStep(g, v)]
    BY Zenon DEF EncodeSize, SizeStep
  <2> QED BY <1>8, <2>1, Zenon
<1>10. \A v \in Nat : EncodeSize[v] = SizeStep(EncodeSize, v)
  BY <1>9
<1>11. \A v \in Nat : f[v] = EncodeSize[v]
  <2> DEFINE N == Nat
  <2>1. ASSUME NEW v \in N, \A w \in N : m[w] < m[v] => f[w] = EncodeSize[w]
        PROVE  f[v] = EncodeSize[v]
    BY <1>4, <1>7, <1>10, <2>1
  <2>2. \A v \in N : m[v] \in Nat
    OBVIOUS
  <2> DEFINE P == {v \in N : f[v] = EncodeSize[v]}
  <2>3. ASSUME NEW v \in N, \A w \in N : m[w] < m[v] => w \in P PROVE v \in P
    BY <2>1, <2>3
  <2> HIDE DEF m, N, P
  <2>4. N \subseteq P
    BY <2>2, <2>3, MeasureInduction
  <2> QED BY <2>4 DEF N, P
<1> QED BY <1>6, <1>10, <1>11

\* What read_delta_size does at one place.
ReadSizeStep(f, s, p) ==
    IF p = Len(s) THEN Fail("error")
    ELSE IF s[p + 1] < High THEN Ok(s[p + 1], p + 1)
    ELSE IF f[p + 1].status = "ok" THEN Ok((s[p + 1] % High) + High * f[p + 1].value, f[p + 1].next)
    ELSE f[p + 1]

\* The recursion of read_delta_size.  What the elements of s that are not numbers
\* would give is not known, so its values have no type.
LEMMA ReadSizeDef ==
    ASSUME NEW D, NEW s \in Seq(D)
    PROVE  \E f : \A p \in 0..Len(s) : ReadSize(s, p) = f[p] /\ f[p] = ReadSizeStep(f, s, p)
<1> DEFINE n == Len(s)
           S == 0..n
           upTo(f, k) == \A p \in S : n - p <= k => f[p] = ReadSizeStep(f, s, p)
           A == {k \in Nat : \E f : upTo(f, k)}
<1>0. n \in Nat
  BY LenProperties
<1>1. ASSUME NEW p \in S, NEW f, NEW g, p # n => f[p + 1] = g[p + 1]
      PROVE  ReadSizeStep(f, s, p) = ReadSizeStep(g, s, p)
  BY <1>1 DEF ReadSizeStep
<1>2. 0 \in A
  <2> DEFINE f == [p \in S |-> Fail("error")]
  <2>1. \A p \in S : n - p <= 0 => p = n
    BY <1>0
  <2>2. n \in S /\ f[n] = Fail("error") /\ ReadSizeStep(f, s, n) = Fail("error")
    BY <1>0 DEF ReadSizeStep
  <2>3. upTo(f, 0)
    BY <2>1, <2>2
  <2> QED BY <2>3
<1>3. ASSUME NEW k \in Nat, k \in A PROVE k + 1 \in A
  <2>1. PICK f : upTo(f, k)
    BY <1>3
  <2> DEFINE g == [p \in S |-> IF n - p <= k THEN f[p] ELSE ReadSizeStep(f, s, p)]
  <2>2. ASSUME NEW p \in S, n - p <= k + 1 PROVE g[p] = ReadSizeStep(g, s, p)
    <3>1. p # n => p + 1 \in S /\ n - (p + 1) <= k
      BY <1>0, <2>2
    <3>2. p # n => f[p + 1] = g[p + 1]
      BY <3>1
    <3>3. ReadSizeStep(f, s, p) = ReadSizeStep(g, s, p)
      <4> HIDE DEF g
      <4> QED BY <1>1, <3>2
    <3>4. g[p] = ReadSizeStep(f, s, p)
      BY <2>1
    <3> QED BY <3>3, <3>4
  <2>3. upTo(g, k + 1)
    BY <2>2
  <2> HIDE DEF g, upTo
  <2> QED BY <2>3
<1>4. Nat \subseteq A
  <2> HIDE DEF A
  <2> QED BY <1>2, <1>3, NaturalInduction
<1>5. PICK f : upTo(f, n)
  BY <1>0, <1>4
<1> DEFINE g == [p \in S |-> f[p]]
<1>6. ASSUME NEW p \in S PROVE g[p] = ReadSizeStep(g, s, p)
  <2>1. p # n => p + 1 \in S
    BY <1>0
  <2>2. p # n => f[p + 1] = g[p + 1]
    BY <2>1
  <2>3. ReadSizeStep(f, s, p) = ReadSizeStep(g, s, p)
    <3> HIDE DEF g
    <3> QED BY <1>1, <2>2
  <2>4. f[p] = ReadSizeStep(f, s, p)
    BY <1>0, <1>5
  <2> QED BY <2>3, <2>4
<1>7. g = [p \in S |-> ReadSizeStep(g, s, p)]
  BY <1>6
<1> DEFINE h == CHOOSE g1 : g1 = [p \in 0..Len(s) |-> ReadSizeStep(g1, s, p)]
<1>8. h = [p \in S |-> ReadSizeStep(h, s, p)]
  <2> HIDE DEF g
  <2> QED BY <1>7, Zenon
<1>9. \A p \in S : ReadSize(s, p) = h[p]
  BY Zenon DEF ReadSize, ReadSizeStep, AndThen
<1> HIDE DEF h
<1>10. \A p \in S : h[p] = ReadSizeStep(h, s, p)
  BY <1>8
<1> QED BY <1>9, <1>10

\* A byte in front of a sequence.
LEMMA AtFirst ==
    ASSUME NEW D, NEW data \in Seq(D), NEW pos \in Nat, NEW b \in D, NEW w \in Seq(D),
           At(data, pos, <<b>> \o w)
    PROVE  pos < Len(data) /\ data[pos + 1] = b /\ At(data, pos + 1, w)
<1> DEFINE u == <<b>>
<1>1. u \in Seq(D) /\ Len(u) = 1 /\ u[1] = b
  OBVIOUS
<1> HIDE DEF u
<1>2. At(data, pos, u) /\ At(data, pos + Len(u), w)
  BY <1>1, AtConcat DEF u
<1>3. pos + 1 <= Len(data) /\ data[pos + 1] = b
  BY <1>1, <1>2 DEF At
<1>4. Len(data) \in Nat
  BY LenProperties
<1> QED BY <1>1, <1>2, <1>3, <1>4

\* A size is read as it was written (encode_size, read_delta_size).
LEMMA SizeRead ==
    ASSUME NEW D, Nat \subseteq D, NEW s \in Seq(D), NEW v \in Nat, NEW pos \in Nat, At(s, pos, EncodeSize[v])
    PROVE  ReadSize(s, pos) = Ok(v, pos + Len(EncodeSize[v]))
<1> USE DeltaConstants
<1>1. PICK f : \A p \in 0..Len(s) : ReadSize(s, p) = f[p] /\ f[p] = ReadSizeStep(f, s, p)
  BY ReadSizeDef
<1> DEFINE reads(n) == \A p \in Nat : At(s, p, EncodeSize[n]) => f[p] = Ok(n, p + Len(EncodeSize[n]))
           N == Nat
           P == {n \in N : reads(n)}
           m == [n \in N |-> n]
<1>2. ASSUME NEW n \in Nat, \A k \in Nat : k < n => reads(k) PROVE reads(n)
  <2> SUFFICES ASSUME NEW p \in Nat, At(s, p, EncodeSize[n]) PROVE f[p] = Ok(n, p + Len(EncodeSize[n]))
    OBVIOUS
  <2>1. EncodeSize[n] = SizeStep(EncodeSize, n) /\ EncodeSize[n] \in Seq(Nat)
    BY EncodeSizeDef
  <2>2. Len(s) \in Nat
    BY LenProperties
  <2>3. CASE n < High
    <3>1. EncodeSize[n] = <<n>>
      BY <2>1, <2>3 DEF SizeStep
    <3>2. p + 1 <= Len(s) /\ s[p + 1] = n
      BY <3>1 DEF At
    <3>3. p \in 0..Len(s) /\ p # Len(s)
      BY <2>2, <3>2
    <3>4. f[p] = ReadSizeStep(f, s, p)
      BY <1>1, <3>3
    <3> QED BY <2>3, <3>1, <3>2, <3>3, <3>4 DEF ReadSizeStep
  <2>4. CASE ~(n < High)
    <3> DEFINE q == n \div High
               d == n % High
               b == d + High
               w == EncodeSize[q]
    <3>1. q \in Nat /\ d \in 0..(High - 1) /\ n = High * q + d /\ q < n
      <4>1. n > 0
        BY <2>4
      <4> QED BY <4>1, Division
    <3>2. EncodeSize[n] = <<b>> \o w
      BY <2>1, <2>4 DEF SizeStep
    <3> HIDE DEF q, d
    <3>3. w \in Seq(Nat) /\ b \in Nat /\ b >= High /\ Len(w) \in Nat
      BY <3>1, EncodeSizeDef, LenProperties
    <3>4. b % High = d
      <4>1. b = High * 1 + d
        BY <3>1
      <4> HIDE DEF b
      <4> QED BY <3>1, <4>1, Composed
    <3>5. reads(q)
      BY <1>2, <3>1
    <3> HIDE DEF b
    <3>6. p < Len(s) /\ s[p + 1] = b /\ At(s, p + 1, w)
      <4>1. w \in Seq(D) /\ b \in D
        BY <3>3, SeqMonotonic
      <4> HIDE DEF w
      <4> QED BY <3>2, <4>1, AtFirst
    <3>7. f[p + 1] = Ok(q, (p + 1) + Len(w))
      <4>1. p + 1 \in Nat
        OBVIOUS
      <4> QED BY <3>5, <3>6, <4>1, Zenon
    <3>8. Len(EncodeSize[n]) = 1 + Len(w)
      <4>1. <<b>> \in Seq(Nat) /\ Len(<<b>>) = 1
        BY <3>3
      <4> HIDE DEF w
      <4> QED BY <3>2, <3>3, <4>1, ConcatProperties
    <3> HIDE DEF w
    <3>9. f[p] = Ok(d + High * q, (p + 1) + Len(w))
      <4>1. p \in 0..Len(s) /\ p # Len(s)
        BY <2>2, <3>6
      <4>2. f[p] = ReadSizeStep(f, s, p)
        BY <1>1, <4>1
      <4>3. f[p + 1].status = "ok" /\ f[p + 1].value = q /\ f[p + 1].next = (p + 1) + Len(w)
        BY <3>7 DEF Ok
      <4> QED BY <3>3, <3>4, <3>6, <4>1, <4>2, <4>3 DEF ReadSizeStep
    <3>10. d + High * q = n /\ (p + 1) + Len(w) = p + Len(EncodeSize[n])
      BY <3>1, <3>3, <3>8
    <3> QED BY <3>9, <3>10
  <2> QED BY <2>3, <2>4
<1>3. ASSUME NEW n \in N, \A k \in N : m[k] < m[n] => k \in P PROVE n \in P
  BY <1>2, <1>3
<1>4. \A n \in N : m[n] \in Nat
  OBVIOUS
<1> HIDE DEF N, P, m
<1>5. N \subseteq P
  BY <1>3, <1>4, MeasureInduction
<1>6. v \in P
  BY <1>5 DEF N
<1>7. f[pos] = Ok(v, pos + Len(EncodeSize[v]))
  BY <1>6 DEF P
<1>8. Len(s) \in Nat /\ Len(EncodeSize[v]) \in Nat /\ pos + Len(EncodeSize[v]) <= Len(s)
  BY EncodeSizeDef, LenProperties DEF At
<1>9. pos \in 0..Len(s)
  BY <1>8
<1> QED BY <1>1, <1>7, <1>9

-----------------------------------------------------------------------------
(* Copies *)

\* The recursion of emit_copy.
PresentStep(f, args, i) ==
    IF i = 8 THEN [bits |-> 0, bytes |-> <<>>]
    ELSE IF args[i] = 0 THEN [f[i + 1] EXCEPT !.bits = 2 * @]
    ELSE [bits |-> 2 * f[i + 1].bits + 1, bytes |-> <<args[i]>> \o f[i + 1].bytes]

LEMMA PresentDef ==
    ASSUME NEW args \in [1..7 -> Nat]
    PROVE  \A i \in 1..8 : /\ Present(args)[i] = PresentStep(Present(args), args, i)
                           /\ Present(args)[i] \in [bits : Nat, bytes : Seq(Nat)]
<1> DEFINE S == 1..8
           V == [bits : Nat, bytes : Seq(Nat)]
           m == [i \in S |-> 8 - i]
           G == [i \in S |-> [f \in [S -> V] |-> PresentStep(f, args, i)]]
<1>1. \A i \in S : i # 8 => i + 1 \in S /\ m[i + 1] < m[i] /\ args[i] \in Nat
  OBVIOUS
<1>2. ASSUME NEW i \in S, NEW f, i # 8 => f[i + 1] \in V PROVE PresentStep(f, args, i) \in V
  <2>1. CASE i = 8
    BY <2>1, EmptySeq DEF PresentStep
  <2>2. CASE i # 8
    <3> DEFINE r == f[i + 1]
               a == args[i]
    <3>1. r \in V /\ a \in Nat
      BY <1>1, <1>2, <2>2, SMTT(30)
    <3>2. PresentStep(f, args, i) = IF a = 0 THEN [r EXCEPT !.bits = 2 * @]
                                    ELSE [bits |-> 2 * r.bits + 1, bytes |-> <<a>> \o r.bytes]
      BY <2>2 DEF PresentStep
    <3> HIDE DEF r, a
    <3>3. <<a>> \o r.bytes \in Seq(Nat)
      <4>1. <<a>> \in Seq(Nat) /\ r.bytes \in Seq(Nat)
        BY <3>1
      <4> QED BY <4>1, ConcatProperties
    <3>4. 2 * r.bits \in Nat /\ 2 * r.bits + 1 \in Nat /\ r.bytes \in Seq(Nat)
      BY <3>1, SMTT(30)
    <3>5. [r EXCEPT !.bits = 2 * @] = [bits |-> 2 * r.bits, bytes |-> r.bytes]
      BY <3>1
    <3> DEFINE twice == 2 * r.bits
               more == 2 * r.bits + 1
               all == <<a>> \o r.bytes
    <3>6. PresentStep(f, args, i) \in {[bits |-> twice, bytes |-> r.bytes], [bits |-> more, bytes |-> all]}
      BY <3>2, <3>5
    <3>7. twice \in Nat /\ more \in Nat /\ all \in Seq(Nat) /\ r.bytes \in Seq(Nat)
      BY <3>3, <3>4
    <3> HIDE DEF twice, more, all
    <3> QED BY <3>6, <3>7, SMTT(30)
  <2> QED BY <2>1, <2>2
<1>3. G \in [S -> [[S -> V] -> V]]
  <2>1. \A i \in S : \A f \in [S -> V] : i # 8 => f[i + 1] \in V
    <3> HIDE DEF V
    <3> QED BY <1>1
  <2> HIDE DEF V, S
  <2> QED BY <1>2, <2>1
<1>4. ASSUME NEW i \in S, NEW f, NEW g, \A j \in S : m[j] < m[i] => f[j] = g[j]
      PROVE  PresentStep(f, args, i) = PresentStep(g, args, i)
  <2>1. i # 8 => f[i + 1] = g[i + 1]
    BY <1>1, <1>4
  <2> QED BY <2>1 DEF PresentStep
<1>5. IsRecursion(S, V, m, G)
  <2>1. \A i \in S : m[i] \in Nat
    OBVIOUS
  <2>2. [bits |-> 0, bytes |-> <<>>] \in V
    BY EmptySeq
  <2>3. ASSUME NEW i \in S, NEW f \in [S -> V], NEW g \in [S -> V],
               \A j \in S : m[j] < m[i] => f[j] = g[j]
        PROVE  G[i][f] = G[i][g]
    <3>1. PresentStep(f, args, i) = PresentStep(g, args, i)
      BY <1>4, <2>3
    <3> HIDE DEF S, V
    <3> QED BY <3>1
  <2> HIDE DEF S, V, m, G
  <2> QED BY <1>3, <2>1, <2>2, <2>3 DEF IsRecursion
<1>6. PICK f \in [S -> V] : \A i \in S : f[i] = G[i][f]
  <2> HIDE DEF S, V, m, G
  <2> QED BY <1>5, RecursiveFunction
<1>7. f = [i \in S |-> PresentStep(f, args, i)]
  <2> HIDE DEF S, V
  <2> QED BY <1>6
<1> DEFINE h == CHOOSE g : g = [i \in 1..8 |-> PresentStep(g, args, i)]
<1>8. h = [i \in S |-> PresentStep(h, args, i)]
  BY <1>7, Zenon
<1>9. Present(args) = h
  BY Zenon DEF Present, PresentStep
<1> HIDE DEF h
<1>10. \A i \in S : h[i] = PresentStep(h, args, i)
  BY <1>8
<1> DEFINE P == {i \in S : h[i] \in V}
<1>11. ASSUME NEW i \in S, \A j \in S : m[j] < m[i] => j \in P PROVE i \in P
  <2>1. i # 8 => h[i + 1] \in V
    BY <1>1, <1>11
  <2>2. h[i] = PresentStep(h, args, i)
    BY <1>10
  <2> HIDE DEF V, S
  <2> QED BY <1>2, <2>1, <2>2
<1>12. \A i \in S : m[i] \in Nat
  OBVIOUS
<1>13. S \subseteq P
  <2> HIDE DEF S, P, m
  <2> QED BY <1>11, <1>12, MeasureInduction
<1> QED BY <1>9, <1>10, <1>13

\* What apply_delta does at one argument.
ArgumentsStep(f, s, pos, n) ==
    IF n = 0 THEN [bits |-> s[pos + 1] - High, next |-> pos + 1, args |-> <<>>]
    ELSE [bits |-> f[n - 1].bits \div 2, next |-> f[n - 1].next + (f[n - 1].bits % 2),
          args |-> Append(f[n - 1].args,
                      IF f[n - 1].bits % 2 = 1 /\ f[n - 1].next < Len(s) THEN s[f[n - 1].next + 1] ELSE 0)]

LEMMA ArgumentsDef ==
    ASSUME NEW s \in Seq(Nat), NEW pos \in Nat, pos < Len(s), s[pos + 1] >= High
    PROVE  \A n \in 0..7 :
              /\ Arguments(s, pos)[n] = ArgumentsStep(Arguments(s, pos), s, pos, n)
              /\ Arguments(s, pos)[n].next \in Nat /\ Arguments(s, pos)[n].next > pos
              /\ Arguments(s, pos)[n].args \in Seq(Nat) /\ Len(Arguments(s, pos)[n].args) = n
<1> USE DeltaConstants
<1> DEFINE S == 0..7
           V == [bits : Nat, next : {k \in Nat : k > pos}, args : Seq(Nat)]
           m == [n \in S |-> n]
           G == [n \in S |-> [f \in [S -> V] |-> ArgumentsStep(f, s, pos, n)]]
<1>0. Len(s) \in Nat /\ \A i \in 1..Len(s) : s[i] \in Nat
  BY LenProperties, ElementOfSeq
<1>1. \A n \in S : n # 0 => n - 1 \in S /\ m[n - 1] < m[n]
  OBVIOUS
<1>2. ASSUME NEW n \in S, NEW f, n # 0 => f[n - 1] \in V PROVE ArgumentsStep(f, s, pos, n) \in V
  <2>1. CASE n = 0
    <3>1. s[pos + 1] - High \in Nat
      BY <1>0
    <3> QED BY <2>1, <3>1, EmptySeq DEF ArgumentsStep
  <2>2. CASE n # 0
    <3> DEFINE r == f[n - 1]
               next == r.next
               rbits == r.bits
               args == r.args
               a == IF rbits % 2 = 1 /\ next < Len(s) THEN s[next + 1] ELSE 0
               b == rbits \div 2
               c == rbits % 2
    <3>1. r \in V
      BY <1>2, <2>2
    <3>2. ArgumentsStep(f, s, pos, n) = [bits |-> b, next |-> next + c, args |-> Append(args, a)]
      BY <2>2 DEF ArgumentsStep
    <3>6. next \in Nat /\ next > pos /\ rbits \in Nat /\ args \in Seq(Nat)
      BY <3>1
    <3> HIDE DEF r, next, rbits, args
    <3>3. b \in Nat /\ c \in 0..1
      BY <3>6
    <3>4. a \in Nat
      BY <1>0, <3>6
    <3> HIDE DEF a, b, c
    <3>7. Append(args, a) \in Seq(Nat)
      BY <3>4, <3>6
    <3>5. next + c \in Nat /\ next + c > pos
      BY <3>3, <3>6
    <3> QED BY <3>2, <3>3, <3>5, <3>7
  <2> QED BY <2>1, <2>2
<1>3. G \in [S -> [[S -> V] -> V]]
  <2>1. \A n \in S : \A f \in [S -> V] : n # 0 => f[n - 1] \in V
    <3> HIDE DEF V
    <3> QED BY <1>1
  <2> HIDE DEF V, S
  <2> QED BY <1>2, <2>1
<1>4. ASSUME NEW n \in S, NEW f, NEW g, \A j \in S : m[j] < m[n] => f[j] = g[j]
      PROVE  ArgumentsStep(f, s, pos, n) = ArgumentsStep(g, s, pos, n)
  <2>1. n # 0 => f[n - 1] = g[n - 1]
    BY <1>1, <1>4
  <2> QED BY <2>1 DEF ArgumentsStep
<1>5. IsRecursion(S, V, m, G)
  <2>1. \A n \in S : m[n] \in Nat
    OBVIOUS
  <2>2. [bits |-> 0, next |-> pos + 1, args |-> <<>>] \in V
    BY EmptySeq
  <2>3. ASSUME NEW n \in S, NEW f \in [S -> V], NEW g \in [S -> V],
               \A j \in S : m[j] < m[n] => f[j] = g[j]
        PROVE  G[n][f] = G[n][g]
    <3>1. ArgumentsStep(f, s, pos, n) = ArgumentsStep(g, s, pos, n)
      BY <1>4, <2>3
    <3> HIDE DEF S, V
    <3> QED BY <3>1
  <2> HIDE DEF S, V, m, G
  <2> QED BY <1>3, <2>1, <2>2, <2>3 DEF IsRecursion
<1>6. PICK f \in [S -> V] : \A n \in S : f[n] = G[n][f]
  <2> HIDE DEF S, V, m, G
  <2> QED BY <1>5, RecursiveFunction
<1>7. f = [n \in S |-> ArgumentsStep(f, s, pos, n)]
  <2> HIDE DEF S, V
  <2> QED BY <1>6
<1> DEFINE h == CHOOSE g : g = [n \in 0..7 |-> ArgumentsStep(g, s, pos, n)]
<1>8. h = [n \in S |-> ArgumentsStep(h, s, pos, n)]
  BY <1>7, Zenon
<1>9. Arguments(s, pos) = h
  BY Zenon DEF Arguments, ArgumentsStep
<1> HIDE DEF h
<1>10. \A n \in S : h[n] = ArgumentsStep(h, s, pos, n)
  BY <1>8
<1> DEFINE P == {n \in S : h[n] \in V /\ Len(h[n].args) = n}
<1>11. ASSUME NEW n \in S, \A j \in S : m[j] < m[n] => j \in P PROVE n \in P
  <2>1. n # 0 => h[n - 1] \in V /\ Len(h[n - 1].args) = n - 1
    BY <1>1, <1>11
  <2>2. h[n] = ArgumentsStep(h, s, pos, n)
    BY <1>10
  <2>3. h[n] \in V
    <3> HIDE DEF V, S
    <3> QED BY <1>2, <2>1, <2>2
  <2>4. Len(h[n].args) = n
    <3>1. CASE n = 0
      BY <2>2, <3>1, EmptySeq DEF ArgumentsStep
    <3>2. CASE n # 0
      <4> DEFINE g == h[n - 1].args
                 g2 == h[n].args
      <4>1. g \in Seq(Nat) /\ Len(g) = n - 1
        BY <2>1, <3>2
      <4> DEFINE b == h[n - 1].bits \div 2
                 c == h[n - 1].next + (h[n - 1].bits % 2)
                 a == IF h[n - 1].bits % 2 = 1 /\ h[n - 1].next < Len(s) THEN s[h[n - 1].next + 1] ELSE 0
      <4>6. h[n] = [bits |-> b, next |-> c, args |-> Append(g, a)]
        BY <2>2, <3>2 DEF ArgumentsStep
      <4> HIDE DEF a, b, c, g
      <4>5. h[n].args = Append(g, a)
        BY <4>6
      <4>2. PICK x : g2 = Append(g, x)
        BY <4>5
      <4>3. g2 \in Seq(Nat)
        BY <2>3
      <4> HIDE DEF g, g2
      <4>4. Len(g2) = Len(g) + 1
        BY <4>1, <4>2, <4>3
      <4> QED BY <4>1, <4>4 DEF g2
    <3> QED BY <3>1, <3>2
  <2> QED BY <2>3, <2>4
<1>12. \A n \in S : m[n] \in Nat
  OBVIOUS
<1>13. S \subseteq P
  <2> HIDE DEF S, P, m
  <2> QED BY <1>11, <1>12, MeasureInduction
<1>14. \A n \in S : h[n] \in V /\ Len(h[n].args) = n
  BY <1>13
<1> HIDE DEF S
<1> QED BY <1>9, <1>10, <1>14 DEF S

\* A copy's command and its bytes.
Command(args) == <<High + Present(args)[1].bits>> \o Present(args)[1].bytes

\* Up to each, the arguments are read as they were written.
LEMMA ArgumentsRead ==
    ASSUME NEW args \in [1..7 -> Nat], NEW s \in Seq(Nat), NEW pos \in Nat,
           At(s, pos, Command(args))
    PROVE  LET r == Arguments(s, pos)[7]
           IN  /\ r.next = pos + Len(Command(args)) /\ r.next <= Len(s)
               /\ \A i \in 1..7 : r.args[i] = args[i]
<1> USE DeltaConstants
<1> DEFINE P == Present(args)
           A == Arguments(s, pos)
           bits == P[1].bits
           bytes == P[1].bytes
           first == High + bits
           end == pos + 1 + Len(bytes)
<1>1. \A i \in 1..8 : P[i] = PresentStep(P, args, i) /\ P[i] \in [bits : Nat, bytes : Seq(Nat)]
  BY PresentDef
<1> HIDE DEF P, A
<1>2. Len(s) \in Nat
  BY LenProperties
<1>3. bits \in Nat /\ bytes \in Seq(Nat) /\ Len(bytes) \in Nat
  <2>1. P[1] \in [bits : Nat, bytes : Seq(Nat)]
    BY <1>1
  <2> QED BY <2>1, LenProperties
<1>18. P[1].bits = bits /\ P[1].bytes = bytes /\ Command(args) = <<first>> \o bytes
  BY DEF Command, P
<1> HIDE DEF bits, bytes
<1>4. first \in Nat /\ first >= High
  BY <1>3
<1>5. pos < Len(s) /\ s[pos + 1] = first /\ At(s, pos + 1, bytes)
  <2> HIDE DEF first
  <2>1. At(s, pos, <<first>> \o bytes)
    BY <1>18
  <2> QED BY <1>3, <1>4, <2>1, AtFirst
<1>6. \A n \in 0..7 : A[n] = ArgumentsStep(A, s, pos, n)
  BY <1>4, <1>5, ArgumentsDef DEF A
<1> DEFINE read(n) == /\ A[n].bits = P[n + 1].bits /\ A[n].next \in Nat
                      /\ At(s, A[n].next, P[n + 1].bytes) /\ A[n].next + Len(P[n + 1].bytes) = end
                      /\ A[n].args \in Seq(Nat) /\ Len(A[n].args) = n
                      /\ \A i \in 1..n : A[n].args[i] = args[i]
           R == {n \in Nat : n <= 7 => read(n)}
<1>7. read(0)
  <2>1. A[0] = [bits |-> s[pos + 1] - High, next |-> pos + 1, args |-> <<>>]
    BY <1>6 DEF ArgumentsStep
  <2>2. s[pos + 1] - High = bits
    BY <1>3, <1>5
  <2>3. A[0].bits = bits /\ A[0].next = pos + 1 /\ A[0].args = <<>>
    BY <2>1, <2>2
  <2>4. 0 + 1 = 1 /\ pos + 1 \in Nat /\ <<>> \in Seq(Nat) /\ Len(<<>>) = 0
    BY EmptySeq
  <2>5. (pos + 1) + Len(bytes) = end /\ \A i \in 1..0 : FALSE
    BY <1>3
  <2> HIDE DEF first, end
  <2> QED BY <1>5, <1>18, <2>3, <2>4, <2>5
<1>8. ASSUME NEW n \in Nat, n < 7, read(n) PROVE read(n + 1)
  <2> DEFINE i == n + 1
             a == A[n]
             p == P[i]
             r == P[i + 1]
             x == args[i]
             b == r.bits
             w == r.bytes
             c == a.bits
  <2>0. i \in 1..7 /\ i \in 1..8 /\ i + 1 \in 1..8 /\ i # 8 /\ i \in 0..7 /\ i # 0 /\ i - 1 = n /\ x \in Nat
    <3>1. i \in 1..7
      BY <1>8
    <3>2. i \in 1..8 /\ i + 1 \in 1..8 /\ i # 8 /\ i \in 0..7 /\ i # 0 /\ i - 1 = n
      BY <3>1
    <3> HIDE DEF i
    <3> QED BY <3>1, <3>2
  <2>1. /\ c = p.bits /\ a.next \in Nat /\ At(s, a.next, p.bytes) /\ a.next + Len(p.bytes) = end
        /\ a.args \in Seq(Nat) /\ Len(a.args) = n /\ \A k \in 1..n : a.args[k] = args[k]
    <3> HIDE DEF end
    <3> QED BY <1>8, Zenon
  <2>2. p \in [bits : Nat, bytes : Seq(Nat)] /\ r \in [bits : Nat, bytes : Seq(Nat)]
    BY <1>1, <2>0
  <2>3. p = IF x = 0 THEN [r EXCEPT !.bits = 2 * @]
            ELSE [bits |-> 2 * r.bits + 1, bytes |-> <<x>> \o r.bytes]
    BY <1>1, <2>0 DEF PresentStep
  <2>4. A[i] = [bits |-> c \div 2, next |-> a.next + (c % 2),
                args |-> Append(a.args, IF c % 2 = 1 /\ a.next < Len(s) THEN s[a.next + 1] ELSE 0)]
    BY <1>6, <2>0 DEF ArgumentsStep
  <2> HIDE DEF a, p, r, x, read, end
  <2>5. b \in Nat /\ w \in Seq(Nat) /\ Len(w) \in Nat
    BY <2>2, LenProperties
  <2>10. x = 0 => p.bits = 2 * b /\ p.bytes = w
    BY <2>2, <2>3
  <2>11. x # 0 => p.bits = 2 * b + 1 /\ p.bytes = <<x>> \o w
    BY <2>3
  <2> DEFINE half == c \div 2
             set == c % 2
             value == IF set = 1 /\ a.next < Len(s) THEN s[a.next + 1] ELSE 0
             next == a.next + set
  <2>12. r = [bits |-> b, bytes |-> w]
    BY <2>2
  <2> HIDE DEF b, w, c
  <2>6. /\ half = b /\ value = x /\ next \in Nat
        /\ At(s, next, w) /\ next + Len(w) = end
    <3>1. CASE x = 0
      <4>1. c = 2 * b + 0
        BY <2>1, <2>5, <2>10, <3>1
      <4>2. 0 \in 0..(2 - 1) /\ 2 \in Nat /\ 2 > 1
        OBVIOUS
      <4>3. half = b /\ set = 0
        BY <2>5, <4>1, <4>2, Composed
      <4> HIDE DEF set, half
      <4>4. value = 0 /\ next = a.next
        BY <2>1, <4>3
      <4> HIDE DEF value, next
      <4> QED BY <2>1, <2>10, <3>1, <4>3, <4>4
    <3>2. CASE x # 0
      <4>1. c = 2 * b + 1 /\ p.bytes = <<x>> \o w
        BY <2>1, <2>11, <3>2
      <4>2. half = b /\ set = 1
        <5>1. 1 \in 0..(2 - 1) /\ 2 \in Nat /\ 2 > 1
          OBVIOUS
        <5> QED BY <2>5, <4>1, <5>1, Composed
      <4>3. At(s, a.next, <<x>> \o w) /\ a.next + Len(<<x>> \o w) = end
        BY <2>1, <4>1
      <4> HIDE DEF set, half
      <4>5. a.next < Len(s) /\ s[a.next + 1] = x /\ At(s, a.next + 1, w)
        BY <2>0, <2>1, <2>5, <4>3, AtFirst
      <4>6. Len(<<x>> \o w) = 1 + Len(w)
        <5>1. <<x>> \in Seq(Nat) /\ Len(<<x>>) = 1
          BY <2>0
        <5> QED BY <2>5, <5>1, ConcatProperties
      <4>7. value = x /\ next = a.next + 1
        BY <4>2, <4>5
      <4> DEFINE place == a.next
      <4>8. place \in Nat /\ place + Len(<<x>> \o w) = end /\ next = place + 1
        BY <2>1, <4>3, <4>7
      <4> HIDE DEF place, next, value
      <4>9. next \in Nat /\ next + Len(w) = end
        BY <2>5, <4>6, <4>8
      <4> QED BY <4>2, <4>5, <4>7, <4>9
    <3> QED BY <3>1, <3>2
  <2>7. A[i] = [bits |-> b, next |-> next, args |-> Append(a.args, x)]
    BY <2>4, <2>6
  <2> HIDE DEF next, value, set
  <2>8. /\ Append(a.args, x) \in Seq(Nat) /\ Len(Append(a.args, x)) = i
        /\ \A k \in 1..i : Append(a.args, x)[k] = args[k]
    <3> DEFINE g == a.args
    <3>0. g \in Seq(Nat) /\ Len(g) = n /\ x \in Nat /\ \A k \in 1..n : g[k] = args[k]
      BY <2>0, <2>1
    <3> HIDE DEF g
    <3>1. /\ Append(g, x) \in Seq(Nat) /\ Len(Append(g, x)) = i
          /\ \A k \in 1..n : Append(g, x)[k] = g[k]
          /\ Append(g, x)[i] = x
      BY <3>0, AppendProperties, SMTT(30)
    <3>2. ASSUME NEW k \in 1..i PROVE Append(g, x)[k] = args[k]
      <4>1. k = i \/ k \in 1..n
        BY <2>0
      <4> QED BY <3>0, <3>1, <4>1 DEF x
    <3> QED BY <3>1, <3>2 DEF g
  <2>9. A[i].bits = b /\ A[i].next = next /\ A[i].args = Append(a.args, x)
    BY <2>7, SMTT(30)
  <2>13. P[i + 1].bits = b /\ P[i + 1].bytes = w
    BY <2>12 DEF r
  <2> QED BY <2>6, <2>8, <2>9, <2>13 DEF read
<1>9. \A n \in Nat : n \in R => n + 1 \in R
  <2> HIDE DEF read
  <2> TAKE n \in Nat
  <2> HAVE n \in R
  <2>1. n + 1 \in Nat
    OBVIOUS
  <2>2. n + 1 <= 7 => n < 7 /\ n <= 7
    OBVIOUS
  <2>3. n <= 7 => read(n)
    OBVIOUS
  <2>4. n + 1 <= 7 => read(n + 1)
    <3> HIDE DEF R
    <3> QED BY <1>8, <2>2, <2>3
  <2> QED BY <2>1, <2>4
<1>10. 0 \in R
  BY <1>7
<1>11. read(7)
  <2> HIDE DEF R
  <2>1. 7 \in R
    BY <1>9, <1>10, NaturalInduction
  <2> HIDE DEF read
  <2> QED BY <2>1 DEF R
<1>12. P[8].bytes = <<>>
  BY <1>1, SMTT(30) DEF PresentStep
<1>13. Len(Command(args)) = 1 + Len(bytes)
  <2>1. <<first>> \in Seq(Nat) /\ Len(<<first>>) = 1
    BY <1>4
  <2> HIDE DEF first
  <2>2. Len(<<first>> \o bytes) = 1 + Len(bytes)
    BY <1>3, <2>1, ConcatProperties
  <2> QED BY <1>18, <2>2
<1>14. 7 + 1 = 8 /\ Len(P[8].bytes) = 0
  BY <1>12, EmptySeq
<1>15. A[7].next = end /\ A[7].next <= Len(s)
  <2>1. A[7].next \in Nat /\ A[7].next + 0 = end /\ A[7].next + 0 <= Len(s)
    BY <1>11, <1>14 DEF At
  <2> HIDE DEF end
  <2> QED BY <2>1
<1>16. end = pos + Len(Command(args))
  BY <1>3, <1>13
<1>17. \A i \in 1..7 : A[7].args[i] = args[i]
  BY <1>11
<1> HIDE DEF end
<1> QED BY <1>15, <1>16, <1>17 DEF A

\* Digits are those of the number.
LEMMA DigitsRead ==
    ASSUME NEW v \in Nat
    PROVE  LET d == Digits(v)
           IN  /\ d \in Seq(Nat) /\ Len(d) = 4
               /\ v < MaxSource => FromDigits(d[1], d[2], d[3], d[4]) = v
               /\ v < MaxCopy => FromDigits(d[1], d[2], d[3], 0) = v
<1> USE DeltaConstants
<1> DEFINE w == v \div Digit
           x == w \div Digit
           y == x \div Digit
           a == v % Digit
           b == w % Digit
           c == x % Digit
           e == y % Digit
<1>1. w \in Nat /\ a \in 0..(Digit - 1) /\ v = Digit * w + a
  BY Division
<1>2. x \in Nat /\ b \in 0..(Digit - 1) /\ w = Digit * x + b
  <2> HIDE DEF w
  <2> QED BY <1>1, Division
<1>3. y \in Nat /\ c \in 0..(Digit - 1) /\ x = Digit * y + c
  <2> HIDE DEF x
  <2> QED BY <1>2, Division
<1>4. e \in 0..(Digit - 1) /\ (y < Digit => e = y)
  <2> HIDE DEF y
  <2> QED BY <1>3, Division
<1>5. Digit * Digit \in Nat /\ Digit * Digit * Digit \in Nat
  OBVIOUS
<1>6. v < MaxSource => y < Digit
  <2> SUFFICES ASSUME v < MaxSource PROVE y < Digit
    OBVIOUS
  <2>1. v < Digit * (Digit * Digit * Digit)
    BY DEF MaxSource
  <2>2. w < Digit * Digit * Digit
    BY <1>5, <2>1, HighDigits
  <2>3. w < Digit * (Digit * Digit)
    BY <2>2
  <2>4. x < Digit * Digit
    <3> HIDE DEF w
    <3> QED BY <1>1, <1>5, <2>3, HighDigits
  <2> HIDE DEF x
  <2> QED BY <1>2, <2>4, HighDigits
<1>7. v < MaxCopy => x = 0
  <2> SUFFICES ASSUME v < MaxCopy PROVE x = 0
    OBVIOUS
  <2>1. v < Digit * Digit
    BY DEF MaxCopy
  <2>2. w < Digit
    BY <2>1, HighDigits
  <2> HIDE DEF w
  <2> QED BY <1>1, <2>2, Division
<1>8. Digits(v) = <<a, b, c, e>>
  BY DEF Digits
<1> HIDE DEF w, x, y, a, b, c, e
<1>9. Digits(v) \in Seq(Nat) /\ Len(Digits(v)) = 4
  <2>1. a \in Nat /\ b \in Nat /\ c \in Nat /\ e \in Nat
    BY <1>1, <1>2, <1>3, <1>4
  <2> QED BY <1>8, <2>1
<1>10. Digits(v)[1] = a /\ Digits(v)[2] = b /\ Digits(v)[3] = c /\ Digits(v)[4] = e
  BY <1>8
<1>11. v < MaxSource => FromDigits(a, b, c, e) = v
  <2> SUFFICES ASSUME v < MaxSource PROVE a + Digit * (b + Digit * (c + Digit * e)) = v
    BY DEF FromDigits
  <2>1. e = y
    BY <1>4, <1>6
  <2>2. c + Digit * e = x
    BY <1>3, <2>1
  <2>3. b + Digit * x = w
    BY <1>2
  <2>4. a + Digit * w = v
    BY <1>1
  <2> QED BY <2>2, <2>3, <2>4
<1>12. v < MaxCopy => FromDigits(a, b, c, 0) = v
  <2> SUFFICES ASSUME v < MaxCopy PROVE a + Digit * (b + Digit * (c + Digit * 0)) = v
    BY DEF FromDigits
  <2>1. x = 0
    BY <1>7
  <2>2. c = 0
    <3>1. y = 0
      <4>1. y >= 1 => Digit * y >= Digit
        BY <1>3
      <4>2. Digit * y \in Nat
        BY <1>3
      <4> QED BY <1>3, <2>1, <4>1, <4>2
    <3> QED BY <1>3, <2>1, <3>1
  <2>3. c + Digit * 0 = x
    BY <2>1, <2>2
  <2>4. b + Digit * x = w
    BY <1>2
  <2>5. a + Digit * w = v
    BY <1>1
  <2> QED BY <2>3, <2>4, <2>5
<1> QED BY <1>9, <1>10, <1>11, <1>12

\* The arguments of a copy.
CopyArguments(offset, size) ==
    Digits(offset) \o SubSeq(Digits(IF size = MaxCopy THEN 0 ELSE size), 1, 3)

LEMMA CopyArgumentsRead ==
    ASSUME NEW offset \in Nat, offset < MaxSource, NEW size \in 1..MaxCopy
    PROVE  LET args == CopyArguments(offset, size)
           IN  /\ args \in [1..7 -> Nat]
               /\ FromDigits(args[1], args[2], args[3], args[4]) = offset
               /\ CopySize(FromDigits(args[5], args[6], args[7], 0)) = size
<1> USE DeltaConstants
<1> DEFINE encoded == IF size = MaxCopy THEN 0 ELSE size
           o == Digits(offset)
           d == Digits(encoded)
           e == SubSeq(d, 1, 3)
           args == o \o e
<1>1. MaxCopy \in Nat /\ MaxCopy > 0
  BY DEF MaxCopy
<1>2. encoded \in Nat /\ encoded < MaxCopy
  BY <1>1
<1>3. CopySize(encoded) = size
  BY <1>1 DEF CopySize
<1> HIDE DEF encoded
<1>4. o \in Seq(Nat) /\ Len(o) = 4 /\ FromDigits(o[1], o[2], o[3], o[4]) = offset
  BY DigitsRead
<1>5. d \in Seq(Nat) /\ Len(d) = 4 /\ FromDigits(d[1], d[2], d[3], 0) = encoded
  BY <1>2, DigitsRead
<1> HIDE DEF o, d
<1>6. e \in Seq(Nat) /\ Len(e) = 3 /\ e[1] = d[1] /\ e[2] = d[2] /\ e[3] = d[3]
  <2>1. \A i \in 1..3 : d[i] \in Nat
    <3>1. \A i \in 1..3 : i \in 1..Len(d)
      BY <1>5
    <3> QED BY <1>5, <3>1, ElementOfSeq, Zenon
  <2>2. /\ e \in Seq(Nat) /\ Len(e) = IF 1 <= 3 THEN 3 - 1 + 1 ELSE 0
        /\ \A i \in 1..(3 - 1 + 1) : e[i] = d[1 + i - 1]
    BY <2>1, SubSeqProperties
  <2> HIDE DEF e
  <2>3. e[1] = d[1 + 1 - 1] /\ e[2] = d[1 + 2 - 1] /\ e[3] = d[1 + 3 - 1] /\ Len(e) = 3
    BY <2>2
  <2>4. 1 + 1 - 1 = 1 /\ 1 + 2 - 1 = 2 /\ 1 + 3 - 1 = 3
    OBVIOUS
  <2> QED BY <2>2, <2>3, <2>4
<1> HIDE DEF e
<1>7. /\ args \in Seq(Nat) /\ Len(args) = 7
      /\ \A i \in 1..7 : args[i] = IF i <= 4 THEN o[i] ELSE e[i - 4]
  <2>1. /\ args \in Seq(Nat) /\ Len(args) = Len(o) + Len(e)
        /\ \A i \in 1..(Len(o) + Len(e)) : args[i] = IF i <= Len(o) THEN o[i] ELSE e[i - Len(o)]
    BY <1>4, <1>6, ConcatProperties, Zenon
  <2>2. Len(o) = 4 /\ Len(e) = 3 /\ Len(o) + Len(e) = 7
    BY <1>4, <1>6
  <2> HIDE DEF args
  <2> QED BY <2>1, <2>2
<1> HIDE DEF args
<1>8. args \in [1..7 -> Nat]
  BY <1>7, LenProperties
<1>9. /\ args[1] = o[1] /\ args[2] = o[2] /\ args[3] = o[3] /\ args[4] = o[4]
      /\ args[5] = e[1] /\ args[6] = e[2] /\ args[7] = e[3]
  BY <1>7
<1> QED BY <1>3, <1>4, <1>5, <1>6, <1>8, <1>9 DEF CopyArguments, args, o, d, e, encoded

\* A copy is read as it was written (emit_copy, apply_delta).
LEMMA CopyRead ==
    ASSUME NEW s \in Seq(Nat), NEW pos \in Nat,
           NEW offset \in Nat, offset < MaxSource, NEW size \in 1..MaxCopy,
           At(s, pos, EmitCopy(offset, size))
    PROVE  /\ ReadCopy(s, pos) = Ok([offset |-> offset, size |-> size], pos + Len(EmitCopy(offset, size)))
           /\ pos < Len(s) /\ s[pos + 1] >= High
           /\ pos + Len(EmitCopy(offset, size)) \in (pos + 1)..Len(s)
<1> USE DeltaConstants
<1> DEFINE args == CopyArguments(offset, size)
           r == Arguments(s, pos)[7]
           b == Present(args)[1].bits
           w == Present(args)[1].bytes
           first == High + b
<1>1. EmitCopy(offset, size) = Command(args)
  BY Zenon DEF EmitCopy, Command, CopyArguments
<1>2. /\ args \in [1..7 -> Nat]
      /\ FromDigits(args[1], args[2], args[3], args[4]) = offset
      /\ CopySize(FromDigits(args[5], args[6], args[7], 0)) = size
  BY CopyArgumentsRead
<1> HIDE DEF args
<1>3. /\ r.next = pos + Len(Command(args)) /\ r.next <= Len(s)
      /\ \A i \in 1..7 : r.args[i] = args[i]
  BY <1>1, <1>2, ArgumentsRead
<1>4. Command(args) = <<first>> \o w
  BY DEF Command
<1>5. b \in Nat /\ w \in Seq(Nat) /\ Len(w) \in Nat
  <2>1. Present(args)[1] \in [bits : Nat, bytes : Seq(Nat)]
    BY <1>2, PresentDef
  <2> QED BY <2>1, LenProperties
<1> HIDE DEF b, w
<1>6. first \in Nat /\ first >= High
  BY <1>5
<1> HIDE DEF first, r
<1>7. pos < Len(s) /\ s[pos + 1] = first
  <2>1. At(s, pos, <<first>> \o w)
    BY <1>1, <1>4
  <2> QED BY <1>5, <1>6, <2>1, AtFirst
<1>8. Len(Command(args)) = 1 + Len(w)
  <2>1. <<first>> \in Seq(Nat) /\ Len(<<first>>) = 1
    BY <1>6
  <2> QED BY <1>4, <1>5, <2>1, ConcatProperties
<1>9. pos + Len(Command(args)) \in (pos + 1)..Len(s)
  <2>1. Len(s) \in Nat
    BY LenProperties
  <2> QED BY <1>3, <1>5, <1>8, <2>1
<1>10. ~(r.next > Len(s))
  <2>1. Len(s) \in Nat
    BY LenProperties
  <2> QED BY <1>3, <1>9, <2>1
<1>11. ReadCopy(s, pos) = Ok([offset |-> FromDigits(r.args[1], r.args[2], r.args[3], r.args[4]),
                              size |-> CopySize(FromDigits(r.args[5], r.args[6], r.args[7], 0))], r.next)
  BY <1>10 DEF ReadCopy, r
<1>12. /\ r.args[1] = args[1] /\ r.args[2] = args[2] /\ r.args[3] = args[3] /\ r.args[4] = args[4]
       /\ r.args[5] = args[5] /\ r.args[6] = args[6] /\ r.args[7] = args[7]
  BY <1>3
<1>13. ReadCopy(s, pos) = Ok([offset |-> offset, size |-> size], pos + Len(Command(args)))
  BY <1>2, <1>3, <1>11, <1>12
<1> QED BY <1>1, <1>6, <1>7, <1>9, <1>13

-----------------------------------------------------------------------------
(* The copies and the inserts of a delta *)

\* A copy is bytes.
LEMMA EmitCopyType ==
    ASSUME NEW offset \in Nat, offset < MaxSource, NEW size \in 1..MaxCopy
    PROVE  EmitCopy(offset, size) \in Seq(Nat)
<1> USE DeltaConstants
<1> DEFINE args == CopyArguments(offset, size)
           b == Present(args)[1].bits
           w == Present(args)[1].bytes
<1>1. EmitCopy(offset, size) = Command(args)
  BY Zenon DEF EmitCopy, Command, CopyArguments
<1>2. args \in [1..7 -> Nat]
  BY CopyArgumentsRead
<1> HIDE DEF args
<1>3. b \in Nat /\ w \in Seq(Nat)
  <2>1. Present(args)[1] \in [bits : Nat, bytes : Seq(Nat)]
    BY <1>2, PresentDef
  <2> QED BY <2>1
<1>4. Command(args) = <<High + b>> \o w
  BY DEF Command
<1> HIDE DEF b, w
<1>5. <<High + b>> \in Seq(Nat)
  BY <1>3
<1> DEFINE u == <<High + b>>
<1> HIDE DEF u
<1>6. u \o w \in Seq(Nat)
  BY <1>3, <1>5, ConcatProperties DEF u
<1> QED BY <1>1, <1>4, <1>6 DEF u

\* The least of two numbers is one of them.
LEMMA Least2Type ==
    ASSUME NEW a \in Nat, NEW b \in Nat, a > 0, b > 0
    PROVE  Least2(a, b) \in 1..a /\ Least2(a, b) \in 1..b
BY DEF Least2

\* The recursion of EmitCopies.
CopiesStep(f, offset, size, copied) ==
    IF copied = size THEN <<>>
    ELSE EmitCopy(offset + copied, Least2(size - copied, MaxCopy)) \o f[copied + Least2(size - copied, MaxCopy)]

LEMMA EmitCopiesDef ==
    ASSUME NEW offset \in Nat, NEW size \in Nat, offset + size <= MaxSource
    PROVE  \E f \in [0..size -> Seq(Nat)] :
              EmitCopies(offset, size) = f[0] /\ \A c \in 0..size : f[c] = CopiesStep(f, offset, size, c)
<1> USE DeltaConstants
<1> DEFINE S == 0..size
           V == Seq(Nat)
           m == [c \in S |-> size - c]
           k(c) == Least2(size - c, MaxCopy)
           G == [c \in S |-> [f \in [S -> V] |-> CopiesStep(f, offset, size, c)]]
<1>0. MaxCopy \in Nat /\ MaxCopy > 0 /\ MaxSource \in Nat
  BY DEF MaxCopy, MaxSource
<1>1. \A c \in S : c # size => k(c) \in 1..MaxCopy /\ c + k(c) \in S /\ m[c + k(c)] < m[c]
  <2> TAKE c \in S
  <2> HAVE c # size
  <2>1. size - c \in Nat /\ size - c > 0
    OBVIOUS
  <2>2. k(c) \in 1..MaxCopy /\ k(c) \in 1..(size - c)
    BY <1>0, <2>1, Least2Type
  <2> HIDE DEF k
  <2>3. c + k(c) \in S /\ size - (c + k(c)) < size - c
    BY <2>2
  <2> QED BY <2>2, <2>3
<1>2. ASSUME NEW c \in S, NEW f, c # size => f[c + k(c)] \in V PROVE CopiesStep(f, offset, size, c) \in V
  <2>1. CASE c = size
    BY <2>1, EmptySeq DEF CopiesStep
  <2>2. CASE c # size
    <3> DEFINE e == EmitCopy(offset + c, k(c))
               r == f[c + k(c)]
    <3>1. offset + c \in Nat /\ offset + c < MaxSource
      BY <1>0, <2>2
    <3>2. e \in V
      BY <1>1, <2>2, <3>1, EmitCopyType
    <3>3. CopiesStep(f, offset, size, c) = e \o r
      BY <2>2 DEF CopiesStep
    <3>4. r \in V
      BY <1>2, <2>2
    <3> HIDE DEF e, r
    <3> QED BY <3>2, <3>3, <3>4, ConcatProperties
  <2> QED BY <2>1, <2>2
<1>3. ASSUME NEW c \in S, NEW f, NEW g, \A j \in S : m[j] < m[c] => f[j] = g[j]
      PROVE  CopiesStep(f, offset, size, c) = CopiesStep(g, offset, size, c)
  <2>1. c # size => f[c + k(c)] = g[c + k(c)]
    BY <1>1, <1>3
  <2> QED BY <2>1 DEF CopiesStep
<1>4. \A c \in S : m[c] \in Nat
  OBVIOUS
<1>5. \A c \in S : c # size => c + k(c) \in S /\ m[c + k(c)] < m[c]
  BY <1>1
<1> HIDE DEF V, m, k
<1>6. IsRecursion(S, V, m, G)
  <2>1. G \in [S -> [[S -> V] -> V]]
    <3>1. \A c \in S : \A f \in [S -> V] : CopiesStep(f, offset, size, c) \in V
      <4> HIDE DEF S
      <4> QED BY <1>2, <1>5
    <3> HIDE DEF S
    <3> QED BY <3>1
  <2>2. <<>> \in V
    BY EmptySeq DEF V
  <2>3. ASSUME NEW c \in S, NEW f \in [S -> V], NEW g \in [S -> V], \A j \in S : m[j] < m[c] => f[j] = g[j]
        PROVE  G[c][f] = G[c][g]
    <3>1. CopiesStep(f, offset, size, c) = CopiesStep(g, offset, size, c)
      BY <1>3, <2>3
    <3> HIDE DEF S
    <3> QED BY <3>1
  <2> HIDE DEF S, G
  <2> QED BY <1>4, <2>1, <2>2, <2>3 DEF IsRecursion
<1>7. PICK f \in [S -> V] : \A c \in S : f[c] = G[c][f]
  <2> HIDE DEF S, G
  <2> QED BY <1>6, RecursiveFunction
<1>8. f = [c \in S |-> CopiesStep(f, offset, size, c)]
  <2> HIDE DEF S
  <2> QED BY <1>7
<1> DEFINE h == CHOOSE g : g = [c \in 0..size |-> CopiesStep(g, offset, size, c)]
<1>9. h = [c \in S |-> CopiesStep(h, offset, size, c)]
  BY <1>8, Zenon
<1>10. EmitCopies(offset, size) = h[0]
  BY Zenon DEF EmitCopies, CopiesStep
<1> HIDE DEF h
<1>11. \A c \in S : h[c] = CopiesStep(h, offset, size, c)
  BY <1>9
<1> DEFINE P == {c \in S : h[c] \in V}
<1> HIDE DEF S
<1>12. ASSUME NEW c \in S, \A j \in S : m[j] < m[c] => j \in P PROVE c \in P
  <2>1. c # size => h[c + k(c)] \in V
    BY <1>5, <1>12
  <2> QED BY <1>2, <1>11, <2>1
<1>13. S \subseteq P
  <2> HIDE DEF P
  <2> QED BY <1>4, <1>12, MeasureInduction
<1>14. h \in [S -> V]
  BY <1>9, <1>13
<1> QED BY <1>10, <1>11, <1>14 DEF S, V

\* The recursion of FlushInserts.
InsertsStep(f, bytes, done) ==
    IF done = Len(bytes) THEN <<>>
    ELSE <<Least2(Len(bytes) - done, MaxInsert)>>
            \o SubSeq(bytes, done + 1, done + Least2(Len(bytes) - done, MaxInsert))
            \o f[done + Least2(Len(bytes) - done, MaxInsert)]

\* A part of a sequence.
LEMMA PartType ==
    ASSUME NEW D, NEW s \in Seq(D), NEW i \in Nat, NEW n \in Nat, i + n <= Len(s)
    PROVE  /\ SubSeq(s, i + 1, i + n) \in Seq(D) /\ Len(SubSeq(s, i + 1, i + n)) = n
           /\ \A k \in 1..n : SubSeq(s, i + 1, i + n)[k] = s[i + k]
<1> DEFINE part == SubSeq(s, i + 1, i + n)
<1>1. Len(s) \in Nat /\ \A k \in 1..Len(s) : s[k] \in D
  BY LenProperties, ElementOfSeq
<1>2. i + 1 \in Int /\ i + n \in Int /\ \A k \in (i + 1)..(i + n) : s[k] \in D
  BY <1>1
<1>3. /\ part \in Seq(D) /\ Len(part) = IF i + 1 <= i + n THEN (i + n) - (i + 1) + 1 ELSE 0
      /\ \A k \in 1..((i + n) - (i + 1) + 1) : part[k] = s[(i + 1) + k - 1]
  BY <1>2, SubSeqProperties
<1> HIDE DEF part
<1>4. Len(part) = n
  BY <1>3
<1>5. ASSUME NEW k \in 1..n PROVE part[k] = s[i + k]
  <2>1. k \in 1..((i + n) - (i + 1) + 1) /\ (i + 1) + k - 1 = i + k
    OBVIOUS
  <2> QED BY <1>3, <2>1
<1> QED BY <1>3, <1>4, <1>5 DEF part

LEMMA FlushInsertsDef ==
    ASSUME NEW bytes \in Seq(Nat)
    PROVE  \E f \in [0..Len(bytes) -> Seq(Nat)] :
              FlushInserts(bytes) = f[0] /\ \A d \in 0..Len(bytes) : f[d] = InsertsStep(f, bytes, d)
<1> USE DeltaConstants
<1> DEFINE size == Len(bytes)
           S == 0..size
           V == Seq(Nat)
           m == [d \in S |-> size - d]
           k(d) == Least2(size - d, MaxInsert)
           G == [d \in S |-> [f \in [S -> V] |-> InsertsStep(f, bytes, d)]]
<1>0. MaxInsert \in Nat /\ MaxInsert > 0 /\ size \in Nat
  BY LenProperties DEF MaxInsert
<1>16. \A f, d : InsertsStep(f, bytes, d) =
          IF d = size THEN <<>> ELSE <<k(d)>> \o SubSeq(bytes, d + 1, d + k(d)) \o f[d + k(d)]
  BY Zenon DEF InsertsStep
<1>17. Len(bytes) = size
  OBVIOUS
<1> HIDE DEF size
<1>1. \A d \in S : d # size => k(d) \in Nat /\ d + k(d) \in S /\ m[d + k(d)] < m[d]
  <2> TAKE d \in S
  <2> HAVE d # size
  <2>1. size - d \in Nat /\ size - d > 0
    BY <1>0
  <2>2. k(d) \in 1..MaxInsert /\ k(d) \in 1..(size - d)
    BY <1>0, <2>1, Least2Type
  <2> HIDE DEF k
  <2>3. d + k(d) \in S /\ size - (d + k(d)) < size - d
    BY <1>0, <2>2
  <2> QED BY <1>0, <2>2, <2>3
<1>2. ASSUME NEW d \in S, NEW f, d # size => f[d + k(d)] \in V PROVE InsertsStep(f, bytes, d) \in V
  <2>1. CASE d = size
    BY <1>16, <2>1, EmptySeq
  <2>2. CASE d # size
    <3> DEFINE c == k(d)
               e == SubSeq(bytes, d + 1, d + c)
               r == f[d + c]
               u == <<c>>
    <3>1. d \in Nat /\ c \in Nat /\ d + c <= size
      <4>1. c \in Nat /\ d + c \in S
        <5> HIDE DEF k, m, S
        <5> QED BY <1>1, <2>2
      <4> HIDE DEF c
      <4> QED BY <1>0, <4>1
    <3>4. r \in V
      BY <1>2, <2>2
    <3>3. InsertsStep(f, bytes, d) = u \o e \o r
      BY <1>16, <2>2
    <3> HIDE DEF c
    <3>2. e \in V /\ u \in V
      BY <1>17, <3>1, PartType
    <3> HIDE DEF e, r, u
    <3>5. u \o e \in V
      BY <3>2, ConcatProperties
    <3> QED BY <3>3, <3>4, <3>5, ConcatProperties
  <2> QED BY <2>1, <2>2
<1>5. \A d \in S : d # size => d + k(d) \in S /\ m[d + k(d)] < m[d]
  BY <1>1
<1>4. \A d \in S : m[d] \in Nat
  BY <1>0
<1> HIDE DEF V, m, k, S
<1>3. ASSUME NEW d \in S, NEW f, NEW g, \A j \in S : m[j] < m[d] => f[j] = g[j]
      PROVE  InsertsStep(f, bytes, d) = InsertsStep(g, bytes, d)
  <2>1. d # size => f[d + k(d)] = g[d + k(d)]
    BY <1>3, <1>5
  <2> QED BY <1>16, <2>1
<1>6. IsRecursion(S, V, m, G)
  <2>1. G \in [S -> [[S -> V] -> V]]
    <3>1. \A d \in S : \A f \in [S -> V] : InsertsStep(f, bytes, d) \in V
      BY <1>2, <1>5
    <3> QED BY <3>1
  <2>2. <<>> \in V
    BY EmptySeq DEF V
  <2>3. ASSUME NEW d \in S, NEW f \in [S -> V], NEW g \in [S -> V], \A j \in S : m[j] < m[d] => f[j] = g[j]
        PROVE  G[d][f] = G[d][g]
    <3>1. InsertsStep(f, bytes, d) = InsertsStep(g, bytes, d)
      BY <1>3, <2>3
    <3> QED BY <3>1
  <2> HIDE DEF G
  <2> QED BY <1>4, <2>1, <2>2, <2>3 DEF IsRecursion
<1>7. PICK f \in [S -> V] : \A d \in S : f[d] = G[d][f]
  <2> HIDE DEF G
  <2> QED BY <1>6, RecursiveFunction
<1>8. f = [d \in S |-> InsertsStep(f, bytes, d)]
  BY <1>7
<1> DEFINE h == CHOOSE g : g = [d \in 0..Len(bytes) |-> InsertsStep(g, bytes, d)]
<1>18. S = 0..Len(bytes)
  BY <1>17 DEF S
<1>9. h = [d \in S |-> InsertsStep(h, bytes, d)]
  BY <1>8, <1>18, Zenon
<1>10. FlushInserts(bytes) = h[0]
  BY Zenon DEF FlushInserts, InsertsStep
<1> HIDE DEF h
<1>11. \A d \in S : h[d] = InsertsStep(h, bytes, d)
  BY <1>9
<1> DEFINE P == {d \in S : h[d] \in V}
<1>12. ASSUME NEW d \in S, \A j \in S : m[j] < m[d] => j \in P PROVE d \in P
  <2>1. d # size => h[d + k(d)] \in V
    BY <1>5, <1>12
  <2> QED BY <1>2, <1>11, <2>1
<1>13. S \subseteq P
  <2> HIDE DEF P
  <2> QED BY <1>4, <1>12, MeasureInduction
<1>14. h \in [S -> V]
  BY <1>9, <1>13
<1> QED BY <1>10, <1>11, <1>14, <1>18 DEF V

-----------------------------------------------------------------------------
(* What the instructions of a delta give *)

\* What reading a copy may give, whatever the bytes.
LEMMA ReadCopyType ==
    ASSUME NEW s \in Seq(Nat), NEW pos \in Nat, pos < Len(s), s[pos + 1] >= High
    PROVE  LET copy == ReadCopy(s, pos)
           IN  \/ copy = Fail("panic")
               \/ /\ copy.status = "ok" /\ copy.next \in (pos + 1)..Len(s)
                  /\ copy.value.offset \in Nat /\ copy.value.size \in Nat
<1> USE DeltaConstants
<1> DEFINE r == Arguments(s, pos)[7]
           args == r.args
           offset == FromDigits(args[1], args[2], args[3], args[4])
           digits == FromDigits(args[5], args[6], args[7], 0)
           size == CopySize(digits)
           next == r.next
<1>1. next \in Nat /\ next > pos /\ args \in Seq(Nat) /\ Len(args) = 7
  <2>1. 7 \in 0..7
    OBVIOUS
  <2> QED BY <2>1, ArgumentsDef
<1>2. ReadCopy(s, pos) = IF next > Len(s) THEN Fail("panic") ELSE Ok([offset |-> offset, size |-> size], next)
  BY Zenon DEF ReadCopy
<1> HIDE DEF r, args, next
<1>3. \A i \in 1..7 : args[i] \in Nat
  BY <1>1, ElementOfSeq
<1>4. \A a, b, c, d \in Nat : FromDigits(a, b, c, d) \in Nat
  <2> TAKE a, b, c, d \in Nat
  <2> DEFINE x == c + Digit * d
             y == b + Digit * x
  <2>1. x \in Nat
    OBVIOUS
  <2> HIDE DEF x
  <2>2. y \in Nat
    BY <2>1
  <2> HIDE DEF y
  <2>3. a + Digit * y \in Nat
    BY <2>2
  <2> QED BY <2>3 DEF FromDigits, x, y
<1>5. offset \in Nat /\ digits \in Nat
  <2>1. /\ args[1] \in Nat /\ args[2] \in Nat /\ args[3] \in Nat /\ args[4] \in Nat
        /\ args[5] \in Nat /\ args[6] \in Nat /\ args[7] \in Nat /\ 0 \in Nat
    BY <1>3
  <2> QED BY <1>4, <2>1, Zenon
<1> HIDE DEF offset, digits
<1>6. size \in Nat
  BY <1>5 DEF CopySize, MaxCopy
<1> HIDE DEF size
<1>7. Len(s) \in Nat
  BY LenProperties
<1> QED BY <1>1, <1>2, <1>5, <1>6, <1>7 DEF Ok

\* What apply_delta does at one instruction.
ExecuteStep(f, source, delta, pos) ==
    IF pos = Len(delta) THEN Ok(<<>>, pos)
    ELSE IF delta[pos + 1] >= High
    THEN LET copy == ReadCopy(delta, pos)
         IN  IF copy.status # "ok" THEN copy
             ELSE IF copy.value.offset + copy.value.size > Len(source) THEN Fail("error")
             ELSE Prepend(SubSeq(source, copy.value.offset + 1, copy.value.offset + copy.value.size), f[copy.next])
    ELSE LET end == pos + 1 + delta[pos + 1]
         IN  IF delta[pos + 1] = 0 \/ end > Len(delta) THEN Fail("error")
             ELSE Prepend(SubSeq(delta, pos + 2, end), f[end])

\* Where the next instruction is, if the delta has one there.
Behind(source, delta, pos) ==
    IF pos = Len(delta) THEN {}
    ELSE IF delta[pos + 1] >= High
    THEN LET copy == ReadCopy(delta, pos)
         IN  IF copy.status # "ok" \/ copy.value.offset + copy.value.size > Len(source) THEN {} ELSE {copy.next}
    ELSE IF delta[pos + 1] = 0 \/ pos + 1 + delta[pos + 1] > Len(delta) THEN {}
    ELSE {pos + 1 + delta[pos + 1]}

\* The next instruction is behind this one.
LEMMA BehindLater ==
    ASSUME NEW source \in Seq(Nat), NEW delta \in Seq(Nat), NEW pos \in 0..Len(delta), NEW q \in Behind(source, delta, pos)
    PROVE  q \in (pos + 1)..Len(delta)
<1> USE DeltaConstants
<1>1. Len(delta) \in Nat /\ \A i \in 1..Len(delta) : delta[i] \in Nat
  BY LenProperties, ElementOfSeq
<1>2. pos # Len(delta) /\ pos < Len(delta) /\ delta[pos + 1] \in Nat
  BY <1>1 DEF Behind
<1>3. CASE delta[pos + 1] >= High
  <2> DEFINE copy == ReadCopy(delta, pos)
  <2>1. copy.status = "ok" /\ q = copy.next
    BY <1>2, <1>3 DEF Behind
  <2>2. copy = Fail("panic") \/ copy.next \in (pos + 1)..Len(delta)
    BY <1>2, <1>3, ReadCopyType, SMTT(30)
  <2> HIDE DEF copy
  <2> QED BY <2>1, <2>2 DEF Fail
<1>4. CASE ~(delta[pos + 1] >= High)
  BY <1>1, <1>2, <1>4 DEF Behind
<1> QED BY <1>3, <1>4

\* What an instruction gives depends on what the next one gives, and no more.
LEMMA ExecuteStepType ==
    ASSUME NEW source \in Seq(Nat), NEW delta \in Seq(Nat), NEW pos \in 0..Len(delta), NEW f,
           \A q \in Behind(source, delta, pos) :
              f[q] \in [status : {"ok", "error", "panic"}, value : Seq(Nat), next : Nat]
    PROVE  ExecuteStep(f, source, delta, pos) \in [status : {"ok", "error", "panic"}, value : Seq(Nat), next : Nat]
<1> USE DeltaConstants
<1> DEFINE V == [status : {"ok", "error", "panic"}, value : Seq(Nat), next : Nat]
<1> SUFFICES ExecuteStep(f, source, delta, pos) \in V
  OBVIOUS
<1>1. Len(delta) \in Nat /\ Len(source) \in Nat /\ \A i \in 1..Len(delta) : delta[i] \in Nat
  BY LenProperties, ElementOfSeq
<1>2. Fail("error") \in V /\ Fail("panic") \in V
  BY EmptySeq DEF Fail
<1>3. ASSUME NEW bytes \in Seq(Nat), NEW r \in V PROVE Prepend(bytes, r) \in V
  <2>1. CASE r.status = "ok"
    <3> DEFINE v == r.value
               n == r.next
    <3>1. v \in Seq(Nat) /\ n \in Nat
      OBVIOUS
    <3>2. Prepend(bytes, r) = Ok(bytes \o v, n)
      BY <2>1 DEF Prepend
    <3> HIDE DEF v, n
    <3>3. bytes \o v \in Seq(Nat)
      BY <3>1, ConcatProperties
    <3> QED BY <3>1, <3>2, <3>3 DEF Ok
  <2> QED BY <2>1 DEF Prepend
<1>4. CASE pos = Len(delta)
  BY <1>1, <1>4, EmptySeq DEF ExecuteStep, Ok
<1>5. CASE pos # Len(delta) /\ delta[pos + 1] >= High
  <2> DEFINE copy == ReadCopy(delta, pos)
             o == copy.value.offset
             n == copy.value.size
             r == f[copy.next]
  <2>1. \/ copy = Fail("panic")
        \/ copy.status = "ok" /\ o \in Nat /\ n \in Nat
    <3>1. pos \in Nat /\ pos < Len(delta)
      BY <1>1, <1>5
    <3> QED BY <1>5, <3>1, ReadCopyType
  <2>2. ExecuteStep(f, source, delta, pos) =
           IF copy.status # "ok" THEN copy
           ELSE IF o + n > Len(source) THEN Fail("error")
           ELSE Prepend(SubSeq(source, o + 1, o + n), r)
    BY <1>5 DEF ExecuteStep
  <2>3. copy.status = "ok" /\ ~(o + n > Len(source)) => r \in V
    <3>1. copy.status = "ok" /\ ~(o + n > Len(source)) => copy.next \in Behind(source, delta, pos)
      BY <1>5 DEF Behind
    <3> HIDE DEF copy, o, n
    <3> QED BY <3>1
  <2> HIDE DEF copy, o, n, r, V
  <2>4. CASE copy.status = "ok" /\ ~(o + n > Len(source))
    <3>1. o \in Nat /\ n \in Nat /\ o + n <= Len(source)
      BY <1>1, <2>1, <2>4 DEF Fail
    <3>2. SubSeq(source, o + 1, o + n) \in Seq(Nat)
      BY <3>1, PartType
    <3> QED BY <1>3, <2>2, <2>3, <2>4, <3>2
  <2>5. CASE ~(copy.status = "ok" /\ ~(o + n > Len(source)))
    BY <1>2, <2>1, <2>2, <2>5
  <2> QED BY <2>4, <2>5 DEF V
<1>6. CASE pos # Len(delta) /\ ~(delta[pos + 1] >= High)
  <2> DEFINE n == delta[pos + 1]
             end == pos + 1 + n
             r == f[end]
  <2>1. n \in Nat
    BY <1>1, <1>6
  <2>2. ExecuteStep(f, source, delta, pos) =
           IF n = 0 \/ end > Len(delta) THEN Fail("error") ELSE Prepend(SubSeq(delta, pos + 2, end), r)
    BY <1>6 DEF ExecuteStep
  <2>3. ~(n = 0 \/ end > Len(delta)) => r \in V
    <3>1. ~(n = 0 \/ end > Len(delta)) => end \in Behind(source, delta, pos)
      BY <1>6 DEF Behind
    <3> QED BY <3>1
  <2> HIDE DEF n
  <2>4. ~(n = 0 \/ end > Len(delta)) => SubSeq(delta, pos + 2, end) \in Seq(Nat)
    <3> SUFFICES ASSUME ~(end > Len(delta)) PROVE SubSeq(delta, pos + 2, end) \in Seq(Nat)
      OBVIOUS
    <3>1. pos + 1 \in Nat /\ (pos + 1) + n <= Len(delta) /\ (pos + 1) + 1 = pos + 2
      BY <1>1, <2>1
    <3>2. SubSeq(delta, (pos + 1) + 1, (pos + 1) + n) \in Seq(Nat)
      BY <2>1, <3>1, PartType
    <3> QED BY <3>1, <3>2
  <2> HIDE DEF end, r, V
  <2> QED BY <1>2, <1>3, <2>2, <2>3, <2>4
<1> QED BY <1>4, <1>5, <1>6

\* The recursion of Execute has a function that satisfies it.
LEMMA ExecuteDef ==
    ASSUME NEW source \in Seq(Nat), NEW delta \in Seq(Nat)
    PROVE  \A pos \in 0..Len(delta) :
              Execute(source, delta)[pos] = ExecuteStep(Execute(source, delta), source, delta, pos)
<1> DEFINE S == 0..Len(delta)
           V == [status : {"ok", "error", "panic"}, value : Seq(Nat), next : Nat]
           m == [p \in S |-> Len(delta) - p]
           G == [p \in S |-> [f \in [S -> V] |-> ExecuteStep(f, source, delta, p)]]
<1>0. Len(delta) \in Nat
  BY LenProperties
<1>1. \A p \in S : \A q \in Behind(source, delta, p) : q \in S /\ m[q] < m[p]
  <2> TAKE p \in S
  <2> TAKE q \in Behind(source, delta, p)
  <2>1. q \in (p + 1)..Len(delta)
    BY BehindLater
  <2> QED BY <1>0, <2>1
<1>2. \A p \in S : m[p] \in Nat
  BY <1>0
<1>3. ASSUME NEW p \in S, NEW f \in [S -> V] PROVE ExecuteStep(f, source, delta, p) \in V
  <2>1. \A q \in Behind(source, delta, p) : f[q] \in V
    <3> HIDE DEF V, S
    <3> QED BY <1>1
  <2> QED BY <2>1, ExecuteStepType
<1>4. ASSUME NEW p \in S, NEW f, NEW g, \A j \in S : m[j] < m[p] => f[j] = g[j]
      PROVE  ExecuteStep(f, source, delta, p) = ExecuteStep(g, source, delta, p)
  <2>1. \A q \in Behind(source, delta, p) : f[q] = g[q]
    <3> HIDE DEF S, m
    <3> QED BY <1>1, <1>4
  <2> DEFINE copy == ReadCopy(delta, p)
             end == p + 1 + delta[p + 1]
  <2>2. CASE p = Len(delta)
    BY <2>2 DEF ExecuteStep
  <2>3. CASE p # Len(delta) /\ delta[p + 1] >= High
    <3>1. copy.status = "ok" /\ ~(copy.value.offset + copy.value.size > Len(source)) => f[copy.next] = g[copy.next]
      BY <2>1, <2>3 DEF Behind
    <3> HIDE DEF copy
    <3> QED BY <2>3, <3>1 DEF ExecuteStep, copy
  <2>4. CASE p # Len(delta) /\ ~(delta[p + 1] >= High)
    <3>1. ~(delta[p + 1] = 0 \/ end > Len(delta)) => f[end] = g[end]
      BY <2>1, <2>4 DEF Behind
    <3> QED BY <2>4, <3>1 DEF ExecuteStep
  <2> QED BY <2>2, <2>3, <2>4
<1> HIDE DEF V, m, S
<1>5. IsRecursion(S, V, m, G)
  <2>1. G \in [S -> [[S -> V] -> V]]
    BY <1>3
  <2>2. Fail("error") \in V
    BY EmptySeq DEF V, Fail
  <2>3. ASSUME NEW p \in S, NEW f \in [S -> V], NEW g \in [S -> V], \A j \in S : m[j] < m[p] => f[j] = g[j]
        PROVE  G[p][f] = G[p][g]
    <3>1. ExecuteStep(f, source, delta, p) = ExecuteStep(g, source, delta, p)
      BY <1>4, <2>3
    <3> QED BY <3>1
  <2> HIDE DEF G
  <2> QED BY <1>2, <2>1, <2>2, <2>3 DEF IsRecursion
<1>6. PICK f \in [S -> V] : \A p \in S : f[p] = G[p][f]
  <2> HIDE DEF G
  <2> QED BY <1>5, RecursiveFunction
<1>7. f = [p \in S |-> ExecuteStep(f, source, delta, p)]
  BY <1>6
<1>8. Execute(source, delta) = CHOOSE g : g = [p \in 0..Len(delta) |-> ExecuteStep(g, source, delta, p)]
  BY Zenon DEF Execute, ExecuteStep
<1>9. Execute(source, delta) = [p \in S |-> ExecuteStep(Execute(source, delta), source, delta, p)]
  BY <1>7, <1>8, Zenon DEF S
<1> DEFINE h == Execute(source, delta)
<1> HIDE DEF h
<1>10. h = [p \in S |-> ExecuteStep(h, source, delta, p)]
  BY <1>9 DEF h
<1> QED BY <1>10 DEF S, h

\* What is in s between two places.
Part(s, i, j) == SubSeq(s, i + 1, j)

LEMMA PartProperties ==
    ASSUME NEW D, NEW s \in Seq(D), NEW i \in Nat, NEW j \in Nat, i <= j, j <= Len(s)
    PROVE  /\ Part(s, i, j) \in Seq(D) /\ Len(Part(s, i, j)) = j - i
           /\ \A k \in 1..(j - i) : Part(s, i, j)[k] = s[i + k]
<1> DEFINE n == j - i
<1>1. n \in Nat /\ i + n = j
  OBVIOUS
<1> HIDE DEF n
<1>2. i + n <= Len(s)
  BY <1>1
<1> QED BY <1>1, <1>2, PartType DEF Part, n

LEMMA PartsJoin ==
    ASSUME NEW D, NEW s \in Seq(D), NEW i \in Nat, NEW j \in Nat, NEW k \in Nat, i <= j, j <= k, k <= Len(s)
    PROVE  Part(s, i, j) \o Part(s, j, k) = Part(s, i, k)
<1>1. Len(s) \in Nat
  BY LenProperties
<1>2. i + 1 \in 1..(Len(s) + 1) /\ j \in ((i + 1) - 1)..Len(s) /\ k \in j..Len(s)
  BY <1>1
<1> QED BY <1>2, ConcatAdjacentSubSeq DEF Part

LEMMA NatPartsJoin == \A s \in Seq(Nat) : \A i, j, k \in Nat :
    i <= j /\ j <= k /\ k <= Len(s) => Part(s, i, j) \o Part(s, j, k) = Part(s, i, k)
BY PartsJoin

\* Applying the instructions of delta from pos to the end gives v.
Gives(source, delta, pos, v) == pos \in 0..Len(delta) /\ Execute(source, delta)[pos] = Ok(v, Len(delta))

\* A copy gives a part of the source.
LEMMA CopyGives ==
    ASSUME NEW source \in Seq(Nat), Len(source) <= MaxSource, NEW delta \in Seq(Nat), NEW pos \in Nat,
           NEW offset \in Nat, NEW size \in 1..MaxCopy, offset + size <= Len(source),
           At(delta, pos, EmitCopy(offset, size)), NEW v,
           Gives(source, delta, pos + Len(EmitCopy(offset, size)), v)
    PROVE  Gives(source, delta, pos, Part(source, offset, offset + size) \o v)
<1> USE DeltaConstants
<1> DEFINE copy == ReadCopy(delta, pos)
           q == pos + Len(EmitCopy(offset, size))
           w == SubSeq(source, offset + 1, offset + size)
<1>0. Len(delta) \in Nat /\ Len(source) \in Nat /\ MaxSource \in Nat /\ MaxCopy \in Nat
  BY LenProperties DEF MaxSource, MaxCopy
<1>1. offset < MaxSource
  BY <1>0
<1>2. copy = Ok([offset |-> offset, size |-> size], q) /\ pos < Len(delta) /\ delta[pos + 1] >= High
  BY <1>1, CopyRead
<1>3. pos \in 0..Len(delta) /\ pos # Len(delta)
  BY <1>0, <1>2
<1>4. Execute(source, delta)[pos] = ExecuteStep(Execute(source, delta), source, delta, pos)
  BY <1>3, ExecuteDef
<1>5. /\ copy.status = "ok" /\ copy.value.offset = offset /\ copy.value.size = size /\ copy.next = q
      /\ ~(offset + size > Len(source))
  <2> HIDE DEF copy, q
  <2> QED BY <1>0, <1>2 DEF Ok
<1>6. ExecuteStep(Execute(source, delta), source, delta, pos) = Prepend(w, Execute(source, delta)[q])
  <2> HIDE DEF q
  <2> QED BY <1>2, <1>3, <1>5 DEF ExecuteStep
<1>7. Prepend(w, Ok(v, Len(delta))) = Ok(w \o v, Len(delta))
  BY DEF Prepend, Ok
<1> HIDE DEF copy, q, w
<1>8. Execute(source, delta)[pos] = Ok(w \o v, Len(delta))
  BY <1>4, <1>6, <1>7 DEF Gives, q
<1> QED BY <1>3, <1>8 DEF Gives, Part, w

\* An insert gives its bytes.
LEMMA InsertGives ==
    ASSUME NEW source \in Seq(Nat), NEW delta \in Seq(Nat), NEW pos \in Nat,
           NEW w \in Seq(Nat), Len(w) \in 1..MaxInsert, At(delta, pos, <<Len(w)>> \o w), NEW v,
           Gives(source, delta, pos + 1 + Len(w), v)
    PROVE  Gives(source, delta, pos, w \o v)
<1> USE DeltaConstants
<1> DEFINE n == Len(w)
<1>0. Len(delta) \in Nat /\ n \in Nat
  BY LenProperties
<1>1. pos < Len(delta) /\ delta[pos + 1] = n /\ At(delta, pos + 1, w)
  BY <1>0, AtFirst
<1>2. SubSeq(delta, (pos + 1) + 1, (pos + 1) + Len(w)) = w
  BY <1>1, AtSubSeq, SMTT(30)
<1>3. (pos + 1) + n <= Len(delta)
  BY <1>1 DEF At
<1>4. n \in 1..MaxInsert /\ MaxInsert \in Nat /\ MaxInsert < High
  BY DEF MaxInsert
<1>9. Execute(source, delta)[pos + 1 + n] = Ok(v, Len(delta))
  BY DEF Gives
<1>10. SubSeq(delta, pos + 2, pos + 1 + n) = w
  <2>1. (pos + 1) + 1 = pos + 2 /\ (pos + 1) + n = pos + 1 + n
    BY <1>0
  <2> QED BY <1>2, <2>1
<1> HIDE DEF n
<1>5. pos \in 0..Len(delta) /\ pos # Len(delta) /\ ~(delta[pos + 1] >= High)
      /\ ~(delta[pos + 1] = 0 \/ pos + 1 + delta[pos + 1] > Len(delta))
  BY <1>0, <1>1, <1>3, <1>4
<1>6. Execute(source, delta)[pos] = ExecuteStep(Execute(source, delta), source, delta, pos)
  BY <1>5, ExecuteDef
<1>7. ExecuteStep(Execute(source, delta), source, delta, pos) = Prepend(w, Ok(v, Len(delta)))
  BY <1>1, <1>5, <1>9, <1>10 DEF ExecuteStep
<1>8. Prepend(w, Ok(v, Len(delta))) = Ok(w \o v, Len(delta))
  BY DEF Prepend, Ok
<1> QED BY <1>5, <1>6, <1>7, <1>8 DEF Gives

\* Three sequences, one after the other.
LEMMA Regroup == \A a, b, v \in Seq(Nat) : (a \o b) \o v = a \o (b \o v)
BY ConcatAssociative, SMTT(30)

LEMMA NoPart ==
    ASSUME NEW D, NEW s, NEW i \in Nat, NEW v \in Seq(D)
    PROVE  Part(s, i, i) \o v = v
<1>1. Part(s, i, i) = <<>>
  BY SubSeqEmpty DEF Part
<1> QED BY <1>1, ConcatEmptySeq

\* The copies of a part of the source give the part.
LEMMA CopiesGive ==
    ASSUME NEW source \in Seq(Nat), Len(source) <= MaxSource, NEW delta \in Seq(Nat), NEW pos \in Nat,
           NEW offset \in Nat, NEW size \in Nat, offset + size <= Len(source),
           At(delta, pos, EmitCopies(offset, size)), NEW v \in Seq(Nat),
           Gives(source, delta, pos + Len(EmitCopies(offset, size)), v)
    PROVE  Gives(source, delta, pos, Part(source, offset, offset + size) \o v)
<1> USE DeltaConstants
<1>0. Len(source) \in Nat /\ MaxSource \in Nat /\ MaxCopy \in Nat /\ MaxCopy > 0
  BY LenProperties DEF MaxSource, MaxCopy
<1>1. PICK f \in [0..size -> Seq(Nat)] :
         EmitCopies(offset, size) = f[0] /\ \A c \in 0..size : f[c] = CopiesStep(f, offset, size, c)
  <2>1. offset + size <= MaxSource
    BY <1>0
  <2> QED BY <2>1, EmitCopiesDef
<1> DEFINE S == 0..size
           m == [c \in S |-> size - c]
           gives(c) == \A p \in Nat : At(delta, p, f[c]) /\ Gives(source, delta, p + Len(f[c]), v)
                          => Gives(source, delta, p, Part(source, offset + c, offset + size) \o v)
           P == {c \in S : gives(c)}
<1>2. ASSUME NEW c \in S, \A j \in S : m[j] < m[c] => gives(j) PROVE gives(c)
  <2> SUFFICES ASSUME NEW p \in Nat, At(delta, p, f[c]), Gives(source, delta, p + Len(f[c]), v)
               PROVE  Gives(source, delta, p, Part(source, offset + c, offset + size) \o v)
    OBVIOUS
  <2>1. f[c] = CopiesStep(f, offset, size, c)
    BY <1>1
  <2>2. CASE c = size
    <3>1. f[c] = <<>>
      BY <2>1, <2>2 DEF CopiesStep
    <3>2. p + Len(f[c]) = p
      BY <3>1, EmptySeq
    <3>3. offset + size \in Nat
      OBVIOUS
    <3>4. Part(source, offset + size, offset + size) \o v = v
      BY <3>3, NoPart
    <3> QED BY <2>2, <3>2, <3>4
  <2>3. CASE c # size
    <3> DEFINE k == Least2(size - c, MaxCopy)
               e == EmitCopy(offset + c, k)
               r == f[c + k]
    <3>1. k \in 1..MaxCopy /\ k \in 1..(size - c)
      <4>1. size - c \in Nat /\ size - c > 0
        BY <2>3
      <4> QED BY <1>0, <4>1, Least2Type
    <3>2. f[c] = e \o r
      BY <2>1, <2>3 DEF CopiesStep
    <3> HIDE DEF k
    <3>3. c + k \in S /\ size - (c + k) < size - c
      BY <3>1
    <3>4. /\ offset + c \in Nat /\ offset + c < MaxSource /\ (offset + c) + k = offset + (c + k)
          /\ offset + (c + k) \in Nat /\ offset + c <= offset + (c + k) /\ offset + (c + k) <= offset + size
          /\ offset + size \in Nat /\ (offset + c) + k <= Len(source)
      BY <1>0, <3>1, <3>3
    <3>5. gives(c + k)
      BY <1>2, <3>3
    <3>6. e \in Seq(Nat) /\ Len(e) \in Nat
      BY <3>1, <3>4, EmitCopyType, LenProperties
    <3>7. r \in Seq(Nat) /\ Len(r) \in Nat
      <4>1. r \in Seq(Nat)
        BY <1>1, <3>3
      <4> QED BY <4>1, LenProperties
    <3> HIDE DEF e, r
    <3>8. At(delta, p, e) /\ At(delta, p + Len(e), r) /\ Len(e \o r) = Len(e) + Len(r)
      BY <3>2, <3>6, <3>7, AtConcat, ConcatProperties, SMTT(30)
    <3>9. p + Len(e) \in Nat /\ p + (Len(e) + Len(r)) = (p + Len(e)) + Len(r)
      BY <3>6, <3>7
    <3>10. Gives(source, delta, (p + Len(e)) + Len(r), v)
      BY <3>2, <3>8, <3>9
    <3>11. Gives(source, delta, p + Len(e), Part(source, offset + (c + k), offset + size) \o v)
      <4> HIDE DEF S, m
      <4> QED BY <3>5, <3>8, <3>9, <3>10 DEF r
    <3>12. Gives(source, delta, p, Part(source, offset + c, (offset + c) + k)
                                      \o (Part(source, offset + (c + k), offset + size) \o v))
      BY <3>1, <3>4, <3>8, <3>11, CopyGives DEF e
    <3>13. Part(source, offset + c, offset + (c + k)) \o (Part(source, offset + (c + k), offset + size) \o v)
              = Part(source, offset + c, offset + size) \o v
      <4> DEFINE i == offset + c
                 j == offset + (c + k)
                 l == offset + size
      <4>1. i \in Nat /\ j \in Nat /\ l \in Nat /\ i <= j /\ j <= l /\ l <= Len(source)
        BY <3>4
      <4> HIDE DEF i, j, l
      <4> DEFINE a == Part(source, i, j)
                 b == Part(source, j, l)
      <4>2. a \o b = Part(source, i, l)
        BY <4>1, NatPartsJoin, ZenonT(60)
      <4>3. a \in Seq(Nat)
        <5>1. j <= Len(source)
          BY <1>0, <4>1
        <5> QED BY <4>1, <5>1, PartProperties
      <4>4. b \in Seq(Nat)
        BY <4>1, PartProperties
      <4> HIDE DEF a, b
      <4>5. (a \o b) \o v = a \o (b \o v)
        BY <4>3, <4>4, Regroup, Zenon
      <4> QED BY <4>2, <4>5 DEF a, b, i, j, l
    <3> QED BY <3>4, <3>12, <3>13
  <2> QED BY <2>2, <2>3
<1>3. \A c \in S : m[c] \in Nat
  OBVIOUS
<1>4. ASSUME NEW c \in S, \A j \in S : m[j] < m[c] => j \in P PROVE c \in P
  <2> HIDE DEF gives, m, S
  <2> QED BY <1>2, <1>4
<1>5. S \subseteq P
  <2> HIDE DEF S, m, P
  <2> QED BY <1>3, <1>4, MeasureInduction
<1>6. gives(0)
  <2>1. 0 \in S
    OBVIOUS
  <2> HIDE DEF S, gives
  <2> QED BY <1>5, <2>1
<1>7. offset + 0 = offset
  OBVIOUS
<1> QED BY <1>1, <1>6, <1>7

\* The inserts of a sequence give the sequence.
LEMMA InsertsGive ==
    ASSUME NEW source \in Seq(Nat), NEW delta \in Seq(Nat), NEW pos \in Nat,
           NEW bytes \in Seq(Nat), At(delta, pos, FlushInserts(bytes)), NEW v \in Seq(Nat),
           Gives(source, delta, pos + Len(FlushInserts(bytes)), v)
    PROVE  Gives(source, delta, pos, bytes \o v)
<1> USE DeltaConstants
<1> DEFINE size == Len(bytes)
<1>0. size \in Nat /\ MaxInsert \in Nat /\ MaxInsert > 0
  BY LenProperties DEF MaxInsert
<1>1. PICK f \in [0..size -> Seq(Nat)] :
         FlushInserts(bytes) = f[0] /\ \A d \in 0..size : f[d] = InsertsStep(f, bytes, d)
  BY FlushInsertsDef
<1>8. \A d : InsertsStep(f, bytes, d) =
          IF d = size THEN <<>>
          ELSE <<Least2(size - d, MaxInsert)>> \o Part(bytes, d, d + Least2(size - d, MaxInsert))
                  \o f[d + Least2(size - d, MaxInsert)]
  BY Zenon DEF InsertsStep, Part
<1>9. Len(bytes) = size
  OBVIOUS
<1> HIDE DEF size
<1> DEFINE S == 0..size
           m == [d \in S |-> size - d]
           gives(d) == \A p \in Nat : At(delta, p, f[d]) /\ Gives(source, delta, p + Len(f[d]), v)
                          => Gives(source, delta, p, Part(bytes, d, size) \o v)
           P == {d \in S : gives(d)}
<1>2. ASSUME NEW d \in S, \A j \in S : m[j] < m[d] => gives(j) PROVE gives(d)
  <2> SUFFICES ASSUME NEW p \in Nat, At(delta, p, f[d]), Gives(source, delta, p + Len(f[d]), v)
               PROVE  Gives(source, delta, p, Part(bytes, d, size) \o v)
    OBVIOUS
  <2>2. CASE d = size
    <3>1. f[d] = <<>>
      BY <1>1, <1>8, <2>2
    <3>2. p + Len(f[d]) = p
      BY <3>1, EmptySeq
    <3>4. Part(bytes, size, size) \o v = v
      BY <1>0, NoPart
    <3> QED BY <2>2, <3>2, <3>4
  <2>3. CASE d # size
    <3> DEFINE k == Least2(size - d, MaxInsert)
               q == d + k
               e == Part(bytes, d, q)
               r == f[q]
               first == <<k>>
    <3>1. k \in 1..MaxInsert /\ k \in 1..(size - d)
      <4>1. size - d \in Nat /\ size - d > 0
        BY <1>0, <2>3
      <4> QED BY <1>0, <4>1, Least2Type
    <3>2. f[d] = (first \o e) \o r
      BY <1>1, <1>8, <2>3
    <3> HIDE DEF k
    <3>3. /\ q \in S /\ size - q < size - d /\ d \in Nat /\ q \in Nat /\ d <= q /\ q <= Len(bytes)
          /\ q - d = k /\ Len(bytes) \in Nat /\ d <= Len(bytes)
      BY <1>0, <1>9, <3>1
    <3> HIDE DEF q
    <3>5. gives(q)
      BY <1>2, <3>3
    <3>6. e \in Seq(Nat) /\ Len(e) = k
      <4>1. Part(bytes, d, q) \in Seq(Nat) /\ Len(Part(bytes, d, q)) = q - d
        BY <3>3, PartProperties
      <4> QED BY <3>3, <4>1
    <3>7. r \in Seq(Nat) /\ Len(r) \in Nat
      <4>1. r \in Seq(Nat)
        BY <1>1, <3>3
      <4> QED BY <4>1, LenProperties
    <3>14. first \in Seq(Nat) /\ Len(first) = 1 /\ first = <<Len(e)>>
      BY <3>1, <3>6
    <3> DEFINE c == first \o e
    <3>15. c \in Seq(Nat) /\ Len(c) = 1 + k
      <4> HIDE DEF first, e
      <4> QED BY <3>6, <3>14, ConcatProperties
    <3>16. f[d] = c \o r /\ c = <<Len(e)>> \o e
      BY <3>2, <3>14
    <3> HIDE DEF e, r, first, c
    <3>8. At(delta, p, c) /\ At(delta, p + Len(c), r) /\ Len(c \o r) = Len(c) + Len(r)
      <4>1. At(delta, p, c \o r)
        BY <3>16
      <4> QED BY <3>7, <3>15, <4>1, AtConcat, ConcatProperties
    <3>9. p + (1 + k) \in Nat /\ p + ((1 + k) + Len(r)) = (p + (1 + k)) + Len(r) /\ p + (1 + k) = p + 1 + k
      BY <3>1, <3>7
    <3>10. Gives(source, delta, (p + (1 + k)) + Len(r), v)
      BY <3>8, <3>9, <3>15, <3>16
    <3>11. Gives(source, delta, p + (1 + k), Part(bytes, q, size) \o v)
      <4> HIDE DEF S, m
      <4> QED BY <3>5, <3>8, <3>9, <3>10, <3>15 DEF r
    <3>12. Gives(source, delta, p, e \o (Part(bytes, q, size) \o v))
      <4>1. Len(e) \in 1..MaxInsert /\ At(delta, p, <<Len(e)>> \o e)
        BY <3>1, <3>6, <3>8, <3>16
      <4>2. Gives(source, delta, p + 1 + Len(e), Part(bytes, q, size) \o v)
        BY <3>6, <3>9, <3>11
      <4> QED BY <3>6, <4>1, <4>2, InsertGives
    <3> DEFINE b == Part(bytes, q, size)
    <3>17. e \o b = Part(bytes, d, size)
      <4>1. Part(bytes, d, q) \o Part(bytes, q, Len(bytes)) = Part(bytes, d, Len(bytes))
        <5>1. /\ d \in Nat /\ q \in Nat /\ Len(bytes) \in Nat
              /\ d <= q /\ q <= Len(bytes) /\ Len(bytes) <= Len(bytes)
          BY <3>3
        <5> HIDE DEF S, m, gives, P
        <5> QED BY <5>1, PartsJoin
      <4> QED BY <1>9, <4>1 DEF e
    <3>18. b \in Seq(Nat)
      <4>1. Part(bytes, q, Len(bytes)) \in Seq(Nat)
        BY <3>3, PartProperties, SMTT(30)
      <4> QED BY <1>9, <4>1
    <3> HIDE DEF b
    <3>19. (e \o b) \o v = e \o (b \o v)
      BY <3>6, <3>18, Regroup, Zenon
    <3> QED BY <3>12, <3>17, <3>19 DEF b
  <2> QED BY <2>2, <2>3
<1>3. \A d \in S : m[d] \in Nat
  BY <1>0
<1>4. ASSUME NEW d \in S, \A j \in S : m[j] < m[d] => j \in P PROVE d \in P
  <2> HIDE DEF gives, m, S
  <2> QED BY <1>2, <1>4
<1>5. S \subseteq P
  <2> HIDE DEF S, m, P
  <2> QED BY <1>3, <1>4, MeasureInduction
<1>6. gives(0)
  <2>1. 0 \in S
    BY <1>0
  <2> HIDE DEF S, gives
  <2> QED BY <1>5, <2>1
<1>7. Part(bytes, 0, size) = bytes
  BY <1>9, SubSeqFull DEF Part
<1> QED BY <1>1, <1>6, <1>7

-----------------------------------------------------------------------------
(* Matches *)

LEMMA MinOf ==
    ASSUME NEW T, T \subseteq Nat, T # {}
    PROVE  Min(T) \in T /\ \A k \in T : Min(T) <= k
<1>1. \E n \in T : \A k \in T : n <= k
  BY Least
<1> QED BY <1>1 DEF Min

LEMMA MaxOf ==
    ASSUME NEW b \in Nat, NEW T, T \subseteq 0..b, T # {}
    PROVE  Max(T) \in T /\ \A k \in T : Max(T) >= k
<1> DEFINE R == {b - k : k \in T}
<1>1. R \subseteq Nat /\ R # {}
  OBVIOUS
<1>2. PICK r \in R : \A k \in R : r <= k
  <2> HIDE DEF R
  <2> QED BY <1>1, Least
<1>3. PICK n \in T : r = b - n
  OBVIOUS
<1>4. ASSUME NEW k \in T PROVE n >= k
  <2>1. b - k \in R
    OBVIOUS
  <2>2. b - n <= b - k
    BY <1>2, <1>3, <2>1
  <2>3. n \in 0..b /\ k \in 0..b
    OBVIOUS
  <2> QED BY <2>2, <2>3
<1>5. \E x \in T : \A y \in T : x >= y
  BY <1>4
<1> QED BY <1>5 DEF Max

\* What the length of a match says.
LEMMA MatchIsCommon ==
    ASSUME NEW base \in Seq(Nat), NEW target \in Seq(Nat),
           NEW off \in 0..Len(base), NEW pos \in 0..Len(target)
    PROVE  LET len == MatchLength(base, off, target, pos)
           IN  /\ len \in Nat /\ off + len <= Len(base) /\ pos + len <= Len(target)
               /\ Part(base, off, off + len) = Part(target, pos, pos + len)
<1> DEFINE a == Len(base) - off
           b == Len(target) - pos
           limit == Min({a, b})
           T == {n \in 0..limit : \A k \in 1..n : base[off + k] = target[pos + k]}
           len == MatchLength(base, off, target, pos)
<1>0. Len(base) \in Nat /\ Len(target) \in Nat
  BY LenProperties
<1>1. a \in Nat /\ b \in Nat
  BY <1>0
<1>9. len = Max(T)
  BY Zenon DEF MatchLength
<1>7. off + a = Len(base) /\ pos + b = Len(target)
  BY <1>0
<1> HIDE DEF a, b
<1>2. limit \in Nat /\ limit <= a /\ limit <= b
  <2>1. {a, b} \subseteq Nat /\ {a, b} # {}
    BY <1>1
  <2>2. limit \in {a, b} /\ \A k \in {a, b} : limit <= k
    BY <2>1, MinOf
  <2> HIDE DEF limit
  <2> QED BY <1>1, <2>2
<1> HIDE DEF limit
<1>3. 0 \in T /\ T \subseteq 0..limit
  BY <1>2
<1>4. len \in T
  <2> HIDE DEF T, len
  <2>1. T # {}
    BY <1>3
  <2> QED BY <1>2, <1>3, <1>9, <2>1, MaxOf
<1>5. len \in 0..limit /\ \A k \in 1..len : base[off + k] = target[pos + k]
  <2> HIDE DEF len
  <2> QED BY <1>4
<1> HIDE DEF len
<1>6. len \in Nat /\ off + len <= Len(base) /\ pos + len <= Len(target)
  BY <1>0, <1>1, <1>2, <1>5, <1>7
<1>8. Part(base, off, off + len) = Part(target, pos, pos + len)
  <2> DEFINE u == Part(base, off, off + len)
             w == Part(target, pos, pos + len)
  <2>1. off \in Nat /\ pos \in Nat
    BY <1>0
  <2>2. u \in Seq(Nat) /\ Len(u) = len /\ \A k \in 1..len : u[k] = base[off + k]
    BY <1>6, <2>1, PartType DEF Part
  <2>3. w \in Seq(Nat) /\ Len(w) = len /\ \A k \in 1..len : w[k] = target[pos + k]
    BY <1>6, <2>1, PartType DEF Part
  <2> HIDE DEF u, w
  <2>4. \A k \in 1..Len(u) : u[k] = w[k]
    BY <1>5, <2>2, <2>3
  <2>5. u = w
    BY <2>2, <2>3, <2>4, SeqEqual
  <2> QED BY <2>5 DEF u, w
<1> QED BY <1>6, <1>8 DEF len

\* The match that is used.
LEMMA BestMatch ==
    ASSUME NEW base \in Seq(Nat), NEW target \in Seq(Nat), NEW pos \in 0..Len(target),
           Candidates(base, target, pos) # {}
    PROVE  LET off == BestOffset(base, target, pos)
               len == MatchLength(base, off, target, pos)
           IN  /\ off \in Nat /\ len \in Nat /\ len > 0 /\ off + len <= Len(base) /\ pos + len <= Len(target)
               /\ Part(base, off, off + len) = Part(target, pos, pos + len)
<1> USE DeltaConstants
<1> DEFINE offs == Candidates(base, target, pos)
           length(o) == MatchLength(base, o, target, pos)
           lengths == {length(o) : o \in offs}
           longest == Max(lengths)
           best == {o \in offs : length(o) = longest}
           off == BestOffset(base, target, pos)
<1>0. Len(base) \in Nat /\ Len(target) \in Nat
  BY LenProperties
<1>1. \A o \in offs : o \in 0..Len(base) /\ length(o) >= Block
  BY <1>0 DEF Candidates
<1>2. \A o \in 0..Len(base) : length(o) \in Nat /\ pos + length(o) <= Len(target)
  BY MatchIsCommon
<1>3. off = Min(best)
  BY Zenon DEF BestOffset
<1>10. offs # {}
  OBVIOUS
<1> HIDE DEF offs, length, off
<1>4. lengths \subseteq 0..Len(target) /\ lengths # {}
  <2>1. \A o \in offs : length(o) \in 0..Len(target)
    BY <1>0, <1>1, <1>2
  <2> QED BY <1>10, <2>1
<1>5. longest \in lengths
  <2> HIDE DEF lengths
  <2> QED BY <1>0, <1>4, MaxOf
<1>6. best \subseteq Nat /\ best # {}
  <2> HIDE DEF longest
  <2> QED BY <1>1, <1>5
<1>7. off \in best
  <2> HIDE DEF best
  <2> QED BY <1>3, <1>6, MinOf
<1>8. off \in 0..Len(base) /\ length(off) >= Block
  BY <1>1, <1>7
<1>9. /\ length(off) \in Nat /\ off + length(off) <= Len(base) /\ pos + length(off) <= Len(target)
      /\ Part(base, off, off + length(off)) = Part(target, pos, pos + length(off))
  BY <1>8, MatchIsCommon DEF length
<1>11. length(off) > 0 /\ off \in Nat
  BY <1>0, <1>8, <1>9
<1> QED BY <1>9, <1>11 DEF length, off

-----------------------------------------------------------------------------
(* The instructions of a delta *)

LEMMA CopiesType ==
    ASSUME NEW offset \in Nat, NEW size \in Nat, offset + size <= MaxSource
    PROVE  EmitCopies(offset, size) \in Seq(Nat)
<1>1. PICK f \in [0..size -> Seq(Nat)] :
         EmitCopies(offset, size) = f[0] /\ \A c \in 0..size : f[c] = CopiesStep(f, offset, size, c)
  BY EmitCopiesDef
<1>2. 0 \in 0..size
  OBVIOUS
<1> QED BY <1>1, <1>2

LEMMA InsertsType ==
    ASSUME NEW bytes \in Seq(Nat)
    PROVE  FlushInserts(bytes) \in Seq(Nat)
<1>1. PICK f \in [0..Len(bytes) -> Seq(Nat)] :
         FlushInserts(bytes) = f[0] /\ \A d \in 0..Len(bytes) : f[d] = InsertsStep(f, bytes, d)
  BY FlushInsertsDef
<1>2. 0 \in 0..Len(bytes)
  BY LenProperties
<1> QED BY <1>1, <1>2

\* The recursion of compute_delta.
InstructionsStep(f, base, target, pos) ==
    IF pos = Len(target) THEN [inserts |-> <<>>, code |-> <<>>]
    ELSE IF Candidates(base, target, pos) = {}
    THEN [f[pos + 1] EXCEPT !.inserts = <<target[pos + 1]>> \o @]
    ELSE LET off == BestOffset(base, target, pos)
             len == MatchLength(base, off, target, pos)
         IN  [inserts |-> <<>>,
              code |-> EmitCopies(off, len) \o FlushInserts(f[pos + len].inserts) \o f[pos + len].code]

LEMMA InstructionsDef ==
    ASSUME NEW base \in Seq(Nat), Len(base) <= MaxSource, NEW target \in Seq(Nat)
    PROVE  /\ Instructions(base, target) \in [0..Len(target) -> [inserts : Seq(Nat), code : Seq(Nat)]]
           /\ \A pos \in 0..Len(target) :
                 Instructions(base, target)[pos] = InstructionsStep(Instructions(base, target), base, target, pos)
<1> USE DeltaConstants
<1> DEFINE size == Len(target)
           S == 0..size
           V == [inserts : Seq(Nat), code : Seq(Nat)]
           m == [pos \in S |-> size - pos]
           off(pos) == BestOffset(base, target, pos)
           len(pos) == MatchLength(base, off(pos), target, pos)
           next(pos) == IF Candidates(base, target, pos) = {} THEN pos + 1 ELSE pos + len(pos)
           G == [pos \in S |-> [f \in [S -> V] |-> InstructionsStep(f, base, target, pos)]]
           code(f, pos) == EmitCopies(off(pos), len(pos)) \o FlushInserts(f[pos + len(pos)].inserts)
                              \o f[pos + len(pos)].code
<1>0. size \in Nat /\ Len(base) \in Nat /\ MaxSource \in Nat /\ \A i \in 1..size : target[i] \in Nat
  BY LenProperties, ElementOfSeq DEF MaxSource
<1>1. \A f, pos : InstructionsStep(f, base, target, pos) =
          IF pos = size THEN [inserts |-> <<>>, code |-> <<>>]
          ELSE IF Candidates(base, target, pos) = {}
          THEN [f[pos + 1] EXCEPT !.inserts = <<target[pos + 1]>> \o @]
          ELSE [inserts |-> <<>>, code |-> code(f, pos)]
  BY Zenon DEF InstructionsStep
<1>2. \A pos \in S : Candidates(base, target, pos) # {} =>
          off(pos) \in Nat /\ len(pos) \in Nat /\ len(pos) > 0 /\ off(pos) + len(pos) <= Len(base) /\ pos + len(pos) <= size
  BY BestMatch
<1>16. size = Len(target)
  OBVIOUS
<1> HIDE DEF size, off, len
<1>3. \A pos \in S : pos # size => next(pos) \in S /\ m[next(pos)] < m[pos] /\ m[pos] \in Nat
  <2> TAKE pos \in S
  <2> HAVE pos # size
  <2> DEFINE l == len(pos)
             n == next(pos)
  <2>1. n = pos + 1 \/ (l \in Nat /\ l > 0 /\ pos + l <= size /\ n = pos + l)
    BY <1>2
  <2> HIDE DEF l, n
  <2>2. n \in S /\ size - n < size - pos
    BY <1>0, <2>1
  <2> QED BY <1>0, <2>2 DEF n
<1>4. \A pos \in S : m[pos] \in Nat
  BY <1>0
<1>5. ASSUME NEW pos \in S, NEW f, pos # size => f[next(pos)] \in V PROVE InstructionsStep(f, base, target, pos) \in V
  <2>1. CASE pos = size
    <3>1. InstructionsStep(f, base, target, pos) = [inserts |-> <<>>, code |-> <<>>]
      BY <1>1, <2>1
    <3> QED BY <3>1, EmptySeq
  <2>2. CASE pos # size /\ Candidates(base, target, pos) = {}
    <3> DEFINE r == f[pos + 1]
               b == <<target[pos + 1]>>
    <3>1. r \in V
      BY <1>5, <2>2
    <3>2. b \in Seq(Nat)
      BY <1>0, <2>2
    <3>3. InstructionsStep(f, base, target, pos) = [r EXCEPT !.inserts = b \o @]
      BY <1>1, <2>2
    <3> DEFINE w == r.inserts
    <3>4. w \in Seq(Nat)
      BY <3>1
    <3> HIDE DEF r, b, w
    <3>5. b \o w \in Seq(Nat)
      BY <3>2, <3>4, ConcatProperties
    <3>6. [r EXCEPT !.inserts = b \o @] \in V
      BY <3>1, <3>5 DEF w
    <3> QED BY <3>3, <3>6
  <2>3. CASE pos # size /\ Candidates(base, target, pos) # {}
    <3> DEFINE r == f[pos + len(pos)]
               w == r.inserts
               c == r.code
               u == EmitCopies(off(pos), len(pos))
               x == FlushInserts(w)
    <3>1. r \in V
      BY <1>5, <2>3
    <3>2. w \in Seq(Nat) /\ c \in Seq(Nat)
      BY <3>1
    <3>3. u \in Seq(Nat)
      <4> DEFINE o == off(pos)
                 l == len(pos)
      <4>1. o \in Nat /\ l \in Nat /\ o + l <= MaxSource
        <5>1. o \in Nat /\ l \in Nat /\ o + l <= Len(base)
          BY <1>2, <2>3
        <5> HIDE DEF o, l
        <5> QED BY <1>0, <5>1
      <4> HIDE DEF o, l
      <4>2. EmitCopies(o, l) \in Seq(Nat)
        BY <4>1, CopiesType
      <4> QED BY <4>2 DEF o, l
    <3>4. InstructionsStep(f, base, target, pos) = [inserts |-> <<>>, code |-> (u \o x) \o c]
      BY <1>1, <2>3
    <3> HIDE DEF w
    <3>5. x \in Seq(Nat)
      BY <3>2, InsertsType
    <3> HIDE DEF r, u, x, c
    <3>6. u \o x \in Seq(Nat)
      BY <3>3, <3>5, ConcatProperties
    <3> DEFINE y == u \o x
    <3> HIDE DEF y
    <3>7. y \in Seq(Nat) /\ InstructionsStep(f, base, target, pos) = [inserts |-> <<>>, code |-> y \o c]
      BY <3>4, <3>6 DEF y
    <3>8. y \o c \in Seq(Nat)
      BY <3>2, <3>7, ConcatProperties
    <3> QED BY <3>7, <3>8, EmptySeq
  <2> QED BY <2>1, <2>2, <2>3
<1>6. ASSUME NEW pos \in S, NEW f, NEW g, \A j \in S : m[j] < m[pos] => f[j] = g[j]
      PROVE  InstructionsStep(f, base, target, pos) = InstructionsStep(g, base, target, pos)
  <2>1. pos # size => f[next(pos)] = g[next(pos)]
    <3> HIDE DEF S, m, next
    <3> QED BY <1>3, <1>6
  <2> QED BY <1>1, <2>1
<1> HIDE DEF S, V, m, next
<1>7. IsRecursion(S, V, m, G)
  <2>1. G \in [S -> [[S -> V] -> V]]
    <3>1. \A pos \in S : \A f \in [S -> V] : InstructionsStep(f, base, target, pos) \in V
      BY <1>3, <1>5
    <3> QED BY <3>1
  <2>2. [inserts |-> <<>>, code |-> <<>>] \in V
    BY EmptySeq DEF V
  <2>3. ASSUME NEW p \in S, NEW f \in [S -> V], NEW g \in [S -> V], \A j \in S : m[j] < m[p] => f[j] = g[j]
        PROVE  G[p][f] = G[p][g]
    <3>1. InstructionsStep(f, base, target, p) = InstructionsStep(g, base, target, p)
      BY <1>6, <2>3
    <3> QED BY <3>1
  <2> HIDE DEF G
  <2> QED BY <1>4, <2>1, <2>2, <2>3 DEF IsRecursion
<1>8. PICK f \in [S -> V] : \A p \in S : f[p] = G[p][f]
  <2> HIDE DEF G
  <2> QED BY <1>7, RecursiveFunction
<1>9. f = [p \in S |-> InstructionsStep(f, base, target, p)]
  BY <1>8
<1>10. Instructions(base, target) = CHOOSE g : g = [p \in 0..Len(target) |-> InstructionsStep(g, base, target, p)]
  BY DEF Instructions, InstructionsStep
<1> DEFINE h == Instructions(base, target)
<1>17. S = 0..Len(target)
  BY <1>16 DEF S
<1>11. h = [p \in S |-> InstructionsStep(h, base, target, p)]
  BY <1>9, <1>10, <1>17, Zenon
<1> HIDE DEF h
<1>12. \A p \in S : h[p] = InstructionsStep(h, base, target, p)
  BY <1>11
<1> DEFINE P == {p \in S : h[p] \in V}
<1>13. ASSUME NEW p \in S, \A j \in S : m[j] < m[p] => j \in P PROVE p \in P
  <2>1. p # size => h[next(p)] \in V
    BY <1>3, <1>13
  <2> QED BY <1>5, <1>12, <2>1
<1>14. S \subseteq P
  <2> HIDE DEF P
  <2> QED BY <1>4, <1>13, MeasureInduction
<1>15. h \in [S -> V]
  BY <1>11, <1>14
<1> QED BY <1>12, <1>15, <1>17 DEF h, V

\* The instructions from pos on, when the delta ends with them, give the rest
\* of the target behind the bytes that are still to be inserted.
Rest(base, target, delta, pos, e) ==
    LET r == Instructions(base, target)[pos]
    IN  /\ r.inserts = Part(target, pos, e)
        /\ \A p \in Nat : At(delta, p, r.code) /\ p + Len(r.code) = Len(delta)
              => Gives(base, delta, p, Part(target, e, Len(target)))

LEMMA InstructionsGive ==
    ASSUME NEW base \in Seq(Nat), Len(base) <= MaxSource, NEW target \in Seq(Nat), NEW delta \in Seq(Nat)
    PROVE  \A pos \in 0..Len(target) : \E e \in pos..Len(target) : Rest(base, target, delta, pos, e)
<1> USE DeltaConstants
<1> DEFINE size == Len(target)
           I == Instructions(base, target)
           S == 0..size
           m == [pos \in S |-> size - pos]
           P == {pos \in S : \E e \in pos..size : Rest(base, target, delta, pos, e)}
<1>0. size \in Nat /\ Len(base) \in Nat /\ Len(delta) \in Nat /\ MaxSource \in Nat
  BY LenProperties DEF MaxSource
<1>1. \A pos \in S : I[pos] \in [inserts : Seq(Nat), code : Seq(Nat)] /\ I[pos] = InstructionsStep(I, base, target, pos)
  BY InstructionsDef
<1>2. ASSUME NEW pos \in S, \A j \in S : m[j] < m[pos] => j \in P PROVE pos \in P
  <2> DEFINE inserts == I[pos].inserts
             code == I[pos].code
  <2>1. inserts \in Seq(Nat) /\ code \in Seq(Nat)
    BY <1>1
  <2>2. CASE pos = size
    <3>1. inserts = <<>> /\ code = <<>>
      <4>1. I[pos] = [inserts |-> <<>>, code |-> <<>>]
        BY <1>1, <2>2 DEF InstructionsStep
      <4> QED BY <4>1
    <3>2. Part(target, size, size) = <<>>
      BY <1>0, SubSeqEmpty DEF Part
    <3>3. ASSUME NEW p \in Nat, p + Len(code) = Len(delta) PROVE Gives(base, delta, p, <<>>)
      <4>1. p = Len(delta) /\ p \in 0..Len(delta)
        BY <1>0, <3>1, <3>3, EmptySeq
      <4>2. Execute(base, delta)[p] = ExecuteStep(Execute(base, delta), base, delta, p)
        BY <4>1, ExecuteDef
      <4>3. Execute(base, delta)[p] = Ok(<<>>, Len(delta))
        BY <4>1, <4>2 DEF ExecuteStep
      <4> QED BY <4>1, <4>3 DEF Gives
    <3>4. Rest(base, target, delta, pos, size)
      BY <2>2, <3>1, <3>2, <3>3 DEF Rest
    <3> QED BY <1>0, <2>2, <3>4
  <2>3. CASE pos # size /\ Candidates(base, target, pos) = {}
    <3> DEFINE q == pos + 1
               r == I[q]
    <3>1. q \in S /\ m[q] < m[pos]
      BY <1>0, <2>3
    <3>2. PICK e \in q..size : Rest(base, target, delta, q, e)
      BY <1>2, <3>1
    <3>3. I[pos] = [r EXCEPT !.inserts = <<target[pos + 1]>> \o @]
      BY <1>1, <2>3 DEF InstructionsStep
    <3>4. code = r.code /\ inserts = <<target[pos + 1]>> \o r.inserts
      <4>1. r \in [inserts : Seq(Nat), code : Seq(Nat)]
        BY <1>1, <3>1
      <4> HIDE DEF r
      <4> QED BY <3>3, <4>1
    <3>5. r.inserts = Part(target, q, e)
      BY <3>2 DEF Rest
    <3>6. Part(target, pos, e) = <<target[pos + 1]>> \o Part(target, q, e)
      <4>1. pos + 1 \in 1..Len(target) /\ e \in (pos + 1)..Len(target)
        BY <1>0, <2>3
      <4> QED BY <4>1, SubSeqRecursiveFirst DEF Part
    <3>7. \A p \in Nat : At(delta, p, r.code) /\ p + Len(r.code) = Len(delta)
             => Gives(base, delta, p, Part(target, e, Len(target)))
      BY <3>2 DEF Rest
    <3>8. e \in pos..size
      BY <1>0, <3>1
    <3> HIDE DEF r, I
    <3>9. Rest(base, target, delta, pos, e)
      BY <3>4, <3>5, <3>6, <3>7 DEF Rest, I
    <3> QED BY <3>8, <3>9
  <2>4. CASE pos # size /\ Candidates(base, target, pos) # {}
    <3> DEFINE off == BestOffset(base, target, pos)
               len == MatchLength(base, off, target, pos)
               q == pos + len
               r == I[q]
               u == EmitCopies(off, len)
               x == FlushInserts(r.inserts)
               y == u \o x
    <3>1. /\ off \in Nat /\ len \in Nat /\ len > 0 /\ off + len <= Len(base) /\ pos + len <= size
          /\ Part(base, off, off + len) = Part(target, pos, pos + len)
      BY <2>4, BestMatch
    <3>2. I[pos] = [inserts |-> <<>>, code |-> y \o r.code]
      BY <1>1, <2>4 DEF InstructionsStep
    <3>3. u \in Seq(Nat)
      <4>1. off \in Nat /\ len \in Nat /\ off + len <= MaxSource
        <5> HIDE DEF off, len
        <5> QED BY <1>0, <3>1
      <4> QED BY <4>1, CopiesType
    <3> HIDE DEF off, len
    <3>4. q \in S /\ m[q] < m[pos] /\ pos <= q /\ q <= Len(target) /\ q \in Nat /\ pos \in Nat
      BY <1>0, <3>1
    <3> HIDE DEF q
    <3>5. PICK e \in q..size : Rest(base, target, delta, q, e)
      <4> HIDE DEF S, m
      <4> QED BY <1>2, <3>4
    <3> DEFINE w == r.inserts
               c == r.code
    <3>6. w \in Seq(Nat) /\ c \in Seq(Nat)
      <4>1. r \in [inserts : Seq(Nat), code : Seq(Nat)]
        BY <1>1, <3>4
      <4> QED BY <4>1
    <3>7. w = Part(target, q, e)
      BY <3>5 DEF Rest
    <3>8. \A p \in Nat : At(delta, p, c) /\ p + Len(c) = Len(delta)
             => Gives(base, delta, p, Part(target, e, Len(target)))
      BY <3>5 DEF Rest
    <3>9. inserts = <<>> /\ code = y \o c
      <4> DEFINE i == I[pos]
                 z == y \o c
      <4>1. i = [inserts |-> <<>>, code |-> z]
        BY <3>2
      <4> HIDE DEF i, z
      <4>2. i.inserts = <<>> /\ i.code = z
        BY <4>1
      <4> QED BY <4>2 DEF i, z
    <3> HIDE DEF w, c, r
    <3>10. x \in Seq(Nat)
      BY <3>6, InsertsType DEF w
    <3>11. x = FlushInserts(w)
      BY DEF w
    <3> HIDE DEF u, x
    <3>12. y \in Seq(Nat) /\ Len(y) = Len(u) + Len(x) /\ Len(u) \in Nat /\ Len(x) \in Nat /\ Len(c) \in Nat
      BY <3>3, <3>6, <3>10, ConcatProperties, LenProperties
    <3>19. y = u \o x
      OBVIOUS
    <3> HIDE DEF y, code
    <3>13. /\ e \in Nat /\ q <= e /\ e <= Len(target) /\ Len(target) \in Nat /\ Len(target) <= Len(target)
           /\ pos <= Len(target)
      BY <1>0, <3>4
    <3> DEFINE tail == Part(target, e, Len(target))
    <3>14. tail \in Seq(Nat)
      BY <3>13, PartProperties
    <3>15. w \o tail = Part(target, q, Len(target))
      <4>1. Part(target, q, e) \o Part(target, e, Len(target)) = Part(target, q, Len(target))
        BY <3>4, <3>13, NatPartsJoin, ZenonT(60)
      <4> QED BY <3>7, <4>1
    <3>16. Part(target, q, Len(target)) \in Seq(Nat)
      BY <3>4, <3>13, PartProperties
    <3>17. Part(target, pos, q) \o Part(target, q, Len(target)) = Part(target, pos, Len(target))
      BY <3>4, <3>13, PartsJoin
    <3> HIDE DEF tail
    <3>18. ASSUME NEW p \in Nat, At(delta, p, code), p + Len(code) = Len(delta)
           PROVE  Gives(base, delta, p, Part(target, pos, Len(target)))
      <4>1. At(delta, p, y \o c)
        BY <3>9, <3>18
      <4>2. At(delta, p, y) /\ At(delta, p + Len(y), c) /\ Len(code) = Len(y) + Len(c)
        BY <3>6, <3>9, <3>12, <4>1, AtConcat, ConcatProperties
      <4>3. At(delta, p, u \o x)
        BY <3>19, <4>2
      <4>4. At(delta, p, u) /\ At(delta, p + Len(u), x)
        BY <3>3, <3>10, <4>3, AtConcat
      <4>5. /\ p + Len(y) \in Nat /\ (p + Len(y)) + Len(c) = Len(delta)
            /\ p + Len(u) \in Nat /\ (p + Len(u)) + Len(x) = p + Len(y)
        BY <3>12, <3>18, <4>2
      <4>6. Gives(base, delta, p + Len(y), tail)
        BY <3>8, <4>2, <4>5 DEF tail
      <4>7. Gives(base, delta, p + Len(u), w \o tail)
        <5> DEFINE pp == p + Len(u)
        <5>1. pp \in Nat /\ At(delta, pp, FlushInserts(w)) /\ Gives(base, delta, pp + Len(FlushInserts(w)), tail)
          BY <3>11, <4>4, <4>5, <4>6
        <5> HIDE DEF pp
        <5>2. Gives(base, delta, pp, w \o tail)
          BY <3>6, <3>14, <5>1, InsertsGive
        <5> QED BY <5>2 DEF pp
      <4>8. Gives(base, delta, p + Len(u), Part(target, q, Len(target)))
        BY <3>15, <4>7
      <4> DEFINE v == Part(target, q, Len(target))
      <4>9. v \in Seq(Nat)
        BY <3>16
      <4>11. Gives(base, delta, p + Len(u), v)
        BY <4>8
      <4> HIDE DEF v
      <4>10. Gives(base, delta, p, Part(base, off, off + len) \o v)
        BY <3>1, <4>4, <4>9, <4>11, CopiesGive DEF u
      <4> QED BY <3>1, <3>17, <4>10 DEF v, q
    <3>20. Part(target, pos, pos) = <<>>
      BY SubSeqEmpty DEF Part
    <3>21. Rest(base, target, delta, pos, pos)
      BY <3>9, <3>18, <3>20 DEF Rest, code
    <3>22. pos \in pos..size
      BY <1>0, <3>4
    <3> QED BY <3>21, <3>22
  <2> QED BY <2>2, <2>3, <2>4
<1>3. \A pos \in S : m[pos] \in Nat
  BY <1>0
<1>4. S \subseteq P
  <2> HIDE DEF S, m, P
  <2> QED BY <1>2, <1>3, MeasureInduction
<1> QED BY <1>4

\* Applying the delta that compute_delta makes between two contents gives the
\* target, whatever they are, when the source is not longer than the offset of
\* a copy can say.
THEOREM DeltaRoundTrip ==
    ASSUME NEW base \in Seq(Nat), Len(base) <= MaxSource, NEW target \in Seq(Nat)
    PROVE  LET r == ApplyDelta(base, ComputeDelta(base, target))
           IN  r.status = "ok" /\ r.value = target
<1> USE DeltaConstants
<1> DEFINE all == Instructions(base, target)[0]
           a == EncodeSize[Len(base)]
           b == EncodeSize[Len(target)]
           w == all.inserts
           c == all.code
           x == FlushInserts(w)
           ab == a \o b
           abx == ab \o x
           delta == abx \o c
           n == Len(target)
<1>0. Len(base) \in Nat /\ n \in Nat /\ 0 \in 0..n
  BY LenProperties
<1>1. ComputeDelta(base, target) = delta
  BY Zenon DEF ComputeDelta
<1>2. a \in Seq(Nat) /\ b \in Seq(Nat)
  BY <1>0, EncodeSizeDef
<1>3. w \in Seq(Nat) /\ c \in Seq(Nat)
  <2>1. all \in [inserts : Seq(Nat), code : Seq(Nat)]
    BY <1>0, InstructionsDef
  <2> QED BY <2>1
<1>4. \A d \in Seq(Nat) : \E e \in 0..n : Rest(base, target, d, 0, e)
  BY <1>0, InstructionsGive
<1>19. \A d, e : Rest(base, target, d, 0, e) =>
         /\ w = Part(target, 0, e)
         /\ \A p \in Nat : At(d, p, c) /\ p + Len(c) = Len(d) => Gives(base, d, p, Part(target, e, n))
  BY DEF Rest
<1> HIDE DEF w, c, all
<1>5. x \in Seq(Nat)
  BY <1>3, InsertsType
<1>20. x = FlushInserts(w) /\ a = EncodeSize[Len(base)] /\ b = EncodeSize[Len(target)]
  OBVIOUS
<1> HIDE DEF a, b, x
<1>6. ab \in Seq(Nat) /\ Len(ab) = Len(a) + Len(b)
  BY <1>2, ConcatProperties
<1>21. ab = a \o b
  OBVIOUS
<1> HIDE DEF ab
<1>7. abx \in Seq(Nat) /\ Len(abx) = Len(ab) + Len(x)
  BY <1>5, <1>6, ConcatProperties
<1>22. abx = ab \o x
  OBVIOUS
<1> HIDE DEF abx
<1>8. delta \in Seq(Nat) /\ Len(delta) = Len(abx) + Len(c)
  BY <1>3, <1>7, ConcatProperties
<1>23. delta = abx \o c
  OBVIOUS
<1> HIDE DEF delta
<1>9. /\ Len(a) \in Nat /\ Len(b) \in Nat /\ Len(x) \in Nat /\ Len(c) \in Nat /\ Len(delta) \in Nat
      /\ Len(ab) \in Nat /\ Len(abx) \in Nat
  BY <1>2, <1>3, <1>5, <1>6, <1>7, <1>8, LenProperties
<1>10. At(delta, 0, delta)
  BY <1>9 DEF At
<1>11. At(delta, 0, abx) /\ At(delta, Len(abx), c)
  <2>1. At(delta, 0, abx \o c)
    BY <1>10, <1>23
  <2>2. At(delta, 0, abx) /\ At(delta, 0 + Len(abx), c)
    BY <1>3, <1>7, <1>8, <2>1, AtConcat
  <2> QED BY <1>9, <2>2
<1>12. At(delta, 0, ab) /\ At(delta, Len(ab), x)
  <2>1. At(delta, 0, ab \o x)
    BY <1>11, <1>22
  <2>2. At(delta, 0, ab) /\ At(delta, 0 + Len(ab), x)
    BY <1>5, <1>6, <1>8, <2>1, AtConcat
  <2> QED BY <1>9, <2>2
<1>13. At(delta, 0, a) /\ At(delta, Len(a), b)
  <2>1. At(delta, 0, a \o b)
    BY <1>12, <1>21
  <2>2. At(delta, 0, a) /\ At(delta, 0 + Len(a), b)
    BY <1>2, <1>8, <2>1, AtConcat
  <2> QED BY <1>9, <2>2
<1>14. ReadSize(delta, 0) = Ok(Len(base), Len(a))
  <2>1. ReadSize(delta, 0) = Ok(Len(base), 0 + Len(a))
    BY <1>0, <1>8, <1>13, <1>20, SizeRead, Zenon
  <2> QED BY <1>9, <2>1
<1>15. ReadSize(delta, Len(a)) = Ok(n, Len(ab))
  <2>1. ReadSize(delta, Len(a)) = Ok(n, Len(a) + Len(b))
    BY <1>0, <1>8, <1>9, <1>13, <1>20, SizeRead, Zenon
  <2> QED BY <1>6, <2>1
<1>16. Gives(base, delta, Len(ab), target \o <<>>)
  <2>1. PICK e \in 0..n : Rest(base, target, delta, 0, e)
    BY <1>4, <1>8
  <2>2. w = Part(target, 0, e)
    BY <1>19, <2>1
  <2>3. Gives(base, delta, Len(abx), Part(target, e, n))
    BY <1>8, <1>9, <1>11, <1>19, <2>1
  <2> DEFINE tail == Part(target, e, n)
  <2>7. e \in Nat /\ 0 \in Nat /\ n \in Nat /\ 0 <= e /\ e <= n /\ n <= Len(target) /\ e <= Len(target)
    BY <1>0
  <2>4. tail \in Seq(Nat)
    BY <2>7, PartProperties
  <2>5. w \o tail = Part(target, 0, n)
    BY <2>2, <2>7, PartsJoin
  <2> HIDE DEF tail
  <2>6. Gives(base, delta, Len(ab), w \o tail)
    <3>1. Gives(base, delta, Len(ab) + Len(FlushInserts(w)), tail)
      BY <1>7, <1>20, <2>3 DEF tail
    <3> QED BY <1>3, <1>8, <1>9, <1>12, <1>20, <2>4, <3>1, InsertsGive
  <2>8. Part(target, 0, n) = target /\ target \o <<>> = target
    <3>1. SubSeq(target, 1, Len(target)) = target
      BY SubSeqFull
    <3>2. 0 + 1 = 1
      OBVIOUS
    <3> QED BY <3>1, <3>2, ConcatEmptySeq DEF Part
  <2> QED BY <2>5, <2>6, <2>8
<1>17. Execute(base, delta)[Len(ab)] = Ok(target, Len(delta))
  <2>1. target \o <<>> = target
    BY ConcatEmptySeq
  <2> QED BY <1>16, <2>1 DEF Gives
<1>18. ApplyDelta(base, delta) = Ok(target, Len(delta))
  <2>1. \A v, k : Ok(v, k).status = "ok" /\ Ok(v, k).value = v /\ Ok(v, k).next = k
    BY DEF Ok
  <2>2. ReadSize(delta, 0).status = "ok" /\ ReadSize(delta, 0).next = Len(a)
    BY <1>14, <2>1
  <2>3. /\ ReadSize(delta, Len(a)).status = "ok" /\ ReadSize(delta, Len(a)).next = Len(ab)
        /\ ReadSize(delta, Len(a)).value = n
    BY <1>15, <2>1
  <2>4. Execute(base, delta)[Len(ab)].status = "ok" /\ Len(Execute(base, delta)[Len(ab)].value) = n
    BY <1>17, <2>1
  <2> QED BY <1>17, <2>2, <2>3, <2>4, Zenon DEF ApplyDelta
<1> QED BY <1>1, <1>18 DEF Ok

-----------------------------------------------------------------------------
(* Numbers in a pack *)

\* The start of an entry is at least one byte.
LEMMA HeaderType ==
    ASSUME NEW type \in 0..7, NEW size \in Nat
    PROVE  /\ EncodePackHeader(type, size) \in Seq(Nat)
           /\ Len(EncodePackHeader(type, size)) \in Nat /\ Len(EncodePackHeader(type, size)) > 0
<1> USE PackConstants
<1> DEFINE d == size % Nibble
           q == size \div Nibble
           b == 8 * Nibble + type * Nibble + d
           w == EncodeSize[q]
<1>1. d \in Nat /\ q \in Nat
  BY Division
<1> HIDE DEF d, q
<1>2. w \in Seq(Nat) /\ b \in Nat /\ Len(w) \in Nat
  BY <1>1, EncodeSizeDef, LenProperties
<1>3. EncodePackHeader(type, size) = IF size < Nibble THEN <<type * Nibble + size>> ELSE <<b>> \o w
  BY DEF EncodePackHeader, d, q
<1> HIDE DEF b, w
<1>4. CASE size < Nibble
  <2>1. type * Nibble + size \in Nat
    OBVIOUS
  <2> QED BY <1>3, <1>4, <2>1
<1>5. CASE ~(size < Nibble)
  <2> DEFINE u == <<b>>
  <2>1. u \in Seq(Nat) /\ Len(u) = 1
    BY <1>2
  <2> HIDE DEF u
  <2>2. u \o w \in Seq(Nat) /\ Len(u \o w) = Len(u) + Len(w)
    BY <1>2, <2>1, ConcatProperties
  <2>3. EncodePackHeader(type, size) = u \o w
    BY <1>3, <1>5 DEF u
  <2> QED BY <1>2, <2>1, <2>2, <2>3
<1> QED BY <1>4, <1>5

\* Type and size are read as they were written (encode_pack_header, parse).
LEMMA HeaderRead ==
    ASSUME NEW D, Nat \subseteq D, NEW s \in Seq(D), NEW type \in 0..7, NEW size \in Nat, NEW pos \in Nat,
           At(s, pos, EncodePackHeader(type, size))
    PROVE  ReadPackHeader(s, pos) = Ok([type |-> type, size |-> size], pos + Len(EncodePackHeader(type, size)))
<1> USE PackConstants
<1> DEFINE d == size % Nibble
           q == size \div Nibble
           w == EncodeSize[q]
           b == s[pos + 1]
           low == b % Nibble
           kind == (b \div Nibble) % 8
<1>1. d \in 0..(Nibble - 1) /\ q \in Nat /\ size = Nibble * q + d /\ (size < Nibble => d = size)
  BY Division
<1>2. EncodePackHeader(type, size) = IF size < Nibble THEN <<type * Nibble + size>>
                                     ELSE <<8 * Nibble + type * Nibble + d>> \o w
  BY DEF EncodePackHeader
<1>3. ReadPackHeader(s, pos) =
         IF b < 8 * Nibble THEN Ok([type |-> kind, size |-> low], pos + 1)
         ELSE IF ReadSize(s, pos + 1).status = "ok"
         THEN Ok([type |-> kind, size |-> low + Nibble * ReadSize(s, pos + 1).value], ReadSize(s, pos + 1).next)
         ELSE ReadSize(s, pos + 1)
  BY Zenon DEF ReadPackHeader, AndThen
<1> HIDE DEF d, q
<1>4. type * Nibble = Nibble * type /\ Nibble * type \in Nat /\ Nibble * type <= Nibble * 7
  <2>1. \A a \in Nat : Nibble * (a + 1) = Nibble * a + Nibble /\ Nibble * a \in Nat
    OBVIOUS
  <2>2. Nibble * 7 = Nibble * type + Nibble * (7 - type) /\ Nibble * (7 - type) \in Nat
    OBVIOUS
  <2> QED BY <2>2
<1>5. type % 8 = type /\ (8 + type) % 8 = type
  OBVIOUS
<1>6. CASE size < Nibble
  <2>1. EncodePackHeader(type, size) = <<type * Nibble + size>>
    BY <1>2, <1>6
  <2>2. b = Nibble * type + d
    BY <1>1, <1>4, <1>6, <2>1 DEF At
  <2>3. b \div Nibble = type /\ b % Nibble = d
    <3> HIDE DEF b
    <3>1. type \in Nat /\ d \in 0..(Nibble - 1)
      BY <1>1
    <3>2. (Nibble * type + d) \div Nibble = type /\ (Nibble * type + d) % Nibble = d
      BY <3>1, Composed
    <3> QED BY <2>2, <3>2
  <2>4. b < 8 * Nibble
    BY <1>1, <1>4, <2>2
  <2> HIDE DEF b
  <2>5. ReadPackHeader(s, pos) = Ok([type |-> kind, size |-> low], pos + 1)
    BY <1>3, <2>4
  <2> QED BY <1>1, <1>5, <1>6, <2>1, <2>3, <2>5
<1>7. CASE ~(size < Nibble)
  <2> DEFINE c == 8 * Nibble + type * Nibble + d
  <2>1. c \in Nat /\ w \in Seq(Nat) /\ c = Nibble * (8 + type) + d /\ ~(c < 8 * Nibble) /\ Len(w) \in Nat
    BY <1>1, <1>4, EncodeSizeDef, LenProperties
  <2>2. EncodePackHeader(type, size) = <<c>> \o w
    BY <1>2, <1>7
  <2> HIDE DEF c, w
  <2>3. w \in Seq(D) /\ c \in D
    BY <2>1, SeqMonotonic
  <2>4. b = c /\ At(s, pos + 1, w)
    BY <2>2, <2>3, AtFirst
  <2>5. Len(EncodePackHeader(type, size)) = 1 + Len(w)
    <3>1. <<c>> \in Seq(Nat) /\ Len(<<c>>) = 1
      BY <2>1
    <3> QED BY <2>1, <2>2, <3>1, ConcatProperties
  <2>6. c \div Nibble = 8 + type /\ c % Nibble = d
    <3>1. 8 + type \in Nat /\ d \in 0..(Nibble - 1)
      BY <1>1
    <3>2. (Nibble * (8 + type) + d) \div Nibble = 8 + type /\ (Nibble * (8 + type) + d) % Nibble = d
      BY <3>1, Composed
    <3> QED BY <2>1, <3>2
  <2>7. ReadSize(s, pos + 1) = Ok(q, (pos + 1) + Len(w))
    <3>1. pos + 1 \in Nat
      OBVIOUS
    <3> QED BY <1>1, <2>4, <3>1, SizeRead DEF w
  <2>8. ReadSize(s, pos + 1).status = "ok" /\ ReadSize(s, pos + 1).value = q /\ ReadSize(s, pos + 1).next = (pos + 1) + Len(w)
    BY <2>7 DEF Ok
  <2>9. ReadPackHeader(s, pos) = Ok([type |-> kind, size |-> low + Nibble * q], (pos + 1) + Len(w))
    BY <1>3, <2>1, <2>4, <2>8
  <2>10. kind = type /\ low + Nibble * q = size
    BY <1>1, <1>5, <2>4, <2>6
  <2>11. (pos + 1) + Len(w) = pos + Len(EncodePackHeader(type, size))
    BY <2>1, <2>5
  <2> QED BY <2>9, <2>10, <2>11
<1> QED BY <1>6, <1>7

\* The recursion of encode_ofs_offset.
OfsStep(f, v) == IF v = 0 THEN <<>> ELSE f[(v - 1) \div High] \o <<((v - 1) % High) + High>>

\* High digits are marked.
Marked == {d \in Nat : d >= High}

LEMMA OfsDigitsDef ==
    \A v \in Nat : OfsDigits[v] = OfsStep(OfsDigits, v) /\ OfsDigits[v] \in Seq(Marked)
<1> USE DeltaConstants
<1> DEFINE V == Seq(Marked)
           m == [v \in Nat |-> v]
           G == [v \in Nat |-> [f \in [Nat -> V] |-> OfsStep(f, v)]]
<1>1. \A v \in Nat : v # 0 => (v - 1) \div High \in Nat /\ m[(v - 1) \div High] < m[v] /\ ((v - 1) % High) + High \in Marked
  <2> TAKE v \in Nat
  <2> HAVE v # 0
  <2> DEFINE u == v - 1
             q == u \div High
             d == u % High
  <2>1. u \in Nat
    OBVIOUS
  <2> HIDE DEF u
  <2>2. q \in Nat /\ d \in 0..(High - 1) /\ (u > 0 => q < u) /\ (u < High => q = 0)
    BY <2>1, Division
  <2>3. q < v
    BY <2>1, <2>2 DEF u
  <2> HIDE DEF q, d
  <2>4. d + High \in Marked
    BY <2>2 DEF Marked
  <2> QED BY <2>2, <2>3, <2>4 DEF q, d, u
<1>2. ASSUME NEW v \in Nat, NEW f \in [Nat -> V] PROVE OfsStep(f, v) \in V
  <2>1. CASE v = 0
    BY <2>1 DEF OfsStep
  <2>2. CASE v # 0
    <3> DEFINE d == ((v - 1) % High) + High
               w == f[(v - 1) \div High]
    <3>1. d \in Marked /\ w \in Seq(Marked)
      <4>1. (v - 1) \div High \in Nat /\ d \in Marked
        BY <1>1, <2>2
      <4> QED BY <4>1
    <3>2. OfsStep(f, v) = w \o <<d>>
      BY <2>2 DEF OfsStep
    <3> HIDE DEF d, w
    <3>3. <<d>> \in Seq(Marked)
      BY <3>1
    <3> QED BY <3>1, <3>2, <3>3, ConcatProperties
  <2> QED BY <2>1, <2>2
<1>3. G \in [Nat -> [[Nat -> V] -> V]]
  <2> HIDE DEF V
  <2> QED BY <1>2
<1>4. ASSUME NEW v \in Nat, NEW f, NEW g, \A w \in Nat : m[w] < m[v] => f[w] = g[w]
      PROVE  OfsStep(f, v) = OfsStep(g, v)
  BY <1>1, <1>4 DEF OfsStep
<1>5. IsRecursion(Nat, V, m, G)
  <2>1. (\A v \in Nat : m[v] \in Nat) /\ V # {}
    BY EmptySeq
  <2>2. ASSUME NEW v \in Nat, NEW f \in [Nat -> V], NEW g \in [Nat -> V],
               \A w \in Nat : m[w] < m[v] => f[w] = g[w]
        PROVE  G[v][f] = G[v][g]
    <3>1. OfsStep(f, v) = OfsStep(g, v)
      BY <1>4, <2>2
    <3> HIDE DEF V
    <3> QED BY <3>1
  <2> HIDE DEF V, m, G
  <2> QED BY <1>3, <2>1, <2>2 DEF IsRecursion
<1>6. PICK f \in [Nat -> V] : \A v \in Nat : f[v] = G[v][f]
  <2> HIDE DEF V, m, G
  <2> QED BY <1>5, RecursiveFunction
<1>7. \A v \in Nat : f[v] = OfsStep(f, v)
  <2> HIDE DEF V
  <2> QED BY <1>6
<1>8. f = [v \in Nat |-> OfsStep(f, v)]
  BY <1>6, <1>7
<1>9. OfsDigits = [v \in Nat |-> OfsStep(OfsDigits, v)]
  <2>1. OfsDigits = CHOOSE g : g = [v \in Nat |-> OfsStep(g, v)]
    BY Zenon DEF OfsDigits, OfsStep
  <2> QED BY <1>8, <2>1, Zenon
<1>10. \A v \in Nat : OfsDigits[v] = OfsStep(OfsDigits, v)
  BY <1>9
<1>11. \A v \in Nat : f[v] = OfsDigits[v]
  <2> DEFINE N == Nat
  <2>1. ASSUME NEW v \in N, \A w \in N : m[w] < m[v] => f[w] = OfsDigits[w]
        PROVE  f[v] = OfsDigits[v]
    <3>1. OfsStep(f, v) = OfsStep(OfsDigits, v)
      BY <1>4, <2>1
    <3>2. f[v] = OfsStep(f, v) /\ OfsDigits[v] = OfsStep(OfsDigits, v)
      BY <1>7, <1>10
    <3> QED BY <3>1, <3>2, Zenon
  <2>2. \A v \in N : m[v] \in Nat
    OBVIOUS
  <2> DEFINE P == {v \in N : f[v] = OfsDigits[v]}
  <2>3. ASSUME NEW v \in N, \A w \in N : m[w] < m[v] => w \in P PROVE v \in P
    BY <2>1, <2>3
  <2> HIDE DEF m, N, P
  <2>4. N \subseteq P
    BY <2>2, <2>3, MeasureInduction
  <2> QED BY <2>4 DEF N, P
<1> QED BY <1>6, <1>10, <1>11

\* The recursion of reading an offset whose bytes, from pos on to last, are numbers.
UptoStep(f, s, pos, k) == IF k = pos + 1 THEN s[k] % High ELSE (f[k - 1] + 1) * High + (s[k] % High)

\* The function that ReadOfsOffset defines.
Upto(s, pos, last) == CHOOSE g : g = [k \in (pos + 1)..last |-> UptoStep(g, s, pos, k)]

LEMMA UptoDef ==
    ASSUME NEW s, NEW pos \in Nat, NEW last \in Nat, \A k \in (pos + 1)..last : s[k] \in Nat
    PROVE  \A k \in (pos + 1)..last : Upto(s, pos, last)[k] = UptoStep(Upto(s, pos, last), s, pos, k)
<1> USE DeltaConstants
<1> DEFINE S == (pos + 1)..last
           V == Nat
           m == [k \in S |-> k]
           G == [k \in S |-> [f \in [S -> V] |-> UptoStep(f, s, pos, k)]]
<1>1. ASSUME NEW k \in S PROVE k \in Nat /\ s[k] % High \in Nat /\ (k # pos + 1 => k - 1 \in S /\ m[k - 1] < m[k])
  <2>1. k \in Nat /\ (k # pos + 1 => k - 1 \in S /\ k - 1 < k)
    OBVIOUS
  <2>2. s[k] % High \in Nat
    BY Division
  <2> HIDE DEF S
  <2> QED BY <2>1, <2>2
<1>2. ASSUME NEW k \in S, NEW f \in [S -> V] PROVE UptoStep(f, s, pos, k) \in V
  <2> DEFINE d == s[k] % High
             r == f[k - 1]
  <2>1. d \in Nat /\ (k # pos + 1 => r \in Nat)
    BY <1>1
  <2>2. UptoStep(f, s, pos, k) = IF k = pos + 1 THEN d ELSE (r + 1) * High + d
    BY DEF UptoStep
  <2> HIDE DEF d, r
  <2>3. \A x \in Nat : (x + 1) * High + d \in Nat
    BY <2>1
  <2> QED BY <2>1, <2>2, <2>3
<1>3. G \in [S -> [[S -> V] -> V]]
  <2> HIDE DEF S, V
  <2> QED BY <1>2
<1>4. ASSUME NEW k \in S, NEW f, NEW g, \A j \in S : m[j] < m[k] => f[j] = g[j]
      PROVE  UptoStep(f, s, pos, k) = UptoStep(g, s, pos, k)
  BY <1>1, <1>4 DEF UptoStep
<1>5. IsRecursion(S, V, m, G)
  <2>1. (\A k \in S : m[k] \in Nat) /\ V # {}
    BY <1>1
  <2>2. ASSUME NEW k \in S, NEW f \in [S -> V], NEW g \in [S -> V],
               \A j \in S : m[j] < m[k] => f[j] = g[j]
        PROVE  G[k][f] = G[k][g]
    <3>1. UptoStep(f, s, pos, k) = UptoStep(g, s, pos, k)
      BY <1>4, <2>2
    <3> HIDE DEF S, V
    <3> QED BY <3>1
  <2> HIDE DEF S, V, m, G
  <2> QED BY <1>3, <2>1, <2>2 DEF IsRecursion
<1>6. PICK f \in [S -> V] : \A k \in S : f[k] = G[k][f]
  <2> HIDE DEF S, V, m, G
  <2> QED BY <1>5, RecursiveFunction
<1>7. f = [k \in S |-> UptoStep(f, s, pos, k)]
  <2> HIDE DEF S, V
  <2> QED BY <1>6
<1> DEFINE h == Upto(s, pos, last)
<1>8. h = [k \in S |-> UptoStep(h, s, pos, k)]
  BY <1>7, Zenon DEF Upto
<1> HIDE DEF h
<1> QED BY <1>8 DEF h

\* The digits of a number v above zero give v - 1.
DigitsGive(s, pos, last, f, v) ==
    v > 0 /\ At(s, pos, OfsDigits[v]) /\ pos + Len(OfsDigits[v]) <= last
    => Len(OfsDigits[v]) > 0 /\ f[pos + Len(OfsDigits[v])] = v - 1

LEMMA OfsDigitsRead ==
    ASSUME NEW D, Marked \subseteq D, NEW s \in Seq(D), NEW pos \in Nat, NEW last \in Nat, NEW f,
           \A k \in (pos + 1)..last : f[k] = UptoStep(f, s, pos, k)
    PROVE  \A v \in Nat : DigitsGive(s, pos, last, f, v)
<1> USE DeltaConstants
<1> DEFINE reads(v) == DigitsGive(s, pos, last, f, v)
           N == Nat
           P == {v \in N : reads(v)}
           m == [v \in N |-> v]
<1>1. ASSUME NEW v \in Nat, \A u \in Nat : u < v => reads(u) PROVE reads(v)
  <2> SUFFICES ASSUME v > 0, At(s, pos, OfsDigits[v]), pos + Len(OfsDigits[v]) <= last
               PROVE  Len(OfsDigits[v]) > 0 /\ f[pos + Len(OfsDigits[v])] = v - 1
    BY DEF DigitsGive
  <2> DEFINE u == v - 1
             q == u \div High
             d == u % High
             w == OfsDigits[q]
             b == d + High
             n == Len(w)
  <2>1. u \in Nat /\ u < v
    OBVIOUS
  <2>2. q \in Nat /\ d \in 0..(High - 1) /\ u = High * q + d /\ q < v
    <3> HIDE DEF u
    <3>1. q \in Nat /\ d \in 0..(High - 1) /\ u = High * q + d /\ (u > 0 => q < u) /\ (u < High => q = 0)
      BY <2>1, Division
    <3> HIDE DEF q, d
    <3> QED BY <2>1, <3>1
  <2>3. OfsDigits[v] = w \o <<b>>
    <3>1. OfsDigits[v] = OfsStep(OfsDigits, v) /\ v # 0
      BY OfsDigitsDef
    <3> QED BY <3>1, Zenon DEF OfsStep
  <2>4. reads(q)
    BY <1>1, <2>2
  <2>5. w \in Seq(Marked) /\ b \in Marked /\ b \in Nat /\ n \in Nat
    BY <2>2, OfsDigitsDef, LenProperties DEF Marked
  <2>6. b % High = d
    <3>1. b = High * 1 + d
      BY <2>2
    <3> HIDE DEF b, d
    <3> QED BY <2>2, <3>1, Composed
  <2>7. q = 0 => n = 0
    BY OfsDigitsDef, EmptySeq DEF OfsStep
  <2> HIDE DEF q, d, b, w
  <2> DEFINE x == <<b>>
  <2>8. w \in Seq(D) /\ x \in Seq(D) /\ Len(x) = 1 /\ x[1] = b
    <3>1. w \in Seq(D)
      BY <2>5, SeqMonotonic
    <3>2. b \in D
      BY <2>5
    <3> QED BY <3>1, <3>2
  <2> HIDE DEF x
  <2>9. At(s, pos, w) /\ At(s, pos + n, x) /\ Len(OfsDigits[v]) = n + 1
    <3>1. OfsDigits[v] = w \o x
      BY <2>3 DEF x
    <3>2. Len(w \o x) = n + 1
      <4>1. Len(w \o x) = Len(w) + Len(x)
        BY <2>8, ConcatProperties
      <4> QED BY <2>8, <4>1
    <3>3. At(s, pos, w \o x)
      BY <3>1
    <3> QED BY <2>8, <3>1, <3>2, <3>3, AtConcat
  <2>10. s[(pos + n) + 1] = b
    BY <2>8, <2>9 DEF At
  <2> HIDE DEF n, u
  <2> DEFINE k == (pos + n) + 1
  <2>11. k \in (pos + 1)..last /\ pos + Len(OfsDigits[v]) = k /\ k - 1 = pos + n /\ (k = pos + 1 <=> n = 0)
    BY <2>5, <2>9
  <2> HIDE DEF k
  <2>12. f[k] = IF n = 0 THEN d ELSE (f[pos + n] + 1) * High + d
    <3>1. f[k] = UptoStep(f, s, pos, k)
      BY <2>11
    <3>2. s[k] = b
      BY <2>10 DEF k
    <3> QED BY <2>6, <2>11, <3>1, <3>2 DEF UptoStep
  <2>13. f[k] = u
    <3>1. CASE q = 0
      BY <2>2, <2>7, <2>12, <3>1
    <3>2. CASE q # 0
      <4>1. n > 0 /\ f[pos + n] = q - 1
        <5>1. q > 0 /\ At(s, pos, w) /\ pos + n <= last
          BY <2>2, <2>5, <2>9, <2>11, <3>2
        <5> QED BY <2>4, <5>1 DEF w, n, DigitsGive
      <4>2. f[k] = ((q - 1) + 1) * High + d
        BY <2>5, <2>12, <4>1
      <4>3. (q - 1) + 1 = q /\ q * High = High * q
        BY <2>2
      <4> QED BY <2>2, <4>2, <4>3
    <3> QED BY <3>1, <3>2
  <2>14. Len(OfsDigits[v]) > 0
    BY <2>5, <2>9
  <2> QED BY <2>11, <2>13, <2>14 DEF u
<1>2. ASSUME NEW v \in N, \A u \in N : m[u] < m[v] => u \in P PROVE v \in P
  BY <1>1, <1>2
<1>3. \A v \in N : m[v] \in Nat
  OBVIOUS
<1>4. N \subseteq P
  <2> HIDE DEF N, P, m
  <2> QED BY <1>2, <1>3, MeasureInduction
<1> QED BY <1>4

\* The offset of a base is read as it was written (encode_ofs_offset, parse).
LEMMA OfsRead ==
    ASSUME NEW D, Nat \subseteq D, NEW s \in Seq(D), NEW off \in Nat, NEW pos \in Nat,
           At(s, pos, EncodeOfsOffset(off))
    PROVE  ReadOfsOffset(s, pos) = Ok(off, pos + Len(EncodeOfsOffset(off)))
<1> USE DeltaConstants
<1> DEFINE q == off \div High
           d == off % High
           w == OfsDigits[q]
           n == Len(w)
           x == <<d>>
           last == (pos + n) + 1
           ends == {k \in (pos + 1)..Len(s) : (\A j \in (pos + 1)..(k - 1) : s[j] >= High) /\ s[k] < High}
           f == Upto(s, pos, last)
<1>1. q \in Nat /\ d \in 0..(High - 1) /\ off = High * q + d
  BY Division
<1>2. EncodeOfsOffset(off) = w \o x
  BY Zenon DEF EncodeOfsOffset
<1>3. w \in Seq(Marked) /\ n \in Nat
  <2> HIDE DEF q
  <2> QED BY <1>1, OfsDigitsDef, LenProperties
<1>15. q = 0 => n = 0
  <2>1. OfsDigits[0] = <<>>
    BY OfsDigitsDef DEF OfsStep
  <2> HIDE DEF q
  <2> QED BY <2>1, EmptySeq
<1> HIDE DEF q, d
<1>4. x \in Seq(D) /\ Len(x) = 1 /\ x[1] = d /\ d \in Nat /\ d \in D
  BY <1>1
<1>5. w \in Seq(D) /\ Marked \subseteq D
  <2>1. Marked \subseteq D
    BY DEF Marked
  <2> QED BY <1>3, <2>1, SeqMonotonic
<1> HIDE DEF x, w
<1>6. Len(w \o x) = n + 1
  <2>1. Len(w \o x) = Len(w) + Len(x)
    BY <1>4, <1>5, ConcatProperties
  <2> QED BY <1>4, <2>1
<1>7. At(s, pos, w) /\ At(s, pos + n, x)
  <2>1. At(s, pos, w \o x)
    BY <1>2
  <2> QED BY <1>4, <1>5, <2>1, AtConcat
<1>8. s[last] = d /\ last <= Len(s) /\ last \in Nat /\ Len(s) \in Nat
  <2>1. s[(pos + n) + 1] = d /\ (pos + n) + 1 <= Len(s)
    BY <1>4, <1>7 DEF At
  <2> QED BY <1>3, <2>1, LenProperties
<1>9. \A j \in (pos + 1)..(last - 1) : s[j] \in Marked
  <2> TAKE j \in (pos + 1)..(last - 1)
  <2>1. j - pos \in 1..n /\ pos + (j - pos) = j
    BY <1>3
  <2>2. s[j] = w[j - pos]
    BY <1>7, <2>1 DEF At
  <2> QED BY <1>3, <2>1, <2>2, ElementOfSeq
<1>10. \A j \in (pos + 1)..last : s[j] \in Nat
  <2>1. \A j \in (pos + 1)..last : j = last \/ j \in (pos + 1)..(last - 1)
    BY <1>8
  <2> QED BY <1>4, <1>8, <1>9, <2>1 DEF Marked
<1>11. ends = {last}
  <2>1. last \in (pos + 1)..Len(s) /\ \A k \in (pos + 1)..Len(s) : k = last \/ k \in (pos + 1)..(last - 1) \/ last \in (pos + 1)..(k - 1)
    BY <1>3, <1>8
  <2>2. ~(s[last] >= High) /\ s[last] < High
    BY <1>1, <1>8
  <2>3. \A j \in (pos + 1)..(last - 1) : s[j] >= High /\ ~(s[j] < High)
    BY <1>9 DEF Marked
  <2> HIDE DEF last
  <2>4. last \in ends
    BY <2>1, <2>2, <2>3
  <2>5. \A k \in ends : k = last
    BY <2>1, <2>2, <2>3
  <2> HIDE DEF ends
  <2> QED BY <2>4, <2>5
<1>12. ReadOfsOffset(s, pos) = Ok(f[last], last)
  <2> DEFINE z == CHOOSE k \in ends : TRUE
  <2>1. ReadOfsOffset(s, pos) = IF ends = {} THEN Fail("panic") ELSE Ok(Upto(s, pos, z)[z], z)
    BY Zenon DEF ReadOfsOffset, Upto, UptoStep
  <2> HIDE DEF last
  <2>2. z = last
    <3> HIDE DEF ends
    <3> QED BY <1>11
  <2> HIDE DEF ends
  <2> HIDE DEF z
  <2> QED BY <1>11, <2>1, <2>2
<1>13. \A k \in (pos + 1)..last : f[k] = UptoStep(f, s, pos, k)
  BY <1>8, <1>10, UptoDef
<1> HIDE DEF f
<1>14. f[last] = off
  <2>1. f[last] = IF n = 0 THEN d ELSE (f[pos + n] + 1) * High + d
    <3>1. last \in (pos + 1)..last /\ last - 1 = pos + n /\ (last = pos + 1 <=> n = 0)
      BY <1>3
    <3>2. d % High = d
      <4>1. d < High /\ d \in Nat
        BY <1>1, <1>4
      <4> QED BY <4>1, Division
    <3>3. f[last] = UptoStep(f, s, pos, last)
      BY <1>13, <3>1
    <3> HIDE DEF last, n
    <3> QED BY <1>8, <3>1, <3>2, <3>3 DEF UptoStep
  <2>2. CASE q = 0
    BY <1>1, <1>15, <2>1, <2>2
  <2>3. CASE q # 0
    <3>1. q > 0 /\ At(s, pos, OfsDigits[q]) /\ pos + Len(OfsDigits[q]) <= last
      BY <1>1, <1>3, <1>7, <2>3 DEF w
    <3>2. \A v \in Nat : DigitsGive(s, pos, last, f, v)
      <4> HIDE DEF last
      <4> QED BY <1>5, <1>8, <1>13, OfsDigitsRead
    <3>3. n > 0 /\ f[pos + n] = q - 1
      BY <1>1, <3>1, <3>2 DEF w, DigitsGive
    <3>5. f[last] = ((q - 1) + 1) * High + d
      BY <1>3, <2>1, <3>3
    <3>6. (q - 1) + 1 = q /\ q * High = High * q
      BY <1>1
    <3> QED BY <1>1, <3>5, <3>6
  <2> QED BY <2>2, <2>3
<1>16. last = pos + Len(EncodeOfsOffset(off))
  BY <1>2, <1>3, <1>6
<1> QED BY <1>12, <1>14, <1>16

LEMMA OfsType ==
    ASSUME NEW off \in Nat
    PROVE  EncodeOfsOffset(off) \in Seq(Nat)
<1> DEFINE w == OfsDigits[off \div High]
           x == <<off % High>>
<1>1. off \div High \in Nat /\ off % High \in Nat
  BY Division, DeltaConstants
<1>2. w \in Seq(Marked) /\ Marked \subseteq Nat
  BY <1>1, OfsDigitsDef DEF Marked
<1>3. w \in Seq(Nat)
  <2> HIDE DEF w
  <2> QED BY <1>2, SeqMonotonic
<1>4. x \in Seq(Nat)
  BY <1>1
<1>5. EncodeOfsOffset(off) = w \o x
  BY Zenon DEF EncodeOfsOffset
<1> HIDE DEF w, x
<1> QED BY <1>3, <1>4, <1>5, ConcatProperties

-----------------------------------------------------------------------------
(* The order of the entries *)

\* A total and transitive relation on 1..n sorts it.
LEMMA Sorts ==
    ASSUME NEW R, NEW n \in Nat,
           \A i, j \in 1..n : i # j => <<i, j>> \in R \/ <<j, i>> \in R,
           \A i, j, k \in 1..n : <<i, j>> \in R /\ <<j, k>> \in R => <<i, k>> \in R
    PROVE  \E p \in [1..n -> 1..n] : \A i, j \in 1..n : i < j => <<p[i], p[j]>> \in R
<1> DEFINE sorts(p, m) == \A i, j \in 1..m : i < j => <<p[i], p[j]>> \in R
           A == {m \in Nat : m <= n => \E p \in [1..m -> 1..m] : sorts(p, m)}
<1>1. 0 \in A
  <2>1. [i \in 1..0 |-> i] \in [1..0 -> 1..0] /\ sorts([i \in 1..0 |-> i], 0)
    OBVIOUS
  <2> QED BY <2>1
<1>2. ASSUME NEW m \in Nat, m \in A PROVE m + 1 \in A
  <2> SUFFICES ASSUME m + 1 <= n PROVE \E q \in [1..(m + 1) -> 1..(m + 1)] : sorts(q, m + 1)
    OBVIOUS
  <2>1. PICK p \in [1..m -> 1..m] : sorts(p, m)
    BY <1>2
  <2> DEFINE new == m + 1
             T == {i \in 1..new : i = new \/ <<new, p[i]>> \in R}
  <2>2. PICK c \in T : \A i \in T : c <= i
    <3>1. T \subseteq Nat /\ new \in T
      OBVIOUS
    <3> HIDE DEF T
    <3> QED BY <3>1, Least
  <2>3. \A i \in 1..m : p[i] \in 1..n /\ p[i] # new /\ new \in 1..n
    BY <2>1
  <2>4. ASSUME NEW i \in 1..m, i < c PROVE <<p[i], new>> \in R
    <3>1. i \notin T
      BY <2>2, <2>4
    <3>2. <<new, p[i]>> \notin R
      BY <3>1
    <3> QED BY <2>3, <3>2
  <2>5. ASSUME NEW i \in 1..m, c <= i PROVE <<new, p[i]>> \in R
    <3>1. c \in 1..m /\ <<new, p[c]>> \in R
      BY <2>2, <2>5
    <3>2. CASE c = i
      BY <3>1, <3>2
    <3>3. CASE c < i
      <4>1. <<p[c], p[i]>> \in R
        BY <2>1, <3>1, <3>3
      <4> HIDE DEF new
      <4> QED BY <2>3, <3>1, <4>1
    <3> QED BY <2>5, <3>1, <3>2, <3>3
  <2> DEFINE q == [i \in 1..new |-> IF i < c THEN p[i] ELSE IF i = c THEN new ELSE p[i - 1]]
  <2>6. c \in 1..new
    BY <2>2
  <2>7. q \in [1..new -> 1..new]
    <3>1. ASSUME NEW i \in 1..new PROVE (IF i < c THEN p[i] ELSE IF i = c THEN new ELSE p[i - 1]) \in 1..new
      <4>1. i < c => i \in 1..m
        BY <2>6
      <4>2. i > c => i - 1 \in 1..m
        BY <2>6
      <4> QED BY <2>1, <2>6, <4>1, <4>2, SMTT(30)
    <3> QED BY <3>1
  <2>8. ASSUME NEW i \in 1..new, NEW j \in 1..new, i < j PROVE <<q[i], q[j]>> \in R
    <3> HIDE DEF T
    <3>1. CASE j < c
      <4>1. i \in 1..m /\ j \in 1..m /\ i < c /\ q[i] = p[i] /\ q[j] = p[j]
        BY <2>6, <2>8, <3>1
      <4> QED BY <2>1, <2>8, <4>1
    <3>2. CASE j = c
      <4>1. i \in 1..m /\ i < c /\ q[i] = p[i] /\ q[j] = new
        BY <2>6, <2>8, <3>2
      <4> QED BY <2>4, <4>1
    <3>3. CASE j > c /\ i < c
      <4>1. i \in 1..m /\ j - 1 \in 1..m /\ i < j - 1 /\ q[i] = p[i] /\ q[j] = p[j - 1]
        BY <2>6, <2>8, <3>3
      <4> QED BY <2>1, <4>1
    <3>4. CASE j > c /\ i = c
      <4>1. j - 1 \in 1..m /\ c <= j - 1 /\ q[i] = new /\ q[j] = p[j - 1]
        BY <2>6, <2>8, <3>4
      <4> QED BY <2>5, <4>1
    <3>5. CASE i > c
      <4>1. i - 1 \in 1..m /\ j - 1 \in 1..m /\ i - 1 < j - 1 /\ q[i] = p[i - 1] /\ q[j] = p[j - 1]
        BY <2>6, <2>8, <3>5
      <4> QED BY <2>1, <4>1
    <3> QED BY <2>6, <3>1, <3>2, <3>3, <3>4, <3>5
  <2> HIDE DEF q
  <2> QED BY <2>7, <2>8
<1>3. Nat \subseteq A
  <2> HIDE DEF A
  <2> QED BY <1>1, <1>2, NaturalInduction
<1>4. n \in A
  BY <1>3
<1> QED BY <1>4

\* A lexicographic order is total and transitive.
Lex(r, l, i, j) ==
    \/ r[i] < r[j]
    \/ r[i] = r[j] /\ l[i] > l[j]
    \/ r[i] = r[j] /\ l[i] = l[j] /\ i < j

LexOrder(n, r, l) == {e \in (1..n) \X (1..n) : Lex(r, l, e[1], e[2])}

LEMMA Lexicographic ==
    ASSUME NEW n \in Nat, NEW r \in [1..n -> Nat], NEW l \in [1..n -> Nat], NEW R, R = LexOrder(n, r, l)
    PROVE  /\ \A i, j \in 1..n : i # j => <<i, j>> \in R \/ <<j, i>> \in R
           /\ \A i, j, k \in 1..n : <<i, j>> \in R /\ <<j, k>> \in R => <<i, k>> \in R
<1>3. \A i, j \in 1..n : <<i, j>> \in R <=> Lex(r, l, i, j)
  BY DEF LexOrder
<1>1. ASSUME NEW i \in 1..n, NEW j \in 1..n, i # j PROVE <<i, j>> \in R \/ <<j, i>> \in R
  <2>1. Lex(r, l, i, j) \/ Lex(r, l, j, i)
    <3>1. r[i] \in Nat /\ r[j] \in Nat /\ l[i] \in Nat /\ l[j] \in Nat /\ i \in Nat /\ j \in Nat
      OBVIOUS
    <3> QED BY <1>1, <3>1 DEF Lex
  <2> QED BY <1>3, <2>1, Zenon
<1>2. ASSUME NEW i \in 1..n, NEW j \in 1..n, NEW k \in 1..n, <<i, j>> \in R, <<j, k>> \in R
      PROVE  <<i, k>> \in R
  <2>1. Lex(r, l, i, j) /\ Lex(r, l, j, k)
    BY <1>2, <1>3, Zenon
  <2>2. /\ r[i] \in Nat /\ r[j] \in Nat /\ r[k] \in Nat /\ l[i] \in Nat /\ l[j] \in Nat /\ l[k] \in Nat
        /\ i \in Nat /\ j \in Nat /\ k \in Nat
    OBVIOUS
  <2>3. Lex(r, l, i, k)
    BY <2>1, <2>2 DEF Lex
  <2> QED BY <1>3, <2>3, Zenon
<1> QED BY <1>1, <1>2

Objects == [obj_type : DOMAIN TypeBits, data : Seq(Nat)]

\* The objects of the entries are those there are.
LEMMA SortedIs ==
    ASSUME NEW objs \in Seq(Objects)
    PROVE  \E order \in [1..Len(objs) -> 1..Len(objs)] :
              Sorted(objs) = [i \in 1..Len(objs) |-> objs[order[i]]]
<1> DEFINE n == Len(objs)
           S == 1..n
           r == [i \in S |-> TypeRank[objs[i].obj_type]]
           l == [i \in S |-> Len(objs[i].data)]
           R == LexOrder(n, r, l)
<1>1. n \in Nat /\ \A i \in S : objs[i] \in Objects
  BY LenProperties, ElementOfSeq
<1>2. \A i \in S : r[i] \in Nat /\ l[i] \in Nat
  <2> TAKE i \in S
  <2>1. objs[i].obj_type \in {"blob", "commit", "tag", "tree"} /\ objs[i].data \in Seq(Nat)
    BY <1>1 DEF Objects, TypeBits
  <2> QED BY <2>1, LenProperties DEF TypeRank
<1>3. \A i, j \in S : objs[i].obj_type = objs[j].obj_type <=> r[i] = r[j]
  <2> TAKE i, j \in S
  <2>1. objs[i].obj_type \in {"blob", "commit", "tag", "tree"} /\ objs[j].obj_type \in {"blob", "commit", "tag", "tree"}
    BY <1>1 DEF Objects, TypeBits
  <2> QED BY <2>1 DEF TypeRank
<1>4. ASSUME NEW i \in S, NEW j \in S
      PROVE  Before(objs, i, j) <=> Lex(r, l, i, j)
  <2>1. objs[i].obj_type = objs[j].obj_type <=> r[i] = r[j]
    BY <1>3
  <2>2. /\ r[i] = TypeRank[objs[i].obj_type] /\ r[j] = TypeRank[objs[j].obj_type]
        /\ l[i] = Len(objs[i].data) /\ l[j] = Len(objs[j].data)
    OBVIOUS
  <2> HIDE DEF r, l
  <2>3. CASE r[i] = r[j]
    BY <2>1, <2>2, <2>3 DEF Before, Lex
  <2>4. CASE r[i] # r[j]
    BY <2>1, <2>2, <2>4 DEF Before, Lex
  <2> QED BY <2>3, <2>4
<1>5. n \in Nat /\ r \in [1..n -> Nat] /\ l \in [1..n -> Nat]
  BY <1>1, <1>2
<1> HIDE DEF r, l, n
<1>6. PICK p \in [S -> S] : \A i, j \in S : i < j => <<p[i], p[j]>> \in R
  <2> HIDE DEF R
  <2>1. /\ \A i, j \in 1..n : i # j => <<i, j>> \in R \/ <<j, i>> \in R
        /\ \A i, j, k \in 1..n : <<i, j>> \in R /\ <<j, k>> \in R => <<i, k>> \in R
    BY <1>5, Lexicographic DEF R
  <2> QED BY <1>5, <2>1, Sorts
<1>7. \A i, j \in S : i < j => Before(objs, p[i], p[j])
  <2> TAKE i, j \in S
  <2> HAVE i < j
  <2>1. <<p[i], p[j]>> \in R
    BY <1>6
  <2>2. Lex(r, l, p[i], p[j]) /\ p[i] \in S /\ p[j] \in S
    BY <2>1 DEF LexOrder
  <2> QED BY <1>4, <2>2
<1> DEFINE order == CHOOSE q \in [1..Len(objs) -> 1..Len(objs)] :
                       \A i, j \in 1..Len(objs) : i < j => Before(objs, q[i], q[j])
<1>9. order \in [S -> S]
  BY <1>7, Zenon DEF n
<1>10. Sorted(objs) = [i \in 1..Len(objs) |-> objs[order[i]]]
  BY Zenon DEF Sorted
<1> HIDE DEF order
<1> QED BY <1>9, <1>10 DEF n

-----------------------------------------------------------------------------
(* Entries *)

\* What is in a pack: bytes, the header, the bases and what is compressed.
Item == Nat \cup ({"PACK", "checksum"} \X Nat) \cup ({"zlib"} \X Seq(Nat)) \cup ({"sha1"} \X Objects)

LEMMA ItemsAre ==
    /\ Nat \subseteq Item
    /\ \A n \in Nat : <<"PACK", n>> \in Item /\ <<"checksum", n>> \in Item
    /\ \A d \in Seq(Nat) : <<"zlib", d>> \in Item
    /\ \A b \in Objects : <<"sha1", b>> \in Item
  BY DEF Item

LEMMA ComputeDeltaType ==
    ASSUME NEW base \in Seq(Nat), Len(base) <= MaxSource, NEW target \in Seq(Nat)
    PROVE  ComputeDelta(base, target) \in Seq(Nat)
<1> DEFINE all == Instructions(base, target)[0]
           a == EncodeSize[Len(base)]
           b == EncodeSize[Len(target)]
           w == all.inserts
           c == all.code
           x == FlushInserts(w)
           ab == a \o b
           abx == ab \o x
<1>0. Len(base) \in Nat /\ Len(target) \in Nat /\ 0 \in 0..Len(target)
  BY LenProperties
<1>1. ComputeDelta(base, target) = abx \o c
  BY Zenon DEF ComputeDelta
<1>2. a \in Seq(Nat) /\ b \in Seq(Nat)
  BY <1>0, EncodeSizeDef
<1>3. w \in Seq(Nat) /\ c \in Seq(Nat)
  <2>1. all \in [inserts : Seq(Nat), code : Seq(Nat)]
    BY <1>0, InstructionsDef
  <2> QED BY <2>1
<1> HIDE DEF w, c, a, b
<1>4. x \in Seq(Nat)
  BY <1>3, InsertsType
<1> HIDE DEF x
<1>5. ab \in Seq(Nat)
  BY <1>2, ConcatProperties
<1> HIDE DEF ab
<1>6. abx \in Seq(Nat)
  BY <1>4, <1>5, ConcatProperties
<1> HIDE DEF abx
<1> QED BY <1>1, <1>3, <1>6, ConcatProperties

\* An entry is read once its type and size have been.
LEMMA BehindHeader ==
    ASSUME NEW s, NEW pos, pos # Len(s), NEW type, NEW size, NEW n,
           ReadPackHeader(s, pos) = Ok([type |-> type, size |-> size], n)
    PROVE  ReadEntry(s, pos) = ReadBody(s, Ok([type |-> type, size |-> size], n), pos)
<1>1. Ok([type |-> type, size |-> size], n).status = "ok"
  BY DEF Ok
<1> QED BY <1>1, Zenon DEF ReadEntry, AndThen

Parsed(kind, type, base, basePos, start, size, data) ==
    [kind |-> kind, obj_type |-> type, base |-> base, base_pos |-> basePos,
     start |-> start, size |-> size, data |-> data]

\* An object, a delta on one named, and one on an earlier entry.
LEMMA BodyOfObject ==
    ASSUME NEW s, NEW start, NEW type \in DOMAIN TypeBits, NEW size, NEW n
    PROVE  ReadBody(s, Ok([type |-> TypeBits[type], size |-> size], n), start)
              = Ok(Parsed("object", type, <<>>, 0, start, size, s[n + 1][2]), n + 1)
<1> DEFINE head == Ok([type |-> TypeBits[type], size |-> size], n)
           named == {t \in DOMAIN TypeBits : TypeBits[t] = head.value.type}
<1>1. head.value.type = TypeBits[type] /\ head.value.size = size /\ head.next = n
  BY DEF Ok
<1>2. named = {type}
  BY <1>1 DEF TypeBits
<1>3. head.value.type # RefDelta /\ head.value.type # OfsDelta
  BY <1>1 DEF TypeBits, RefDelta, OfsDelta
<1>4. (CHOOSE t \in named : TRUE) = type /\ named # {}
  <2> HIDE DEF named
  <2> QED BY <1>2
<1>5. ReadBody(s, head, start)
         = Ok(Parsed("object", CHOOSE t \in named : TRUE, <<>>, 0, start, head.value.size, s[head.next + 1][2]), head.next + 1)
  <2> HIDE DEF head
  <2> QED BY <1>3, <1>4, Zenon DEF ReadBody, Parsed
<1> HIDE DEF named, head
<1> QED BY <1>1, <1>4, <1>5 DEF head

LEMMA BodyOfRef ==
    ASSUME NEW s, NEW start, NEW size, NEW n
    PROVE  ReadBody(s, Ok([type |-> RefDelta, size |-> size], n), start)
              = Ok(Parsed("ref", "", s[n + 1][2], 0, start, size, s[n + 2][2]), n + 2)
<1> DEFINE head == Ok([type |-> RefDelta, size |-> size], n)
<1>1. head.value.type = RefDelta /\ head.value.size = size /\ head.next = n
  BY DEF Ok
<1>2. ReadBody(s, head, start)
         = Ok(Parsed("ref", "", s[head.next + 1][2], 0, start, head.value.size, s[head.next + 2][2]), head.next + 2)
  <2>1. head.value.type # OfsDelta
    BY <1>1 DEF OfsDelta, RefDelta
  <2> HIDE DEF head
  <2> QED BY <1>1, <2>1, Zenon DEF ReadBody, Parsed
<1> HIDE DEF head
<1> QED BY <1>1, <1>2 DEF head

LEMMA BodyOfOfs ==
    ASSUME NEW s, NEW start, NEW size, NEW n,
           ReadOfsOffset(s, n).status = "ok", ~(ReadOfsOffset(s, n).value > start)
    PROVE  ReadBody(s, Ok([type |-> OfsDelta, size |-> size], n), start)
              = Ok(Parsed("ofs", "", <<>>, start - ReadOfsOffset(s, n).value, start, size, s[ReadOfsOffset(s, n).next + 1][2]),
                   ReadOfsOffset(s, n).next + 1)
<1> DEFINE head == Ok([type |-> OfsDelta, size |-> size], n)
           ofs == ReadOfsOffset(s, n)
<1>1. head.value.type = OfsDelta /\ head.value.size = size /\ head.next = n
  BY DEF Ok
<1>2. head.value.type # RefDelta
  BY <1>1 DEF OfsDelta, RefDelta
<1>3. ofs.status = "ok" /\ ~(ofs.value > start)
  OBVIOUS
<1>4. ReadBody(s, head, start)
         = Ok(Parsed("ofs", "", <<>>, start - ofs.value, start, head.value.size, s[ofs.next + 1][2]), ofs.next + 1)
  <2> HIDE DEF head
  <2> QED BY <1>1, <1>2, <1>3, Zenon DEF ReadBody, Parsed, AndThen
<1> HIDE DEF head
<1> QED BY <1>1, <1>4 DEF head

\* What the entry of object i may be, by git-core or by git.
Formed(sorted, bases, form, i) ==
    \/ form = Whole
    \/ /\ form.kind = "ref" /\ form.of \in 1..Len(bases)
       /\ bases[form.of].obj_type = sorted[i].obj_type
    \/ /\ form.kind = "ofs" /\ form.of \in 1..(i - 1)
       /\ sorted[form.of].obj_type = sorted[i].obj_type

LEMMA FormsAreFormed ==
    ASSUME NEW program, NEW sorted, NEW bases, NEW i \in Nat, NEW form \in FormsOf(program, sorted, bases, i)
    PROVE  Formed(sorted, bases, form, i)
<1> DEFINE same == {j \in 1..(i - 1) : sorted[j].obj_type = sorted[i].obj_type}
           named == {k \in 1..Len(bases) : bases[k].obj_type = sorted[i].obj_type}
<1>1. \/ form = Whole
      \/ \E k \in named : form = [kind |-> "ref", of |-> k]
      \/ same # {} /\ form = [kind |-> "ofs", of |-> Max(same)]
      \/ \E j \in same : form = [kind |-> "ofs", of |-> j]
  <2>1. \/ form \in Forms(sorted, bases, i)
        \/ \E j \in same : form = [kind |-> "ofs", of |-> j]
    BY DEF FormsOf
  <2>2. form \in Forms(sorted, bases, i) =>
            \/ form = Whole
            \/ \E k \in named : form = [kind |-> "ref", of |-> k]
            \/ same # {} /\ form = [kind |-> "ofs", of |-> Max(same)]
    BY DEF Forms
  <2> QED BY <2>1, <2>2
<1>2. same # {} => Max(same) \in same
  <2>1. same \subseteq 0..i
    OBVIOUS
  <2> HIDE DEF same
  <2> QED BY <2>1, MaxOf
<1>3. CASE form = Whole
  BY <1>3 DEF Formed
<1>4. CASE \E k \in named : form = [kind |-> "ref", of |-> k]
  BY <1>4 DEF Formed
<1>5. CASE \E j \in same : form = [kind |-> "ofs", of |-> j]
  BY <1>5 DEF Formed
<1> HIDE DEF same, named
<1> QED BY <1>1, <1>2, <1>3, <1>4, <1>5

\* There are objects to write, in this order, bases, and a form for each entry.
Writable(sorted, bases, forms) ==
    /\ sorted \in Seq(Objects) /\ bases \in Seq(Objects)
    /\ \A i \in 1..Len(sorted) : Len(sorted[i].data) <= MaxSource /\ Formed(sorted, bases, forms[i], i)
    /\ \A i \in 1..Len(bases) : Len(bases[i].data) <= MaxSource

\* What is compressed in an entry.
Payload(sorted, bases, forms, i) ==
    CASE forms[i].kind = "whole" -> sorted[i].data
      [] forms[i].kind = "ref" -> ComputeDelta(bases[forms[i].of].data, sorted[i].data)
      [] forms[i].kind = "ofs" -> ComputeDelta(sorted[forms[i].of].data, sorted[i].data)

\* What parse makes of an entry; start[i] is where entry i starts.
Record(sorted, bases, forms, start, i) ==
    LET form == forms[i]
        data == Payload(sorted, bases, forms, i)
    IN  CASE form.kind = "whole" -> Parsed("object", sorted[i].obj_type, <<>>, 0, start[i], Len(data), data)
          [] form.kind = "ref" -> Parsed("ref", "", bases[form.of], 0, start[i], Len(data), data)
          [] form.kind = "ofs" -> Parsed("ofs", "", <<>>, start[form.of], start[i], Len(data), data)

\* Entry i of a pack, whose earlier entries are where start says.
EntryAt(sorted, bases, forms, start, i) == Entry(sorted[i], forms[i], sorted, bases, start, start[i])

LEMMA WritableIs ==
    ASSUME NEW sorted, NEW bases, NEW forms, Writable(sorted, bases, forms), NEW i \in 1..Len(sorted)
    PROVE  /\ i \in Nat /\ sorted[i] \in Objects /\ sorted[i].obj_type \in DOMAIN TypeBits
           /\ sorted[i].data \in Seq(Nat) /\ Len(sorted[i].data) \in Nat
           /\ Payload(sorted, bases, forms, i) \in Seq(Nat) /\ Len(Payload(sorted, bases, forms, i)) \in Nat
           /\ \/ forms[i].kind = "whole" /\ Payload(sorted, bases, forms, i) = sorted[i].data
              \/ /\ forms[i].kind = "ref" /\ bases[forms[i].of] \in Objects
                 /\ bases[forms[i].of].obj_type = sorted[i].obj_type
                 /\ bases[forms[i].of].data \in Seq(Nat) /\ Len(bases[forms[i].of].data) <= MaxSource
                 /\ Payload(sorted, bases, forms, i) = ComputeDelta(bases[forms[i].of].data, sorted[i].data)
              \/ /\ forms[i].kind = "ofs" /\ forms[i].of \in 1..(i - 1) /\ forms[i].of \in 1..Len(sorted)
                 /\ sorted[forms[i].of].obj_type = sorted[i].obj_type
                 /\ sorted[forms[i].of].data \in Seq(Nat) /\ Len(sorted[forms[i].of].data) <= MaxSource
                 /\ Payload(sorted, bases, forms, i) = ComputeDelta(sorted[forms[i].of].data, sorted[i].data)
<1> DEFINE form == forms[i]
           data == Payload(sorted, bases, forms, i)
<1>1. Len(sorted) \in Nat /\ \A k \in 1..Len(sorted) : sorted[k] \in Objects
  BY LenProperties, ElementOfSeq DEF Writable
<1>2. \A k \in 1..Len(bases) : bases[k] \in Objects
  BY ElementOfSeq DEF Writable
<1>3. \A o \in Objects : o.data \in Seq(Nat) /\ Len(o.data) \in Nat /\ o.obj_type \in DOMAIN TypeBits
  BY LenProperties DEF Objects
<1>4. sorted[i] \in Objects /\ i \in Nat
  BY <1>1
<1>5. sorted[i].data \in Seq(Nat) /\ Len(sorted[i].data) \in Nat /\ sorted[i].obj_type \in DOMAIN TypeBits
  BY <1>3, <1>4
<1>6. Formed(sorted, bases, form, i)
  BY DEF Writable
<1>7. data \in Seq(Nat) => Len(data) \in Nat
  BY LenProperties
<1> HIDE DEF form
<1>8. CASE form = Whole
  <2>1. form.kind = "whole"
    BY <1>8 DEF Whole
  <2>2. data = sorted[i].data
    BY <2>1 DEF Payload, form
  <2> QED BY <1>4, <1>5, <2>1, <2>2 DEF form
<1>9. CASE form.kind = "ref" /\ form.of \in 1..Len(bases) /\ bases[form.of].obj_type = sorted[i].obj_type
  <2> DEFINE b == bases[form.of]
  <2>1. b \in Objects /\ Len(b.data) <= MaxSource
    BY <1>2, <1>9 DEF Writable
  <2>2. b.data \in Seq(Nat)
    BY <1>3, <2>1
  <2>3. data = ComputeDelta(b.data, sorted[i].data)
    BY <1>9 DEF Payload, form
  <2>4. ComputeDelta(b.data, sorted[i].data) \in Seq(Nat)
    <3> DEFINE x == b.data
               y == sorted[i].data
    <3>1. x \in Seq(Nat) /\ Len(x) <= MaxSource /\ y \in Seq(Nat)
      BY <1>5, <2>1, <2>2
    <3> HIDE DEF x, y
    <3>2. ComputeDelta(x, y) \in Seq(Nat)
      BY <3>1, ComputeDeltaType
    <3> QED BY <3>2 DEF x, y
  <2>5. data \in Seq(Nat)
    BY <2>3, <2>4
  <2> HIDE DEF data
  <2> QED BY <1>4, <1>5, <1>7, <1>9, <2>1, <2>2, <2>3, <2>5 DEF form, data
<1>10. CASE form.kind = "ofs" /\ form.of \in 1..(i - 1) /\ sorted[form.of].obj_type = sorted[i].obj_type
  <2> DEFINE b == sorted[form.of]
  <2>6. form.of \in 1..Len(sorted)
    BY <1>1, <1>10
  <2>1. b \in Objects /\ Len(b.data) <= MaxSource
    BY <1>1, <2>6 DEF Writable
  <2>2. b.data \in Seq(Nat)
    BY <1>3, <2>1
  <2>3. data = ComputeDelta(b.data, sorted[i].data)
    BY <1>10 DEF Payload, form
  <2>4. ComputeDelta(b.data, sorted[i].data) \in Seq(Nat)
    <3> DEFINE x == b.data
               y == sorted[i].data
    <3>1. x \in Seq(Nat) /\ Len(x) <= MaxSource /\ y \in Seq(Nat)
      BY <1>5, <2>1, <2>2
    <3> HIDE DEF x, y
    <3>2. ComputeDelta(x, y) \in Seq(Nat)
      BY <3>1, ComputeDeltaType
    <3> QED BY <3>2 DEF x, y
  <2>5. data \in Seq(Nat)
    BY <2>3, <2>4
  <2> HIDE DEF data
  <2> QED BY <1>4, <1>5, <1>7, <1>10, <2>1, <2>2, <2>3, <2>5, <2>6 DEF form, data
<1> QED BY <1>6, <1>8, <1>9, <1>10 DEF Formed

\* An entry may be put at start[i]: its base, if it is an earlier entry, is before it.
Placed(forms, start, i) ==
    /\ start[i] \in Nat
    /\ forms[i].kind = "ofs" => start[forms[i].of] \in Nat /\ start[forms[i].of] <= start[i]

\* An entry is items, and what is at its place is read as what was written
\* (build_with_bases, parse).
LEMMA EntryRead ==
    ASSUME NEW sorted, NEW bases, NEW forms, Writable(sorted, bases, forms), NEW i \in 1..Len(sorted),
           NEW start, Placed(forms, start, i)
    PROVE  LET entry == EntryAt(sorted, bases, forms, start, i)
           IN  /\ entry \in Seq(Item) /\ Len(entry) \in Nat /\ Len(entry) > 0
               /\ \A s \in Seq(Item) : At(s, start[i], entry) =>
                     ReadEntry(s, start[i]) = Ok(Record(sorted, bases, forms, start, i), start[i] + Len(entry))
<1> DEFINE entry == EntryAt(sorted, bases, forms, start, i)
           form == forms[i]
           p == start[i]
           data == Payload(sorted, bases, forms, i)
           n == Len(data)
           zlib == << <<"zlib", data>> >>
           record == Record(sorted, bases, forms, start, i)
           head(t) == EncodePackHeader(t, n)
<1>1. p \in Nat /\ data \in Seq(Nat) /\ n \in Nat
  BY WritableIs DEF Placed
<1>2. zlib \in Seq(Item) /\ Len(zlib) = 1 /\ zlib[1] = <<"zlib", data>>
  <2> HIDE DEF data
  <2> QED BY <1>1, ItemsAre
<1>3. ASSUME NEW t \in 0..7
      PROVE  head(t) \in Seq(Item) /\ Len(head(t)) \in Nat /\ Len(head(t)) > 0
  <2>1. head(t) \in Seq(Nat) /\ Len(head(t)) \in Nat /\ Len(head(t)) > 0
    BY <1>1, HeaderType
  <2> QED BY <2>1, ItemsAre, SeqMonotonic
<1>4. ASSUME NEW t \in 0..7, NEW s \in Seq(Item), At(s, p, head(t))
      PROVE  ReadEntry(s, p) = ReadBody(s, Ok([type |-> t, size |-> n], p + Len(head(t))), p)
  <2>1. ReadPackHeader(s, p) = Ok([type |-> t, size |-> n], p + Len(head(t)))
    <3> HIDE DEF p, n
    <3> QED BY <1>1, <1>4, ItemsAre, HeaderRead
  <2>2. p # Len(s)
    <3>1. Len(s) \in Nat /\ p + Len(head(t)) <= Len(s)
      BY <1>4, LenProperties DEF At
    <3>2. Len(head(t)) \in Nat /\ Len(head(t)) > 0
      BY <1>3
    <3> HIDE DEF p, n, head
    <3> QED BY <1>1, <3>1, <3>2
  <2> HIDE DEF p, n
  <2> QED BY <2>1, <2>2, BehindHeader
<1>5. CASE form.kind = "whole"
  <2> DEFINE type == sorted[i].obj_type
             h == head(TypeBits[type])
  <2>1. type \in DOMAIN TypeBits /\ data = sorted[i].data
    BY <1>5, WritableIs
  <2>2. TypeBits[type] \in 0..7
    BY <2>1 DEF TypeBits
  <2>3. entry = h \o zlib
    BY <1>5, <2>1 DEF EntryAt, Entry
  <2>4. record = Parsed("object", type, <<>>, 0, p, n, data)
    BY <1>5 DEF Record
  <2>5. h \in Seq(Item) /\ Len(h) \in Nat /\ Len(h) > 0
    BY <1>3, <2>2
  <2> HIDE DEF entry, zlib
  <2>6. \A s \in Seq(Item) : At(s, p, h) => ReadEntry(s, p) = ReadBody(s, Ok([type |-> TypeBits[type], size |-> n], p + Len(h)), p)
    BY <1>4, <2>2
  <2> HIDE DEF h, record, data, n, p, form, head
  <2>7. h \o zlib \in Seq(Item) /\ Len(h \o zlib) = Len(h) + 1
    <3>1. h \o zlib \in Seq(Item) /\ Len(h \o zlib) = Len(h) + Len(zlib)
      BY <1>2, <2>5, ConcatProperties
    <3> QED BY <1>2, <3>1
  <2>8. ASSUME NEW s \in Seq(Item), At(s, p, entry) PROVE ReadEntry(s, p) = Ok(record, p + Len(entry))
    <3>1. At(s, p, h) /\ At(s, p + Len(h), zlib)
      <4>1. At(s, p, h \o zlib)
        BY <2>3, <2>8
      <4> QED BY <1>1, <1>2, <2>5, <4>1, AtConcat
    <3>2. s[(p + Len(h)) + 1][2] = data
      BY <1>2, <3>1 DEF At
    <3>3. ReadEntry(s, p) = ReadBody(s, Ok([type |-> TypeBits[type], size |-> n], p + Len(h)), p)
      BY <2>6, <3>1
    <3> DEFINE q == p + Len(h)
    <3>4. ReadBody(s, Ok([type |-> TypeBits[type], size |-> n], q), p)
             = Ok(Parsed("object", type, <<>>, 0, p, n, s[q + 1][2]), q + 1)
      <4> HIDE DEF q, type
      <4> QED BY <2>1, BodyOfObject
    <3>5. q + 1 = p + Len(entry)
      BY <1>1, <2>3, <2>5, <2>7
    <3> HIDE DEF q, type
    <3> QED BY <2>4, <3>2, <3>3, <3>4, <3>5 DEF q
  <2> QED BY <2>3, <2>5, <2>7, <2>8 DEF p, entry, record
<1>6. CASE form.kind = "ref"
  <2> DEFINE base == bases[form.of]
             h == head(RefDelta)
             tail == << <<"sha1", base>>, <<"zlib", data>> >>
  <2>1. base \in Objects /\ data = ComputeDelta(base.data, sorted[i].data)
    BY <1>6, WritableIs
  <2>2. RefDelta \in 0..7
    BY DEF RefDelta
  <2>3. entry = h \o tail
    <3>1. entry = EncodePackHeader(RefDelta, Len(ComputeDelta(base.data, sorted[i].data)))
                     \o << <<"sha1", base>>, <<"zlib", ComputeDelta(base.data, sorted[i].data)>> >>
      BY <1>6 DEF EntryAt, Entry
    <3> HIDE DEF data, base, entry
    <3> QED BY <2>1, <3>1
  <2>4. record = Parsed("ref", "", base, 0, p, n, data)
    BY <1>6 DEF Record
  <2>5. h \in Seq(Item) /\ Len(h) \in Nat /\ Len(h) > 0
    BY <1>3, <2>2
  <2>6. \A s \in Seq(Item) : At(s, p, h) => ReadEntry(s, p) = ReadBody(s, Ok([type |-> RefDelta, size |-> n], p + Len(h)), p)
    BY <1>4, <2>2
  <2> HIDE DEF entry, h, record, data, n, p, form, head, base
  <2>9. tail \in Seq(Item) /\ Len(tail) = 2 /\ tail[1] = <<"sha1", base>> /\ tail[2] = <<"zlib", data>>
    <3>1. <<"sha1", base>> \in Item /\ <<"zlib", data>> \in Item
      BY <1>1, <2>1, ItemsAre
    <3> QED BY <3>1
  <2> HIDE DEF tail
  <2>7. h \o tail \in Seq(Item) /\ Len(h \o tail) = Len(h) + 2
    <3>1. h \o tail \in Seq(Item) /\ Len(h \o tail) = Len(h) + Len(tail)
      BY <2>5, <2>9, ConcatProperties
    <3> QED BY <2>9, <3>1
  <2>8. ASSUME NEW s \in Seq(Item), At(s, p, entry) PROVE ReadEntry(s, p) = Ok(record, p + Len(entry))
    <3>1. At(s, p, h) /\ At(s, p + Len(h), tail)
      <4>1. At(s, p, h \o tail)
        BY <2>3, <2>8
      <4> QED BY <1>1, <2>5, <2>9, <4>1, AtConcat
    <3>2. s[(p + Len(h)) + 1][2] = base /\ s[(p + Len(h)) + 2][2] = data
      BY <2>9, <3>1 DEF At
    <3>3. ReadEntry(s, p) = ReadBody(s, Ok([type |-> RefDelta, size |-> n], p + Len(h)), p)
      BY <2>6, <3>1
    <3> DEFINE q == p + Len(h)
    <3>4. ReadBody(s, Ok([type |-> RefDelta, size |-> n], q), p)
             = Ok(Parsed("ref", "", s[q + 1][2], 0, p, n, s[q + 2][2]), q + 2)
      <4> HIDE DEF q
      <4> QED BY BodyOfRef
    <3>5. q + 2 = p + Len(entry)
      BY <1>1, <2>3, <2>5, <2>7
    <3> HIDE DEF q
    <3> QED BY <2>4, <3>2, <3>3, <3>4, <3>5 DEF q
  <2> QED BY <2>3, <2>5, <2>7, <2>8 DEF p, entry, record
<1>7. CASE form.kind = "ofs"
  <2> DEFINE below == start[form.of]
             off == p - below
             h == head(OfsDelta)
             o == EncodeOfsOffset(off)
             ho == h \o o
  <2>1. below \in Nat /\ off \in Nat /\ off <= p /\ p - off = below /\ data = ComputeDelta(sorted[form.of].data, sorted[i].data)
    <3>1. below \in Nat /\ below <= p /\ p \in Nat
      BY <1>7 DEF Placed
    <3>2. data = ComputeDelta(sorted[form.of].data, sorted[i].data)
      BY <1>7, WritableIs
    <3> HIDE DEF below, p, data
    <3> QED BY <3>1, <3>2
  <2>2. OfsDelta \in 0..7
    BY DEF OfsDelta
  <2>3. entry = ho \o zlib
    <3>1. entry = EncodePackHeader(OfsDelta, Len(ComputeDelta(sorted[form.of].data, sorted[i].data)))
                     \o o \o << <<"zlib", ComputeDelta(sorted[form.of].data, sorted[i].data)>> >>
      BY <1>7 DEF EntryAt, Entry
    <3> HIDE DEF data, entry, o
    <3> QED BY <2>1, <3>1
  <2>4. record = Parsed("ofs", "", <<>>, below, p, n, data)
    BY <1>7 DEF Record
  <2>5. h \in Seq(Item) /\ Len(h) \in Nat /\ Len(h) > 0
    BY <1>3, <2>2
  <2>6. \A s \in Seq(Item) : At(s, p, h) => ReadEntry(s, p) = ReadBody(s, Ok([type |-> OfsDelta, size |-> n], p + Len(h)), p)
    BY <1>4, <2>2
  <2> HIDE DEF entry, h, record, data, n, p, form, head, below, off, zlib
  <2>9. o \in Seq(Item) /\ Len(o) \in Nat
    <3>1. o \in Seq(Nat)
      BY <2>1, OfsType
    <3> HIDE DEF o
    <3> QED BY <3>1, ItemsAre, SeqMonotonic, LenProperties
  <2>10. o = EncodeOfsOffset(off)
    OBVIOUS
  <2> HIDE DEF o
  <2>11. ho \in Seq(Item) /\ Len(ho) = Len(h) + Len(o)
    BY <2>5, <2>9, ConcatProperties
  <2>12. ho = h \o o
    OBVIOUS
  <2> HIDE DEF ho
  <2>7. ho \o zlib \in Seq(Item) /\ Len(ho \o zlib) = Len(h) + Len(o) + 1
    <3>1. ho \o zlib \in Seq(Item) /\ Len(ho \o zlib) = Len(ho) + Len(zlib)
      BY <1>2, <2>11, ConcatProperties
    <3> QED BY <1>2, <2>11, <3>1
  <2>8. ASSUME NEW s \in Seq(Item), At(s, p, entry) PROVE ReadEntry(s, p) = Ok(record, p + Len(entry))
    <3> DEFINE q == p + Len(h)
               r == q + Len(o)
    <3>1. At(s, p, ho) /\ At(s, p + Len(ho), zlib)
      <4>1. At(s, p, ho \o zlib)
        BY <2>3, <2>8
      <4> QED BY <1>1, <1>2, <2>11, <4>1, AtConcat
    <3>2. At(s, p, h) /\ At(s, q, o)
      <4>1. At(s, p, h \o o)
        BY <2>12, <3>1
      <4> QED BY <1>1, <2>5, <2>9, <4>1, AtConcat
    <3>3. q \in Nat /\ r \in Nat /\ p + Len(ho) = r /\ r + 1 = p + Len(entry)
      BY <1>1, <2>3, <2>5, <2>7, <2>9, <2>11
    <3>4. s[r + 1][2] = data
      BY <1>2, <3>1, <3>3 DEF At
    <3>5. ReadEntry(s, p) = ReadBody(s, Ok([type |-> OfsDelta, size |-> n], q), p)
      BY <2>6, <3>2
    <3> HIDE DEF q
    <3>6. ReadOfsOffset(s, q) = Ok(off, r)
      BY <2>1, <2>10, <3>2, <3>3, ItemsAre, OfsRead
    <3> HIDE DEF r
    <3>7. ReadBody(s, Ok([type |-> OfsDelta, size |-> n], q), p)
             = Ok(Parsed("ofs", "", <<>>, below, p, n, s[r + 1][2]), r + 1)
      <4> DEFINE ofs == ReadOfsOffset(s, q)
      <4>1. ofs.status = "ok" /\ ofs.value = off /\ ofs.next = r
        BY <3>6 DEF Ok
      <4>2. ~(ofs.value > p) /\ p - ofs.value = below
        BY <1>1, <2>1, <4>1
      <4>3. ReadBody(s, Ok([type |-> OfsDelta, size |-> n], q), p)
               = Ok(Parsed("ofs", "", <<>>, p - ofs.value, p, n, s[ofs.next + 1][2]), ofs.next + 1)
        BY <4>1, <4>2, BodyOfOfs
      <4> HIDE DEF ofs
      <4> QED BY <4>1, <4>2, <4>3
    <3> QED BY <2>1, <2>4, <3>3, <3>4, <3>5, <3>7
  <2> QED BY <2>3, <2>5, <2>7, <2>8, <2>9 DEF p, entry, record
<1>8. form.kind = "whole" \/ form.kind = "ref" \/ form.kind = "ofs"
  BY WritableIs
<1> HIDE DEF form
<1> QED BY <1>5, <1>6, <1>7, <1>8

-----------------------------------------------------------------------------
(* Packs *)

\* What is made of pieces, one after the other, has each of them at its place.
LEMMA Pieces ==
    ASSUME NEW D, NEW n \in Nat, NEW flat, NEW piece,
           \A i \in 0..n : flat[i] \in Seq(D), \A i \in 1..n : piece[i] \in Seq(D),
           \A i \in 1..n : flat[i] = flat[i - 1] \o piece[i],
           NEW data \in Seq(D), At(data, 0, flat[n])
    PROVE  /\ \A i \in 0..n : At(data, 0, flat[i])
           /\ \A i \in 1..n : At(data, Len(flat[i - 1]), piece[i])
<1> DEFINE A == {k \in Nat : k <= n => At(data, 0, flat[n - k])}
<1>1. ASSUME NEW i \in 1..n, At(data, 0, flat[i])
      PROVE  At(data, 0, flat[i - 1]) /\ At(data, Len(flat[i - 1]), piece[i])
  <2> DEFINE u == flat[i - 1]
             w == piece[i]
  <2>1. u \in Seq(D) /\ w \in Seq(D) /\ flat[i] = u \o w
    <3>1. i - 1 \in 0..n
      OBVIOUS
    <3> QED BY <3>1
  <2>2. At(data, 0, u \o w)
    BY <1>1, <2>1
  <2> HIDE DEF u, w
  <2>3. At(data, 0, u) /\ At(data, 0 + Len(u), w)
    BY <2>1, <2>2, AtConcat
  <2>4. 0 + Len(u) = Len(u)
    BY <2>1, LenProperties
  <2> QED BY <2>3, <2>4 DEF u, w
<1>2. 0 \in A
  OBVIOUS
<1>3. ASSUME NEW k \in Nat, k \in A PROVE k + 1 \in A
  <2>1. k + 1 <= n => At(data, 0, flat[n - (k + 1)])
    <3> SUFFICES ASSUME k + 1 <= n PROVE At(data, 0, flat[n - (k + 1)])
      OBVIOUS
    <3>1. n - k \in 1..n /\ (n - k) - 1 = n - (k + 1) /\ k <= n
      OBVIOUS
    <3>2. At(data, 0, flat[n - k])
      BY <1>3, <3>1
    <3>3. At(data, 0, flat[(n - k) - 1])
      BY <1>1, <3>1, <3>2
    <3> QED BY <3>1, <3>3
  <2> QED BY <2>1
<1>4. Nat \subseteq A
  <2> HIDE DEF A
  <2> QED BY <1>2, <1>3, NaturalInduction
<1>5. \A i \in 0..n : At(data, 0, flat[i])
  <2>1. \A i \in 0..n : n - i \in Nat /\ n - i <= n /\ n - (n - i) = i
    OBVIOUS
  <2> QED BY <1>4, <2>1
<1>6. \A i \in 1..n : i \in 0..n
  OBVIOUS
<1> QED BY <1>1, <1>5, <1>6

\* The recursion of build_with_bases.
WrittenStep(f, count, sorted, bases, forms, i) ==
    IF i = 0 THEN [bytes |-> << <<"PACK", count>> >>, starts |-> <<>>]
    ELSE [bytes |-> f[i - 1].bytes
                        \o Entry(sorted[i], forms[i], sorted, bases, f[i - 1].starts, Len(f[i - 1].bytes)),
          starts |-> Append(f[i - 1].starts, Len(f[i - 1].bytes))]

Written(objs, bases, forms) ==
    CHOOSE g : g = [i \in 0..Len(objs) |-> WrittenStep(g, Len(objs), Sorted(objs), bases, forms, i)]

LEMMA WrittenDef ==
    ASSUME NEW objs \in Seq(Objects), NEW bases, NEW forms
    PROVE  /\ BuildWithBases(objs, bases, forms) = Append(Written(objs, bases, forms)[Len(objs)].bytes, <<"checksum", 0>>)
           /\ \A i \in 0..Len(objs) : Written(objs, bases, forms)[i]
                 = WrittenStep(Written(objs, bases, forms), Len(objs), Sorted(objs), bases, forms, i)
<1> DEFINE n == Len(objs)
           S == 0..n
           step(f, i) == WrittenStep(f, n, Sorted(objs), bases, forms, i)
           upTo(f, k) == \A i \in S : i <= k => f[i] = step(f, i)
           A == {k \in Nat : \E f : upTo(f, k)}
<1>0. n \in Nat
  BY LenProperties
<1>1. ASSUME NEW i \in S, NEW f, NEW g, i # 0 => f[i - 1] = g[i - 1]
      PROVE  step(f, i) = step(g, i)
  BY <1>1 DEF WrittenStep
<1>2. 0 \in A
  <2> DEFINE f == [i \in S |-> [bytes |-> << <<"PACK", n>> >>, starts |-> <<>>]]
  <2>1. \A i \in S : i <= 0 => i = 0
    BY <1>0
  <2>2. 0 \in S
    BY <1>0
  <2>3. f[0] = [bytes |-> << <<"PACK", n>> >>, starts |-> <<>>]
    BY <2>2
  <2>4. step(f, 0) = [bytes |-> << <<"PACK", n>> >>, starts |-> <<>>]
    BY DEF WrittenStep
  <2>5. f[0] = step(f, 0)
    BY <2>3, <2>4
  <2> HIDE DEF f, step
  <2>6. upTo(f, 0)
    BY <2>1, <2>5
  <2> QED BY <2>6
<1> HIDE DEF step
<1>3. ASSUME NEW k \in Nat, k \in A PROVE k + 1 \in A
  <2>1. PICK f : upTo(f, k)
    BY <1>3
  <2> DEFINE g == [i \in S |-> IF i <= k THEN f[i] ELSE step(f, i)]
  <2>2. ASSUME NEW i \in S, i <= k + 1 PROVE g[i] = step(g, i)
    <3>1. i # 0 => i - 1 \in S /\ i - 1 <= k
      BY <1>0, <2>2
    <3>2. i # 0 => f[i - 1] = g[i - 1]
      BY <3>1
    <3>3. step(f, i) = step(g, i)
      <4> HIDE DEF g
      <4> QED BY <1>1, <3>2
    <3>4. g[i] = step(f, i)
      BY <2>1
    <3> QED BY <3>3, <3>4
  <2>3. upTo(g, k + 1)
    BY <2>2
  <2> HIDE DEF g, upTo
  <2> QED BY <2>3
<1>4. Nat \subseteq A
  <2> HIDE DEF A
  <2> QED BY <1>2, <1>3, NaturalInduction
<1>5. PICK f : upTo(f, n)
  BY <1>0, <1>4
<1> DEFINE g == [i \in S |-> f[i]]
<1>6. ASSUME NEW i \in S PROVE g[i] = step(g, i)
  <2>1. i # 0 => i - 1 \in S
    BY <1>0
  <2>2. i # 0 => f[i - 1] = g[i - 1]
    BY <2>1
  <2>3. step(f, i) = step(g, i)
    <3> HIDE DEF g
    <3> QED BY <1>1, <2>2
  <2>4. f[i] = step(f, i)
    BY <1>0, <1>5
  <2> QED BY <2>3, <2>4
<1>7. g = [i \in S |-> step(g, i)]
  BY <1>6
<1> DEFINE h == Written(objs, bases, forms)
<1>8. h = [i \in S |-> step(h, i)]
  <2> HIDE DEF g
  <2> QED BY <1>7, Zenon DEF Written, step
<1>9. BuildWithBases(objs, bases, forms) = Append(h[n].bytes, <<"checksum", 0>>)
  BY Zenon DEF BuildWithBases, Written, WrittenStep
<1> HIDE DEF h
<1>10. \A i \in S : h[i] = step(h, i)
  BY <1>8
<1> QED BY <1>9, <1>10 DEF h, step

\* Where the entries of a pack are: entry i starts behind the one before it.
Layout(sorted, bases, forms, start, s) ==
    /\ s \in Seq(Item) /\ Len(s) > 0 /\ s[1] = <<"PACK", Len(sorted)>>
    /\ start \in [1..(Len(sorted) + 1) -> Nat] /\ start[1] = 1
    /\ \A i \in 1..Len(sorted) :
          /\ Placed(forms, start, i)
          /\ start[i + 1] = start[i] + Len(EntryAt(sorted, bases, forms, start, i))
          /\ At(s, start[i], EntryAt(sorted, bases, forms, start, i))
\* As many entries as objects.
LEMMA SortedLen ==
    ASSUME NEW objs \in Seq(Objects), Sorted(objs) \in Seq(Objects)
    PROVE  Len(Sorted(objs)) = Len(objs) /\ Len(objs) \in Nat
<1> DEFINE n == Len(objs)
           sorted == Sorted(objs)
<1>1. n \in Nat /\ Len(sorted) \in Nat
  BY LenProperties
<1>2. DOMAIN sorted = 1..n
  <2>1. PICK order \in [1..n -> 1..n] : sorted = [i \in 1..n |-> objs[order[i]]]
    BY SortedIs
  <2> HIDE DEF sorted, n
  <2> QED BY <2>1
<1>3. DOMAIN sorted = 1..Len(sorted)
  BY LenProperties
<1> HIDE DEF sorted, n
<1>4. Len(sorted) = n
  <2>1. \A i \in Nat : i \in 1..n <=> i \in 1..Len(sorted)
    BY <1>2, <1>3
  <2>2. n \in 1..n <=> n \in 1..Len(sorted)
    BY <1>1, <2>1
  <2>3. Len(sorted) \in 1..n <=> Len(sorted) \in 1..Len(sorted)
    BY <1>1, <2>1
  <2> QED BY <1>1, <2>2, <2>3
<1> QED BY <1>1, <1>4 DEF sorted, n

\* An entry looks at where its base is, and at no other place.
LEMMA EntryOf ==
    ASSUME NEW sorted, NEW bases, NEW forms, Writable(sorted, bases, forms), NEW i \in 1..Len(sorted),
           NEW starts, NEW start, forms[i].kind = "ofs" => starts[forms[i].of] = start[forms[i].of]
    PROVE  Entry(sorted[i], forms[i], sorted, bases, starts, start[i]) = EntryAt(sorted, bases, forms, start, i)
<1> DEFINE form == forms[i]
<1>1. form.kind = "whole" \/ form.kind = "ref" \/ form.kind = "ofs"
  BY WritableIs
<1>2. CASE form.kind = "whole"
  BY <1>2 DEF Entry, EntryAt
<1>3. CASE form.kind = "ref"
  BY <1>3 DEF Entry, EntryAt
<1>4. CASE form.kind = "ofs"
  BY <1>4 DEF Entry, EntryAt
<1> QED BY <1>1, <1>2, <1>3, <1>4

\* Where build_with_bases puts each entry, and the checksum.
Starts(objs, bases, forms) == [j \in 1..(Len(objs) + 1) |-> Len(Written(objs, bases, forms)[j - 1].bytes)]

\* The bytes written so far and the starts of the entries in them.
LEMMA WrittenSoFar ==
    ASSUME NEW objs \in Seq(Objects), NEW bases, NEW forms, Writable(Sorted(objs), bases, forms)
    PROVE  \A i \in 0..Len(objs) :
              LET out == Written(objs, bases, forms)[i]
                  start == Starts(objs, bases, forms)
              IN  /\ out.bytes \in Seq(Item) /\ Len(out.bytes) \in Nat /\ Len(out.bytes) > 0
                  /\ out.starts \in Seq(Nat) /\ Len(out.starts) = i
                  /\ \A j \in 1..i : out.starts[j] = start[j] /\ start[j] <= Len(out.bytes)
                  /\ i > 0 => /\ Placed(forms, start, i)
                              /\ EntryAt(Sorted(objs), bases, forms, start, i) \in Seq(Item)
                              /\ out.bytes = Written(objs, bases, forms)[i - 1].bytes
                                             \o EntryAt(Sorted(objs), bases, forms, start, i)
<1> DEFINE n == Len(objs)
           sorted == Sorted(objs)
           h == Written(objs, bases, forms)
           start == Starts(objs, bases, forms)
           entry(i) == EntryAt(sorted, bases, forms, start, i)
           good(i) ==
              /\ h[i].bytes \in Seq(Item) /\ Len(h[i].bytes) \in Nat /\ Len(h[i].bytes) > 0
              /\ h[i].starts \in Seq(Nat) /\ Len(h[i].starts) = i
              /\ \A j \in 1..i : h[i].starts[j] = start[j] /\ start[j] <= Len(h[i].bytes)
              /\ i > 0 => /\ Placed(forms, start, i)
                          /\ entry(i) \in Seq(Item)
                          /\ h[i].bytes = h[i - 1].bytes \o entry(i)
           A == {k \in Nat : k <= n => good(k)}
<1>1. n \in Nat /\ Len(sorted) = n
  BY SortedLen DEF Writable
<1>2. \A i \in 0..n : h[i] = WrittenStep(h, n, sorted, bases, forms, i)
  BY WrittenDef
<1>3. \A i \in 1..(n + 1) : start[i] = Len(h[i - 1].bytes)
  BY DEF Starts
<1> HIDE DEF start
<1>4. 0 \in A
  <2>1. h[0] = [bytes |-> << <<"PACK", n>> >>, starts |-> <<>>]
    <3>1. h[0] = WrittenStep(h, n, sorted, bases, forms, 0)
      BY <1>1, <1>2
    <3> HIDE DEF h, n, sorted
    <3> QED BY <3>1, Zenon DEF WrittenStep
  <2>2. h[0].bytes = << <<"PACK", n>> >> /\ h[0].starts = <<>>
    BY <2>1
  <2>3. <<"PACK", n>> \in Item
    BY <1>1, ItemsAre
  <2>4. h[0].bytes \in Seq(Item) /\ Len(h[0].bytes) = 1 /\ h[0].starts \in Seq(Nat) /\ Len(h[0].starts) = 0
    <3> HIDE DEF h
    <3> QED BY <2>2, <2>3
  <2> HIDE DEF h
  <2>5. good(0)
    BY <2>4
  <2> QED BY <2>5
<1>5. ASSUME NEW k \in Nat, k \in A PROVE k + 1 \in A
  <2> DEFINE i == k + 1
  <2> SUFFICES ASSUME i <= n PROVE good(i)
    <3> HIDE DEF good
    <3> QED OBVIOUS
  <2>1. i \in 1..n /\ i \in 0..n /\ i # 0 /\ i - 1 = k /\ k \in 0..n /\ i \in 1..(n + 1) /\ i \in 1..Len(sorted)
    BY <1>1
  <2>2. good(k)
    <3> HIDE DEF good
    <3> QED BY <1>5, <2>1
  <2>3. start[i] = Len(h[k].bytes)
    BY <1>3, <2>1
  <2>4. /\ h[i].bytes = h[k].bytes \o Entry(sorted[i], forms[i], sorted, bases, h[k].starts, start[i])
        /\ h[i].starts = Append(h[k].starts, start[i])
    <3>1. h[i] = WrittenStep(h, n, sorted, bases, forms, i)
      BY <1>2, <2>1
    <3> HIDE DEF h, i
    <3>2. h[i] = [bytes |-> h[k].bytes
                        \o Entry(sorted[i], forms[i], sorted, bases, h[k].starts, start[i]),
                  starts |-> Append(h[k].starts, start[i])]
      BY <2>1, <2>3, <3>1, Zenon DEF WrittenStep
    <3> DEFINE x == h[k].bytes \o Entry(sorted[i], forms[i], sorted, bases, h[k].starts, start[i])
               y == Append(h[k].starts, start[i])
    <3>3. h[i] = [bytes |-> x, starts |-> y]
      BY <3>2
    <3> HIDE DEF x, y
    <3>4. h[i].bytes = x /\ h[i].starts = y
      BY <3>3
    <3> QED BY <3>4 DEF x, y
  <2>5. forms[i].kind = "ofs" => forms[i].of \in 1..k
    <3> DEFINE form == forms[i]
    <3> HIDE DEF i
    <3>1. \/ form.kind = "whole" \/ form.kind = "ref"
          \/ form.kind = "ofs" /\ form.of \in 1..(i - 1)
      BY <2>1, WritableIs
    <3> HIDE DEF form
    <3>2. form.kind = "ofs" => form.of \in 1..(i - 1)
      BY <3>1
    <3> QED BY <2>1, <3>2 DEF form
  <2>6. Placed(forms, start, i)
    <3>1. start[i] \in Nat
      BY <2>2, <2>3
    <3>2. forms[i].kind = "ofs" => start[forms[i].of] \in Nat /\ start[forms[i].of] <= start[i]
      <4>1. \A j \in 1..k : h[k].starts[j] \in Nat
        BY <2>2, ElementOfSeq
      <4> HIDE DEF h, i
      <4> QED BY <2>2, <2>3, <2>5, <4>1
    <3> QED BY <3>1, <3>2 DEF Placed
  <2>7. Entry(sorted[i], forms[i], sorted, bases, h[k].starts, start[i]) = entry(i)
    <3>1. forms[i].kind = "ofs" => h[k].starts[forms[i].of] = start[forms[i].of]
      BY <2>2, <2>5
    <3> HIDE DEF h, i, sorted
    <3>2. Entry(sorted[i], forms[i], sorted, bases, h[k].starts, start[i]) = EntryAt(sorted, bases, forms, start, i)
      BY <2>1, <3>1, EntryOf DEF sorted
    <3> QED BY <3>2
  <2>8. entry(i) \in Seq(Item) /\ Len(entry(i)) \in Nat /\ Len(entry(i)) > 0
    <3> HIDE DEF i, sorted
    <3>1. LET e == EntryAt(sorted, bases, forms, start, i)
          IN  e \in Seq(Item) /\ Len(e) \in Nat /\ Len(e) > 0
      BY <2>1, <2>6, EntryRead DEF sorted
    <3> QED BY <3>1
  <2>9. start[i] \in Nat
    BY <2>6 DEF Placed
  <2> DEFINE e == entry(i)
             b == h[k].bytes
             t == h[k].starts
             p == start[i]
  <2>10. /\ b \in Seq(Item) /\ Len(b) \in Nat /\ Len(b) > 0 /\ t \in Seq(Nat) /\ Len(t) = k
         /\ \A j \in 1..k : t[j] = start[j] /\ start[j] <= Len(b)
    BY <2>2
  <2>11. h[i].bytes = b \o e /\ h[i].starts = Append(t, p) /\ e \in Seq(Item) /\ Len(e) \in Nat /\ p \in Nat /\ p = Len(b)
    BY <2>3, <2>4, <2>7, <2>8, <2>9
  <2> DEFINE hb == h[i].bytes
             hs == h[i].starts
  <2>12. hb = b \o e /\ hs = Append(t, p)
    BY <2>11
  <2>16. p = start[i] /\ i = k + 1
    OBVIOUS
  <2> HIDE DEF e, b, t, p, hb, hs, i
  <2>13. hb \in Seq(Item) /\ Len(hb) = Len(b) + Len(e)
    BY <2>10, <2>11, <2>12, ConcatProperties
  <2>14. hs \in Seq(Nat) /\ Len(hs) = k + 1 /\ hs[k + 1] = p /\ \A j \in 1..k : hs[j] = t[j]
    BY <2>10, <2>11, <2>12, AppendProperties
  <2>15. \A j \in 1..i : hs[j] = start[j] /\ start[j] <= Len(hb)
    <3> TAKE j \in 1..i
    <3>1. CASE j = i
      BY <2>10, <2>11, <2>13, <2>14, <2>16, <3>1
    <3>2. CASE j # i
      <4>1. j \in 1..k
        BY <2>16, <3>2
      <4>2. start[j] <= Len(b) /\ hs[j] = start[j] /\ start[j] \in Nat
        <5>1. t[j] \in Nat
          BY <2>10, <4>1, ElementOfSeq
        <5> QED BY <2>10, <2>14, <4>1, <5>1
      <4> QED BY <2>10, <2>11, <2>13, <4>2
    <3> QED BY <3>1, <3>2
  <2>17. Len(hb) \in Nat /\ Len(hb) > 0
    BY <2>10, <2>11, <2>13
  <2>18. entry(i) \in Seq(Item) /\ h[i].bytes = h[i - 1].bytes \o entry(i)
    <3>1. h[i - 1].bytes = b
      BY <2>1 DEF b
    <3> QED BY <2>8, <2>12, <3>1 DEF hb, e
  <2> HIDE DEF entry, h
  <2> QED BY <2>6, <2>13, <2>14, <2>15, <2>16, <2>17, <2>18 DEF hb, hs
<1>6. Nat \subseteq A
  <2> HIDE DEF A
  <2> QED BY <1>4, <1>5, NaturalInduction
<1>7. \A i \in 0..n : good(i)
  <2> HIDE DEF good
  <2> QED BY <1>1, <1>6
<1> QED BY <1>7 DEF start

\* build_with_bases puts the entries one after the other.
LEMMA PackLayout ==
    ASSUME NEW objs \in Seq(Objects), NEW bases, NEW forms, Writable(Sorted(objs), bases, forms)
    PROVE  \E start : Layout(Sorted(objs), bases, forms, start, BuildWithBases(objs, bases, forms))
<1> DEFINE n == Len(objs)
           sorted == Sorted(objs)
           h == Written(objs, bases, forms)
           start == Starts(objs, bases, forms)
           flat == [i \in 0..n |-> h[i].bytes]
           piece == [i \in 1..n |-> EntryAt(sorted, bases, forms, start, i)]
           s == BuildWithBases(objs, bases, forms)
           b == flat[n]
<1>1. n \in Nat /\ Len(sorted) = n
  BY SortedLen DEF Writable
<1>2. \A i \in 0..n : h[i] = WrittenStep(h, n, sorted, bases, forms, i)
  BY WrittenDef
<1>3. s = Append(b, <<"checksum", 0>>)
  BY <1>1, WrittenDef
<1>4. \A i \in 0..n :
         /\ h[i].bytes \in Seq(Item) /\ Len(h[i].bytes) \in Nat /\ Len(h[i].bytes) > 0
         /\ i > 0 => /\ Placed(forms, start, i)
                     /\ EntryAt(sorted, bases, forms, start, i) \in Seq(Item)
                     /\ h[i].bytes = h[i - 1].bytes \o EntryAt(sorted, bases, forms, start, i)
  BY WrittenSoFar
<1>5. h[0].bytes = << <<"PACK", n>> >>
  <2>1. h[0] = WrittenStep(h, n, sorted, bases, forms, 0)
    BY <1>1, <1>2
  <2> HIDE DEF h, n, sorted
  <2>2. h[0] = [bytes |-> << <<"PACK", n>> >>, starts |-> <<>>]
    BY <2>1, Zenon DEF WrittenStep
  <2> QED BY <2>2
<1>6. start \in [1..(n + 1) -> Nat] /\ \A i \in 1..(n + 1) : start[i] = Len(h[i - 1].bytes)
  <2>1. \A i \in 1..(n + 1) : i - 1 \in 0..n
    BY <1>1
  <2>2. start = [j \in 1..(n + 1) |-> Len(h[j - 1].bytes)]
    BY Zenon DEF Starts
  <2> HIDE DEF h, n, start
  <2> QED BY <1>4, <2>1, <2>2
<1>7. /\ \A i \in 0..n : flat[i] = h[i].bytes /\ flat[i] \in Seq(Item)
      /\ \A i \in 1..n : /\ piece[i] = EntryAt(sorted, bases, forms, start, i) /\ piece[i] \in Seq(Item)
                         /\ flat[i] = flat[i - 1] \o piece[i] /\ Placed(forms, start, i)
  <2>1. \A i \in 1..n : i \in 0..n /\ i - 1 \in 0..n /\ i > 0
    BY <1>1
  <2> HIDE DEF h, n, sorted, start
  <2> QED BY <1>4, <2>1
<1>8. b \in Seq(Item) /\ Len(b) \in Nat /\ n \in 0..n /\ 0 \in 0..n
  BY <1>1, <1>4, <1>7
<1>9. <<"checksum", 0>> \in Item
  BY ItemsAre
<1> DEFINE sum == << <<"checksum", 0>> >>
           c == <<"checksum", 0>>
<1> HIDE DEF s, flat, piece, start, h, n, sorted, b, c
<1>10. s \in Seq(Item) /\ Len(s) = Len(b) + 1 /\ \A i \in 1..Len(b) : s[i] = b[i]
  BY <1>3, <1>8, <1>9, AppendProperties
<1>11. At(s, 0, flat[n])
  <2>1. 0 + Len(b) <= Len(s) /\ \A k \in 1..Len(b) : s[0 + k] = b[k]
    BY <1>8, <1>10
  <2> QED BY <2>1 DEF At, b
<1>12. /\ \A i \in 0..n : At(s, 0, flat[i])
       /\ \A i \in 1..n : At(s, Len(flat[i - 1]), piece[i])
  <2>1. /\ \A i \in 0..n : flat[i] \in Seq(Item)
        /\ \A i \in 1..n : piece[i] \in Seq(Item)
        /\ \A i \in 1..n : flat[i] = flat[i - 1] \o piece[i]
    BY <1>7
  <2> QED BY <1>1, <1>10, <1>11, <2>1, Pieces
<1>13. s[1] = <<"PACK", n>> /\ Len(s) > 0
  <2>1. At(s, 0, flat[0]) /\ flat[0] = << <<"PACK", n>> >>
    BY <1>5, <1>7, <1>8, <1>12
  <2>2. s[0 + 1] = <<"PACK", n>>
    BY <2>1 DEF At
  <2> QED BY <1>8, <1>10, <2>2
<1>14. start[1] = 1
  <2>1. start[1] = Len(h[1 - 1].bytes)
    BY <1>1, <1>6
  <2>2. Len(<< <<"PACK", n>> >>) = 1
    OBVIOUS
  <2>3. 1 - 1 = 0
    OBVIOUS
  <2>4. start[1] = Len(h[0].bytes)
    BY <2>1, <2>3
  <2> QED BY <1>5, <2>2, <2>4
<1>15. ASSUME NEW i \in 1..n
       PROVE  /\ start[i + 1] = start[i] + Len(EntryAt(sorted, bases, forms, start, i))
              /\ At(s, start[i], EntryAt(sorted, bases, forms, start, i))
  <2>1. i \in 1..(n + 1) /\ i + 1 \in 1..(n + 1) /\ (i + 1) - 1 = i /\ i - 1 \in 0..n /\ i \in 0..n
    BY <1>1
  <2>2. start[i] = Len(flat[i - 1]) /\ start[i + 1] = Len(flat[i])
    BY <1>6, <1>7, <2>1
  <2> DEFINE x == flat[i - 1]
             e == piece[i]
  <2>3. x \in Seq(Item) /\ e \in Seq(Item) /\ flat[i] = x \o e
    BY <1>7, <2>1
  <2> HIDE DEF x, e
  <2>4. Len(x \o e) = Len(x) + Len(e)
    BY <2>3, ConcatProperties
  <2> QED BY <1>7, <1>12, <2>2, <2>3, <2>4 DEF x, e
<1>16. Layout(sorted, bases, forms, start, s)
  BY <1>1, <1>6, <1>7, <1>10, <1>13, <1>14, <1>15 DEF Layout
<1> QED BY <1>16 DEF s, sorted
LEMMA AsSeq ==
    ASSUME NEW V, NEW n \in Nat, NEW f \in [1..n -> V]
    PROVE  f \in Seq(V) /\ Len(f) = n
<1>1. f \in Seq(V)
  <2>1. f \in UNION {[1..k -> V] : k \in Nat}
    OBVIOUS
  <2> QED BY <2>1, SeqDef
<1>2. DOMAIN f = 1..n /\ DOMAIN f = 1..Len(f) /\ Len(f) \in Nat
  BY <1>1, LenProperties
<1>3. \A i \in Nat : i \in 1..n <=> i \in 1..Len(f)
  BY <1>2
<1>4. n \in 1..n <=> n \in 1..Len(f)
  BY <1>3
<1>5. Len(f) \in 1..n <=> Len(f) \in 1..Len(f)
  BY <1>2, <1>3
<1> QED BY <1>1, <1>2, <1>4, <1>5

\* The first elements of a sequence.
Upfront(f, k) == [i \in 1..k |-> f[i]]

LEMMA UpfrontGrows ==
    ASSUME NEW V, NEW n \in Nat, NEW f \in [1..n -> V], NEW k \in Nat, k + 1 <= n
    PROVE  Upfront(f, k + 1) = Append(Upfront(f, k), f[k + 1])
<1> DEFINE u == Upfront(f, k)
           v == Upfront(f, k + 1)
           e == f[k + 1]
           w == Append(u, e)
<1>1. \A i \in 1..(k + 1) : i \in 1..n
  OBVIOUS
<1>2. \A i \in 1..k : i \in 1..n
  OBVIOUS
<1>3. u \in [1..k -> V] /\ \A i \in 1..k : u[i] = f[i]
  BY <1>2 DEF Upfront
<1>4. v \in [1..(k + 1) -> V] /\ \A i \in 1..(k + 1) : v[i] = f[i]
  BY <1>1 DEF Upfront
<1>5. e \in V
  BY <1>1
<1> HIDE DEF u, v
<1>6. u \in Seq(V) /\ Len(u) = k
  BY <1>3, AsSeq
<1>7. v \in Seq(V) /\ Len(v) = k + 1
  <2>1. k + 1 \in Nat
    OBVIOUS
  <2> QED BY <1>4, <2>1, AsSeq
<1>11. e = f[k + 1]
  OBVIOUS
<1> HIDE DEF e
<1>8. w \in Seq(V) /\ Len(w) = k + 1 /\ w[k + 1] = e /\ \A i \in 1..k : w[i] = u[i]
  BY <1>5, <1>6, AppendProperties
<1> HIDE DEF w
<1>9. \A i \in 1..Len(v) : v[i] = w[i]
  <2> TAKE i \in 1..Len(v)
  <2>1. i \in 1..(k + 1)
    BY <1>7
  <2>2. CASE i = k + 1
    BY <1>4, <1>8, <1>11, <2>1, <2>2
  <2>3. CASE i # k + 1
    <3>1. i \in 1..k
      BY <2>1, <2>3
    <3> QED BY <1>3, <1>4, <1>8, <2>1, <3>1
  <2> QED BY <2>2, <2>3
<1>10. v = w
  BY <1>7, <1>8, <1>9, SeqEqual
<1> QED BY <1>10, <1>11 DEF u, v, w

LEMMA UpfrontNone == \A f : Upfront(f, 0) = <<>>
<1> SUFFICES ASSUME NEW f PROVE Upfront(f, 0) = <<>>
  OBVIOUS
<1> DEFINE u == Upfront(f, 0)
<1>1. u \in [1..0 -> {}]
  BY DEF Upfront
<1> HIDE DEF u
<1>2. u \in Seq({}) /\ Len(u) = 0
  BY <1>1, AsSeq
<1>3. u = <<>>
  BY <1>2, EmptySeq
<1> QED BY <1>3 DEF u

\* The recursion of the first pass of parse.
EntriesStep(f, s, k) ==
    IF k = 0 THEN Ok(<<>>, 1)
    ELSE AndThen(f[k - 1], LAMBDA r :
            AndThen(ReadEntry(s, r.next), LAMBDA e : Ok(Append(r.value, e.value), e.next)))

\* The first pass of parse reads the entries that were written.
LEMMA EntriesRead ==
    ASSUME NEW sorted, NEW bases, NEW forms, Writable(sorted, bases, forms), NEW start, NEW s,
           Layout(sorted, bases, forms, start, s)
    PROVE  Entries(s) = Ok([i \in 1..Len(sorted) |-> Record(sorted, bases, forms, start, i)], start[Len(sorted) + 1])
<1> DEFINE n == Len(sorted)
           S == 0..n
           records == [i \in 1..n |-> Record(sorted, bases, forms, start, i)]
           V == {records[i] : i \in 1..n}
           w == [k \in S |-> Ok(Upfront(records, k), start[k + 1])]
           h == CHOOSE g : g = [k \in S |-> EntriesStep(g, s, k)]
<1>1. n \in Nat
  BY LenProperties DEF Writable
<1>2. Entries(s) = h[n]
  <2>1. s[1][2] = n
    BY DEF Layout
  <2>2. Entries(s) = (CHOOSE g : g = [k \in 0..(s[1][2]) |-> EntriesStep(g, s, k)])[s[1][2]]
    BY Zenon DEF Entries, EntriesStep
  <2> QED BY <2>1, <2>2, Zenon
<1>3. ASSUME NEW i \in 1..n
      PROVE  ReadEntry(s, start[i]) = Ok(records[i], start[i + 1])
  <2>1. ReadEntry(s, start[i]) = Ok(Record(sorted, bases, forms, start, i),
                                    start[i] + Len(EntryAt(sorted, bases, forms, start, i)))
    BY EntryRead DEF Layout
  <2>2. start[i + 1] = start[i] + Len(EntryAt(sorted, bases, forms, start, i))
    BY DEF Layout
  <2>3. records[i] = Record(sorted, bases, forms, start, i)
    OBVIOUS
  <2> HIDE DEF records
  <2> QED BY <2>1, <2>2, <2>3, Zenon
<1>4. records \in [1..n -> V]
  <2> HIDE DEF n
  <2> QED OBVIOUS
<1>5. start[1] = 1
  BY DEF Layout
<1> HIDE DEF records, V, n
<1>6. ASSUME NEW k \in S PROVE w[k] = EntriesStep(w, s, k)
  <2>1. w[k] = Ok(Upfront(records, k), start[k + 1])
    OBVIOUS
  <2>2. CASE k = 0
    <3>1. w[0] = Ok(<<>>, start[0 + 1])
      BY <2>1, <2>2, UpfrontNone
    <3>2. start[0 + 1] = 1
      BY <1>5
    <3> HIDE DEF w
    <3> QED BY <2>2, <3>1, <3>2, Zenon DEF EntriesStep
  <2>3. CASE k # 0
    <3> DEFINE j == k - 1
               r == w[j]
    <3>1. j \in S /\ j \in Nat /\ j + 1 = k /\ k \in 1..n
      BY <1>1, <2>3
    <3>2. r = Ok(Upfront(records, j), start[k])
      BY <3>1
    <3>3. Upfront(records, k) = Append(Upfront(records, j), records[k])
      <4>1. Upfront(records, j + 1) = Append(Upfront(records, j), records[j + 1])
        <5> HIDE DEF j
        <5>1. j + 1 <= n
          BY <1>1, <3>1
        <5> QED BY <1>1, <1>4, <3>1, <5>1, UpfrontGrows
      <4> QED BY <3>1, <4>1
    <3> HIDE DEF w
    <3>4. r.status = "ok" /\ r.value = Upfront(records, j) /\ r.next = start[k]
      BY <3>2 DEF Ok
    <3> DEFINE e == ReadEntry(s, start[k])
    <3>5. e = Ok(records[k], start[k + 1])
      BY <1>3, <3>1
    <3> HIDE DEF r, e
    <3>6. e.status = "ok" /\ e.value = records[k] /\ e.next = start[k + 1]
      BY <3>5 DEF Ok
    <3>7. EntriesStep(w, s, k) = AndThen(r, LAMBDA x :
            AndThen(ReadEntry(s, x.next), LAMBDA y : Ok(Append(x.value, y.value), y.next)))
      BY <2>3, Zenon DEF EntriesStep, r
    <3>8. EntriesStep(w, s, k) = AndThen(ReadEntry(s, r.next), LAMBDA y : Ok(Append(r.value, y.value), y.next))
      BY <3>4, <3>7, Zenon DEF AndThen
    <3>9. ReadEntry(s, r.next) = e
      BY <3>4 DEF e
    <3>10. EntriesStep(w, s, k) = Ok(Append(r.value, e.value), e.next)
      BY <3>6, <3>8, <3>9, Zenon DEF AndThen
    <3> QED BY <2>1, <3>3, <3>4, <3>6, <3>10, Zenon
  <2> QED BY <2>2, <2>3
<1>7. w = [k \in S |-> EntriesStep(w, s, k)]
  <2> DEFINE v == [k \in S |-> EntriesStep(w, s, k)]
  <2>1. \A k \in S : w[k] = v[k]
    <3> HIDE DEF w
    <3> QED BY <1>6
  <2>2. DOMAIN w = S /\ DOMAIN v = S /\ w = [k \in S |-> w[k]] /\ v = [k \in S |-> v[k]]
    OBVIOUS
  <2> HIDE DEF w, v, S
  <2>3. w = v
    BY <2>1, <2>2
  <2> QED BY <2>3 DEF v
<1> HIDE DEF w
<1>8. h = [k \in S |-> EntriesStep(h, s, k)]
  BY <1>7, Zenon
<1> HIDE DEF h
<1>9. \A k \in S : h[k] = EntriesStep(h, s, k)
  BY <1>8
<1> DEFINE A == {k \in Nat : k \in S => h[k] = w[k]}
<1>10. 0 \in A
  <2>1. 0 \in S
    BY <1>1
  <2>2. EntriesStep(h, s, 0) = EntriesStep(w, s, 0)
    BY DEF EntriesStep
  <2>3. h[0] = w[0]
    BY <1>6, <1>9, <2>1, <2>2
  <2> QED BY <2>3
<1>11. ASSUME NEW k \in Nat, k \in A PROVE k + 1 \in A
  <2> SUFFICES ASSUME k + 1 \in S PROVE h[k + 1] = w[k + 1]
    OBVIOUS
  <2>1. k \in S /\ (k + 1) - 1 = k /\ k + 1 # 0
    BY <1>1
  <2>2. h[k] = w[k]
    BY <1>11, <2>1
  <2>3. EntriesStep(h, s, k + 1) = EntriesStep(w, s, k + 1)
    BY <2>1, <2>2, Zenon DEF EntriesStep
  <2> QED BY <1>6, <1>9, <2>3
<1>12. Nat \subseteq A
  <2> HIDE DEF A
  <2> QED BY <1>10, <1>11, NaturalInduction
<1>13. n \in S
  BY <1>1
<1>14. h[n] = w[n]
  BY <1>1, <1>12, <1>13
<1>15. w[n] = Ok(Upfront(records, n), start[n + 1])
  BY <1>13 DEF w
<1>16. Upfront(records, n) = records
  BY DEF Upfront, records
<1> QED BY <1>2, <1>14, <1>15, <1>16 DEF records, n

-----------------------------------------------------------------------------
(* Resolutions *)

\* What parse knows of an entry.
LEMMA RecordIs ==
    ASSUME NEW sorted, NEW bases, NEW forms, Writable(sorted, bases, forms), NEW start, NEW i \in 1..Len(sorted)
    PROVE  LET record == Record(sorted, bases, forms, start, i)
               data == Payload(sorted, bases, forms, i)
           IN  /\ record.start = start[i] /\ record.size = Len(data) /\ record.data = data
               /\ forms[i].kind = "whole" => record.kind = "object" /\ record.obj_type = sorted[i].obj_type
               /\ forms[i].kind = "ref" => record.kind = "ref" /\ record.base = bases[forms[i].of]
               /\ forms[i].kind = "ofs" => record.kind = "ofs" /\ record.base_pos = start[forms[i].of]
<1> DEFINE form == forms[i]
           data == Payload(sorted, bases, forms, i)
           record == Record(sorted, bases, forms, start, i)
           none == ""
<1>1. form.kind = "whole" \/ form.kind = "ref" \/ form.kind = "ofs"
  BY WritableIs
<1>2. CASE form.kind = "whole"
  <2>1. record = Parsed("object", sorted[i].obj_type, <<>>, 0, start[i], Len(data), data)
    BY <1>2 DEF Record
  <2> HIDE DEF record, data, none
  <2> QED BY <1>2, <2>1 DEF Parsed, record, data
<1>3. CASE form.kind = "ref"
  <2>1. record = Parsed("ref", none, bases[form.of], 0, start[i], Len(data), data)
    BY <1>3 DEF Record
  <2> HIDE DEF record, data, none
  <2>2. record.start = start[i] /\ record.size = Len(data) /\ record.data = data /\ record.kind = "ref" /\ record.base = bases[form.of]
    BY <2>1 DEF Parsed
  <2> QED BY <1>3, <2>2 DEF record, data
<1>4. CASE form.kind = "ofs"
  <2>1. record = Parsed("ofs", none, <<>>, start[form.of], start[i], Len(data), data)
    BY <1>4 DEF Record
  <2> HIDE DEF record, data, none
  <2>2. record.start = start[i] /\ record.size = Len(data) /\ record.data = data /\ record.kind = "ofs" /\ record.base_pos = start[form.of]
    BY <2>1 DEF Parsed
  <2> QED BY <1>4, <2>2 DEF record, data
<1> QED BY <1>1, <1>2, <1>3, <1>4

\* No two entries start at the same place.
LEMMA StartsRise ==
    ASSUME NEW sorted, NEW bases, NEW forms, Writable(sorted, bases, forms), NEW start, NEW s,
           Layout(sorted, bases, forms, start, s)
    PROVE  \A i, j \in 1..Len(sorted) : start[i] = start[j] => i = j
<1> DEFINE n == Len(sorted)
           A == {k \in Nat : \A i \in 1..n : i + k + 1 <= n => start[i] < start[i + k + 1]}
<1>1. n \in Nat
  BY LenProperties DEF Writable
<1>2. \A i \in 1..(n + 1) : start[i] \in Nat
  BY DEF Layout
<1>3. ASSUME NEW i \in 1..n PROVE start[i] < start[i + 1]
  <2> DEFINE e == EntryAt(sorted, bases, forms, start, i)
  <2>1. Len(e) \in Nat /\ Len(e) > 0
    BY EntryRead DEF Layout
  <2>2. start[i + 1] = start[i] + Len(e) /\ start[i] \in Nat
    BY <1>1, <1>2 DEF Layout
  <2> HIDE DEF e
  <2> QED BY <2>1, <2>2
<1> HIDE DEF n
<1>4. 0 \in A
  <2>1. \A i \in 1..n : i + 0 + 1 = i + 1
    BY <1>1
  <2> QED BY <1>3, <2>1
<1>5. ASSUME NEW k \in Nat, k \in A PROVE k + 1 \in A
  <2> SUFFICES ASSUME NEW i \in 1..n, i + (k + 1) + 1 <= n PROVE start[i] < start[i + (k + 1) + 1]
    OBVIOUS
  <2> DEFINE j == i + k + 1
  <2>1. j \in 1..n /\ j + 1 = i + (k + 1) + 1 /\ i \in 1..(n + 1) /\ j \in 1..(n + 1) /\ j + 1 \in 1..(n + 1)
    BY <1>1
  <2>2. start[i] < start[j]
    BY <1>5, <2>1
  <2> HIDE DEF j
  <2>3. start[j] < start[j + 1]
    BY <1>3, <2>1
  <2>4. start[i] \in Nat /\ start[j] \in Nat /\ start[j + 1] \in Nat
    BY <1>2, <2>1
  <2> QED BY <2>1, <2>2, <2>3, <2>4
<1>6. Nat \subseteq A
  <2> HIDE DEF A
  <2> QED BY <1>4, <1>5, NaturalInduction
<1>7. ASSUME NEW i \in 1..n, NEW j \in 1..n, i < j PROVE start[i] < start[j]
  <2>1. (j - i) - 1 \in Nat /\ i + ((j - i) - 1) + 1 = j /\ j <= n
    BY <1>1, <1>7
  <2> QED BY <1>6, <2>1
<1>8. ASSUME NEW i \in 1..n, NEW j \in 1..n, start[i] = start[j] PROVE i = j
  <2>1. start[i] \in Nat /\ start[j] \in Nat
    BY <1>1, <1>2
  <2>2. ~(i < j) /\ ~(j < i)
    BY <1>7, <1>8, <2>1
  <2> QED BY <1>1, <2>2
<1> QED BY <1>8 DEF n

\* Where resolve finds the base of entry i.
Below(entries, i) == SelectInSeq(entries, LAMBDA d : d.start = entries[i].base_pos)

LEMMA BelowIs ==
    ASSUME NEW n \in Nat, NEW entries, Len(entries) = n, NEW i
    PROVE  /\ Below(entries, i) \in 0..n
           /\ \A j \in 1..n : (\A k \in 1..n : entries[k].start = entries[i].base_pos <=> k = j) => Below(entries, i) = j
<1> DEFINE I == {k \in 1..n : entries[k].start = entries[i].base_pos}
<1>1. Below(entries, i) = IF I # {} THEN Min(I) ELSE 0
  BY Zenon DEF Below, SelectInSeq
<1>2. I \subseteq 1..n
  OBVIOUS
<1>3. ASSUME NEW j \in 1..n, \A k \in 1..n : entries[k].start = entries[i].base_pos <=> k = j
      PROVE  I = {j}
  BY <1>3
<1> HIDE DEF I
<1>4. I # {} => Min(I) \in I
  <2>1. I \subseteq Nat
    BY <1>2
  <2> QED BY <2>1, MinOf
<1>5. Below(entries, i) \in 0..n
  <2>1. CASE I = {}
    <3>1. Below(entries, i) = 0
      BY <1>1, <2>1
    <3> QED BY <3>1
  <2>2. CASE I # {}
    <3>1. Below(entries, i) = Min(I) /\ Min(I) \in 1..n
      BY <1>1, <1>2, <1>4, <2>2
    <3> QED BY <3>1
  <2> QED BY <2>1, <2>2
<1>6. \A j : I = {j} => Below(entries, i) = j
  BY <1>1, <1>4
<1> QED BY <1>3, <1>5, <1>6

\* The base of a delta is found by its offset.
LEMMA BaseFound ==
    ASSUME NEW sorted, NEW bases, NEW forms, Writable(sorted, bases, forms), NEW start, NEW s,
           Layout(sorted, bases, forms, start, s), NEW entries, Len(entries) = Len(sorted),
           \A k \in 1..Len(sorted) : entries[k] = Record(sorted, bases, forms, start, k),
           NEW i \in 1..Len(sorted), forms[i].kind = "ofs"
    PROVE  Below(entries, i) = forms[i].of /\ forms[i].of \in 1..(i - 1)
<1> DEFINE n == Len(sorted)
           j == forms[i].of
<1>1. n \in Nat /\ j \in 1..(i - 1) /\ j \in 1..n
  <2>1. n \in Nat
    BY LenProperties DEF Writable
  <2> DEFINE form == forms[i]
  <2>2. \/ form.kind = "whole" \/ form.kind = "ref"
        \/ form.kind = "ofs" /\ form.of \in 1..(i - 1) /\ form.of \in 1..n
    BY WritableIs
  <2> HIDE DEF n
  <2> QED BY <2>1, <2>2
<1>2. entries[i].base_pos = start[j]
  BY RecordIs
<1>3. \A k \in 1..n : entries[k].start = start[k]
  BY RecordIs
<1>4. \A k \in 1..n : start[k] = start[j] <=> k = j
  BY <1>1, StartsRise
<1>5. \A k \in 1..n : entries[k].start = entries[i].base_pos <=> k = j
  <2> HIDE DEF n, j
  <2> QED BY <1>2, <1>3, <1>4
<1>6. Len(entries) = n
  OBVIOUS
<1> HIDE DEF n, j
<1>7. Below(entries, i) = j
  BY <1>1, <1>5, <1>6, BelowIs
<1> QED BY <1>1, <1>7 DEF j

\* The recursion of applying one delta after the other.
ChainStep(f, base, deltas, k) ==
    IF k = 0 THEN Ok(base, 0) ELSE AndThen(f[k - 1], LAMBDA r : ApplyDelta(r.value, deltas[k]))

Chain(base, deltas) == CHOOSE g : g = [k \in 0..Len(deltas) |-> ChainStep(g, base, deltas, k)]

LEMMA ChainDef ==
    ASSUME NEW base, NEW deltas, Len(deltas) \in Nat
    PROVE  /\ ApplyChain(base, deltas) = Chain(base, deltas)[Len(deltas)]
           /\ \A k \in 0..Len(deltas) : Chain(base, deltas)[k] = ChainStep(Chain(base, deltas), base, deltas, k)
<1> DEFINE n == Len(deltas)
           S == 0..n
           step(f, k) == ChainStep(f, base, deltas, k)
           upTo(f, m) == \A k \in S : k <= m => f[k] = step(f, k)
           A == {m \in Nat : \E f : upTo(f, m)}
<1>1. ASSUME NEW k \in S, NEW f, NEW g, k # 0 => f[k - 1] = g[k - 1]
      PROVE  step(f, k) = step(g, k)
  <2>1. CASE k = 0
    BY <2>1, Zenon DEF ChainStep
  <2>2. CASE k # 0
    <3>1. f[k - 1] = g[k - 1]
      BY <1>1, <2>2
    <3> QED BY <2>2, <3>1, Zenon DEF ChainStep
  <2> QED BY <2>1, <2>2
<1>2. 0 \in A
  <2> DEFINE f == [k \in S |-> Ok(base, 0)]
  <2>1. 0 \in S /\ \A k \in S : k <= 0 => k = 0
    OBVIOUS
  <2>2. f[0] = Ok(base, 0)
    BY <2>1
  <2>3. step(f, 0) = Ok(base, 0)
    BY Zenon DEF ChainStep
  <2>4. f[0] = step(f, 0)
    BY <2>2, <2>3
  <2> HIDE DEF f, step
  <2>5. upTo(f, 0)
    BY <2>1, <2>4
  <2> QED BY <2>5
<1> HIDE DEF step
<1>3. ASSUME NEW m \in Nat, m \in A PROVE m + 1 \in A
  <2>1. PICK f : upTo(f, m)
    BY <1>3
  <2> DEFINE g == [k \in S |-> IF k <= m THEN f[k] ELSE step(f, k)]
  <2>2. ASSUME NEW k \in S, k <= m + 1 PROVE g[k] = step(g, k)
    <3>1. k # 0 => k - 1 \in S /\ k - 1 <= m
      BY <2>2
    <3>2. k # 0 => f[k - 1] = g[k - 1]
      BY <3>1
    <3>3. step(f, k) = step(g, k)
      <4> HIDE DEF g
      <4> QED BY <1>1, <3>2
    <3>4. g[k] = step(f, k)
      BY <2>1
    <3> QED BY <3>3, <3>4
  <2>3. upTo(g, m + 1)
    BY <2>2
  <2> HIDE DEF g, upTo
  <2> QED BY <2>3
<1>4. Nat \subseteq A
  <2> HIDE DEF A
  <2> QED BY <1>2, <1>3, NaturalInduction
<1>5. PICK f : upTo(f, n)
  BY <1>4
<1> DEFINE g == [k \in S |-> f[k]]
<1>6. ASSUME NEW k \in S PROVE g[k] = step(g, k)
  <2>1. k # 0 => k - 1 \in S
    OBVIOUS
  <2>2. k # 0 => f[k - 1] = g[k - 1]
    BY <2>1
  <2>3. step(f, k) = step(g, k)
    <3> HIDE DEF g
    <3> QED BY <1>1, <2>2
  <2>4. f[k] = step(f, k)
    BY <1>5
  <2> QED BY <2>3, <2>4
<1>7. g = [k \in S |-> step(g, k)]
  BY <1>6
<1> DEFINE h == Chain(base, deltas)
<1>8. h = [k \in S |-> step(h, k)]
  <2> HIDE DEF g
  <2> QED BY <1>7, Zenon DEF Chain, step
<1>9. ApplyChain(base, deltas) = h[n]
  BY Zenon DEF ApplyChain, Chain, ChainStep
<1> HIDE DEF h
<1>10. \A k \in S : h[k] = step(h, k)
  BY <1>8
<1> QED BY <1>9, <1>10 DEF h, step

\* No delta leaves the base; one more is applied to what the others give.
LEMMA ChainNone ==
    ASSUME NEW base
    PROVE  ApplyChain(base, <<>>) = Ok(base, 0)
<1>1. Len(<<>>) = 0
  OBVIOUS
<1>2. ApplyChain(base, <<>>) = Chain(base, <<>>)[0] /\ Chain(base, <<>>)[0] = ChainStep(Chain(base, <<>>), base, <<>>, 0)
  <2> DEFINE none == <<>>
  <2>1. Len(none) = 0
    BY <1>1
  <2> HIDE DEF none
  <2>2. ApplyChain(base, none) = Chain(base, none)[0] /\ Chain(base, none)[0] = ChainStep(Chain(base, none), base, none, 0)
    BY <2>1, ChainDef
  <2> QED BY <2>2 DEF none
<1> QED BY <1>2, Zenon DEF ChainStep

LEMMA ChainMore ==
    ASSUME NEW base, NEW V, NEW deltas \in Seq(V), NEW d \in V
    PROVE  ApplyChain(base, deltas).status = "ok"
              => ApplyChain(base, Append(deltas, d)) = ApplyDelta(ApplyChain(base, deltas).value, d)
<1> DEFINE n == Len(deltas)
           more == Append(deltas, d)
           f == Chain(base, deltas)
           g == Chain(base, more)
           A == {k \in Nat : k <= n => g[k] = f[k]}
<1>1. n \in Nat /\ Len(more) = n + 1 /\ more[n + 1] = d /\ \A k \in 1..n : more[k] = deltas[k]
  BY LenProperties, AppendProperties
<1> HIDE DEF more
<1>2. ApplyChain(base, deltas) = f[n] /\ \A k \in 0..n : f[k] = ChainStep(f, base, deltas, k)
  BY <1>1, ChainDef
<1>3. ApplyChain(base, more) = g[n + 1] /\ \A k \in 0..(n + 1) : g[k] = ChainStep(g, base, more, k)
  <2>1. Len(more) \in Nat /\ Len(more) = n + 1
    BY <1>1
  <2>2. ApplyChain(base, more) = g[Len(more)] /\ \A k \in 0..Len(more) : g[k] = ChainStep(g, base, more, k)
    BY <2>1, ChainDef
  <2> HIDE DEF g, n
  <2> QED BY <2>1, <2>2
<1> HIDE DEF f, g, n
<1>4. 0 \in A
  <2>1. ChainStep(f, base, deltas, 0) = ChainStep(g, base, more, 0)
    BY Zenon DEF ChainStep
  <2> QED BY <1>1, <1>2, <1>3, <2>1
<1>5. ASSUME NEW k \in Nat, k \in A PROVE k + 1 \in A
  <2> SUFFICES ASSUME k + 1 <= n PROVE g[k + 1] = f[k + 1]
    OBVIOUS
  <2>1. k + 1 \in 0..n /\ k + 1 \in 0..(n + 1) /\ k + 1 \in 1..n /\ (k + 1) - 1 = k /\ k + 1 # 0
    BY <1>1
  <2>2. g[k] = f[k] /\ more[k + 1] = deltas[k + 1]
    BY <1>1, <1>5, <2>1
  <2>3. ChainStep(f, base, deltas, k + 1) = ChainStep(g, base, more, k + 1)
    <3>1. g[(k + 1) - 1] = f[(k + 1) - 1]
      BY <2>1, <2>2
    <3> QED BY <2>1, <2>2, <3>1, Zenon DEF ChainStep, AndThen
  <2> QED BY <1>2, <1>3, <2>1, <2>3
<1>6. Nat \subseteq A
  <2> HIDE DEF A
  <2> QED BY <1>4, <1>5, NaturalInduction
<1>7. g[n] = f[n]
  BY <1>1, <1>6
<1>8. n + 1 \in 0..(n + 1) /\ (n + 1) - 1 = n /\ n + 1 # 0
  BY <1>1
<1>9. g[n + 1] = ChainStep(g, base, more, n + 1)
  BY <1>3, <1>8
<1>10. ChainStep(g, base, more, n + 1) = AndThen(g[n], LAMBDA r : ApplyDelta(r.value, more[n + 1]))
  BY <1>8, Zenon DEF ChainStep
<1>11. ApplyChain(base, deltas).status = "ok" => ApplyChain(base, more) = ApplyDelta(ApplyChain(base, deltas).value, d)
  <2>1. ApplyChain(base, more) = AndThen(g[n], LAMBDA r : ApplyDelta(r.value, more[n + 1]))
    BY <1>3, <1>9, <1>10, Zenon
  <2>2. more[n + 1] = d /\ g[n] = ApplyChain(base, deltas)
    BY <1>1, <1>2, <1>7
  <2> QED BY <2>1, <2>2, Zenon DEF AndThen
<1> QED BY <1>11 DEF more

\* What resolve makes of entry i when x is what it has made of the entry below.
Stacked(x, e, i) ==
    AndThen(x, LAMBDA r :
        IF r.value.kind = "external" THEN Ok(StackOn(r.value, e.data), i)
        ELSE AndThen(ApplyDelta(r.value.data, e.data), LAMBDA d : Ok(Object(r.value.obj_type, d.value), i)))

\* The recursion of resolve.
ResolveStep(f, entries, i) ==
    LET e == entries[i]
        below == Below(entries, i)
    IN  IF e.kind # "ofs" THEN Ok(Alone(e), i)
        ELSE IF below = 0 THEN Fail("error")
        ELSE IF below >= i THEN Fail("panic")
        ELSE Stacked(f[below], e, i)

LEMMA ResolveDef ==
    ASSUME NEW n \in Nat, NEW entries, Len(entries) = n
    PROVE  \A i \in 1..n : Resolve(entries)[i] = ResolveStep(Resolve(entries), entries, i)
<1> DEFINE S == 1..n
           step(f, i) == ResolveStep(f, entries, i)
           upTo(f, k) == \A i \in S : i <= k => f[i] = step(f, i)
           A == {k \in Nat : \E f : upTo(f, k)}
<1>1. ASSUME NEW i \in S, NEW f, NEW g, \A j \in S : j < i => f[j] = g[j]
      PROVE  step(f, i) = step(g, i)
  <2> DEFINE e == entries[i]
             b == Below(entries, i)
  <2>2. b \in 0..n
    BY BelowIs
  <2>3. CASE e.kind # "ofs"
    <3>1. \A h : ResolveStep(h, entries, i) = Ok(Alone(e), i)
      BY <2>3 DEF ResolveStep
    <3> QED BY <3>1, Zenon
  <2>4. CASE ~(e.kind # "ofs")
    <3>1. \A h : ResolveStep(h, entries, i) = IF b = 0 THEN Fail("error")
                                              ELSE IF b >= i THEN Fail("panic")
                                              ELSE Stacked(h[b], e, i)
      BY <2>4 DEF ResolveStep
    <3> HIDE DEF b, e
    <3>2. CASE b = 0
      <4>1. \A h : ResolveStep(h, entries, i) = Fail("error")
        BY <3>1, <3>2
      <4> QED BY <4>1, Zenon
    <3>3. CASE b # 0 /\ b >= i
      <4>1. \A h : ResolveStep(h, entries, i) = Fail("panic")
        BY <3>1, <3>3
      <4> QED BY <4>1, Zenon
    <3>4. CASE b # 0 /\ ~(b >= i)
      <4>1. \A h : ResolveStep(h, entries, i) = Stacked(h[b], e, i)
        BY <3>1, <3>4
      <4>2. b \in S /\ b < i
        BY <2>2, <3>4
      <4>3. f[b] = g[b]
        BY <1>1, <4>2
      <4> QED BY <4>1, <4>3, Zenon
    <3> QED BY <3>2, <3>3, <3>4
  <2> QED BY <2>3, <2>4
<1> HIDE DEF step
<1>2. 0 \in A
  <2>1. \A i \in S : ~(i <= 0)
    OBVIOUS
  <2>2. upTo([i \in S |-> 0], 0)
    BY <2>1
  <2> HIDE DEF upTo
  <2> QED BY <2>2
<1>3. ASSUME NEW k \in Nat, k \in A PROVE k + 1 \in A
  <2>1. PICK f : upTo(f, k)
    BY <1>3
  <2> DEFINE g == [i \in S |-> IF i <= k THEN f[i] ELSE step(f, i)]
  <2>2. ASSUME NEW i \in S, i <= k + 1 PROVE g[i] = step(g, i)
    <3>1. \A j \in S : j < i => f[j] = g[j]
      BY <2>2
    <3>2. step(f, i) = step(g, i)
      <4> HIDE DEF g
      <4> QED BY <1>1, <3>1
    <3>3. g[i] = step(f, i)
      BY <2>1
    <3> QED BY <3>2, <3>3
  <2>3. upTo(g, k + 1)
    BY <2>2
  <2> HIDE DEF g, upTo
  <2> QED BY <2>3
<1>4. Nat \subseteq A
  <2> HIDE DEF A
  <2> QED BY <1>2, <1>3, NaturalInduction
<1>5. PICK f : upTo(f, n)
  BY <1>4
<1> DEFINE g == [i \in S |-> f[i]]
<1>6. ASSUME NEW i \in S PROVE g[i] = step(g, i)
  <2>1. \A j \in S : j < i => f[j] = g[j]
    OBVIOUS
  <2>2. step(f, i) = step(g, i)
    <3> HIDE DEF g
    <3> QED BY <1>1, <2>1
  <2>3. f[i] = step(f, i)
    BY <1>5
  <2> QED BY <2>2, <2>3
<1>7. g = [i \in S |-> step(g, i)]
  BY <1>6
<1> DEFINE h == Resolve(entries)
           T == 1..Len(entries)
<1>8. h = CHOOSE r : r = [i \in T |-> step(r, i)]
  BY Zenon DEF Resolve, ResolveStep, Stacked, Below, step
<1>9. T = S
  OBVIOUS
<1>10. h = [i \in S |-> step(h, i)]
  <2> HIDE DEF g, h, S, T
  <2>1. g = [i \in T |-> step(g, i)]
    BY <1>7, <1>9
  <2>2. h = [i \in T |-> step(h, i)]
    BY <1>8, <2>1, Zenon
  <2> QED BY <1>9, <2>2
<1> HIDE DEF h
<1>11. \A i \in S : h[i] = step(h, i)
  BY <1>10
<1> QED BY <1>11 DEF h, step
LEMMA ObjectIs ==
    \A type, data : LET o == Object(type, data) IN o.kind = "object" /\ o.obj_type = type /\ o.data = data
  BY DEF Object

LEMMA ExternalIs ==
    \A base, deltas : LET x == External(base, deltas) IN x.kind = "external" /\ x.base = base /\ x.deltas = deltas
<1> SUFFICES ASSUME NEW base, NEW deltas
             PROVE  LET x == External(base, deltas) IN x.kind = "external" /\ x.base = base /\ x.deltas = deltas
  OBVIOUS
<1> DEFINE none == ""
           x == External(base, deltas)
<1>1. x = [kind |-> "external", obj_type |-> none, data |-> <<>>, base |-> base, deltas |-> deltas]
  BY DEF External
<1> HIDE DEF none, x
<1>2. x.kind = "external" /\ x.base = base /\ x.deltas = deltas
  BY <1>1
<1> QED BY <1>2 DEF x

\* What resolve gives is the object, or a base and deltas that make it of it.
Makes(r, object) ==
    \/ r = Object(object.obj_type, object.data)
    \/ \E base \in Objects : \E deltas \in Seq(Seq(Nat)) :
          /\ r = External(base, deltas)
          /\ base.obj_type = object.obj_type
          /\ ApplyChain(base.data, deltas).status = "ok" /\ ApplyChain(base.data, deltas).value = object.data

\* A delta that is not stacked on others.
LEMMA MadeOfBase ==
    ASSUME NEW object, object.data \in Seq(Nat), NEW base \in Objects, Len(base.data) <= MaxSource,
           base.obj_type = object.obj_type
    PROVE  Makes(External(base, <<ComputeDelta(base.data, object.data)>>), object)
<1> DEFINE b == base.data
           t == object.data
           d == ComputeDelta(b, t)
           one == <<d>>
<1>1. b \in Seq(Nat) /\ t \in Seq(Nat) /\ Len(b) <= MaxSource
  BY DEF Objects
<1>2. ApplyDelta(b, d).status = "ok" /\ ApplyDelta(b, d).value = t /\ d \in Seq(Nat)
  <2> HIDE DEF b, t
  <2> QED BY <1>1, DeltaRoundTrip, ComputeDeltaType
<1> HIDE DEF d
<1>3. one \in Seq(Seq(Nat)) /\ one = Append(<<>>, d)
  BY <1>2
<1>4. <<>> \in Seq(Seq(Nat)) /\ d \in Seq(Nat)
  BY <1>2, EmptySeq
<1>5. ApplyChain(b, <<>>).status = "ok" => ApplyChain(b, Append(<<>>, d)) = ApplyDelta(ApplyChain(b, <<>>).value, d)
  <2> HIDE DEF b
  <2> DEFINE none == <<>>
  <2>1. none \in Seq(Seq(Nat))
    BY <1>4
  <2> HIDE DEF none
  <2>2. ApplyChain(b, none).status = "ok" => ApplyChain(b, Append(none, d)) = ApplyDelta(ApplyChain(b, none).value, d)
    BY <1>4, <2>1, ChainMore
  <2> QED BY <2>2 DEF none
<1>6. ApplyChain(b, <<>>).status = "ok" /\ ApplyChain(b, <<>>).value = b
  BY ChainNone DEF Ok
<1>7. ApplyChain(b, one) = ApplyDelta(b, d)
  <2> HIDE DEF b, one
  <2> QED BY <1>3, <1>5, <1>6, Zenon
<1>8. ApplyChain(b, one).status = "ok" /\ ApplyChain(b, one).value = t
  BY <1>2, <1>7
<1> HIDE DEF one
<1> QED BY <1>3, <1>8 DEF Makes, one, d

\* A delta on what is the object below, or is made of a base.
LEMMA MadeOfBelow ==
    ASSUME NEW object, object.data \in Seq(Nat), NEW under \in Objects, Len(under.data) <= MaxSource,
           under.obj_type = object.obj_type, NEW x, x.status = "ok", Makes(x.value, under),
           NEW e, e.data = ComputeDelta(under.data, object.data), NEW i
    PROVE  Stacked(x, e, i).status = "ok" /\ Makes(Stacked(x, e, i).value, object)
<1> DEFINE b == under.data
           t == object.data
           d == e.data
<1>1. b \in Seq(Nat) /\ t \in Seq(Nat) /\ Len(b) <= MaxSource
  BY DEF Objects
<1>2. ApplyDelta(b, d).status = "ok" /\ ApplyDelta(b, d).value = t /\ d \in Seq(Nat)
  <2>1. d = ComputeDelta(b, t)
    OBVIOUS
  <2> HIDE DEF b, t, d
  <2> QED BY <1>1, <2>1, DeltaRoundTrip, ComputeDeltaType
<1>3. Stacked(x, e, i) = IF x.value.kind = "external" THEN Ok(StackOn(x.value, d), i)
                         ELSE IF ApplyDelta(x.value.data, d).status = "ok"
                         THEN Ok(Object(x.value.obj_type, ApplyDelta(x.value.data, d).value), i)
                         ELSE ApplyDelta(x.value.data, d)
  BY Zenon DEF Stacked, AndThen
<1>4. CASE x.value = Object(under.obj_type, b)
  <2>1. x.value.kind # "external" /\ x.value.obj_type = object.obj_type /\ x.value.data = b
    BY <1>4, ObjectIs
  <2> HIDE DEF b, d, t
  <2>2. Stacked(x, e, i) = Ok(Object(object.obj_type, t), i)
    BY <1>2, <1>3, <2>1
  <2>3. Stacked(x, e, i).status = "ok" /\ Stacked(x, e, i).value = Object(object.obj_type, t)
    BY <2>2 DEF Ok
  <2> QED BY <2>3 DEF Makes, t
<1>5. ASSUME NEW base \in Objects, NEW deltas \in Seq(Seq(Nat)),
             x.value = External(base, deltas), base.obj_type = under.obj_type,
             ApplyChain(base.data, deltas).status = "ok", ApplyChain(base.data, deltas).value = b
      PROVE  Stacked(x, e, i).status = "ok" /\ Makes(Stacked(x, e, i).value, object)
  <2> DEFINE more == Append(deltas, d)
  <2>1. x.value.kind = "external" /\ x.value.base = base /\ x.value.deltas = deltas
    BY <1>5, ExternalIs
  <2>2. StackOn(x.value, d) = External(base, more)
    BY <2>1, Zenon DEF StackOn
  <2>3. Stacked(x, e, i) = Ok(External(base, more), i)
    <3> HIDE DEF d, b, more
    <3> QED BY <1>3, <2>1, <2>2
  <2>4. Stacked(x, e, i).status = "ok" /\ Stacked(x, e, i).value = External(base, more)
    BY <2>3 DEF Ok
  <2>5. ApplyChain(base.data, more) = ApplyDelta(b, d)
    <3>1. ApplyChain(base.data, more) = ApplyDelta(ApplyChain(base.data, deltas).value, d)
      <4> HIDE DEF d
      <4> QED BY <1>2, <1>5, ChainMore
    <3> HIDE DEF more, d, b
    <3> QED BY <1>5, <3>1, Zenon
  <2>6. ApplyChain(base.data, more).status = "ok" /\ ApplyChain(base.data, more).value = t
    BY <1>2, <2>5
  <2>7. more \in Seq(Seq(Nat))
    <3> HIDE DEF d
    <3> QED BY <1>2, AppendProperties
  <2>8. base.obj_type = object.obj_type
    BY <1>5
  <2> HIDE DEF more
  <2>9. Makes(External(base, more), object)
    BY <2>6, <2>7, <2>8 DEF Makes
  <2> QED BY <2>4, <2>9
<1> QED BY <1>4, <1>5 DEF Makes

\* Every entry is resolved.
LEMMA Resolutions ==
    ASSUME NEW sorted, NEW bases, NEW forms, Writable(sorted, bases, forms), NEW start, NEW s,
           Layout(sorted, bases, forms, start, s), NEW entries, Len(entries) = Len(sorted),
           \A k \in 1..Len(sorted) : entries[k] = Record(sorted, bases, forms, start, k)
    PROVE  \A i \in 1..Len(sorted) :
              Resolve(entries)[i].status = "ok" /\ Makes(Resolve(entries)[i].value, sorted[i])
<1> DEFINE n == Len(sorted)
           S == 1..n
           res == Resolve(entries)
           good(i) == res[i].status = "ok" /\ Makes(res[i].value, sorted[i])
           P == {i \in S : good(i)}
           m == [i \in S |-> i]
<1>1. n \in Nat
  BY LenProperties DEF Writable
<1>2. \A i \in S : res[i] = ResolveStep(res, entries, i)
  BY <1>1, ResolveDef
<1> HIDE DEF res
<1>3. ASSUME NEW i \in S, \A j \in S : j < i => good(j) PROVE good(i)
  <2> DEFINE e == entries[i]
             form == forms[i]
             object == sorted[i]
             data == Payload(sorted, bases, forms, i)
  <2>1. res[i] = IF e.kind # "ofs" THEN Ok(Alone(e), i)
                 ELSE IF Below(entries, i) = 0 THEN Fail("error")
                 ELSE IF Below(entries, i) >= i THEN Fail("panic")
                 ELSE Stacked(res[Below(entries, i)], e, i)
    BY <1>2, Zenon DEF ResolveStep
  <2>2. /\ e.data = data
        /\ form.kind = "whole" => e.kind = "object" /\ e.obj_type = object.obj_type
        /\ form.kind = "ref" => e.kind = "ref" /\ e.base = bases[form.of]
        /\ form.kind = "ofs" => e.kind = "ofs"
    BY RecordIs
  <2>3. /\ object \in Objects /\ object.data \in Seq(Nat)
        /\ \/ form.kind = "whole" /\ data = object.data
           \/ /\ form.kind = "ref" /\ bases[form.of] \in Objects /\ bases[form.of].obj_type = object.obj_type
              /\ Len(bases[form.of].data) <= MaxSource
              /\ data = ComputeDelta(bases[form.of].data, object.data)
           \/ /\ form.kind = "ofs" /\ form.of \in 1..(i - 1) /\ form.of \in 1..n
              /\ sorted[form.of].obj_type = object.obj_type
              /\ Len(sorted[form.of].data) <= MaxSource
              /\ data = ComputeDelta(sorted[form.of].data, object.data)
    BY WritableIs
  <2>4. form.kind = "ofs" => Below(entries, i) = form.of
    BY BaseFound
  <2>5. \A j \in S : sorted[j] \in Objects
    BY WritableIs
  <2> HIDE DEF e, form, object, data, S
  <2>6. CASE form.kind = "whole"
    <3>1. data = object.data /\ e.data = data /\ e.kind = "object" /\ e.obj_type = object.obj_type
      BY <2>2, <2>3, <2>6
    <3>2. Alone(e) = Object(object.obj_type, object.data)
      BY <3>1 DEF Alone
    <3>3. res[i] = Ok(Alone(e), i)
      BY <2>1, <3>1
    <3>4. res[i].status = "ok" /\ res[i].value = Object(object.obj_type, object.data)
      BY <3>2, <3>3 DEF Ok
    <3> QED BY <3>4 DEF Makes, object
  <2>7. CASE form.kind = "ref"
    <3> DEFINE base == bases[form.of]
    <3>1. /\ base \in Objects /\ base.obj_type = object.obj_type /\ Len(base.data) <= MaxSource
          /\ e.data = ComputeDelta(base.data, object.data) /\ e.kind = "ref" /\ e.base = base
      BY <2>2, <2>3, <2>7
    <3> HIDE DEF base
    <3>2. Alone(e) = External(base, <<ComputeDelta(base.data, object.data)>>)
      BY <3>1 DEF Alone
    <3>3. res[i] = Ok(Alone(e), i)
      BY <2>1, <3>1
    <3>4. res[i].status = "ok" /\ res[i].value = Alone(e)
      BY <3>3 DEF Ok
    <3>5. Makes(Alone(e), object)
      BY <2>3, <3>1, <3>2, MadeOfBase
    <3> QED BY <3>4, <3>5 DEF object
  <2>8. CASE form.kind = "ofs"
    <3> DEFINE j == form.of
               under == sorted[j]
               x == res[j]
    <3>1. /\ j \in 1..(i - 1) /\ j \in 1..n /\ under.obj_type = object.obj_type /\ Len(under.data) <= MaxSource
          /\ e.data = ComputeDelta(under.data, object.data) /\ e.kind = "ofs"
      BY <2>2, <2>3, <2>8
    <3>2. j \in S /\ j < i /\ j # 0 /\ ~(j >= i) /\ i \in Nat
      BY <1>1, <3>1 DEF S
    <3>3. x.status = "ok" /\ Makes(x.value, under) /\ under \in Objects
      BY <1>3, <2>5, <3>2
    <3>4. Below(entries, i) = j
      BY <2>4, <2>8
    <3>5. res[i] = Stacked(x, e, i)
      <4> HIDE DEF j
      <4> QED BY <2>1, <3>1, <3>2, <3>4
    <3> HIDE DEF under, x
    <3>6. Stacked(x, e, i).status = "ok" /\ Makes(Stacked(x, e, i).value, object)
      BY <2>3, <3>1, <3>3, MadeOfBelow
    <3> QED BY <3>5, <3>6 DEF object
  <2> QED BY <2>3, <2>6, <2>7, <2>8
<1>4. ASSUME NEW i \in S, \A j \in S : m[j] < m[i] => j \in P PROVE i \in P
  <2>1. \A j \in S : j < i => good(j)
    <3> HIDE DEF good
    <3> QED BY <1>4
  <2>2. good(i)
    BY <1>3, <2>1
  <2> QED BY <2>2
<1>5. \A i \in S : m[i] \in Nat
  OBVIOUS
<1>6. S \subseteq P
  <2> HIDE DEF S, P, m
  <2> QED BY <1>4, <1>5, MeasureInduction
<1>7. \A i \in S : good(i)
  <2> HIDE DEF good
  <2> QED BY <1>6
<1> QED BY <1>7 DEF res

\* What is made of a resolution by who has the bases.
LEMMA CompletedIs ==
    ASSUME NEW object \in Objects, NEW r, Makes(r, object)
    PROVE  Completed(r).status = "ok" /\ Completed(r).value = object
<1> DEFINE whole == [obj_type |-> object.obj_type, data |-> object.data]
<1>1. whole = object
  BY DEF Objects
<1>2. CASE r = Object(object.obj_type, object.data)
  <2>1. r.kind = "object" /\ r.obj_type = object.obj_type /\ r.data = object.data
    BY <1>2, ObjectIs
  <2>2. Completed(r) = Ok(whole, 0)
    BY <2>1, Zenon DEF Completed
  <2> HIDE DEF whole
  <2>3. Completed(r).status = "ok" /\ Completed(r).value = whole
    BY <2>2 DEF Ok
  <2> QED BY <1>1, <2>3
<1>3. ASSUME NEW base \in Objects, NEW deltas \in Seq(Seq(Nat)),
             r = External(base, deltas), base.obj_type = object.obj_type,
             ApplyChain(base.data, deltas).status = "ok", ApplyChain(base.data, deltas).value = object.data
      PROVE  Completed(r).status = "ok" /\ Completed(r).value = object
  <2>1. r.kind = "external" /\ r.base = base /\ r.deltas = deltas
    BY <1>3, ExternalIs
  <2>2. r.kind # "object"
    BY <2>1
  <2>3. Completed(r) = Ok([obj_type |-> r.base.obj_type, data |-> ApplyChain(r.base.data, r.deltas).value], 0)
    <3>1. ApplyChain(r.base.data, r.deltas).status = "ok"
      BY <1>3, <2>1
    <3> QED BY <2>2, <3>1, Zenon DEF Completed, AndThen
  <2>4. Completed(r) = Ok(whole, 0)
    BY <1>3, <2>1, <2>3, Zenon
  <2> HIDE DEF whole
  <2>5. Completed(r).status = "ok" /\ Completed(r).value = whole
    BY <2>4 DEF Ok
  <2> QED BY <1>1, <2>5
<1> QED BY <1>2, <1>3 DEF Makes

LEMMA AllOfRight ==
    ASSUME NEW n \in Nat, NEW results, Len(results) = n, \A i \in 1..n : results[i].status = "ok"
    PROVE  AllOf(results) = Ok([i \in 1..n |-> results[i].value], 0)
<1> DEFINE I == {i \in 1..Len(results) : results[i].status # "ok"}
           bad == SelectInSeq(results, LAMBDA r : r.status # "ok")
<1>1. I = {}
  OBVIOUS
<1>2. bad = IF I # {} THEN Min(I) ELSE 0
  BY Zenon DEF SelectInSeq
<1> HIDE DEF I
<1>3. bad = 0
  <2> HIDE DEF bad
  <2> QED BY <1>1, <1>2
<1>4. AllOf(results) = IF bad = 0 THEN Ok([i \in 1..Len(results) |-> results[i].value], 0) ELSE results[bad]
  BY Zenon DEF AllOf
<1> HIDE DEF bad
<1> QED BY <1>3, <1>4

\* What is read from a pack: its entries, with the sizes of what is in them, and
\* with the bases the objects that were written, in the order of their entries.
LEMMA PackRead ==
    ASSUME NEW objs \in Seq(Objects), NEW bases, NEW forms, Writable(Sorted(objs), bases, forms)
    PROVE  LET s == BuildWithBases(objs, bases, forms)
               back == ReadBack(Parse(s))
               entries == Entries(s).value
           IN  /\ \A i \in 1..Len(entries) : entries[i].size = Len(entries[i].data)
               /\ \A i \in 1..Len(back) : back[i].status = "ok"
               /\ [i \in 1..Len(back) |-> back[i].value] = Sorted(objs)
<1> DEFINE s == BuildWithBases(objs, bases, forms)
           sorted == Sorted(objs)
           n == Len(sorted)
<1>1. PICK start : Layout(sorted, bases, forms, start, s)
  BY PackLayout
<1> HIDE DEF s
<1>2. sorted \in Seq(Objects) /\ n \in Nat
  BY LenProperties DEF Writable
<1>3. sorted = [i \in 1..n |-> sorted[i]] /\ \A i \in 1..n : sorted[i] \in Objects
  <2> HIDE DEF sorted
  <2>1. sorted \in [1..n -> Objects]
    BY <1>2, LenProperties
  <2> QED BY <2>1
<1>12. Writable(sorted, bases, forms)
  OBVIOUS
<1> HIDE DEF sorted
<1> DEFINE records == [i \in 1..n |-> Record(sorted, bases, forms, start, i)]
           results == [i \in 1..n |-> Resolve(records)[i]]
           values == [i \in 1..n |-> results[i].value]
           back == [i \in 1..n |-> Completed(values[i])]
<1>4. Entries(s) = Ok(records, start[n + 1])
  BY <1>1, <1>12, EntriesRead
<1> HIDE DEF n
<1>5. Len(records) = n /\ Len(results) = n /\ Len(values) = n /\ Len(back) = n
  <2>1. \A f : f = [i \in 1..n |-> f[i]] => Len(f) = n
    <3> TAKE f
    <3> HAVE f = [i \in 1..n |-> f[i]]
    <3> DEFINE V == {f[i] : i \in 1..n}
    <3>1. f \in [1..n -> V]
      OBVIOUS
    <3> HIDE DEF V
    <3> QED BY <1>2, <3>1, AsSeq
  <2>2. records = [i \in 1..n |-> records[i]]
    OBVIOUS
  <2>3. results = [i \in 1..n |-> results[i]]
    <3> HIDE DEF records
    <3> QED OBVIOUS
  <2>4. values = [i \in 1..n |-> values[i]]
    <3> HIDE DEF results
    <3> QED OBVIOUS
  <2>5. back = [i \in 1..n |-> back[i]]
    <3> HIDE DEF values
    <3> QED OBVIOUS
  <2> HIDE DEF records, results, values, back
  <2> QED BY <2>1, <2>2, <2>3, <2>4, <2>5
<1>6. \A i \in 1..n : records[i] = Record(sorted, bases, forms, start, i)
  OBVIOUS
<1> HIDE DEF records
<1>7. \A i \in 1..n : results[i].status = "ok" /\ Makes(results[i].value, sorted[i])
  <2>1. \A i \in 1..n : Resolve(records)[i].status = "ok" /\ Makes(Resolve(records)[i].value, sorted[i])
    BY <1>1, <1>5, <1>6, <1>12, Resolutions DEF n
  <2> QED BY <2>1
<1>8. Parse(s) = Ok(values, 0)
  <2>1. Entries(s).status = "ok" /\ Entries(s).value = records
    BY <1>4 DEF Ok
  <2>2. s # <<>>
    <3>1. Len(s) > 0
      BY <1>1 DEF Layout
    <3>2. Len(<<>>) = 0
      BY EmptySeq
    <3> QED BY <3>1, <3>2
  <2>3. Parse(s) = AllOf([i \in 1..Len(Entries(s).value) |-> Resolve(Entries(s).value)[i]])
    BY <2>1, <2>2, Zenon DEF Parse, AndThen
  <2>4. Parse(s) = AllOf(results)
    <3>1. [i \in 1..Len(records) |-> Resolve(records)[i]] = results
      BY <1>5
    <3> HIDE DEF results
    <3> QED BY <2>1, <2>3, <3>1, Zenon
  <2>5. AllOf(results) = Ok([i \in 1..n |-> results[i].value], 0)
    <3> HIDE DEF results
    <3> QED BY <1>2, <1>5, <1>7, AllOfRight
  <2> HIDE DEF results
  <2> QED BY <2>4, <2>5, Zenon
<1>13. \A i \in 1..n : values[i] = results[i].value
  <2> HIDE DEF results
  <2> QED OBVIOUS
<1> HIDE DEF values, results
<1>9. ReadBack(Parse(s)) = back
  <2>1. Parse(s).status = "ok" /\ Parse(s).value = values
    BY <1>8 DEF Ok
  <2>2. ReadBack(Parse(s)) = [i \in 1..Len(Parse(s).value) |-> Completed(Parse(s).value[i])]
    BY <2>1, Zenon DEF ReadBack
  <2>3. [i \in 1..Len(values) |-> Completed(values[i])] = back
    BY <1>5
  <2> HIDE DEF back
  <2> QED BY <2>1, <2>2, <2>3, Zenon
<1>10. \A i \in 1..n : back[i].status = "ok" /\ back[i].value = sorted[i]
  <2> TAKE i \in 1..n
  <2>1. Makes(values[i], sorted[i]) /\ sorted[i] \in Objects
    BY <1>3, <1>7, <1>13
  <2>2. Completed(values[i]).status = "ok" /\ Completed(values[i]).value = sorted[i]
    BY <2>1, CompletedIs
  <2> QED BY <2>2
<1> HIDE DEF back
<1>11. \A i \in 1..n : records[i].size = Len(records[i].data)
  <2> TAKE i \in 1..n
  <2>1. LET record == Record(sorted, bases, forms, start, i)
            data == Payload(sorted, bases, forms, i)
        IN  record.size = Len(data) /\ record.data = data
    BY <1>12, RecordIs DEF n
  <2> QED BY <1>6, <2>1
<1>14. Entries(s).value = records
  BY <1>4 DEF Ok
<1>15. [i \in 1..Len(back) |-> back[i].value] = sorted
  <2>1. [i \in 1..Len(back) |-> back[i].value] = [i \in 1..n |-> sorted[i]]
    BY <1>5, <1>10
  <2> QED BY <1>3, <2>1
<1>16. \A i \in 1..Len(back) : back[i].status = "ok"
  BY <1>5, <1>10
<1>17. \A i \in 1..Len(records) : records[i].size = Len(records[i].data)
  BY <1>5, <1>11
<1> QED BY <1>9, <1>14, <1>15, <1>16, <1>17 DEF s, sorted

-----------------------------------------------------------------------------
(* The commands of a push *)

\* A request is lines, a flush and a pack, if there is something to push; what
\* is received is what was sent.
Requested(rest) ==
    /\ body = FlattenSeq([i \in 1..Len(push.commands) |-> Encode(push.commands[i])]) \o Flush \o rest
    /\ rest = <<>> \/ \E x : rest = << <<"pack", x>> >>
    /\ rest = <<>> <=> push.objects = <<>>

CommandsInv ==
    /\ push \in Pushes
    /\ pc = "sent" => \E rest : Requested(rest)
    /\ CommandsIntact

\* The lines and the rest of a request are read as they were written.
LEMMA Received ==
    ASSUME push \in Pushes, NEW rest, Requested(rest)
    PROVE  ReadUntilFlush(body) = [lines |-> push.commands, rest |-> rest]
<1> DEFINE lines == push.commands
           inLines == UNION {Range(line) : line \in Range(lines)}
           digits == {<<"digit", d>> : d \in 0..(Hex - 1)}
           D == inLines \cup digits \cup Range(rest)
<1>1. /\ lines \in Seq(Range(lines))
      /\ \A line \in Range(lines) :
            line \in Seq(Range(line)) /\ Len(line) <= Longest /\ \A b \in Range(line) : IsByte(b)
  BY CommandsAreLines
<1>2. \A b \in Range(rest) : IsByte(b)
  <2>1. CASE rest = <<>>
    <3>1. Range(<<>>) = {}
      BY DEF Range
    <3> QED BY <2>1, <3>1
  <2>2. CASE \E x : rest = << <<"pack", x>> >>
    <3>1. PICK x : rest = << <<"pack", x>> >>
      BY <2>2
    <3>2. Range(rest) = {<<"pack", x>>}
      BY <3>1 DEF Range
    <3>3. IsByte(<<"pack", x>>)
      BY DEF IsByte
    <3> QED BY <3>2, <3>3
  <2> QED BY <2>1, <2>2 DEF Requested
<1>7. \A d \in 0..(Hex - 1) : <<"digit", d>> \in digits
  OBVIOUS
<1>9. \A b \in digits : IsByte(b)
  BY DEF IsByte
<1>10. \A b \in inLines : IsByte(b)
  BY <1>1
<1>11. \A line \in Range(lines) : Range(line) \subseteq inLines
  OBVIOUS
<1> HIDE DEF inLines, digits
<1>3. \A b \in D : IsByte(b)
  BY <1>2, <1>9, <1>10
<1>4. rest \in Seq(D)
  <2>1. CASE rest = <<>>
    BY <2>1, EmptySeq
  <2>2. CASE \E x : rest = << <<"pack", x>> >>
    <3>1. PICK x : rest = << <<"pack", x>> >>
      BY <2>2
    <3>2. <<"pack", x>> \in Range(rest)
      BY <3>1 DEF Range
    <3>3. <<"pack", x>> \in D
      BY <3>2
    <3> HIDE DEF D
    <3> QED BY <3>1, <3>3
  <2> QED BY <2>1, <2>2 DEF Requested
<1>5. \A line \in Range(lines) : line \in Seq(D)
  <2> SUFFICES ASSUME NEW line \in Range(lines) PROVE line \in Seq(D)
    OBVIOUS
  <2>1. line \in Seq(Range(line)) /\ Range(line) \subseteq D
    BY <1>1, <1>11
  <2> HIDE DEF D, lines
  <2> QED BY <2>1, SeqMonotonic
<1>6. lines \in Seq(Seq(D)) /\ \A i \in 1..Len(lines) : Len(lines[i]) <= Longest
  <2> HIDE DEF D, lines
  <2>1. Range(lines) \subseteq Seq(D)
    BY <1>5
  <2>2. lines \in Seq(Seq(D))
    BY <1>1, <2>1, SeqMonotonic
  <2>3. \A i \in 1..Len(lines) : lines[i] \in Range(lines)
    BY <1>1, ElementOfSeq
  <2> QED BY <1>1, <2>2, <2>3
<1>12. \A d \in 0..(Hex - 1) : <<"digit", d>> \in D
  BY <1>7
<1> HIDE DEF D
<1>8. ReadUntilFlush(FlattenSeq([i \in 1..Len(lines) |-> Encode(lines[i])]) \o Flush \o rest)
         = [lines |-> lines, rest |-> rest]
  <2> HIDE DEF lines
  <2> QED BY <1>3, <1>4, <1>6, <1>12, RequestRead
<1> QED BY <1>8 DEF Requested

LEMMA CommandsInvStep == CommandsInv /\ [Next]_vars => CommandsInv'
<1> SUFFICES ASSUME CommandsInv, [Next]_vars PROVE CommandsInv'
  OBVIOUS
<1> USE DEF CommandsInv
<1>1. CASE Send
  <2>1. PICK forms : body' = FlattenSeq([i \in 1..Len(push.commands) |-> Encode(push.commands[i])]) \o Flush
                  \o (IF push.objects = <<>> THEN <<>> ELSE PackOf(forms))
    BY <1>1, Zenon DEF Send
  <2>7. PICK rest : rest = IF push.objects = <<>> THEN <<>> ELSE PackOf(forms)
    OBVIOUS
  <2>2. push' = push /\ pc' = "sent"
    BY <1>1 DEF Send
  <2>3. rest = <<>> \/ \E x : rest = << <<"pack", x>> >>
    BY <2>7 DEF PackOf
  <2>4. rest = <<>> <=> push.objects = <<>>
    BY <2>7 DEF PackOf
  <2>5. body' = FlattenSeq([i \in 1..Len(push.commands) |-> Encode(push.commands[i])]) \o Flush \o rest
    BY <2>1, <2>7
  <2>6. Requested(rest)'
    BY <2>2, <2>3, <2>4, <2>5 DEF Requested
  <2> QED BY <2>2, <2>6 DEF CommandsIntact
<1>2. CASE Receive
  <2>1. PICK rest : Requested(rest)
    BY <1>2 DEF Receive
  <2>2. ReadUntilFlush(body) = [lines |-> push.commands, rest |-> rest]
    BY <2>1, Received
  <2>3. commands' = push.commands /\ pack' = rest /\ push' = push /\ pc' = "stored"
    BY <1>2, <2>2 DEF Receive
  <2>4. rest = <<>> <=> push.objects = <<>>
    BY <2>1 DEF Requested
  <2> QED BY <2>3, <2>4 DEF CommandsIntact
<1>3. CASE Build
  BY <1>3 DEF Build, CommandsIntact
<1>4. CASE Read
  BY <1>4 DEF Read, CommandsIntact
<1>5. CASE UNCHANGED vars
  <2>1. pc' = pc /\ push' = push /\ body' = body /\ commands' = commands /\ pack' = pack /\ writer' = writer
    BY <1>5 DEF vars
  <2>2. pc = "sent" => \E rest : Requested(rest)'
    BY <2>1 DEF Requested
  <2> QED BY <2>1, <2>2 DEF CommandsIntact
<1> QED BY <1>1, <1>2, <1>3, <1>4, <1>5 DEF Next

\* The lines of every push are received as they were sent, and a pack follows
\* them exactly if there is something to push: the invariant CommandsIntact for
\* all pushes (read_until_flush).
THEOREM LinesReceived == Spec => []CommandsIntact
<1>1. Init => CommandsInv
  BY DEF Init, CommandsInv, CommandsIntact
<1>2. CommandsInv /\ [Next]_vars => CommandsInv'
  BY CommandsInvStep
<1>3. CommandsInv => CommandsIntact
  BY DEF CommandsInv
<1> QED BY <1>1, <1>2, <1>3, PTL DEF Spec

-----------------------------------------------------------------------------
(* The pack of a push *)

\* The forms that a program chooses are those an entry may have.
LEMMA FormsAreWritable ==
    ASSUME push \in Pushes, NEW program, NEW forms \in PackForms(program)
    PROVE  push.objects \in Seq(Objects) /\ Writable(Sorted(push.objects), push.bases, forms)
<1> DEFINE objs == push.objects
           bases == push.bases
           sorted == Sorted(objs)
           n == Len(objs)
<1>1. /\ objs \in Seq(Objects) /\ bases \in Seq(Objects)
      /\ \A i \in 1..Len(objs) : Len(objs[i].data) <= MaxSource
      /\ \A i \in 1..Len(bases) : Len(bases[i].data) <= MaxSource
  BY ObjectsAreAddressed DEF Objects
<1>2. \A i \in 1..Len(sorted) : forms[i] \in FormsOf(program, sorted, bases, i)
  BY DEF PackForms
<1> HIDE DEF objs, bases
<1>3. n \in Nat /\ \A i \in 1..n : objs[i] \in Objects
  BY <1>1, LenProperties, ElementOfSeq
<1>4. PICK order \in [1..n -> 1..n] : sorted = [i \in 1..n |-> objs[order[i]]]
  BY <1>1, SortedIs
<1> HIDE DEF sorted, n
<1>5. sorted \in Seq(Objects) /\ Len(sorted) = n
  <2>1. sorted \in [1..n -> Objects]
    BY <1>3, <1>4
  <2> QED BY <1>3, <2>1, AsSeq
<1>6. \A i \in 1..n : Len(sorted[i].data) <= MaxSource
  BY <1>1, <1>4 DEF n
<1>7. \A i \in 1..n : Formed(sorted, bases, forms[i], i)
  <2> TAKE i \in 1..n
  <2>1. i \in Nat /\ forms[i] \in FormsOf(program, sorted, bases, i)
    BY <1>2, <1>3, <1>5
  <2> QED BY <2>1, FormsAreFormed
<1>8. Writable(sorted, bases, forms)
  BY <1>1, <1>5, <1>6, <1>7 DEF Writable
<1> QED BY <1>1, <1>8 DEF sorted, objs, bases

\* What follows the lines of p: nothing, or a pack of the objects that are pushed.
Carried(p, rest) ==
    \/ rest = <<>> /\ p.objects = <<>>
    \/ \E forms : /\ p.objects \in Seq(Objects) /\ Writable(Sorted(p.objects), p.bases, forms)
                  /\ rest = << <<"pack", BuildWithBases(p.objects, p.bases, forms)>> >>

LEMMA PackIsCarried ==
    ASSUME push \in Pushes, NEW program, NEW forms \in PackForms(program)
    PROVE  Carried(push, PackOf(forms))
  BY FormsAreWritable DEF Carried, PackOf

\* What is on its way, and what is stored, is the pack of the objects.
PackInv ==
    /\ push \in Pushes
    /\ pc \in {"write", "sent", "stored", "read"}
    /\ pc = "sent" => \E rest : Requested(rest) /\ Carried(push, rest)
    /\ pc = "stored" => Carried(push, pack)
    /\ commands = <<>> \/ commands = push.commands
    /\ pc # "read" => objects = <<>>
    /\ ObjectsIntact

\* What a reader makes of what is stored.
LEMMA CarriedRead ==
    ASSUME push \in Pushes, NEW rest, Carried(push, rest), rest # <<>>
    PROVE  LET s == rest[1][2]
               back == ReadBack(Parse(s))
               entries == Entries(s).value
           IN  /\ \A i \in 1..Len(entries) : entries[i].size = Len(entries[i].data)
               /\ \A i \in 1..Len(back) : back[i].status = "ok"
               /\ [i \in 1..Len(back) |-> back[i].value] = Sorted(push.objects)
<1>1. PICK forms : /\ push.objects \in Seq(Objects) /\ Writable(Sorted(push.objects), push.bases, forms)
                   /\ rest = << <<"pack", BuildWithBases(push.objects, push.bases, forms)>> >>
  BY DEF Carried
<1>2. rest[1][2] = BuildWithBases(push.objects, push.bases, forms)
  BY <1>1
<1>3. LET s == BuildWithBases(push.objects, push.bases, forms)
          back == ReadBack(Parse(s))
          entries == Entries(s).value
      IN  /\ \A i \in 1..Len(entries) : entries[i].size = Len(entries[i].data)
          /\ \A i \in 1..Len(back) : back[i].status = "ok"
          /\ [i \in 1..Len(back) |-> back[i].value] = Sorted(push.objects)
  <2> DEFINE objs == push.objects
             bases == push.bases
  <2>1. objs \in Seq(Objects) /\ Writable(Sorted(objs), bases, forms)
    BY <1>1
  <2> HIDE DEF objs, bases
  <2>2. LET s == BuildWithBases(objs, bases, forms)
            back == ReadBack(Parse(s))
            entries == Entries(s).value
        IN  /\ \A i \in 1..Len(entries) : entries[i].size = Len(entries[i].data)
            /\ \A i \in 1..Len(back) : back[i].status = "ok"
            /\ [i \in 1..Len(back) |-> back[i].value] = Sorted(objs)
    BY <2>1, PackRead
  <2> QED BY <2>2 DEF objs, bases
<1> QED BY <1>2, <1>3, Zenon

\* Of no objects there are none in order.
LEMMA SortedNone ==
    ASSUME NEW f
    PROVE  [i \in 1..Len(<<>>) |-> f[i]] = Sorted(<<>>)
<1> DEFINE none == <<>>
<1>1. none \in Seq(Objects) /\ Len(none) = 0
  BY EmptySeq
<1> HIDE DEF none
<1>2. PICK order \in [1..Len(none) -> 1..Len(none)] : Sorted(none) = [i \in 1..Len(none) |-> none[order[i]]]
  BY <1>1, SortedIs
<1>3. 1..Len(none) = {}
  BY <1>1
<1>4. [i \in 1..Len(none) |-> f[i]] = [i \in 1..Len(none) |-> none[order[i]]]
  BY <1>3
<1>5. [i \in 1..Len(none) |-> f[i]] = Sorted(none)
  BY <1>2, <1>4
<1> QED BY <1>5 DEF none

LEMMA PackInvStep == PackInv /\ [Next]_vars => PackInv'
<1> SUFFICES ASSUME PackInv, [Next]_vars PROVE PackInv'
  OBVIOUS
<1> USE DEF PackInv
<1>1. CASE Send
  <2>1. PICK forms \in PackForms("git") :
            body' = FlattenSeq([i \in 1..Len(push.commands) |-> Encode(push.commands[i])]) \o Flush
                    \o (IF push.objects = <<>> THEN <<>> ELSE PackOf(forms))
    BY <1>1, Zenon DEF Send
  <2>2. PICK rest : rest = IF push.objects = <<>> THEN <<>> ELSE PackOf(forms)
    OBVIOUS
  <2>3. push' = push /\ pc' = "sent" /\ commands' = commands /\ objects' = objects /\ pc = "write"
    BY <1>1 DEF Send
  <2>4. rest = <<>> \/ \E x : rest = << <<"pack", x>> >>
    BY <2>2 DEF PackOf
  <2>5. rest = <<>> <=> push.objects = <<>>
    BY <2>2 DEF PackOf
  <2>6. body' = FlattenSeq([i \in 1..Len(push.commands) |-> Encode(push.commands[i])]) \o Flush \o rest
    BY <2>1, <2>2
  <2>7. Requested(rest)'
    BY <2>3, <2>4, <2>5, <2>6 DEF Requested
  <2>8. Carried(push, rest)
    <3>1. Carried(push, PackOf(forms))
      BY <2>1, PackIsCarried
    <3>2. CASE push.objects = <<>>
      BY <2>2, <3>2 DEF Carried
    <3>3. CASE push.objects # <<>>
      BY <2>2, <3>1, <3>3
    <3> QED BY <3>2, <3>3
  <2>9. Carried(push', rest)
    BY <2>3, <2>8
  <2> QED BY <2>3, <2>7, <2>9 DEF ObjectsIntact
<1>2. CASE Receive
  <2>1. PICK rest : Requested(rest) /\ Carried(push, rest)
    BY <1>2 DEF Receive
  <2>2. ReadUntilFlush(body) = [lines |-> push.commands, rest |-> rest]
    BY <2>1, Received
  <2>3. commands' = push.commands /\ pack' = rest /\ push' = push /\ pc' = "stored" /\ objects' = objects /\ pc = "sent"
    BY <1>2, <2>2 DEF Receive
  <2>4. Carried(push', pack')
    BY <2>1, <2>3
  <2> QED BY <2>3, <2>4 DEF ObjectsIntact
<1>3. CASE Build
  <2>1. PICK forms \in PackForms("git-core") : pack' = PackOf(forms)
    BY <1>3 DEF Build
  <2>2. push' = push /\ pc' = "stored" /\ commands' = commands /\ objects' = objects /\ pc = "write"
    BY <1>3 DEF Build
  <2>3. Carried(push', pack')
    BY <2>1, <2>2, PackIsCarried
  <2> QED BY <2>2, <2>3 DEF ObjectsIntact
<1>4. CASE Read
  <2>1. push' = push /\ pc' = "read" /\ commands' = commands /\ Carried(push, pack)
    BY <1>4 DEF Read
  <2>2. objects' = IF pack = <<>> THEN <<>> ELSE ReadBack(Parse(pack[1][2]))
    BY <1>4 DEF Read
  <2>3. /\ \A i \in 1..Len(objects') : objects'[i].status = "ok"
        /\ [i \in 1..Len(objects') |-> objects'[i].value] = Sorted(push.objects)
    <3>1. CASE pack = <<>>
      <4>1. push.objects = <<>>
        BY <2>1, <3>1 DEF Carried
      <4>2. objects' = <<>>
        BY <2>2, <3>1
      <4> DEFINE none == <<>>
      <4>3. \A i \in 1..Len(none) : none[i].status = "ok"
        BY EmptySeq
      <4>4. [i \in 1..Len(none) |-> none[i].value] = Sorted(none)
        <5> DEFINE f == [i \in 1..Len(none) |-> none[i].value]
        <5>1. [i \in 1..Len(none) |-> f[i]] = Sorted(none)
          BY SortedNone
        <5> HIDE DEF none
        <5> QED BY <5>1
      <4> HIDE DEF none
      <4>5. objects' = none /\ push.objects = none
        BY <4>1, <4>2 DEF none
      <4> QED BY <4>3, <4>4, <4>5
    <3>2. CASE pack # <<>>
      <4>1. objects' = ReadBack(Parse(pack[1][2]))
        BY <2>2, <3>2
      <4> QED BY <2>1, <3>2, <4>1, CarriedRead
    <3> QED BY <3>1, <3>2
  <2>4. ObjectsIntact'
    BY <2>1, <2>3 DEF ObjectsIntact
  <2> QED BY <2>1, <2>4
<1>5. CASE UNCHANGED vars
  <2>1. pc' = pc /\ push' = push /\ body' = body /\ commands' = commands /\ pack' = pack /\ objects' = objects
    BY <1>5 DEF vars
  <2>2. pc = "sent" => \E rest : Requested(rest)' /\ Carried(push', rest)
    BY <2>1 DEF Requested
  <2>3. pc = "stored" => Carried(push', pack')
    BY <2>1
  <2>4. ObjectsIntact'
    BY <2>1 DEF ObjectsIntact
  <2> QED BY <2>1, <2>2, <2>3, <2>4
<1> QED BY <1>1, <1>2, <1>3, <1>4, <1>5 DEF Next

LEMMA PackInvAlways == Spec => []PackInv
<1>1. Init => PackInv
  BY DEF Init, PackInv, ObjectsIntact
<1> QED BY <1>1, PackInvStep, PTL DEF Spec

\* Whatever is pushed, whoever writes the pack and whichever of the entries are
\* deltas, and against what: a reader who has the bases gets the objects that
\* were put into it, for all radices, types and contents (build_with_bases,
\* parse, compute_delta, apply_delta).
THEOREM ObjectsReadBack == Spec => []ObjectsIntact
<1>1. PackInv => ObjectsIntact
  BY DEF PackInv
<1> QED BY <1>1, PackInvAlways, PTL

\* The size in front of every entry that is written is that of what is in it
\* (encode_pack_header).
THEOREM SizesWritten == Spec => []SizesRight
<1>1. PackInv => SizesRight
  BY CarriedRead DEF PackInv, SizesRight
<1> QED BY <1>1, PackInvAlways, PTL

\* The state is well-typed, and reading a pack that was written never panics
\* (parse, apply_delta).
THEOREM CodecTypeCorrect == Spec => []TypeOK
<1>1. PackInv => TypeOK
  <2> SUFFICES ASSUME PackInv PROVE TypeOK
    OBVIOUS
  <2>1. Len(push.commands) \in Nat /\ Len(commands) <= Len(push.commands)
    <3>1. push.commands \in Seq(Range(push.commands))
      BY CommandsAreLines DEF PackInv
    <3>2. Len(push.commands) \in Nat
      BY <3>1, LenProperties
    <3>3. Len(<<>>) = 0
      BY EmptySeq
    <3> QED BY <3>2, <3>3 DEF PackInv
  <2>2. \A i \in 1..Len(objects) : objects[i].status = "ok"
    <3>1. CASE pc = "read"
      BY <3>1 DEF PackInv, ObjectsIntact
    <3>2. CASE pc # "read"
      <4>1. objects = <<>>
        BY <3>2 DEF PackInv
      <4>2. Len(<<>>) = 0
        BY EmptySeq
      <4> QED BY <4>1, <4>2
    <3> QED BY <3>1, <3>2
  <2> QED BY <2>1, <2>2 DEF TypeOK, PackInv
<1> QED BY <1>1, PackInvAlways, PTL
=============================================================================
