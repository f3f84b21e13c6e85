------------------------------ MODULE Induction ------------------------------
(***************************************************************************)
(* Induction and recursion for the proof modules.  The induction theorems  *)
(* of the library are about a predicate, an operator, which the provers    *)
(* cannot instantiate.  Here the predicate is a set and a recursive        *)
(* definition is a function of functions, so that they can be cited like   *)
(* any fact; everything rests on the well-founded order of the naturals.   *)
(***************************************************************************)
EXTENDS Integers, FiniteSetTheorems, TLAPS

\* A set of naturals that is not empty has a least element.
LEMMA Least ==
    ASSUME NEW T, T \subseteq Nat, T # {}
    PROVE  \E n \in T : \A k \in T : n <= k
<1> DEFINE R == {ss \in Nat \X Nat : ss[1] < ss[2]}
<1>1. IsWellFoundedOn(R, Nat)
  BY NatLessThanWellFounded DEF OpToRel
<1> HIDE DEF R
<1>2. PICK n \in T : \A k \in T : <<k, n>> \notin R
  BY <1>1, WFMin
<1>3. \A x, y \in Nat : x < y => <<x, y>> \in R
  BY DEF R
<1>4. \A k \in T : ~(k < n)
  BY <1>2, <1>3
<1>5. n \in Nat /\ \A k \in T : k \in Nat
  OBVIOUS
<1>6. \A k \in T : n <= k
  BY <1>4, <1>5
<1> QED BY <1>6

\* Induction along a measure: a set that has every element of S all of whose
\* predecessors it has, has all of S.
THEOREM MeasureInduction ==
    ASSUME NEW S, NEW m, \A x \in S : m[x] \in Nat, NEW P,
           \A x \in S : (\A y \in S : m[y] < m[x] => y \in P) => x \in P
    PROVE  S \subseteq P
<1> SUFFICES ASSUME ~(S \subseteq P) PROVE FALSE
  OBVIOUS
<1> DEFINE T == {m[x] : x \in S \ P}
<1>1. T \subseteq Nat /\ T # {}
  OBVIOUS
<1>2. PICK n \in T : \A k \in T : n <= k
  BY <1>1, Least, Zenon
<1>3. PICK x \in S \ P : m[x] = n
  OBVIOUS
<1>4. ASSUME NEW y \in S, m[y] < m[x] PROVE y \in P
  <2>1. y \notin P => m[y] \in T
    OBVIOUS
  <2>2. n \in Nat /\ m[y] \in Nat
    BY <1>1
  <2>3. ~(n <= m[y])
    BY <1>3, <1>4, <2>2
  <2> QED BY <1>2, <2>1, <2>3
<1> QED BY <1>3, <1>4

\* Induction over the naturals.
THEOREM NaturalInduction ==
    ASSUME NEW P, 0 \in P, \A n \in Nat : n \in P => n + 1 \in P
    PROVE  Nat \subseteq P
<1> SUFFICES ASSUME ~(Nat \subseteq P) PROVE FALSE
  OBVIOUS
<1> DEFINE T == Nat \ P
<1>1. T \subseteq Nat /\ T # {}
  OBVIOUS
<1>2. PICK n \in T : \A k \in T : n <= k
  BY <1>1, Least, Zenon
<1>3. n \in Nat /\ n # 0
  OBVIOUS
<1>4. n - 1 \in Nat /\ ~(n <= n - 1)
  BY <1>3
<1>5. n - 1 \in P
  BY <1>2, <1>4
<1>6. (n - 1) + 1 \in P
  BY <1>4, <1>5
<1>7. (n - 1) + 1 = n
  BY <1>3
<1> QED BY <1>6, <1>7

-----------------------------------------------------------------------------
\* G is a recursive definition of a function from S to V: its value at x is
\* G[x] of the function, which looks at elements of smaller measure only.
IsRecursion(S, V, m, G) ==
    /\ V # {}
    /\ \A x \in S : m[x] \in Nat
    /\ G \in [S -> [[S -> V] -> V]]
    /\ \A x \in S : \A g, h \in [S -> V] :
          (\A y \in S : m[y] < m[x] => g[y] = h[y]) => G[x][g] = G[x][h]

\* f is what the definition G says, as far as elements of measure below n go.
UpTo(f, G, m, n) == \A x \in DOMAIN f : m[x] < n => f[x] = G[x][f]

\* A recursive definition has a function that satisfies it.
THEOREM RecursiveFunction ==
    ASSUME NEW S, NEW V, NEW m, NEW G, IsRecursion(S, V, m, G)
    PROVE  \E f \in [S -> V] : \A x \in S : f[x] = G[x][f]
<1> USE DEF IsRecursion
<1> DEFINE P == {n \in Nat : \E f \in [S -> V] : UpTo(f, G, m, n)}
<1>1. 0 \in P
  <2>1. PICK v \in V : TRUE
    OBVIOUS
  <2>2. [x \in S |-> v] \in [S -> V]
    OBVIOUS
  <2>3. UpTo([x \in S |-> v], G, m, 0)
    BY DEF UpTo
  <2> QED BY <2>2, <2>3
<1>2. ASSUME NEW n \in Nat, n \in P PROVE n + 1 \in P
  <2>1. PICK f \in [S -> V] : UpTo(f, G, m, n)
    BY <1>2
  <2> DEFINE g == [x \in S |-> G[x][f]]
  <2>2. g \in [S -> V]
    OBVIOUS
  <2>3. \A x \in S : m[x] < n => g[x] = f[x]
    BY <2>1 DEF UpTo
  <2>4. ASSUME NEW x \in S, m[x] < n + 1 PROVE g[x] = G[x][g]
    <3>1. \A y \in S : m[y] < m[x] => f[y] = g[y]
      <4> SUFFICES ASSUME NEW y \in S, m[y] < m[x] PROVE f[y] = g[y]
        OBVIOUS
      <4>1. m[y] \in Nat /\ m[x] \in Nat
        OBVIOUS
      <4>2. m[y] < n
        BY <2>4, <4>1
      <4> QED BY <2>3, <4>2
    <3>2. G[x][f] = G[x][g]
      BY <2>2, <3>1
    <3> QED BY <3>2
  <2>5. UpTo(g, G, m, n + 1)
    BY <2>4 DEF UpTo
  <2> QED BY <2>2, <2>5
<1>3. \A n \in Nat : \E f \in [S -> V] : UpTo(f, G, m, n)
  <2> HIDE DEF P
  <2>1. Nat \subseteq P
    BY <1>1, <1>2, NaturalInduction
  <2> QED BY <2>1 DEF P
<1> DEFINE app == [n \in Nat |-> CHOOSE f \in [S -> V] : UpTo(f, G, m, n)]
<1>4. \A n \in Nat : app[n] \in [S -> V] /\ UpTo(app[n], G, m, n)
  BY <1>3
<1> HIDE DEF app
<1>5. \A n, k \in Nat : \A x \in S : m[x] < n /\ m[x] < k => app[n][x] = app[k][x]
  <2> SUFFICES ASSUME NEW n \in Nat, NEW k \in Nat
               PROVE  \A x \in S : m[x] < n /\ m[x] < k => app[n][x] = app[k][x]
    OBVIOUS
  <2> DEFINE Q == {x \in S : m[x] < n /\ m[x] < k => app[n][x] = app[k][x]}
  <2>1. ASSUME NEW x \in S, \A y \in S : m[y] < m[x] => y \in Q
        PROVE  x \in Q
    <3> SUFFICES ASSUME m[x] < n, m[x] < k PROVE app[n][x] = app[k][x]
      OBVIOUS
    <3>1. \A y \in S : m[y] < m[x] => app[n][y] = app[k][y]
      <4> SUFFICES ASSUME NEW y \in S, m[y] < m[x] PROVE app[n][y] = app[k][y]
        OBVIOUS
      <4>1. m[y] \in Nat /\ m[x] \in Nat
        OBVIOUS
      <4>2. m[y] < n /\ m[y] < k
        BY <4>1
      <4> QED BY <2>1, <4>2
    <3>2. G[x][app[n]] = G[x][app[k]]
      BY <1>4, <3>1
    <3>3. app[n][x] = G[x][app[n]] /\ app[k][x] = G[x][app[k]]
      BY <1>4 DEF UpTo
    <3> QED BY <3>2, <3>3
  <2> HIDE DEF Q
  <2>2. S \subseteq Q
    BY <2>1, MeasureInduction
  <2> QED BY <2>2 DEF Q
<1> DEFINE f == [x \in S |-> app[m[x] + 1][x]]
<1>6. f \in [S -> V]
  BY <1>4
<1>7. ASSUME NEW x \in S PROVE f[x] = G[x][f]
  <2>1. m[x] \in Nat /\ m[x] + 1 \in Nat /\ m[x] < m[x] + 1
    OBVIOUS
  <2>2. app[m[x] + 1][x] = G[x][app[m[x] + 1]]
    BY <1>4, <2>1 DEF UpTo
  <2>3. \A y \in S : m[y] < m[x] => app[m[x] + 1][y] = f[y]
    <3> SUFFICES ASSUME NEW y \in S, m[y] < m[x] PROVE app[m[x] + 1][y] = app[m[y] + 1][y]
      OBVIOUS
    <3>1. m[y] \in Nat
      OBVIOUS
    <3>2. m[y] + 1 \in Nat /\ m[y] < m[y] + 1 /\ m[y] < m[x] + 1
      BY <2>1, <3>1
    <3> QED BY <1>5, <2>1, <3>2
  <2>4. G[x][app[m[x] + 1]] = G[x][f]
    BY <1>4, <1>6, <2>1, <2>3
  <2> QED BY <2>2, <2>4
<1> QED BY <1>6, <1>7

-----------------------------------------------------------------------------
(* Sums over finite sets (SumFunctionOnSet of Functions) *)

First(s) == CHOOSE x \in s : TRUE

\* The recursion by which a sum is defined, for the subsets of S.
SumsUp(f, S, sum) ==
    /\ sum \in [SUBSET S -> Int]
    /\ sum[{}] = 0
    /\ \A s \in SUBSET S : s # {} => sum[s] = f[First(s)] + sum[s \ {First(s)}]

\* A subset of a finite set has a size, and less one element a smaller one.
LEMMA Smaller ==
    ASSUME NEW S, IsFiniteSet(S)
    PROVE  /\ \A s \in SUBSET S : IsFiniteSet(s) /\ Cardinality(s) \in Nat
           /\ \A s \in SUBSET S : \A x \in s : Cardinality(s \ {x}) < Cardinality(s)
<1>1. ASSUME NEW s \in SUBSET S PROVE IsFiniteSet(s) /\ Cardinality(s) \in Nat
  BY FS_Subset, FS_CardinalityType
<1>2. ASSUME NEW s \in SUBSET S, NEW x \in s PROVE Cardinality(s \ {x}) < Cardinality(s)
  BY <1>1, FS_RemoveElement
<1> QED BY <1>1, <1>2

\* A sum is what its recursion says.
LEMMA SumDef ==
    ASSUME NEW S, IsFiniteSet(S), NEW f, \A x \in S : f[x] \in Int
    PROVE  \E sum : SumsUp(f, S, sum) /\ SumFunctionOnSet(f, S) = sum[S]
<1> DEFINE D == SUBSET S
           m == [s \in D |-> Cardinality(s)]
           body(g, s) == IF s = {} THEN 0
                         ELSE LET x == CHOOSE x \in s : TRUE IN f[x] + g[s \ {x}]
           G == [s \in D |-> [g \in [D -> Int] |-> body(g, s)]]
<1>1. \A s \in D : s # {} => First(s) \in s /\ s \ {First(s)} \in D /\ m[s \ {First(s)}] < m[s]
  BY Smaller DEF First
<1>2. \A s \in D : m[s] \in Nat
  BY Smaller
<1>3. ASSUME NEW s \in D, NEW g \in [D -> Int] PROVE body(g, s) \in Int
  BY <1>1 DEF First
<1>4. G \in [D -> [[D -> Int] -> Int]]
  <2> HIDE DEF D, body
  <2> QED BY <1>3
<1>5. ASSUME NEW s \in D, NEW g \in [D -> Int], NEW h \in [D -> Int],
             \A t \in D : m[t] < m[s] => g[t] = h[t]
      PROVE  G[s][g] = G[s][h]
  <2>1. s # {} => g[s \ {First(s)}] = h[s \ {First(s)}]
    BY <1>1, <1>5
  <2>2. body(g, s) = body(h, s)
    BY <2>1 DEF First
  <2> HIDE DEF D, body
  <2> QED BY <2>2
<1>6. IsRecursion(D, Int, m, G)
  <2>1. Int # {}
    OBVIOUS
  <2> HIDE DEF D, m, G
  <2> QED BY <1>2, <1>4, <1>5, <2>1 DEF IsRecursion
<1>7. PICK g \in [D -> Int] : \A s \in D : g[s] = G[s][g]
  <2> HIDE DEF D, m, G
  <2> QED BY <1>6, RecursiveFunction
<1>8. g = [s \in D |-> body(g, s)]
  <2> HIDE DEF D, body
  <2> QED BY <1>7
<1> DEFINE sum == CHOOSE h : h = [s \in D |-> body(h, s)]
<1>9. sum = [s \in D |-> body(sum, s)]
  BY <1>8
<1>10. SumFunctionOnSet(f, S) = sum[S]
  BY DEF SumFunctionOnSet, FoldFunctionOnSet, MapThenFoldSet
<1> HIDE DEF sum
<1>11. \A s \in D : sum[s] = body(sum, s)
  <2> HIDE DEF D, body
  <2> QED BY <1>9
<1>12. D \subseteq {s \in D : sum[s] \in Int}
  <2> DEFINE P == {s \in D : sum[s] \in Int}
  <2>1. ASSUME NEW s \in D, \A t \in D : m[t] < m[s] => t \in P
        PROVE  s \in P
    <3>1. CASE s = {}
      <4>1. sum[s] = body(sum, s)
        BY <1>11
      <4>2. sum[s] = 0
        BY <3>1, <4>1
      <4> QED BY <4>2
    <3>2. CASE s # {}
      <4>1. sum[s \ {First(s)}] \in Int
        BY <1>1, <2>1, <3>2
      <4>2. f[First(s)] \in Int
        BY <1>1, <3>2
      <4>3. sum[s] = f[First(s)] + sum[s \ {First(s)}]
        BY <1>11, <3>2 DEF First
      <4> QED BY <4>1, <4>2, <4>3
    <3> QED BY <3>1, <3>2
  <2> HIDE DEF D, m, P
  <2>2. D \subseteq P
    BY <1>2, <2>1, MeasureInduction
  <2> QED BY <2>2 DEF P
<1>13. sum \in [D -> Int]
  BY <1>9, <1>12
<1>14. SumsUp(f, S, sum)
  BY <1>11, <1>13 DEF SumsUp, First
<1> QED BY <1>10, <1>14

\* The same values give the same sum, whatever set the recursion started from.
LEMMA SameSums ==
    ASSUME NEW S, IsFiniteSet(S), NEW T, NEW f, NEW g, NEW a, NEW b,
           SumsUp(f, S, a), SumsUp(g, T, b),
           S \subseteq T, \A x \in S : f[x] = g[x]
    PROVE  \A s \in SUBSET S : a[s] = b[s]
<1> DEFINE P == {s \in SUBSET S : a[s] = b[s]}
           m == [s \in SUBSET S |-> Cardinality(s)]
           D == SUBSET S
<1>1. ASSUME NEW s \in D, \A t \in D : m[t] < m[s] => t \in P
      PROVE  s \in P
  <2>1. s \in SUBSET T
    OBVIOUS
  <2>2. CASE s = {}
    BY <2>2 DEF SumsUp
  <2>3. CASE s # {}
    <3>1. First(s) \in s /\ s \ {First(s)} \in D
      BY <2>3 DEF First
    <3>2. a[s \ {First(s)}] = b[s \ {First(s)}]
      BY <1>1, <3>1, Smaller
    <3> QED BY <2>1, <2>3, <3>1, <3>2 DEF SumsUp
  <2> QED BY <2>2, <2>3
<1>2. \A s \in D : m[s] \in Nat
  BY Smaller
<1> HIDE DEF P, m, D
<1>3. D \subseteq P
  BY <1>1, <1>2, MeasureInduction
<1> QED BY <1>3 DEF D, P

\* The sum of nothing.
THEOREM SumEmpty == ASSUME NEW f PROVE SumFunctionOnSet(f, {}) = 0
<1>1. IsFiniteSet({}) /\ \A x \in {} : f[x] \in Int
  BY FS_EmptySet
<1>2. PICK sum : SumsUp(f, {}, sum) /\ SumFunctionOnSet(f, {}) = sum[{}]
  BY <1>1, SumDef
<1> QED BY <1>2 DEF SumsUp

\* Sums of equal values are equal, and integers.
THEOREM SumEqual ==
    ASSUME NEW S, IsFiniteSet(S), NEW f, NEW g, \A x \in S : f[x] \in Int /\ g[x] = f[x]
    PROVE  SumFunctionOnSet(f, S) = SumFunctionOnSet(g, S) /\ SumFunctionOnSet(f, S) \in Int
<1>0. \A x \in S : f[x] \in Int /\ g[x] \in Int
  OBVIOUS
<1>1. PICK a : SumsUp(f, S, a) /\ SumFunctionOnSet(f, S) = a[S]
  BY <1>0, SumDef
<1>2. PICK b : SumsUp(g, S, b) /\ SumFunctionOnSet(g, S) = b[S]
  BY <1>0, SumDef
<1>3. S \in SUBSET S /\ S \subseteq S /\ \A x \in S : f[x] = g[x]
  OBVIOUS
<1>4. \A s \in SUBSET S : a[s] = b[s]
  BY <1>1, <1>2, <1>3, SameSums
<1> QED BY <1>1, <1>2, <1>3, <1>4 DEF SumsUp

\* Whichever element is taken first.
LEMMA AnyFirst ==
    ASSUME NEW S, IsFiniteSet(S), NEW f, \A x \in S : f[x] \in Int, NEW sum, SumsUp(f, S, sum)
    PROVE  \A s \in SUBSET S : \A y \in s : sum[s] = f[y] + sum[s \ {y}]
<1> DEFINE P == {s \in SUBSET S : \A y \in s : sum[s] = f[y] + sum[s \ {y}]}
           m == [s \in SUBSET S |-> Cardinality(s)]
           D == SUBSET S
<1>1. ASSUME NEW s \in D, \A t \in D : m[t] < m[s] => t \in P
      PROVE  s \in P
  <2> SUFFICES ASSUME NEW y \in s PROVE sum[s] = f[y] + sum[s \ {y}]
    OBVIOUS
  <2> DEFINE x == First(s)
  <2>1. x \in s /\ sum[s] = f[x] + sum[s \ {x}]
    BY DEF SumsUp, First
  <2> HIDE DEF x
  <2>2. CASE y = x
    BY <2>1, <2>2
  <2>3. CASE y # x
    <3>1. s \ {x} \in D /\ s \ {y} \in D /\ y \in s \ {x} /\ x \in s \ {y}
      BY <2>1, <2>3
    <3>2. s \ {x} \in P /\ s \ {y} \in P
      BY <1>1, <2>1, <3>1, Smaller
    <3>3. (s \ {x}) \ {y} = (s \ {y}) \ {x}
      OBVIOUS
    <3>4. sum[s \ {x}] = f[y] + sum[(s \ {x}) \ {y}] /\ sum[s \ {y}] = f[x] + sum[(s \ {x}) \ {y}]
      BY <3>1, <3>2, <3>3
    <3>5. f[x] \in Int /\ f[y] \in Int /\ sum[(s \ {x}) \ {y}] \in Int
      BY <2>1 DEF SumsUp
    <3> QED BY <2>1, <3>4, <3>5
  <2> QED BY <2>2, <2>3
<1>2. \A s \in D : m[s] \in Nat
  BY Smaller
<1> HIDE DEF P, m, D
<1>3. D \subseteq P
  BY <1>1, <1>2, MeasureInduction
<1> QED BY <1>3 DEF D, P

\* One element is taken out of a sum.
THEOREM SumWithout ==
    ASSUME NEW S, IsFiniteSet(S), NEW f, \A x \in S : f[x] \in Int, NEW y \in S
    PROVE  SumFunctionOnSet(f, S) = f[y] + SumFunctionOnSet(f, S \ {y})
<1> DEFINE T == S \ {y}
<1>1. IsFiniteSet(T) /\ \A x \in T : f[x] \in Int
  BY FS_RemoveElement
<1>2. PICK a : SumsUp(f, S, a) /\ SumFunctionOnSet(f, S) = a[S]
  BY SumDef
<1>3. PICK b : SumsUp(f, T, b) /\ SumFunctionOnSet(f, T) = b[T]
  BY <1>1, SumDef
<1>4. a[S] = f[y] + a[T]
  BY <1>2, AnyFirst
<1>5. T \subseteq S /\ T \in SUBSET T
  OBVIOUS
<1> HIDE DEF T
<1>6. a[T] = b[T]
  BY <1>1, <1>2, <1>3, <1>5, SameSums
<1> QED BY <1>2, <1>3, <1>4, <1>6 DEF T

\* One element is added to a sum.
THEOREM SumWith ==
    ASSUME NEW S, IsFiniteSet(S), NEW f, NEW y, y \notin S, \A x \in S \cup {y} : f[x] \in Int
    PROVE  SumFunctionOnSet(f, S \cup {y}) = f[y] + SumFunctionOnSet(f, S)
<1> DEFINE T == S \cup {y}
<1>1. IsFiniteSet(T)
  BY FS_AddElement
<1>2. T \ {y} = S /\ y \in T /\ \A x \in T : f[x] \in Int
  OBVIOUS
<1> HIDE DEF T
<1>3. SumFunctionOnSet(f, T) = f[y] + SumFunctionOnSet(f, T \ {y})
  BY <1>1, <1>2, SumWithout
<1> QED BY <1>2, <1>3 DEF T

\* One term of a sum changes.
THEOREM SumChange ==
    ASSUME NEW S, IsFiniteSet(S), NEW f, NEW g, \A x \in S : f[x] \in Int /\ g[x] \in Int,
           NEW y \in S, \A x \in S \ {y} : g[x] = f[x]
    PROVE  SumFunctionOnSet(g, S) = SumFunctionOnSet(f, S) + (g[y] - f[y])
<1> DEFINE T == S \ {y}
<1>1. SumFunctionOnSet(f, S) = f[y] + SumFunctionOnSet(f, T)
  BY SumWithout
<1>2. SumFunctionOnSet(g, S) = g[y] + SumFunctionOnSet(g, T)
  BY SumWithout
<1>3. IsFiniteSet(T) /\ \A x \in T : f[x] \in Int /\ g[x] = f[x]
  BY FS_RemoveElement
<1> HIDE DEF T
<1>4. SumFunctionOnSet(f, T) = SumFunctionOnSet(g, T) /\ SumFunctionOnSet(f, T) \in Int
  BY <1>3, SumEqual
<1> QED BY <1>1, <1>2, <1>4
=============================================================================
