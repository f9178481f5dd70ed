---------------------------- MODULE KVAccounting ----------------------------
(***************************************************************************)
(* The invariant of the KV cache manager's bookkeeping, in parts that speak *)
(* of reference counts, free queue, hash map and block tables separately,  *)
(* and what a change of each does to it.  KVCacheManager_proofs applies    *)
(* these lemmas to the manager's operations.                               *)
(***************************************************************************)
EXTENDS KVCacheManager, WellFoundedInduction, SequenceTheorems, FiniteSetTheorems, TLAPS

-----------------------------------------------------------------------------
(* Natural numbers: least and greatest elements, the form in which the      *)
(* proofs use induction; division; recursive functions.                    *)

(* A non-empty set of naturals has a least element.                        *)
LEMMA LeastElement ==
    ASSUME NEW T \in SUBSET Nat, T # {}
    PROVE  \E m \in T : \A k \in T : m <= k
<1> DEFINE R == OpToRel(<, Nat)
<1>1. IsWellFoundedOn(R, Nat)
  BY NatLessThanWellFounded
<1>2. \A x, y \in Nat : x < y => <<x, y>> \in R
  BY DEF OpToRel
<1> HIDE DEF R
<1>3. PICK m \in T : \A y \in T : ~(<<y, m>> \in R)
  BY <1>1, WFMin
<1>4. ASSUME NEW k \in T PROVE m <= k
  <2>1. CASE k < m
    <3>1. <<k, m>> \in R
      BY <1>2, <2>1
    <3> QED BY <1>3, <3>1
  <2>2. CASE ~(k < m)
    BY <2>2
  <2> QED BY <2>1, <2>2
<1> QED BY <1>4

(* A non-empty set of naturals that is bounded has a greatest element.     *)
LEMMA GreatestElement ==
    ASSUME NEW T \in SUBSET Nat, T # {}, NEW n \in Nat, \A k \in T : k <= n
    PROVE  \E m \in T : \A k \in T : k <= m
<1> DEFINE D == {n - k : k \in T}
<1>1. D \in SUBSET Nat /\ D # {}
  <2>1. \A k \in T : k \in Nat /\ n - k \in Nat
    OBVIOUS
  <2>2. PICK t : t \in T
    OBVIOUS
  <2>3. \A d \in D : d \in Nat
    BY <2>1
  <2>4. n - t \in D
    BY <2>2
  <2> QED BY <2>3, <2>4
<1> HIDE DEF D
<1>2. PICK d \in D : \A e \in D : d <= e
  BY <1>1, LeastElement
<1>3. PICK m \in T : d = n - m
  BY DEF D
<1>4. ASSUME NEW k \in T PROVE k <= m
  <2>1. n - k \in D
    BY DEF D
  <2>2. n - m <= n - k
    BY <1>2, <1>3, <2>1
  <2> QED BY <2>2
<1> QED BY <1>4

(* Division rounds down.                                                   *)
LEMMA DivFacts ==
    ASSUME NEW a \in Nat, NEW b \in Nat, b > 0
    PROVE  a \div b \in Nat /\ (a \div b) * b <= a /\ a < (a \div b) * b + b
  OBVIOUS

(* Also of a number that may be negative.                                  *)
LEMMA DivInt ==
    ASSUME NEW a \in Int, NEW b \in Nat, b > 0
    PROVE  /\ a \div b \in Int /\ (a \div b) * b <= a /\ a < (a \div b) * b + b
           /\ a < 0 => a \div b < 0
  OBVIOUS

(* Multiplying by a positive number keeps the order.                       *)
LEMMA TimesMonotone ==
    ASSUME NEW i \in Nat, NEW j \in Nat, NEW b \in Nat, b > 0
    PROVE  (i <= j <=> i * b <= j * b) /\ (i = j <=> i * b = j * b) /\ i * b \in Nat
  OBVIOUS

(* So does dividing by one.                                                *)
LEMMA DivMonotone ==
    ASSUME NEW i \in Nat, NEW j \in Nat, i <= j, NEW b \in Nat, b > 0
    PROVE  i \div b <= j \div b
<1>1. /\ i \div b \in Nat /\ (i \div b) * b <= i
      /\ j \div b \in Nat /\ j < (j \div b) * b + b
  BY DivFacts
<1> DEFINE x == i \div b
           y == j \div b
<1>2. x \in Nat /\ y \in Nat /\ x * b < y * b + b /\ y * b + b = (y + 1) * b
  BY <1>1
<1> HIDE DEF x, y
<1>3. ~((y + 1) * b <= x * b)
  BY <1>2
<1>4. ~(y + 1 <= x)
  BY <1>2, <1>3, TimesMonotone
<1> QED BY <1>2, <1>4 DEF x, y

(* A function on 1..n is a sequence of length n.                           *)
LEMMA FunctionIsSeq ==
    ASSUME NEW S, NEW n \in Nat, NEW f, f = [i \in 1..n |-> f[i]], \A i \in 1..n : f[i] \in S
    PROVE  f \in Seq(S) /\ Len(f) = n
  OBVIOUS

\* There is a function given by its first value and by G, which tells its i-th
\* value from the one before.
HasRecursion(V, n, base, G) ==
    \E f \in [0..n -> V] : f[0] = base /\ \A i \in 1..n : f[i] = G[<<f[i - 1], i>>]

(* There always is.                                                        *)
LEMMA RecursionExists ==
    ASSUME NEW V, NEW n \in Nat, NEW base \in V, NEW G \in [V \X (1..n) -> V]
    PROVE  HasRecursion(V, n, base, G)
<1> DEFINE Def(m, f) == f[0] = base /\ \A i \in 1..m : f[i] = G[<<f[i - 1], i>>]
           T == {m \in 0..n : ~ \E f \in [0..m -> V] : Def(m, f)}
<1>1. T = {}
  <2> SUFFICES ASSUME T # {} PROVE FALSE
    OBVIOUS
  <2>1. PICK m \in T : \A k \in T : m <= k
    <3>1. T \in SUBSET Nat
      OBVIOUS
    <3> HIDE DEF T
    <3> QED BY <3>1, LeastElement
  <2>2. m \in 0..n /\ ~ \E f \in [0..m -> V] : Def(m, f)
    BY <2>1
  <2>3. CASE m = 0
    <3> DEFINE f == [i \in 0..0 |-> base]
    <3>1. f \in [0..0 -> V] /\ Def(0, f)
      OBVIOUS
    <3> HIDE DEF f
    <3> QED BY <3>1, <2>2, <2>3
  <2>4. CASE m # 0
    <3>1. m \in 1..n /\ m - 1 \in 0..n /\ m - 1 \notin T
      <4> HIDE DEF T
      <4> QED BY <2>1, <2>2, <2>4
    <3>2. PICK f \in [0..(m - 1) -> V] : Def(m - 1, f)
      BY <3>1
    <3> DEFINE last == G[<<f[m - 1], m>>]
               g == [i \in 0..m |-> IF i = m THEN last ELSE f[i]]
    <3>3. f[m - 1] \in V /\ last \in V
      BY <3>1, <3>2
    <3>4. g \in [0..m -> V]
      BY <3>1, <3>2, <3>3
    <3>5. g[0] = base
      BY <3>1, <3>2
    <3>6. \A i \in 1..m : g[i] = G[<<g[i - 1], i>>]
      <4> SUFFICES ASSUME NEW i \in 1..m PROVE g[i] = G[<<g[i - 1], i>>]
        OBVIOUS
      <4>1. CASE i = m
        <5>1. g[i - 1] = f[m - 1] /\ g[i] = last
          BY <4>1, <3>1
        <5> QED BY <5>1, <4>1
      <4>2. CASE i # m
        <5>1. g[i - 1] = f[i - 1] /\ g[i] = f[i] /\ i \in 1..(m - 1)
          BY <4>2, <3>1
        <5> QED BY <5>1, <3>2
      <4> QED BY <4>1, <4>2
    <3> HIDE DEF g
    <3> QED BY <3>4, <3>5, <3>6, <2>2
  <2> QED BY <2>3, <2>4
<1>2. n \in 0..n
  OBVIOUS
<1> QED BY <1>1, <1>2 DEF HasRecursion

-----------------------------------------------------------------------------
(* Lists of blocks. *)

\* A list without repetitions, the null block aside.
OnceEach(s) == \A i, j \in 1..Len(s) : s[i] = s[j] /\ s[i] # NullBlock => i = j

\* F[i] is what Only keeps of the first i elements of s.
Unfolds(F, s, S) ==
    /\ Only(s, S) = F[Len(s)]
    /\ F[0] = <<>>
    /\ \A i \in 1..Len(s) :
          F[i] = IF s[i] \in S THEN Append(F[i - 1], s[i]) ELSE F[i - 1]

(* What Only returns, one element at a time.                               *)
LEMMA OnlyUnfolds ==
    ASSUME NEW U, NEW s \in Seq(U), NEW S
    PROVE  \E F \in [0..Len(s) -> Seq(U)] : Unfolds(F, s, S)
<1> DEFINE n == Len(s)
           Step(f, i) == IF i = 0 THEN <<>>
                         ELSE IF s[i] \in S THEN Append(f[i - 1], s[i]) ELSE f[i - 1]
           Def(m, f) == f = [i \in 0..m |-> Step(f, i)]
           T == {m \in 0..n : ~ \E f \in [0..m -> Seq(U)] : Def(m, f)}
<1>1. n \in Nat /\ \A i \in 1..n : s[i] \in U
  OBVIOUS
<1>2. T = {}
  <2> SUFFICES ASSUME T # {} PROVE FALSE
    OBVIOUS
  <2>1. PICK m \in T : \A k \in T : m <= k
    <3>1. T \in SUBSET Nat
      BY <1>1
    <3> HIDE DEF T
    <3> QED BY <3>1, LeastElement
  <2>2. CASE m = 0
    <3> DEFINE f == [i \in 0..0 |-> <<>>]
    <3>1. f \in [0..0 -> Seq(U)] /\ Def(0, f)
      OBVIOUS
    <3> QED BY <3>1, <2>1, <2>2
  <2>3. CASE m # 0
    <3>0. m \in 0..n
      BY <2>1
    <3>1. m \in 1..n /\ m - 1 \in 0..n /\ m - 1 \notin T
      <4> HIDE DEF T
      <4> QED BY <3>0, <2>1, <2>3, <1>1
    <3>2. PICK f \in [0..(m - 1) -> Seq(U)] : Def(m - 1, f)
      BY <3>1
    <3> DEFINE last == IF s[m] \in S THEN Append(f[m - 1], s[m]) ELSE f[m - 1]
               g == [i \in 0..m |-> IF i = m THEN last ELSE f[i]]
    <3>3. f[m - 1] \in Seq(U) /\ last \in Seq(U)
      BY <3>1, <3>2, <1>1
    <3>4. \A i \in 0..(m - 1) : f[i] = Step(f, i) /\ f[i] \in Seq(U)
      BY <3>2
    <3>5. g \in [0..m -> Seq(U)]
      BY <3>1, <3>3, <3>4
    <3>6. \A i \in 0..m : g[i] = Step(g, i)
      <4> SUFFICES ASSUME NEW i \in 0..m PROVE g[i] = Step(g, i)
        OBVIOUS
      <4>1. CASE i = m
        <5>1. g[i - 1] = f[m - 1] /\ i # 0
          BY <4>1, <3>1
        <5> QED BY <5>1, <4>1
      <4>2. CASE i # m /\ i # 0
        <5>1. g[i - 1] = f[i - 1] /\ g[i] = f[i] /\ i \in 0..(m - 1)
          BY <4>2, <3>1
        <5> QED BY <5>1, <3>4
      <4>3. CASE i # m /\ i = 0
        <5>1. g[i] = f[i] /\ i \in 0..(m - 1)
          BY <4>3, <3>1
        <5> QED BY <5>1, <4>3, <3>4
      <4> QED BY <4>1, <4>2, <4>3
    <3> HIDE DEF last
    <3>7. Def(m, g)
      BY <3>6
    <3> HIDE DEF g
    <3> QED BY <3>5, <3>7, <2>1
  <2> QED BY <2>2, <2>3
<1>3. n \in 0..n
  BY <1>1
<1>4. \E f : Def(n, f)
  BY <1>2, <1>3
<1> DEFINE v == CHOOSE f : Def(n, f)
<1>5. Def(n, v)
  BY <1>4
<1>6. Only(s, S) = v[n]
  BY DEF Only
<1> HIDE DEF v
<1>a. \A i \in 0..n : v[i] = Step(v, i)
  BY <1>5, Zenon
<1>7. v[0] = <<>> /\ \A i \in 1..n : v[i] = IF s[i] \in S THEN Append(v[i - 1], s[i]) ELSE v[i - 1]
  BY <1>1, <1>a
<1>8. v \in [0..n -> Seq(U)]
  <2>1. \A i \in 0..n : v[i] \in Seq(U)
    <3> DEFINE Bad == {i \in 0..n : v[i] \notin Seq(U)}
    <3> SUFFICES ASSUME Bad # {} PROVE FALSE
      OBVIOUS
    <3>1. PICK m \in Bad : \A k \in Bad : m <= k
      <4>1. Bad \in SUBSET Nat
        BY <1>1
      <4> HIDE DEF Bad
      <4> QED BY <4>1, LeastElement
    <3>2. m # 0
      <4>1. v[0] \in Seq(U)
        BY <1>7, EmptySeq
      <4> QED BY <3>1, <4>1
    <3>3. m \in 1..n /\ m - 1 \in 0..n /\ m - 1 \notin Bad
      BY <3>1, <3>2, <1>1
    <3>4. v[m - 1] \in Seq(U) /\ s[m] \in U
      BY <3>3, <1>1
    <3>5. v[m] \in Seq(U)
      <4>1. Append(v[m - 1], s[m]) \in Seq(U)
        BY <3>4, AppendProperties
      <4>2. v[m] = IF s[m] \in S THEN Append(v[m - 1], s[m]) ELSE v[m - 1]
        BY <3>3, <1>7
      <4> QED BY <4>1, <4>2, <3>4
    <3> QED BY <3>1, <3>5
  <2>2. v = [i \in 0..n |-> Step(v, i)]
    BY <1>5
  <2> QED BY <2>1, <2>2
<1> QED BY <1>6, <1>7, <1>8 DEF Unfolds

\* A list without repetitions.
Distinct(s) == \A i, j \in 1..Len(s) : s[i] = s[j] => i = j

(* Only keeps the members of s that are in S, and makes no repetition.     *)
LEMMA OnlyKeeps ==
    ASSUME NEW U, NEW s \in Seq(U), NEW S
    PROVE  /\ Only(s, S) \in Seq(U)
           /\ Elements(Only(s, S)) = Elements(s) \cap S
           /\ (\A i, j \in 1..Len(s) : s[i] = s[j] /\ s[i] \in S => i = j)
                  => Distinct(Only(s, S))
<1> DEFINE n == Len(s)
           Once == \A i, j \in 1..n : s[i] = s[j] /\ s[i] \in S => i = j
<1>1. n \in Nat /\ \A i \in 1..n : s[i] \in U
  OBVIOUS
<1>a. PICK F \in [0..Len(s) -> Seq(U)] : Unfolds(F, s, S)
  BY OnlyUnfolds
<1>2. /\ Only(s, S) = F[n]
      /\ F[0] = <<>>
      /\ \A i \in 1..n : F[i] = IF s[i] \in S THEN Append(F[i - 1], s[i]) ELSE F[i - 1]
  BY <1>a DEF Unfolds
<1> DEFINE Good(i) == /\ Elements(F[i]) = {s[k] : k \in 1..i} \cap S
                      /\ Once => Distinct(F[i])
           T == {i \in 0..n : ~Good(i)}
<1>3. \A i \in 0..n : Good(i)
  <2> SUFFICES ASSUME T # {} PROVE FALSE
    <3> HIDE DEF Good
    <3> QED OBVIOUS
  <2>1. PICK m \in T : \A k \in T : m <= k
    <3>1. T \in SUBSET Nat
      BY <1>1
    <3> HIDE DEF T
    <3> QED BY <3>1, LeastElement
  <2>2. m \in 0..n /\ ~Good(m)
    BY <2>1
  <2>3. m # 0
    <3>1. Good(0)
      <4>1. Len(F[0]) = 0
        BY <1>2, EmptySeq
      <4> QED BY <4>1, <1>1 DEF Elements, Distinct
    <3> QED BY <3>1, <2>2
  <2>4. m \in 1..n /\ m - 1 \in 0..n /\ m - 1 \notin T
    <3> HIDE DEF T
    <3> QED BY <2>1, <2>2, <2>3, <1>1
  <2>5. Good(m - 1) /\ F[m - 1] \in Seq(U) /\ s[m] \in U
    BY <2>4, <1>1
  <2> DEFINE f == F[m - 1]
  <2>6. {s[k] : k \in 1..m} = {s[k] : k \in 1..(m - 1)} \cup {s[m]}
    BY <2>4, <1>1
  <2>7. CASE s[m] \notin S
    <3>1. F[m] = f
      BY <2>4, <2>7, <1>2
    <3> HIDE DEF f
    <3>2. Elements(f) = {s[k] : k \in 1..(m - 1)} \cap S /\ (Once => Distinct(f))
      BY <2>5 DEF f
    <3>3. Elements(f) = {s[k] : k \in 1..m} \cap S
      BY <3>2, <2>6, <2>7
    <3> QED BY <3>1, <3>2, <3>3, <2>2
  <2>8. CASE s[m] \in S
    <3>1. F[m] = Append(f, s[m])
      BY <2>4, <2>8, <1>2
    <3> HIDE DEF f
    <3>2. Elements(f) = {s[k] : k \in 1..(m - 1)} \cap S /\ (Once => Distinct(f))
      BY <2>5 DEF f
    <3>3. f \in Seq(U)
      BY <2>5 DEF f
    <3> DEFINE g == Append(f, s[m])
    <3>4. /\ Len(f) \in Nat /\ Len(g) = Len(f) + 1 /\ g[Len(f) + 1] = s[m]
          /\ \A i \in 1..Len(f) : g[i] = f[i]
      BY <3>3, <2>5, AppendProperties
    <3> HIDE DEF g
    <3>5. Elements(g) = Elements(f) \cup {s[m]}
      <4>1. \A x \in Elements(g) : x \in Elements(f) \cup {s[m]}
        <5> SUFFICES ASSUME NEW i \in 1..Len(g) PROVE g[i] \in Elements(f) \cup {s[m]}
          BY DEF Elements
        <5>1. CASE i = Len(f) + 1
          BY <5>1, <3>4
        <5>2. CASE i # Len(f) + 1
          <6>1. i \in 1..Len(f) /\ g[i] = f[i]
            BY <5>2, <3>4
          <6> QED BY <6>1 DEF Elements
        <5> QED BY <5>1, <5>2
      <4>2. s[m] \in Elements(g)
        BY <3>4 DEF Elements
      <4>3. \A i \in 1..Len(f) : f[i] \in Elements(g)
        BY <3>4 DEF Elements
      <4>4. \A x \in Elements(f) : x \in Elements(g)
        BY <4>3 DEF Elements
      <4> QED BY <4>1, <4>2, <4>4
    <3>6. Elements(g) = {s[k] : k \in 1..m} \cap S
      BY <3>2, <3>5, <2>6, <2>8
    <3>7. ASSUME Once PROVE Distinct(g)
      <4>1. \A i \in 1..Len(f) : f[i] # s[m]
        <5> SUFFICES ASSUME s[m] \in Elements(f) PROVE FALSE
          BY DEF Elements
        <5>2. PICK k \in 1..(m - 1) : s[k] = s[m]
          BY <3>2
        <5>3. k \in 1..n /\ m \in 1..n /\ k # m
          BY <2>4, <1>1
        <5> QED BY <5>2, <5>3, <3>7, <2>8
      <4>2. Distinct(f)
        BY <3>2, <3>7
      <4> SUFFICES ASSUME NEW i \in 1..Len(g), NEW j \in 1..Len(g), g[i] = g[j] PROVE i = j
        BY DEF Distinct
      <4>3. /\ i = Len(f) + 1 \/ (i \in 1..Len(f) /\ g[i] = f[i])
            /\ j = Len(f) + 1 \/ (j \in 1..Len(f) /\ g[j] = f[j])
        BY <3>4
      <4>4. CASE i = Len(f) + 1 \/ j = Len(f) + 1
        BY <4>1, <4>3, <4>4, <3>4
      <4>5. CASE i # Len(f) + 1 /\ j # Len(f) + 1
        BY <4>2, <4>3, <4>5 DEF Distinct
      <4> QED BY <4>4, <4>5
    <3> HIDE DEF Once
    <3>8. F[m] = g
      BY <3>1 DEF g
    <3> QED BY <3>6, <3>7, <3>8, <2>2
  <2> QED BY <2>7, <2>8
<1>4. Good(n)
  <2>1. n \in 0..n
    BY <1>1
  <2> HIDE DEF Good
  <2> QED BY <2>1, <1>3
<1>5. Only(s, S) \in Seq(U)
  <2>1. n \in 0..n
    BY <1>1
  <2> QED BY <2>1, <1>2
<1>6. Elements(s) = {s[k] : k \in 1..n}
  BY DEF Elements
<1> QED BY <1>2, <1>4, <1>5, <1>6

\* The elements of o are elements of s, in the same order.
InSameOrder(o, s) ==
    \A i, j \in 1..Len(o) : i < j =>
        \E k, l \in 1..Len(s) : k < l /\ o[i] = s[k] /\ o[j] = s[l]

(* Only changes nothing of the order.                                      *)
LEMMA OnlyOrder ==
    ASSUME NEW U, NEW s \in Seq(U), NEW S
    PROVE  InSameOrder(Only(s, S), s)
<1> DEFINE n == Len(s)
<1>1. n \in Nat /\ \A i \in 1..n : s[i] \in U
  OBVIOUS
<1>a. PICK F \in [0..Len(s) -> Seq(U)] : Unfolds(F, s, S)
  BY OnlyUnfolds
<1>2. /\ Only(s, S) = F[n]
      /\ F[0] = <<>>
      /\ \A i \in 1..n : F[i] = IF s[i] \in S THEN Append(F[i - 1], s[i]) ELSE F[i - 1]
  BY <1>a DEF Unfolds
<1> DEFINE From(f, m) == \A i \in 1..Len(f) : \E k \in 1..m : f[i] = s[k]
           Pairs(f, m) == \A i, j \in 1..Len(f) : i < j =>
                             \E k, l \in 1..m : k < l /\ f[i] = s[k] /\ f[j] = s[l]
           T == {i \in 0..n : ~(From(F[i], i) /\ Pairs(F[i], i))}
<1>3. T = {}
  <2> SUFFICES ASSUME T # {} PROVE FALSE
    OBVIOUS
  <2>1. PICK m \in T : \A k \in T : m <= k
    <3>1. T \in SUBSET Nat
      BY <1>1
    <3> HIDE DEF T
    <3> QED BY <3>1, LeastElement
  <2>2. m \in 0..n /\ ~(From(F[m], m) /\ Pairs(F[m], m))
    BY <2>1
  <2>3. m # 0
    <3>1. Len(F[0]) = 0
      BY <1>2, EmptySeq
    <3>2. From(F[0], 0) /\ Pairs(F[0], 0)
      BY <3>1
    <3> QED BY <3>2, <2>2
  <2>4. m \in 1..n /\ m - 1 \in 0..n /\ m - 1 \notin T
    <3> HIDE DEF T
    <3> QED BY <2>1, <2>2, <2>3, <1>1
  <2> DEFINE f == F[m - 1]
  <2>5. From(f, m - 1) /\ Pairs(f, m - 1) /\ f \in Seq(U) /\ s[m] \in U
    BY <2>4, <1>1
  <2>6. \A k \in 1..(m - 1) : k \in 1..m /\ k < m
    BY <2>4, <1>1
  <2>7. CASE s[m] \notin S
    <3>1. F[m] = f
      BY <2>4, <2>7, <1>2
    <3> HIDE DEF f
    <3>2. From(f, m)
      BY <2>5, <2>6
    <3>3. Pairs(f, m)
      BY <2>5, <2>6
    <3> QED BY <3>1, <3>2, <3>3, <2>2
  <2>8. CASE s[m] \in S
    <3> DEFINE g == Append(f, s[m])
    <3>1. F[m] = g
      BY <2>4, <2>8, <1>2
    <3> HIDE DEF f
    <3>2. /\ Len(f) \in Nat /\ Len(g) = Len(f) + 1 /\ g[Len(f) + 1] = s[m]
          /\ \A i \in 1..Len(f) : g[i] = f[i]
      BY <2>5, AppendProperties
    <3> HIDE DEF g
    <3>3. From(g, m)
      <4> SUFFICES ASSUME NEW i \in 1..Len(g) PROVE \E k \in 1..m : g[i] = s[k]
        OBVIOUS
      <4>1. CASE i = Len(f) + 1
        BY <4>1, <3>2, <2>4
      <4>2. CASE i # Len(f) + 1
        <5>1. i \in 1..Len(f) /\ g[i] = f[i]
          BY <4>2, <3>2
        <5> QED BY <5>1, <2>5, <2>6
      <4> QED BY <4>1, <4>2
    <3>4. Pairs(g, m)
      <4> SUFFICES ASSUME NEW i \in 1..Len(g), NEW j \in 1..Len(g), i < j
                   PROVE  \E k, l \in 1..m : k < l /\ g[i] = s[k] /\ g[j] = s[l]
        OBVIOUS
      <4>1. i \in 1..Len(f) /\ g[i] = f[i]
        BY <3>2
      <4>2. PICK k \in 1..(m - 1) : f[i] = s[k]
        BY <4>1, <2>5
      <4>3. CASE j = Len(f) + 1
        <5>1. k \in 1..m /\ m \in 1..m /\ k < m /\ g[j] = s[m]
          BY <4>3, <3>2, <2>6, <2>4
        <5> QED BY <5>1, <4>1, <4>2
      <4>4. CASE j # Len(f) + 1
        <5>1. j \in 1..Len(f) /\ g[j] = f[j]
          BY <4>4, <3>2
        <5>2. PICK x, y \in 1..(m - 1) : x < y /\ f[i] = s[x] /\ f[j] = s[y]
          BY <5>1, <4>1, <2>5
        <5> QED BY <5>1, <5>2, <4>1, <2>6
      <4> QED BY <4>3, <4>4
    <3> QED BY <3>1, <3>3, <3>4, <2>2
  <2> QED BY <2>7, <2>8
<1>4. Pairs(F[n], n)
  <2>1. n \in 0..n
    BY <1>1
  <2> QED BY <2>1, <1>3
<1>5. InSameOrder(F[n], s)
  <2> DEFINE o == F[n]
  <2>1. Pairs(o, n)
    BY <1>4
  <2> HIDE DEF o
  <2> QED BY <2>1 DEF InSameOrder, o
<1>6. Only(s, S) = F[n]
  BY <1>2
<1> QED BY <1>5, <1>6

(* The same of a list of blocks.                                           *)
LEMMA OnlyFacts ==
    ASSUME NEW s \in Seq(Blocks), NEW S
    PROVE  /\ Only(s, S) \in Seq(Blocks)
           /\ Elements(Only(s, S)) = Elements(s) \cap S
           /\ (\A i, j \in 1..Len(s) : s[i] = s[j] /\ s[i] \in S => i = j)
                  => Distinct(Only(s, S))
  BY OnlyKeeps

-----------------------------------------------------------------------------
(* The invariant, part by part: t is the block tables, nc num_cached_block,  *)
(* and rc, fq, bh and cached are the fields of the pool.                 *)

\* The requests that hold block b, and the reference counts that agree.
Holders(t, b) == {r \in Reqs : b \in Elements(t[r])}
Counts(rc, t) == \A b \in Blocks \ {NullBlock} : rc[b] = Cardinality(Holders(t, b))

\* The free queue lists the blocks nobody holds, each once.
FreeList(fq, rc) ==
    Distinct(fq) /\ Elements(fq) = {b \in Blocks \ {NullBlock} : rc[b] = 0}

\* The hash map and the blocks' hashes say the same.
MapOK(cached, bh) ==
    /\ \A h \in DOMAIN cached : cached[h] # <<>> /\ Distinct(cached[h])
    /\ \A h \in DOMAIN cached : \A b \in Elements(cached[h]) : bh[b] = h
    /\ \A b \in Blocks : bh[b] # NoHash =>
          bh[b] \in DOMAIN cached /\ b \in Elements(cached[bh[b]])
    /\ bh[NullBlock] = NoHash /\ NoHash \notin DOMAIN cached

\* A block has the same place in every table it is in, and one place in each.
InPlace(t) ==
    \A r, q \in Reqs : \A i \in 1..Len(t[r]), j \in 1..Len(t[q]) :
        t[r][i] = t[q][j] /\ t[r][i] # NullBlock => i = j

\* A block beyond the ones its request counts as cached is no other request's.
Private(nc, t) ==
    \A r, q \in Reqs : \A i \in 1..Len(t[r]), j \in 1..Len(t[q]) :
        i > nc[r] /\ t[r][i] = t[q][j] /\ t[r][i] # NullBlock => r = q

\* Such a block has no hash.
Unhashed(nc, t, bh) ==
    \A r \in Reqs : \A i \in 1..Len(t[r]) : i > nc[r] => bh[t[r][i]] = NoHash

\* The hash h covers the tokens up to the end of a table's i-th block.
EndsAt(h, i) == Len(h) = i * BlockSize

\* The hash of a held block covers the tokens up to the end of its place.
HashPlace(t, bh) ==
    \A r \in Reqs : \A i \in 1..Len(t[r]) :
        t[r][i] # NullBlock /\ bh[t[r][i]] # NoHash => EndsAt(bh[t[r][i]], i)

TablesOK(nc, t, bh) == InPlace(t) /\ Private(nc, t) /\ Unhashed(nc, t, bh) /\ HashPlace(t, bh)

\* Without prefix caching nothing is ever cached.
OffIsEmpty(cached) == ~EnableCaching => DOMAIN cached = {}

-----------------------------------------------------------------------------
(* Reference counts and the free queue. *)

\* The tables u are the tables t, except that r's is new.
Updated(t, u, r, new) ==
    /\ u[r] = new
    /\ \A q \in Reqs : q # r => u[q] = t[q]

\* How the number of holders of b changes when r's table becomes new.
HoldersMove(t, u, r, new, b) ==
    /\ Cardinality(Holders(t, b)) \in Nat
    /\ b \in Elements(t[r]) => Cardinality(Holders(t, b)) > 0
    /\ (b \in Elements(t[r]) <=> b \in Elements(new)) =>
         Cardinality(Holders(u, b)) = Cardinality(Holders(t, b))
    /\ b \in Elements(t[r]) /\ b \notin Elements(new) =>
         Cardinality(Holders(u, b)) = Cardinality(Holders(t, b)) - 1
    /\ b \notin Elements(t[r]) /\ b \in Elements(new) =>
         Cardinality(Holders(u, b)) = Cardinality(Holders(t, b)) + 1

(* A request whose table changes becomes a holder of what is new in it, and *)
(* no longer of what is gone.                                              *)
LEMMA HoldersChange ==
    ASSUME NEW t \in [Reqs -> Seq(Blocks)], NEW r \in Reqs, NEW new \in Seq(Blocks),
           NEW u \in [Reqs -> Seq(Blocks)], Updated(t, u, r, new),
           NEW b \in Blocks
    PROVE  HoldersMove(t, u, r, new, b)
<1> DEFINE H == Holders(t, b)
           K == Holders(u, b)
<1>1. IsFiniteSet(H) /\ IsFiniteSet(K)
  <2>1. IsFiniteSet(Reqs) /\ H \subseteq Reqs /\ K \subseteq Reqs
    BY KVCacheManagerAssumption DEF Holders
  <2> HIDE DEF H, K
  <2> QED BY <2>1, FS_Subset
<1>2. Cardinality(H) \in Nat
  BY <1>1, FS_CardinalityType
<1>3. r \in H <=> b \in Elements(t[r])
  BY DEF Holders
<1>4. r \in K <=> b \in Elements(new)
  BY DEF Holders, Updated
<1>5. \A q \in Reqs : q # r => (q \in K <=> q \in H)
  BY DEF Holders, Updated
<1>6. H \subseteq Reqs /\ K \subseteq Reqs
  BY DEF Holders
<1> HIDE DEF H, K
<1>7. r \in H => Cardinality(H) > 0
  BY <1>1, <1>2, FS_EmptySet
<1>8. ASSUME r \in H <=> r \in K PROVE K = H
  <2>1. \A q \in Reqs : q \in K <=> q \in H
    BY <1>5, <1>8
  <2> QED BY <2>1, <1>6
<1>9. r \in H /\ r \notin K => Cardinality(K) = Cardinality(H) - 1
  <2> SUFFICES ASSUME r \in H, r \notin K PROVE Cardinality(K) = Cardinality(H) - 1
    OBVIOUS
  <2>1. K = H \ {r}
    BY <1>5, <1>6
  <2> QED BY <2>1, <1>1, FS_RemoveElement
<1>10. r \notin H /\ r \in K => Cardinality(K) = Cardinality(H) + 1
  <2> SUFFICES ASSUME r \notin H, r \in K PROVE Cardinality(K) = Cardinality(H) + 1
    OBVIOUS
  <2>1. K = H \cup {r}
    BY <1>5, <1>6
  <2> QED BY <2>1, <1>1, FS_AddElement
<1> QED BY <1>2, <1>3, <1>4, <1>7, <1>8, <1>9, <1>10 DEF H, K, HoldersMove

\* How often s lists b: how touch and free_blocks change b's reference count.
Times(s, b) == IF b = NullBlock THEN 0 ELSE Cardinality({i \in DOMAIN s : s[i] = b})

(* A list without repetitions lists a block once or not at all.            *)
LEMMA TimesOnce ==
    ASSUME NEW s \in Seq(Blocks), OnceEach(s), NEW b \in Blocks
    PROVE  Times(s, b) = IF b # NullBlock /\ b \in Elements(s) THEN 1 ELSE 0
<1> DEFINE I == {i \in DOMAIN s : s[i] = b}
<1>1. DOMAIN s = 1..Len(s)
  OBVIOUS
<1>2. CASE b = NullBlock
  BY <1>2 DEF Times
<1>3. CASE b # NullBlock /\ b \in Elements(s)
  <2>1. PICK k \in 1..Len(s) : s[k] = b
    BY <1>3 DEF Elements
  <2>2. I = {k}
    BY <1>1, <1>3, <2>1 DEF OnceEach
  <2>3. Cardinality(I) = 1
    BY <2>2, FS_Singleton
  <2> QED BY <1>3, <2>3 DEF Times
<1>4. CASE b # NullBlock /\ b \notin Elements(s)
  <2>1. I = {}
    BY <1>1, <1>4 DEF Elements
  <2>2. Cardinality(I) = 0
    BY <2>1, FS_EmptySet
  <2> QED BY <1>4, <2>2 DEF Times
<1> QED BY <1>2, <1>3, <1>4

(* The members of a concatenation.                                         *)
LEMMA JoinFacts ==
    ASSUME NEW U, NEW s \in Seq(U), NEW v \in Seq(U)
    PROVE  /\ s \o v \in Seq(U) /\ Len(s \o v) = Len(s) + Len(v)
           /\ \A i \in 1..Len(s) : (s \o v)[i] = s[i]
           /\ \A i \in 1..Len(v) : (s \o v)[Len(s) + i] = v[i]
           /\ \A i \in 1..(Len(s) + Len(v)) : i \in 1..Len(s) \/ i - Len(s) \in 1..Len(v)
  BY ConcatProperties

(* Its set of members, and when it has no repetition.                      *)
LEMMA JoinElements ==
    ASSUME NEW U, NEW s \in Seq(U), NEW v \in Seq(U)
    PROVE  /\ s \o v \in Seq(U)
           /\ Elements(s \o v) = Elements(s) \cup Elements(v)
           /\ Distinct(s) /\ Distinct(v) /\ Elements(s) \cap Elements(v) = {} => Distinct(s \o v)
<1> DEFINE w == s \o v
           m == Len(s)
           n == Len(v)
<1>1. m \in Nat /\ n \in Nat
  OBVIOUS
<1>2. w \in Seq(U) /\ Len(w) = m + n
  BY ConcatProperties
<1>3. \A i \in 1..(m + n) : w[i] = IF i <= m THEN s[i] ELSE v[i - m]
  BY ConcatProperties
<1> HIDE DEF w
<1>4. \A i \in 1..m : i \in 1..(m + n) /\ w[i] = s[i]
  BY <1>1, <1>3
<1>5. \A i \in 1..n : m + i \in 1..(m + n) /\ w[m + i] = v[i]
  BY <1>1, <1>3
<1>6. \A i \in 1..(m + n) : i \in 1..m \/ (i - m \in 1..n /\ w[i] = v[i - m])
  BY <1>1, <1>3
<1>7. Elements(w) = Elements(s) \cup Elements(v)
  <2>1. \A i \in 1..Len(w) : w[i] \in Elements(s) \cup Elements(v)
    BY <1>2, <1>4, <1>6 DEF Elements
  <2>2. \A i \in 1..m : s[i] \in Elements(w)
    BY <1>2, <1>4 DEF Elements
  <2>3. \A i \in 1..n : v[i] \in Elements(w)
    BY <1>2, <1>5 DEF Elements
  <2> QED BY <2>1, <2>2, <2>3 DEF Elements
<1>8. ASSUME Distinct(s), Distinct(v), Elements(s) \cap Elements(v) = {} PROVE Distinct(w)
  <2> SUFFICES ASSUME NEW i \in 1..(m + n), NEW j \in 1..(m + n), w[i] = w[j] PROVE i = j
    BY <1>2 DEF Distinct
  <2>1. \A a \in 1..m, c \in 1..n : s[a] # v[c]
    BY <1>8 DEF Elements
  <2>2. CASE i \in 1..m /\ j \in 1..m
    BY <2>2, <1>4, <1>8 DEF Distinct
  <2>3. CASE i \in 1..m /\ j \notin 1..m
    BY <2>1, <2>3, <1>4, <1>6
  <2>4. CASE i \notin 1..m /\ j \in 1..m
    BY <2>1, <2>4, <1>4, <1>6
  <2>5. CASE i \notin 1..m /\ j \notin 1..m
    <3>1. i - m \in 1..n /\ j - m \in 1..n /\ v[i - m] = v[j - m]
      BY <2>5, <1>6
    <3>2. i - m = j - m
      BY <3>1, <1>8 DEF Distinct
    <3> QED BY <3>2, <1>1
  <2> QED BY <2>2, <2>3, <2>4, <2>5
<1> QED BY <1>2, <1>7, <1>8 DEF w

(* The members of a list with one more at its end.                         *)
LEMMA AppendElements ==
    ASSUME NEW U, NEW s \in Seq(U), NEW x \in U
    PROVE  /\ Append(s, x) \in Seq(U) /\ Len(Append(s, x)) = Len(s) + 1
           /\ Append(s, x)[Len(s) + 1] = x
           /\ \A i \in 1..Len(s) : Append(s, x)[i] = s[i]
           /\ Elements(Append(s, x)) = Elements(s) \cup {x}
           /\ Distinct(s) /\ x \notin Elements(s) => Distinct(Append(s, x))
<1> DEFINE w == Append(s, x)
           m == Len(s)
<1>1. m \in Nat /\ w \in Seq(U) /\ Len(w) = m + 1 /\ w[m + 1] = x
  BY AppendProperties
<1>2. \A i \in 1..m : w[i] = s[i]
  BY AppendProperties
<1> HIDE DEF w
<1>3. \A i \in 1..(m + 1) : i \in 1..m \/ i = m + 1
  BY <1>1
<1>4. \A i \in 1..m : i \in 1..(m + 1)
  BY <1>1
<1>5. m + 1 \in 1..(m + 1)
  BY <1>1
<1>6. Elements(w) = Elements(s) \cup {x}
  <2>1. \A i \in 1..(m + 1) : w[i] \in Elements(s) \cup {x}
    BY <1>1, <1>2, <1>3 DEF Elements
  <2>2. \A i \in 1..m : s[i] \in Elements(w)
    BY <1>1, <1>2, <1>4 DEF Elements
  <2>3. x \in Elements(w)
    BY <1>1, <1>5 DEF Elements
  <2> QED BY <2>1, <2>2, <2>3, <1>1 DEF Elements
<1>7. ASSUME Distinct(s), x \notin Elements(s) PROVE Distinct(w)
  <2> SUFFICES ASSUME NEW i \in 1..(m + 1), NEW j \in 1..(m + 1), w[i] = w[j] PROVE i = j
    BY <1>1 DEF Distinct
  <2>1. \A k \in 1..m : s[k] # x
    BY <1>7 DEF Elements
  <2>2. CASE i \in 1..m /\ j \in 1..m
    BY <2>2, <1>2, <1>7 DEF Distinct
  <2>3. CASE i = m + 1 \/ j = m + 1
    BY <2>1, <2>3, <1>1, <1>2, <1>3
  <2> QED BY <2>2, <2>3, <1>3
<1> QED BY <1>1, <1>2, <1>6, <1>7 DEF w

(* The members of a list without its first.                                *)
LEMMA TailElements ==
    ASSUME NEW U, NEW s \in Seq(U), s # <<>>
    PROVE  /\ Tail(s) \in Seq(U) /\ Len(s) \in Nat /\ Len(s) >= 1 /\ Len(Tail(s)) = Len(s) - 1
           /\ \A i \in 1..Len(Tail(s)) : Tail(s)[i] = s[i + 1] /\ i + 1 \in 1..Len(s)
           /\ s[1] \in U /\ s[1] \in Elements(s)
           /\ Distinct(s) => /\ Distinct(Tail(s))
                             /\ Elements(Tail(s)) = Elements(s) \ {s[1]}
<1> DEFINE w == Tail(s)
           m == Len(s)
<1>1. m \in Nat /\ m >= 1
  <2>1. m # 0
    BY EmptySeq
  <2> QED BY <2>1
<1>2. w \in Seq(U) /\ Len(w) = m - 1
  BY HeadTailProperties
<1>3. \A i \in 1..(m - 1) : w[i] = s[i + 1] /\ i + 1 \in 1..m
  BY <1>1
<1> HIDE DEF w
<1>4. 1 \in 1..m /\ s[1] \in U
  BY <1>1
<1>5. \A i \in 1..m : i = 1 \/ (i - 1 \in 1..(m - 1) /\ (i - 1) + 1 = i)
  BY <1>1
<1>6. ASSUME Distinct(s)
      PROVE  Distinct(w) /\ Elements(w) = Elements(s) \ {s[1]}
  <2>1. \A i, j \in 1..(m - 1) : w[i] = w[j] => i = j
    <3> SUFFICES ASSUME NEW i \in 1..(m - 1), NEW j \in 1..(m - 1), w[i] = w[j] PROVE i = j
      OBVIOUS
    <3>1. i + 1 = j + 1
      BY <1>3, <1>6 DEF Distinct
    <3> QED BY <3>1, <1>1
  <2>2. \A i \in 1..(m - 1) : w[i] \in Elements(s) /\ w[i] # s[1]
    <3> SUFFICES ASSUME NEW i \in 1..(m - 1) PROVE w[i] \in Elements(s) /\ w[i] # s[1]
      OBVIOUS
    <3>1. i + 1 \in 1..m /\ w[i] = s[i + 1] /\ i + 1 # 1
      BY <1>1, <1>3
    <3> QED BY <3>1, <1>4, <1>6 DEF Distinct, Elements
  <2>3. \A i \in 1..m : s[i] # s[1] => s[i] \in Elements(w)
    <3> SUFFICES ASSUME NEW i \in 1..m, s[i] # s[1] PROVE s[i] \in Elements(w)
      OBVIOUS
    <3>1. i - 1 \in 1..(m - 1) /\ (i - 1) + 1 = i
      BY <1>5
    <3>2. w[i - 1] = s[i]
      BY <3>1, <1>3
    <3> QED BY <3>1, <3>2, <1>2 DEF Elements
  <2>4. Distinct(w)
    BY <2>1, <1>2 DEF Distinct
  <2>5. \A x \in Elements(w) : x \in Elements(s) /\ x # s[1]
    <3>1. \A x \in Elements(w) : \E i \in 1..(m - 1) : x = w[i]
      BY <1>2 DEF Elements
    <3> QED BY <3>1, <2>2
  <2>6. \A x \in Elements(s) : x # s[1] => x \in Elements(w)
    <3>1. \A x \in Elements(s) : \E i \in 1..m : x = s[i]
      BY DEF Elements
    <3> QED BY <3>1, <2>3
  <2> QED BY <2>4, <2>5, <2>6
<1>7. s[1] \in Elements(s)
  BY <1>4 DEF Elements
<1> QED BY <1>1, <1>2, <1>3, <1>4, <1>6, <1>7 DEF w

(* The same of lists of blocks.                                            *)
LEMMA ConcatFacts ==
    ASSUME NEW s \in Seq(Blocks), NEW v \in Seq(Blocks)
    PROVE  /\ s \o v \in Seq(Blocks) /\ Len(s \o v) = Len(s) + Len(v)
           /\ \A i \in 1..Len(s) : (s \o v)[i] = s[i]
           /\ \A i \in 1..Len(v) : (s \o v)[Len(s) + i] = v[i]
           /\ \A i \in 1..(Len(s) + Len(v)) : i \in 1..Len(s) \/ i - Len(s) \in 1..Len(v)
  BY JoinFacts

(* And when a concatenation has no repetition.                             *)
LEMMA ConcatElements ==
    ASSUME NEW s \in Seq(Blocks), NEW v \in Seq(Blocks)
    PROVE  /\ s \o v \in Seq(Blocks)
           /\ Elements(s \o v) = Elements(s) \cup Elements(v)
           /\ Distinct(s) /\ Distinct(v) /\ Elements(s) \cap Elements(v) = {} => Distinct(s \o v)
  BY JoinElements

\* Where the table new of r is not r's table in t, it has null blocks.
Shrunk(t, r, new) ==
    \A i \in 1..Len(new) : new[i] = NullBlock \/ (i \in 1..Len(t[r]) /\ new[i] = t[r][i])

\* ordered lists the blocks that r gives up with its table becoming new.
GivesUp(ordered, t, r, new) ==
    /\ OnceEach(ordered)
    /\ \A b \in Blocks \ {NullBlock} :
          b \in Elements(ordered) <=> b \in Elements(t[r]) /\ b \notin Elements(new)
    /\ \A b \in Blocks \ {NullBlock} : b \in Elements(new) => b \in Elements(t[r])

\* The free queue gq and the counts cnt that free_blocks leaves.
Freed(fq, rc, ordered, gq, cnt) ==
    /\ cnt = [b \in Blocks |-> rc[b] - Times(ordered, b)]
    /\ gq = fq \o Only(ordered, {b \in Blocks \ {NullBlock} : cnt[b] = 0})

(* free_blocks: the blocks of a list without repetitions lose a holder, and *)
(* those left without any join the free queue.                             *)
LEMMA ReleaseCounts ==
    ASSUME NEW t \in [Reqs -> Seq(Blocks)], NEW r \in Reqs, NEW new \in Seq(Blocks),
           NEW u \in [Reqs -> Seq(Blocks)], Updated(t, u, r, new),
           NEW rc \in [Blocks -> Nat], NEW fq \in Seq(Blocks),
           Counts(rc, t), FreeList(fq, rc),
           NEW ordered \in Seq(Blocks), GivesUp(ordered, t, r, new),
           NEW cnt, NEW gq, Freed(fq, rc, ordered, gq, cnt)
    PROVE  /\ cnt \in [Blocks -> Nat] /\ gq \in Seq(Blocks)
           /\ Counts(cnt, u) /\ FreeList(gq, cnt)
<1> USE DEF GivesUp, Freed
<1> DEFINE Z == {b \in Blocks \ {NullBlock} : cnt[b] = 0}
           o == Only(ordered, Z)
<1>1. \A b \in Blocks : cnt[b] = rc[b] - IF b # NullBlock /\ b \in Elements(ordered) THEN 1 ELSE 0
  BY TimesOnce
<1>2. \A b \in Blocks \ {NullBlock} : cnt[b] = Cardinality(Holders(u, b)) /\ cnt[b] \in Nat
  <2> SUFFICES ASSUME NEW b \in Blocks \ {NullBlock}
               PROVE  cnt[b] = Cardinality(Holders(u, b)) /\ cnt[b] \in Nat
    OBVIOUS
  <2>1. rc[b] = Cardinality(Holders(t, b))
    BY DEF Counts
  <2>2. HoldersMove(t, u, r, new, b)
    BY HoldersChange
  <2>3. CASE b \in Elements(ordered)
    BY <2>1, <2>2, <2>3, <1>1 DEF HoldersMove
  <2>4. CASE b \notin Elements(ordered)
    BY <2>1, <2>2, <2>4, <1>1 DEF HoldersMove
  <2> QED BY <2>3, <2>4
<1>3. cnt \in [Blocks -> Nat]
  <2>1. \A b \in Blocks : cnt[b] \in Nat
    BY <1>1, <1>2
  <2> QED BY <2>1
<1>4. Counts(cnt, u)
  BY <1>2 DEF Counts
<1>5. /\ o \in Seq(Blocks) /\ Elements(o) = Elements(ordered) \cap Z
      /\ (\A i, j \in 1..Len(ordered) : ordered[i] = ordered[j] /\ ordered[i] \in Z => i = j)
            => Distinct(o)
  BY OnlyFacts
<1>6. Distinct(o)
  <2>1. \A i, j \in 1..Len(ordered) : ordered[i] = ordered[j] /\ ordered[i] \in Z => i = j
    BY DEF OnceEach
  <2> QED BY <2>1, <1>5
<1>7. gq = fq \o o
  OBVIOUS
<1> HIDE DEF o
<1>8. Distinct(fq) /\ Elements(fq) = {b \in Blocks \ {NullBlock} : rc[b] = 0}
  BY DEF FreeList
<1>9. \A b \in Elements(ordered) : b \in Blocks /\ (b # NullBlock => rc[b] # 0)
  <2> SUFFICES ASSUME NEW b \in Elements(ordered)
               PROVE  b \in Blocks /\ (b # NullBlock => rc[b] # 0)
    OBVIOUS
  <2>1. b \in Blocks
    BY DEF Elements
  <2>2. CASE b # NullBlock
    <3>1. b \in Elements(t[r]) /\ rc[b] = Cardinality(Holders(t, b))
      BY <2>1, <2>2 DEF Counts
    <3>2. HoldersMove(t, u, r, new, b)
      BY <2>1, HoldersChange
    <3>3. Cardinality(Holders(t, b)) > 0
      BY <3>1, <3>2 DEF HoldersMove
    <3> QED BY <2>1, <3>1, <3>3
  <2> QED BY <2>1, <2>2
<1>10. Elements(fq) \cap Elements(o) = {}
  BY <1>5, <1>8, <1>9
<1>11. gq \in Seq(Blocks) /\ Elements(gq) = Elements(fq) \cup Elements(o) /\ Distinct(gq)
  <2>1. o \in Seq(Blocks) /\ Distinct(o) /\ Distinct(fq) /\ Elements(fq) \cap Elements(o) = {}
    BY <1>5, <1>6, <1>8, <1>10
  <2>2. /\ fq \o o \in Seq(Blocks) /\ Elements(fq \o o) = Elements(fq) \cup Elements(o)
        /\ Distinct(fq) /\ Distinct(o) /\ Elements(fq) \cap Elements(o) = {} => Distinct(fq \o o)
    BY <2>1, ConcatElements
  <2> QED BY <2>1, <2>2, <1>7
<1>12. Elements(gq) = Z
  <2>1. \A b \in Blocks \ {NullBlock} : rc[b] = 0 => cnt[b] = 0
    BY <1>1, <1>9
  <2>2. \A b \in Blocks \ {NullBlock} : cnt[b] = 0 => rc[b] = 0 \/ b \in Elements(ordered)
    BY <1>1
  <2> QED BY <2>1, <2>2, <1>5, <1>8, <1>11
<1> QED BY <1>3, <1>4, <1>11, <1>12 DEF FreeList

\* The queue fq is cut in two after its m-th block.
Split(fq, m, ret, rest) ==
    /\ ret \in Seq(Blocks) /\ Len(ret) = m /\ Distinct(ret)
    /\ rest \in Seq(Blocks) /\ Distinct(rest)
    /\ Elements(ret) \subseteq Elements(fq)
    /\ Elements(rest) = Elements(fq) \ Elements(ret)
    /\ Cardinality(Elements(ret)) = m

(* A free queue cut in two.                                                *)
LEMMA SplitQueue ==
    ASSUME NEW fq \in Seq(Blocks), Distinct(fq), NEW m \in 0..Len(fq)
    PROVE  Split(fq, m, SubSeq(fq, 1, m), SubSeq(fq, m + 1, Len(fq)))
<1> DEFINE ret == SubSeq(fq, 1, m)
           rest == SubSeq(fq, m + 1, Len(fq))
<1>1. m \in Nat /\ Len(fq) \in Nat /\ m <= Len(fq)
  OBVIOUS
<1>2. /\ ret \in Seq(Blocks) /\ Len(ret) = m
      /\ \A i \in 1..m : ret[i] = fq[i] /\ i \in 1..Len(fq)
  BY <1>1
<1>3. /\ rest \in Seq(Blocks) /\ Len(rest) = Len(fq) - m
      /\ \A i \in 1..(Len(fq) - m) : rest[i] = fq[i + m] /\ i + m \in 1..Len(fq)
  BY <1>1
<1> HIDE DEF ret, rest
<1>4. Distinct(ret)
  BY <1>2 DEF Distinct
<1>5. Distinct(rest)
  <2> SUFFICES ASSUME NEW i \in 1..(Len(fq) - m), NEW j \in 1..(Len(fq) - m), rest[i] = rest[j]
               PROVE  i = j
    BY <1>3 DEF Distinct
  <2>1. i + m = j + m
    BY <1>3 DEF Distinct
  <2> QED BY <2>1, <1>1
<1>6. Elements(ret) \subseteq Elements(fq)
  BY <1>2 DEF Elements
<1>7. \A x \in Elements(rest) : x \in Elements(fq) \ Elements(ret)
  <2> SUFFICES ASSUME NEW i \in 1..(Len(fq) - m) PROVE rest[i] \in Elements(fq) \ Elements(ret)
    BY <1>3 DEF Elements
  <2>1. rest[i] = fq[i + m] /\ i + m \in 1..Len(fq) /\ i >= 1
    BY <1>3
  <2>2. rest[i] \in Elements(fq)
    BY <2>1 DEF Elements
  <2>3. ASSUME NEW j \in 1..m, ret[j] = rest[i] PROVE FALSE
    <3>1. fq[j] = fq[i + m] /\ j \in 1..Len(fq)
      BY <2>1, <2>3, <1>2
    <3>2. j = i + m
      BY <3>1, <2>1 DEF Distinct
    <3> QED BY <3>2, <2>1, <1>1
  <2> QED BY <2>2, <2>3, <1>2 DEF Elements
<1>8. \A x \in Elements(fq) \ Elements(ret) : x \in Elements(rest)
  <2> SUFFICES ASSUME NEW k \in 1..Len(fq), fq[k] \notin Elements(ret)
               PROVE  fq[k] \in Elements(rest)
    BY DEF Elements
  <2>1. k \notin 1..m
    <3> SUFFICES ASSUME k \in 1..m PROVE FALSE
      OBVIOUS
    <3>1. ret[k] \in Elements(ret) /\ ret[k] = fq[k]
      BY <1>2 DEF Elements
    <3> QED BY <3>1
  <2>2. k - m \in 1..(Len(fq) - m) /\ (k - m) + m = k
    BY <2>1, <1>1
  <2>3. rest[k - m] = fq[k]
    BY <2>2, <1>3
  <2> QED BY <2>2, <2>3, <1>3 DEF Elements
<1>9. Cardinality(Elements(ret)) = m
  <2> DEFINE E == Elements(ret)
             f == [i \in 1..m |-> ret[i]]
  <2>1. f \in Bijection(1..m, E)
    <3>1. \A i \in 1..m : ret[i] \in E
      BY <1>2 DEF Elements
    <3>2. \A x \in E : \E i \in 1..m : ret[i] = x
      BY <1>2 DEF Elements
    <3>3. \A i, j \in 1..m : ret[i] = ret[j] => i = j
      BY <1>2, <1>4 DEF Distinct
    <3> HIDE DEF E
    <3> QED BY <3>1, <3>2, <3>3 DEF Bijection, Injection, Surjection, IsInjective
  <2>2. IsFiniteSet(1..m) /\ Cardinality(1..m) = m
    BY <1>1, FS_Interval
  <2> HIDE DEF f, E
  <2>3. Cardinality(E) = Cardinality(1..m)
    <3>1. ExistsBijection(1..m, E)
      BY <2>1 DEF ExistsBijection
    <3> QED BY <2>2, <3>1, FS_Bijection
  <2> QED BY <2>2, <2>3 DEF E
<1>10. Split(fq, m, ret, rest)
  BY <1>2, <1>3, <1>4, <1>5, <1>6, <1>7, <1>8, <1>9 DEF Split
<1> QED BY <1>10 DEF ret, rest

\* The counts cnt when each block of ret has got its first holder.
Taken(rc, ret, cnt) == cnt = [b \in Blocks |-> IF b \in Elements(ret) THEN rc[b] + 1 ELSE rc[b]]

(* get_new_blocks: the first free blocks ret are nobody's; appended to a     *)
(* table they have one holder, and the rest of the queue is still free.    *)
LEMMA TakeCounts ==
    ASSUME NEW t \in [Reqs -> Seq(Blocks)], NEW r \in Reqs,
           NEW rc \in [Blocks -> Nat], NEW fq \in Seq(Blocks),
           Counts(rc, t), FreeList(fq, rc),
           NEW ret \in Seq(Blocks), Elements(ret) \subseteq Elements(fq),
           NEW rest \in Seq(Blocks), Distinct(rest),
           Elements(rest) = Elements(fq) \ Elements(ret),
           NEW new \in Seq(Blocks), Elements(new) = Elements(t[r]) \cup Elements(ret),
           NEW u \in [Reqs -> Seq(Blocks)], Updated(t, u, r, new),
           NEW cnt, Taken(rc, ret, cnt)
    PROVE  /\ cnt \in [Blocks -> Nat] /\ Counts(cnt, u) /\ FreeList(rest, cnt)
           /\ \A b \in Elements(ret) : b \in Blocks \ {NullBlock} /\ Holders(t, b) = {}
<1> USE DEF Taken
<1>1. Elements(fq) = {b \in Blocks \ {NullBlock} : rc[b] = 0}
  BY DEF FreeList
<1>2. \A b \in Elements(ret) : b \in Blocks \ {NullBlock} /\ rc[b] = 0
  BY <1>1
<1>3. \A b \in Elements(ret) : Holders(t, b) = {}
  <2> SUFFICES ASSUME NEW b \in Elements(ret) PROVE Holders(t, b) = {}
    OBVIOUS
  <2>1. Cardinality(Holders(t, b)) = 0
    BY <1>2 DEF Counts
  <2>2. IsFiniteSet(Holders(t, b))
    <3>1. IsFiniteSet(Reqs) /\ Holders(t, b) \subseteq Reqs
      BY KVCacheManagerAssumption DEF Holders
    <3> QED BY <3>1, FS_Subset
  <2> QED BY <2>1, <2>2, FS_EmptySet
<1>4. cnt \in [Blocks -> Nat]
  OBVIOUS
<1>5. Counts(cnt, u)
  <2> SUFFICES ASSUME NEW b \in Blocks \ {NullBlock} PROVE cnt[b] = Cardinality(Holders(u, b))
    BY DEF Counts
  <2>1. b \in Elements(ret) => b \notin Elements(t[r])
    BY <1>3 DEF Holders
  <2>2. HoldersMove(t, u, r, new, b)
    BY HoldersChange
  <2>3. rc[b] = Cardinality(Holders(t, b))
    BY DEF Counts
  <2> QED BY <2>1, <2>2, <2>3 DEF HoldersMove
<1>6. Elements(rest) = {b \in Blocks \ {NullBlock} : cnt[b] = 0}
  BY <1>1, <1>2
<1> QED BY <1>2, <1>3, <1>4, <1>5, <1>6 DEF FreeList

\* Two lists have the same blocks, the null block aside.
SameBlocks(new, kept) ==
    \A b \in Blocks \ {NullBlock} : b \in Elements(new) <=> b \in Elements(kept)

\* The free queue gq and the counts cnt that touch leaves.
Touched(fq, rc, kept, gq, cnt) ==
    /\ cnt = [b \in Blocks |-> rc[b] + Times(kept, b)]
    /\ gq = Only(fq, Blocks \ Elements(kept))

(* touch: a request without blocks becomes a holder of the blocks of kept,  *)
(* and those of them that nobody held leave the free queue.                *)
LEMMA TouchCounts ==
    ASSUME NEW t \in [Reqs -> Seq(Blocks)], NEW r \in Reqs, Len(t[r]) = 0,
           NEW rc \in [Blocks -> Nat], NEW fq \in Seq(Blocks),
           Counts(rc, t), FreeList(fq, rc),
           NEW kept \in Seq(Blocks), OnceEach(kept),
           NEW new \in Seq(Blocks), SameBlocks(new, kept),
           NEW u \in [Reqs -> Seq(Blocks)], Updated(t, u, r, new),
           NEW cnt, NEW gq, Touched(fq, rc, kept, gq, cnt)
    PROVE  /\ cnt \in [Blocks -> Nat] /\ Counts(cnt, u)
           /\ gq \in Seq(Blocks) /\ FreeList(gq, cnt)
<1> USE DEF SameBlocks, Touched
<1>1. \A b \in Blocks : cnt[b] = rc[b] + IF b # NullBlock /\ b \in Elements(kept) THEN 1 ELSE 0
  BY TimesOnce
<1>2. cnt \in [Blocks -> Nat]
  <2>1. \A b \in Blocks : rc[b] \in Nat /\ cnt[b] \in Nat
    <3> TAKE b \in Blocks
    <3>1. rc[b] \in Nat
      OBVIOUS
    <3>2. cnt[b] = rc[b] + 1 \/ cnt[b] = rc[b] + 0
      BY <1>1, Zenon
    <3>3. rc[b] + 1 \in Nat /\ rc[b] + 0 \in Nat
      BY <3>1
    <3> QED BY <3>1, <3>2, <3>3, Zenon
  <2>2. cnt = [b \in Blocks |-> cnt[b]]
    OBVIOUS
  <2> QED BY <2>1, <2>2
<1>3. Counts(cnt, u)
  <2> SUFFICES ASSUME NEW b \in Blocks \ {NullBlock} PROVE cnt[b] = Cardinality(Holders(u, b))
    BY DEF Counts
  <2>1. b \notin Elements(t[r])
    BY DEF Elements
  <2>2. HoldersMove(t, u, r, new, b)
    BY HoldersChange
  <2>3. rc[b] = Cardinality(Holders(t, b))
    BY DEF Counts
  <2> QED BY <2>1, <2>2, <2>3, <1>1 DEF HoldersMove
<1>4. Distinct(fq) /\ Elements(fq) = {b \in Blocks \ {NullBlock} : rc[b] = 0}
  BY DEF FreeList
<1> DEFINE S == Blocks \ Elements(kept)
<1>5. /\ Only(fq, S) \in Seq(Blocks) /\ Elements(Only(fq, S)) = Elements(fq) \cap S
      /\ (\A i, j \in 1..Len(fq) : fq[i] = fq[j] /\ fq[i] \in S => i = j) => Distinct(Only(fq, S))
  BY OnlyFacts
<1>6. gq \in Seq(Blocks) /\ Elements(gq) = Elements(fq) \cap S /\ Distinct(gq)
  <2>1. \A i, j \in 1..Len(fq) : fq[i] = fq[j] /\ fq[i] \in S => i = j
    BY <1>4 DEF Distinct
  <2>2. gq = Only(fq, S)
    OBVIOUS
  <2> HIDE DEF S, SameBlocks, Touched
  <2> QED BY <2>1, <2>2, <1>5
<1>7. Elements(gq) = {b \in Blocks \ {NullBlock} : cnt[b] = 0}
  <2>1. \A b \in Blocks \ {NullBlock} : cnt[b] = 0 <=> rc[b] = 0 /\ b \notin Elements(kept)
    <3> TAKE b \in Blocks \ {NullBlock}
    <3>1. rc[b] \in Nat /\ cnt[b] = rc[b] + IF b \in Elements(kept) THEN 1 ELSE 0
      BY <1>1
    <3> QED BY <3>1
  <2>2. \A b : b \in Elements(gq) <=> b \in Blocks \ {NullBlock} /\ rc[b] = 0 /\ b \notin Elements(kept)
    BY <1>4, <1>6
  <2> QED BY <2>1, <2>2
<1> QED BY <1>2, <1>3, <1>6, <1>7 DEF FreeList

-----------------------------------------------------------------------------
(* Block tables. *)

(* A hash tells the place of its block.                                    *)
LEMMA EndsOnce ==
    ASSUME NEW h, NEW i \in Nat, NEW j \in Nat, EndsAt(h, i), EndsAt(h, j)
    PROVE  i = j
<1>1. BlockSize \in Nat /\ BlockSize > 0
  BY KVCacheManagerAssumption
<1>2. i * BlockSize = j * BlockSize
  BY DEF EndsAt
<1> QED BY <1>1, <1>2, TimesMonotone

\* mc is nc, except for r.
SameBut(nc, mc, r) == \A q \in Reqs : q # r => mc[q] = nc[q]

(* Releasing blocks, some (null blocks take their places) or all.          *)
LEMMA ReleaseTables ==
    ASSUME NEW t \in [Reqs -> Seq(Blocks)], NEW r \in Reqs, NEW new \in Seq(Blocks),
           NEW u \in [Reqs -> Seq(Blocks)], Updated(t, u, r, new),
           NEW nc \in [Reqs -> Int], NEW mc \in [Reqs -> Int],
           SameBut(nc, mc, r),
           mc[r] = nc[r] \/ Len(new) = 0,
           NEW bh \in [Blocks -> Seq(Nat)], bh[NullBlock] = NoHash,
           TablesOK(nc, t, bh), Shrunk(t, r, new)
    PROVE  TablesOK(mc, u, bh)
<1> USE DEF Shrunk, SameBut
<1>1. \A q \in Reqs : \A i \in 1..Len(u[q]) :
          \/ u[q][i] = NullBlock
          \/ i \in 1..Len(t[q]) /\ u[q][i] = t[q][i] /\ mc[q] = nc[q]
  <2> SUFFICES ASSUME NEW q \in Reqs, NEW i \in 1..Len(u[q])
               PROVE  \/ u[q][i] = NullBlock
                      \/ i \in 1..Len(t[q]) /\ u[q][i] = t[q][i] /\ mc[q] = nc[q]
    OBVIOUS
  <2>1. CASE q = r
    <3>1. u[q] = new /\ i \in 1..Len(new)
      BY <2>1 DEF Updated
    <3>2. Len(new) # 0
      BY <3>1
    <3> QED BY <2>1, <3>1, <3>2
  <2>2. CASE q # r
    <3>1. u[q] = t[q]
      BY <2>2 DEF Updated
    <3> QED BY <2>2, <3>1
  <2> QED BY <2>1, <2>2
<1>2. InPlace(u)
  <2> SUFFICES ASSUME NEW q \in Reqs, NEW p \in Reqs,
                      NEW i \in 1..Len(u[q]), NEW j \in 1..Len(u[p]),
                      u[q][i] = u[p][j], u[q][i] # NullBlock
               PROVE  i = j
    BY DEF InPlace
  <2>1. /\ i \in 1..Len(t[q]) /\ u[q][i] = t[q][i]
        /\ j \in 1..Len(t[p]) /\ u[p][j] = t[p][j]
    BY <1>1
  <2>2. InPlace(t)
    BY DEF TablesOK
  <2>3. t[q][i] = t[p][j] /\ t[q][i] # NullBlock
    BY <2>1
  <2> QED BY <2>1, <2>2, <2>3 DEF InPlace
<1>3. Private(mc, u)
  <2> SUFFICES ASSUME NEW q \in Reqs, NEW p \in Reqs,
                      NEW i \in 1..Len(u[q]), NEW j \in 1..Len(u[p]),
                      i > mc[q], u[q][i] = u[p][j], u[q][i] # NullBlock
               PROVE  q = p
    BY DEF Private
  <2>1. /\ i \in 1..Len(t[q]) /\ u[q][i] = t[q][i] /\ mc[q] = nc[q]
        /\ j \in 1..Len(t[p]) /\ u[p][j] = t[p][j]
    BY <1>1
  <2>2. Private(nc, t)
    BY DEF TablesOK
  <2>3. i > nc[q] /\ t[q][i] = t[p][j] /\ t[q][i] # NullBlock
    BY <2>1
  <2> QED BY <2>1, <2>2, <2>3 DEF Private
<1>4. Unhashed(mc, u, bh)
  <2> SUFFICES ASSUME NEW q \in Reqs, NEW i \in 1..Len(u[q]), i > mc[q]
               PROVE  bh[u[q][i]] = NoHash
    BY DEF Unhashed
  <2>1. CASE u[q][i] = NullBlock
    BY <2>1
  <2>2. CASE i \in 1..Len(t[q]) /\ u[q][i] = t[q][i] /\ mc[q] = nc[q]
    <3>1. Unhashed(nc, t, bh)
      BY DEF TablesOK
    <3>2. i > nc[q]
      BY <2>2
    <3>3. bh[t[q][i]] = NoHash
      BY <2>2, <3>1, <3>2 DEF Unhashed
    <3> QED BY <2>2, <3>3
  <2> QED BY <1>1, <2>1, <2>2
<1>5. HashPlace(u, bh)
  <2> SUFFICES ASSUME NEW q \in Reqs, NEW i \in 1..Len(u[q]), u[q][i] # NullBlock,
                      bh[u[q][i]] # NoHash
               PROVE  EndsAt(bh[u[q][i]], i)
    BY DEF HashPlace
  <2>1. i \in 1..Len(t[q]) /\ u[q][i] = t[q][i]
    BY <1>1
  <2>2. HashPlace(t, bh)
    BY DEF TablesOK
  <2>3. t[q][i] # NullBlock /\ bh[t[q][i]] # NoHash
    BY <2>1
  <2>4. EndsAt(bh[t[q][i]], i)
    BY <2>1, <2>2, <2>3 DEF HashPlace
  <2> QED BY <2>1, <2>4
<1> QED BY <1>2, <1>3, <1>4, <1>5 DEF TablesOK

\* The blocks of ret have no holder and no hash.
Unused(ret, t, bh) == \A b \in Elements(ret) : Holders(t, b) = {} /\ bh[b] = NoHash

(* Appending blocks that nobody holds and that have no hash.               *)
LEMMA TakeTables ==
    ASSUME NEW t \in [Reqs -> Seq(Blocks)], NEW r \in Reqs, NEW ret \in Seq(Blocks),
           Distinct(ret),
           NEW u \in [Reqs -> Seq(Blocks)], Updated(t, u, r, t[r] \o ret),
           NEW nc \in [Reqs -> Int],
           NEW bh \in [Blocks -> Seq(Nat)], Unused(ret, t, bh),
           TablesOK(nc, t, bh)
    PROVE  TablesOK(nc, u, bh)
<1> USE DEF Unused
<1> DEFINE Old(q, i) == i \in 1..Len(t[q]) /\ u[q][i] = t[q][i]
           New(q, i) == /\ q = r /\ i - Len(t[r]) \in 1..Len(ret)
                        /\ u[q][i] = ret[i - Len(t[r])] /\ bh[u[q][i]] = NoHash
<1>1. \A q \in Reqs : t[q] \in Seq(Blocks) /\ Len(t[q]) \in Nat
  OBVIOUS
<1>2. \A q \in Reqs : \A i \in 1..Len(u[q]) : Old(q, i) \/ New(q, i)
  <2> SUFFICES ASSUME NEW q \in Reqs, NEW i \in 1..Len(u[q]) PROVE Old(q, i) \/ New(q, i)
    OBVIOUS
  <2>1. CASE q # r
    <3>1. u[q] = t[q]
      BY <2>1 DEF Updated
    <3> QED BY <3>1
  <2>2. CASE q = r
    <3>1. u[q] = t[r] \o ret
      BY <2>2 DEF Updated
    <3>2. /\ Len(u[q]) = Len(t[r]) + Len(ret)
          /\ \A k \in 1..Len(t[r]) : u[q][k] = t[r][k]
          /\ \A k \in 1..Len(ret) : u[q][Len(t[r]) + k] = ret[k]
      <4> DEFINE s == t[r]
      <4>1. s \in Seq(Blocks)
        BY <1>1
      <4> HIDE DEF s
      <4>2. /\ Len(s \o ret) = Len(s) + Len(ret)
            /\ \A k \in 1..Len(s) : (s \o ret)[k] = s[k]
            /\ \A k \in 1..Len(ret) : (s \o ret)[Len(s) + k] = ret[k]
        BY <4>1, ConcatFacts
      <4> QED BY <3>1, <4>2 DEF s
    <3>3. CASE i \in 1..Len(t[r])
      BY <2>2, <3>2, <3>3
    <3>4. CASE i \notin 1..Len(t[r])
      <4>1. i - Len(t[r]) \in 1..Len(ret) /\ Len(t[r]) + (i - Len(t[r])) = i
        BY <3>2, <3>4, <1>1
      <4>2. u[q][i] = ret[i - Len(t[r])]
        BY <4>1, <3>2
      <4>3. ret[i - Len(t[r])] \in Elements(ret)
        BY <4>1 DEF Elements
      <4> QED BY <2>2, <4>1, <4>2, <4>3
    <3> QED BY <3>3, <3>4
  <2> QED BY <2>1, <2>2
<1>3. \A q \in Reqs : \A i \in 1..Len(t[q]) : \A k \in 1..Len(ret) : t[q][i] # ret[k]
  <2> SUFFICES ASSUME NEW q \in Reqs, NEW i \in 1..Len(t[q]), NEW k \in 1..Len(ret),
                      t[q][i] = ret[k]
               PROVE  FALSE
    OBVIOUS
  <2>1. ret[k] \in Elements(ret) /\ t[q][i] \in Elements(t[q])
    BY DEF Elements
  <2>2. q \in Holders(t, ret[k])
    BY <2>1 DEF Holders
  <2> QED BY <2>1, <2>2
<1> HIDE DEF New, Old
<1>4. ASSUME NEW i \in Int, NEW j \in Int, NEW q \in Reqs, NEW p \in Reqs,
             New(q, i), New(p, j), u[q][i] = u[p][j]
      PROVE  i = j /\ q = p
  <2>1. i - Len(t[r]) = j - Len(t[r])
    BY <1>4 DEF Distinct, New
  <2>2. q = r /\ p = r
    BY <1>4 DEF New
  <2> QED BY <2>1, <2>2, <1>1
<1>5. ASSUME NEW i \in Int, NEW j \in Int, NEW q \in Reqs, NEW p \in Reqs,
             Old(q, i), New(p, j)
      PROVE  u[q][i] # u[p][j]
  <2>1. t[q][i] # ret[j - Len(t[r])]
    BY <1>3, <1>5 DEF Old, New
  <2> QED BY <2>1, <1>5 DEF Old, New
<1>6. InPlace(u)
  <2> SUFFICES ASSUME NEW q \in Reqs, NEW p \in Reqs,
                      NEW i \in 1..Len(u[q]), NEW j \in 1..Len(u[p]),
                      u[q][i] = u[p][j], u[q][i] # NullBlock
               PROVE  i = j
    BY DEF InPlace
  <2>1. i \in Int /\ j \in Int
    OBVIOUS
  <2>2. CASE Old(q, i) /\ Old(p, j)
    BY <2>2 DEF TablesOK, InPlace, Old
  <2>3. CASE New(q, i) /\ New(p, j)
    BY <2>1, <2>3, <1>4
  <2> QED BY <2>1, <2>2, <2>3, <1>2, <1>5
<1>7. Private(nc, u)
  <2> SUFFICES ASSUME NEW q \in Reqs, NEW p \in Reqs,
                      NEW i \in 1..Len(u[q]), NEW j \in 1..Len(u[p]),
                      i > nc[q], u[q][i] = u[p][j], u[q][i] # NullBlock
               PROVE  q = p
    BY DEF Private
  <2>1. i \in Int /\ j \in Int
    OBVIOUS
  <2>2. CASE Old(q, i) /\ Old(p, j)
    BY <2>2 DEF TablesOK, Private, Old
  <2>3. CASE New(q, i) /\ New(p, j)
    BY <2>1, <2>3, <1>4
  <2> QED BY <2>1, <2>2, <2>3, <1>2, <1>5
<1>8. Unhashed(nc, u, bh)
  <2> SUFFICES ASSUME NEW q \in Reqs, NEW i \in 1..Len(u[q]), i > nc[q]
               PROVE  bh[u[q][i]] = NoHash
    BY DEF Unhashed
  <2>1. CASE Old(q, i)
    BY <2>1 DEF TablesOK, Unhashed, Old
  <2>2. CASE New(q, i)
    BY <2>2 DEF New
  <2> QED BY <2>1, <2>2, <1>2
<1>9. HashPlace(u, bh)
  <2> SUFFICES ASSUME NEW q \in Reqs, NEW i \in 1..Len(u[q]), u[q][i] # NullBlock,
                      bh[u[q][i]] # NoHash
               PROVE  EndsAt(bh[u[q][i]], i)
    BY DEF HashPlace
  <2>1. Old(q, i)
    BY <1>2 DEF New
  <2> QED BY <2>1 DEF TablesOK, HashPlace, Old
<1> QED BY <1>6, <1>7, <1>8, <1>9 DEF TablesOK

\* The blocks of the table new have the hashes of their places.
HashedInPlace(new, bh) ==
    \A i \in 1..Len(new) :
        new[i] # NullBlock => bh[new[i]] # NoHash /\ EndsAt(bh[new[i]], i)

(* A request without blocks takes cached blocks, each at the place its hash *)
(* tells, and counts them as cached.                                       *)
LEMMA HoldTables ==
    ASSUME NEW t \in [Reqs -> Seq(Blocks)], NEW r \in Reqs, Len(t[r]) = 0, NEW new \in Seq(Blocks),
           NEW u \in [Reqs -> Seq(Blocks)], Updated(t, u, r, new),
           NEW nc \in [Reqs -> Int], NEW mc \in [Reqs -> Int],
           SameBut(nc, mc, r), mc[r] >= Len(new),
           NEW bh \in [Blocks -> Seq(Nat)],
           TablesOK(nc, t, bh),
           HashedInPlace(new, bh)
    PROVE  TablesOK(mc, u, bh)
<1> USE DEF SameBut, HashedInPlace
<1>2. \A q \in Reqs : q # r => u[q] = t[q]
  BY DEF Updated
<1>3. u[r] = new
  BY DEF Updated
<1>4. \A i \in 1..Len(new) : ~(i > mc[r])
  <2>1. Len(new) \in Nat /\ mc[r] \in Int /\ mc[r] >= Len(new)
    OBVIOUS
  <2> QED BY <2>1
<1>5. \A q \in Reqs : \A i \in 1..Len(u[q]) : i > mc[q] =>
          q # r /\ u[q] = t[q] /\ bh[u[q][i]] = NoHash
  <2> SUFFICES ASSUME NEW q \in Reqs, NEW i \in 1..Len(u[q]), i > mc[q]
               PROVE  q # r /\ u[q] = t[q] /\ bh[u[q][i]] = NoHash
    OBVIOUS
  <2>1. q # r
    BY <1>3, <1>4
  <2>2. u[q] = t[q] /\ mc[q] = nc[q]
    BY <2>1, <1>2
  <2>3. i \in 1..Len(t[q]) /\ i > nc[q]
    BY <2>2
  <2>4. bh[t[q][i]] = NoHash
    BY <2>3 DEF TablesOK, Unhashed
  <2> QED BY <2>1, <2>2, <2>4
<1>6. HashPlace(u, bh)
  <2> SUFFICES ASSUME NEW q \in Reqs, NEW i \in 1..Len(u[q]), u[q][i] # NullBlock,
                      bh[u[q][i]] # NoHash
               PROVE  EndsAt(bh[u[q][i]], i)
    BY DEF HashPlace
  <2>1. CASE q = r
    <3>1. u[q] = new /\ i \in 1..Len(new) /\ new[i] # NullBlock
      BY <2>1, <1>3
    <3>2. EndsAt(bh[new[i]], i)
      BY <3>1
    <3> QED BY <3>1, <3>2
  <2>2. CASE q # r
    <3>1. u[q] = t[q] /\ HashPlace(t, bh)
      BY <2>2, <1>2 DEF TablesOK
    <3>2. i \in 1..Len(t[q]) /\ t[q][i] # NullBlock /\ bh[t[q][i]] # NoHash
      BY <3>1
    <3>3. EndsAt(bh[t[q][i]], i)
      BY <3>1, <3>2 DEF HashPlace
    <3> QED BY <3>1, <3>3
  <2> QED BY <2>1, <2>2
<1>7. InPlace(u)
  <2> SUFFICES ASSUME NEW q \in Reqs, NEW p \in Reqs,
                      NEW i \in 1..Len(u[q]), NEW j \in 1..Len(u[p]),
                      u[q][i] = u[p][j], u[q][i] # NullBlock
               PROVE  i = j
    BY DEF InPlace
  <2>1. CASE q # r /\ p # r
    <3>1. u[q] = t[q] /\ u[p] = t[p] /\ InPlace(t)
      BY <2>1, <1>2 DEF TablesOK
    <3>2. i \in 1..Len(t[q]) /\ j \in 1..Len(t[p]) /\ t[q][i] = t[p][j] /\ t[q][i] # NullBlock
      BY <3>1
    <3> QED BY <3>1, <3>2 DEF InPlace
  <2>2. CASE q = r \/ p = r
    <3>1. bh[u[q][i]] # NoHash
      BY <2>2, <1>3
    <3>2. EndsAt(bh[u[q][i]], i)
      BY <3>1, <1>6 DEF HashPlace
    <3>a. u[p][j] # NullBlock /\ bh[u[p][j]] # NoHash
      BY <3>1
    <3>b. EndsAt(bh[u[q][i]], j)
      BY <3>a, <1>6 DEF HashPlace
    <3>3. i \in Nat /\ j \in Nat
      OBVIOUS
    <3> QED BY <3>2, <3>3, <3>b, EndsOnce
  <2> QED BY <2>1, <2>2
<1>8. Private(mc, u)
  <2> SUFFICES ASSUME NEW q \in Reqs, NEW p \in Reqs,
                      NEW i \in 1..Len(u[q]), NEW j \in 1..Len(u[p]),
                      i > mc[q], u[q][i] = u[p][j], u[q][i] # NullBlock
               PROVE  q = p
    BY DEF Private
  <2>1. q # r /\ u[q] = t[q] /\ bh[u[q][i]] = NoHash
    BY <1>5
  <2>2. p # r
    BY <2>1, <1>3
  <2> QED BY <2>1, <2>2, <1>2 DEF TablesOK, Private
<1>9. Unhashed(mc, u, bh)
  BY <1>5 DEF Unhashed
<1> QED BY <1>6, <1>7, <1>8, <1>9 DEF TablesOK
=============================================================================
