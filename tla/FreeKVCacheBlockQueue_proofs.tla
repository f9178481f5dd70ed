-------------------- MODULE FreeKVCacheBlockQueue_proofs --------------------
(***************************************************************************)
(* Proof that the linked list of free blocks stays well linked, for any    *)
(* number of blocks and any sequence of operations.  The inductive         *)
(* invariant is existential: some sequence of blocks is spelt out by the   *)
(* links.  Each operation is shown to transform that sequence.             *)
(***************************************************************************)
EXTENDS FreeKVCacheBlockQueue, SequenceTheorems, FiniteSetTheorems,
        WellFoundedInduction, TLAPS

IInv == TypeOK /\ \E q \in Seq(Blocks) : Represents(q)

\* What is left of the list q, and the list q with the m blocks bs at its end.
WithoutFirst(q, k) == [i \in 1..(Len(q) - k) |-> q[i + k]]
WithoutNth(q, k)   == [i \in 1..(Len(q) - 1) |-> IF i < k THEN q[i] ELSE q[i + 1]]
WithAtEnd(q, bs, m) == [i \in 1..(Len(q) + m) |-> IF i <= Len(q) THEN q[i] ELSE bs[i - Len(q)]]

(* A non-empty set of naturals has a least element: the form of induction  *)
(* the proofs below use.                                                   *)
LEMMA LeastElement ==
    ASSUME NEW T \in SUBSET Nat, T # {}
    PROVE  \E m \in T : \A k \in T : m <= k
<1> DEFINE R == OpToRel(<, Nat)
<1>1. IsWellFoundedOn(R, Nat)
  BY NatLessThanWellFounded
<1>2. \A x, y \in Nat : x < y => <<x, y>> \in R
  BY DEF OpToRel
<1> HIDE DEF R
<1>3. PICK m \in T : \A y \in T : ~(<<y, m>> \in R)
  BY <1>1, WFMin
<1>4. ASSUME NEW k \in T PROVE m <= k
  <2>1. CASE k < m
    <3>1. <<k, m>> \in R
      BY <1>2, <2>1
    <3> QED BY <1>3, <3>1
  <2>2. CASE ~(k < m)
    BY <2>2
  <2> QED BY <2>1, <2>2
<1> QED BY <1>4

(* A sequence of distinct blocks is no longer than there are blocks.       *)
LEMMA DistinctBound ==
    ASSUME NEW q \in Seq(Blocks),
           \A i, j \in 1..Len(q) : q[i] = q[j] => i = j
    PROVE  Len(q) <= NumBlocks
<1>1. IsFiniteSet(Blocks) /\ Cardinality(Blocks) = NumBlocks
  BY QueueAssumption, FS_Interval DEF Blocks
<1>2. Len(q) \in Nat /\ q \in [1..Len(q) -> Blocks]
  BY LenProperties
<1>3. Cardinality(1..Len(q)) = Len(q)
  BY <1>2, FS_Interval
<1>4. q \in Injection(1..Len(q), Blocks)
  BY <1>2 DEF Injection, IsInjective
<1>5. Cardinality(1..Len(q)) <= Cardinality(Blocks)
  BY <1>1, <1>4, FS_Injection
<1> QED BY <1>1, <1>3, <1>5

(* A function on 1..n into the blocks is a sequence of length n.           *)
LEMMA FcnIsSeq ==
    ASSUME NEW n \in Nat, NEW r \in [1..n -> Blocks]
    PROVE  r \in Seq(Blocks) /\ Len(r) = n
  OBVIOUS

(* The links point at nodes of the list, and no node plays two roles.      *)
LEMMA NodeFacts ==
    /\ FakeHead \in Nodes /\ FakeTail \in Nodes /\ FakeHead # FakeTail
    /\ None \notin Nodes
    /\ \A b \in Blocks : b \in Nodes /\ b # FakeHead /\ b # FakeTail /\ b # None
  BY QueueAssumption DEF Nodes

(* The links after the first k blocks of q have been unlinked: what both    *)
(* popleft (k = 1) and popleft_n (k = n) leave behind.                     *)
TakenFromFront(q, k) ==
    LET popped == {q[i] : i \in 1..k}
        curr == NextIn(q, k)
    IN /\ next_free_block' = [x \in Nodes |->
             IF x \in popped THEN None
             ELSE IF x = FakeHead THEN curr ELSE next_free_block[x]]
       /\ prev_free_block' = [x \in Nodes |->
             IF x \in popped THEN None
             ELSE IF x = curr THEN FakeHead ELSE prev_free_block[x]]
       /\ num_free_blocks' = num_free_blocks - k
       /\ held' = held \cup popped

(* Unlinking the first k blocks leaves the list without them.              *)
LEMMA FrontStep ==
    ASSUME TypeOK, NEW q \in Seq(Blocks), Represents(q),
           NEW k \in 1..Len(q), TakenFromFront(q, k)
    PROVE  TypeOK' /\ \E r \in Seq(Blocks) : r = WithoutFirst(q, k) /\ Represents(r)'
<1> USE NodeFacts
<1> DEFINE popped == {q[i] : i \in 1..k}
           curr == NextIn(q, k)
           n == Len(q)
           r == [i \in 1..(n - k) |-> q[i + k]]
<1>1. n \in Nat /\ k \in Nat /\ k <= n /\ \A i \in 1..n : q[i] \in Blocks
  OBVIOUS
<1>2. popped \subseteq Blocks
  BY <1>1
<1>3. curr \in Nodes /\ curr # FakeHead /\ curr \notin popped
  BY <1>1 DEF Represents, NextIn
<1>4. TypeOK'
  BY <1>1, <1>2, <1>3 DEF TypeOK, TakenFromFront, Represents
<1>5. r \in Seq(Blocks) /\ Len(r) = n - k
  BY <1>1, FcnIsSeq
<1>6. \A i \in 1..(n - k) : r[i] = q[i + k] /\ i + k \in 1..n
  BY <1>1
<1>r. r = WithoutFirst(q, k)
  BY DEF WithoutFirst
<1> HIDE DEF r
<1>7. ASSUME NEW i \in 1..Len(r), NEW j \in 1..Len(r), r[i] = r[j]
      PROVE  i = j
  <2>1. /\ i \in 1..(n - k) /\ j \in 1..(n - k)
        /\ i + k \in 1..n /\ j + k \in 1..n /\ q[i + k] = q[j + k]
    BY <1>5, <1>6, <1>7
  <2>2. i + k = j + k
    BY <2>1 DEF Represents
  <2> QED BY <2>1, <2>2, <1>1
<1>8. \A i \in 1..Len(r) : r[i] \in Blocks \ held'
  <2> TAKE i \in 1..Len(r)
  <2>1. r[i] = q[i + k] /\ i + k \in 1..n
    BY <1>5, <1>6
  <2>2. \A j \in 1..k : q[i + k] # q[j]
    BY <2>1, <1>1 DEF Represents
  <2>3. q[i + k] \in Blocks \ held
    BY <2>1, <1>1 DEF Represents
  <2> QED BY <2>1, <2>2, <2>3 DEF TakenFromFront
<1>9. {r[i] : i \in 1..Len(r)} = Blocks \ held'
  <2>1. ASSUME NEW b \in Blocks \ held'
        PROVE  b \in {r[i] : i \in 1..Len(r)}
    <3>1. PICK i \in 1..n : b = q[i]
      BY <1>1 DEF Represents, TakenFromFront
    <3>2. i \notin 1..k
      BY <3>1 DEF TakenFromFront
    <3>3. i - k \in 1..Len(r) /\ r[i - k] = b
      BY <3>1, <3>2, <1>1, <1>5, <1>6
    <3> QED BY <3>3
  <2> QED BY <2>1, <1>8
<1>10. num_free_blocks' = Len(r)
  BY <1>5 DEF TakenFromFront, Represents
<1>11. ASSUME NEW i \in 1..Len(r)
       PROVE  prev_free_block'[r[i]] = PrevIn(r, i) /\ next_free_block'[r[i]] = NextIn(r, i)
  <2>1. i + k \in 1..n /\ r[i] = q[i + k] /\ r[i] \notin popped /\ r[i] \in Blocks
    BY <1>1, <1>5, <1>6 DEF Represents
  <2>2. next_free_block'[r[i]] = next_free_block[r[i]]
    BY <2>1 DEF TakenFromFront
  <2>3. next_free_block[r[i]] = NextIn(r, i)
    BY <2>1, <1>1, <1>5, <1>6 DEF Represents, NextIn
  <2>4. CASE i = 1
    <3>1. r[i] = curr
      BY <2>1, <2>4, <1>1 DEF NextIn
    <3> QED BY <3>1, <2>1, <2>2, <2>3, <2>4 DEF TakenFromFront, PrevIn
  <2>5. CASE i # 1
    <3>1. r[i] # curr
      BY <2>1, <2>5, <1>1 DEF Represents, NextIn
    <3>2. prev_free_block'[r[i]] = prev_free_block[r[i]]
      BY <3>1, <2>1 DEF TakenFromFront
    <3>3. prev_free_block[r[i]] = q[i + k - 1]
      BY <2>1, <2>5, <1>1 DEF Represents, PrevIn
    <3>4. q[i + k - 1] = r[i - 1]
      BY <2>5, <1>5, <1>6, <1>1, SMTT(20)
    <3> QED BY <3>2, <3>3, <3>4, <2>2, <2>3, <2>5 DEF PrevIn
  <2> QED BY <2>4, <2>5
<1>12. next_free_block'[FakeHead] = IF Len(r) = 0 THEN FakeTail ELSE r[1]
  <2>1. next_free_block'[FakeHead] = curr
    BY <1>2 DEF TakenFromFront
  <2> QED BY <2>1, <1>1, <1>5, <1>6 DEF NextIn
<1>13. prev_free_block'[FakeTail] = IF Len(r) = 0 THEN FakeHead ELSE r[Len(r)]
  <2>1. CASE k = n
    BY <2>1, <1>2, <1>5 DEF TakenFromFront, NextIn
  <2>2. CASE k # n
    <3>1. curr # FakeTail
      BY <2>2, <1>1 DEF NextIn
    <3>2. prev_free_block'[FakeTail] = q[n]
      BY <3>1, <1>1, <1>2 DEF TakenFromFront, Represents
    <3> QED BY <3>2, <2>2, <1>1, <1>5, <1>6
  <2> QED BY <2>1, <2>2
<1>14. next_free_block'[FakeTail] = None /\ prev_free_block'[FakeHead] = None
  BY <1>2, <1>3 DEF TakenFromFront, Represents
<1>15. \A b \in held' : prev_free_block'[b] = None /\ next_free_block'[b] = None
  <2>1. curr \notin held
    BY <1>1 DEF Represents, NextIn, TypeOK
  <2>2. held \subseteq Blocks
    BY DEF TypeOK
  <2> QED BY <2>1, <2>2, <1>2 DEF TakenFromFront, Represents
<1>16. Represents(r)'
  BY <1>7, <1>9, <1>10, <1>11, <1>12, <1>13, <1>14, <1>15 DEF Represents
<1> QED BY <1>4, <1>5, <1>16, <1>r

(* popleft unlinks the first block of the list.                            *)
LEMMA PopleftStep ==
    ASSUME TypeOK, NEW q \in Seq(Blocks), Represents(q), popleft
    PROVE  TypeOK' /\ \E r \in Seq(Blocks) : r = WithoutFirst(q, 1) /\ Represents(r)'
<1> USE NodeFacts
<1>1. Len(q) > 0 /\ Len(q) \in Nat /\ q[1] \in Blocks
  BY DEF Represents, popleft
<1>2. next_free_block[FakeHead] = q[1] /\ next_free_block[q[1]] = NextIn(q, 1)
  BY <1>1 DEF Represents, popleft
<1>3. NextIn(q, 1) \in Nodes /\ NextIn(q, 1) # FakeHead /\ NextIn(q, 1) # q[1]
  BY <1>1 DEF Represents, NextIn
<1>4. {q[i] : i \in 1..1} = {q[1]}
  OBVIOUS
<1>5. TakenFromFront(q, 1)
  BY <1>1, <1>2, <1>3, <1>4 DEF TakenFromFront, popleft, TypeOK
<1> QED BY <1>1, <1>5, FrontStep

(* The walk of popleft_n stands on the i-th block of the list after i steps. *)
LEMMA WalkFollows ==
    ASSUME NEW q \in Seq(Blocks), Represents(q), NEW n \in 1..Len(q)
    PROVE  \A i \in 0..n : Walk(n)[i] = IF i = 0 THEN FakeHead ELSE q[i]
<1> USE NodeFacts
<1> DEFINE Def(w) == [i \in 0..n |-> IF i = 0 THEN FakeHead
                                     ELSE IF w[i - 1] = None THEN None
                                     ELSE next_free_block[w[i - 1]]]
           g == [i \in 0..n |-> IF i = 0 THEN FakeHead ELSE q[i]]
           v == CHOOSE w : w = Def(w)
<1>1. n \in Nat /\ Len(q) \in Nat /\ n <= Len(q) /\ \A i \in 1..Len(q) : q[i] \in Blocks
  OBVIOUS
<1>2. \A i \in 1..n : next_free_block[g[i - 1]] = g[i] /\ g[i - 1] # None
  BY <1>1 DEF Represents, NextIn
<1>3. g = Def(g)
  BY <1>1, <1>2
<1>4. v = Def(v)
  BY <1>3
<1>5. Walk(n) = v
  BY DEF Walk
<1> HIDE DEF v
<1>6. v[0] = FakeHead
  BY <1>1, <1>4
<1>7. \A i \in 1..n : v[i] = IF v[i - 1] = None THEN None ELSE next_free_block[v[i - 1]]
  BY <1>1, <1>4
<1>8. g[0] = FakeHead
  BY <1>1
<1>9. \A i \in 0..n : v[i] = g[i]
  <2> HIDE DEF g
  <2> DEFINE T == {i \in 0..n : v[i] # g[i]}
  <2> SUFFICES ASSUME T # {} PROVE FALSE
    OBVIOUS
  <2>1. PICK m \in T : \A k \in T : m <= k
    <3>1. T \in SUBSET Nat
      BY <1>1
    <3> HIDE DEF T
    <3> QED BY <3>1, LeastElement
  <2>2. m \in 1..n /\ m - 1 \in 0..n /\ m - 1 \notin T
    BY <2>1, <1>1, <1>6, <1>8
  <2>3. v[m - 1] = g[m - 1]
    BY <2>2
  <2>4. v[m] = g[m]
    BY <2>2, <2>3, <1>2, <1>7
  <2> QED BY <2>1, <2>4
<1> QED BY <1>1, <1>5, <1>9

(* popleft_n(n) unlinks the first n blocks of the list.                    *)
LEMMA PopleftNStep ==
    ASSUME TypeOK, NEW q \in Seq(Blocks), Represents(q),
           NEW n \in 1..NumBlocks, popleft_n(n)
    PROVE  TypeOK' /\ \E r \in Seq(Blocks) : r = WithoutFirst(q, n) /\ Represents(r)'
<1> USE NodeFacts
<1>1. n \in 1..Len(q) /\ n \in Nat /\ Len(q) \in Nat
  BY QueueAssumption DEF popleft_n, Represents
<1>2. \A i \in 0..n : Walk(n)[i] = IF i = 0 THEN FakeHead ELSE q[i]
  BY <1>1, WalkFollows
<1>3. Walk(n)[n] = q[n]
  BY <1>1, <1>2
<1>4. {Walk(n)[i] : i \in 1..n} = {q[i] : i \in 1..n}
  BY <1>1, <1>2
<1>5. next_free_block[q[n]] = NextIn(q, n)
  BY <1>1 DEF Represents
<1>6. /\ NextIn(q, n) \in Nodes /\ NextIn(q, n) # FakeHead /\ NextIn(q, n) # None
      /\ NextIn(q, n) \notin {q[i] : i \in 1..n}
      /\ FakeHead \notin {q[i] : i \in 1..n}
  BY <1>1 DEF Represents, NextIn
<1> DEFINE P == {q[i] : i \in 1..n}
           W == {Walk(n)[i] : i \in 1..n}
           curr == NextIn(q, n)
<1>7. /\ next_free_block' = [[x \in Nodes |-> IF x \in W THEN None ELSE next_free_block[x]]
                                EXCEPT ![FakeHead] = curr]
      /\ prev_free_block' = [[x \in Nodes |-> IF x \in W THEN None ELSE prev_free_block[x]]
                                EXCEPT ![curr] = FakeHead]
      /\ num_free_blocks' = num_free_blocks - n
      /\ held' = held \cup W
  BY <1>3, <1>5, <1>6, Zenon DEF popleft_n
<1>8. /\ W = P /\ curr \in Nodes /\ curr \notin P /\ FakeHead \notin P
  BY <1>4, <1>6
<1> HIDE DEF P, W, curr
<1>9. /\ next_free_block' = [x \in Nodes |-> IF x \in P THEN None
                                 ELSE IF x = FakeHead THEN curr ELSE next_free_block[x]]
      /\ prev_free_block' = [x \in Nodes |-> IF x \in P THEN None
                                 ELSE IF x = curr THEN FakeHead ELSE prev_free_block[x]]
  BY <1>7, <1>8
<1>10. TakenFromFront(q, n)
  BY <1>7, <1>8, <1>9 DEF TakenFromFront, P, curr
<1> QED BY <1>1, <1>10, FrontStep

(* remove(b) takes b out of the list, wherever it stands.                  *)
LEMMA RemoveStep ==
    ASSUME TypeOK, NEW q \in Seq(Blocks), Represents(q),
           NEW b \in Blocks, remove(b)
    PROVE  TypeOK' /\ \E k \in 1..Len(q), r \in Seq(Blocks) :
                        q[k] = b /\ r = WithoutNth(q, k) /\ Represents(r)'
<1> USE NodeFacts
<1> DEFINE n == Len(q)
<1>1. n \in Nat /\ \A i \in 1..n : q[i] \in Blocks
  OBVIOUS
<1>2. PICK k \in 1..n : q[k] = b
  BY DEF remove, Represents
<1> DEFINE p == PrevIn(q, k)
           x == NextIn(q, k)
           r == [i \in 1..(n - 1) |-> IF i < k THEN q[i] ELSE q[i + 1]]
<1>3. prev_free_block[b] = p /\ next_free_block[b] = x
  BY <1>2 DEF Represents
<1>4. /\ p \in Nodes /\ p # FakeTail /\ p # b
      /\ x \in Nodes /\ x # FakeHead /\ x # b
  BY <1>1, <1>2 DEF Represents, PrevIn, NextIn
<1>5. /\ next_free_block' = [next_free_block EXCEPT ![p] = x, ![b] = None]
      /\ prev_free_block' = [prev_free_block EXCEPT ![x] = p, ![b] = None]
      /\ num_free_blocks' = num_free_blocks - 1
      /\ held' = held \cup {b}
  BY <1>3 DEF remove
<1>6. TypeOK'
  BY <1>1, <1>2, <1>4, <1>5 DEF TypeOK, Represents
<1>7. r \in Seq(Blocks) /\ Len(r) = n - 1
  BY <1>1, <1>2, FcnIsSeq
<1>8. \A i \in 1..(n - 1) : /\ i < k => r[i] = q[i]
                            /\ i >= k => r[i] = q[i + 1]
                            /\ i \in 1..n /\ i + 1 \in 1..n
  BY <1>1, <1>2
<1>9. \A i, j \in 1..n : q[i] = q[j] => i = j
  BY DEF Represents
<1>r. r = WithoutNth(q, k)
  BY DEF WithoutNth
<1> HIDE DEF r
<1>10. ASSUME NEW i \in 1..Len(r), NEW j \in 1..Len(r), r[i] = r[j]
       PROVE  i = j
  BY <1>1, <1>2, <1>7, <1>8, <1>9, <1>10
<1>11. \A i \in 1..Len(r) : r[i] \in Blocks /\ r[i] \notin held /\ r[i] # b
  BY <1>1, <1>2, <1>7, <1>8, <1>9, SMTT(20) DEF Represents
<1>12. {r[i] : i \in 1..Len(r)} = Blocks \ held'
  <2>1. ASSUME NEW c \in Blocks \ held'
        PROVE  c \in {r[i] : i \in 1..Len(r)}
    <3>1. PICK i \in 1..n : c = q[i]
      BY <1>5 DEF Represents
    <3>2. i # k
      BY <3>1, <1>2, <1>5
    <3>3. CASE i < k
      <4>1. i \in 1..Len(r) /\ r[i] = c
        BY <3>1, <3>3, <1>1, <1>2, <1>7, <1>8
      <4> QED BY <4>1
    <3>4. CASE i > k
      <4>1. i - 1 \in 1..Len(r) /\ r[i - 1] = c
        BY <3>1, <3>4, <1>1, <1>2, <1>7, <1>8
      <4> QED BY <4>1
    <3> QED BY <3>1, <3>2, <3>3, <3>4, <1>1, <1>2
  <2> QED BY <2>1, <1>5, <1>11
<1>13. num_free_blocks' = Len(r)
  BY <1>5, <1>7 DEF Represents
<1>14. ASSUME NEW i \in 1..Len(r)
       PROVE  /\ prev_free_block'[r[i]] = PrevIn(r, i)
              /\ next_free_block'[r[i]] = NextIn(r, i)
  <2> USE <1>1, <1>2, <1>7, <1>8
  <2> DEFINE j == IF i < k THEN i ELSE i + 1
  <2>1. j \in 1..n /\ r[i] = q[j] /\ j # k /\ r[i] \in Blocks /\ r[i] # b
    BY <1>9
  <2>2. prev_free_block[r[i]] = PrevIn(q, j) /\ next_free_block[r[i]] = NextIn(q, j)
    BY <2>1 DEF Represents
  <2>3. r[i] = p <=> j = k - 1
    BY <2>1, <1>9 DEF PrevIn
  <2>4. r[i] = x <=> j = k + 1
    <3>1. CASE k = n
      BY <3>1, <2>1 DEF NextIn
    <3>2. CASE k # n
      <4>1. x = q[k + 1] /\ k + 1 \in 1..n
        BY <3>2 DEF NextIn
      <4> QED BY <4>1, <2>1, <1>9
    <3> QED BY <3>1, <3>2
  <2>5. prev_free_block'[r[i]] = IF j = k + 1 THEN p ELSE PrevIn(q, j)
    BY <2>1, <2>2, <2>4, <1>4, <1>5 DEF TypeOK
  <2>6. next_free_block'[r[i]] = IF j = k - 1 THEN x ELSE NextIn(q, j)
    BY <2>1, <2>2, <2>3, <1>4, <1>5 DEF TypeOK
  <2>7. PrevIn(r, i) = IF j = k + 1 THEN p ELSE PrevIn(q, j)
    <3>1. CASE i = 1
      BY <3>1 DEF PrevIn
    <3>2. CASE i # 1
      <4>1. i - 1 \in 1..(n - 1)
        BY <3>2
      <4>2. r[i - 1] = IF i - 1 < k THEN q[i - 1] ELSE q[i]
        BY <4>1
      <4> QED BY <3>2, <4>2 DEF PrevIn
    <3> QED BY <3>1, <3>2
  <2>8. NextIn(r, i) = IF j = k - 1 THEN x ELSE NextIn(q, j)
    <3>1. CASE i = n - 1
      BY <3>1 DEF NextIn
    <3>2. CASE i # n - 1
      <4>1. i + 1 \in 1..(n - 1)
        BY <3>2
      <4>2. r[i + 1] = IF i + 1 < k THEN q[i + 1] ELSE q[(i + 1) + 1]
        BY <4>1
      <4> QED BY <3>2, <4>2 DEF NextIn
    <3> QED BY <3>1, <3>2
  <2> QED BY <2>5, <2>6, <2>7, <2>8
<1>15. next_free_block'[FakeHead] = IF Len(r) = 0 THEN FakeTail ELSE r[1]
  BY <1>1, <1>2, <1>4, <1>5, <1>7, <1>8, SMTT(20) DEF Represents, PrevIn, NextIn, TypeOK
<1>16. prev_free_block'[FakeTail] = IF Len(r) = 0 THEN FakeHead ELSE r[Len(r)]
  <2>1. CASE k = n
    <3>1. x = FakeTail
      BY <2>1 DEF NextIn
    <3>2. prev_free_block'[FakeTail] = p
      BY <3>1, <1>4, <1>5 DEF TypeOK
    <3>3. n > 1 => r[n - 1] = q[n - 1]
      BY <2>1, <1>1, <1>8
    <3> QED BY <3>2, <3>3, <2>1, <1>1, <1>2, <1>7 DEF PrevIn
  <2>2. CASE k # n
    <3>1. x # FakeTail
      BY <2>2, <1>1, <1>2 DEF NextIn
    <3>2. prev_free_block'[FakeTail] = q[n]
      BY <3>1, <1>1, <1>2, <1>4, <1>5 DEF TypeOK, Represents
    <3>3. n - 1 \in 1..(n - 1) /\ r[n - 1] = q[n]
      BY <2>2, <1>1, <1>2, <1>8
    <3> QED BY <3>2, <3>3, <1>7
  <2> QED BY <2>1, <2>2
<1>17. next_free_block'[FakeTail] = None /\ prev_free_block'[FakeHead] = None
  BY <1>4, <1>5 DEF Represents, TypeOK
<1>18. \A c \in held' : prev_free_block'[c] = None /\ next_free_block'[c] = None
  <2>1. p \notin held /\ x \notin held
    BY <1>1, <1>2 DEF Represents, PrevIn, NextIn, TypeOK
  <2> QED BY <2>1, <1>4, <1>5 DEF Represents, TypeOK
<1>19. Represents(r)'
  BY <1>10, <1>12, <1>13, <1>14, <1>15, <1>16, <1>17, <1>18 DEF Represents
<1> QED BY <1>2, <1>6, <1>7, <1>19, <1>r

(* append_n(bs) puts the blocks bs, in order, at the end of the list.      *)
LEMMA AppendNStep ==
    ASSUME TypeOK, NEW q \in Seq(Blocks), Represents(q),
           NEW m \in Nat, NEW bs \in [1..m -> held],
           \A i, j \in 1..m : bs[i] = bs[j] => i = j,
           append_n(bs)
    PROVE  TypeOK' /\ \E r \in Seq(Blocks) : r = WithAtEnd(q, bs, m) /\ Represents(r)'
<1> USE NodeFacts
<1> DEFINE n == Len(q)
           last == prev_free_block[FakeTail]
           added == {bs[i] : i \in 1..m}
           r == [i \in 1..(n + m) |-> IF i <= n THEN q[i] ELSE bs[i - n]]
<1>1. n \in Nat /\ \A i \in 1..n : q[i] \in Blocks /\ q[i] \notin held
  BY DEF Represents
<1>2. held \subseteq Blocks /\ \A i \in 1..m : bs[i] \in held /\ bs[i] \in Blocks
  BY DEF TypeOK
<1>3. Len(bs) = m
  OBVIOUS
<1>4. m > 0 /\ added \subseteq held
  BY <1>3 DEF append_n
<1>5. \A i \in 1..m : IndexIn(bs, bs[i]) = i
  BY <1>3 DEF IndexIn
<1>6. /\ last = IF n = 0 THEN FakeHead ELSE q[n]
      /\ last \in Nodes /\ last # FakeTail /\ last \notin held
  BY <1>1, <1>2 DEF Represents
<1>7. /\ next_free_block' = [x \in Nodes |->
             IF x \in added THEN NextIn(bs, IndexIn(bs, x))
             ELSE IF x = last THEN bs[1] ELSE next_free_block[x]]
      /\ prev_free_block' = [x \in Nodes |->
             IF x = bs[1] THEN last
             ELSE IF x \in added THEN bs[IndexIn(bs, x) - 1]
             ELSE IF x = FakeTail THEN bs[m] ELSE prev_free_block[x]]
      /\ num_free_blocks' = num_free_blocks + m
      /\ held' = held \ added
  BY <1>3 DEF append_n
<1>8. /\ \A i \in 1..m : /\ next_free_block'[bs[i]] = NextIn(bs, i)
                         /\ prev_free_block'[bs[i]] = IF i = 1 THEN last ELSE bs[i - 1]
      /\ next_free_block'[last] = bs[1]
      /\ prev_free_block'[FakeTail] = bs[m]
      /\ \A x \in Nodes \ added : x # last => next_free_block'[x] = next_free_block[x]
      /\ \A x \in Nodes \ added : x # FakeTail => prev_free_block'[x] = prev_free_block[x]
  <2>1. ASSUME NEW i \in 1..m
        PROVE  /\ next_free_block'[bs[i]] = NextIn(bs, i)
               /\ prev_free_block'[bs[i]] = IF i = 1 THEN last ELSE bs[i - 1]
    <3>1. /\ bs[i] \in added /\ bs[i] \in Nodes /\ IndexIn(bs, bs[i]) = i
          /\ bs[i] = bs[1] <=> i = 1
      BY <1>2, <1>4, <1>5
    <3> HIDE DEF added, last
    <3> QED BY <3>1, <1>7
  <2>2. last \notin added /\ FakeTail \notin added
    BY <1>4, <1>6, <1>2
  <2>3. bs[1] \in added
    BY <1>4
  <2> HIDE DEF added, last
  <2>4. next_free_block'[last] = bs[1] /\ prev_free_block'[FakeTail] = bs[m]
    BY <2>2, <2>3, <1>6, <1>7
  <2>5. \A x \in Nodes \ added : x # last => next_free_block'[x] = next_free_block[x]
    BY <1>7
  <2>6. \A x \in Nodes \ added : x # FakeTail => prev_free_block'[x] = prev_free_block[x]
    BY <2>3, <1>7
  <2> QED BY <2>1, <2>4, <2>5, <2>6
<1>9. TypeOK'
  <2>1. \A x \in Nodes : next_free_block'[x] \in Nodes \cup {None}
    <3> TAKE x \in Nodes
    <3>1. CASE x \in added
      BY <3>1, <1>2, <1>3, <1>8 DEF NextIn
    <3>2. CASE x \notin added
      BY <3>2, <1>2, <1>4, <1>8 DEF TypeOK
    <3> QED BY <3>1, <3>2
  <2>2. \A x \in Nodes : prev_free_block'[x] \in Nodes \cup {None}
    <3> TAKE x \in Nodes
    <3>1. CASE x \in added
      BY <3>1, <1>2, <1>6, <1>8
    <3>2. CASE x \notin added
      BY <3>2, <1>2, <1>4, <1>8 DEF TypeOK
    <3> QED BY <3>1, <3>2
  <2>3. num_free_blocks' \in Nat /\ held' \subseteq Blocks
    BY <1>2, <1>7 DEF TypeOK
  <2> HIDE DEF added, last
  <2>4. /\ next_free_block' \in [Nodes -> Nodes \cup {None}]
        /\ prev_free_block' \in [Nodes -> Nodes \cup {None}]
    BY <2>1, <2>2, <1>7
  <2> QED BY <2>3, <2>4 DEF TypeOK
<1>10. r \in Seq(Blocks) /\ Len(r) = n + m
  <2>1. r \in [1..(n + m) -> Blocks]
    BY <1>1, <1>2
  <2>2. n + m \in Nat
    BY <1>1
  <2> HIDE DEF r
  <2> QED BY <2>1, <2>2, FcnIsSeq
<1>11. /\ \A i \in 1..n : i \in 1..(n + m) /\ r[i] = q[i]
       /\ \A i \in 1..m : i + n \in 1..(n + m) /\ r[i + n] = bs[i]
       /\ \A i \in 1..(n + m) : i \in 1..n \/ i - n \in 1..m
  BY <1>1
<1>r. r = WithAtEnd(q, bs, m)
  BY DEF WithAtEnd
<1> HIDE DEF r
<1>12. ASSUME NEW i \in 1..Len(r), NEW j \in 1..Len(r), r[i] = r[j]
       PROVE  i = j
  <2>1. (i \in 1..n /\ r[i] = q[i]) \/ (i - n \in 1..m /\ r[i] = bs[i - n])
    BY <1>1, <1>10, <1>11
  <2>2. (j \in 1..n /\ r[j] = q[j]) \/ (j - n \in 1..m /\ r[j] = bs[j - n])
    BY <1>1, <1>10, <1>11
  <2>3. \A a, c \in 1..n : q[a] = q[c] => a = c
    BY DEF Represents
  <2> QED BY <2>1, <2>2, <2>3, <1>1, <1>2, <1>12, SMTT(20)
<1>13. {r[i] : i \in 1..Len(r)} = Blocks \ held'
  <2>1. ASSUME NEW c \in Blocks \ held'
        PROVE  c \in {r[i] : i \in 1..Len(r)}
    <3>1. CASE c \in added
      BY <3>1, <1>10, <1>11
    <3>2. CASE c \notin added
      <4>1. PICK i \in 1..n : c = q[i]
        BY <3>2, <1>7 DEF Represents
      <4> QED BY <4>1, <1>10, <1>11
    <3> QED BY <3>1, <3>2
  <2>2. ASSUME NEW i \in 1..Len(r)
        PROVE  r[i] \in Blocks \ held'
    <3>1. (i \in 1..n /\ r[i] = q[i]) \/ (i - n \in 1..m /\ r[i] = bs[i - n])
      BY <1>1, <1>10, <1>11
    <3> QED BY <3>1, <1>1, <1>2, <1>7
  <2> QED BY <2>1, <2>2
<1>14. num_free_blocks' = Len(r)
  BY <1>7, <1>10 DEF Represents
<1>15. ASSUME NEW i \in 1..Len(r)
       PROVE  /\ prev_free_block'[r[i]] = PrevIn(r, i)
              /\ next_free_block'[r[i]] = NextIn(r, i)
  <2>1. CASE i \in 1..n
    <3>1. /\ r[i] = q[i] /\ r[i] \in Nodes \ added /\ r[i] # FakeTail /\ r[i] # FakeHead
          /\ prev_free_block[r[i]] = PrevIn(q, i) /\ next_free_block[r[i]] = NextIn(q, i)
      BY <2>1, <1>1, <1>4, <1>11 DEF Represents
    <3>2. PrevIn(q, i) = PrevIn(r, i)
      BY <2>1, <1>1, <1>11 DEF PrevIn
    <3>3. CASE i = n
      <4>1. r[i] = last /\ NextIn(r, i) = bs[1]
        BY <3>1, <3>3, <2>1, <1>1, <1>4, <1>6, <1>10, <1>11 DEF NextIn
      <4> HIDE DEF last, added
      <4> QED BY <4>1, <3>1, <3>2, <1>8
    <3>4. CASE i # n
      <4>1. r[i] # last /\ NextIn(r, i) = NextIn(q, i)
        BY <3>1, <3>4, <2>1, <1>1, <1>4, <1>6, <1>10, <1>11 DEF NextIn, Represents
      <4> HIDE DEF last, added
      <4> QED BY <4>1, <3>1, <3>2, <1>8
    <3> QED BY <3>3, <3>4
  <2>2. CASE i - n \in 1..m
    <3>1. r[i] = bs[i - n]
      BY <2>2, <1>1, <1>10, <1>11
    <3>2. NextIn(bs, i - n) = NextIn(r, i)
      BY <2>2, <1>1, <1>3, <1>10, <1>11 DEF NextIn
    <3>3. PrevIn(r, i) = IF i - n = 1 THEN last ELSE bs[i - n - 1]
      <4>1. CASE i - n = 1
        BY <4>1, <1>1, <1>6, <1>10, <1>11 DEF PrevIn
      <4>2. CASE i - n # 1
        <5>1. i - n - 1 \in 1..m /\ i # 1
          BY <4>2, <2>2, <1>1
        <5>2. r[(i - n - 1) + n] = bs[i - n - 1]
          BY <5>1, <1>11
        <5> QED BY <4>2, <5>1, <5>2, <1>1 DEF PrevIn
      <4> QED BY <4>1, <4>2
    <3> HIDE DEF last, added
    <3> QED BY <3>1, <3>2, <3>3, <2>2, <1>8
  <2> QED BY <2>1, <2>2, <1>10, <1>11
<1>16. next_free_block'[FakeHead] = IF Len(r) = 0 THEN FakeTail ELSE r[1]
  <2>1. FakeHead \in Nodes \ added
    BY <1>2, <1>4
  <2>2. CASE n = 0
    <3>1. last = FakeHead /\ r[1] = bs[1] /\ Len(r) # 0
      BY <2>2, <1>4, <1>6, <1>10, <1>11
    <3> QED BY <3>1, <1>8
  <2>3. CASE n # 0
    <3>1. 1 \in 1..n /\ n \in 1..n
      BY <2>3, <1>1
    <3>2. last # FakeHead /\ r[1] = q[1]
      BY <3>1, <2>3, <1>1, <1>6, <1>11
    <3>3. Len(r) # 0 /\ next_free_block[FakeHead] = q[1]
      BY <2>3, <1>1, <1>10 DEF Represents
    <3> QED BY <3>2, <3>3, <2>1, <1>8
  <2> QED BY <2>2, <2>3
<1>17. prev_free_block'[FakeTail] = IF Len(r) = 0 THEN FakeHead ELSE r[Len(r)]
  <2>1. m \in 1..m /\ r[m + n] = bs[m] /\ Len(r) = m + n /\ Len(r) # 0
    BY <1>1, <1>4, <1>10, <1>11
  <2> QED BY <2>1, <1>8
<1>18. next_free_block'[FakeTail] = None /\ prev_free_block'[FakeHead] = None
  <2>1. FakeHead \notin added /\ FakeTail \notin added
    BY <1>2, <1>4
  <2> QED BY <2>1, <1>6, <1>8 DEF Represents
<1>19. \A c \in held' : prev_free_block'[c] = None /\ next_free_block'[c] = None
  <2>1. \A c \in held' : c \in Nodes \ added /\ c \in held /\ c # last /\ c # FakeTail
    BY <1>2, <1>6, <1>7
  <2> QED BY <2>1, <1>8 DEF Represents
<1>20. Represents(r)'
  BY <1>12, <1>13, <1>14, <1>15, <1>16, <1>17, <1>18, <1>19 DEF Represents
<1> QED BY <1>9, <1>10, <1>20, <1>r

(* append(b) is append_n of the list of one block.                         *)
LEMMA AppendStep ==
    ASSUME TypeOK, NEW q \in Seq(Blocks), Represents(q),
           NEW b \in Blocks, append(b)
    PROVE  TypeOK' /\ \E r \in Seq(Blocks) : r = WithAtEnd(q, <<b>>, 1) /\ Represents(r)'
<1> USE NodeFacts
<1> DEFINE bs == [i \in 1..1 |-> b]
           last == prev_free_block[FakeTail]
<1>1. /\ b \in held /\ last \in Nodes /\ last # b /\ last # FakeTail
      /\ bs \in [1..1 -> held] /\ Len(bs) = 1 /\ bs[1] = b
      /\ {bs[i] : i \in 1..1} = {b}
  BY DEF append, TypeOK, Represents
<1> HIDE DEF bs, last
<1>2. IndexIn(bs, b) = 1 /\ NextIn(bs, 1) = FakeTail
  BY <1>1 DEF NextIn, IndexIn
<1>3. /\ next_free_block' = [x \in Nodes |->
             IF x \in {b} THEN NextIn(bs, IndexIn(bs, x))
             ELSE IF x = last THEN bs[1] ELSE next_free_block[x]]
      /\ prev_free_block' = [x \in Nodes |->
             IF x = bs[1] THEN last
             ELSE IF x \in {b} THEN bs[IndexIn(bs, x) - 1]
             ELSE IF x = FakeTail THEN bs[1] ELSE prev_free_block[x]]
  BY <1>1, <1>2 DEF append, TypeOK, last
<1>4. append_n(bs)
  <2>1. /\ {bs[i] : i \in 1..Len(bs)} = {b} /\ {b} \subseteq held /\ Len(bs) > 0
        /\ last # None /\ bs[Len(bs)] = bs[1]
    BY <1>1
  <2>2. num_free_blocks' = num_free_blocks + Len(bs) /\ held' = held \ {b}
    BY <1>1 DEF append
  <2> QED BY <2>1, <2>2, <1>3, Zenon DEF append_n, last
<1>5. \A i, j \in 1..1 : bs[i] = bs[j] => i = j
  OBVIOUS
<1>6. PICK r \in Seq(Blocks) : TypeOK' /\ r = WithAtEnd(q, bs, 1) /\ Represents(r)'
  BY <1>1, <1>4, <1>5, AppendNStep
<1>7. WithAtEnd(q, bs, 1) = WithAtEnd(q, <<b>>, 1)
  <2>1. bs = <<b>>
    BY DEF bs
  <2> QED BY <2>1
<1> QED BY <1>6, <1>7

(* __init__ links the blocks in the order of their ids.                    *)
LEMMA InitRepresents ==
    Init => LET q == [i \in 1..NumBlocks |-> i - 1]
            IN TypeOK /\ q \in Seq(Blocks) /\ Represents(q)
<1> USE NodeFacts, QueueAssumption
<1> DEFINE q == [i \in 1..NumBlocks |-> i - 1]
<1> SUFFICES ASSUME Init PROVE TypeOK /\ q \in Seq(Blocks) /\ Represents(q)
  OBVIOUS
<1>1. q \in Seq(Blocks) /\ Len(q) = NumBlocks
  <2>1. q \in [1..NumBlocks -> Blocks]
    BY DEF Blocks
  <2> HIDE DEF q
  <2> QED BY <2>1, FcnIsSeq
<1>2. TypeOK
  BY DEF Init, TypeOK, Nodes, Blocks
<1>3. {q[i] : i \in 1..NumBlocks} = Blocks
  <2>1. \A b \in Blocks : b + 1 \in 1..NumBlocks /\ q[b + 1] = b
    BY DEF Blocks
  <2>2. \A i \in 1..NumBlocks : q[i] \in Blocks
    BY DEF Blocks
  <2> QED BY <2>1, <2>2
<1>4. \A i \in 1..NumBlocks : /\ prev_free_block[q[i]] = PrevIn(q, i)
                              /\ next_free_block[q[i]] = NextIn(q, i)
  BY <1>1, SMTT(20) DEF Init, PrevIn, NextIn, Blocks
<1>5. \A i, j \in 1..NumBlocks : q[i] = q[j] => i = j
  OBVIOUS
<1>6. /\ next_free_block[FakeHead] = IF NumBlocks = 0 THEN FakeTail ELSE q[1]
      /\ prev_free_block[FakeTail] = IF NumBlocks = 0 THEN FakeHead ELSE q[NumBlocks]
      /\ next_free_block[FakeTail] = None /\ prev_free_block[FakeHead] = None
      /\ held = {} /\ num_free_blocks = NumBlocks
  BY DEF Init
<1> HIDE DEF q
<1>7. Represents(q)
  BY <1>1, <1>3, <1>4, <1>5, <1>6 DEF Represents
<1> QED BY <1>1, <1>2, <1>7

(* The invariant holds initially.                                          *)
LEMMA InitIInv == Init => IInv
  BY InitRepresents DEF IInv

(* Every operation keeps the invariant: it turns the list the links spell  *)
(* out into another one.                                                   *)
LEMMA StepIInv == IInv /\ [Next]_vars => IInv'
<1> SUFFICES ASSUME IInv, [Next]_vars PROVE IInv'
  OBVIOUS
<1>1. PICK q \in Seq(Blocks) : Represents(q)
  BY DEF IInv
<1>2. TypeOK
  BY DEF IInv
<1>3. CASE popleft
  BY <1>1, <1>2, <1>3, PopleftStep DEF IInv
<1>4. ASSUME NEW n \in 1..NumBlocks, popleft_n(n) PROVE IInv'
  BY <1>1, <1>2, <1>4, PopleftNStep DEF IInv
<1>5. ASSUME NEW b \in Blocks, remove(b) PROVE IInv'
  BY <1>1, <1>2, <1>5, RemoveStep DEF IInv
<1>6. ASSUME NEW b \in Blocks, append(b) PROVE IInv'
  BY <1>1, <1>2, <1>6, AppendStep DEF IInv
<1>7. ASSUME NEW S \in SUBSET held, NEW bs \in ListsOf(S), append_n(bs) PROVE IInv'
  <2>1. Cardinality(S) \in Nat
    <3>1. IsFiniteSet(Blocks)
      BY QueueAssumption, FS_Interval DEF Blocks
    <3>2. S \subseteq Blocks
      BY <1>2 DEF TypeOK
    <3> QED BY <3>1, <3>2, FS_Subset, FS_CardinalityType
  <2>2. /\ bs \in [1..Cardinality(S) -> held]
        /\ \A i, j \in 1..Cardinality(S) : bs[i] = bs[j] => i = j
    BY DEF ListsOf
  <2> QED BY <1>1, <1>2, <1>7, <2>1, <2>2, AppendNStep DEF IInv
<1>8. CASE UNCHANGED vars
  <2>1. TypeOK'
    BY <1>2, <1>8 DEF TypeOK, vars
  <2>2. Represents(q)'
    BY <1>1, <1>8 DEF Represents, vars
  <2> QED BY <1>1, <2>1, <2>2 DEF IInv
<1> QED BY <1>3, <1>4, <1>5, <1>6, <1>7, <1>8 DEF Next

(* For every number of blocks, FreeKVCacheBlockQueue keeps its links typed. *)
THEOREM QueueTypeOK == Spec => []TypeOK
<1>1. IInv => TypeOK
  BY DEF IInv
<1> QED BY <1>1, InitIInv, StepIInv, PTL DEF Spec

(* For every number of blocks and every sequence of popleft, popleft_n,    *)
(* remove, append and append_n, the links of FreeKVCacheBlockQueue spell    *)
(* out one list of exactly the blocks not handed out, in both directions,  *)
(* and num_free_blocks is its length.                                      *)
THEOREM QueueWellLinked == Spec => []WellLinked
<1>1. IInv => WellLinked
  <2> SUFFICES ASSUME IInv PROVE WellLinked
    OBVIOUS
  <2>1. PICK q \in Seq(Blocks) : Represents(q)
    BY DEF IInv
  <2>2. Len(q) <= NumBlocks
    BY <2>1, DistinctBound DEF Represents
  <2>3. Len(q) \in 0..NumBlocks /\ q \in [1..Len(q) -> Blocks]
    BY <2>2, QueueAssumption
  <2> QED BY <2>1, <2>3 DEF WellLinked
<1> QED BY <1>1, InitIInv, StepIInv, PTL DEF Spec

-----------------------------------------------------------------------------
(* The list as a queue. *)

(* Following the links from the head visits the blocks of the list, then the *)
(* fake tail, then nothing.                                                *)
LEMMA WalkEnds ==
    ASSUME NEW q \in Seq(Blocks), Represents(q), NEW N \in Nat, Len(q) + 1 < N
    PROVE  /\ \A i \in 1..Len(q) : Walk(N)[i] = q[i]
           /\ Walk(N)[Len(q) + 1] = FakeTail
<1> USE NodeFacts
<1> DEFINE n == Len(q)
           Def(w) == [i \in 0..N |-> IF i = 0 THEN FakeHead
                                     ELSE IF w[i - 1] = None THEN None
                                     ELSE next_free_block[w[i - 1]]]
           g == [i \in 0..N |-> IF i = 0 THEN FakeHead
                                ELSE IF i <= n THEN q[i]
                                ELSE IF i = n + 1 THEN FakeTail ELSE None]
           v == CHOOSE w : w = Def(w)
<1>1. n \in Nat /\ n + 1 < N /\ \A i \in 1..n : q[i] \in Blocks
  OBVIOUS
<1>2. \A i \in 1..N : g[i] = IF g[i - 1] = None THEN None ELSE next_free_block[g[i - 1]]
  <2> SUFFICES ASSUME NEW i \in 1..N
               PROVE  g[i] = IF g[i - 1] = None THEN None ELSE next_free_block[g[i - 1]]
    OBVIOUS
  <2>1. CASE i = 1
    <3>1. g[i - 1] = FakeHead /\ g[i] = IF n = 0 THEN FakeTail ELSE q[1]
      BY <2>1, <1>1
    <3> QED BY <3>1 DEF Represents
  <2>2. CASE i \in 2..(n + 1)
    <3>1. i - 1 \in 1..n /\ g[i - 1] = q[i - 1] /\ q[i - 1] \in Blocks
      BY <2>2, <1>1
    <3>2. g[i] = NextIn(q, i - 1)
      BY <2>2, <1>1 DEF NextIn
    <3> QED BY <3>1, <3>2 DEF Represents
  <2>3. CASE i = n + 2
    <3>1. g[i - 1] = FakeTail /\ g[i] = None
      BY <2>3, <1>1
    <3> QED BY <3>1 DEF Represents
  <2>4. CASE i > n + 2
    <3>1. g[i - 1] = None /\ g[i] = None
      BY <2>4, <1>1
    <3> QED BY <3>1
  <2> QED BY <2>1, <2>2, <2>3, <2>4, <1>1
<1>3. g[0] = FakeHead
  BY <1>1
<1>4. g = Def(g)
  BY <1>1, <1>2, <1>3
<1>5. v = Def(v)
  BY <1>4
<1>6. Walk(N) = v
  BY DEF Walk
<1> HIDE DEF v
<1>7. v[0] = FakeHead
  BY <1>1, <1>5
<1>8. \A i \in 1..N : v[i] = IF v[i - 1] = None THEN None ELSE next_free_block[v[i - 1]]
  BY <1>1, <1>5
<1>9. \A i \in 0..N : v[i] = g[i]
  <2> HIDE DEF g
  <2> DEFINE T == {i \in 0..N : v[i] # g[i]}
  <2> SUFFICES ASSUME T # {} PROVE FALSE
    OBVIOUS
  <2>1. PICK m \in T : \A k \in T : m <= k
    <3>1. T \in SUBSET Nat
      BY <1>1
    <3> HIDE DEF T
    <3> QED BY <3>1, LeastElement
  <2>2. m \in 1..N /\ m - 1 \in 0..N /\ m - 1 \notin T
    BY <2>1, <1>1, <1>7, <1>3
  <2>3. v[m - 1] = g[m - 1]
    BY <2>2
  <2>4. v[m] = g[m]
    BY <2>2, <2>3, <1>2, <1>8
  <2> QED BY <2>1, <2>4
<1>10. \A i \in 1..n : g[i] = q[i]
  BY <1>1
<1>11. g[n + 1] = FakeTail
  BY <1>1
<1> HIDE DEF g
<1> QED BY <1>1, <1>6, <1>9, <1>10, <1>11

(* get_all_free_blocks returns the list. *)
LEMMA ListRead ==
    \A q \in Seq(Blocks) : Represents(q) => get_all_free_blocks = q
<1> SUFFICES ASSUME NEW q \in Seq(Blocks), Represents(q) PROVE get_all_free_blocks = q
  OBVIOUS
<1> USE NodeFacts
<1> DEFINE n == Len(q)
           N == Cardinality(Nodes)
           w == Walk(N)
           Ends(i) == /\ next_free_block[w[i]] = None
                      /\ \A j \in 1..(i - 1) : next_free_block[w[j]] # None
           end == CHOOSE i \in 1..N : Ends(i)
<1>1. n \in Nat /\ n <= NumBlocks /\ \A i \in 1..n : q[i] \in Blocks
  BY DistinctBound DEF Represents
<1>2. N = NumBlocks + 2
  <2>1. IsFiniteSet(Blocks) /\ Cardinality(Blocks) = NumBlocks
    BY QueueAssumption, FS_Interval DEF Blocks
  <2>2. IsFiniteSet(Blocks \cup {FakeHead}) /\ Cardinality(Blocks \cup {FakeHead}) = NumBlocks + 1
    BY <2>1, FS_AddElement, QueueAssumption
  <2>3. Cardinality((Blocks \cup {FakeHead}) \cup {FakeTail}) = (NumBlocks + 1) + 1
    BY <2>2, FS_AddElement, QueueAssumption
  <2>4. Nodes = (Blocks \cup {FakeHead}) \cup {FakeTail}
    BY DEF Nodes
  <2> QED BY <2>3, <2>4, QueueAssumption
<1> HIDE DEF N
<1>3. N \in Nat /\ n + 1 < N /\ n + 1 \in 1..N
  BY <1>1, <1>2, QueueAssumption
<1>4. (\A i \in 1..n : w[i] = q[i]) /\ w[n + 1] = FakeTail
  BY <1>3, WalkEnds
<1> HIDE DEF w
<1>5. \A i \in 1..n : next_free_block[w[i]] # None
  BY <1>1, <1>4 DEF Represents, NextIn
<1>6. next_free_block[w[n + 1]] = None
  BY <1>4 DEF Represents
<1>7. Ends(n + 1)
  BY <1>1, <1>5, <1>6
<1>8. \A i \in 1..N : Ends(i) => i = n + 1
  <2> SUFFICES ASSUME NEW i \in 1..N, Ends(i), i # n + 1 PROVE FALSE
    OBVIOUS
  <2>1. CASE i < n + 1
    <3>1. i \in 1..n
      BY <2>1, <1>1, <1>3
    <3> QED BY <3>1, <1>5
  <2>2. CASE i > n + 1
    <3>1. n + 1 \in 1..(i - 1)
      BY <2>2, <1>1, <1>3
    <3> QED BY <3>1, <1>6
  <2> QED BY <2>1, <2>2, <1>1, <1>3
<1> HIDE DEF Ends
<1>9. end = n + 1
  BY <1>3, <1>7, <1>8
<1>10. get_all_free_blocks = [i \in 1..(end - 1) |-> w[i]]
  BY DEF get_all_free_blocks, w, N, Ends
<1> HIDE DEF end
<1>11. get_all_free_blocks = [i \in 1..n |-> q[i]]
  BY <1>1, <1>4, <1>9, <1>10
<1>12. q = [i \in 1..n |-> q[i]]
  OBVIOUS
<1> QED BY <1>11, <1>12

(* The explicit lists of the step lemmas are what the abstract queue's      *)
(* operators on sequences build.                                           *)
LEMMA ListsAsSequences ==
    ASSUME NEW q \in Seq(Blocks)
    PROVE  /\ \A k \in 1..Len(q) : WithoutFirst(q, k) = SubSeq(q, k + 1, Len(q))
           /\ \A k \in 1..Len(q) : WithoutNth(q, k) = SubSeq(q, 1, k - 1) \o SubSeq(q, k + 1, Len(q))
           /\ \A bs \in Seq(Blocks) : WithAtEnd(q, bs, Len(bs)) = q \o bs
<1>1. Len(q) \in Nat /\ \A i \in 1..Len(q) : q[i] \in Blocks
  OBVIOUS
<1>2. ASSUME NEW k \in 1..Len(q)
      PROVE  WithoutFirst(q, k) = SubSeq(q, k + 1, Len(q))
  <2>1. SubSeq(q, k + 1, Len(q)) = [i \in 1..(Len(q) - k) |-> q[i + k]]
    BY <1>1
  <2> QED BY <2>1 DEF WithoutFirst
<1>3. ASSUME NEW k \in 1..Len(q)
      PROVE  WithoutNth(q, k) = SubSeq(q, 1, k - 1) \o SubSeq(q, k + 1, Len(q))
  <2> DEFINE s == SubSeq(q, 1, k - 1)
             t == SubSeq(q, k + 1, Len(q))
             r == WithoutNth(q, k)
  <2>1. /\ s \in Seq(Blocks) /\ Len(s) = k - 1 /\ \A i \in 1..(k - 1) : s[i] = q[i]
        /\ t \in Seq(Blocks) /\ Len(t) = Len(q) - k /\ \A i \in 1..(Len(q) - k) : t[i] = q[i + k]
    BY <1>1
  <2>2. r \in Seq(Blocks) /\ Len(r) = Len(q) - 1
    <3>1. r \in [1..(Len(q) - 1) -> Blocks] /\ Len(q) - 1 \in Nat
      BY <1>1 DEF WithoutNth
    <3> HIDE DEF r
    <3> QED BY <3>1, FcnIsSeq
  <2>3. \A i \in 1..(Len(q) - 1) : r[i] = IF i < k THEN q[i] ELSE q[i + 1]
    BY DEF WithoutNth
  <2> HIDE DEF s, t, r
  <2>4. /\ s \o t \in Seq(Blocks) /\ Len(s \o t) = Len(q) - 1
        /\ \A i \in 1..(Len(q) - 1) : (s \o t)[i] = IF i < k THEN q[i] ELSE q[i + 1]
    <3>1. s \o t \in Seq(Blocks) /\ Len(s \o t) = Len(s) + Len(t)
      BY <2>1, ConcatProperties
    <3>2. \A i \in 1..(Len(s) + Len(t)) : (s \o t)[i] = IF i <= Len(s) THEN s[i] ELSE t[i - Len(s)]
      BY <2>1, ConcatProperties
    <3>3. ASSUME NEW i \in 1..(Len(q) - 1)
          PROVE  (s \o t)[i] = IF i < k THEN q[i] ELSE q[i + 1]
      <4>1. CASE i < k
        BY <4>1, <3>2, <2>1, <1>1
      <4>2. CASE ~(i < k)
        <5>1. i - (k - 1) \in 1..(Len(q) - k) /\ i - (k - 1) + k = i + 1
          BY <4>2, <1>1
        <5>2. (s \o t)[i] = t[i - (k - 1)]
          BY <4>2, <3>2, <2>1, <1>1
        <5> QED BY <4>2, <5>1, <5>2, <2>1
      <4> QED BY <4>1, <4>2
    <3> QED BY <3>1, <3>3, <2>1, <1>1
  <2>5. r = s \o t
    BY <2>2, <2>3, <2>4, SeqEqual
  <2> QED BY <2>5 DEF r, s, t
<1>4. ASSUME NEW bs \in Seq(Blocks)
      PROVE  WithAtEnd(q, bs, Len(bs)) = q \o bs
  <2> DEFINE r == WithAtEnd(q, bs, Len(bs))
  <2>1. Len(bs) \in Nat /\ \A i \in 1..Len(bs) : bs[i] \in Blocks
    OBVIOUS
  <2>2. r \in Seq(Blocks) /\ Len(r) = Len(q) + Len(bs)
    <3>1. r \in [1..(Len(q) + Len(bs)) -> Blocks] /\ Len(q) + Len(bs) \in Nat
      BY <1>1, <2>1 DEF WithAtEnd
    <3> HIDE DEF r
    <3> QED BY <3>1, FcnIsSeq
  <2>3. \A i \in 1..(Len(q) + Len(bs)) : r[i] = IF i <= Len(q) THEN q[i] ELSE bs[i - Len(q)]
    BY DEF WithAtEnd
  <2> HIDE DEF r
  <2>4. /\ q \o bs \in Seq(Blocks) /\ Len(q \o bs) = Len(q) + Len(bs)
        /\ \A i \in 1..(Len(q) + Len(bs)) : (q \o bs)[i] = IF i <= Len(q) THEN q[i] ELSE bs[i - Len(q)]
    BY ConcatProperties
  <2>5. r = q \o bs
    BY <2>2, <2>3, <2>4, SeqEqual
  <2> QED BY <2>5 DEF r
<1> QED BY <1>2, <1>3, <1>4

(* ListRead in the next state.                                             *)
LEMMA ListReadNext ==
    \A q \in Seq(Blocks) : Represents(q)' => get_all_free_blocks' = q
<1>1. (\A q \in Seq(Blocks) : Represents(q) => get_all_free_blocks = q)'
  BY ListRead, PTL
<1> QED BY <1>1

(* Read through get_all_free_blocks, the list starts as the queue of all    *)
(* blocks in the order of their ids.                                       *)
LEMMA InitImplements == Init => Promise!AInit
<1> SUFFICES ASSUME Init PROVE Promise!AInit
  OBVIOUS
<1> DEFINE q == [i \in 1..NumBlocks |-> i - 1]
<1>1. q \in Seq(Blocks) /\ Represents(q)
  BY InitRepresents
<1>2. get_all_free_blocks = q
  BY <1>1, ListRead
<1> QED BY <1>2 DEF Promise!AInit, Init

(* Taking the first k blocks, whether with popleft or with popleft_n.      *)
LEMMA FrontImplements ==
    ASSUME TypeOK, NEW q \in Seq(Blocks), Represents(q), NEW k \in 1..Len(q),
           held' = held \cup {q[i] : i \in 1..k},
           NEW r \in Seq(Blocks), r = WithoutFirst(q, k), Represents(r)'
    PROVE  Promise!ANext
<1>1. get_all_free_blocks = q /\ get_all_free_blocks' = r
  BY ListRead, ListReadNext
<1>2. r = SubSeq(q, k + 1, Len(q))
  BY ListsAsSequences
<1>3. k \in 1..NumBlocks
  <2>1. Len(q) <= NumBlocks
    BY DistinctBound DEF Represents
  <2> QED BY <2>1, QueueAssumption
<1>4. Promise!Take(k)
  BY <1>1, <1>2 DEF Promise!Take
<1> QED BY <1>3, <1>4 DEF Promise!ANext

(* Every operation on the links is a step of the abstract queue.           *)
LEMMA StepImplements ==
    IInv /\ [Next]_vars => [Promise!ANext]_(Promise!avars)
<1> SUFFICES ASSUME IInv, [Next]_vars PROVE [Promise!ANext]_(Promise!avars)
  OBVIOUS
<1>1. PICK q \in Seq(Blocks) : Represents(q)
  BY DEF IInv
<1>2. TypeOK
  BY DEF IInv
<1>3. Len(q) \in Nat /\ Len(q) <= NumBlocks /\ get_all_free_blocks = q
  BY <1>1, DistinctBound, ListRead DEF Represents
<1>4. CASE popleft
  <2>1. PICK r \in Seq(Blocks) : r = WithoutFirst(q, 1) /\ Represents(r)'
    BY <1>1, <1>2, <1>4, PopleftStep
  <2>2. 1 \in 1..Len(q) /\ next_free_block[FakeHead] = q[1]
    BY <1>1, <1>3, <1>4, NodeFacts DEF popleft, Represents
  <2>3. {q[i] : i \in 1..1} = {q[1]}
    OBVIOUS
  <2>4. held' = held \cup {q[i] : i \in 1..1}
    BY <1>4, <2>2, <2>3 DEF popleft
  <2> QED BY <1>1, <1>2, <2>1, <2>2, <2>4, FrontImplements
<1>5. ASSUME NEW n \in 1..NumBlocks, popleft_n(n) PROVE Promise!ANext
  <2>1. PICK r \in Seq(Blocks) : r = WithoutFirst(q, n) /\ Represents(r)'
    BY <1>1, <1>2, <1>5, PopleftNStep
  <2>2. n \in 1..Len(q)
    BY <1>1, <1>3, <1>5, QueueAssumption DEF popleft_n, Represents
  <2>3. {Walk(n)[i] : i \in 1..n} = {q[i] : i \in 1..n}
    <3>1. \A i \in 0..n : Walk(n)[i] = IF i = 0 THEN FakeHead ELSE q[i]
      BY <1>1, <2>2, WalkFollows
    <3> QED BY <3>1, <2>2
  <2>4. held' = held \cup {q[i] : i \in 1..n}
    BY <1>5, <2>3 DEF popleft_n
  <2> QED BY <1>1, <1>2, <2>1, <2>2, <2>4, FrontImplements
<1>6. ASSUME NEW b \in Blocks, remove(b) PROVE Promise!ANext
  <2>1. PICK k \in 1..Len(q), r \in Seq(Blocks) :
            q[k] = b /\ r = WithoutNth(q, k) /\ Represents(r)'
    BY <1>1, <1>2, <1>6, RemoveStep
  <2>2. get_all_free_blocks' = SubSeq(q, 1, k - 1) \o SubSeq(q, k + 1, Len(q))
    BY <2>1, ListReadNext, ListsAsSequences
  <2>3. held' = held \cup {q[k]}
    BY <1>6, <2>1 DEF remove
  <2>4. Promise!TakeFromMiddle(k)
    BY <1>3, <2>2, <2>3 DEF Promise!TakeFromMiddle, Promise!RemoveAt
  <2>5. k \in 1..NumBlocks
    BY <1>3, QueueAssumption
  <2> QED BY <2>4, <2>5 DEF Promise!ANext
<1>7. ASSUME NEW b \in Blocks, append(b) PROVE Promise!ANext
  <2>1. PICK r \in Seq(Blocks) : r = WithAtEnd(q, <<b>>, 1) /\ Represents(r)'
    BY <1>1, <1>2, <1>7, AppendStep
  <2>2. <<b>> \in Seq(Blocks) /\ Len(<<b>>) = 1 /\ {<<b>>[i] : i \in 1..1} = {b}
    OBVIOUS
  <2>3. get_all_free_blocks' = q \o <<b>>
    BY <2>1, <2>2, ListReadNext, ListsAsSequences
  <2>4. b \in held /\ held' = held \ {b}
    BY <1>7 DEF append
  <2>5. Promise!PutBack(<<b>>)
    BY <1>3, <2>2, <2>3, <2>4 DEF Promise!PutBack
  <2>6. <<b>> \in [1..1 -> held] /\ \A i, j \in 1..1 : <<b>>[i] = <<b>>[j] => i = j
    BY <2>4
  <2>7. 1 \in 1..NumBlocks
    BY QueueAssumption DEF Blocks
  <2> QED BY <2>5, <2>6, <2>7 DEF Promise!ANext
<1>8. ASSUME NEW S \in SUBSET held, NEW bs \in ListsOf(S), append_n(bs)
      PROVE  Promise!ANext
  <2>1. Cardinality(S) \in Nat
    <3>1. IsFiniteSet(Blocks)
      BY QueueAssumption, FS_Interval DEF Blocks
    <3>2. S \subseteq Blocks
      BY <1>2 DEF TypeOK
    <3> QED BY <3>1, <3>2, FS_Subset, FS_CardinalityType
  <2>2. /\ bs \in [1..Cardinality(S) -> held] /\ bs \in [1..Cardinality(S) -> S]
        /\ \A i, j \in 1..Cardinality(S) : bs[i] = bs[j] => i = j
    BY DEF ListsOf
  <2>3. bs \in Seq(Blocks) /\ Len(bs) = Cardinality(S)
    <3>1. bs \in [1..Cardinality(S) -> Blocks]
      BY <2>2, <1>2 DEF TypeOK
    <3> QED BY <3>1, <2>1, FcnIsSeq
  <2>4. PICK r \in Seq(Blocks) : r = WithAtEnd(q, bs, Cardinality(S)) /\ Represents(r)'
    BY <1>1, <1>2, <1>8, <2>1, <2>2, AppendNStep
  <2>5. get_all_free_blocks' = q \o bs
    BY <2>3, <2>4, ListReadNext, ListsAsSequences
  <2>6. Promise!PutBack(bs)
    BY <1>3, <1>8, <2>5 DEF Promise!PutBack, append_n
  <2>7. Cardinality(S) \in 1..NumBlocks
    <3>1. Len(bs) <= NumBlocks
      BY <2>2, <2>3, DistinctBound
    <3>2. Len(bs) > 0
      BY <1>8 DEF append_n
    <3> QED BY <3>1, <3>2, <2>1, <2>3, QueueAssumption
  <2> QED BY <2>2, <2>6, <2>7 DEF Promise!ANext
<1>9. CASE UNCHANGED vars
  <2>1. Represents(q)' /\ held' = held
    BY <1>1, <1>9 DEF Represents, vars
  <2>2. get_all_free_blocks' = q
    BY <2>1, ListReadNext
  <2> QED BY <1>3, <2>1, <2>2 DEF Promise!avars
<1> QED BY <1>4, <1>5, <1>6, <1>7, <1>8, <1>9 DEF Next

(* For every number of blocks, the linked list of FreeKVCacheBlockQueue     *)
(* implements the queue of free blocks: read through get_all_free_blocks,  *)
(* popleft and popleft_n take from the front, remove takes from anywhere   *)
(* and append and append_n put back at the end in the order given, so the  *)
(* eviction order is the order in which blocks became free.                *)
THEOREM QueueImplements == Spec => ImplementsQueue
<1>1. Init => Promise!AInit
  BY InitImplements
<1>2. IInv /\ [Next]_vars => [Promise!ANext]_(Promise!avars)
  BY StepImplements
<1> QED BY <1>1, <1>2, InitIInv, StepIInv, PTL DEF Spec, ImplementsQueue, Promise!ASpec

=============================================================================
