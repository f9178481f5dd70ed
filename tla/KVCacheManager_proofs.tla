----------------------- MODULE KVCacheManager_proofs ------------------------
(***************************************************************************)
(* Every operation of the KV cache manager keeps the bookkeeping invariant *)
(* of module KVAccounting.                                                 *)
(***************************************************************************)
EXTENDS KVAccounting, FunctionTheorems

\* The maps cached_block_hash_to_block can be.
CacheMaps == UNION {[D -> Seq(Blocks)] : D \in SUBSET Seq(Nat)}

(* What it is to be such a map.                                            *)
LEMMA CacheMapsFacts ==
    ASSUME NEW c \in CacheMaps
    PROVE  /\ DOMAIN c \in SUBSET Seq(Nat) /\ c = [h \in DOMAIN c |-> c[h]]
           /\ \A h \in DOMAIN c : c[h] \in Seq(Blocks)
<1>1. PICK D \in SUBSET Seq(Nat) : c \in [D -> Seq(Blocks)]
  BY DEF CacheMaps
<1> QED BY <1>1

(* pop takes the blocks of S out of the map, and hashes left without blocks. *)
LEMMA PopFacts ==
    ASSUME NEW c \in CacheMaps, NEW S
    PROVE  /\ pop(c, S) \in CacheMaps /\ DOMAIN pop(c, S) \subseteq DOMAIN c
           /\ \A h \in DOMAIN pop(c, S) :
                 /\ pop(c, S)[h] # <<>>
                 /\ Elements(pop(c, S)[h]) = Elements(c[h]) \ S
                 /\ Distinct(c[h]) => Distinct(pop(c, S)[h])
           /\ \A h \in DOMAIN c : \A b \in Elements(c[h]) \ S : h \in DOMAIN pop(c, S)
<1> DEFINE Z == Blocks \ S
           rest == [h \in DOMAIN c |-> Only(c[h], Z)]
           D == {h \in DOMAIN c : Only(c[h], Z) # <<>>}
           new == [h \in D |-> Only(c[h], Z)]
<1>1. DOMAIN c \in SUBSET Seq(Nat) /\ \A h \in DOMAIN c : c[h] \in Seq(Blocks)
  BY CacheMapsFacts
<1>2. pop(c, S) = new
  BY DEF pop
<1>3. ASSUME NEW h \in DOMAIN c
      PROVE  /\ Only(c[h], Z) \in Seq(Blocks)
             /\ Elements(Only(c[h], Z)) = Elements(c[h]) \ S
             /\ Distinct(c[h]) => Distinct(Only(c[h], Z))
  <2> DEFINE s == c[h]
  <2>1. s \in Seq(Blocks)
    BY <1>1
  <2> HIDE DEF s, Z
  <2>2. /\ Only(s, Z) \in Seq(Blocks)
        /\ Elements(Only(s, Z)) = Elements(s) \cap Z
        /\ (\A i, j \in 1..Len(s) : s[i] = s[j] /\ s[i] \in Z => i = j)
                  => Distinct(Only(s, Z))
    BY <2>1, OnlyFacts
  <2>3. Elements(s) \subseteq Blocks
    BY <2>1 DEF Elements
  <2>4. Elements(s) \cap Z = Elements(s) \ S
    BY <2>3 DEF Z
  <2>5. Distinct(s) => \A i, j \in 1..Len(s) : s[i] = s[j] /\ s[i] \in Z => i = j
    BY DEF Distinct
  <2> QED BY <2>2, <2>4, <2>5 DEF s
<1> HIDE DEF Z
<1>4. DOMAIN new = D /\ \A h \in D : h \in DOMAIN c /\ new[h] = Only(c[h], Z) /\ new[h] # <<>>
  OBVIOUS
<1>5. new \in CacheMaps
  <2>1. D \in SUBSET Seq(Nat)
    BY <1>1
  <2>2. new \in [D -> Seq(Blocks)]
    BY <1>3, <1>4
  <2> HIDE DEF new, D
  <2> QED BY <2>1, <2>2 DEF CacheMaps
<1>6. \A h \in DOMAIN c : \A b \in Elements(c[h]) \ S : h \in D
  <2> TAKE h \in DOMAIN c
  <2> TAKE b \in Elements(c[h]) \ S
  <2>1. b \in Elements(Only(c[h], Z))
    BY <1>3
  <2>2. Len(<<>>) = 0 /\ Elements(<<>>) = {}
    BY DEF Elements
  <2>3. Only(c[h], Z) # <<>>
    BY <2>1, <2>2
  <2> QED BY <2>3
<1> HIDE DEF new, D
<1> QED BY <1>2, <1>3, <1>4, <1>5, <1>6

-----------------------------------------------------------------------------
(* The invariant, on the parts of a manager value: free queue fq, reference *)
(* counts rc, hashes bh, map c, tables t and num_cached_block nc.          *)
Accounted(fq, rc, bh, c, t, nc) ==
    /\ fq \in Seq(Blocks) /\ rc \in [Blocks -> Nat]
    /\ bh \in [Blocks -> Seq(Nat)] /\ c \in CacheMaps
    /\ t \in [Reqs -> Seq(Blocks)] /\ nc \in [Reqs -> Int]
    /\ Counts(rc, t) /\ FreeList(fq, rc)
    /\ MapOK(c, bh) /\ OffIsEmpty(c)
    /\ TablesOK(nc, t, bh)

(* Hashes that disappear leave the tables in order.                        *)
LEMMA FewerHashes ==
    ASSUME NEW t \in [Reqs -> Seq(Blocks)], NEW nc \in [Reqs -> Int],
           NEW bh \in [Blocks -> Seq(Nat)], NEW ch \in [Blocks -> Seq(Nat)],
           \A b \in Blocks : ch[b] = NoHash \/ ch[b] = bh[b],
           TablesOK(nc, t, bh)
    PROVE  TablesOK(nc, t, ch)
<1>1. InPlace(t) /\ Private(nc, t) /\ Unhashed(nc, t, bh) /\ HashPlace(t, bh)
  BY DEF TablesOK
<1>2. \A r \in Reqs : \A i \in 1..Len(t[r]) : t[r][i] \in Blocks
  OBVIOUS
<1>3. Unhashed(nc, t, ch)
  BY <1>1, <1>2 DEF Unhashed
<1>4. HashPlace(t, ch)
  <2> SUFFICES ASSUME NEW r \in Reqs, NEW i \in 1..Len(t[r]), t[r][i] # NullBlock,
                      ch[t[r][i]] # NoHash
               PROVE  EndsAt(ch[t[r][i]], i)
    BY DEF HashPlace
  <2>1. ch[t[r][i]] = bh[t[r][i]]
    BY <1>2
  <2>2. EndsAt(bh[t[r][i]], i)
    BY <2>1, <1>1 DEF HashPlace
  <2> QED BY <2>1, <2>2
<1> QED BY <1>1, <1>3, <1>4 DEF TablesOK

(* evict_blocks: the map and the hashes still say the same, and no block of *)
(* S has a hash any more.                                                  *)
LEMMA EvictKeeps ==
    ASSUME NEW fq, NEW rc, NEW bh, NEW c, NEW t, NEW nc,
           Accounted(fq, rc, bh, c, t, nc),
           NEW S \in SUBSET Blocks,
           NEW L, L = {b \in S : bh[b] \in DOMAIN c /\ b \in Elements(c[bh[b]])},
           NEW ch, ch = [b \in Blocks |-> IF b \in L THEN NoHash ELSE bh[b]]
    PROVE  /\ Accounted(fq, rc, ch, pop(c, L), t, nc)
           /\ \A b \in S : ch[b] = NoHash
<1>1. /\ bh \in [Blocks -> Seq(Nat)] /\ c \in CacheMaps
      /\ t \in [Reqs -> Seq(Blocks)] /\ nc \in [Reqs -> Int]
      /\ MapOK(c, bh) /\ OffIsEmpty(c) /\ TablesOK(nc, t, bh)
  BY DEF Accounted
<1>2. \A b \in Blocks : ch[b] = IF b \in L THEN NoHash ELSE bh[b]
  OBVIOUS
<1>3. ch \in [Blocks -> Seq(Nat)]
  <2>1. NoHash \in Seq(Nat)
    BY KVCacheManagerAssumption
  <2> QED BY <2>1, <1>1
<1> DEFINE d == pop(c, L)
<1>4. /\ d \in CacheMaps /\ DOMAIN d \subseteq DOMAIN c
      /\ \A h \in DOMAIN d : /\ d[h] # <<>>
                             /\ Elements(d[h]) = Elements(c[h]) \ L
                             /\ Distinct(c[h]) => Distinct(d[h])
      /\ \A h \in DOMAIN c : \A b \in Elements(c[h]) \ L : h \in DOMAIN d
  BY <1>1, PopFacts, ZenonT(30)
<1> HIDE DEF d
<1>5. /\ \A h \in DOMAIN c : c[h] # <<>> /\ Distinct(c[h])
      /\ \A h \in DOMAIN c : \A b \in Elements(c[h]) : bh[b] = h
      /\ \A b \in Blocks : bh[b] # NoHash => bh[b] \in DOMAIN c /\ b \in Elements(c[bh[b]])
      /\ bh[NullBlock] = NoHash /\ NoHash \notin DOMAIN c
  BY <1>1 DEF MapOK
<1>6. \A h \in DOMAIN c : Elements(c[h]) \subseteq Blocks
  <2> TAKE h \in DOMAIN c
  <2>1. c[h] \in Seq(Blocks)
    BY <1>1, CacheMapsFacts
  <2> QED BY <2>1 DEF Elements
<1>7. \A b \in S : ch[b] = NoHash
  BY <1>2, <1>5
<1>8. MapOK(d, ch)
  <2>1. \A h \in DOMAIN d : d[h] # <<>> /\ Distinct(d[h])
    BY <1>4, <1>5
  <2>2. ASSUME NEW h \in DOMAIN d, NEW b \in Elements(d[h]) PROVE ch[b] = h
    <3>1. h \in DOMAIN c /\ b \in Elements(c[h]) /\ b \notin L
      BY <1>4
    <3>2. b \in Blocks /\ bh[b] = h
      BY <3>1, <1>5, <1>6
    <3> QED BY <3>1, <3>2, <1>2
  <2>3. ASSUME NEW b \in Blocks, ch[b] # NoHash
        PROVE  ch[b] \in DOMAIN d /\ b \in Elements(d[ch[b]])
    <3>1. b \notin L /\ ch[b] = bh[b]
      BY <2>3, <1>2
    <3>2. bh[b] \in DOMAIN c /\ b \in Elements(c[bh[b]])
      BY <3>1, <2>3, <1>5
    <3>3. bh[b] \in DOMAIN d
      BY <3>1, <3>2, <1>4
    <3> QED BY <3>1, <3>2, <3>3, <1>4
  <2>4. NullBlock \in Blocks
    BY BlockPoolAssumption DEF NullBlock, Blocks
  <2>5. ch[NullBlock] = NoHash /\ NoHash \notin DOMAIN d
    BY <2>4, <1>2, <1>4, <1>5
  <2> QED BY <2>1, <2>2, <2>3, <2>5 DEF MapOK
<1>9. OffIsEmpty(d)
  BY <1>1, <1>4 DEF OffIsEmpty
<1>10. TablesOK(nc, t, ch)
  <2>1. \A b \in Blocks : ch[b] = NoHash \/ ch[b] = bh[b]
    BY <1>2
  <2> QED BY <2>1, <1>1, <1>3, FewerHashes
<1>11. Accounted(fq, rc, ch, d, t, nc)
  BY <1>3, <1>4, <1>8, <1>9, <1>10 DEF Accounted
<1> QED BY <1>7, <1>11 DEF d

(* Without prefix caching no block has a hash.                             *)
LEMMA OffHasNoHashes ==
    ASSUME NEW fq, NEW rc, NEW bh, NEW c, NEW t, NEW nc,
           Accounted(fq, rc, bh, c, t, nc), ~EnableCaching, NEW b \in Blocks
    PROVE  bh[b] = NoHash
  BY DEF Accounted, MapOK, OffIsEmpty

(* reset_prefix_cache.                                                     *)
LEMMA ResetKeeps ==
    ASSUME NEW fq, NEW rc, NEW bh, NEW c, NEW t, NEW nc,
           Accounted(fq, rc, bh, c, t, nc)
    PROVE  Accounted(fq, rc, [b \in Blocks |-> NoHash], <<>>, t, nc)
<1> DEFINE ch == [b \in Blocks |-> NoHash]
<1>1. NoHash \in Seq(Nat) /\ NullBlock \in Blocks
  BY KVCacheManagerAssumption, BlockPoolAssumption DEF NullBlock, Blocks
<1>2. ch \in [Blocks -> Seq(Nat)] /\ \A b \in Blocks : ch[b] = NoHash
  BY <1>1
<1>3. DOMAIN <<>> = {} /\ <<>> \in CacheMaps
  <2>1. DOMAIN <<>> = {} /\ <<>> \in [{} -> Seq(Blocks)]
    OBVIOUS
  <2>2. {} \in SUBSET Seq(Nat)
    OBVIOUS
  <2> QED BY <2>1, <2>2 DEF CacheMaps
<1>4. TablesOK(nc, t, ch)
  BY <1>2, FewerHashes DEF Accounted
<1>5. MapOK(<<>>, ch)
  BY <1>1, <1>2, <1>3 DEF MapOK
<1>6. OffIsEmpty(<<>>)
  BY <1>3 DEF OffIsEmpty
<1> QED BY <1>2, <1>3, <1>4, <1>5, <1>6 DEF Accounted

\* What the map d is when new, from the hashes D to blocks, is inserted in c.
Inserted(d, c, D, new) ==
    /\ d \in CacheMaps /\ DOMAIN d = DOMAIN c \cup D
    /\ \A h \in DOMAIN d : d[h] # <<>> /\ Distinct(d[h])
    /\ \A h \in DOMAIN d : \A b \in Elements(d[h]) :
          \/ h \in DOMAIN c /\ b \in Elements(c[h])
          \/ h \in D /\ b = new[h]
    /\ \A h \in DOMAIN c : \A b \in Elements(c[h]) : b \in Elements(d[h])
    /\ \A h \in D : new[h] \in Elements(d[h])

(* insert adds a new block to the blocks of its hash.                      *)
LEMMA InsertFacts ==
    ASSUME NEW c \in CacheMaps, \A h \in DOMAIN c : c[h] # <<>> /\ Distinct(c[h]),
           NEW D \in SUBSET Seq(Nat), NEW new \in [D -> Blocks],
           \A h \in DOMAIN c \cap D : new[h] \notin Elements(c[h]),
           NEW d, d = insert(c, new)
    PROVE  Inserted(d, c, D, new)
<1> DEFINE Val(h) == IF h \notin DOMAIN c THEN <<new[h]>>
                     ELSE IF h \notin D \/ new[h] \in Elements(c[h]) THEN c[h]
                     ELSE Append(c[h], new[h])
<1>1. DOMAIN c \in SUBSET Seq(Nat) /\ \A h \in DOMAIN c : c[h] \in Seq(Blocks)
  BY CacheMapsFacts
<1>2. d = [h \in DOMAIN c \cup D |-> Val(h)]
  BY DEF insert
<1>3. DOMAIN d = DOMAIN c \cup D /\ \A h \in DOMAIN d : d[h] = Val(h)
  BY <1>2
<1>4. \A h \in D : new[h] \in Blocks
  OBVIOUS
<1>5. \A h \in DOMAIN d :
         \/ h \in D /\ h \notin DOMAIN c /\ d[h] = <<new[h]>>
         \/ h \in DOMAIN c /\ h \notin D /\ d[h] = c[h]
         \/ h \in DOMAIN c /\ h \in D /\ d[h] = Append(c[h], new[h])
  <2> SUFFICES ASSUME NEW h \in DOMAIN d
               PROVE  \/ h \in D /\ h \notin DOMAIN c /\ d[h] = <<new[h]>>
                      \/ h \in DOMAIN c /\ h \notin D /\ d[h] = c[h]
                      \/ h \in DOMAIN c /\ h \in D /\ d[h] = Append(c[h], new[h])
    OBVIOUS
  <2>1. d[h] = Val(h) /\ (h \in D \/ h \in DOMAIN c)
    BY <1>3
  <2>2. CASE h \notin DOMAIN c
    <3>1. Val(h) = <<new[h]>>
      BY <2>2
    <3> QED BY <2>1, <2>2, <3>1
  <2>3. CASE h \in DOMAIN c /\ h \notin D
    <3>1. Val(h) = c[h]
      BY <2>3
    <3> QED BY <2>1, <2>3, <3>1
  <2>4. CASE h \in DOMAIN c /\ h \in D
    <3>1. new[h] \notin Elements(c[h])
      BY <2>4
    <3>2. Val(h) = Append(c[h], new[h])
      BY <2>4, <3>1
    <3> QED BY <2>1, <2>4, <3>2
  <2> QED BY <2>2, <2>3, <2>4
<1> HIDE DEF Val
<1>6. ASSUME NEW h \in D, d[h] = <<new[h]>>
      PROVE  /\ d[h] \in Seq(Blocks) /\ d[h] # <<>> /\ Distinct(d[h])
             /\ Elements(d[h]) = {new[h]}
  <2> DEFINE x == new[h]
  <2>1. x \in Blocks
    BY <1>4
  <2> HIDE DEF x
  <2>2. /\ <<x>> \in Seq(Blocks) /\ <<x>> # <<>> /\ Len(<<x>>) = 1 /\ <<x>>[1] = x
    BY <2>1
  <2>3. Distinct(<<x>>) /\ Elements(<<x>>) = {x}
    BY <2>2 DEF Distinct, Elements
  <2> QED BY <2>2, <2>3, <1>6 DEF x
<1>7. ASSUME NEW h \in D, h \in DOMAIN c, d[h] = Append(c[h], new[h])
      PROVE  /\ d[h] \in Seq(Blocks) /\ d[h] # <<>> /\ Distinct(d[h])
             /\ Elements(d[h]) = Elements(c[h]) \cup {new[h]}
  <2> DEFINE x == new[h]
             f == c[h]
             g == Append(f, x)
  <2>1. x \in Blocks /\ f \in Seq(Blocks) /\ x \notin Elements(f) /\ Distinct(f)
    BY <1>1, <1>4, <1>7
  <2>2. d[h] = g
    BY <1>7
  <2> HIDE DEF x, f
  <2>3. /\ g \in Seq(Blocks) /\ Len(f) \in Nat /\ Len(g) = Len(f) + 1 /\ g[Len(f) + 1] = x
        /\ \A i \in 1..Len(f) : g[i] = f[i]
    BY <2>1, AppendProperties
  <2> HIDE DEF g
  <2>4. g # <<>>
    BY <2>3
  <2>5. \A i \in 1..Len(g) : i = Len(f) + 1 \/ (i \in 1..Len(f) /\ g[i] = f[i])
    BY <2>3
  <2>6. Elements(g) = Elements(f) \cup {x}
    <3>1. \A i \in 1..Len(g) : g[i] \in Elements(f) \cup {x}
      BY <2>3, <2>5 DEF Elements
    <3>2. \A i \in 1..Len(f) : f[i] \in Elements(g)
      BY <2>3 DEF Elements
    <3>3. x \in Elements(g)
      BY <2>3 DEF Elements
    <3> QED BY <3>1, <3>2, <3>3 DEF Elements
  <2>7. Distinct(g)
    <3> SUFFICES ASSUME NEW i \in 1..Len(g), NEW j \in 1..Len(g), g[i] = g[j] PROVE i = j
      BY DEF Distinct
    <3>1. \A k \in 1..Len(f) : f[k] # x
      BY <2>1 DEF Elements
    <3>2. CASE i = Len(f) + 1 \/ j = Len(f) + 1
      BY <3>1, <3>2, <2>3, <2>5
    <3>3. CASE i # Len(f) + 1 /\ j # Len(f) + 1
      BY <3>3, <2>1, <2>5 DEF Distinct
    <3> QED BY <3>2, <3>3
  <2> QED BY <2>2, <2>3, <2>4, <2>6, <2>7 DEF x, f
<1>8. \A h \in DOMAIN d : d[h] \in Seq(Blocks)
  BY <1>1, <1>5, <1>6, <1>7
<1>9. d \in CacheMaps
  <2>1. DOMAIN d \in SUBSET Seq(Nat)
    BY <1>1, <1>3
  <2>2. d \in [DOMAIN d -> Seq(Blocks)]
    <3>1. d = [h \in DOMAIN d |-> d[h]]
      BY <1>2, <1>3
    <3> QED BY <3>1, <1>8
  <2> QED BY <2>1, <2>2 DEF CacheMaps
<1>10. \A h \in DOMAIN d : d[h] # <<>> /\ Distinct(d[h])
  BY <1>5, <1>6, <1>7
<1>11. \A h \in DOMAIN d : \A b \in Elements(d[h]) :
          (h \in DOMAIN c /\ b \in Elements(c[h])) \/ (h \in D /\ b = new[h])
  BY <1>5, <1>6, <1>7, ZenonT(30)
<1>12. \A h \in DOMAIN c : \A b \in Elements(c[h]) : b \in Elements(d[h])
  BY <1>3, <1>5, <1>7
<1>13. \A h \in D : new[h] \in Elements(d[h])
  BY <1>3, <1>5, <1>6, <1>7
<1> QED BY <1>3, <1>9, <1>10, <1>11, <1>12, <1>13 DEF Inserted

\* The places whose blocks cache_full_blocks gives a hash.
Filled(bs, from, to) == {i \in (from + 1)..to : i <= Len(bs) /\ bs[i] # NullBlock}

\* What it gives them: to[hs[i]] the block, and to the i-th block the hash.
NewlyCached(hs, bs, from, to) ==
    [h \in {hs[i] : i \in Filled(bs, from, to)} |->
        bs[CHOOSE i \in Filled(bs, from, to) : hs[i] = h]]
NewHashes(bh, hs, bs, from, to) ==
    [b \in Blocks |-> IF \E i \in Filled(bs, from, to) : bs[i] = b
                      THEN hs[CHOOSE i \in Filled(bs, from, to) : bs[i] = b] ELSE bh[b]]

(* A table of values looked up by distinct keys.                           *)
LEMMA LookUp ==
    ASSUME NEW I, NEW key, NEW val, \A i, j \in I : key[i] = key[j] => i = j, NEW i \in I
    PROVE  val[CHOOSE j \in I : key[j] = key[i]] = val[i]
<1>1. (CHOOSE j \in I : key[j] = key[i]) = i
  OBVIOUS
<1> QED BY <1>1

(* cache_full_blocks: blocks without a hash that no other request holds get *)
(* the hashes of their places.                                             *)
LEMMA CacheKeeps ==
    ASSUME NEW fq, NEW rc, NEW bh, NEW c, NEW t, NEW nc,
           Accounted(fq, rc, bh, c, t, nc), EnableCaching,
           NEW r \in Reqs, NEW from \in Nat, NEW to \in Nat, from >= nc[r], to >= from,
           NEW hs,
           \A i \in (from + 1)..to : hs[i] \in Seq(Nat) /\ hs[i] # NoHash /\ EndsAt(hs[i], i),
           NEW mc \in [Reqs -> Int], mc[r] = to, SameBut(nc, mc, r),
           NEW new, new = NewlyCached(hs, t[r], from, to),
           NEW ch, ch = NewHashes(bh, hs, t[r], from, to),
           NEW d, d = insert(c, new)
    PROVE  Accounted(fq, rc, ch, d, t, mc)
<1> DEFINE bs == t[r]
           I == Filled(bs, from, to)
           D == {hs[i] : i \in I}
<1>1. /\ bh \in [Blocks -> Seq(Nat)] /\ c \in CacheMaps
      /\ t \in [Reqs -> Seq(Blocks)] /\ nc \in [Reqs -> Int]
      /\ MapOK(c, bh) /\ InPlace(t) /\ Private(nc, t) /\ Unhashed(nc, t, bh) /\ HashPlace(t, bh)
  BY DEF Accounted, TablesOK
<1>2. /\ \A h \in DOMAIN c : c[h] # <<>> /\ Distinct(c[h])
      /\ \A h \in DOMAIN c : \A b \in Elements(c[h]) : bh[b] = h
      /\ \A b \in Blocks : bh[b] # NoHash => bh[b] \in DOMAIN c /\ b \in Elements(c[bh[b]])
      /\ bh[NullBlock] = NoHash /\ NoHash \notin DOMAIN c
  BY <1>1 DEF MapOK
<1>3. ASSUME NEW i \in I
      PROVE  /\ i \in (from + 1)..to /\ i \in Nat /\ i \in 1..Len(bs) /\ i > nc[r]
             /\ bs[i] \in Blocks /\ bs[i] # NullBlock
  <2>1. i \in (from + 1)..to /\ i <= Len(bs) /\ bs[i] # NullBlock
    BY DEF Filled
  <2>2. bs \in Seq(Blocks) /\ Len(bs) \in Nat /\ nc[r] \in Int
    BY <1>1
  <2> HIDE DEF bs
  <2>3. i \in Nat /\ i \in 1..Len(bs) /\ i > nc[r]
    BY <2>1, <2>2
  <2> QED BY <2>1, <2>2, <2>3
<1>4. \A i \in I : bh[bs[i]] = NoHash
  <2> TAKE i \in I
  <2>1. i \in 1..Len(t[r]) /\ i > nc[r]
    BY <1>3
  <2> QED BY <2>1, <1>1 DEF Unhashed
<1>5. \A i \in I : hs[i] \in Seq(Nat) /\ hs[i] # NoHash /\ EndsAt(hs[i], i)
  <2> TAKE i \in I
  <2>1. i \in (from + 1)..to
    BY <1>3
  <2> QED BY <2>1
<1>6. ASSUME NEW i \in I, NEW j \in I, hs[i] = hs[j] PROVE i = j
  <2>1. EndsAt(hs[i], i) /\ EndsAt(hs[i], j) /\ i \in Nat /\ j \in Nat
    BY <1>3, <1>5, <1>6
  <2> QED BY <2>1, EndsOnce
<1>7. ASSUME NEW q \in Reqs, NEW j \in 1..Len(t[q]), NEW i \in I, t[q][j] = bs[i]
      PROVE  q = r /\ j = i
  <2>1. i \in 1..Len(t[r]) /\ i > nc[r] /\ t[r][i] # NullBlock /\ t[r][i] = t[q][j]
    BY <1>3, <1>7
  <2>2. r = q
    BY <2>1, <1>1 DEF Private
  <2>3. i = j
    BY <2>1, <1>1 DEF InPlace
  <2> QED BY <2>2, <2>3
<1>8. \A i, j \in I : bs[i] = bs[j] => i = j
  BY <1>3, <1>7
<1>9. D \in SUBSET Seq(Nat) /\ new \in [D -> Blocks] /\ \A i \in I : hs[i] \in D /\ new[hs[i]] = bs[i]
  <2>1. new = [h \in D |-> bs[CHOOSE i \in I : hs[i] = h]]
    BY DEF NewlyCached
  <2> HIDE DEF I, bs
  <2>2. D \in SUBSET Seq(Nat)
    BY <1>5
  <2>3. ASSUME NEW i \in I PROVE hs[i] \in D /\ new[hs[i]] = bs[i]
    <3>1. hs[i] \in D
      OBVIOUS
    <3> HIDE DEF D
    <3>2. new[hs[i]] = bs[CHOOSE j \in I : hs[j] = hs[i]]
      BY <2>1, <3>1
    <3>3. bs[CHOOSE j \in I : hs[j] = hs[i]] = bs[i]
      BY <1>6, LookUp
    <3> QED BY <3>1, <3>2, <3>3
  <2>4. \A h \in D : new[h] \in Blocks
    BY <2>3, <1>3
  <2>5. new = [h \in D |-> new[h]]
    <3> HIDE DEF D
    <3> QED BY <2>1
  <2> HIDE DEF D
  <2> QED BY <2>2, <2>3, <2>4, <2>5
<1>10. /\ \A i \in I : ch[bs[i]] = hs[i]
       /\ \A b \in Blocks : (\A i \in I : bs[i] # b) => ch[b] = bh[b]
  <2>1. ch = [b \in Blocks |-> IF \E i \in I : bs[i] = b
                               THEN hs[CHOOSE i \in I : bs[i] = b] ELSE bh[b]]
    BY DEF NewHashes
  <2> HIDE DEF I, bs
  <2>2. ASSUME NEW i \in I PROVE ch[bs[i]] = hs[i]
    <3>1. bs[i] \in Blocks
      BY <1>3
    <3>2. ch[bs[i]] = hs[CHOOSE j \in I : bs[j] = bs[i]]
      BY <2>1, <3>1
    <3>3. hs[CHOOSE j \in I : bs[j] = bs[i]] = hs[i]
      BY <1>8, LookUp
    <3> QED BY <3>2, <3>3
  <2>3. \A b \in Blocks : (\A i \in I : bs[i] # b) => ch[b] = bh[b]
    BY <2>1
  <2> QED BY <2>2, <2>3
<1>11. ch \in [Blocks -> Seq(Nat)]
  <2>1. ch = [b \in Blocks |-> ch[b]]
    BY DEF NewHashes
  <2>2. \A b \in Blocks : ch[b] \in Seq(Nat)
    <3> TAKE b \in Blocks
    <3>1. CASE \E i \in I : bs[i] = b
      BY <3>1, <1>5, <1>10
    <3>2. CASE \A i \in I : bs[i] # b
      BY <3>2, <1>1, <1>10
    <3> QED BY <3>1, <3>2
  <2> QED BY <2>1, <2>2
<1>12. \A h \in DOMAIN c : \A i \in I : bs[i] \notin Elements(c[h])
  BY <1>2, <1>4
<1>13. \A h \in D : \E i \in I : h = hs[i] /\ new[h] = bs[i]
  BY <1>9
<1> HIDE DEF I, bs, D
<1>14. /\ d \in CacheMaps /\ DOMAIN d = DOMAIN c \cup D
       /\ \A h \in DOMAIN d : d[h] # <<>> /\ Distinct(d[h])
       /\ \A h \in DOMAIN d : \A b \in Elements(d[h]) :
             \/ h \in DOMAIN c /\ b \in Elements(c[h])
             \/ h \in D /\ b = new[h]
       /\ \A h \in DOMAIN c : \A b \in Elements(c[h]) : b \in Elements(d[h])
       /\ \A h \in D : new[h] \in Elements(d[h])
  <2>1. \A h \in DOMAIN c \cap D : new[h] \notin Elements(c[h])
    BY <1>12, <1>13
  <2>2. \A h \in DOMAIN c : c[h] # <<>> /\ Distinct(c[h])
    BY <1>2
  <2>3. c \in CacheMaps /\ D \in SUBSET Seq(Nat) /\ new \in [D -> Blocks]
    BY <1>1, <1>9
  <2>4. Inserted(d, c, D, new)
    BY <2>1, <2>2, <2>3, InsertFacts
  <2> QED BY <2>4 DEF Inserted
<1>15. \A h \in DOMAIN c : Elements(c[h]) \subseteq Blocks
  <2> TAKE h \in DOMAIN c
  <2>1. c[h] \in Seq(Blocks)
    BY <1>1, CacheMapsFacts
  <2> QED BY <2>1 DEF Elements
<1>16. MapOK(d, ch)
  <2>1. ASSUME NEW h \in DOMAIN d, NEW b \in Elements(d[h]) PROVE ch[b] = h
    <3>1. CASE h \in DOMAIN c /\ b \in Elements(c[h])
      <4>1. b \in Blocks /\ bh[b] = h /\ \A i \in I : bs[i] # b
        BY <3>1, <1>2, <1>12, <1>15
      <4> QED BY <4>1, <1>10
    <3>2. CASE h \in D /\ b = new[h]
      BY <3>2, <1>10, <1>13
    <3> QED BY <3>1, <3>2, <1>14
  <2>2. ASSUME NEW b \in Blocks, ch[b] # NoHash
        PROVE  ch[b] \in DOMAIN d /\ b \in Elements(d[ch[b]])
    <3>1. CASE \E i \in I : bs[i] = b
      BY <3>1, <1>9, <1>10, <1>14
    <3>2. CASE \A i \in I : bs[i] # b
      <4>1. ch[b] = bh[b]
        BY <3>2, <1>10
      <4> QED BY <4>1, <2>2, <1>2, <1>14
    <3> QED BY <3>1, <3>2
  <2>3. NullBlock \in Blocks
    BY BlockPoolAssumption DEF NullBlock, Blocks
  <2>4. ch[NullBlock] = NoHash
    BY <2>3, <1>2, <1>3, <1>10
  <2>5. NoHash \notin DOMAIN d
    BY <1>2, <1>5, <1>13, <1>14
  <2> QED BY <2>1, <2>2, <2>4, <2>5, <1>14 DEF MapOK
<1>17. \A q \in Reqs : mc[q] >= nc[q] /\ mc[q] \in Int /\ nc[q] \in Int
  <2> TAKE q \in Reqs
  <2>1. mc[q] \in Int /\ nc[q] \in Int
    BY <1>1
  <2> QED BY <2>1 DEF SameBut
<1>18. Private(mc, t)
  <2> SUFFICES ASSUME NEW p \in Reqs, NEW q \in Reqs,
                      NEW i \in 1..Len(t[p]), NEW j \in 1..Len(t[q]),
                      i > mc[p], t[p][i] = t[q][j], t[p][i] # NullBlock
               PROVE  p = q
    BY DEF Private
  <2>1. i \in Int /\ i > nc[p]
    BY <1>17
  <2> QED BY <2>1, <1>1 DEF Private
<1>19. Unhashed(mc, t, ch)
  <2> SUFFICES ASSUME NEW q \in Reqs, NEW j \in 1..Len(t[q]), j > mc[q]
               PROVE  ch[t[q][j]] = NoHash
    BY DEF Unhashed
  <2>1. j \in Int /\ j > nc[q] /\ t[q][j] \in Blocks
    BY <1>1, <1>17
  <2>2. bh[t[q][j]] = NoHash
    BY <2>1, <1>1 DEF Unhashed
  <2>3. \A i \in I : bs[i] # t[q][j]
    <3> SUFFICES ASSUME NEW i \in I, bs[i] = t[q][j] PROVE FALSE
      OBVIOUS
    <3>1. q = r /\ j = i
      BY <1>7
    <3>2. i \in (from + 1)..to /\ j > to
      BY <3>1, <1>3
    <3> QED BY <3>1, <3>2
  <2> QED BY <2>1, <2>2, <2>3, <1>10
<1>20. HashPlace(t, ch)
  <2> SUFFICES ASSUME NEW q \in Reqs, NEW j \in 1..Len(t[q]), t[q][j] # NullBlock,
                      ch[t[q][j]] # NoHash
               PROVE  EndsAt(ch[t[q][j]], j)
    BY DEF HashPlace
  <2>1. t[q][j] \in Blocks
    BY <1>1
  <2>2. ASSUME NEW i \in I, bs[i] = t[q][j] PROVE EndsAt(ch[t[q][j]], j)
    <3>1. j = i
      BY <1>7, <2>2
    <3>2. ch[t[q][j]] = hs[i]
      BY <1>10, <2>2
    <3> QED BY <3>1, <3>2, <1>5
  <2>3. CASE \A i \in I : bs[i] # t[q][j]
    <3>1. ch[t[q][j]] = bh[t[q][j]]
      BY <2>1, <2>3, <1>10
    <3>2. EndsAt(bh[t[q][j]], j)
      BY <3>1, <1>1 DEF HashPlace
    <3> QED BY <3>1, <3>2
  <2> QED BY <2>2, <2>3
<1>21. TablesOK(mc, t, ch)
  BY <1>1, <1>18, <1>19, <1>20 DEF TablesOK
<1>22. OffIsEmpty(d)
  BY DEF OffIsEmpty
<1> QED BY <1>11, <1>14, <1>16, <1>21, <1>22 DEF Accounted

-----------------------------------------------------------------------------
(* Giving blocks up. *)

(* Blocks of one table lose a holder, those left without any join the free *)
(* queue.                                                                  *)
LEMMA ReleaseKeeps ==
    ASSUME NEW fq, NEW rc, NEW bh, NEW c, NEW t, NEW nc,
           Accounted(fq, rc, bh, c, t, nc),
           NEW r \in Reqs, NEW new \in Seq(Blocks), Shrunk(t, r, new),
           NEW u \in [Reqs -> Seq(Blocks)], Updated(t, u, r, new),
           NEW mc \in [Reqs -> Int], SameBut(nc, mc, r), mc[r] = nc[r] \/ Len(new) = 0,
           NEW ordered \in Seq(Blocks), GivesUp(ordered, t, r, new),
           NEW cnt, NEW gq, Freed(fq, rc, ordered, gq, cnt)
    PROVE  Accounted(gq, cnt, bh, c, u, mc)
<1>1. /\ fq \in Seq(Blocks) /\ rc \in [Blocks -> Nat] /\ bh \in [Blocks -> Seq(Nat)]
      /\ t \in [Reqs -> Seq(Blocks)] /\ nc \in [Reqs -> Int]
      /\ Counts(rc, t) /\ FreeList(fq, rc) /\ bh[NullBlock] = NoHash /\ TablesOK(nc, t, bh)
  BY DEF Accounted, MapOK
<1>2. TablesOK(mc, u, bh)
  BY <1>1, ReleaseTables
<1>3. /\ cnt \in [Blocks -> Nat] /\ gq \in Seq(Blocks)
      /\ Counts(cnt, u) /\ FreeList(gq, cnt)
  BY <1>1, ReleaseCounts
<1> QED BY <1>2, <1>3 DEF Accounted

(* A list read backwards has the same members.                             *)
LEMMA ReverseFacts ==
    ASSUME NEW s \in Seq(Blocks), OnceEach(s)
    PROVE  /\ Reverse(s) \in Seq(Blocks) /\ OnceEach(Reverse(s))
           /\ Elements(Reverse(s)) = Elements(s)
<1> DEFINE n == Len(s)
           v == Reverse(s)
<1>1. n \in Nat /\ \A i \in 1..n : s[i] \in Blocks /\ n - i + 1 \in 1..n
  OBVIOUS
<1>2. v = [i \in 1..n |-> s[(n - i) + 1]]
  BY DEF Reverse
<1>3. v \in Seq(Blocks) /\ Len(v) = n /\ \A i \in 1..n : v[i] = s[n - i + 1]
  BY <1>1, <1>2
<1> HIDE DEF v, n
<1>4. OnceEach(v)
  <2> SUFFICES ASSUME NEW i \in 1..n, NEW j \in 1..n, v[i] = v[j], v[i] # NullBlock
               PROVE  i = j
    BY <1>3 DEF OnceEach
  <2>1. n - i + 1 \in 1..n /\ n - j + 1 \in 1..n
    BY <1>1
  <2>2. s[n - i + 1] = s[n - j + 1] /\ s[n - i + 1] # NullBlock
    BY <1>3
  <2>3. n - i + 1 = n - j + 1
    BY <2>1, <2>2 DEF OnceEach, n
  <2> QED BY <2>3, <1>1
<1>5. \A i \in 1..n : v[i] \in Elements(s)
  BY <1>1, <1>3 DEF Elements, n
<1>6. \A i \in 1..n : s[i] \in Elements(v)
  <2> TAKE i \in 1..n
  <2>1. n - i + 1 \in 1..n /\ n - (n - i + 1) + 1 = i
    BY <1>1
  <2>2. v[n - i + 1] = s[i]
    BY <2>1, <1>3
  <2> QED BY <2>1, <2>2, <1>3 DEF Elements
<1>7. Elements(v) = Elements(s)
  BY <1>3, <1>5, <1>6 DEF Elements, n
<1> QED BY <1>3, <1>4, <1>7 DEF v

-----------------------------------------------------------------------------
(* Manager values. *)

Pools == [free : Seq(Blocks), ref_cnt : [Blocks -> Nat],
          block_hash : [Blocks -> Seq(Nat)], cached : CacheMaps]
Managers == [pool : Pools, req_to_blocks : [Reqs -> Seq(Blocks)],
             known : SUBSET Reqs, num_cached_block : [Reqs -> Int]]

\* The bookkeeping of the manager kv is in order.
KVInv(kv) ==
    /\ kv \in Managers
    /\ Accounted(kv.pool.free, kv.pool.ref_cnt, kv.pool.block_hash, kv.pool.cached,
                 kv.req_to_blocks, kv.num_cached_block)

\* A manager value put together from its parts.
Manager(fq, rc, bh, c, t, known, nc) ==
    [pool |-> [free |-> fq, ref_cnt |-> rc, block_hash |-> bh, cached |-> c],
     req_to_blocks |-> t, known |-> known, num_cached_block |-> nc]

(* It is in order when its parts are.                                      *)
LEMMA PutTogether ==
    ASSUME NEW fq, NEW rc, NEW bh, NEW c, NEW t, NEW nc,
           Accounted(fq, rc, bh, c, t, nc), NEW known \in SUBSET Reqs
    PROVE  KVInv(Manager(fq, rc, bh, c, t, known, nc))
  BY DEF KVInv, Manager, Managers, Pools, Accounted

(* Every manager value is put together from its parts.                     *)
LEMMA TakenApart ==
    ASSUME NEW kv \in Managers
    PROVE  kv = Manager(kv.pool.free, kv.pool.ref_cnt, kv.pool.block_hash, kv.pool.cached,
                        kv.req_to_blocks, kv.known, kv.num_cached_block)
  BY DEF Manager, Managers, Pools

(* The parts of a manager in order.                                        *)
LEMMA InOrder ==
    ASSUME NEW kv, KVInv(kv)
    PROVE  /\ kv \in Managers /\ kv.pool \in Pools
           /\ kv.pool.free \in Seq(Blocks) /\ kv.pool.ref_cnt \in [Blocks -> Nat]
           /\ kv.pool.block_hash \in [Blocks -> Seq(Nat)] /\ kv.pool.cached \in CacheMaps
           /\ kv.req_to_blocks \in [Reqs -> Seq(Blocks)] /\ kv.known \in SUBSET Reqs
           /\ kv.num_cached_block \in [Reqs -> Int]
           /\ Accounted(kv.pool.free, kv.pool.ref_cnt, kv.pool.block_hash, kv.pool.cached,
                        kv.req_to_blocks, kv.num_cached_block)
  BY DEF KVInv, Managers, Pools

(* What free_blocks does to the parts of a pool.                           *)
LEMMA FreeBlocksParts ==
    ASSUME NEW p \in Pools, NEW ordered, NEW q, q = free_blocks(p, ordered)
    PROVE  /\ Freed(p.free, p.ref_cnt, ordered, q.free, q.ref_cnt)
           /\ q = [free |-> q.free, ref_cnt |-> q.ref_cnt,
                   block_hash |-> p.block_hash, cached |-> p.cached]
<1> DEFINE cnt == [b \in Blocks |-> p.ref_cnt[b] - Times(ordered, b)]
           gq == p.free \o Only(ordered, {b \in Blocks \ {NullBlock} : cnt[b] = 0})
<1>1. q = [p EXCEPT !.ref_cnt = cnt, !.free = gq]
  BY DEF free_blocks, Times
<1> HIDE DEF cnt, gq
<1>2. q = [free |-> gq, ref_cnt |-> cnt, block_hash |-> p.block_hash, cached |-> p.cached]
  BY <1>1 DEF Pools
<1>3. q.free = gq /\ q.ref_cnt = cnt
  BY <1>2
<1>4. Freed(p.free, p.ref_cnt, ordered, gq, cnt)
  BY DEF Freed, cnt, gq
<1> QED BY <1>2, <1>3, <1>4

(* A block is in a table once.                                             *)
LEMMA TableOnce ==
    ASSUME NEW kv, KVInv(kv), NEW r \in Reqs
    PROVE  OnceEach(kv.req_to_blocks[r])
  BY DEF KVInv, Accounted, TablesOK, InPlace, OnceEach

(* free gives up all blocks of a request.                                  *)
LEMMA FreeKeeps ==
    ASSUME NEW kv, KVInv(kv), NEW r \in Reqs
    PROVE  KVInv(free(kv, r))
<1> DEFINE p == kv.pool
           t == kv.req_to_blocks
           nc == kv.num_cached_block
           bs == t[r]
           ordered == Reverse(bs)
           q == free_blocks(p, ordered)
           u == [t EXCEPT ![r] = <<>>]
           mc == [nc EXCEPT ![r] = Untracked]
<1>1. /\ kv \in Managers /\ p \in Pools /\ t \in [Reqs -> Seq(Blocks)] /\ nc \in [Reqs -> Int]
      /\ Accounted(p.free, p.ref_cnt, p.block_hash, p.cached, t, nc) /\ kv.known \in SUBSET Reqs
  BY InOrder
<1>2. bs \in Seq(Blocks) /\ OnceEach(bs)
  BY <1>1, TableOnce
<1>3. ordered \in Seq(Blocks) /\ OnceEach(ordered) /\ Elements(ordered) = Elements(bs)
  <2> HIDE DEF bs
  <2> QED BY <1>2, ReverseFacts
<1>4. free(kv, r) = [kv EXCEPT !.pool = q, !.req_to_blocks = u, !.known = @ \ {r},
                               !.num_cached_block = mc]
  BY DEF free
<1>5. u \in [Reqs -> Seq(Blocks)] /\ Updated(t, u, r, <<>>)
  BY <1>1 DEF Updated
<1>6. mc \in [Reqs -> Int] /\ SameBut(nc, mc, r)
  BY <1>1 DEF SameBut, Untracked
<1>7. /\ Freed(p.free, p.ref_cnt, ordered, q.free, q.ref_cnt)
      /\ q = [free |-> q.free, ref_cnt |-> q.ref_cnt,
              block_hash |-> p.block_hash, cached |-> p.cached]
  <2> HIDE DEF p, ordered
  <2> QED BY <1>1, FreeBlocksParts
<1>8. <<>> \in Seq(Blocks) /\ Len(<<>>) = 0 /\ Elements(<<>>) = {}
  BY DEF Elements
<1>9. Shrunk(t, r, <<>>) /\ GivesUp(ordered, t, r, <<>>)
  BY <1>3, <1>8 DEF Shrunk, GivesUp
<1> HIDE DEF u, mc, q, ordered, bs, t, nc, p
<1>10. Accounted(q.free, q.ref_cnt, p.block_hash, p.cached, u, mc)
  BY <1>1, <1>3, <1>5, <1>6, <1>7, <1>8, <1>9, ReleaseKeeps
<1>11. free(kv, r) = Manager(q.free, q.ref_cnt, p.block_hash, p.cached, u, kv.known \ {r}, mc)
  <2>1. free(kv, r) = [pool |-> q, req_to_blocks |-> u, known |-> kv.known \ {r},
                       num_cached_block |-> mc]
    BY <1>1, <1>4 DEF Managers
  <2> QED BY <2>1, <1>7 DEF Manager
<1>12. kv.known \ {r} \in SUBSET Reqs
  BY <1>1
<1>13. KVInv(Manager(q.free, q.ref_cnt, p.block_hash, p.cached, u, kv.known \ {r}, mc))
  BY <1>10, <1>12, PutTogether
<1> QED BY <1>11, <1>13

(* The number of tokens, and of blocks, that have left the window.         *)
LEMMA SkippedBlocks ==
    ASSUME NEW n \in Int
    PROVE  get_num_skipped_tokens(n) \in Nat /\ get_num_skipped_tokens(n) \div BlockSize \in Nat
<1>1. SlidingWindow \in Nat /\ BlockSize \in Nat /\ BlockSize > 0
  BY KVCacheManagerAssumption
<1>2. get_num_skipped_tokens(n) \in Nat
  BY <1>1 DEF get_num_skipped_tokens, MaxOf
<1> QED BY <1>1, <1>2, DivFacts

(* remove_skipped_blocks gives up the blocks that left the window.         *)
LEMMA RemoveSkippedKeeps ==
    ASSUME NEW kv, KVInv(kv), NEW r \in Reqs, NEW n \in Int
    PROVE  /\ KVInv(remove_skipped_blocks(kv, r, n))
           /\ remove_skipped_blocks(kv, r, n).num_cached_block = kv.num_cached_block
           /\ remove_skipped_blocks(kv, r, n).pool.block_hash = kv.pool.block_hash
           /\ remove_skipped_blocks(kv, r, n).pool.cached = kv.pool.cached
           /\ Len(remove_skipped_blocks(kv, r, n).req_to_blocks[r]) = Len(kv.req_to_blocks[r])
<1> DEFINE p == kv.pool
           t == kv.req_to_blocks
           nc == kv.num_cached_block
           bs == t[r]
           skipped == MinOf(get_num_skipped_tokens(n) \div BlockSize, Len(bs))
           nulls == {i \in 1..skipped : bs[i] = NullBlock}
           last == IF nulls = {} THEN 0 ELSE CHOOSE i \in nulls : \A j \in nulls : j <= i
           some == SubSeq(bs, last + 1, skipped)
           ordered == Reverse(some)
           q == free_blocks(p, ordered)
           new == [i \in DOMAIN bs |-> IF i \in (last + 1)..skipped THEN NullBlock ELSE bs[i]]
           u == [t EXCEPT ![r] = new]
<1>1. /\ kv \in Managers /\ p \in Pools /\ t \in [Reqs -> Seq(Blocks)] /\ nc \in [Reqs -> Int]
      /\ Accounted(p.free, p.ref_cnt, p.block_hash, p.cached, t, nc) /\ kv.known \in SUBSET Reqs
  BY InOrder
<1>2. bs \in Seq(Blocks) /\ OnceEach(bs) /\ Len(bs) \in Nat /\ DOMAIN bs = 1..Len(bs)
  BY <1>1, TableOnce
<1>3. remove_skipped_blocks(kv, r, n) = [kv EXCEPT !.pool = q, !.req_to_blocks = u]
  BY DEF remove_skipped_blocks
<1> HIDE DEF bs
<1>4. skipped \in 0..Len(bs)
  BY <1>2, SkippedBlocks DEF MinOf
<1> HIDE DEF skipped
<1>5. last \in 0..skipped /\ \A i \in (last + 1)..skipped : i \in 1..Len(bs) /\ bs[i] # NullBlock
  <2>1. CASE nulls = {}
    <3>1. last = 0
      BY <2>1
    <3>2. \A i \in 1..skipped : bs[i] # NullBlock /\ i \in 1..Len(bs)
      BY <2>1, <1>2, <1>4
    <3> HIDE DEF last
    <3> QED BY <3>1, <3>2, <1>2, <1>4
  <2>2. CASE nulls # {}
    <3>1. nulls \in SUBSET Nat /\ \A i \in nulls : i <= skipped
      BY <1>2, <1>4
    <3>2. skipped \in Nat
      BY <1>2, <1>4
    <3> HIDE DEF nulls
    <3>3. \E m \in nulls : \A k \in nulls : k <= m
      BY <2>2, <3>1, <3>2, GreatestElement
    <3>4. last \in nulls /\ \A j \in nulls : j <= last
      BY <2>2, <3>3
    <3> HIDE DEF last
    <3>5. last \in 1..skipped
      BY <3>4 DEF nulls
    <3>6. ASSUME NEW i \in (last + 1)..skipped PROVE i \in 1..Len(bs) /\ bs[i] # NullBlock
      <4>1. i \in 1..skipped /\ i \in 1..Len(bs) /\ ~(i <= last)
        BY <3>5, <1>2, <1>4
      <4> QED BY <4>1, <3>4 DEF nulls
    <3> QED BY <3>5, <3>6
  <2> QED BY <2>1, <2>2
<1> HIDE DEF last
<1> DEFINE m == skipped - last
<1>6. m \in Nat /\ last \in Nat /\ last + m = skipped /\ skipped \in Nat /\ skipped <= Len(bs)
  BY <1>2, <1>4, <1>5
<1>7. /\ some \in Seq(Blocks) /\ Len(some) = m
      /\ \A i \in 1..m : some[i] = bs[last + i] /\ last + i \in (last + 1)..skipped
  BY <1>2, <1>6
<1> HIDE DEF some
<1>8. OnceEach(some)
  <2> SUFFICES ASSUME NEW i \in 1..m, NEW j \in 1..m, some[i] = some[j], some[i] # NullBlock
               PROVE  i = j
    BY <1>7 DEF OnceEach
  <2>1. last + i \in 1..Len(bs) /\ last + j \in 1..Len(bs)
    BY <1>5, <1>7
  <2>2. bs[last + i] = bs[last + j] /\ bs[last + i] # NullBlock
    BY <1>7
  <2>3. last + i = last + j
    BY <2>1, <2>2, <1>2 DEF OnceEach
  <2> QED BY <2>3, <1>6
<1>9. ordered \in Seq(Blocks) /\ OnceEach(ordered) /\ Elements(ordered) = Elements(some)
  BY <1>7, <1>8, ReverseFacts
<1>10. \A x : x \in Elements(some) <=> \E i \in (last + 1)..skipped : x = bs[i]
  <2>1. \A i \in 1..m : \E j \in (last + 1)..skipped : some[i] = bs[j]
    BY <1>7
  <2>2. ASSUME NEW j \in (last + 1)..skipped PROVE bs[j] \in Elements(some)
    <3>1. j - last \in 1..m /\ last + (j - last) = j
      BY <1>6
    <3>2. some[j - last] = bs[j]
      BY <3>1, <1>7
    <3> QED BY <3>1, <3>2, <1>7 DEF Elements
  <2> QED BY <2>1, <2>2, <1>7 DEF Elements
<1>11. /\ new \in Seq(Blocks) /\ Len(new) = Len(bs)
       /\ \A i \in 1..Len(bs) : new[i] = IF i \in (last + 1)..skipped THEN NullBlock ELSE bs[i]
  <2>1. NullBlock \in Blocks
    BY BlockPoolAssumption DEF NullBlock, Blocks
  <2>2. new = [i \in 1..Len(bs) |-> IF i \in (last + 1)..skipped THEN NullBlock ELSE bs[i]]
    BY <1>2
  <2>3. \A i \in 1..Len(bs) : bs[i] \in Blocks
    BY <1>2
  <2> QED BY <2>1, <2>2, <2>3, <1>2
<1> HIDE DEF new, m
<1>12. Shrunk(t, r, new)
  BY <1>11 DEF Shrunk, bs
<1>13. GivesUp(ordered, t, r, new)
  <2>1. ASSUME NEW b \in Blocks \ {NullBlock}, b \in Elements(new) PROVE b \in Elements(bs)
    BY <2>1, <1>11 DEF Elements
  <2>2. ASSUME NEW b \in Blocks \ {NullBlock}, b \in Elements(ordered)
        PROVE  b \in Elements(bs) /\ b \notin Elements(new)
    <3>1. PICK i \in (last + 1)..skipped : b = bs[i]
      BY <2>2, <1>9, <1>10
    <3>2. i \in 1..Len(bs)
      BY <1>5
    <3>3. ASSUME NEW j \in 1..Len(bs), new[j] = b PROVE FALSE
      <4>1. j \notin (last + 1)..skipped /\ bs[j] = b
        BY <3>3, <1>11
      <4>2. j = i
        BY <4>1, <3>1, <3>2, <1>2 DEF OnceEach
      <4> QED BY <4>1, <4>2
    <3> QED BY <3>1, <3>2, <3>3, <1>11 DEF Elements
  <2>3. ASSUME NEW b \in Blocks \ {NullBlock}, b \in Elements(bs), b \notin Elements(new)
        PROVE  b \in Elements(ordered)
    <3>1. PICK i \in 1..Len(bs) : b = bs[i]
      BY <2>3 DEF Elements
    <3>2. new[i] # b
      BY <2>3, <1>11 DEF Elements
    <3>3. i \in (last + 1)..skipped
      BY <3>1, <3>2, <1>11
    <3> QED BY <3>1, <3>3, <1>9, <1>10
  <2> QED BY <2>1, <2>2, <2>3, <1>9 DEF GivesUp, bs
<1>14. u \in [Reqs -> Seq(Blocks)] /\ Updated(t, u, r, new) /\ u[r] = new
  BY <1>1, <1>11 DEF Updated
<1>15. SameBut(nc, nc, r)
  BY DEF SameBut
<1>16. /\ Freed(p.free, p.ref_cnt, ordered, q.free, q.ref_cnt)
       /\ q = [free |-> q.free, ref_cnt |-> q.ref_cnt,
               block_hash |-> p.block_hash, cached |-> p.cached]
  <2> HIDE DEF p, ordered
  <2> QED BY <1>1, FreeBlocksParts
<1> HIDE DEF u, q, ordered, t, nc, p
<1>17. Accounted(q.free, q.ref_cnt, p.block_hash, p.cached, u, nc)
  BY <1>1, <1>9, <1>11, <1>12, <1>13, <1>14, <1>15, <1>16, ReleaseKeeps
<1>18. remove_skipped_blocks(kv, r, n) = [pool |-> q, req_to_blocks |-> u, known |-> kv.known,
                                          num_cached_block |-> nc]
  BY <1>1, <1>3 DEF Managers, nc
<1>19. remove_skipped_blocks(kv, r, n)
          = Manager(q.free, q.ref_cnt, p.block_hash, p.cached, u, kv.known, nc)
  BY <1>18, <1>16 DEF Manager
<1>20. KVInv(Manager(q.free, q.ref_cnt, p.block_hash, p.cached, u, kv.known, nc))
  BY <1>1, <1>17, PutTogether
<1>21. /\ remove_skipped_blocks(kv, r, n).num_cached_block = nc
       /\ remove_skipped_blocks(kv, r, n).pool.block_hash = p.block_hash
       /\ remove_skipped_blocks(kv, r, n).pool.cached = p.cached
       /\ remove_skipped_blocks(kv, r, n).req_to_blocks[r] = new
  BY <1>14, <1>19 DEF Manager
<1>22. Len(remove_skipped_blocks(kv, r, n).req_to_blocks[r]) = Len(kv.req_to_blocks[r])
  BY <1>21, <1>11 DEF bs, t
<1> QED BY <1>19, <1>20, <1>21, <1>22 DEF nc, p

-----------------------------------------------------------------------------
(* Taking new blocks. *)

\* The pool q is p without the hashes of the blocks of S, and in order.
Evicted(p, S, q, t, nc) ==
    /\ q = [free |-> p.free, ref_cnt |-> p.ref_cnt,
            block_hash |-> q.block_hash, cached |-> q.cached]
    /\ Accounted(p.free, p.ref_cnt, q.block_hash, q.cached, t, nc)
    /\ \A b \in S : q.block_hash[b] = NoHash

(* What evict_blocks does to the parts of a pool.                          *)
LEMMA EvictBlocksKeeps ==
    ASSUME NEW p \in Pools, NEW t, NEW nc,
           Accounted(p.free, p.ref_cnt, p.block_hash, p.cached, t, nc),
           NEW S \in SUBSET Blocks, NEW q, q = evict_blocks(p, S)
    PROVE  Evicted(p, S, q, t, nc)
<1> DEFINE bh == p.block_hash
           c == p.cached
           L == {b \in S : bh[b] \in DOMAIN c /\ b \in Elements(c[bh[b]])}
           ch == [b \in Blocks |-> IF b \in L THEN NoHash ELSE bh[b]]
<1>1. q = [p EXCEPT !.cached = pop(c, L), !.block_hash = ch]
  BY DEF evict_blocks
<1> HIDE DEF ch
<1>2. q = [free |-> p.free, ref_cnt |-> p.ref_cnt, block_hash |-> ch, cached |-> pop(c, L)]
  BY <1>1 DEF Pools
<1>3. q.block_hash = ch /\ q.cached = pop(c, L)
  BY <1>2
<1>4. L = {b \in S : bh[b] \in DOMAIN c /\ b \in Elements(c[bh[b]])}
  OBVIOUS
<1>5. ch = [b \in Blocks |-> IF b \in L THEN NoHash ELSE bh[b]]
  BY DEF ch
<1> HIDE DEF L, bh, c
<1>6. Accounted(p.free, p.ref_cnt, bh, c, t, nc)
  BY DEF bh, c
<1>7. Accounted(p.free, p.ref_cnt, ch, pop(c, L), t, nc) /\ \A b \in S : ch[b] = NoHash
  BY <1>4, <1>5, <1>6, EvictKeeps
<1> QED BY <1>2, <1>3, <1>7 DEF Evicted

(* get_new_blocks: the blocks it returns join the end of a table.          *)
LEMMA TakeKeeps ==
    ASSUME NEW p \in Pools, NEW t, NEW nc,
           Accounted(p.free, p.ref_cnt, p.block_hash, p.cached, t, nc),
           NEW r \in Reqs, NEW n \in Int,
           NEW q, q = get_new_blocks(p, n), NEW ret, ret = NewBlocks(p, n),
           NEW u \in [Reqs -> Seq(Blocks)], Updated(t, u, r, t[r] \o ret)
    PROVE  /\ q = [free |-> q.free, ref_cnt |-> q.ref_cnt,
                   block_hash |-> q.block_hash, cached |-> q.cached]
           /\ Accounted(q.free, q.ref_cnt, q.block_hash, q.cached, u, nc)
<1> DEFINE fq == p.free
           rc == p.ref_cnt
           m == IF n <= Len(fq) THEN (IF n <= 0 THEN 0 ELSE n) ELSE Len(fq)
           S == Elements(ret)
           q1 == IF EnableCaching THEN evict_blocks(p, S) ELSE p
           rest == SubSeq(fq, m + 1, Len(fq))
           cnt == [b \in Blocks |-> IF b \in S THEN rc[b] + 1 ELSE rc[b]]
<1>1. /\ fq \in Seq(Blocks) /\ rc \in [Blocks -> Nat] /\ p.block_hash \in [Blocks -> Seq(Nat)]
      /\ t \in [Reqs -> Seq(Blocks)] /\ nc \in [Reqs -> Int]
      /\ Counts(rc, t) /\ FreeList(fq, rc)
  BY DEF Accounted
<1>2. m \in 0..Len(fq) /\ Len(fq) \in Nat
  BY <1>1
<1>3. ret = SubSeq(fq, 1, m)
  <2>1. CASE n > 0
    BY <2>1, <1>1 DEF NewBlocks
  <2>2. CASE n <= 0
    <3>1. ret = SubSeq(fq, 1, n)
      BY <2>2, <1>1, <1>2 DEF NewBlocks
    <3>2. SubSeq(fq, 1, n) = <<>> /\ SubSeq(fq, 1, 0) = <<>> /\ m = 0
      BY <2>2, <1>1, <1>2
    <3> QED BY <3>1, <3>2
  <2> QED BY <2>1, <2>2
<1>4. Distinct(fq) /\ Elements(fq) = {b \in Blocks \ {NullBlock} : rc[b] = 0}
  BY <1>1 DEF FreeList
<1> HIDE DEF m, fq
<1>5. /\ ret \in Seq(Blocks) /\ Len(ret) = m /\ Distinct(ret)
      /\ rest \in Seq(Blocks) /\ Distinct(rest)
      /\ S \subseteq Elements(fq) /\ Elements(rest) = Elements(fq) \ S
      /\ Cardinality(S) = m
  <2>1. Split(fq, m, SubSeq(fq, 1, m), rest)
    BY <1>1, <1>2, <1>4, SplitQueue
  <2>2. Split(fq, m, ret, rest)
    BY <2>1, <1>3
  <2> HIDE DEF rest
  <2> QED BY <2>2 DEF Split
<1>6. S \in SUBSET Blocks
  BY <1>4, <1>5
<1>7. /\ q1 = [free |-> fq, ref_cnt |-> rc, block_hash |-> q1.block_hash, cached |-> q1.cached]
      /\ Accounted(fq, rc, q1.block_hash, q1.cached, t, nc)
      /\ \A b \in S : q1.block_hash[b] = NoHash
  <2> HIDE DEF S
  <2>1. CASE EnableCaching
    <3>1. q1 = evict_blocks(p, S)
      BY <2>1
    <3> HIDE DEF q1
    <3>2. Evicted(p, S, q1, t, nc)
      BY <3>1, <1>6, EvictBlocksKeeps
    <3> QED BY <3>2 DEF Evicted, fq
  <2>2. CASE ~EnableCaching
    <3>1. q1 = p
      BY <2>2
    <3>2. \A b \in S : p.block_hash[b] = NoHash
      BY <2>2, <1>6, OffHasNoHashes
    <3> QED BY <3>1, <3>2 DEF Pools, fq
  <2> QED BY <2>1, <2>2
<1>8. q = [q1 EXCEPT !.free = SubSeq(@, Cardinality(S) + 1, Len(@)),
                     !.ref_cnt = [b \in Blocks |-> IF b \in S THEN @[b] + 1 ELSE @[b]]]
  BY DEF get_new_blocks
<1> HIDE DEF q1
<1>9. q1.free = fq /\ q1.ref_cnt = rc
  BY <1>7
<1>10. SubSeq(q1.free, Cardinality(S) + 1, Len(q1.free)) = rest
  BY <1>5, <1>9
<1>11. [b \in Blocks |-> IF b \in S THEN q1.ref_cnt[b] + 1 ELSE q1.ref_cnt[b]] = cnt
  BY <1>9
<1>12. q = [q1 EXCEPT !.free = rest, !.ref_cnt = cnt]
  BY <1>8, <1>10, <1>11
<1>13. Taken(rc, ret, cnt)
  BY DEF Taken
<1> HIDE DEF rest, cnt, rc
<1>14. q = [free |-> rest, ref_cnt |-> cnt, block_hash |-> q1.block_hash, cached |-> q1.cached]
  <2> DEFINE x == q1.block_hash
             y == q1.cached
  <2>1. q1 = [free |-> fq, ref_cnt |-> rc, block_hash |-> x, cached |-> y]
    BY <1>7
  <2> HIDE DEF x, y
  <2>2. q = [free |-> rest, ref_cnt |-> cnt, block_hash |-> x, cached |-> y]
    BY <2>1, <1>12
  <2> QED BY <2>2 DEF x, y
<1>15. q.free = rest /\ q.ref_cnt = cnt /\ q.block_hash = q1.block_hash /\ q.cached = q1.cached
  BY <1>14
<1> DEFINE new == t[r] \o ret
<1>16. new \in Seq(Blocks) /\ Elements(new) = Elements(t[r]) \cup S
  <2> DEFINE s == t[r]
  <2>1. s \in Seq(Blocks)
    BY <1>1
  <2> HIDE DEF s, S
  <2>2. s \o ret \in Seq(Blocks) /\ Elements(s \o ret) = Elements(s) \cup Elements(ret)
    BY <2>1, <1>5, ConcatElements
  <2> QED BY <2>2 DEF s, S
<1>17. Updated(t, u, r, new)
  OBVIOUS
<1> HIDE DEF new
<1>18. /\ cnt \in [Blocks -> Nat] /\ Counts(cnt, u) /\ FreeList(rest, cnt)
       /\ \A b \in S : Holders(t, b) = {}
  BY <1>1, <1>5, <1>13, <1>16, <1>17, TakeCounts
<1> DEFINE ch == q1.block_hash
<1>19. Unused(ret, t, ch)
  BY <1>7, <1>18 DEF Unused
<1>20. ch \in [Blocks -> Seq(Nat)] /\ TablesOK(nc, t, ch)
  BY <1>7 DEF Accounted
<1>21. TablesOK(nc, u, ch)
  <2> HIDE DEF ch
  <2> QED BY <1>1, <1>5, <1>19, <1>20, TakeTables
<1>22. Accounted(rest, cnt, ch, q1.cached, u, nc)
  BY <1>1, <1>5, <1>7, <1>18, <1>21 DEF Accounted
<1> QED BY <1>14, <1>15, <1>22

(* Rounding up.                                                            *)
LEMMA CdivType ==
    ASSUME NEW n \in Int
    PROVE  cdiv(n, BlockSize) \in Int /\ (n \in Nat => cdiv(n, BlockSize) \in Nat)
<1>1. BlockSize \in Nat /\ BlockSize > 0
  BY KVCacheManagerAssumption
<1>2. n + BlockSize - 1 \in Int /\ (n \in Nat => n + BlockSize - 1 \in Nat)
  BY <1>1
<1>3. cdiv(n, BlockSize) \in Int
  BY <1>1, <1>2, DivInt DEF cdiv
<1>4. n \in Nat => cdiv(n, BlockSize) \in Nat
  BY <1>1, <1>2, DivFacts DEF cdiv
<1> QED BY <1>3, <1>4

(* allocate_new_blocks appends new blocks to a table.                      *)
LEMMA AllocateNewKeeps ==
    ASSUME NEW kv, KVInv(kv), NEW r \in Reqs, NEW num_tokens \in Int
    PROVE  KVInv(allocate_new_blocks(kv, r, num_tokens))
<1> DEFINE p == kv.pool
           t == kv.req_to_blocks
           nc == kv.num_cached_block
           bs == t[r]
           n == MaxOf(cdiv(num_tokens, BlockSize) - Len(bs), 0)
           ret == NewBlocks(p, n)
           q == get_new_blocks(p, n)
           u == [t EXCEPT ![r] = bs \o ret]
<1>1. /\ kv \in Managers /\ p \in Pools /\ t \in [Reqs -> Seq(Blocks)] /\ nc \in [Reqs -> Int]
      /\ Accounted(p.free, p.ref_cnt, p.block_hash, p.cached, t, nc) /\ kv.known \in SUBSET Reqs
  BY InOrder
<1>2. bs \in Seq(Blocks) /\ Len(bs) \in Nat
  BY <1>1
<1>3. n \in Int
  <2>1. cdiv(num_tokens, BlockSize) \in Int
    BY CdivType
  <2> QED BY <2>1, <1>2 DEF MaxOf
<1>4. allocate_new_blocks(kv, r, num_tokens)
         = [kv EXCEPT !.pool = q, !.req_to_blocks = u, !.known = @ \cup {r}]
  BY DEF allocate_new_blocks
<1> HIDE DEF n
<1>5. ret \in Seq(Blocks)
  <2>1. p.free \in Seq(Blocks) /\ Len(p.free) \in Nat
    BY <1>1 DEF Pools
  <2>2. \A m \in Int : m <= Len(p.free) => SubSeq(p.free, 1, m) \in Seq(Blocks)
    BY <2>1
  <2> QED BY <2>1, <2>2, <1>3 DEF NewBlocks
<1> HIDE DEF ret, q
<1>6. u \in [Reqs -> Seq(Blocks)] /\ Updated(t, u, r, t[r] \o ret)
  <2>1. bs \o ret \in Seq(Blocks)
    <3> HIDE DEF bs
    <3> QED BY <1>2, <1>5, ConcatElements
  <2> QED BY <2>1, <1>1 DEF Updated
<1> HIDE DEF u, p, t, nc
<1>7. /\ q = [free |-> q.free, ref_cnt |-> q.ref_cnt,
              block_hash |-> q.block_hash, cached |-> q.cached]
      /\ Accounted(q.free, q.ref_cnt, q.block_hash, q.cached, u, nc)
  BY <1>1, <1>3, <1>6, TakeKeeps DEF q, ret
<1>8. allocate_new_blocks(kv, r, num_tokens)
         = [pool |-> q, req_to_blocks |-> u, known |-> kv.known \cup {r},
            num_cached_block |-> nc]
  BY <1>1, <1>4 DEF Managers, nc
<1> DEFINE known == kv.known \cup {r}
<1>9. known \in SUBSET Reqs
  BY <1>1
<1>10. allocate_new_blocks(kv, r, num_tokens)
         = Manager(q.free, q.ref_cnt, q.block_hash, q.cached, u, known, nc)
  BY <1>7, <1>8 DEF Manager
<1> HIDE DEF known
<1> QED BY <1>1, <1>6, <1>7, <1>9, <1>10, PutTogether

-----------------------------------------------------------------------------
(* Prefix cache hits. *)

(* The hashes of a request's full blocks tell their places.                *)
LEMMA BlockHashesFacts ==
    ASSUME NEW tokens \in Seq(Nat), NEW i \in 1..(Len(tokens) \div BlockSize)
    PROVE  LET hs == block_hashes(tokens) IN
           hs[i] \in Seq(Nat) /\ hs[i] # NoHash /\ EndsAt(hs[i], i)
<1> DEFINE d == Len(tokens) \div BlockSize
           k == i * BlockSize
<1>1. BlockSize \in Nat /\ BlockSize > 0 /\ Len(tokens) \in Nat /\ NoHash = <<>>
  BY KVCacheManagerAssumption
<1>2. d \in Nat /\ d * BlockSize <= Len(tokens)
  BY <1>1, DivFacts
<1>3. block_hashes(tokens)[i] = SubSeq(tokens, 1, k)
  BY DEF block_hashes
<1> HIDE DEF d
<1>4. i \in Nat /\ i <= d /\ 1 <= i
  BY <1>2 DEF d
<1>5. k \in Nat /\ k <= Len(tokens)
  <2> DEFINE e == d * BlockSize
  <2>1. k \in Nat /\ e \in Nat /\ k <= e
    BY <1>1, <1>2, <1>4, TimesMonotone
  <2>2. e <= Len(tokens)
    BY <1>2
  <2> HIDE DEF e, k
  <2> QED BY <2>1, <2>2, <1>1
<1>6. k > 0
  <2>1. k # 0
    BY <1>1, <1>4, TimesMonotone
  <2> QED BY <2>1, <1>5
<1>7. EndsAt(SubSeq(tokens, 1, k), i) <=> Len(SubSeq(tokens, 1, k)) = k
  BY DEF EndsAt
<1> HIDE DEF k
<1>8. SubSeq(tokens, 1, k) \in Seq(Nat) /\ Len(SubSeq(tokens, 1, k)) = k
  BY <1>1, <1>5, <1>6
<1>9. SubSeq(tokens, 1, k) # <<>>
  <2>1. Len(<<>>) = 0
    OBVIOUS
  <2>2. Len(SubSeq(tokens, 1, k)) # 0
    BY <1>5, <1>6, <1>8
  <2> QED BY <2>1, <2>2
<1> QED BY <1>1, <1>3, <1>7, <1>8, <1>9

\* hit lists, for the i-th hash, null blocks or a cached block.
HitsIn(hit, p, hs) ==
    \A i \in 1..Len(hit) :
        hit[i] = NullBlock \/ (IsCached(p, hs[i]) /\ hit[i] = get_cached_block(p, hs[i]))

(* DropLast leaves a prefix.                                               *)
LEMMA DropLastFacts ==
    ASSUME NEW s \in Seq(Blocks), NEW n \in Nat
    PROVE  /\ DropLast(s, n) \in Seq(Blocks) /\ Len(DropLast(s, n)) <= Len(s)
           /\ \A i \in 1..Len(DropLast(s, n)) : i \in 1..Len(s) /\ DropLast(s, n)[i] = s[i]
<1> DEFINE m == MaxOf(Len(s) - n, 0)
<1>1. m \in Nat /\ m <= Len(s) /\ Len(s) \in Nat
  BY DEF MaxOf
<1>2. DropLast(s, n) = SubSeq(s, 1, m)
  BY DEF DropLast
<1> HIDE DEF m
<1> QED BY <1>1, <1>2

(* The largest hit of consecutive blocks from the first on.                *)
LEMMA LongestPrefix ==
    ASSUME NEW p, NEW hs, NEW limit \in Nat, NEW n,
           n = CHOOSE k \in 0..limit :
                  /\ \A i \in 1..k : IsCached(p, hs[i])
                  /\ k < limit => ~IsCached(p, hs[k + 1])
    PROVE  n \in 0..limit /\ \A i \in 1..n : IsCached(p, hs[i])
<1> DEFINE T == {k \in 0..limit : \A i \in 1..k : IsCached(p, hs[i])}
           P(k) == /\ \A i \in 1..k : IsCached(p, hs[i])
                   /\ k < limit => ~IsCached(p, hs[k + 1])
<1>1. T \in SUBSET Nat /\ 0 \in T /\ \A k \in T : k <= limit
  OBVIOUS
<1> HIDE DEF T
<1>2. PICK m \in T : \A k \in T : k <= m
  BY <1>1, GreatestElement
<1>3. m \in 0..limit /\ \A i \in 1..m : IsCached(p, hs[i])
  BY <1>2 DEF T
<1>4. m < limit => ~IsCached(p, hs[m + 1])
  <2> SUFFICES ASSUME m < limit, IsCached(p, hs[m + 1]) PROVE FALSE
    OBVIOUS
  <2>1. m + 1 \in 0..limit /\ \A i \in 1..(m + 1) : IsCached(p, hs[i])
    BY <1>3
  <2>2. m + 1 \in T
    BY <2>1 DEF T
  <2> QED BY <2>2, <1>2, <1>3
<1>5. \E k \in 0..limit : P(k)
  BY <1>3, <1>4
<1>6. n = CHOOSE k \in 0..limit : P(k)
  OBVIOUS
<1>7. n \in 0..limit /\ P(n)
  <2> HIDE DEF P
  <2> QED BY <1>5, <1>6
<1> QED BY <1>7

(* The block a cached hash leads to.                                       *)
LEMMA CachedBlock ==
    ASSUME NEW p \in Pools, MapOK(p.cached, p.block_hash), NEW h, IsCached(p, h)
    PROVE  get_cached_block(p, h) \in Blocks /\ p.block_hash[get_cached_block(p, h)] = h
<1> DEFINE c == p.cached
           s == c[h]
<1>1. c \in CacheMaps /\ h \in DOMAIN c /\ s # <<>>
  BY DEF Pools, IsCached, MapOK
<1>2. s \in Seq(Blocks)
  BY <1>1, CacheMapsFacts
<1> HIDE DEF s
<1>3. Len(s) \in Nat /\ Len(s) # 0
  BY <1>1, <1>2
<1>4. Head(s) = s[1] /\ s[1] \in Blocks /\ 1 \in 1..Len(s)
  BY <1>1, <1>2, <1>3
<1>5. Head(s) \in Elements(s) /\ Head(s) \in Blocks
  BY <1>4 DEF Elements
<1>6. p.block_hash[Head(s)] = h
  BY <1>1, <1>5 DEF MapOK, s
<1> QED BY <1>5, <1>6 DEF get_cached_block, s

\* hit is what a request with these tokens may take from the pool's cache.
GoodHit(hit, p, tokens) ==
    /\ hit \in Seq(Blocks) /\ Len(hit) <= (Len(tokens) - 1) \div BlockSize
    /\ HitsIn(hit, p, block_hashes(tokens))

(* It stays one when its end is dropped.                                   *)
LEMMA DroppedHit ==
    ASSUME NEW p, NEW tokens \in Seq(Nat), Len(tokens) >= 1, NEW hit, GoodHit(hit, p, tokens),
           NEW n \in Nat
    PROVE  GoodHit(DropLast(hit, n), p, tokens)
<1> DEFINE s == DropLast(hit, n)
           d == (Len(tokens) - 1) \div BlockSize
<1>1. BlockSize \in Nat /\ BlockSize > 0 /\ Len(tokens) - 1 \in Nat
  BY KVCacheManagerAssumption
<1>2. d \in Nat
  BY <1>1, DivFacts
<1>3. hit \in Seq(Blocks) /\ Len(hit) \in Nat /\ Len(hit) <= d
  BY DEF GoodHit
<1>4. s \in Seq(Blocks) /\ Len(s) <= Len(hit) /\ \A i \in 1..Len(s) : i \in 1..Len(hit) /\ s[i] = hit[i]
  BY <1>3, DropLastFacts
<1> HIDE DEF s, d
<1>5. Len(s) <= d
  BY <1>2, <1>3, <1>4
<1>6. HitsIn(s, p, block_hashes(tokens))
  BY <1>4 DEF HitsIn, GoodHit
<1> QED BY <1>4, <1>5, <1>6 DEF GoodHit, s, d

(* What the last block of a request leaves for a hit.                      *)
LEMMA HitLimit ==
    ASSUME NEW tokens \in Seq(Nat), Len(tokens) >= 1
    PROVE  /\ (Len(tokens) - 1) \div BlockSize \in Nat /\ Len(tokens) \div BlockSize \in Nat
           /\ (Len(tokens) - 1) \div BlockSize <= Len(tokens) \div BlockSize
           /\ Len(block_hashes(tokens)) = Len(tokens) \div BlockSize
<1>1. BlockSize \in Nat /\ BlockSize > 0 /\ Len(tokens) \in Nat /\ Len(tokens) - 1 \in Nat
  BY KVCacheManagerAssumption
<1>2. (Len(tokens) - 1) \div BlockSize \in Nat /\ Len(tokens) \div BlockSize \in Nat
  BY <1>1, DivFacts
<1>3. (Len(tokens) - 1) \div BlockSize <= Len(tokens) \div BlockSize
  BY <1>1, DivMonotone
<1>4. Len(block_hashes(tokens)) = Len(tokens) \div BlockSize
  <2> DEFINE d == Len(tokens) \div BlockSize
  <2>1. d \in Nat
    BY <1>2
  <2>2. DOMAIN block_hashes(tokens) = 1..d
    BY DEF block_hashes
  <2>3. \A i \in 1..d : block_hashes(tokens)[i] \in Seq(Nat)
    BY BlockHashesFacts
  <2>4. block_hashes(tokens) = [i \in 1..d |-> block_hashes(tokens)[i]]
    BY DEF block_hashes
  <2> HIDE DEF d
  <2>5. Len(block_hashes(tokens)) = d
    BY <2>1, <2>3, <2>4, FunctionIsSeq
  <2> QED BY <2>5 DEF d
<1> QED BY <1>2, <1>3, <1>4

(* FullAttentionManager.find_longest_cache_hit.                            *)
LEMMA FullAttentionHitFacts ==
    ASSUME NEW p \in Pools, MapOK(p.cached, p.block_hash),
           NEW tokens \in Seq(Nat), Len(tokens) >= 1
    PROVE  GoodHit(FullAttentionHit(p, block_hashes(tokens), Len(tokens) - 1), p, tokens)
<1> DEFINE hs == block_hashes(tokens)
           L == (Len(tokens) - 1) \div BlockSize
           limit == MinOf(L, Len(hs))
           n == CHOOSE k \in 0..limit :
                  /\ \A i \in 1..k : IsCached(p, hs[i])
                  /\ k < limit => ~IsCached(p, hs[k + 1])
           blocks == [i \in 1..n |-> get_cached_block(p, hs[i])]
           drop == IF UseEagle THEN 1 ELSE 0
<1>1. FullAttentionHit(p, hs, Len(tokens) - 1) = DropLast(blocks, drop)
  BY DEF FullAttentionHit
<1>2. L \in Nat /\ Len(hs) \in Nat
  BY HitLimit
<1> HIDE DEF L, hs
<1>3. limit \in Nat /\ limit <= L
  BY <1>2 DEF MinOf
<1> HIDE DEF limit
<1>4. n \in 0..limit /\ \A i \in 1..n : IsCached(p, hs[i])
  BY <1>3, LongestPrefix
<1> HIDE DEF n
<1>5. n \in Nat /\ \A i \in 1..n : get_cached_block(p, hs[i]) \in Blocks
  BY <1>3, <1>4, CachedBlock
<1>6. blocks \in Seq(Blocks) /\ Len(blocks) = n /\ \A i \in 1..n : blocks[i] = get_cached_block(p, hs[i])
  BY <1>5
<1>7. n <= L
  BY <1>2, <1>3, <1>4
<1> HIDE DEF blocks
<1>8. HitsIn(blocks, p, hs)
  BY <1>4, <1>6 DEF HitsIn
<1>9. GoodHit(blocks, p, tokens)
  BY <1>6, <1>7, <1>8 DEF GoodHit, L, hs
<1>10. drop \in Nat
  OBVIOUS
<1>11. GoodHit(DropLast(blocks, drop), p, tokens)
  <2> HIDE DEF drop
  <2> QED BY <1>9, <1>10, DroppedHit
<1> QED BY <1>1, <1>11 DEF hs

(* SlidingWindowManager.find_longest_cache_hit.                            *)
LEMMA SlidingWindowHitFacts ==
    ASSUME NEW p \in Pools, MapOK(p.cached, p.block_hash), SlidingWindow # 0,
           NEW tokens \in Seq(Nat), Len(tokens) >= 1
    PROVE  GoodHit(SlidingWindowHit(p, block_hashes(tokens), Len(tokens) - 1), p, tokens)
<1> DEFINE hs == block_hashes(tokens)
           need == cdiv(SlidingWindow - 1, BlockSize) + (IF UseEagle THEN 1 ELSE 0)
           limit == (Len(tokens) - 1) \div BlockSize
           run == MaxOf(need, 1)
           Ends == {e \in run..limit : \A i \in (e - run + 1)..e : IsCached(p, hs[i])}
           prefix == CHOOSE k \in 0..limit :
                  /\ \A i \in 1..k : IsCached(p, hs[i])
                  /\ k < limit => ~IsCached(p, hs[k + 1])
           e == CHOOSE x \in Ends : \A y \in Ends : y <= x
           rear == [i \in 1..e |-> IF i > e - run THEN get_cached_block(p, hs[i]) ELSE NullBlock]
           front == [i \in 1..prefix |-> get_cached_block(p, hs[i])]
           blocks == IF Ends # {} THEN rear ELSE front
           drop == IF UseEagle THEN 1 ELSE 0
<1>1. SlidingWindowHit(p, hs, Len(tokens) - 1) = DropLast(blocks, drop)
  BY DEF SlidingWindowHit
<1>2. limit \in Nat
  BY HitLimit
<1>3. run \in Nat
  <2>1. SlidingWindow - 1 \in Nat
    BY KVCacheManagerAssumption
  <2>2. cdiv(SlidingWindow - 1, BlockSize) \in Nat
    BY <2>1, CdivType
  <2> QED BY <2>2 DEF MaxOf
<1> HIDE DEF limit, hs, need, run
<1>4. ASSUME Ends # {} PROVE GoodHit(blocks, p, tokens)
  <2>1. Ends \in SUBSET Nat /\ \A y \in Ends : y <= limit
    BY <1>2, <1>3
  <2>2. \E m \in Ends : \A k \in Ends : k <= m
    <3> HIDE DEF Ends
    <3> QED BY <1>2, <1>4, <2>1, GreatestElement
  <2>3. e \in Ends
    <3> HIDE DEF Ends
    <3> QED BY <2>2
  <2>4. e \in run..limit /\ \A i \in (e - run + 1)..e : IsCached(p, hs[i])
    <3> HIDE DEF e
    <3> QED BY <2>3
  <2>a. blocks = rear
    BY <1>4
  <2> HIDE DEF Ends, e, blocks
  <2>5. e \in Nat /\ e <= limit
    BY <2>4, <1>2, <1>3
  <2>6. NullBlock \in Blocks
    BY BlockPoolAssumption DEF NullBlock, Blocks
  <2>7. \A i \in 1..e : i > e - run => IsCached(p, hs[i]) /\ get_cached_block(p, hs[i]) \in Blocks
    <3> SUFFICES ASSUME NEW i \in 1..e, i > e - run
                 PROVE  IsCached(p, hs[i]) /\ get_cached_block(p, hs[i]) \in Blocks
      OBVIOUS
    <3>1. i \in (e - run + 1)..e
      BY <2>5, <1>3
    <3>2. IsCached(p, hs[i])
      BY <3>1, <2>4
    <3> QED BY <3>2, CachedBlock
  <2>8. /\ rear \in Seq(Blocks) /\ Len(rear) = e
        /\ \A i \in 1..e : rear[i] = IF i > e - run THEN get_cached_block(p, hs[i]) ELSE NullBlock
    BY <2>5, <2>6, <2>7
  <2> HIDE DEF rear
  <2>9. HitsIn(rear, p, hs)
    BY <2>7, <2>8 DEF HitsIn
  <2> QED BY <2>5, <2>8, <2>9, <2>a DEF GoodHit, limit, hs
<1>5. ASSUME Ends = {} PROVE GoodHit(blocks, p, tokens)
  <2>1. prefix \in 0..limit /\ \A i \in 1..prefix : IsCached(p, hs[i])
    BY <1>2, LongestPrefix
  <2>a. blocks = front
    BY <1>5
  <2> HIDE DEF prefix, blocks, Ends
  <2>2. prefix \in Nat /\ prefix <= limit /\ \A i \in 1..prefix : get_cached_block(p, hs[i]) \in Blocks
    BY <2>1, <1>2, CachedBlock
  <2>3. /\ front \in Seq(Blocks) /\ Len(front) = prefix
        /\ \A i \in 1..prefix : front[i] = get_cached_block(p, hs[i])
    BY <2>2
  <2> HIDE DEF front
  <2>4. HitsIn(front, p, hs)
    BY <2>1, <2>3 DEF HitsIn
  <2> QED BY <2>2, <2>3, <2>4, <2>a DEF GoodHit, limit, hs
<1>6. GoodHit(blocks, p, tokens)
  <2> HIDE DEF blocks, Ends
  <2> QED BY <1>4, <1>5
<1> HIDE DEF blocks
<1>7. GoodHit(DropLast(blocks, drop), p, tokens)
  <2>1. drop \in Nat
    OBVIOUS
  <2> HIDE DEF drop
  <2> QED BY <1>6, <2>1, DroppedHit
<1> QED BY <1>1, <1>7 DEF hs

\* A request may take hit with the pool p: each block has the hash of its place.
Usable(hit, p) ==
    /\ hit \in Seq(Blocks) /\ OnceEach(hit) /\ HashedInPlace(hit, p.block_hash)
    /\ hit # <<>> => EnableCaching

(* Two places of a list cannot have the same block, since a hash tells one *)
(* place.                                                                  *)
LEMMA HashedOnce ==
    ASSUME NEW hit \in Seq(Blocks), NEW bh, HashedInPlace(hit, bh)
    PROVE  OnceEach(hit)
<1> SUFFICES ASSUME NEW i \in 1..Len(hit), NEW j \in 1..Len(hit),
                    hit[i] = hit[j], hit[i] # NullBlock
             PROVE  i = j
  BY DEF OnceEach
<1>1. EndsAt(bh[hit[i]], i) /\ EndsAt(bh[hit[j]], j)
  BY DEF HashedInPlace
<1>2. i \in Nat /\ j \in Nat /\ EndsAt(bh[hit[i]], j)
  BY <1>1
<1> QED BY <1>1, <1>2, EndsOnce

(* get_computed_blocks.                                                    *)
LEMMA ComputedBlocksFacts ==
    ASSUME NEW kv, KVInv(kv), NEW tokens \in Seq(Nat), Len(tokens) >= 1
    PROVE  Usable(get_computed_blocks(kv, tokens), kv.pool)
<1> DEFINE p == kv.pool
           hit == get_computed_blocks(kv, tokens)
           hs == block_hashes(tokens)
           d == Len(tokens) \div BlockSize
<1>1. p \in Pools /\ MapOK(p.cached, p.block_hash)
  BY InOrder DEF Accounted
<1>2. CASE ~EnableCaching
  <2>1. hit = <<>>
    BY <1>2 DEF get_computed_blocks
  <2>2. <<>> \in Seq(Blocks) /\ Len(<<>>) = 0
    OBVIOUS
  <2>3. OnceEach(<<>>) /\ HashedInPlace(<<>>, p.block_hash)
    BY <2>2 DEF OnceEach, HashedInPlace
  <2> QED BY <2>1, <2>2, <2>3 DEF Usable
<1>3. CASE EnableCaching
  <2> HIDE DEF p
  <2>1. GoodHit(hit, p, tokens)
    <3>1. CASE SlidingWindow = 0
      <4>1. hit = FullAttentionHit(p, hs, Len(tokens) - 1)
        BY <1>3, <3>1 DEF get_computed_blocks, p
      <4> QED BY <4>1, <1>1, FullAttentionHitFacts
    <3>2. CASE SlidingWindow # 0
      <4>1. hit = SlidingWindowHit(p, hs, Len(tokens) - 1)
        BY <1>3, <3>2 DEF get_computed_blocks, p
      <4> QED BY <3>2, <4>1, <1>1, SlidingWindowHitFacts
    <3> QED BY <3>1, <3>2
  <2> HIDE DEF hit
  <2>2. hit \in Seq(Blocks) /\ Len(hit) <= d /\ HitsIn(hit, p, hs)
    BY <2>1, HitLimit DEF GoodHit
  <2>3. d \in Nat
    BY HitLimit
  <2> HIDE DEF d, hs
  <2>4. ASSUME NEW i \in 1..Len(hit), hit[i] # NullBlock
        PROVE  p.block_hash[hit[i]] # NoHash /\ EndsAt(p.block_hash[hit[i]], i)
    <3>1. IsCached(p, hs[i]) /\ hit[i] = get_cached_block(p, hs[i])
      BY <2>2, <2>4 DEF HitsIn
    <3>2. p.block_hash[hit[i]] = hs[i]
      BY <3>1, <1>1, CachedBlock
    <3>3. i \in 1..d
      BY <2>2, <2>3
    <3>4. hs[i] # NoHash /\ EndsAt(hs[i], i)
      BY <3>3, BlockHashesFacts DEF d, hs
    <3> QED BY <3>2, <3>4
  <2>5. HashedInPlace(hit, p.block_hash)
    BY <2>4 DEF HashedInPlace
  <2>6. OnceEach(hit)
    BY <2>2, <2>5, HashedOnce
  <2> QED BY <1>3, <2>2, <2>5, <2>6 DEF Usable, hit, p
<1> QED BY <1>2, <1>3

(* A request without blocks becomes a holder of the blocks of kept.        *)
LEMMA HoldKeeps ==
    ASSUME NEW fq, NEW rc, NEW bh, NEW c, NEW t, NEW nc,
           Accounted(fq, rc, bh, c, t, nc),
           NEW r \in Reqs, Len(t[r]) = 0,
           NEW kept \in Seq(Blocks), OnceEach(kept),
           NEW new \in Seq(Blocks), SameBlocks(new, kept), HashedInPlace(new, bh),
           NEW u \in [Reqs -> Seq(Blocks)], Updated(t, u, r, new),
           NEW mc \in [Reqs -> Int], SameBut(nc, mc, r), mc[r] = Len(new),
           NEW gq, NEW cnt,
           Touched(fq, rc, kept, gq, cnt) \/ (Len(kept) = 0 /\ gq = fq /\ cnt = rc)
    PROVE  Accounted(gq, cnt, bh, c, u, mc)
<1>1. /\ fq \in Seq(Blocks) /\ rc \in [Blocks -> Nat] /\ bh \in [Blocks -> Seq(Nat)]
      /\ t \in [Reqs -> Seq(Blocks)] /\ nc \in [Reqs -> Int]
      /\ Counts(rc, t) /\ FreeList(fq, rc) /\ TablesOK(nc, t, bh)
  BY DEF Accounted
<1>2. mc[r] >= Len(new)
  OBVIOUS
<1>3. TablesOK(mc, u, bh)
  BY <1>1, <1>2, HoldTables
<1>4. /\ cnt \in [Blocks -> Nat] /\ Counts(cnt, u)
      /\ gq \in Seq(Blocks) /\ FreeList(gq, cnt)
  <2>1. CASE Touched(fq, rc, kept, gq, cnt)
    BY <2>1, <1>1, TouchCounts
  <2>2. CASE Len(kept) = 0 /\ gq = fq /\ cnt = rc
    <3>1. Counts(rc, u)
      <4> SUFFICES ASSUME NEW b \in Blocks \ {NullBlock}
                   PROVE  rc[b] = Cardinality(Holders(u, b))
        BY DEF Counts
      <4>1. b \notin Elements(t[r]) /\ b \notin Elements(kept)
        BY <2>2 DEF Elements
      <4>2. b \notin Elements(new)
        BY <4>1 DEF SameBlocks
      <4>3. HoldersMove(t, u, r, new, b)
        BY <1>1, HoldersChange
      <4>4. rc[b] = Cardinality(Holders(t, b))
        BY <1>1 DEF Counts
      <4> QED BY <4>1, <4>2, <4>3, <4>4 DEF HoldersMove
    <3> QED BY <2>2, <3>1, <1>1
  <2> QED BY <2>1, <2>2
<1> QED BY <1>3, <1>4 DEF Accounted

(* What touch does to the parts of a pool.                                 *)
LEMMA TouchParts ==
    ASSUME NEW p \in Pools, NEW kept, NEW q, q = touch(p, kept)
    PROVE  /\ Touched(p.free, p.ref_cnt, kept, q.free, q.ref_cnt)
           /\ q = [free |-> q.free, ref_cnt |-> q.ref_cnt,
                   block_hash |-> p.block_hash, cached |-> p.cached]
<1> DEFINE cnt == [b \in Blocks |-> p.ref_cnt[b] + Times(kept, b)]
           gq == Only(p.free, Blocks \ Elements(kept))
<1>1. q = [p EXCEPT !.free = gq, !.ref_cnt = cnt]
  BY DEF touch, Times
<1> HIDE DEF cnt, gq
<1>2. q = [free |-> gq, ref_cnt |-> cnt, block_hash |-> p.block_hash, cached |-> p.cached]
  BY <1>1 DEF Pools
<1>3. q.free = gq /\ q.ref_cnt = cnt
  BY <1>2
<1>4. Touched(p.free, p.ref_cnt, kept, gq, cnt)
  BY DEF Touched, cnt, gq
<1> QED BY <1>2, <1>3, <1>4

\* The table a request without blocks gets for a hit: the first blocks, as many
\* as skipped, are null blocks.
HitTable(skipped, hit) == [i \in 1..skipped |-> NullBlock] \o SubSeq(hit, skipped + 1, Len(hit))

(* Its blocks are at the places they have in the hit.                      *)
LEMMA HitTableFacts ==
    ASSUME NEW hit \in Seq(Blocks), OnceEach(hit), NEW bh, HashedInPlace(hit, bh),
           NEW skipped \in Nat, NEW kept, kept = SubSeq(hit, skipped + 1, Len(hit)),
           NEW table, table = HitTable(skipped, hit)
    PROVE  /\ kept \in Seq(Blocks) /\ OnceEach(kept) /\ (Len(hit) = 0 => Len(kept) = 0)
           /\ table \in Seq(Blocks) /\ SameBlocks(table, kept) /\ HashedInPlace(table, bh)
<1> DEFINE m == IF skipped + 1 <= Len(hit) THEN Len(hit) - skipped ELSE 0
           nulls == [i \in 1..skipped |-> NullBlock]
<1>1. Len(hit) \in Nat /\ m \in Nat /\ (Len(hit) = 0 => m = 0)
  OBVIOUS
<1>2. /\ kept \in Seq(Blocks) /\ Len(kept) = m
      /\ \A i \in 1..m : kept[i] = hit[skipped + i] /\ skipped + i \in 1..Len(hit)
  BY <1>1
<1>3. NullBlock \in Blocks
  BY BlockPoolAssumption DEF NullBlock, Blocks
<1>4. nulls \in Seq(Blocks) /\ Len(nulls) = skipped /\ \A i \in 1..skipped : nulls[i] = NullBlock
  BY <1>3
<1>5. table = nulls \o kept
  BY DEF HitTable
<1> HIDE DEF m, nulls
<1>6. /\ table \in Seq(Blocks) /\ Len(table) = skipped + m
      /\ \A i \in 1..skipped : table[i] = NullBlock
      /\ \A i \in 1..m : table[skipped + i] = kept[i]
  <2>1. /\ nulls \o kept \in Seq(Blocks) /\ Len(nulls \o kept) = Len(nulls) + Len(kept)
        /\ \A i \in 1..Len(nulls) : (nulls \o kept)[i] = nulls[i]
        /\ \A i \in 1..Len(kept) : (nulls \o kept)[Len(nulls) + i] = kept[i]
    BY <1>2, <1>4, ConcatFacts
  <2>2. /\ table \in Seq(Blocks) /\ Len(table) = skipped + m
        /\ \A i \in 1..skipped : table[i] = nulls[i]
        /\ \A i \in 1..m : table[skipped + i] = kept[i]
    BY <2>1, <1>2, <1>4, <1>5, ZenonT(30)
  <2> QED BY <2>2, <1>4
<1>7. \A i \in 1..Len(table) : i \in 1..skipped \/ (i - skipped \in 1..m /\ table[i] = kept[i - skipped])
  <2> TAKE i \in 1..Len(table)
  <2>1. i \in 1..skipped \/ (i - skipped \in 1..m /\ skipped + (i - skipped) = i)
    BY <1>1, <1>6
  <2> QED BY <2>1, <1>6
<1>8. OnceEach(kept)
  <2> SUFFICES ASSUME NEW i \in 1..m, NEW j \in 1..m, kept[i] = kept[j], kept[i] # NullBlock
               PROVE  i = j
    BY <1>2 DEF OnceEach
  <2>1. skipped + i \in 1..Len(hit) /\ skipped + j \in 1..Len(hit)
    BY <1>2
  <2>2. hit[skipped + i] = hit[skipped + j] /\ hit[skipped + i] # NullBlock
    BY <1>2
  <2>3. skipped + i = skipped + j
    BY <2>1, <2>2 DEF OnceEach
  <2> QED BY <2>3, <1>1
<1>9. SameBlocks(table, kept)
  <2>1. \A i \in 1..Len(table) : table[i] # NullBlock => table[i] \in Elements(kept)
    BY <1>2, <1>6, <1>7 DEF Elements
  <2>2. \A i \in 1..m : kept[i] \in Elements(table)
    <3> TAKE i \in 1..m
    <3>1. skipped + i \in 1..(skipped + m)
      BY <1>1
    <3>2. Len(table) = skipped + m /\ table[skipped + i] = kept[i]
      BY <1>6
    <3> QED BY <3>1, <3>2 DEF Elements
  <2>3. ASSUME NEW b \in Blocks \ {NullBlock}, b \in Elements(table) PROVE b \in Elements(kept)
    BY <2>1, <2>3 DEF Elements
  <2>4. ASSUME NEW b \in Blocks \ {NullBlock}, b \in Elements(kept) PROVE b \in Elements(table)
    BY <2>2, <2>4, <1>2 DEF Elements
  <2> QED BY <2>3, <2>4 DEF SameBlocks
<1>10. HashedInPlace(table, bh)
  <2> SUFFICES ASSUME NEW i \in 1..Len(table), table[i] # NullBlock
               PROVE  bh[table[i]] # NoHash /\ EndsAt(bh[table[i]], i)
    BY DEF HashedInPlace
  <2>a. i \notin 1..skipped
    BY <1>6
  <2>b. i - skipped \in 1..m /\ table[i] = kept[i - skipped]
    BY <2>a, <1>7
  <2>c. i \in Int /\ skipped + (i - skipped) = i
    OBVIOUS
  <2>1. i - skipped \in 1..m /\ table[i] = kept[i - skipped] /\ skipped + (i - skipped) = i
    BY <2>b, <2>c
  <2>2. table[i] = hit[i] /\ i \in 1..Len(hit)
    BY <2>1, <1>2
  <2> QED BY <2>2 DEF HashedInPlace
<1> QED BY <1>1, <1>2, <1>6, <1>8, <1>9, <1>10

(* The blocks of NewBlocks are a sequence.                                 *)
LEMMA NewBlocksType ==
    ASSUME NEW p \in Pools, NEW n \in Int
    PROVE  NewBlocks(p, n) \in Seq(Blocks)
<1>1. p.free \in Seq(Blocks) /\ Len(p.free) \in Nat
  BY DEF Pools
<1>2. \A m \in Int : m <= Len(p.free) => SubSeq(p.free, 1, m) \in Seq(Blocks)
  BY <1>1
<1> QED BY <1>1, <1>2 DEF NewBlocks

(* allocate_new_computed_blocks holds the hit blocks and takes new ones for *)
(* what a connector will load.                                             *)
LEMMA AllocateComputedKeeps ==
    ASSUME NEW kv, KVInv(kv), NEW r \in Reqs, Len(kv.req_to_blocks[r]) = 0,
           NEW hit, Usable(hit, kv.pool), NEW local \in Nat, NEW external \in Nat
    PROVE  KVInv(allocate_new_computed_blocks(kv, r, hit, local, external))
<1>1. CASE kv.num_cached_block[r] # Untracked
  BY <1>1 DEF allocate_new_computed_blocks
<1>2. CASE kv.num_cached_block[r] = Untracked
  <2> DEFINE p == kv.pool
             t == kv.req_to_blocks
             nc == kv.num_cached_block
             bs == t[r]
             total == local + external
             skipped_tokens == get_num_skipped_tokens(total)
             skipped == skipped_tokens \div BlockSize
             kept == SubSeq(hit, skipped + 1, Len(hit))
             ext == IF skipped > 0 THEN MinOf(total - skipped_tokens, external) ELSE external
             table == HitTable(skipped, hit)
             p1 == IF EnableCaching THEN touch(p, kept) ELSE p
             n == IF ext > 0 THEN cdiv(total, BlockSize) - Len(table) ELSE 0
             ret == NewBlocks(p1, n)
             q == get_new_blocks(p1, n)
             t1 == [t EXCEPT ![r] = table]
             mc == [nc EXCEPT ![r] = Len(table)]
             new == bs \o table \o ret
             u == [t EXCEPT ![r] = new]
             k == allocate_new_computed_blocks(kv, r, hit, local, external)
  <2>1. k = [kv EXCEPT !.pool = q, !.req_to_blocks = u, !.num_cached_block = mc]
    BY <1>2, ZenonT(30) DEF allocate_new_computed_blocks, HitTable
  <2>2. /\ kv \in Managers /\ p \in Pools /\ t \in [Reqs -> Seq(Blocks)] /\ nc \in [Reqs -> Int]
        /\ Accounted(p.free, p.ref_cnt, p.block_hash, p.cached, t, nc) /\ kv.known \in SUBSET Reqs
    BY InOrder
  <2>3. total \in Nat /\ skipped_tokens \in Nat /\ skipped \in Nat
    BY SkippedBlocks
  <2> HIDE DEF skipped, skipped_tokens, total
  <2>4. /\ hit \in Seq(Blocks) /\ OnceEach(hit) /\ HashedInPlace(hit, p.block_hash)
        /\ hit # <<>> => EnableCaching
    BY DEF Usable
  <2>5. /\ kept \in Seq(Blocks) /\ OnceEach(kept) /\ (Len(hit) = 0 => Len(kept) = 0)
        /\ table \in Seq(Blocks) /\ SameBlocks(table, kept) /\ HashedInPlace(table, p.block_hash)
    <3> HIDE DEF p
    <3> QED BY <2>3, <2>4, HitTableFacts
  <2> HIDE DEF kept, table
  <2>6. bs \in Seq(Blocks) /\ bs = <<>> /\ bs \o table = table
    <3>1. bs \in Seq(Blocks) /\ Len(bs) = 0
      BY <2>2
    <3>2. bs = <<>>
      BY <3>1
    <3> QED BY <3>1, <3>2, <2>5, ConcatEmptySeq
  <2>7. t1 \in [Reqs -> Seq(Blocks)] /\ Updated(t, t1, r, table) /\ t1[r] = table
    BY <2>2, <2>5 DEF Updated
  <2>8. mc \in [Reqs -> Int] /\ SameBut(nc, mc, r) /\ mc[r] = Len(table)
    BY <2>2, <2>5 DEF SameBut
  <2>9. /\ p1 = [free |-> p1.free, ref_cnt |-> p1.ref_cnt,
                 block_hash |-> p.block_hash, cached |-> p.cached]
        /\ \/ Touched(p.free, p.ref_cnt, kept, p1.free, p1.ref_cnt)
           \/ Len(kept) = 0 /\ p1.free = p.free /\ p1.ref_cnt = p.ref_cnt
    <3>1. CASE EnableCaching
      <4>1. p1 = touch(p, kept)
        BY <3>1
      <4> HIDE DEF p1, p
      <4>2. /\ Touched(p.free, p.ref_cnt, kept, p1.free, p1.ref_cnt)
            /\ p1 = [free |-> p1.free, ref_cnt |-> p1.ref_cnt,
                     block_hash |-> p.block_hash, cached |-> p.cached]
        BY <4>1, <2>2, TouchParts
      <4> QED BY <4>2
    <3>2. CASE ~EnableCaching
      <4>1. p1 = p
        BY <3>2
      <4>2. Len(kept) = 0
        BY <3>2, <2>4, <2>5
      <4>3. p = [free |-> p.free, ref_cnt |-> p.ref_cnt,
                 block_hash |-> p.block_hash, cached |-> p.cached]
        BY <2>2 DEF Pools
      <4> QED BY <4>1, <4>2, <4>3
    <3> QED BY <3>1, <3>2
  <2> HIDE DEF p1, t1, mc, t, nc
  <2>10. Accounted(p1.free, p1.ref_cnt, p.block_hash, p.cached, t1, mc)
    <3>1. Len(t[r]) = 0
      BY DEF t
    <3> HIDE DEF p
    <3> QED BY <3>1, <2>2, <2>5, <2>7, <2>8, <2>9, HoldKeeps
  <2>11. p1.block_hash = p.block_hash /\ p1.cached = p.cached
    BY <2>9
  <2>12. p1 \in Pools
    <3> HIDE DEF p
    <3> QED BY <2>9, <2>10 DEF Pools, Accounted
  <2>13. Accounted(p1.free, p1.ref_cnt, p1.block_hash, p1.cached, t1, mc)
    BY <2>10, <2>11
  <2>14. n \in Int
    <3>1. cdiv(total, BlockSize) \in Nat /\ Len(table) \in Nat
      BY <2>3, <2>5, CdivType, SMTT(20)
    <3> HIDE DEF ext
    <3> QED BY <3>1
  <2> HIDE DEF n
  <2>15. ret \in Seq(Blocks)
    BY <2>12, <2>14, NewBlocksType
  <2> HIDE DEF ret
  <2>16. new \in Seq(Blocks) /\ new = table \o ret
    <3>1. new = table \o ret
      BY <2>6
    <3> QED BY <3>1, <2>5, <2>15, ConcatFacts
  <2> HIDE DEF new
  <2>17. u \in [Reqs -> Seq(Blocks)] /\ Updated(t1, u, r, t1[r] \o ret)
    <3>1. u \in [Reqs -> Seq(Blocks)] /\ u[r] = new /\ \A x \in Reqs : x # r => u[x] = t[x]
      BY <2>2, <2>16
    <3>2. \A x \in Reqs : x # r => t1[x] = t[x]
      BY <2>7 DEF Updated
    <3> HIDE DEF u
    <3> QED BY <3>1, <3>2, <2>7, <2>16 DEF Updated
  <2> HIDE DEF u, q
  <2>18. /\ q = [free |-> q.free, ref_cnt |-> q.ref_cnt,
                 block_hash |-> q.block_hash, cached |-> q.cached]
         /\ Accounted(q.free, q.ref_cnt, q.block_hash, q.cached, u, mc)
    BY <2>12, <2>13, <2>14, <2>17, TakeKeeps DEF q, ret
  <2>19. k = [pool |-> q, req_to_blocks |-> u, known |-> kv.known, num_cached_block |-> mc]
    <3> HIDE DEF k
    <3> QED BY <2>1, <2>2 DEF Managers
  <2>20. k = Manager(q.free, q.ref_cnt, q.block_hash, q.cached, u, kv.known, mc)
    BY <2>18, <2>19 DEF Manager
  <2> QED BY <2>2, <2>18, <2>20, PutTogether
<1> QED BY <1>1, <1>2

(* A pool with another map and other hashes.                               *)
LEMMA Rehashed ==
    ASSUME NEW p \in Pools, NEW d, NEW ch,
           NEW q, q = [p EXCEPT !.cached = d, !.block_hash = ch]
    PROVE  q = [free |-> p.free, ref_cnt |-> p.ref_cnt, block_hash |-> ch, cached |-> d]
  BY DEF Pools

(* cache_blocks gives hashes to the blocks that num_tokens tokens fill.    *)
LEMMA CacheBlocksKeeps ==
    ASSUME NEW kv, KVInv(kv), NEW r \in Reqs, NEW tokens \in Seq(Nat),
           NEW num_tokens \in Int, num_tokens <= Len(tokens)
    PROVE  KVInv(cache_blocks(kv, r, tokens, num_tokens))
<1> DEFINE p == kv.pool
           t == kv.req_to_blocks
           nc == kv.num_cached_block
           bs == t[r]
           from == MaxOf(nc[r], 0)
           to == num_tokens \div BlockSize
           hs == block_hashes(tokens)
           k == cache_blocks(kv, r, tokens, num_tokens)
<1>1. CASE ~EnableCaching \/ from >= to
  BY <1>1 DEF cache_blocks
<1>2. CASE EnableCaching /\ ~(from >= to)
  <2> DEFINE new == NewlyCached(hs, bs, from, to)
             ch == NewHashes(p.block_hash, hs, bs, from, to)
             d == insert(p.cached, new)
             q == [p EXCEPT !.cached = d, !.block_hash = ch]
             mc == [nc EXCEPT ![r] = to]
  <2>1. cache_full_blocks(p, hs, bs, from, to) = q
    BY DEF cache_full_blocks, NewlyCached, NewHashes, Filled
  <2>2. k = [kv EXCEPT !.pool = cache_full_blocks(p, hs, bs, from, to), !.num_cached_block = mc]
    BY <1>2 DEF cache_blocks
  <2>3. /\ kv \in Managers /\ p \in Pools /\ t \in [Reqs -> Seq(Blocks)] /\ nc \in [Reqs -> Int]
        /\ Accounted(p.free, p.ref_cnt, p.block_hash, p.cached, t, nc) /\ kv.known \in SUBSET Reqs
    BY InOrder
  <2>0. BlockSize \in Nat /\ BlockSize > 0 /\ Len(tokens) \in Nat
    BY KVCacheManagerAssumption
  <2>4. num_tokens \in Nat
    <3>1. nc[r] \in Int
      BY <2>3
    <3>2. from \in Int /\ from >= 0
      BY <3>1 DEF MaxOf
    <3>3. to \in Int /\ (num_tokens < 0 => to < 0)
      BY <2>0, DivInt
    <3> HIDE DEF from, to
    <3> QED BY <3>2, <3>3, <1>2
  <2>5. to \in Nat /\ Len(tokens) \div BlockSize \in Nat /\ to <= Len(tokens) \div BlockSize
    BY <2>0, <2>4, DivFacts, DivMonotone
  <2> HIDE DEF to
  <2>6. from \in Nat /\ from >= nc[r] /\ to >= from
    <3>1. nc[r] \in Int
      BY <2>3
    <3>2. from \in Nat /\ from >= nc[r]
      BY <3>1 DEF MaxOf
    <3> HIDE DEF from
    <3> QED BY <3>2, <1>2, <2>5
  <2> HIDE DEF from
  <2>7. \A i \in (from + 1)..to : hs[i] \in Seq(Nat) /\ hs[i] # NoHash /\ EndsAt(hs[i], i)
    <3> TAKE i \in (from + 1)..to
    <3>1. i \in 1..(Len(tokens) \div BlockSize)
      BY <2>5, <2>6
    <3> QED BY <3>1, BlockHashesFacts
  <2>8. mc \in [Reqs -> Int] /\ mc[r] = to /\ SameBut(nc, mc, r)
    BY <2>3, <2>5 DEF SameBut
  <2>9. Accounted(p.free, p.ref_cnt, ch, d, t, mc)
    <3> HIDE DEF p, t, nc, mc, hs
    <3> QED BY <1>2, <2>3, <2>5, <2>6, <2>7, <2>8, CacheKeeps
  <2> HIDE DEF ch, d, mc
  <2>10. q = [free |-> p.free, ref_cnt |-> p.ref_cnt, block_hash |-> ch, cached |-> d]
    <3>1. q = [p EXCEPT !.cached = d, !.block_hash = ch]
      OBVIOUS
    <3> HIDE DEF p, q
    <3> QED BY <2>3, <3>1, Rehashed
  <2> HIDE DEF q, nc
  <2>11. k = [pool |-> q, req_to_blocks |-> t, known |-> kv.known, num_cached_block |-> mc]
    <3>1. k = [kv EXCEPT !.pool = q, !.num_cached_block = mc]
      BY <2>1, <2>2
    <3> HIDE DEF k
    <3> QED BY <3>1, <2>3 DEF Managers
  <2>12. k = Manager(p.free, p.ref_cnt, ch, d, t, kv.known, mc)
    BY <2>10, <2>11 DEF Manager
  <2> QED BY <2>3, <2>9, <2>12, PutTogether
<1> QED BY <1>1, <1>2

-----------------------------------------------------------------------------
(* allocate_slots. *)

\* The arguments a of a call of allocate_slots for r: only a request without
\* blocks gets any for a prefix hit or for tokens that a connector provides.
ArgsOK(kv, r, a) ==
    /\ a.tokens \in Seq(Nat) /\ a.hit \in Seq(Blocks)
    /\ a.computed \in Int /\ a.new \in Int /\ a.external \in Nat /\ a.lookahead \in Nat
    /\ \/ a.hit = <<>> /\ a.external = 0
       \/ kv.num_cached_block[r] # Untracked
       \/ Len(kv.req_to_blocks[r]) = 0 /\ Usable(a.hit, kv.pool) /\ a.computed \in Nat

(* The numbers of tokens in it.                                            *)
LEMMA ArgsNumbers ==
    ASSUME NEW kv, NEW r, NEW a, ArgsOK(kv, r, a)
    PROVE  /\ LocalComputed(a) \in Int /\ TotalComputed(a) \in Int /\ SlotsNeeded(a) \in Int
           /\ TokensToCache(a) \in Int /\ TokensToCache(a) <= Len(a.tokens)
           /\ a.computed \in Nat => LocalComputed(a) \in Nat /\ TotalComputed(a) \in Nat
<1>1. /\ a.computed \in Int /\ a.new \in Int /\ a.external \in Nat /\ a.lookahead \in Nat
      /\ Len(a.hit) \in Nat /\ Len(a.tokens) \in Nat
  BY DEF ArgsOK
<1>2. BlockSize \in Nat /\ BlockSize > 0 /\ MaxModelLen \in Nat
  BY KVCacheManagerAssumption
<1>3. Len(a.hit) * BlockSize \in Nat
  BY <1>1, <1>2, TimesMonotone
<1>4. LocalComputed(a) \in Int /\ (a.computed \in Nat => LocalComputed(a) \in Nat)
  BY <1>1, <1>3 DEF LocalComputed
<1>5. TotalComputed(a) \in Int /\ (a.computed \in Nat => TotalComputed(a) \in Nat)
  BY <1>1, <1>2, <1>4 DEF TotalComputed, MinOf
<1>6. SlotsNeeded(a) \in Int
  BY <1>1, <1>2, <1>5 DEF SlotsNeeded, MinOf
<1>7. TokensToCache(a) \in Int /\ TokensToCache(a) <= Len(a.tokens)
  BY <1>1, <1>5 DEF TokensToCache, MinOf
<1> QED BY <1>4, <1>5, <1>6, <1>7

(* Looking at a table changes nothing that is accounted for.               *)
LEMMA KnownKeeps ==
    ASSUME NEW kv, KVInv(kv), NEW S \in SUBSET Reqs, NEW k, k = [kv EXCEPT !.known = @ \cup S]
    PROVE  /\ KVInv(k) /\ k.pool = kv.pool /\ k.req_to_blocks = kv.req_to_blocks
           /\ k.num_cached_block = kv.num_cached_block
<1>1. kv \in Managers /\ kv.known \in SUBSET Reqs
  BY InOrder
<1>2. k = [pool |-> kv.pool, req_to_blocks |-> kv.req_to_blocks, known |-> kv.known \cup S,
           num_cached_block |-> kv.num_cached_block]
  BY <1>1 DEF Managers
<1>3. /\ k.pool = kv.pool /\ k.req_to_blocks = kv.req_to_blocks
      /\ k.num_cached_block = kv.num_cached_block
  BY <1>2
<1> DEFINE p == kv.pool
           known == kv.known \cup S
<1>4. /\ Accounted(p.free, p.ref_cnt, p.block_hash, p.cached, kv.req_to_blocks, kv.num_cached_block)
      /\ p \in Pools /\ known \in SUBSET Reqs
  BY <1>1, InOrder
<1>5. p = [free |-> p.free, ref_cnt |-> p.ref_cnt,
           block_hash |-> p.block_hash, cached |-> p.cached]
  BY <1>4 DEF Pools
<1>6. k = Manager(p.free, p.ref_cnt, p.block_hash, p.cached, kv.req_to_blocks, known,
                  kv.num_cached_block)
  <2> HIDE DEF known
  <2>1. k = [pool |-> p, req_to_blocks |-> kv.req_to_blocks, known |-> known,
             num_cached_block |-> kv.num_cached_block]
    BY <1>2 DEF known
  <2> QED BY <2>1, <1>5 DEF Manager
<1> HIDE DEF p, known
<1>7. KVInv(k)
  BY <1>4, <1>6, PutTogether
<1> QED BY <1>3, <1>7

(* What allocate_slots does first: the window, for which it may look up r. *)
LEMMA TrimmedKeeps ==
    ASSUME NEW kv, KVInv(kv), NEW r \in Reqs, NEW a, ArgsOK(kv, r, a)
    PROVE  KVInv(Trimmed(kv, r, a)) /\ ArgsOK(Trimmed(kv, r, a), r, a)
<1> DEFINE n == TotalComputed(a)
           k == remove_skipped_blocks(kv, r, n)
           m == Trimmed(kv, r, a)
<1>1. n \in Int
  BY ArgsNumbers
<1> HIDE DEF n
<1>2. /\ KVInv(k) /\ k.num_cached_block = kv.num_cached_block
      /\ k.pool.block_hash = kv.pool.block_hash
      /\ Len(k.req_to_blocks[r]) = Len(kv.req_to_blocks[r])
  BY <1>1, RemoveSkippedKeeps
<1>3. m = [k EXCEPT !.known = @ \cup LooksUp(r, n)] /\ LooksUp(r, n) \in SUBSET Reqs
  BY DEF Trimmed, LooksUp, n
<1> HIDE DEF k, m
<1>4. /\ KVInv(m) /\ m.pool = k.pool /\ m.req_to_blocks = k.req_to_blocks
      /\ m.num_cached_block = kv.num_cached_block
  BY <1>2, <1>3, KnownKeeps
<1>5. ArgsOK(m, r, a)
  <2>1. Len(m.req_to_blocks[r]) = Len(kv.req_to_blocks[r])
    BY <1>2, <1>4
  <2>2. m.pool.block_hash = kv.pool.block_hash
    BY <1>2, <1>4
  <2>3. Usable(a.hit, kv.pool) => Usable(a.hit, m.pool)
    BY <2>2 DEF Usable
  <2> QED BY <2>1, <2>3, <1>4 DEF ArgsOK
<1> QED BY <1>4, <1>5 DEF m

(* Blocks for the hit, for the connector and for new tokens.               *)
LEMMA WithSlotsKeeps ==
    ASSUME NEW kv, KVInv(kv), NEW r \in Reqs, NEW a, ArgsOK(kv, r, a)
    PROVE  KVInv(WithSlots(kv, r, a))
<1> DEFINE m == Trimmed(kv, r, a)
           k == allocate_new_computed_blocks(m, r, a.hit, LocalComputed(a), a.external)
           prefix == IF a.hit # <<>> \/ a.external > 0 THEN k ELSE m
<1>1. KVInv(m) /\ ArgsOK(m, r, a)
  BY TrimmedKeeps
<1>2. WithSlots(kv, r, a) = allocate_new_blocks(prefix, r, SlotsNeeded(a))
  BY DEF WithSlots
<1>3. /\ SlotsNeeded(a) \in Int /\ a.external \in Nat
      /\ a.computed \in Nat => LocalComputed(a) \in Nat
  BY ArgsNumbers DEF ArgsOK
<1> HIDE DEF m
<1>4. KVInv(prefix)
  <2>1. CASE a.hit # <<>> \/ a.external > 0
    <3>1. ~(a.hit = <<>> /\ a.external = 0)
      BY <2>1, <1>3
    <3>2. CASE m.num_cached_block[r] # Untracked
      <4>1. k = m
        BY <3>2 DEF allocate_new_computed_blocks
      <4> QED BY <2>1, <4>1, <1>1
    <3>3. CASE Len(m.req_to_blocks[r]) = 0 /\ Usable(a.hit, m.pool) /\ a.computed \in Nat
      <4>1. KVInv(k)
        BY <3>3, <1>1, <1>3, AllocateComputedKeeps
      <4> QED BY <2>1, <4>1
    <3> QED BY <3>1, <3>2, <3>3, <1>1 DEF ArgsOK
  <2>2. CASE ~(a.hit # <<>> \/ a.external > 0)
    BY <2>2, <1>1
  <2> QED BY <2>1, <2>2
<1> HIDE DEF prefix
<1> QED BY <1>2, <1>3, <1>4, AllocateNewKeeps

(* allocate_slots keeps the bookkeeping in order, whether the slots fit or  *)
(* not.                                                                    *)
LEMMA AllocateSlotsKeeps ==
    ASSUME NEW kv, KVInv(kv), NEW r \in Reqs, NEW a, ArgsOK(kv, r, a)
    PROVE  KVInv(allocate_slots(kv, r, a))
<1> DEFINE w == WithSlots(kv, r, a)
           k == cache_blocks(w, r, a.tokens, TokensToCache(a))
<1>1. KVInv(Trimmed(kv, r, a))
  BY TrimmedKeeps
<1>2. KVInv(w)
  BY WithSlotsKeeps
<1>3. a.tokens \in Seq(Nat) /\ TokensToCache(a) \in Int /\ TokensToCache(a) <= Len(a.tokens)
  BY ArgsNumbers DEF ArgsOK
<1>4. KVInv(k)
  <2> HIDE DEF w
  <2> QED BY <1>2, <1>3, CacheBlocksKeeps
<1>5. \/ allocate_slots(kv, r, a) = Trimmed(kv, r, a)
      \/ allocate_slots(kv, r, a) = w
      \/ allocate_slots(kv, r, a) = k
  BY DEF allocate_slots
<1> QED BY <1>1, <1>2, <1>4, <1>5

-----------------------------------------------------------------------------
(* evict_blocks and reset_prefix_cache on the manager's pool.              *)
LEMMA EvictManager ==
    ASSUME NEW kv, KVInv(kv), NEW S \in SUBSET Blocks,
           NEW k, k = [kv EXCEPT !.pool = evict_blocks(@, S)]
    PROVE  KVInv(k)
<1> DEFINE p == kv.pool
           q == evict_blocks(p, S)
           t == kv.req_to_blocks
           nc == kv.num_cached_block
<1>1. /\ kv \in Managers /\ p \in Pools /\ kv.known \in SUBSET Reqs
      /\ Accounted(p.free, p.ref_cnt, p.block_hash, p.cached, t, nc)
  BY InOrder
<1>2. k = [kv EXCEPT !.pool = q]
  OBVIOUS
<1>3. q = evict_blocks(p, S)
  OBVIOUS
<1> HIDE DEF p, q
<1>4. Evicted(p, S, q, t, nc)
  BY <1>1, <1>3, EvictBlocksKeeps
<1>5. k = [pool |-> q, req_to_blocks |-> t, known |-> kv.known, num_cached_block |-> nc]
  BY <1>1, <1>2 DEF Managers
<1>6. /\ q = [free |-> p.free, ref_cnt |-> p.ref_cnt,
              block_hash |-> q.block_hash, cached |-> q.cached]
      /\ Accounted(p.free, p.ref_cnt, q.block_hash, q.cached, t, nc)
  BY <1>4 DEF Evicted
<1>7. k = Manager(p.free, p.ref_cnt, q.block_hash, q.cached, t, kv.known, nc)
  BY <1>5, <1>6 DEF Manager
<1> HIDE DEF t, nc
<1> QED BY <1>1, <1>6, <1>7, PutTogether

(* The same for reset_prefix_cache.                                        *)
LEMMA ResetManager ==
    ASSUME NEW kv, KVInv(kv), NEW k, k = [kv EXCEPT !.pool = reset_prefix_cache(@)]
    PROVE  KVInv(k)
<1> DEFINE p == kv.pool
           ch == [b \in Blocks |-> NoHash]
           q == [p EXCEPT !.cached = <<>>, !.block_hash = ch]
           t == kv.req_to_blocks
           nc == kv.num_cached_block
<1>1. /\ kv \in Managers /\ p \in Pools /\ kv.known \in SUBSET Reqs
      /\ Accounted(p.free, p.ref_cnt, p.block_hash, p.cached, t, nc)
  BY InOrder
<1>2. k = [kv EXCEPT !.pool = q]
  BY DEF reset_prefix_cache
<1>3. q = [p EXCEPT !.cached = <<>>, !.block_hash = ch]
  OBVIOUS
<1>4. Accounted(p.free, p.ref_cnt, ch, <<>>, t, nc)
  <2> HIDE DEF p, t, nc
  <2> QED BY <1>1, ResetKeeps
<1> HIDE DEF p, q, ch
<1>5. q = [free |-> p.free, ref_cnt |-> p.ref_cnt, block_hash |-> ch, cached |-> <<>>]
  BY <1>1, <1>3, Rehashed
<1>6. k = [pool |-> q, req_to_blocks |-> t, known |-> kv.known, num_cached_block |-> nc]
  BY <1>1, <1>2 DEF Managers
<1>7. k = Manager(p.free, p.ref_cnt, ch, <<>>, t, kv.known, nc)
  BY <1>5, <1>6 DEF Manager
<1> HIDE DEF t, nc
<1> QED BY <1>1, <1>4, <1>7, PutTogether

(* A new manager is in order.                                              *)
LEMMA InitInOrder == KVInv(InitManager)
<1> DEFINE fq == [i \in 1..(NumBlocks - 1) |-> i]
           rc == [b \in Blocks |-> 0]
           bh == [b \in Blocks |-> NoHash]
           t == [r \in Reqs |-> <<>>]
           nc == [r \in Reqs |-> Untracked]
<1>1. NumBlocks \in Nat /\ NumBlocks > 0 /\ NoHash = <<>>
  BY BlockPoolAssumption, KVCacheManagerAssumption
<1>2. /\ fq \in Seq(Blocks) /\ Len(fq) = NumBlocks - 1
      /\ \A i \in 1..(NumBlocks - 1) : fq[i] = i
  BY <1>1 DEF Blocks
<1>3. Distinct(fq)
  <2> HIDE DEF fq
  <2> QED BY <1>2 DEF Distinct
<1>4. Elements(fq) = Blocks \ {NullBlock}
  <2>1. Elements(fq) = {i : i \in 1..(NumBlocks - 1)}
    <3> HIDE DEF fq
    <3> QED BY <1>2 DEF Elements
  <2>2. Blocks \ {NullBlock} = 1..(NumBlocks - 1)
    BY <1>1 DEF Blocks, NullBlock
  <2> QED BY <2>1, <2>2
<1>5. rc \in [Blocks -> Nat] /\ bh \in [Blocks -> Seq(Nat)] /\ nc \in [Reqs -> Int]
  BY <1>1 DEF Untracked
<1>6. t \in [Reqs -> Seq(Blocks)] /\ \A r \in Reqs : Len(t[r]) = 0
  OBVIOUS
<1>7. FreeList(fq, rc)
  <2> HIDE DEF fq
  <2> QED BY <1>3, <1>4 DEF FreeList
<1>8. Counts(rc, t)
  <2> SUFFICES ASSUME NEW b \in Blocks \ {NullBlock} PROVE rc[b] = Cardinality(Holders(t, b))
    BY DEF Counts
  <2>1. Holders(t, b) = {}
    BY <1>6 DEF Holders, Elements
  <2> QED BY <2>1, FS_EmptySet
<1>9. DOMAIN <<>> = {} /\ <<>> \in CacheMaps
  <2>1. DOMAIN <<>> = {} /\ <<>> \in [{} -> Seq(Blocks)]
    OBVIOUS
  <2>2. {} \in SUBSET Seq(Nat)
    OBVIOUS
  <2> QED BY <2>1, <2>2 DEF CacheMaps
<1>10. MapOK(<<>>, bh) /\ OffIsEmpty(<<>>)
  <2>1. NullBlock \in Blocks
    BY <1>1 DEF NullBlock, Blocks
  <2> QED BY <2>1, <1>9 DEF MapOK, OffIsEmpty
<1> HIDE DEF t
<1>11. TablesOK(nc, t, bh)
  <2>1. \A r \in Reqs : 1..Len(t[r]) = {}
    BY <1>6
  <2> QED BY <2>1 DEF TablesOK, InPlace, Private, Unhashed, HashPlace
<1>12. InitManager = Manager(fq, rc, bh, <<>>, t, {}, nc)
  BY DEF InitManager, InitPool, Manager, t
<1> HIDE DEF fq, rc, bh, nc
<1>13. Accounted(fq, rc, bh, <<>>, t, nc)
  BY <1>2, <1>5, <1>6, <1>7, <1>8, <1>9, <1>10, <1>11 DEF Accounted
<1>14. {} \in SUBSET Reqs
  OBVIOUS
<1> QED BY <1>12, <1>13, <1>14, PutTogether

-----------------------------------------------------------------------------
(* What the manager's invariant says of the properties. *)

(* The places of a block are as many as its holders.                       *)
LEMMA PlacesAreHolders ==
    ASSUME NEW k, KVInv(k), NEW b \in Blocks \ {NullBlock}
    PROVE  Cardinality(Places(k, b)) = Cardinality(Holders(k.req_to_blocks, b))
<1> DEFINE t == k.req_to_blocks
           P == Places(k, b)
           H == Holders(t, b)
           f == [x \in P |-> x[1]]
<1>1. t \in [Reqs -> Seq(Blocks)] /\ InPlace(t)
  BY InOrder DEF Accounted, TablesOK
<1>2. \A x \in P : \E r \in Reqs : \E i \in 1..Len(t[r]) : x = <<r, i>> /\ t[r][i] = b
  BY DEF Places
<1>3. \A r \in Reqs : \A i \in 1..Len(t[r]) : t[r][i] = b => <<r, i>> \in P
  BY DEF Places
<1>4. \A x \in P : x[1] \in H
  BY <1>2 DEF Holders, Elements
<1>5. \A r \in H : \E x \in P : x[1] = r
  <2> TAKE r \in H
  <2>1. r \in Reqs /\ b \in Elements(t[r])
    BY DEF Holders
  <2>2. PICK i \in 1..Len(t[r]) : t[r][i] = b
    BY <2>1 DEF Elements
  <2>3. <<r, i>> \in P /\ <<r, i>>[1] = r
    BY <2>1, <2>2, <1>3
  <2> QED BY <2>3
<1>6. ASSUME NEW x \in P, NEW y \in P, x[1] = y[1] PROVE x = y
  <2>1. PICK r \in Reqs : \E i \in 1..Len(t[r]) : x = <<r, i>> /\ t[r][i] = b
    BY <1>2
  <2>2. PICK i \in 1..Len(t[r]) : x = <<r, i>> /\ t[r][i] = b
    BY <2>1
  <2>3. PICK q \in Reqs : \E j \in 1..Len(t[q]) : y = <<q, j>> /\ t[q][j] = b
    BY <1>2
  <2>4. PICK j \in 1..Len(t[q]) : y = <<q, j>> /\ t[q][j] = b
    BY <2>3
  <2>5. r = q
    BY <2>2, <2>4, <1>6
  <2>6. i = j
    BY <2>2, <2>4, <1>1 DEF InPlace
  <2> QED BY <2>2, <2>4, <2>5, <2>6
<1> HIDE DEF P, H
<1>7. f \in Bijection(P, H)
  <2>1. f \in [P -> H]
    BY <1>4
  <2>2. \A x, y \in P : f[x] = f[y] => x = y
    BY <1>6
  <2>3. \A r \in H : \E x \in P : f[x] = r
    BY <1>5
  <2> HIDE DEF f
  <2> QED BY <2>1, <2>2, <2>3 DEF Bijection, Injection, Surjection, IsInjective
<1>8. IsFiniteSet(H)
  <2>1. IsFiniteSet(Reqs) /\ H \subseteq Reqs
    BY KVCacheManagerAssumption DEF H, Holders
  <2> QED BY <2>1, FS_Subset
<1>9. ExistsBijection(H, P)
  <2>1. ExistsBijection(P, H)
    BY <1>7 DEF ExistsBijection
  <2> QED BY <2>1, Fun_ExistsBijSymmetric
<1>10. Cardinality(P) = Cardinality(H)
  BY <1>8, <1>9, FS_Bijection
<1> QED BY <1>10 DEF P, H

(* The bookkeeping invariant gives the three properties.                   *)
LEMMA InOrderIsCorrect ==
    ASSUME NEW k, KVInv(k)
    PROVE  /\ CountsHolders(k) /\ FreeIsUnheld(k.pool) /\ MapMatchesHashes(k.pool)
           /\ UncountedIsUnhashed(k) /\ SharedInPlace(k)
<1> DEFINE p == k.pool
           t == k.req_to_blocks
           nc == k.num_cached_block
<1>1. /\ t \in [Reqs -> Seq(Blocks)] /\ nc \in [Reqs -> Int]
      /\ Counts(p.ref_cnt, t) /\ FreeList(p.free, p.ref_cnt) /\ MapOK(p.cached, p.block_hash)
      /\ InPlace(t) /\ Unhashed(nc, t, p.block_hash)
  BY InOrder DEF Accounted, TablesOK
<1>2. CountsHolders(k)
  <2> SUFFICES ASSUME NEW b \in Blocks \ {NullBlock}
               PROVE  p.ref_cnt[b] = Cardinality(Places(k, b))
    BY DEF CountsHolders
  <2>1. p.ref_cnt[b] = Cardinality(Holders(t, b))
    BY <1>1 DEF Counts
  <2> QED BY <2>1, PlacesAreHolders
<1>3. FreeIsUnheld(p)
  BY <1>1 DEF FreeList, FreeIsUnheld, Distinct
<1>4. MapMatchesHashes(p)
  BY <1>1 DEF MapOK, MapMatchesHashes, Distinct
<1>5. UncountedIsUnhashed(k)
  <2> SUFFICES ASSUME NEW r \in Reqs, NEW i \in (MaxOf(nc[r], 0) + 1)..Len(t[r])
               PROVE  p.block_hash[t[r][i]] = NoHash
    BY DEF UncountedIsUnhashed
  <2>1. nc[r] \in Int /\ Len(t[r]) \in Nat
    BY <1>1
  <2>2. i \in 1..Len(t[r]) /\ i > nc[r]
    BY <2>1 DEF MaxOf
  <2> QED BY <2>2, <1>1 DEF Unhashed
<1>6. SharedInPlace(k)
  <2> SUFFICES ASSUME NEW r \in Reqs, NEW q \in Reqs,
                      NEW i \in 1..Len(t[r]), NEW j \in 1..Len(t[q]),
                      t[r][i] = t[q][j], t[r][i] # NullBlock, <<r, i>> # <<q, j>>
               PROVE  i = j /\ r # q
    BY DEF SharedInPlace
  <2>1. i = j
    BY <1>1 DEF InPlace
  <2> QED BY <2>1
<1> QED BY <1>2, <1>3, <1>4, <1>5, <1>6

-----------------------------------------------------------------------------
(* What an operation on the table of one request leaves alone. *)

\* The managers kv and k differ in nothing that belongs to another request than r,
\* and the null block is not counted.
OthersSame(kv, k, r) ==
    /\ \A q \in Reqs : q # r => /\ k.req_to_blocks[q] = kv.req_to_blocks[q]
                                /\ k.num_cached_block[q] = kv.num_cached_block[q]
    /\ k.pool.ref_cnt[NullBlock] = kv.pool.ref_cnt[NullBlock]

(* One operation after another.                                            *)
LEMMA OthersSameTwice ==
    ASSUME NEW kv, NEW k, NEW m, NEW r, OthersSame(kv, k, r), OthersSame(k, m, r)
    PROVE  OthersSame(kv, m, r)
  BY DEF OthersSame

(* The null block is a block.                                              *)
LEMMA NullIsBlock == NullBlock \in Blocks
  BY BlockPoolAssumption DEF NullBlock, Blocks

(* free_blocks never counts the null block.                                *)
LEMMA FreeBlocksNull ==
    ASSUME NEW p \in Pools, NEW ordered
    PROVE  free_blocks(p, ordered).ref_cnt[NullBlock] = p.ref_cnt[NullBlock]
<1> DEFINE cnt == [b \in Blocks |->
                     p.ref_cnt[b] - IF b = NullBlock THEN 0
                                    ELSE Cardinality({i \in DOMAIN ordered : ordered[i] = b})]
           gq == p.free \o Only(ordered, {b \in Blocks \ {NullBlock} : cnt[b] = 0})
<1>1. free_blocks(p, ordered) = [p EXCEPT !.ref_cnt = cnt, !.free = gq]
  BY DEF free_blocks
<1>2. cnt[NullBlock] = p.ref_cnt[NullBlock]
  <2>1. cnt[NullBlock] = p.ref_cnt[NullBlock] - 0 /\ p.ref_cnt[NullBlock] \in Nat
    BY NullIsBlock DEF Pools
  <2> QED BY <2>1
<1> HIDE DEF cnt, gq
<1>3. [p EXCEPT !.ref_cnt = cnt, !.free = gq].ref_cnt = cnt
  BY DEF Pools
<1> QED BY <1>1, <1>2, <1>3

(* Neither does touch.                                                     *)
LEMMA TouchNull ==
    ASSUME NEW p \in Pools, NEW bs
    PROVE  touch(p, bs).ref_cnt[NullBlock] = p.ref_cnt[NullBlock]
<1> DEFINE cnt == [b \in Blocks |->
                     p.ref_cnt[b] + IF b = NullBlock THEN 0
                                    ELSE Cardinality({i \in DOMAIN bs : bs[i] = b})]
           gq == Only(p.free, Blocks \ Elements(bs))
<1>1. touch(p, bs) = [p EXCEPT !.free = gq, !.ref_cnt = cnt]
  BY DEF touch
<1>2. cnt[NullBlock] = p.ref_cnt[NullBlock]
  <2>1. cnt[NullBlock] = p.ref_cnt[NullBlock] + 0 /\ p.ref_cnt[NullBlock] \in Nat
    BY NullIsBlock DEF Pools
  <2> QED BY <2>1
<1> HIDE DEF cnt, gq
<1>3. [p EXCEPT !.free = gq, !.ref_cnt = cnt].ref_cnt = cnt
  BY DEF Pools
<1> QED BY <1>1, <1>2, <1>3

(* The null block is not handed out.                                       *)
LEMMA NewBlocksNull ==
    ASSUME NEW p \in Pools, NullBlock \notin Elements(p.free), NEW n \in Int
    PROVE  get_new_blocks(p, n).ref_cnt[NullBlock] = p.ref_cnt[NullBlock]
<1> DEFINE ret == Elements(NewBlocks(p, n))
           q == IF EnableCaching THEN evict_blocks(p, ret) ELSE p
           cnt == [b \in Blocks |-> IF b \in ret THEN q.ref_cnt[b] + 1 ELSE q.ref_cnt[b]]
           fq == SubSeq(q.free, Cardinality(ret) + 1, Len(q.free))
<1>1. get_new_blocks(p, n) = [q EXCEPT !.free = fq, !.ref_cnt = cnt]
  BY DEF get_new_blocks
<1>2. NullBlock \notin ret
  <2> DEFINE m == IF n <= Len(p.free) THEN n ELSE Len(p.free)
             s == p.free
  <2>1. s \in Seq(Blocks) /\ m \in Int /\ m <= Len(s)
    BY DEF Pools
  <2>2. NewBlocks(p, n) = SubSeq(s, 1, m)
    BY DEF NewBlocks
  <2> HIDE DEF m, s
  <2>3. \A i \in 1..Len(SubSeq(s, 1, m)) : i \in 1..Len(s) /\ SubSeq(s, 1, m)[i] = s[i]
    BY <2>1
  <2> QED BY <2>2, <2>3 DEF Elements, s
<1>3. q.ref_cnt = p.ref_cnt /\ DOMAIN q = {"free", "ref_cnt", "block_hash", "cached"}
  BY DEF evict_blocks, Pools
<1>4. cnt[NullBlock] = p.ref_cnt[NullBlock]
  BY <1>2, <1>3, NullIsBlock
<1> HIDE DEF cnt, fq, q
<1>5. [q EXCEPT !.free = fq, !.ref_cnt = cnt].ref_cnt = cnt
  BY <1>3
<1> QED BY <1>1, <1>4, <1>5

(* The free queue of a manager in order does not list the null block.      *)
LEMMA FreeHasNoNull ==
    ASSUME NEW kv, KVInv(kv)
    PROVE  kv.pool \in Pools /\ NullBlock \notin Elements(kv.pool.free)
  BY InOrder DEF Accounted, FreeList

(* free takes away all that r has.                                         *)
LEMMA FreeFrame ==
    ASSUME NEW kv, KVInv(kv), NEW r \in Reqs
    PROVE  /\ OthersSame(kv, free(kv, r), r)
           /\ free(kv, r).req_to_blocks[r] = <<>>
           /\ free(kv, r).num_cached_block[r] = Untracked
           /\ free(kv, r).known = kv.known \ {r}
<1> DEFINE q == free_blocks(kv.pool, Reverse(kv.req_to_blocks[r]))
           k == free(kv, r)
<1>1. kv \in Managers /\ kv.pool \in Pools
  BY InOrder
<1>2. q.ref_cnt[NullBlock] = kv.pool.ref_cnt[NullBlock]
  BY <1>1, FreeBlocksNull
<1> HIDE DEF q
<1>3. k = [kv EXCEPT !.pool = q, !.req_to_blocks[r] = <<>>, !.known = @ \ {r},
                     !.num_cached_block[r] = Untracked]
  BY DEF free, q
<1> HIDE DEF k
<1>4. /\ k.pool = q /\ k.known = kv.known \ {r}
      /\ k.req_to_blocks = [kv.req_to_blocks EXCEPT ![r] = <<>>]
      /\ k.num_cached_block = [kv.num_cached_block EXCEPT ![r] = Untracked]
  BY <1>1, <1>3 DEF Managers
<1>5. kv.req_to_blocks \in [Reqs -> Seq(Blocks)] /\ kv.num_cached_block \in [Reqs -> Int]
  BY InOrder
<1>6. OthersSame(kv, k, r)
  BY <1>2, <1>4, <1>5 DEF OthersSame
<1> QED BY <1>4, <1>5, <1>6 DEF k

(* remove_skipped_blocks changes the table of r, not its length.           *)
LEMMA RemoveSkippedFrame ==
    ASSUME NEW kv, KVInv(kv), NEW r \in Reqs, NEW n \in Int
    PROVE  /\ OthersSame(kv, remove_skipped_blocks(kv, r, n), r)
           /\ remove_skipped_blocks(kv, r, n).known = kv.known
<1> DEFINE k == remove_skipped_blocks(kv, r, n)
           bs == kv.req_to_blocks[r]
           nskip == MinOf(get_num_skipped_tokens(n) \div BlockSize, Len(bs))
           nulls == {i \in 1..nskip : bs[i] = NullBlock}
           last == IF nulls = {} THEN 0 ELSE CHOOSE i \in nulls : \A j \in nulls : j <= i
           removed == Reverse(SubSeq(bs, last + 1, nskip))
           q == free_blocks(kv.pool, removed)
           new == [i \in DOMAIN bs |-> IF i \in (last + 1)..nskip THEN NullBlock ELSE bs[i]]
<1>1. kv \in Managers /\ kv.pool \in Pools
  BY InOrder
<1>2. k = [kv EXCEPT !.pool = q, !.req_to_blocks[r] = new]
  BY DEF remove_skipped_blocks
<1> HIDE DEF removed, new, k
<1>3. q.ref_cnt[NullBlock] = kv.pool.ref_cnt[NullBlock]
  BY <1>1, FreeBlocksNull
<1> HIDE DEF q
<1>4. /\ k.pool = q /\ k.known = kv.known
      /\ k.req_to_blocks = [kv.req_to_blocks EXCEPT ![r] = new]
      /\ k.num_cached_block = kv.num_cached_block
  BY <1>1, <1>2 DEF Managers
<1>5. kv.req_to_blocks \in [Reqs -> Seq(Blocks)]
  BY InOrder
<1>6. OthersSame(kv, k, r)
  BY <1>3, <1>4, <1>5 DEF OthersSame
<1> QED BY <1>4, <1>6 DEF k

(* What allocate_slots does first.                                         *)
LEMMA TrimmedFrame ==
    ASSUME NEW kv, KVInv(kv), NEW r \in Reqs, NEW a, ArgsOK(kv, r, a)
    PROVE  /\ OthersSame(kv, Trimmed(kv, r, a), r)
           /\ Trimmed(kv, r, a).known \in {kv.known, kv.known \cup {r}}
           /\ Trimmed(kv, r, a).num_cached_block = kv.num_cached_block
           /\ Len(Trimmed(kv, r, a).req_to_blocks[r]) = Len(kv.req_to_blocks[r])
<1> DEFINE n == TotalComputed(a)
           k == remove_skipped_blocks(kv, r, n)
           m == Trimmed(kv, r, a)
<1>1. n \in Int
  BY ArgsNumbers
<1> HIDE DEF n
<1>2. /\ KVInv(k) /\ OthersSame(kv, k, r) /\ k.known = kv.known
      /\ k.num_cached_block = kv.num_cached_block
      /\ Len(k.req_to_blocks[r]) = Len(kv.req_to_blocks[r])
  BY <1>1, RemoveSkippedKeeps, RemoveSkippedFrame
<1>3. m = [k EXCEPT !.known = @ \cup LooksUp(r, n)] /\ LooksUp(r, n) \in {{}, {r}}
  BY DEF Trimmed, LooksUp, n
<1> HIDE DEF k, m
<1>4. /\ m.pool = k.pool /\ m.req_to_blocks = k.req_to_blocks
      /\ m.num_cached_block = k.num_cached_block /\ m.known \in {k.known, k.known \cup {r}}
  <2>1. k \in Managers
    BY <1>2, InOrder
  <2> QED BY <2>1, <1>3 DEF Managers
<1>5. OthersSame(kv, m, r)
  BY <1>2, <1>4 DEF OthersSame
<1> QED BY <1>2, <1>4, <1>5 DEF m

\* The table s has no more blocks than n tokens need.
Within(s, n) == Len(s) = 0 \/ (Len(s) - 1) * BlockSize < n

(* As many blocks as tokens need are not too many.                         *)
LEMMA WithinCdiv ==
    ASSUME NEW i \in Nat \ {0}, NEW n \in Int, i <= cdiv(n, BlockSize)
    PROVE  (i - 1) * BlockSize < n
<1> DEFINE c == cdiv(n, BlockSize)
           d == n + BlockSize - 1
<1>1. BlockSize \in Nat /\ BlockSize > 0 /\ d \in Int
  BY KVCacheManagerAssumption
<1>2. c \in Int /\ c * BlockSize <= d
  <2>1. c = d \div BlockSize
    BY DEF cdiv
  <2> HIDE DEF c, d
  <2> QED BY <2>1, <1>1, DivInt
<1>3. c \in Nat /\ i - 1 \in Nat
  BY <1>2
<1> HIDE DEF c
<1>4. i * BlockSize <= c * BlockSize /\ i * BlockSize \in Nat
  BY <1>1, <1>3, TimesMonotone DEF c
<1>5. (i - 1) * BlockSize = i * BlockSize - BlockSize
  BY <1>1
<1>6. c * BlockSize \in Nat /\ (i - 1) * BlockSize \in Nat
  BY <1>1, <1>3, TimesMonotone
<1> QED BY <1>1, <1>2, <1>4, <1>5, <1>6

(* get_new_blocks returns no more than it is asked for.                    *)
LEMMA NewBlocksLength ==
    ASSUME NEW p \in Pools, NEW n \in Int
    PROVE  Len(NewBlocks(p, n)) = 0 \/ Len(NewBlocks(p, n)) <= n
<1>1. p.free \in Seq(Blocks) /\ Len(p.free) \in Nat
  BY DEF Pools
<1>2. \A m \in Int : m <= Len(p.free) =>
          Len(SubSeq(p.free, 1, m)) = IF 1 <= m THEN m ELSE 0
  BY <1>1
<1> QED BY <1>1, <1>2 DEF NewBlocks

(* allocate_new_blocks: the table of r grows to the slots it needs.        *)
LEMMA AllocateNewFrame ==
    ASSUME NEW kv, KVInv(kv), NEW r \in Reqs, NEW num_tokens \in Int,
           NEW k, k = allocate_new_blocks(kv, r, num_tokens)
    PROVE  /\ OthersSame(kv, k, r) /\ k.known = kv.known \cup {r}
           /\ k.num_cached_block = kv.num_cached_block
           /\ \A n \in Int : Within(kv.req_to_blocks[r], n) /\ num_tokens <= n
                 => Within(k.req_to_blocks[r], n)
<1> DEFINE p == kv.pool
           bs == kv.req_to_blocks[r]
           c == cdiv(num_tokens, BlockSize)
           n == MaxOf(c - Len(bs), 0)
           ret == NewBlocks(p, n)
           q == get_new_blocks(p, n)
           new == bs \o ret
<1>1. kv \in Managers /\ p \in Pools /\ bs \in Seq(Blocks) /\ Len(bs) \in Nat
  BY InOrder
<1>2. k = [kv EXCEPT !.pool = q, !.req_to_blocks[r] = new, !.known = @ \cup {r}]
  BY DEF allocate_new_blocks
<1>3. c \in Int /\ n \in Int
  <2>1. c \in Int
    BY CdivType
  <2> HIDE DEF c
  <2> QED BY <2>1, <1>1 DEF MaxOf
<1>4. q.ref_cnt[NullBlock] = kv.pool.ref_cnt[NullBlock]
  <2> HIDE DEF n
  <2> QED BY <1>3, FreeHasNoNull, NewBlocksNull
<1>5. ret \in Seq(Blocks) /\ (Len(ret) = 0 \/ Len(ret) <= n)
  <2> HIDE DEF n, p
  <2> QED BY <1>1, <1>3, NewBlocksType, NewBlocksLength
<1> HIDE DEF ret, q, bs
<1>6. Len(new) = Len(bs) + Len(ret)
  BY <1>1, <1>5, ConcatFacts
<1> HIDE DEF new
<1>7. /\ k.pool = q /\ k.known = kv.known \cup {r}
      /\ k.req_to_blocks = [kv.req_to_blocks EXCEPT ![r] = new]
      /\ k.num_cached_block = kv.num_cached_block
  BY <1>1, <1>2 DEF Managers
<1>8. kv.req_to_blocks \in [Reqs -> Seq(Blocks)]
  BY InOrder
<1>9. OthersSame(kv, k, r) /\ k.req_to_blocks[r] = new
  BY <1>4, <1>7, <1>8 DEF OthersSame
<1>10. ASSUME NEW m \in Int, Within(bs, m), num_tokens <= m PROVE Within(new, m)
  <2>1. CASE Len(ret) = 0
    <3>1. Len(new) = Len(bs)
      BY <2>1, <1>1, <1>6
    <3> QED BY <3>1, <1>10 DEF Within
  <2>2. CASE Len(ret) # 0
    <3> DEFINE i == Len(new)
    <3>1. i \in Nat \ {0} /\ i <= c
      <4>1. Len(ret) <= n /\ Len(ret) \in Nat /\ Len(ret) > 0
        BY <2>2, <1>5
      <4> HIDE DEF c
      <4>2. n = c - Len(bs)
        BY <4>1, <1>1, <1>3 DEF MaxOf
      <4> HIDE DEF n
      <4> QED BY <4>1, <4>2, <1>1, <1>3, <1>6
    <3> HIDE DEF i
    <3>2. (i - 1) * BlockSize < num_tokens
      BY <3>1, WithinCdiv
    <3>3. (i - 1) * BlockSize \in Int
      BY <3>1, KVCacheManagerAssumption
    <3>4. (i - 1) * BlockSize < m
      BY <3>2, <3>3, <1>10
    <3> QED BY <3>4 DEF Within, i
  <2> QED BY <2>1, <2>2
<1> QED BY <1>7, <1>9, <1>10 DEF bs

(* How long the table of a prefix hit is.                                  *)
LEMMA HitTableLength ==
    ASSUME NEW hit \in Seq(Blocks), NEW m \in Nat
    PROVE  /\ HitTable(m, hit) \in Seq(Blocks)
           /\ Len(HitTable(m, hit)) = IF m <= Len(hit) THEN Len(hit) ELSE m
<1> DEFINE kept == SubSeq(hit, m + 1, Len(hit))
           nulls == [i \in 1..m |-> NullBlock]
<1>1. kept \in Seq(Blocks) /\ Len(kept) = IF m + 1 <= Len(hit) THEN Len(hit) - m ELSE 0
  OBVIOUS
<1>2. nulls \in Seq(Blocks) /\ Len(nulls) = m
  BY NullIsBlock
<1> HIDE DEF kept, nulls
<1>3. nulls \o kept \in Seq(Blocks) /\ Len(nulls \o kept) = Len(nulls) + Len(kept)
  BY <1>1, <1>2, ConcatFacts
<1>4. HitTable(m, hit) = nulls \o kept
  BY DEF HitTable, nulls, kept
<1>5. Len(hit) \in Nat
  OBVIOUS
<1> QED BY <1>1, <1>2, <1>3, <1>4, <1>5

(* The window never skips more than is computed.                           *)
LEMMA SkippedAtMost ==
    ASSUME NEW n \in Nat
    PROVE  (get_num_skipped_tokens(n) \div BlockSize) * BlockSize <= n
<1> DEFINE s == get_num_skipped_tokens(n)
<1>1. SlidingWindow \in Nat /\ BlockSize \in Nat /\ BlockSize > 0
  BY KVCacheManagerAssumption
<1>2. s \in Nat /\ s <= n
  BY <1>1 DEF get_num_skipped_tokens, MaxOf
<1> HIDE DEF s
<1>3. s \div BlockSize \in Nat /\ (s \div BlockSize) * BlockSize <= s
  BY <1>1, <1>2, DivFacts
<1>4. (s \div BlockSize) * BlockSize \in Int
  BY <1>1, <1>3, TimesMonotone
<1> QED BY <1>2, <1>3, <1>4 DEF s

\* The request r has the hit blocks and those for external tokens, and no more.
HoldsHit(kv, k, r, hit, local, external) ==
    /\ OthersSame(kv, k, r) /\ k.known = kv.known
    /\ k.num_cached_block[r] # Untracked
    /\ Len(hit) * BlockSize <= local => Within(k.req_to_blocks[r], local + external)

(* allocate_new_computed_blocks: r is tracked from now on, and has a table  *)
(* that is not longer than what is computed needs.                         *)
LEMMA AllocateComputedFrame ==
    ASSUME NEW kv, KVInv(kv), NEW r \in Reqs, Len(kv.req_to_blocks[r]) = 0,
           kv.num_cached_block[r] = Untracked,
           NEW hit, Usable(hit, kv.pool), NEW local \in Nat, NEW external \in Nat,
           NEW k, k = allocate_new_computed_blocks(kv, r, hit, local, external)
    PROVE  HoldsHit(kv, k, r, hit, local, external)
<1> DEFINE p == kv.pool
           bs == kv.req_to_blocks[r]
           total == local + external
           skipped_tokens == get_num_skipped_tokens(total)
           nskip == skipped_tokens \div BlockSize
           kept == SubSeq(hit, nskip + 1, Len(hit))
           ext == IF nskip > 0 THEN MinOf(total - skipped_tokens, external) ELSE external
           table == HitTable(nskip, hit)
           p1 == IF EnableCaching THEN touch(p, kept) ELSE p
           c == cdiv(total, BlockSize)
           n == IF ext > 0 THEN c - Len(table) ELSE 0
           ret == NewBlocks(p1, n)
           q == get_new_blocks(p1, n)
           new == bs \o table \o ret
<1>1. k = [kv EXCEPT !.pool = q, !.req_to_blocks[r] = new, !.num_cached_block[r] = Len(table)]
  BY ZenonT(30) DEF allocate_new_computed_blocks, HitTable
<1>2. kv \in Managers /\ p \in Pools /\ bs \in Seq(Blocks)
  BY InOrder
<1>3. total \in Nat /\ skipped_tokens \in Nat /\ nskip \in Nat /\ nskip * BlockSize <= total
  <2>1. total \in Nat /\ total \in Int
    OBVIOUS
  <2> HIDE DEF total
  <2>2. skipped_tokens \in Nat /\ nskip \in Nat
    BY <2>1, SkippedBlocks
  <2>3. nskip * BlockSize <= total
    BY <2>1, SkippedAtMost
  <2> QED BY <2>1, <2>2, <2>3
<1> HIDE DEF nskip, skipped_tokens, total
<1>4. hit \in Seq(Blocks) /\ Len(hit) \in Nat
  BY DEF Usable
<1>5. table \in Seq(Blocks) /\ Len(table) = IF nskip <= Len(hit) THEN Len(hit) ELSE nskip
  BY <1>3, <1>4, HitTableLength
<1> HIDE DEF table, kept
<1>6. /\ p1 \in Pools /\ NullBlock \notin Elements(p1.free)
      /\ p1.ref_cnt[NullBlock] = p.ref_cnt[NullBlock]
  <2>0. NullBlock \notin Elements(p.free)
    BY FreeHasNoNull
  <2>1. CASE EnableCaching
    <3>1. p1 = touch(p, kept)
      BY <2>1
    <3> DEFINE fq == Only(p.free, Blocks \ Elements(kept))
               cnt == [b \in Blocks |->
                        p.ref_cnt[b] + IF b = NullBlock THEN 0
                                       ELSE Cardinality({i \in DOMAIN kept : kept[i] = b})]
    <3>2. p1 = [p EXCEPT !.free = fq, !.ref_cnt = cnt]
      BY <3>1 DEF touch
    <3>3. p1.ref_cnt[NullBlock] = p.ref_cnt[NullBlock]
      BY <3>1, <1>2, TouchNull
    <3> HIDE DEF p1, p
    <3>4. fq \in Seq(Blocks) /\ Elements(fq) \subseteq Elements(p.free)
      BY <1>2, OnlyFacts DEF Pools
    <3>5. cnt \in [Blocks -> Nat]
      <4> SUFFICES ASSUME NEW b \in Blocks
                   PROVE  p.ref_cnt[b] + (IF b = NullBlock THEN 0
                             ELSE Cardinality({i \in DOMAIN kept : kept[i] = b})) \in Nat
        OBVIOUS
      <4>1. p.ref_cnt[b] \in Nat
        BY <1>2 DEF Pools
      <4>2. Cardinality({i \in DOMAIN kept : kept[i] = b}) \in Nat
        <5>1. kept \in Seq(Blocks)
          BY <1>3, <1>4 DEF kept
        <5>2. DOMAIN kept = 1..Len(kept) /\ Len(kept) \in Nat
          BY <5>1
        <5>3. IsFiniteSet(1..Len(kept))
          BY <5>2, FS_Interval
        <5>4. {i \in DOMAIN kept : kept[i] = b} \subseteq 1..Len(kept)
          BY <5>2
        <5>5. IsFiniteSet({i \in DOMAIN kept : kept[i] = b})
          BY <5>3, <5>4, FS_Subset
        <5> QED BY <5>5, FS_CardinalityType
      <4> QED BY <4>1, <4>2
    <3> HIDE DEF fq, cnt
    <3>6. p1 \in Pools /\ p1.free = fq
      BY <3>2, <3>4, <3>5, <1>2 DEF Pools
    <3> QED BY <3>3, <3>4, <3>6, <2>0
  <2>2. CASE ~EnableCaching
    BY <2>0, <2>2, <1>2
  <2> QED BY <2>1, <2>2
<1>7. c \in Nat /\ n \in Int
  <2>1. c \in Nat
    BY <1>3, CdivType
  <2> HIDE DEF ext, c
  <2> QED BY <2>1, <1>5
<1> HIDE DEF p1
<1>8. /\ q.ref_cnt[NullBlock] = p.ref_cnt[NullBlock]
      /\ ret \in Seq(Blocks) /\ (Len(ret) = 0 \/ Len(ret) <= n)
  <2> HIDE DEF n, p
  <2> QED BY <1>6, <1>7, NewBlocksNull, NewBlocksType, NewBlocksLength
<1> HIDE DEF q, ret
<1>9. Len(new) = Len(table) + Len(ret)
  <2>1. bs \o table \in Seq(Blocks) /\ Len(bs \o table) = Len(bs) + Len(table)
    <3> HIDE DEF bs
    <3> QED BY <1>2, <1>5, ConcatFacts
  <2> DEFINE x == bs \o table
  <2> HIDE DEF x
  <2>2. Len(x \o ret) = Len(x) + Len(ret)
    BY <2>1, <1>8, ConcatFacts DEF x
  <2>3. Len(bs) = 0
    OBVIOUS
  <2> QED BY <2>1, <2>2, <2>3, <1>5 DEF x
<1> HIDE DEF new
<1>10. /\ k.pool = q /\ k.known = kv.known
       /\ k.req_to_blocks = [kv.req_to_blocks EXCEPT ![r] = new]
       /\ k.num_cached_block = [kv.num_cached_block EXCEPT ![r] = Len(table)]
  BY <1>1, <1>2 DEF Managers
<1>11. kv.req_to_blocks \in [Reqs -> Seq(Blocks)] /\ kv.num_cached_block \in [Reqs -> Int]
  BY InOrder
<1>12. OthersSame(kv, k, r)
  BY <1>8, <1>10, <1>11 DEF OthersSame
<1>13. k.req_to_blocks[r] = new /\ k.num_cached_block[r] = Len(table)
  BY <1>10, <1>11
<1>14. k.num_cached_block[r] # Untracked
  BY <1>5, <1>13 DEF Untracked
<1>15. ASSUME Len(hit) * BlockSize <= local PROVE Within(new, total)
  <2>1. BlockSize \in Nat /\ BlockSize > 0
    BY KVCacheManagerAssumption
  <2>2. CASE Len(ret) = 0
    <3> DEFINE i == Len(table)
    <3>1. i \in Nat /\ Len(new) = i
      BY <2>2, <1>5, <1>9
    <3>2. i * BlockSize <= total
      <4>1. Len(hit) * BlockSize <= total
        <5>1. Len(hit) * BlockSize \in Nat
          BY <1>4, <2>1, TimesMonotone
        <5> QED BY <5>1, <1>15 DEF total
      <4>2. i = Len(hit) \/ i = nskip
        BY <1>5
      <4> HIDE DEF i
      <4> QED BY <4>1, <4>2, <1>3
    <3> HIDE DEF i
    <3>3. (i - 1) * BlockSize = i * BlockSize - BlockSize /\ i * BlockSize \in Int
      BY <3>1, <2>1
    <3>4. (i - 1) * BlockSize < total
      BY <3>2, <3>3, <2>1, <1>3
    <3> QED BY <3>1, <3>4 DEF Within
  <2>3. CASE Len(ret) # 0
    <3> DEFINE i == Len(new)
    <3>1. Len(ret) \in Nat /\ Len(ret) > 0 /\ Len(ret) <= n
      BY <2>3, <1>8
    <3>2. n = c - Len(table)
      <4> HIDE DEF ext, c
      <4> QED BY <3>1
    <3> HIDE DEF n, c
    <3>3. i \in Nat \ {0} /\ i <= c
      BY <3>1, <3>2, <1>5, <1>7, <1>9
    <3> HIDE DEF i
    <3>4. (i - 1) * BlockSize < total
      BY <3>3, <1>3, WithinCdiv DEF c
    <3> QED BY <3>4 DEF Within, i
  <2> QED BY <2>2, <2>3
<1> QED BY <1>10, <1>12, <1>13, <1>14, <1>15 DEF total, HoldsHit

(* cache_blocks changes no table.                                          *)
LEMMA CacheBlocksFrame ==
    ASSUME NEW kv, KVInv(kv), NEW r \in Reqs, NEW tokens, NEW n \in Int,
           NEW k, k = cache_blocks(kv, r, tokens, n)
    PROVE  /\ OthersSame(kv, k, r) /\ k.known = kv.known
           /\ k.req_to_blocks = kv.req_to_blocks
           /\ kv.num_cached_block[r] # Untracked => k.num_cached_block[r] # Untracked
<1> DEFINE from == MaxOf(kv.num_cached_block[r], 0)
           to == n \div BlockSize
           hs == block_hashes(tokens)
           q == cache_full_blocks(kv.pool, hs, kv.req_to_blocks[r], from, to)
<1>1. kv \in Managers /\ kv.pool \in Pools /\ kv.num_cached_block \in [Reqs -> Int]
  BY InOrder
<1>2. CASE ~EnableCaching \/ from >= to
  <2>1. k = kv
    BY <1>2 DEF cache_blocks
  <2> QED BY <2>1 DEF OthersSame
<1>3. CASE ~(~EnableCaching \/ from >= to)
  <2>1. k = [kv EXCEPT !.pool = q, !.num_cached_block[r] = to]
    BY <1>3 DEF cache_blocks
  <2>2. q.ref_cnt = kv.pool.ref_cnt
    <3> DEFINE bs == kv.req_to_blocks[r]
               p == kv.pool
               new == NewlyCached(hs, bs, from, to)
               ch == NewHashes(p.block_hash, hs, bs, from, to)
               d == insert(p.cached, new)
    <3>1. q = [p EXCEPT !.cached = d, !.block_hash = ch]
      BY DEF cache_full_blocks, NewlyCached, NewHashes, Filled
    <3> HIDE DEF d, ch, q
    <3> QED BY <3>1, <1>1 DEF Pools
  <2>3. to \in Int /\ to > from /\ from >= 0
    <3>1. BlockSize \in Nat /\ BlockSize > 0 /\ kv.num_cached_block[r] \in Int
      BY <1>1, KVCacheManagerAssumption
    <3>2. to \in Int
      BY <3>1, DivInt
    <3>3. from \in Int /\ from >= 0
      BY <3>1 DEF MaxOf
    <3> HIDE DEF to, from
    <3> QED BY <3>2, <3>3, <1>3
  <2> HIDE DEF q, to, from
  <2>4. /\ k.pool = q /\ k.known = kv.known /\ k.req_to_blocks = kv.req_to_blocks
        /\ k.num_cached_block = [kv.num_cached_block EXCEPT ![r] = to]
    BY <2>1, <1>1 DEF Managers
  <2>5. from \in Int
    BY <1>1 DEF from, MaxOf
  <2>6. to # Untracked
    BY <2>3, <2>5 DEF Untracked
  <2> QED BY <2>2, <2>4, <2>6, <1>1 DEF OthersSame
<1> QED BY <1>2, <1>3

\* All that allocate_slots does to r: the managers before and after, n the number
\* of tokens that it is asked to find room for.
Allots(kv, k, r, a) ==
    /\ OthersSame(kv, k, r)
    /\ \/ k.known = kv.known \cup {r}
       \/ k.known = kv.known /\ Len(k.req_to_blocks[r]) = Len(kv.req_to_blocks[r])
    /\ kv.num_cached_block[r] # Untracked => k.num_cached_block[r] # Untracked
    /\ \A n \in Int :
          /\ Within(kv.req_to_blocks[r], n) /\ SlotsNeeded(a) <= n
          /\ a.computed \in Nat /\ LocalComputed(a) + a.external <= n
          => Within(k.req_to_blocks[r], n)

(* Blocks for the hit, for the connector and for new tokens.               *)
LEMMA WithSlotsFrame ==
    ASSUME NEW kv, KVInv(kv), NEW r \in Reqs, NEW a, ArgsOK(kv, r, a),
           NEW w, w = WithSlots(kv, r, a)
    PROVE  /\ KVInv(w) /\ Allots(kv, w, r, a)
           /\ a.hit # <<>> \/ a.external > 0 => w.num_cached_block[r] # Untracked
<1> DEFINE m == Trimmed(kv, r, a)
           k == allocate_new_computed_blocks(m, r, a.hit, LocalComputed(a), a.external)
           needs == a.hit # <<>> \/ a.external > 0
           prefix == IF needs THEN k ELSE m
           num == SlotsNeeded(a)
           local == LocalComputed(a)
           ext == a.external
<1>1. /\ KVInv(m) /\ ArgsOK(m, r, a) /\ OthersSame(kv, m, r)
      /\ m.known \in {kv.known, kv.known \cup {r}}
      /\ m.num_cached_block = kv.num_cached_block
      /\ Len(m.req_to_blocks[r]) = Len(kv.req_to_blocks[r])
  BY TrimmedKeeps, TrimmedFrame
<1>2. w = allocate_new_blocks(prefix, r, num)
  BY DEF WithSlots
<1>3. /\ num \in Int /\ ext \in Nat /\ local \in Int
      /\ a.computed \in Nat => local \in Nat
  BY ArgsNumbers DEF ArgsOK
<1>4. KVInv(w)
  BY WithSlotsKeeps
<1> HIDE DEF m, num
<1>5. /\ KVInv(prefix) /\ OthersSame(m, prefix, r) /\ prefix.known = m.known
      /\ m.num_cached_block[r] # Untracked => prefix.num_cached_block[r] # Untracked
      /\ needs => prefix.num_cached_block[r] # Untracked
      /\ \A n \in Int : Within(m.req_to_blocks[r], n) /\ a.computed \in Nat /\ local + ext <= n
            => Within(prefix.req_to_blocks[r], n)
  <2>1. CASE ~needs
    <3>1. prefix = m
      BY <2>1
    <3> HIDE DEF prefix, needs
    <3> QED BY <3>1, <2>1, <1>1 DEF OthersSame
  <2>2. CASE needs /\ m.num_cached_block[r] # Untracked
    <3>1. prefix = m
      BY <2>2 DEF allocate_new_computed_blocks
    <3> HIDE DEF prefix, needs
    <3> QED BY <3>1, <2>2, <1>1 DEF OthersSame
  <2>3. CASE needs /\ m.num_cached_block[r] = Untracked
    <3>0. ~(a.hit = <<>> /\ a.external = 0)
      BY <2>3, <1>3
    <3>1. Len(m.req_to_blocks[r]) = 0 /\ Usable(a.hit, m.pool) /\ a.computed \in Nat
      BY <2>3, <3>0, <1>1 DEF ArgsOK
    <3>2. prefix = k /\ k = allocate_new_computed_blocks(m, r, a.hit, local, ext)
      BY <2>3
    <3> HIDE DEF k, prefix, needs
    <3>3. local \in Nat
      BY <3>1, <1>3
    <3> HIDE DEF local, ext
    <3>4. KVInv(allocate_new_computed_blocks(m, r, a.hit, local, ext))
      BY <3>1, <3>3, <1>1, <1>3, AllocateComputedKeeps
    <3>5. /\ OthersSame(m, k, r) /\ k.known = m.known /\ k.num_cached_block[r] # Untracked
          /\ Len(a.hit) * BlockSize <= local => Within(k.req_to_blocks[r], local + ext)
      <4> DEFINE hit == a.hit
      <4>1. /\ Len(m.req_to_blocks[r]) = 0 /\ Usable(hit, m.pool)
            /\ m.num_cached_block[r] = Untracked
            /\ k = allocate_new_computed_blocks(m, r, hit, local, ext)
            /\ local \in Nat /\ ext \in Nat /\ KVInv(m)
        BY <2>3, <3>1, <3>2, <3>3, <1>1, <1>3
      <4> HIDE DEF hit
      <4>2. HoldsHit(m, k, r, hit, local, ext)
        BY <4>1, AllocateComputedFrame
      <4> QED BY <4>2 DEF HoldsHit, hit
    <3>6. Len(a.hit) * BlockSize <= local
      <4>1. Len(a.hit) \in Nat /\ BlockSize \in Nat /\ BlockSize > 0
        BY <1>1, KVCacheManagerAssumption DEF ArgsOK
      <4>2. Len(a.hit) * BlockSize \in Nat
        BY <4>1, TimesMonotone
      <4> QED BY <4>2, <3>1 DEF local, LocalComputed
    <3>7. ASSUME NEW n \in Int, local + ext <= n PROVE Within(k.req_to_blocks[r], n)
      <4> DEFINE i == Len(k.req_to_blocks[r])
      <4>1. i \in Nat /\ BlockSize \in Nat
        <5>1. k.req_to_blocks \in [Reqs -> Seq(Blocks)]
          BY <3>2, <3>4, InOrder
        <5> QED BY <5>1, KVCacheManagerAssumption
      <4>2. i = 0 \/ (i - 1) * BlockSize < local + ext
        BY <3>5, <3>6 DEF Within
      <4> HIDE DEF i
      <4>3. (i - 1) * BlockSize \in Int
        BY <4>1
      <4>4. i = 0 \/ (i - 1) * BlockSize < n
        BY <4>2, <4>3, <3>7, <3>3, <1>3
      <4> QED BY <4>4 DEF Within, i
    <3> QED BY <3>2, <3>4, <3>5, <3>7
  <2> QED BY <2>1, <2>2, <2>3
<1> HIDE DEF prefix, needs, local, ext
<1>6. /\ OthersSame(prefix, w, r) /\ w.known = prefix.known \cup {r}
      /\ w.num_cached_block = prefix.num_cached_block
      /\ \A n \in Int : Within(prefix.req_to_blocks[r], n) /\ num <= n
            => Within(w.req_to_blocks[r], n)
  BY <1>2, <1>3, <1>5, AllocateNewFrame
<1>7. OthersSame(kv, w, r)
  BY <1>1, <1>5, <1>6, OthersSameTwice
<1>8. ASSUME NEW n \in Int, Within(kv.req_to_blocks[r], n), num <= n, a.computed \in Nat, local + ext <= n
      PROVE  Within(w.req_to_blocks[r], n)
  <2>1. Within(m.req_to_blocks[r], n)
    BY <1>1, <1>8 DEF Within
  <2>2. Within(prefix.req_to_blocks[r], n)
    BY <2>1, <1>5, <1>8
  <2> QED BY <2>2, <1>6, <1>8
<1>9. w.known = kv.known \cup {r}
  BY <1>1, <1>5, <1>6
<1>10. Allots(kv, w, r, a)
  BY <1>1, <1>5, <1>6, <1>7, <1>8, <1>9 DEF Allots, num, local, ext
<1> QED BY <1>4, <1>5, <1>6, <1>10 DEF needs

(* allocate_slots: nothing of another request changes.                     *)
LEMMA AllocateSlotsFrame ==
    ASSUME NEW kv, KVInv(kv), NEW r \in Reqs, NEW a, ArgsOK(kv, r, a),
           NEW k, k = allocate_slots(kv, r, a)
    PROVE  /\ Allots(kv, k, r, a)
           /\ SlotsFit(kv, r, a) /\ (a.hit # <<>> \/ a.external > 0)
                 => k.num_cached_block[r] # Untracked
           /\ ~SlotsFit(kv, r, a) => Len(k.req_to_blocks[r]) = Len(kv.req_to_blocks[r])
<1> DEFINE w == WithSlots(kv, r, a)
           m == Trimmed(kv, r, a)
           n == TokensToCache(a)
<1>1. n \in Int
  BY ArgsNumbers
<1>2. /\ KVInv(w) /\ Allots(kv, w, r, a)
      /\ a.hit # <<>> \/ a.external > 0 => w.num_cached_block[r] # Untracked
  BY WithSlotsFrame
<1>3. CASE ~SlotsFit(kv, r, a)
  <2>1. k = m
    BY <1>3 DEF allocate_slots
  <2> HIDE DEF m
  <2>2. /\ OthersSame(kv, m, r) /\ m.known \in {kv.known, kv.known \cup {r}}
        /\ m.num_cached_block = kv.num_cached_block
        /\ Len(m.req_to_blocks[r]) = Len(kv.req_to_blocks[r])
    BY TrimmedFrame DEF m
  <2>3. \A i \in Int : Within(kv.req_to_blocks[r], i) => Within(m.req_to_blocks[r], i)
    BY <2>2 DEF Within
  <2>4. Allots(kv, k, r, a)
    BY <2>1, <2>2, <2>3 DEF Allots
  <2> QED BY <1>3, <2>1, <2>2, <2>4
<1>4. CASE SlotsFit(kv, r, a) /\ a.delay
  <2>1. k = w
    BY <1>4 DEF allocate_slots
  <2> HIDE DEF w
  <2> QED BY <1>4, <2>1, <1>2
<1>5. CASE SlotsFit(kv, r, a) /\ ~a.delay
  <2>1. k = cache_blocks(w, r, a.tokens, n)
    BY <1>5 DEF allocate_slots
  <2> HIDE DEF w, n
  <2>2. /\ OthersSame(w, k, r) /\ k.known = w.known /\ k.req_to_blocks = w.req_to_blocks
        /\ w.num_cached_block[r] # Untracked => k.num_cached_block[r] # Untracked
    BY <1>1, <1>2, <2>1, CacheBlocksFrame
  <2>3. OthersSame(kv, k, r)
    BY <1>2, <2>2, OthersSameTwice DEF Allots
  <2>4. Allots(kv, k, r, a)
    BY <1>2, <2>2, <2>3 DEF Allots
  <2> QED BY <1>2, <1>5, <2>2, <2>4
<1> QED BY <1>3, <1>4, <1>5
=============================================================================
