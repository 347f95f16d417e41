------------------------ MODULE NonPagedKVCache_proofs ------------------------
(***************************************************************************)
(* Proofs about NonPagedKVCache for every number of rows, layers and       *)
(* context lengths: the state is well typed, so that no row outside of the *)
(* cache is read or written, and, for callers that decode one token at a   *)
(* time and list new ids in their order, attention sees exactly the tokens *)
(* the caller has fed, although the rows are moved in place.               *)
(***************************************************************************)
EXTENDS NonPagedKVCache, KVRequests_proofs

USE RequestAssumption

-----------------------------------------------------------------------------
(* The invariants *)

\* The tracked sequences are those of the batch.
Tracked == Range(order) = InBatch

\* No tracked length passes the tokens fed.
Lengths == \A s \in Seqs : seqlen[s] <= Len(fed[s])

NInv == TypeOK /\ Caller /\ Tracked /\ Lengths

\* The tokens of a sequence before this iteration.
Old(s) == Len(fed[s]) - batch.new[s]

\* The cache of a layer.
Grids == [Rows -> [Cols -> Token \cup {NoToken}]]

\* The row of a place of the batch, and the sequence that has it.
Places == 0..Len(batch.ids) - 1
Id(r) == batch.ids[r + 1]

\* The first n tokens of s are in a row.
Holds(row, s, n) == \A p \in 1..n : row[p - 1] = fed[s][p]

\* Only the sequences of the batch have been fed, and their lengths are exact.
Exact ==
  /\ \A s \in Seqs \ InBatch : fed[s] = <<>>
  /\ \A s \in InBatch : seqlen[s] = Len(fed[s])

\* The rows of the unfinished sequences come first, ascending, from rows that are
\* not before them.
Moves == \A r \in Places : Old(Id(r)) > 0 =>
  r <= batchIndices[r] /\ \A i \in 1..r : batchIndices[i - 1] < batchIndices[i]

Settled == ~needReindex => \A r \in Places : batchIndices[r] = r

\* A layer that has run its step holds all tokens, in the rows of the batch; one
\* that has not holds the old ones, in the rows of the batch before.
Stored == \A l \in Layers, r \in Places :
  IF l <= layer THEN Holds(cache[l][r], Id(r), Len(fed[Id(r)]))
                ELSE Holds(cache[l][batchIndices[r]], Id(r), Old(Id(r)))

SInv == NInv /\ order = batch.ids /\ Exact /\ Moves /\ Settled /\ Stored

-----------------------------------------------------------------------------
(* Least and greatest numbers, for induction over data *)

\* Of some subsets of a finite set, one contains no other.
LEMMA SmallestSubset ==
  ASSUME NEW S, IsFiniteSet(S), NEW U \in SUBSET (SUBSET S), U # {}
  PROVE  \E s \in U : \A t \in U : ~(t \subseteq s /\ t # s)
<1>1. FiniteSubsetsOf(S) = SUBSET S
  BY FS_FiniteSubsetsOfFinite
<1>2. PICK s \in U : \A t \in U : <<t, s>> \notin StrictSubsetOrdering(S)
  BY <1>1, FS_StrictSubsetOrderingWellFounded, WFMin
<1>3. \A t \in U : ~(t \subseteq s /\ t # s)
  BY <1>2 DEF StrictSubsetOrdering
<1> QED  BY <1>3

\* Some numbers have a least one.
LEMMA LeastNatural ==
  ASSUME NEW T \in SUBSET Nat, T # {}
  PROVE  \E x \in T : \A y \in T : x <= y
<1>1. PICK n \in T : TRUE
  OBVIOUS
<1> DEFINE U == {0..k : k \in {i \in T : i <= n}}
<1>2. U \in SUBSET (SUBSET (0..n)) /\ U # {}
  <2>1. \A k \in T : k <= n => 0..k \subseteq 0..n
    OBVIOUS
  <2>2. 0..n \in U
    BY <1>1
  <2> QED  BY <2>1, <2>2
<1>3. PICK s \in U : \A t \in U : ~(t \subseteq s /\ t # s)
  <2> DEFINE S == 0..n
  <2>1. IsFiniteSet(S) /\ U \in SUBSET (SUBSET S) /\ U # {}
    BY <1>2, FS_Interval
  <2> HIDE DEF U, S
  <2> QED  BY <2>1, SmallestSubset
<1>4. PICK x \in T : x <= n /\ s = 0..x
  BY <1>3
<1>5. \A y \in T : x <= y
  <2> SUFFICES ASSUME NEW y \in T, y < x  PROVE FALSE
    OBVIOUS
  <2>1. 0..y \in U /\ 0..y \subseteq 0..x /\ x \in 0..x /\ x \notin 0..y
    BY <1>4
  <2> QED  BY <1>3, <1>4, <2>1
<1> QED  BY <1>5

\* Max of a non-empty set of numbers with a bound.
LEMMA Greatest ==
  ASSUME NEW n \in Nat, NEW D \in SUBSET (0..n), D # {}
  PROVE  Max(D) \in D /\ \A x \in D : x <= Max(D)
<1> DEFINE T == {n - x : x \in D}
<1>1. T \in SUBSET Nat /\ T # {}
  <2>1. \A x \in D : n - x \in Nat
    OBVIOUS
  <2> QED  BY <2>1
<1>2. PICK y \in T : \A z \in T : y <= z
  <2> HIDE DEF T
  <2> QED  BY <1>1, LeastNatural
<1>3. PICK x \in D : y = n - x
  BY <1>2
<1>4. \A z \in D : x >= z
  <2> SUFFICES ASSUME NEW z \in D  PROVE x >= z
    OBVIOUS
  <2>1. n - z \in T
    OBVIOUS
  <2>2. n - x <= n - z /\ x \in 0..n /\ z \in 0..n
    BY <1>2, <1>3, <2>1
  <2> QED  BY <2>2
<1>5. Max(D) \in D /\ \A z \in D : Max(D) >= z
  BY <1>4 DEF Max
<1> QED  BY <1>5

-----------------------------------------------------------------------------
(* The loop of the reindex kernel *)

\* The values of "rows" before its n-th round.
Rounds(g, rows, K) ==
  g = [n \in 0..K |-> IF n = 0 THEN rows
                      ELSE IF Stays(n - 1) THEN g[n - 1] ELSE RowMoved(g[n - 1], n - 1)]

\* The first k rounds can be carried out.
LEMMA RoundsExist ==
  ASSUME NEW rows, NEW K \in Nat
  PROVE  \E g : Rounds(g, rows, K)
<1> DEFINE T == {k \in Nat : ~ \E g : Rounds(g, rows, k)}
<1> SUFFICES ASSUME T # {}  PROVE FALSE
  OBVIOUS
<1>1. PICK k \in T : \A j \in T : k <= j
  <2>1. T \in SUBSET Nat
    OBVIOUS
  <2> HIDE DEF T
  <2> QED  BY <2>1, LeastNatural
<1>2. k # 0
  <2>1. Rounds([n \in 0..0 |-> rows], rows, 0)
    BY DEF Rounds
  <2> QED  BY <2>1
<1>3. k - 1 \in Nat /\ k - 1 \notin T
  BY <1>1, <1>2
<1>4. PICK g : Rounds(g, rows, k - 1)
  BY <1>3
<1>5. \A n \in 0..k - 1 :
        g[n] = IF n = 0 THEN rows
               ELSE IF Stays(n - 1) THEN g[n - 1] ELSE RowMoved(g[n - 1], n - 1)
  BY <1>4 DEF Rounds
<1> DEFINE last == IF Stays(k - 1) THEN g[k - 1] ELSE RowMoved(g[k - 1], k - 1)
           h == [n \in 0..k |-> IF n = k THEN last ELSE g[n]]
<1>6. ASSUME NEW n \in 0..k
      PROVE  h[n] = IF n = 0 THEN rows
                    ELSE IF Stays(n - 1) THEN h[n - 1] ELSE RowMoved(h[n - 1], n - 1)
  <2>1. CASE n = k
    <3>1. h[n] = last /\ h[n - 1] = g[k - 1]
      BY <1>2, <2>1
    <3> QED  BY <1>2, <2>1, <3>1
  <2>2. CASE n # k
    <3>1. n \in 0..k - 1 /\ h[n] = g[n] /\ (n # 0 => h[n - 1] = g[n - 1])
      BY <2>2
    <3> HIDE DEF h
    <3> QED  BY <1>5, <3>1
  <2> QED  BY <2>1, <2>2
<1>7. h = [n \in 0..k |-> h[n]]
  OBVIOUS
<1> HIDE DEF h
<1>8. Rounds(h, rows, k)
  BY <1>6, <1>7 DEF Rounds
<1> QED  BY <1>8

\* Reindexed is what the last round leaves.
LEMMA ReindexedIs ==
  ASSUME NEW rows, NEW b, LeadingRows(b) \in Nat
  PROVE  \E g : /\ Reindexed(rows, b) = g[LeadingRows(b)]
                /\ g[0] = rows
                /\ \A n \in 1..LeadingRows(b) :
                     g[n] = IF Stays(n - 1) THEN g[n - 1] ELSE RowMoved(g[n - 1], n - 1)
<1> DEFINE K == LeadingRows(b)
           g == CHOOSE f : Rounds(f, rows, K)
<1>1. Reindexed(rows, b) = g[K]
  BY DEF Reindexed, Rounds
<1> HIDE DEF K
<1>2. K \in Nat
  BY DEF K
<1>3. Rounds(g, rows, K)
  BY <1>2, RoundsExist
<1> HIDE DEF g
<1>4. \A n \in 0..K :
        g[n] = IF n = 0 THEN rows
               ELSE IF Stays(n - 1) THEN g[n - 1] ELSE RowMoved(g[n - 1], n - 1)
  BY <1>3 DEF Rounds
<1>5. g[0] = rows
  BY <1>2, <1>4
<1>6. \A n \in 1..K : g[n] = IF Stays(n - 1) THEN g[n - 1] ELSE RowMoved(g[n - 1], n - 1)
  <2> SUFFICES ASSUME NEW n \in 1..K
               PROVE  g[n] = IF Stays(n - 1) THEN g[n - 1] ELSE RowMoved(g[n - 1], n - 1)
    OBVIOUS
  <2>1. n \in 0..K /\ n # 0
    BY <1>2
  <2> QED  BY <1>4, <2>1
<1> QED  BY <1>1, <1>5, <1>6 DEF K

\* The leading rows are among those that the kernel looks at.
LEMMA LeadingBound ==
  ASSUME NEW b \in 0..MaxBatch
  PROVE  LeadingRows(b) \in 0..b
<1> DEFINE D == {i \in 0..b - 2 : batchIndices[i + 1] < batchIndices[i]}
<1>1. LeadingRows(b) = IF D = {} THEN b ELSE Max(D) + 1
  BY DEF LeadingRows
<1>2. D \in SUBSET (0..b)
  OBVIOUS
<1>3. D # {} => Max(D) \in 0..b - 2
  <2>1. D \subseteq 0..b - 2 /\ b \in Nat
    OBVIOUS
  <2> HIDE DEF D
  <2> QED  BY <1>2, <2>1, Greatest
<1> HIDE DEF D
<1> QED  BY <1>1, <1>3

-----------------------------------------------------------------------------
(* pre_step *)

\* Every tracked sequence has a row of its own, its place.
LEMMA PlaceIs ==
  ASSUME order \in Seq(Seqs), IsInjective(order), Len(order) <= MaxBatch
  PROVE  /\ \A s \in Range(order) :
              Place(s) \in Rows /\ Place(s) < Len(order) /\ order[Place(s) + 1] = s
         /\ \A r \in 0..Len(order) - 1 : Place(order[r + 1]) = r
<1>1. Len(order) \in Nat /\ DOMAIN order = 1..Len(order) /\ MaxBatch \in Nat
  BY LenProperties
<1>2. ASSUME NEW s \in Range(order)
      PROVE  Place(s) \in Rows /\ Place(s) < Len(order) /\ order[Place(s) + 1] = s
  <2>1. PICK i \in 1..Len(order) : order[i] = s
    BY <1>1 DEF Range
  <2>2. i - 1 \in Rows /\ i - 1 < Len(order) /\ order[i - 1 + 1] = s
    <3>1. i - 1 \in Rows /\ i - 1 < Len(order) /\ i - 1 + 1 = i
      BY <1>1 DEF Rows
    <3> QED  BY <2>1, <3>1
  <2>3. \E r \in Rows : r < Len(order) /\ order[r + 1] = s
    BY <2>2
  <2> QED  BY <2>3 DEF Place
<1>3. ASSUME NEW r \in 0..Len(order) - 1  PROVE Place(order[r + 1]) = r
  <2> DEFINE s == order[r + 1]
             q == Place(s)
  <2>1. r + 1 \in DOMAIN order
    BY <1>1
  <2>2. s \in Range(order)
    BY <2>1 DEF Range
  <2> HIDE DEF s, q
  <2>3. q \in Rows /\ q < Len(order) /\ order[q + 1] = s
    BY <1>2, <2>2 DEF q
  <2>4. q \in Nat /\ q + 1 \in DOMAIN order
    BY <1>1, <2>3 DEF Rows
  <2>5. q + 1 = r + 1
    BY <2>1, <2>3, <2>4 DEF IsInjective, s
  <2> QED  BY <2>4, <2>5 DEF q, s
<1> QED  BY <1>2, <1>3

\* What pre_step does with the ids: u are the unfinished, f the finished, n the new.
Sorted(u, f, n) ==
  /\ u \in InOrderOf(order, Range(batch'.ids) \cap InBatch)
  /\ f \in InOrderOf(order, InBatch \ Range(batch'.ids))
  /\ n \in NewOrders(batch'.ids, Range(batch'.ids) \ InBatch)
  /\ order' = u \o n
  /\ batchIndices' = [r \in Rows |-> IF r < Len(order) THEN Place((u \o f)[r + 1]) ELSE r]

LEMMA PreStepSorts ==
  ASSUME Tracked, PreStep
  PROVE  \E u, f, n : Sorted(u, f, n)
<1>1. Range(order) = InBatch
  BY DEF Tracked
<1> DEFINE ids == Range(batch'.ids)
<1>2. \E u \in InOrderOf(order, Range(order) \cap ids), f \in InOrderOf(order, Range(order) \ ids),
         n \in NewOrders(batch'.ids, ids \ Range(order)) :
           /\ batchIndices' = [r \in Rows |->
                IF r < Len(order) THEN Place((u \o f)[r + 1]) ELSE r]
           /\ order' = u \o n
  BY DEF PreStep
<1>3. Range(order) \cap ids = ids \cap InBatch /\ Range(order) \ ids = InBatch \ ids
      /\ ids \ Range(order) = ids \ InBatch
  BY <1>1
<1>4. PICK u \in InOrderOf(order, Range(order) \cap ids), f \in InOrderOf(order, Range(order) \ ids),
           n \in NewOrders(batch'.ids, ids \ Range(order)) :
             /\ batchIndices' = [r \in Rows |->
                  IF r < Len(order) THEN Place((u \o f)[r + 1]) ELSE r]
             /\ order' = u \o n
  BY <1>2
<1>5. Sorted(u, f, n)
  BY <1>3, <1>4 DEF Sorted
<1> QED  BY <1>5

\* The lists are lists of different ids, and the rows of the tracked sequences are
\* taken once each.
LEMMA SortedIs ==
  ASSUME NInv, batch'.ids \in Seq(Seqs), NEW u, NEW f, NEW n, Sorted(u, f, n)
  PROVE  /\ u \in Seq(Seqs) /\ IsInjective(u) /\ Range(u) = Range(batch'.ids) \cap InBatch
         /\ f \in Seq(Seqs) /\ Range(f) = InBatch \ Range(batch'.ids)
         /\ n \in Seq(Seqs) /\ IsInjective(n) /\ Range(n) = Range(batch'.ids) \ InBatch
         /\ u \o f \in Seq(Seqs) /\ Len(u \o f) = Len(order) /\ Range(u \o f) = Range(order)
         /\ order' \in Seq(Seqs) /\ IsInjective(order') /\ Range(order') = Range(batch'.ids)
<1>1. /\ order \in Seq(Seqs) /\ IsInjective(order) /\ Range(order) = InBatch
      /\ InBatch \in SUBSET Seqs /\ Range(batch'.ids) \in SUBSET Seqs
  BY RangeOfSeq DEF NInv, TypeOK, Tracked
<1> DEFINE K == Range(batch'.ids) \cap InBatch
           L == InBatch \ Range(batch'.ids)
           N == Range(batch'.ids) \ InBatch
<1>2. K \in SUBSET Seqs /\ L \in SUBSET Seqs /\ N \in SUBSET Seqs
  BY <1>1
<1>3. u \in InOrderOf(order, K) /\ f \in InOrderOf(order, L) /\ n \in NewOrders(batch'.ids, N)
      /\ order' = u \o n
  BY DEF Sorted
<1>4. K \cap L = {} /\ K \cup L = Range(order) /\ K \cap N = {} /\ K \cup N = Range(batch'.ids)
  BY <1>1
<1> HIDE DEF K, L, N
<1>5. u \in Seq(Seqs) /\ IsInjective(u) /\ Range(u) = K
  BY <1>1, <1>2, <1>3, InOrder
<1>6. f \in Seq(Seqs) /\ IsInjective(f) /\ Range(f) = L
  BY <1>1, <1>2, <1>3, InOrder
<1>7. n \in Seq(Seqs) /\ IsInjective(n) /\ Range(n) = N
  <2>1. n \in SetToSeqs(N)
    BY <1>3 DEF NewOrders, InOrderOf
  <2> QED  BY <1>2, <2>1, OrdersOfSet, OrdersCover
<1>8. u \o f \in Seq(Seqs) /\ IsInjective(u \o f) /\ Range(u \o f) = Range(order)
  <2>1. Range(u) \cap Range(f) = {} /\ Range(u) \cup Range(f) = Range(order)
    BY <1>4, <1>5, <1>6
  <2>2. u \o f \in Seq(Seqs) /\ IsInjective(u \o f) /\ Range(u \o f) = Range(u) \cup Range(f)
    BY <1>5, <1>6, <2>1, JoinInjective
  <2> QED  BY <2>1, <2>2
<1>9. Len(u \o f) = Len(order)
  BY <1>1, <1>8, LenIsCardinality
<1>10. order' \in Seq(Seqs) /\ IsInjective(order') /\ Range(order') = Range(batch'.ids)
  <2>1. Range(u) \cap Range(n) = {} /\ Range(u) \cup Range(n) = Range(batch'.ids)
    BY <1>4, <1>5, <1>7
  <2>2. u \o n \in Seq(Seqs) /\ IsInjective(u \o n) /\ Range(u \o n) = Range(u) \cup Range(n)
    BY <1>5, <1>7, <2>1, JoinInjective
  <2> QED  BY <1>3, <2>1, <2>2
<1> QED  BY <1>5, <1>6, <1>7, <1>8, <1>9, <1>10 DEF K, L, N

\* As many sequences are tracked as are in the batch.
LEMMA OrderLen ==
  ASSUME NInv
  PROVE  Len(order) = Len(batch.ids) /\ Len(order) \in Nat /\ Len(order) <= MaxBatch
<1>1. /\ order \in Seq(Seqs) /\ IsInjective(order) /\ Range(order) = Range(batch.ids)
      /\ batch.ids \in Seq(Seqs) /\ IsInjective(batch.ids) /\ Len(batch.ids) <= MaxBatch
  BY DEF NInv, TypeOK, RequestsTypeOK, Tracked, InBatch
<1> QED  BY <1>1, LenIsCardinality

LEMMA PreStepKeeps ==
  ASSUME NInv, PreStep
  PROVE  NInv'
<1>1. RequestsTypeOK /\ Caller /\ Tracked /\ Lengths /\ NextBatch /\ layer' = 0 /\ cache' = cache
  BY DEF NInv, TypeOK, PreStep
<1>2. /\ RequestsTypeOK' /\ Caller'
      /\ \A s \in Seqs :
           /\ Len(fed'[s]) \in Nat
           /\ s \in Range(batch'.ids) => Len(fed[s]) < Len(fed'[s])
  BY <1>1, NextBatchFeeds
<1>3. batch'.ids \in Seq(Seqs) /\ fed \in [Seqs -> Seq(Token)]
      /\ seqlen \in [Seqs -> 0..MaxLen]
  BY <1>1, <1>2 DEF RequestsTypeOK, NInv, TypeOK
<1>4. PICK u, f, n : Sorted(u, f, n)
  BY <1>1, PreStepSorts
<1>5. /\ u \o f \in Seq(Seqs) /\ Len(u \o f) = Len(order) /\ Range(u \o f) = Range(order)
      /\ order' \in Seq(Seqs) /\ IsInjective(order') /\ Range(order') = Range(batch'.ids)
  BY <1>3, <1>4, SortedIs
<1>6. Tracked'
  BY <1>5 DEF Tracked, InBatch
<1>7. ASSUME NEW s \in Seqs  PROVE seqlen'[s] \in 0..MaxLen /\ seqlen'[s] <= Len(fed'[s])
  <2>1. seqlen'[s] = IF s \notin Range(batch'.ids) THEN 0
                     ELSE IF s \in Range(order) THEN seqlen[s] + 1 ELSE batch'.new[s]
    BY DEF PreStep
  <2>2. /\ Len(fed'[s]) \in Nat /\ Len(fed[s]) \in Nat /\ seqlen[s] \in Nat
        /\ seqlen[s] <= Len(fed[s])
    BY <1>1, <1>2, <1>3, LenProperties DEF Lengths
  <2>3. batch'.new[s] \in Nat /\ batch'.new[s] <= Len(fed'[s]) /\ Len(fed'[s]) <= MaxLen
    <3>1. batch'.new \in [Seqs -> 0..MaxLen]
      BY <1>2 DEF RequestsTypeOK
    <3> QED  BY <1>2, <3>1 DEF Caller
  <2>4. s \in Range(batch'.ids) => Len(fed[s]) < Len(fed'[s])
    BY <1>2
  <2> QED  BY <2>1, <2>2, <2>3, <2>4
<1>8. seqlen' \in [Seqs -> 0..MaxLen] /\ Lengths'
  <2>1. seqlen' = [s \in Seqs |-> seqlen'[s]]
    BY DEF PreStep
  <2> QED  BY <1>7, <2>1 DEF Lengths
<1>9. batchIndices' \in [Rows -> Rows]
  <2>1. ASSUME NEW r \in Rows  PROVE batchIndices'[r] \in Rows
    <3>1. batchIndices'[r] = IF r < Len(order) THEN Place((u \o f)[r + 1]) ELSE r
      BY <1>4 DEF Sorted
    <3>2. CASE r < Len(order)
      <4>1. r + 1 \in 1..Len(u \o f)
        BY <1>5, <3>2, OrderLen DEF Rows
      <4>2. (u \o f)[r + 1] \in Range(order)
        BY <1>5, <4>1, LenProperties DEF Range
      <4>3. Place((u \o f)[r + 1]) \in Rows
        BY <4>2, OrderLen, PlaceIs DEF NInv, TypeOK
      <4> QED  BY <3>1, <3>2, <4>3
    <3> QED  BY <3>1, <3>2
  <2>2. batchIndices' = [r \in Rows |-> batchIndices'[r]]
    BY <1>4 DEF Sorted
  <2> QED  BY <2>1, <2>2
<1>10. needReindex' \in BOOLEAN
  BY DEF PreStep, BatchChanged
<1>11. cache' \in [Layers -> [Rows -> [Cols -> Token \cup {NoToken}]]] /\ layer' \in 0..NumLayers
  BY <1>1 DEF NInv, TypeOK
<1> QED  BY <1>2, <1>5, <1>6, <1>8, <1>9, <1>10, <1>11 DEF NInv, TypeOK

-----------------------------------------------------------------------------
(* step *)

LEMMA RowMovedTyped ==
  ASSUME batchIndices \in [Rows -> Rows], NEW rows \in Grids, NEW r \in Rows
  PROVE  RowMoved(rows, r) \in Grids
<1>1. \A c \in Cols : rows[batchIndices[r]][c] \in Token \cup {NoToken}
                      /\ rows[r][c] \in Token \cup {NoToken}
  BY DEF Grids
<1> DEFINE row == [c \in Cols |-> IF c < CachedLen(r) - NewLen(r)
                                  THEN rows[batchIndices[r]][c] ELSE rows[r][c]]
<1>2. row \in [Cols -> Token \cup {NoToken}]
  BY <1>1
<1>3. RowMoved(rows, r) = [rows EXCEPT ![r] = row]
  BY DEF RowMoved
<1> HIDE DEF row
<1> QED  BY <1>2, <1>3 DEF Grids

LEMMA ReindexedTyped ==
  ASSUME batchIndices \in [Rows -> Rows], NEW rows \in Grids, NEW b \in 0..MaxBatch
  PROVE  Reindexed(rows, b) \in Grids
<1> DEFINE K == LeadingRows(b)
<1>1. K \in 0..b /\ b \in Nat /\ b <= MaxBatch /\ MaxBatch \in Nat
  BY LeadingBound
<1>2. PICK g : /\ Reindexed(rows, b) = g[K] /\ g[0] = rows
               /\ \A n \in 1..K : g[n] = IF Stays(n - 1) THEN g[n - 1] ELSE RowMoved(g[n - 1], n - 1)
  BY <1>1, ReindexedIs
<1> HIDE DEF K
<1> DEFINE T == {n \in 0..K : g[n] \notin Grids}
<1>3. T = {}
  <2> SUFFICES ASSUME T # {}  PROVE FALSE
    OBVIOUS
  <2>1. PICK n \in T : \A m \in T : n <= m
    <3>1. T \in SUBSET Nat
      BY <1>1
    <3> HIDE DEF T
    <3> QED  BY <3>1, LeastNatural
  <2>2. n \in 1..K /\ n - 1 \in 0..K /\ n - 1 \in Rows
    <3>1. n # 0
      BY <1>2
    <3> QED  BY <1>1, <2>1, <3>1 DEF Rows
  <2>3. g[n - 1] \in Grids
    <3>1. ~(n <= n - 1)
      BY <2>2
    <3> QED  BY <2>1, <2>2, <3>1
  <2>4. g[n] \in Grids
    <3>1. RowMoved(g[n - 1], n - 1) \in Grids
      BY <2>2, <2>3, RowMovedTyped
    <3> QED  BY <1>2, <2>2, <2>3, <3>1
  <2> QED  BY <2>1, <2>4
<1> QED  BY <1>1, <1>2, <1>3

\* The new tokens are those that the caller has fed last.
LEMMA NewTokenIs ==
  ASSUME RequestsTypeOK, Caller, NEW t \in NewTokens
  PROVE  /\ t[1] \in Places /\ Id(t[1]) \in InBatch /\ t[1] \in Rows /\ t[2] \in 1..MaxLen
         /\ t[2] <= batch.new[Id(t[1])]
         /\ Old(Id(t[1])) \in Nat /\ Old(Id(t[1])) + t[2] \in 1..Len(fed[Id(t[1])])
         /\ NewToken(t[1] + 1, t[2]) = fed[Id(t[1])][Old(Id(t[1])) + t[2]]
         /\ NewToken(t[1] + 1, t[2]) \in Token
<1>1. t[1] \in Rows /\ t[2] \in 1..MaxLen /\ t[2] <= NewLen(t[1])
  BY DEF NewTokens
<1>2. /\ batch.ids \in Seq(Seqs) /\ Len(batch.ids) \in Nat /\ DOMAIN batch.ids = 1..Len(batch.ids)
      /\ fed \in [Seqs -> Seq(Token)] /\ batch.new \in [Seqs -> 0..MaxLen]
  BY LenProperties DEF RequestsTypeOK
<1> DEFINE r == t[1]
           i == t[2]
           s == Id(r)
<1>3. r \in Nat /\ i \in Nat /\ i >= 1
  BY <1>1 DEF Rows
<1> HIDE DEF r, i
<1>4. r < Len(batch.ids)
  BY <1>1, <1>3 DEF NewLen, r, i
<1>5. r \in Places /\ r + 1 \in 1..Len(batch.ids)
  BY <1>2, <1>3, <1>4 DEF Places
<1>6. s \in InBatch /\ s \in Seqs
  BY <1>2, <1>5, ElementOfSeq DEF Id, InBatch, Range
<1>7. i <= batch.new[s]
  BY <1>1, <1>4 DEF NewLen, Id, r, i
<1> HIDE DEF s
<1>8. /\ Len(fed[s]) \in Nat /\ batch.new[s] \in Nat /\ batch.new[s] <= Len(fed[s])
      /\ fed[s] \in Seq(Token)
  <2>1. batch.new[s] \in 0..MaxLen /\ fed[s] \in Seq(Token)
    BY <1>2, <1>6
  <2> QED  BY <1>6, <2>1, LenProperties DEF Caller
<1>9. Old(s) \in Nat /\ Old(s) + i \in 1..Len(fed[s])
  BY <1>3, <1>7, <1>8 DEF Old
<1>10. NewToken(r + 1, i) = fed[s][Old(s) + i]
  BY DEF NewToken, Old, Id, s
<1>11. fed[s][Old(s) + i] \in Token
  BY <1>8, <1>9, ElementOfSeq
<1> QED  BY <1>1, <1>5, <1>6, <1>7, <1>9, <1>10, <1>11 DEF r, i, s

LEMMA CopiedTyped ==
  ASSUME RequestsTypeOK, Caller, NEW rows \in Grids
  PROVE  Copied(rows) \in Grids
<1> DEFINE here(r, c) == {t \in NewTokens : TargetRow(t[1]) = r /\ Position(t[1], t[2]) = c}
           cell(r, c) == IF here(r, c) = {} THEN rows[r][c]
                         ELSE LET t == CHOOSE t \in here(r, c) : TRUE IN NewToken(t[1] + 1, t[2])
<1>1. ASSUME NEW r \in Rows, NEW c \in Cols  PROVE cell(r, c) \in Token \cup {NoToken}
  <2>1. CASE here(r, c) = {}
    <3>1. cell(r, c) = rows[r][c]
      BY <2>1
    <3> QED  BY <3>1 DEF Grids
  <2>2. CASE here(r, c) # {}
    <3> DEFINE t == CHOOSE t \in here(r, c) : TRUE
    <3>1. t \in here(r, c)
      BY <2>2
    <3>2. t \in NewTokens
      BY <3>1
    <3>3. cell(r, c) = NewToken(t[1] + 1, t[2])
      BY <2>2
    <3> HIDE DEF t, cell
    <3> QED  BY <3>2, <3>3, NewTokenIs
  <2> QED  BY <2>1, <2>2
<1>2. Copied(rows) = [r \in Rows |-> [c \in Cols |-> cell(r, c)]]
  BY DEF Copied
<1> HIDE DEF cell
<1> QED  BY <1>1, <1>2 DEF Grids

LEMMA StepTyped ==
  ASSUME NInv, Step
  PROVE  NInv'
<1>1. /\ batch' = batch /\ fed' = fed /\ steps' = steps /\ order' = order /\ seqlen' = seqlen
      /\ batchIndices' = batchIndices /\ needReindex' = needReindex
      /\ layer' = layer + 1 /\ layer < NumLayers
  BY DEF Step, requests
<1>2. /\ RequestsTypeOK /\ Caller /\ batchIndices \in [Rows -> Rows]
      /\ cache \in [Layers -> Grids] /\ layer \in 0..NumLayers /\ NumLayers \in Nat
  BY DEF NInv, TypeOK, Grids
<1>3. layer + 1 \in Layers /\ layer' \in 0..NumLayers
  BY <1>1, <1>2 DEF Layers
<1>4. PICK b \in {Len(batch.ids), MaxBatch} :
        cache' = [cache EXCEPT ![layer + 1] =
          Copied(IF needReindex THEN Reindexed(cache[layer + 1], b) ELSE cache[layer + 1])]
  BY DEF Step
<1>5. b \in 0..MaxBatch
  BY OrderLen
<1> DEFINE rows == cache[layer + 1]
           moved == IF needReindex THEN Reindexed(rows, b) ELSE rows
<1>6. rows \in Grids
  BY <1>2, <1>3
<1> HIDE DEF rows
<1>7. moved \in Grids
  BY <1>2, <1>5, <1>6, ReindexedTyped
<1> HIDE DEF moved
<1>8. Copied(moved) \in Grids
  BY <1>2, <1>7, CopiedTyped
<1>9. cache' = [cache EXCEPT ![layer + 1] = Copied(moved)]
  BY <1>4 DEF moved, rows
<1>10. cache' \in [Layers -> Grids]
  BY <1>2, <1>8, <1>9
<1>11. RequestsTypeOK' /\ Caller' /\ Tracked' /\ Lengths'
  BY <1>1, <1>2 DEF NInv, RequestsTypeOK, Caller, Tracked, Lengths, InBatch
<1> QED  BY <1>1, <1>3, <1>10, <1>11 DEF NInv, TypeOK, Grids

-----------------------------------------------------------------------------
(* Type correctness *)

\* Without a batch.
Empty ==
  /\ batch = EmptyBatch /\ fed = NothingFed /\ steps \in 0..MaxSteps
  /\ order = <<>> /\ seqlen = NoSequences
  /\ batchIndices \in [Rows -> Rows] /\ needReindex \in BOOLEAN
  /\ cache \in [Layers -> Grids] /\ layer \in 0..NumLayers

LEMMA EmptyTyped == Empty => NInv /\ InBatch = {}
<1> SUFFICES ASSUME Empty  PROVE NInv /\ InBatch = {}
  OBVIOUS
<1> USE DEF Empty
<1>1. <<>> \in Seq(Seqs) /\ Len(<<>>) = 0 /\ DOMAIN <<>> = {} /\ IsInjective(<<>>) /\ Range(<<>>) = {}
  <2>1. <<>> \in Seq(Seqs) /\ Len(<<>>) = 0
    BY EmptySeq
  <2>2. DOMAIN <<>> = {}
    OBVIOUS
  <2> QED  BY <2>1, <2>2 DEF IsInjective, Range
<1>2. EmptyBatch.ids = <<>> /\ MaxLen \in Nat
  BY DEF EmptyBatch
<1>3. RequestsTypeOK /\ Caller
  <2>1. \A s \in Seqs : batch.new[s] = 0 /\ Len(fed[s]) = 0
    BY NothingRequested
  <2>2. RequestsTypeOK
    BY NothingRequested DEF RequestsTypeOK
  <2> QED  BY <1>2, <2>1, <2>2 DEF Caller
<1>4. InBatch = {} /\ Tracked
  BY <1>1, <1>2 DEF InBatch, Tracked
<1>5. seqlen \in [Seqs -> 0..MaxLen] /\ Lengths
  <2>1. \A s \in Seqs : Len(fed[s]) = 0
    BY NothingRequested
  <2>2. \A s \in Seqs : seqlen[s] = 0
    BY DEF NoSequences
  <2>3. 0 \in 0..MaxLen
    BY <1>2
  <2> QED  BY <2>1, <2>2, <2>3 DEF NoSequences, Lengths
<1> QED  BY <1>1, <1>3, <1>4, <1>5 DEF NInv, TypeOK, Grids

\* What Init and Reset leave.
LEMMA InitEmpty == Init => Empty
<1> SUFFICES ASSUME Init  PROVE Empty
  OBVIOUS
<1>1. NoRequests /\ order = <<>> /\ seqlen = NoSequences /\ needReindex = TRUE /\ layer = NumLayers
      /\ batchIndices = [j \in Rows |-> 0]
      /\ cache = [l \in Layers |-> [r \in Rows |-> [c \in Cols |-> NoToken]]]
  BY DEF Init
<1>2. 0 \in Rows /\ NumLayers \in 0..NumLayers /\ 0 \in 0..MaxSteps
  BY DEF Rows
<1> QED  BY <1>1, <1>2 DEF Empty, NoRequests, Grids

LEMMA ResetEmpty ==
  ASSUME NInv, Reset
  PROVE  Empty'
<1>1. /\ batch' = EmptyBatch /\ fed' = NothingFed /\ steps' = steps
      /\ order' = <<>> /\ seqlen' = NoSequences
      /\ batchIndices' = batchIndices /\ needReindex' = needReindex
      /\ cache' = cache /\ layer' = layer
  BY DEF Reset, Forget
<1> QED  BY <1>1 DEF NInv, TypeOK, RequestsTypeOK, Empty, Grids

LEMMA NInvStep == NInv /\ [Next]_vars => NInv'
<1> SUFFICES ASSUME NInv, [Next]_vars  PROVE NInv'
  OBVIOUS
<1>1. CASE PreStep
  BY <1>1, PreStepKeeps
<1>2. CASE Step
  BY <1>2, StepTyped
<1>3. CASE Reset
  <2>1. Empty'
    BY <1>3, ResetEmpty
  <2>2. Empty' => NInv'
    BY EmptyTyped, PTL
  <2> QED  BY <2>1, <2>2
<1>4. CASE UNCHANGED vars
  <2>1. /\ batch' = batch /\ fed' = fed /\ steps' = steps /\ order' = order
        /\ seqlen' = seqlen /\ batchIndices' = batchIndices
        /\ needReindex' = needReindex /\ cache' = cache /\ layer' = layer
    BY <1>4 DEF vars, requests
  <2> QED  BY <2>1 DEF NInv, TypeOK, RequestsTypeOK, Caller, Tracked, Lengths, InBatch
<1> QED  BY <1>1, <1>2, <1>3, <1>4 DEF Next

\* The state stays well typed for every caller: no row outside of the cache is
\* moved or written (pre_step, step), and no tracked length passes
\* max_sequence_length.
THEOREM NonPagedTypes == Spec => []TypeOK
<1>1. Init => NInv
  BY InitEmpty, EmptyTyped
<1>2. NInv /\ [Next]_vars => NInv'
  BY NInvStep
<1>3. NInv => TypeOK
  BY DEF NInv
<1> QED  BY <1>1, <1>2, <1>3, PTL DEF Spec

-----------------------------------------------------------------------------
(* pre_step, for callers that are Serial *)

\* The tracked sequences are listed in the order of the batch.
LEMMA SameAsBatch ==
  ASSUME NInv, NInv', order = batch.ids, ~AnyOrder, NextBatch,
         NEW u, NEW f, NEW n, Sorted(u, f, n)
  PROVE  order' = batch'.ids
<1> DEFINE K == Range(batch'.ids) \cap InBatch
           N == Range(batch'.ids) \ InBatch
           ids == batch'.ids
<1>1. /\ RequestsTypeOK /\ order \in Seq(Seqs) /\ IsInjective(order)
      /\ ids \in Seq(Seqs) /\ IsInjective(ids)
  BY DEF NInv, TypeOK, RequestsTypeOK
<1>2. K \in SUBSET Seqs /\ N \in SUBSET Seqs
  BY <1>1, RangeOfSeq
<1>3. PICK kept, late : ids = kept \o late /\ kept \in InOrderOf(order, K) /\ late \in SetToSeqs(N)
  BY <1>1, NextBatchParts
<1>4. /\ u \in InOrderOf(order, K) /\ n \in InOrderOf(ids, N) /\ order' = u \o n
  BY DEF Sorted, NewOrders
<1> HIDE DEF K, N, ids
<1>5. kept \in Seq(Seqs) /\ late \in Seq(Seqs)
  BY <1>1, <1>2, <1>3, InOrder, OrdersOfSet
<1>6. u = kept
  BY <1>1, <1>2, <1>3, <1>4, OneOrder
<1>7. late \in InOrderOf(ids, N)
  <2>1. ASSUME NEW i \in DOMAIN late, NEW j \in DOMAIN late, i < j
        PROVE  \E a, b \in DOMAIN ids : a < b /\ ids[a] = late[i] /\ ids[b] = late[j]
    <3>1. /\ Len(kept) \in Nat /\ Len(late) \in Nat /\ DOMAIN late = 1..Len(late)
          /\ DOMAIN ids = 1..Len(kept) + Len(late)
      BY <1>1, <1>3, <1>5, LenProperties, ConcatProperties
    <3>2. \A x \in 1..Len(kept) + Len(late) :
            ids[x] = IF x <= Len(kept) THEN kept[x] ELSE late[x - Len(kept)]
      BY <1>3, <1>5, ConcatProperties
    <3> DEFINE a == Len(kept) + i
               b == Len(kept) + j
    <3>3. /\ a \in 1..Len(kept) + Len(late) /\ b \in 1..Len(kept) + Len(late) /\ a < b
          /\ ~(a <= Len(kept)) /\ ~(b <= Len(kept)) /\ a - Len(kept) = i /\ b - Len(kept) = j
      BY <2>1, <3>1
    <3> HIDE DEF a, b
    <3> QED  BY <3>1, <3>2, <3>3
  <2> QED  BY <1>3, <2>1 DEF InOrderOf
<1>8. n = late
  BY <1>1, <1>2, <1>4, <1>7, OneOrder
<1> QED  BY <1>3, <1>4, <1>6, <1>8 DEF ids

\* The rows of the unfinished sequences.
LEMMA UnfinishedRows ==
  ASSUME NInv, batch'.ids \in Seq(Seqs), NEW u, NEW f, NEW n, Sorted(u, f, n)
  PROVE  /\ Len(u) \in Nat /\ Len(u) <= Len(order)
         /\ \A r \in 0..Len(u) - 1 :
              /\ batchIndices'[r] = Place(u[r + 1])
              /\ batchIndices'[r] \in 0..Len(order) - 1
              /\ order[batchIndices'[r] + 1] = u[r + 1]
              /\ r <= batchIndices'[r]
              /\ r > 0 => batchIndices'[r - 1] < batchIndices'[r]
<1>1. /\ order \in Seq(Seqs) /\ IsInjective(order) /\ Range(order) = InBatch
      /\ Len(order) \in Nat /\ Len(order) <= MaxBatch /\ MaxBatch \in Nat
      /\ DOMAIN order = 1..Len(order)
  BY OrderLen, LenProperties DEF NInv, TypeOK, Tracked
<1>2. /\ u \in Seq(Seqs) /\ Range(u) \subseteq Range(order) /\ f \in Seq(Seqs)
      /\ Len(u \o f) = Len(order)
  BY <1>1, SortedIs
<1>3. /\ Len(u) \in Nat /\ Len(f) \in Nat /\ Len(u \o f) = Len(u) + Len(f)
      /\ \A i \in 1..Len(u) : (u \o f)[i] = u[i]
      /\ DOMAIN u = 1..Len(u)
  <2>1. /\ Len(u) \in Nat /\ Len(f) \in Nat /\ DOMAIN u = 1..Len(u)
    BY <1>2, LenProperties
  <2>2. /\ Len(u \o f) = Len(u) + Len(f)
        /\ \A i \in 1..Len(u) + Len(f) : (u \o f)[i] = IF i <= Len(u) THEN u[i] ELSE f[i - Len(u)]
    BY <1>2, ConcatProperties
  <2>3. \A i \in 1..Len(u) : i \in 1..Len(u) + Len(f) /\ i <= Len(u)
    BY <2>1
  <2> QED  BY <2>1, <2>2, <2>3
<1>4. Len(u) <= Len(order)
  BY <1>2, <1>3
<1> DEFINE at == [i \in 1..Len(u) |-> Place(u[i]) + 1]
<1>5. ASSUME NEW i \in 1..Len(u)
      PROVE  /\ at[i] \in 1..Len(order) /\ order[at[i]] = u[i]
             /\ batchIndices'[i - 1] = Place(u[i]) /\ Place(u[i]) = at[i] - 1
  <2>1. u[i] \in Range(order)
    BY <1>2, <1>3 DEF Range
  <2>2. Place(u[i]) \in Rows /\ Place(u[i]) < Len(order) /\ order[Place(u[i]) + 1] = u[i]
    BY <1>1, <2>1, PlaceIs
  <2>3. i - 1 \in Rows /\ i - 1 < Len(order) /\ i - 1 + 1 = i
    BY <1>1, <1>3, <1>4 DEF Rows
  <2>4. batchIndices'[i - 1] = Place((u \o f)[i])
    BY <2>3 DEF Sorted
  <2>5. batchIndices'[i - 1] = Place(u[i])
    BY <1>3, <2>4
  <2> QED  BY <1>1, <2>2, <2>5 DEF Rows
<1>6. ASSUME NEW i \in 1..Len(u), NEW j \in 1..Len(u), i < j  PROVE at[i] < at[j]
  <2>1. i \in DOMAIN u /\ j \in DOMAIN u
    BY <1>3
  <2>2. Before(order, u[i], u[j])
    <3>1. u \in InOrderOf(order, Range(batch'.ids) \cap InBatch)
      BY DEF Sorted
    <3>2. Range(batch'.ids) \cap InBatch \in SUBSET Seqs
      BY <1>1, RangeOfSeq
    <3> QED  BY <1>1, <1>6, <2>1, <3>1, <3>2, InOrder
  <2>3. PICK a \in DOMAIN order, b \in DOMAIN order : a < b /\ order[a] = u[i] /\ order[b] = u[j]
    BY <2>2 DEF Before
  <2>4. at[i] \in DOMAIN order /\ at[j] \in DOMAIN order /\ order[at[i]] = u[i] /\ order[at[j]] = u[j]
    BY <1>1, <1>5
  <2> HIDE DEF at
  <2>5. a = at[i] /\ b = at[j]
    BY <1>1, <2>3, <2>4 DEF IsInjective
  <2> QED  BY <2>3, <2>5
<1>7. at \in [1..Len(u) -> Nat \ {0}]
  <2>1. \A i \in 1..Len(u) : at[i] \in Nat \ {0}
    BY <1>1, <1>5
  <2> QED  BY <2>1
<1> HIDE DEF at
<1>8. \A i \in 1..Len(u) : i <= at[i]
  BY <1>3, <1>6, <1>7, IncreasingAbove
<1>9. ASSUME NEW r \in 0..Len(u) - 1
      PROVE  /\ batchIndices'[r] = Place(u[r + 1])
             /\ batchIndices'[r] \in 0..Len(order) - 1
             /\ order[batchIndices'[r] + 1] = u[r + 1]
             /\ r <= batchIndices'[r]
             /\ r > 0 => batchIndices'[r - 1] < batchIndices'[r]
  <2>1. r + 1 \in 1..Len(u) /\ r + 1 - 1 = r
    BY <1>3
  <2>2. /\ at[r + 1] \in 1..Len(order) /\ order[at[r + 1]] = u[r + 1]
        /\ batchIndices'[r] = Place(u[r + 1]) /\ batchIndices'[r] = at[r + 1] - 1
        /\ r + 1 <= at[r + 1]
    BY <1>5, <1>8, <2>1
  <2>3. r > 0 => batchIndices'[r - 1] < batchIndices'[r]
    <3> SUFFICES ASSUME r > 0  PROVE batchIndices'[r - 1] < batchIndices'[r]
      OBVIOUS
    <3>1. r \in 1..Len(u) /\ r < r + 1
      BY <1>3
    <3>2. at[r] \in 1..Len(order) /\ batchIndices'[r - 1] = at[r] - 1 /\ at[r] < at[r + 1]
      BY <1>5, <1>6, <2>1, <3>1
    <3> QED  BY <1>1, <2>2, <3>2
  <2>4. at[r + 1] - 1 + 1 = at[r + 1] /\ at[r + 1] - 1 \in 0..Len(order) - 1 /\ r <= at[r + 1] - 1
    BY <1>1, <2>2
  <2> QED  BY <2>2, <2>3, <2>4
<1> QED  BY <1>3, <1>4, <1>9

\* A batch of the same ids leaves the rows where they are.
LEMMA SameIdsStay ==
  ASSUME NInv, batch'.ids \in Seq(Seqs), NEW u, NEW f, NEW n, Sorted(u, f, n),
         Range(batch'.ids) = Range(order)
  PROVE  u = order /\ \A r \in 0..Len(order) - 1 : batchIndices'[r] = r
<1>1. /\ order \in Seq(Seqs) /\ IsInjective(order) /\ Range(order) = InBatch
      /\ Len(order) <= MaxBatch
  BY OrderLen DEF NInv, TypeOK, Tracked
<1>2. u \in Seq(Seqs) /\ IsInjective(u) /\ Range(u) = Range(order)
  <2>1. u \in Seq(Seqs) /\ IsInjective(u) /\ Range(u) = Range(batch'.ids) \cap InBatch
    BY SortedIs
  <2> QED  BY <1>1, <2>1
<1>3. \A i, j \in DOMAIN u :
        i < j => \E a, b \in DOMAIN order : a < b /\ order[a] = u[i] /\ order[b] = u[j]
  <2>1. u \in InOrderOf(order, Range(batch'.ids) \cap InBatch)
    BY DEF Sorted
  <2> QED  BY <2>1 DEF InOrderOf
<1>4. u = order
  BY <1>1, <1>2, <1>3, SameOrder
<1>5. \A r \in 0..Len(order) - 1 : batchIndices'[r] = Place(order[r + 1])
  BY <1>4, UnfinishedRows
<1> QED  BY <1>1, <1>4, <1>5, PlaceIs

\* Of a sequence of the next batch the old tokens are those fed so far.
LEMMA NextOld ==
  ASSUME RequestsTypeOK, Caller, NextBatch, NEW s \in Range(batch'.ids)
  PROVE  /\ s \in Seqs /\ Len(fed[s]) \in Nat /\ Len(fed'[s]) \in Nat /\ batch'.new[s] \in Nat
         /\ Len(fed'[s]) - batch'.new[s] = Len(fed[s])
         /\ \A p \in 1..Len(fed[s]) : fed'[s][p] = fed[s][p]
<1>1. /\ RequestsTypeOK' /\ Len(fed'[s]) = Len(fed[s]) + batch'.new[s]
      /\ \A k \in 1..Len(fed[s]) : fed'[s][k] = fed[s][k]
  BY NextBatchFeeds
<1>2. s \in Seqs
  <2>1. batch'.ids \in Seq(Seqs)
    BY <1>1 DEF RequestsTypeOK
  <2> QED  BY <2>1, RangeOfSeq
<1>3. Len(fed[s]) \in Nat
  <2>1. fed[s] \in Seq(Token)
    BY <1>2 DEF RequestsTypeOK
  <2> QED  BY <2>1, LenProperties
<1>4. batch'.new[s] \in Nat
  <2>1. batch'.new \in [Seqs -> 0..MaxLen] /\ MaxLen \in Nat
    BY <1>1 DEF RequestsTypeOK
  <2> QED  BY <1>2, <2>1
<1> QED  BY <1>1, <1>2, <1>3, <1>4

\* With one token per iteration the tracked lengths are those of the batch.
LEMMA NextExact ==
  ASSUME Serial, NInv, NInv', Exact, PreStep
  PROVE  Exact'
<1>1. RequestsTypeOK /\ Caller /\ NextBatch /\ Range(order) = InBatch
  BY DEF NInv, TypeOK, PreStep, Tracked
<1>2. /\ \A s \in Seqs \ Range(batch'.ids) : fed'[s] = <<>>
      /\ \A s \in Range(batch'.ids) : s \in InBatch => batch'.new[s] \in DecodeLens
  BY <1>1, NextBatchFeeds
<1>3. ASSUME NEW s \in Range(batch'.ids)  PROVE seqlen'[s] = Len(fed'[s])
  <2>1. /\ s \in Seqs /\ Len(fed[s]) \in Nat /\ Len(fed'[s]) \in Nat /\ batch'.new[s] \in Nat
        /\ Len(fed'[s]) - batch'.new[s] = Len(fed[s])
    BY <1>1, NextOld
  <2>2. seqlen'[s] = IF s \in InBatch THEN seqlen[s] + 1 ELSE batch'.new[s]
    <3>1. seqlen' = [t \in Seqs |->
             IF t \notin Range(batch'.ids) THEN 0
             ELSE IF t \in Range(order) THEN seqlen[t] + 1 ELSE batch'.new[t]]
      BY DEF PreStep
    <3> QED  BY <1>1, <2>1, <3>1
  <2>3. CASE s \in InBatch
    <3>1. batch'.new[s] = 1 /\ seqlen[s] = Len(fed[s])
      BY <1>2, <2>3 DEF Serial, Exact
    <3> QED  BY <2>1, <2>2, <2>3, <3>1
  <2>4. CASE s \notin InBatch
    <3>1. Len(fed[s]) = 0
      <4>1. fed[s] = <<>> /\ Len(<<>>) = 0
        BY <2>1, <2>4, EmptySeq DEF Exact
      <4> QED  BY <4>1
    <3> QED  BY <2>1, <2>2, <2>4, <3>1
  <2> QED  BY <2>3, <2>4
<1> QED  BY <1>2, <1>3 DEF Exact, InBatch

\* A sequence with old tokens is unfinished: it is in a leading row.
LEMMA OldIsUnfinished ==
  ASSUME NInv, NInv', Exact, NextBatch, NEW u, NEW f, NEW n, Sorted(u, f, n),
         order' = batch'.ids, NEW r \in 0..Len(batch'.ids) - 1,
         Len(fed[batch'.ids[r + 1]]) # 0
  PROVE  r \in 0..Len(u) - 1 /\ u[r + 1] = batch'.ids[r + 1]
<1>1. batch'.ids \in Seq(Seqs) /\ order' = u \o n
  BY DEF NInv, TypeOK, RequestsTypeOK, Sorted
<1>2. /\ u \in Seq(Seqs) /\ n \in Seq(Seqs) /\ Range(n) = Range(batch'.ids) \ InBatch
  BY <1>1, SortedIs
<1>3. /\ Len(u) \in Nat /\ Len(n) \in Nat /\ DOMAIN n = 1..Len(n)
      /\ Len(batch'.ids) = Len(u) + Len(n)
      /\ \A i \in 1..Len(u) + Len(n) :
           batch'.ids[i] = IF i <= Len(u) THEN u[i] ELSE n[i - Len(u)]
  BY <1>1, <1>2, LenProperties, ConcatProperties
<1> DEFINE s == batch'.ids[r + 1]
<1>4. r + 1 \in 1..Len(u) + Len(n) /\ r \in Nat
  BY <1>3
<1>5. s \in Seqs
  BY <1>1, <1>3, <1>4, ElementOfSeq
<1>6. s \in InBatch
  <2> SUFFICES ASSUME s \notin InBatch  PROVE FALSE
    OBVIOUS
  <2>1. fed[s] = <<>> /\ Len(<<>>) = 0
    BY <1>5, EmptySeq DEF Exact
  <2> QED  BY <2>1
<1>7. r + 1 <= Len(u)
  <2> SUFFICES ASSUME ~(r + 1 <= Len(u))  PROVE FALSE
    OBVIOUS
  <2>1. r + 1 - Len(u) \in DOMAIN n /\ s = n[r + 1 - Len(u)]
    BY <1>3, <1>4
  <2>2. s \in Range(n)
    BY <2>1 DEF Range
  <2> QED  BY <1>2, <1>6, <2>2
<1> QED  BY <1>3, <1>4, <1>7

LEMMA PreStepFaithful ==
  ASSUME Serial, SInv, PreStep
  PROVE  SInv'
<1>1. /\ NInv /\ order = batch.ids /\ Exact /\ NextBatch
      /\ layer = NumLayers /\ layer' = 0 /\ cache' = cache /\ Tracked
      /\ RequestsTypeOK /\ Caller /\ NumLayers \in Nat
  BY DEF SInv, NInv, TypeOK, PreStep
<1>2. NInv' /\ batch'.ids \in Seq(Seqs) /\ Len(batch'.ids) \in Nat
      /\ DOMAIN batch'.ids = 1..Len(batch'.ids)
  <2>1. NInv'
    BY <1>1, PreStepKeeps
  <2>2. batch'.ids \in Seq(Seqs)
    BY <2>1 DEF NInv, TypeOK, RequestsTypeOK
  <2> QED  BY <2>1, <2>2, LenProperties
<1>3. PICK u, f, n : Sorted(u, f, n)
  BY <1>1, PreStepSorts
<1>4. order' = batch'.ids
  BY <1>1, <1>2, <1>3, SameAsBatch DEF Serial
<1>5. Exact'
  BY <1>1, <1>2, NextExact
<1>6. /\ Len(u) \in Nat /\ Len(u) <= Len(order) /\ Len(order) = Len(batch.ids)
      /\ Len(order) \in Nat
      /\ \A r \in 0..Len(u) - 1 :
           /\ batchIndices'[r] = Place(u[r + 1])
           /\ batchIndices'[r] \in 0..Len(order) - 1
           /\ order[batchIndices'[r] + 1] = u[r + 1]
           /\ r <= batchIndices'[r]
           /\ r > 0 => batchIndices'[r - 1] < batchIndices'[r]
  BY <1>1, <1>2, <1>3, UnfinishedRows, OrderLen
<1> DEFINE sq(r) == batch'.ids[r + 1]
<1>7. ASSUME NEW r \in 0..Len(batch'.ids) - 1
      PROVE  /\ sq(r) \in Range(batch'.ids)
             /\ Len(fed'[sq(r)]) - batch'.new[sq(r)] = Len(fed[sq(r)])
             /\ Len(fed[sq(r)]) \in Nat
             /\ \A p \in 1..Len(fed[sq(r)]) : fed'[sq(r)][p] = fed[sq(r)][p]
             /\ Len(fed[sq(r)]) # 0 => r \in 0..Len(u) - 1 /\ u[r + 1] = sq(r)
  <2>1. r + 1 \in DOMAIN batch'.ids
    BY <1>2
  <2>2. sq(r) \in Range(batch'.ids)
    BY <2>1 DEF Range
  <2>3. Len(fed[sq(r)]) # 0 => r \in 0..Len(u) - 1 /\ u[r + 1] = sq(r)
    BY <1>1, <1>2, <1>3, <1>4, OldIsUnfinished
  <2> HIDE DEF sq
  <2>4. /\ Len(fed'[sq(r)]) - batch'.new[sq(r)] = Len(fed[sq(r)])
        /\ Len(fed[sq(r)]) \in Nat
        /\ \A p \in 1..Len(fed[sq(r)]) : fed'[sq(r)][p] = fed[sq(r)][p]
    BY <1>1, <2>2, NextOld
  <2> QED  BY <2>2, <2>3, <2>4
<1>8. Moves'
  <2>1. ASSUME NEW r \in 0..Len(batch'.ids) - 1, Len(fed[sq(r)]) > 0
        PROVE  r <= batchIndices'[r] /\ \A i \in 1..r : batchIndices'[i - 1] < batchIndices'[i]
    <3>1. r \in 0..Len(u) - 1
      BY <1>7, <2>1
    <3>2. r <= batchIndices'[r]
      BY <1>6, <3>1
    <3>3. ASSUME NEW i \in 1..r  PROVE batchIndices'[i - 1] < batchIndices'[i]
      <4>1. i \in 0..Len(u) - 1 /\ i > 0
        BY <1>6, <3>1
      <4> QED  BY <1>6, <4>1
    <3> QED  BY <3>2, <3>3
  <2>2. ASSUME NEW r \in 0..Len(batch'.ids) - 1, Len(fed'[sq(r)]) - batch'.new[sq(r)] > 0
        PROVE  r <= batchIndices'[r] /\ \A i \in 1..r : batchIndices'[i - 1] < batchIndices'[i]
    <3>1. Len(fed[sq(r)]) > 0
      BY <1>7, <2>2
    <3> QED  BY <2>1, <3>1
  <2> QED  BY <2>2 DEF Moves, Places, Old, Id
<1>9. Settled'
  <2> SUFFICES ASSUME ~needReindex', NEW r \in 0..Len(batch'.ids) - 1
               PROVE  batchIndices'[r] = r
    BY DEF Settled, Places
  <2>1. Range(batch'.ids) = Range(order)
    BY DEF PreStep, BatchChanged
  <2>2. \A q \in 0..Len(order) - 1 : batchIndices'[q] = q
    BY <1>1, <1>2, <1>3, <2>1, SameIdsStay
  <2>3. Len(batch'.ids) = Len(order)
    <3>1. IsInjective(order) /\ order \in Seq(Seqs) /\ IsInjective(batch'.ids)
      BY <1>1, <1>2 DEF NInv, TypeOK, RequestsTypeOK
    <3> QED  BY <1>2, <2>1, <3>1, LenIsCardinality
  <2> QED  BY <2>2, <2>3
<1>10. Stored'
  <2>1. ASSUME NEW l \in Layers, NEW r \in 0..Len(batch'.ids) - 1,
               NEW p \in 1..Len(fed'[sq(r)]) - batch'.new[sq(r)]
        PROVE  cache'[l][batchIndices'[r]][p - 1] = fed'[sq(r)][p]
    <3> DEFINE s == sq(r)
               q == batchIndices'[r]
    <3> HIDE DEF sq
    <3>1. p \in 1..Len(fed[s]) /\ Len(fed[s]) # 0 /\ fed'[s][p] = fed[s][p]
      <4>1. /\ Len(fed'[s]) - batch'.new[s] = Len(fed[s]) /\ Len(fed[s]) \in Nat
            /\ \A k \in 1..Len(fed[s]) : fed'[s][k] = fed[s][k]
        BY <1>7
      <4>2. p \in 1..Len(fed[s])
        BY <4>1
      <4> QED  BY <4>1, <4>2
    <3>2. r \in 0..Len(u) - 1 /\ u[r + 1] = s
      BY <1>7, <3>1
    <3>3. q \in Places /\ Id(q) = s
      BY <1>1, <1>6, <3>2 DEF Places, Id
    <3> HIDE DEF s, q
    <3>4. l <= layer
      BY <1>1 DEF Layers
    <3>5. Holds(cache[l][q], Id(q), Len(fed[Id(q)]))
      BY <3>3, <3>4 DEF SInv, Stored
    <3>6. cache[l][q][p - 1] = fed[s][p]
      BY <3>1, <3>3, <3>5 DEF Holds
    <3> QED  BY <1>1, <3>1, <3>6 DEF s, q
  <2>2. ASSUME NEW l \in Layers  PROVE ~(l <= layer')
    BY <1>1 DEF Layers
  <2> QED  BY <2>1, <2>2 DEF Stored, Places, Id, Old, Holds
<1> QED  BY <1>2, <1>4, <1>5, <1>8, <1>9, <1>10 DEF SInv

-----------------------------------------------------------------------------
(* step, in the same setting *)

\* The lengths the kernels read for a row are those of its sequence.
LEMMA RowLens ==
  ASSUME SInv
  PROVE  /\ Places \subseteq Rows
         /\ \A r \in Places :
              /\ Id(r) \in InBatch /\ CachedLen(r) - NewLen(r) = Old(Id(r))
              /\ NewLen(r) = batch.new[Id(r)] /\ batch.new[Id(r)] \in Nat
              /\ Old(Id(r)) \in Nat /\ Len(fed[Id(r)]) = Old(Id(r)) + batch.new[Id(r)]
              /\ Len(fed[Id(r)]) <= MaxLen /\ CachedLen(r) = Len(fed[Id(r)])
         /\ \A r \in Rows \ Places : CachedLen(r) = 0 /\ NewLen(r) = 0
<1>1. /\ RequestsTypeOK /\ Caller /\ order = batch.ids /\ Exact /\ MaxBatch \in Nat
      /\ Len(order) = Len(batch.ids) /\ Len(order) \in Nat /\ Len(order) <= MaxBatch
  BY OrderLen DEF SInv, NInv, TypeOK
<1>2. /\ batch.ids \in Seq(Seqs) /\ DOMAIN batch.ids = 1..Len(batch.ids)
      /\ batch.new \in [Seqs -> 0..MaxLen] /\ fed \in [Seqs -> Seq(Token)] /\ MaxLen \in Nat
  BY <1>1, LenProperties DEF RequestsTypeOK
<1>3. Places \subseteq Rows
  BY <1>1 DEF Places, Rows
<1>4. ASSUME NEW r \in Places
      PROVE  /\ Id(r) \in InBatch /\ CachedLen(r) - NewLen(r) = Old(Id(r))
             /\ NewLen(r) = batch.new[Id(r)] /\ batch.new[Id(r)] \in Nat
             /\ Old(Id(r)) \in Nat /\ Len(fed[Id(r)]) = Old(Id(r)) + batch.new[Id(r)]
             /\ Len(fed[Id(r)]) <= MaxLen /\ CachedLen(r) = Len(fed[Id(r)])
  <2> DEFINE s == Id(r)
  <2>1. r + 1 \in DOMAIN batch.ids /\ r < Len(batch.ids)
    BY <1>1, <1>2 DEF Places
  <2>2. s \in InBatch
    BY <2>1 DEF Id, InBatch, Range
  <2>3. s \in Seqs
    BY <1>2, <2>2, RangeOfSeq DEF InBatch
  <2>4. CachedLen(r) = seqlen[s] /\ NewLen(r) = batch.new[s]
    BY <1>1, <2>1 DEF CachedLen, NewLen, Id
  <2> HIDE DEF s
  <2>5. seqlen[s] = Len(fed[s]) /\ batch.new[s] <= Len(fed[s]) /\ Len(fed[s]) <= MaxLen
    BY <1>1, <2>2, <2>3 DEF Exact, Caller
  <2>6. Len(fed[s]) \in Nat /\ batch.new[s] \in Nat
    <3>1. fed[s] \in Seq(Token) /\ batch.new[s] \in 0..MaxLen
      BY <1>2, <2>3
    <3> QED  BY <1>2, <3>1, LenProperties
  <2>7. Old(s) \in Nat /\ Len(fed[s]) = Old(s) + batch.new[s]
    BY <2>5, <2>6 DEF Old
  <2>8. CachedLen(r) - NewLen(r) = Old(s)
    BY <2>4, <2>5 DEF Old
  <2> QED  BY <2>2, <2>4, <2>5, <2>6, <2>7, <2>8 DEF s
<1>5. ASSUME NEW r \in Rows \ Places  PROVE CachedLen(r) = 0 /\ NewLen(r) = 0
  <2>1. ~(r < Len(batch.ids))
    BY <1>1 DEF Rows, Places
  <2> QED  BY <1>1, <2>1 DEF CachedLen, NewLen
<1> QED  BY <1>3, <1>4, <1>5

\* A row of old tokens is before the last descent of batch_indices: the kernel
\* counts it as a leading one.
LEMMA LeadingCovers ==
  ASSUME SInv, NEW b \in 0..MaxBatch, Len(batch.ids) <= b,
         NEW r \in Places, Old(Id(r)) > 0
  PROVE  r < LeadingRows(b)
<1>1. /\ batchIndices \in [Rows -> Rows] /\ MaxBatch \in Nat /\ Len(batch.ids) \in Nat
      /\ Len(batch.ids) <= MaxBatch
  BY OrderLen DEF SInv, NInv, TypeOK
<1>2. \A i \in 1..r : batchIndices[i - 1] < batchIndices[i]
  BY DEF SInv, Moves
<1> DEFINE D == {i \in 0..b - 2 : batchIndices[i + 1] < batchIndices[i]}
<1>3. LeadingRows(b) = IF D = {} THEN b ELSE Max(D) + 1
  BY DEF LeadingRows
<1>4. CASE D = {}
  BY <1>1, <1>3, <1>4 DEF Places
<1>5. CASE D # {}
  <2>1. D \in SUBSET (0..b) /\ b \in Nat
    OBVIOUS
  <2> DEFINE m == Max(D)
  <2>2. m \in D
    <3> HIDE DEF D
    <3>1. Max(D) \in D
      BY <1>5, <2>1, Greatest
    <3> QED  BY <3>1
  <2> HIDE DEF m
  <2>3. m \in 0..b - 2 /\ batchIndices[m + 1] < batchIndices[m]
    BY <2>2
  <2>4. m \in Rows /\ m + 1 \in Rows
    BY <1>1, <2>3 DEF Rows
  <2>5. ~(m + 1 <= r)
    <3> SUFFICES ASSUME m + 1 <= r  PROVE FALSE
      OBVIOUS
    <3>1. m + 1 \in 1..r /\ m + 1 - 1 = m
      BY <1>1, <2>3 DEF Places
    <3>2. batchIndices[m] < batchIndices[m + 1]
      <4> DEFINE i == m + 1
      <4>1. m \in Int /\ r \in Int
        BY <1>1, <2>3 DEF Places
      <4>2. i \in 1..r /\ i - 1 = m
        BY <3>1, <4>1
      <4> HIDE DEF i
      <4>3. batchIndices[i - 1] < batchIndices[i]
        BY <1>2, <4>2
      <4> QED  BY <4>2, <4>3 DEF i
    <3>3. batchIndices[m] \in Int /\ batchIndices[m + 1] \in Int
      BY <1>1, <2>4 DEF Rows
    <3> QED  BY <2>3, <3>2, <3>3
  <2>6. r < m + 1
    BY <1>1, <2>3, <2>5 DEF Places
  <2> QED  BY <1>3, <1>5, <2>6 DEF m
<1> QED  BY <1>4, <1>5

\* The rows before n have been moved, the others are as they were.
MovedUpTo(rows, g, n) ==
  /\ g \in Grids
  /\ \A r \in Rows : r >= n => g[r] = rows[r]
  /\ \A r \in Rows, c \in Cols :
       r < n /\ c < CachedLen(r) - NewLen(r) => g[r][c] = rows[batchIndices[r]][c]

\* In place: the row read in round n is not before row n, so it has not been
\* written.
LEMMA RoundMoves ==
  ASSUME SInv, NEW rows \in Grids, NEW g, NEW n \in Rows, MovedUpTo(rows, g, n)
  PROVE  MovedUpTo(rows, IF Stays(n) THEN g ELSE RowMoved(g, n), n + 1)
<1>1. batchIndices \in [Rows -> Rows] /\ g \in Grids /\ n \in Nat /\ Rows \subseteq Nat
  BY DEF SInv, NInv, TypeOK, MovedUpTo, Rows
<1> DEFINE h == IF Stays(n) THEN g ELSE RowMoved(g, n)
<1>2. h \in Grids
  <2>1. RowMoved(g, n) \in Grids
    BY <1>1, RowMovedTyped
  <2> QED  BY <1>1, <2>1
<1>3. ASSUME NEW r \in Rows, r # n  PROVE h[r] = g[r]
  <2> DEFINE row == [c \in Cols |-> IF c < CachedLen(n) - NewLen(n)
                                    THEN g[batchIndices[n]][c] ELSE g[n][c]]
  <2>1. RowMoved(g, n) = [g EXCEPT ![n] = row]
    BY DEF RowMoved
  <2> HIDE DEF row
  <2>2. RowMoved(g, n)[r] = g[r]
    BY <1>1, <1>3, <2>1 DEF Grids
  <2> QED  BY <2>2
<1>4. ASSUME NEW c \in Cols, c < CachedLen(n) - NewLen(n)
      PROVE  h[n][c] = rows[batchIndices[n]][c]
  <2>1. n <= batchIndices[n] /\ batchIndices[n] \in Rows
    <3>1. n \in Places
      <4> SUFFICES ASSUME n \notin Places  PROVE FALSE
        OBVIOUS
      <4>1. CachedLen(n) = 0 /\ NewLen(n) = 0 /\ c >= 0 /\ c \in Int
        BY RowLens DEF Cols
      <4> QED  BY <1>4, <4>1
    <3>2. Old(Id(n)) > 0
      <4>1. CachedLen(n) - NewLen(n) = Old(Id(n)) /\ Old(Id(n)) \in Nat
        BY <3>1, RowLens
      <4>2. c >= 0 /\ c \in Int
        BY DEF Cols
      <4> QED  BY <1>4, <4>1, <4>2
    <3> QED  BY <1>1, <3>1, <3>2 DEF SInv, Moves
  <2>2. g[batchIndices[n]] = rows[batchIndices[n]]
    BY <1>1, <2>1 DEF MovedUpTo
  <2>3. CASE Stays(n)
    BY <2>2, <2>3 DEF Stays
  <2>4. CASE ~Stays(n)
    <3> DEFINE row == [d \in Cols |-> IF d < CachedLen(n) - NewLen(n)
                                      THEN g[batchIndices[n]][d] ELSE g[n][d]]
    <3>1. RowMoved(g, n) = [g EXCEPT ![n] = row]
      BY DEF RowMoved
    <3>2. row[c] = g[batchIndices[n]][c]
      BY <1>4
    <3> HIDE DEF row
    <3>3. RowMoved(g, n)[n] = row
      BY <1>1, <3>1 DEF Grids
    <3> QED  BY <2>2, <2>4, <3>2, <3>3
  <2> QED  BY <2>3, <2>4
<1> HIDE DEF h
<1>5. ASSUME NEW r \in Rows, r >= n + 1  PROVE h[r] = rows[r]
  <2>1. r # n /\ r >= n
    BY <1>1, <1>5
  <2> QED  BY <1>3, <2>1 DEF MovedUpTo
<1>6. ASSUME NEW r \in Rows, NEW c \in Cols, r < n + 1, c < CachedLen(r) - NewLen(r)
      PROVE  h[r][c] = rows[batchIndices[r]][c]
  <2>1. CASE r = n
    BY <1>4, <1>6, <2>1
  <2>2. CASE r # n
    <3>1. r < n
      BY <1>1, <1>6, <2>2
    <3>2. g[r][c] = rows[batchIndices[r]][c]
      BY <1>6, <3>1 DEF MovedUpTo
    <3> QED  BY <1>3, <2>2, <3>2
  <2> QED  BY <2>1, <2>2
<1>7. MovedUpTo(rows, h, n + 1)
  BY <1>2, <1>5, <1>6 DEF MovedUpTo
<1> QED  BY <1>7 DEF h

\* The kernel moves the old tokens of every sequence to its row of the batch.
LEMMA ReindexMoves ==
  ASSUME SInv, NEW rows \in Grids, NEW b \in 0..MaxBatch, Len(batch.ids) <= b,
         NEW r \in Places, NEW c \in Cols, c < Old(Id(r))
  PROVE  Reindexed(rows, b)[r][c] = rows[batchIndices[r]][c]
<1> DEFINE K == LeadingRows(b)
<1>1. K \in 0..b /\ b \in Nat /\ b <= MaxBatch /\ MaxBatch \in Nat
  BY LeadingBound
<1>2. PICK g : /\ Reindexed(rows, b) = g[K] /\ g[0] = rows
               /\ \A n \in 1..K : g[n] = IF Stays(n - 1) THEN g[n - 1] ELSE RowMoved(g[n - 1], n - 1)
  <2>1. LeadingRows(b) \in Nat
    BY <1>1
  <2>2. \E g : /\ Reindexed(rows, b) = g[LeadingRows(b)]
                /\ g[0] = rows
                /\ \A n \in 1..LeadingRows(b) :
                     g[n] = IF Stays(n - 1) THEN g[n - 1] ELSE RowMoved(g[n - 1], n - 1)
    BY <2>1, ReindexedIs, SMTT(60)
  <2> QED  BY <2>2
<1>3. r < K
  <2>1. Old(Id(r)) > 0
    <3>1. Old(Id(r)) \in Nat
      BY RowLens
    <3>2. c >= 0 /\ c \in Int
      BY DEF Cols
    <3> QED  BY <3>1, <3>2
  <2> QED  BY <2>1, LeadingCovers
<1> HIDE DEF K
<1> DEFINE T == {n \in 0..K : ~MovedUpTo(rows, g[n], n)}
<1>4. T = {}
  <2> SUFFICES ASSUME T # {}  PROVE FALSE
    OBVIOUS
  <2>1. PICK n \in T : \A m \in T : n <= m
    <3>1. T \in SUBSET Nat
      BY <1>1
    <3> HIDE DEF T
    <3> QED  BY <3>1, LeastNatural
  <2>2. n # 0
    <3>1. MovedUpTo(rows, rows, 0)
      <4>1. \A q \in Rows : ~(q < 0)
        BY DEF Rows
      <4> QED  BY <4>1 DEF MovedUpTo
    <3> QED  BY <1>2, <2>1, <3>1
  <2>3. n \in 1..K /\ n - 1 \in 0..K /\ n - 1 \in Rows /\ n - 1 + 1 = n
    BY <1>1, <2>1, <2>2 DEF Rows
  <2>4. MovedUpTo(rows, g[n - 1], n - 1)
    <3>1. ~(n <= n - 1)
      BY <2>3
    <3> QED  BY <2>1, <2>3, <3>1
  <2>5. MovedUpTo(rows, IF Stays(n - 1) THEN g[n - 1] ELSE RowMoved(g[n - 1], n - 1), n - 1 + 1)
    BY <2>3, <2>4, RoundMoves
  <2>6. MovedUpTo(rows, g[n], n)
    BY <1>2, <2>3, <2>5
  <2> QED  BY <2>1, <2>6
<1>5. MovedUpTo(rows, g[K], K)
  BY <1>1, <1>4
<1>6. r \in Rows /\ CachedLen(r) - NewLen(r) = Old(Id(r))
  BY RowLens
<1> QED  BY <1>2, <1>3, <1>5, <1>6 DEF MovedUpTo

\* A new token is written behind the old ones of its sequence, and nowhere else.
LEMMA CopiedIs ==
  ASSUME SInv, NEW rows \in Grids, NEW r \in Places, NEW p \in 1..Len(fed[Id(r)]),
         p <= Old(Id(r)) => rows[r][p - 1] = fed[Id(r)][p]
  PROVE  Copied(rows)[r][p - 1] = fed[Id(r)][p]
<1> DEFINE s == Id(r)
           c == p - 1
           here == {t \in NewTokens : TargetRow(t[1]) = r /\ Position(t[1], t[2]) = c}
<1>1. /\ r \in Rows /\ s \in InBatch /\ CachedLen(r) - NewLen(r) = Old(s)
      /\ NewLen(r) = batch.new[s] /\ batch.new[s] \in Nat
      /\ Old(s) \in Nat /\ Len(fed[s]) = Old(s) + batch.new[s] /\ Len(fed[s]) <= MaxLen
      /\ MaxLen \in Nat
  BY RowLens
<1>2. p \in Nat /\ 1 <= p /\ p <= Len(fed[s]) /\ p - 1 = c
  BY <1>1
<1>3. RequestsTypeOK /\ Caller /\ \A q \in Places : TargetRow(q) = q
  BY DEF SInv, NInv, TypeOK, Settled, TargetRow
<1> HIDE DEF s, c
<1>4. c \in Cols
  BY <1>1, <1>2 DEF Cols
<1>5. ASSUME NEW t \in here
      PROVE  t[1] = r /\ ~(p <= Old(s)) /\ NewToken(t[1] + 1, t[2]) = fed[s][p]
  <2>1. t \in NewTokens /\ TargetRow(t[1]) = r /\ Position(t[1], t[2]) = c
    OBVIOUS
  <2>2. /\ t[1] \in Places /\ t[2] \in 1..MaxLen
        /\ NewToken(t[1] + 1, t[2]) = fed[Id(t[1])][Old(Id(t[1])) + t[2]]
    BY <1>3, <2>1, NewTokenIs
  <2>3. t[1] = r
    BY <1>3, <2>1, <2>2
  <2>4. Position(r, t[2]) = c /\ NewToken(t[1] + 1, t[2]) = fed[s][Old(s) + t[2]]
    BY <2>1, <2>2, <2>3 DEF s
  <2>5. Old(s) + t[2] - 1 = c
    BY <1>1, <2>4 DEF Position
  <2> DEFINE i == t[2]
  <2>6. i \in Nat /\ i >= 1 /\ Old(s) + i - 1 = c
    BY <1>1, <2>2, <2>5
  <2> HIDE DEF i
  <2>7. Old(s) + i = p /\ ~(p <= Old(s))
    BY <1>1, <1>2, <2>6
  <2> QED  BY <2>3, <2>4, <2>7 DEF i
<1>6. here = {} => p <= Old(s)
  <2> SUFFICES ASSUME ~(p <= Old(s))  PROVE here # {}
    OBVIOUS
  <2> DEFINE i == p - Old(s)
  <2>1. i \in 1..MaxLen /\ i <= NewLen(r) /\ Old(s) + i - 1 = c /\ Old(s) + i - 1 >= 0
    BY <1>1, <1>2, SMTT(60)
  <2> HIDE DEF i
  <2>2. Position(r, i) = c /\ Position(r, i) >= 0
    BY <1>1, <2>1 DEF Position
  <2> DEFINE t == <<r, i>>
  <2>3. t \in Rows \X (1..MaxLen) /\ t[1] = r /\ t[2] = i
    BY <1>1, <2>1
  <2> HIDE DEF t
  <2>4. t \in NewTokens
    BY <2>1, <2>2, <2>3 DEF NewTokens
  <2>5. TargetRow(t[1]) = r /\ Position(t[1], t[2]) = c
    BY <1>3, <2>2, <2>3
  <2> QED  BY <2>4, <2>5
<1>7. Copied(rows)[r][c] = IF here = {} THEN rows[r][c]
                           ELSE LET t == CHOOSE t \in here : TRUE IN NewToken(t[1] + 1, t[2])
  BY <1>1, <1>4 DEF Copied
<1> HIDE DEF here
<1>8. CASE here = {}
  <2>1. rows[r][c] = fed[s][p]
    BY <1>2, <1>6, <1>8 DEF s
  <2> QED  BY <1>2, <1>7, <1>8, <2>1 DEF s
<1>9. CASE here # {}
  <2> DEFINE t == CHOOSE t \in here : TRUE
  <2>1. t \in here
    BY <1>9
  <2>2. Copied(rows)[r][c] = NewToken(t[1] + 1, t[2])
    BY <1>7, <1>9
  <2> HIDE DEF t
  <2>3. NewToken(t[1] + 1, t[2]) = fed[s][p]
    BY <1>5, <2>1
  <2> QED  BY <1>2, <2>2, <2>3 DEF s
<1> QED  BY <1>8, <1>9

LEMMA StepFaithful ==
  ASSUME SInv, Step
  PROVE  SInv'
<1>1. /\ batch' = batch /\ fed' = fed /\ order' = order /\ seqlen' = seqlen
      /\ batchIndices' = batchIndices /\ needReindex' = needReindex
      /\ layer' = layer + 1 /\ layer < NumLayers
  BY DEF Step, requests
<1>2. NInv /\ NInv' /\ cache \in [Layers -> Grids] /\ layer \in Nat /\ NumLayers \in Nat
      /\ order = batch.ids /\ Exact /\ Moves /\ Settled /\ MaxLen \in Nat
  <2>1. NInv /\ order = batch.ids /\ Exact /\ Moves /\ Settled
    BY DEF SInv
  <2>2. cache \in [Layers -> Grids] /\ layer \in 0..NumLayers
    BY <2>1 DEF NInv, TypeOK, Grids
  <2> QED  BY <2>1, <2>2, StepTyped
<1>3. order' = batch'.ids /\ Exact' /\ Moves' /\ Settled'
  BY <1>1, <1>2 DEF Exact, Moves, Settled, InBatch, Places, Id, Old
<1>4. PICK b \in {Len(batch.ids), MaxBatch} :
        cache' = [cache EXCEPT ![layer + 1] =
          Copied(IF needReindex THEN Reindexed(cache[layer + 1], b) ELSE cache[layer + 1])]
  BY DEF Step
<1>5. b \in 0..MaxBatch /\ Len(batch.ids) <= b
  BY <1>2, OrderLen
<1> DEFINE rows == cache[layer + 1]
           moved == IF needReindex THEN Reindexed(rows, b) ELSE rows
<1>6. layer + 1 \in Layers /\ rows \in Grids
  BY <1>1, <1>2 DEF Layers
<1>7. cache' = [cache EXCEPT ![layer + 1] = Copied(moved)]
  BY <1>4
<1>8. \A r \in Places : Holds(rows[batchIndices[r]], Id(r), Old(Id(r)))
  <2>1. ~(layer + 1 <= layer)
    BY <1>2
  <2> QED  BY <1>6, <2>1 DEF SInv, Stored
<1> HIDE DEF rows
<1>9. moved \in Grids
  <2>1. batchIndices \in [Rows -> Rows]
    BY <1>2 DEF NInv, TypeOK
  <2> QED  BY <1>5, <1>6, <2>1, ReindexedTyped
<1>10. ASSUME NEW r \in Places, NEW p \in 1..Len(fed[Id(r)]), p <= Old(Id(r))
       PROVE  moved[r][p - 1] = fed[Id(r)][p]
  <2>1. /\ Old(Id(r)) \in Nat /\ Len(fed[Id(r)]) <= MaxLen
        /\ Len(fed[Id(r)]) \in Nat
    <3>1. /\ Old(Id(r)) \in Nat /\ Len(fed[Id(r)]) <= MaxLen
          /\ Len(fed[Id(r)]) = Old(Id(r)) + batch.new[Id(r)] /\ batch.new[Id(r)] \in Nat
      BY RowLens
    <3> QED  BY <3>1
  <2>2. p \in 1..Old(Id(r)) /\ p - 1 \in Cols /\ p - 1 < Old(Id(r))
    BY <1>2, <1>10, <2>1 DEF Cols
  <2>3. rows[batchIndices[r]][p - 1] = fed[Id(r)][p]
    BY <1>8, <2>2 DEF Holds
  <2>4. CASE needReindex
    <3>1. Reindexed(rows, b)[r][p - 1] = rows[batchIndices[r]][p - 1]
      BY <1>5, <1>6, <2>2, ReindexMoves
    <3> QED  BY <2>3, <2>4, <3>1
  <2>5. CASE ~needReindex
    <3>1. batchIndices[r] = r
      BY <1>2, <2>5 DEF Settled
    <3> QED  BY <2>3, <2>5, <3>1
  <2> QED  BY <2>4, <2>5
<1> HIDE DEF moved
<1>11. ASSUME NEW r \in Places, NEW p \in 1..Len(fed[Id(r)])
       PROVE  Copied(moved)[r][p - 1] = fed[Id(r)][p]
  BY <1>9, <1>10, CopiedIs
<1>12. ASSUME NEW l \in Layers, NEW r \in Places
       PROVE  IF l <= layer + 1
              THEN Holds(cache'[l][r], Id(r), Len(fed[Id(r)]))
              ELSE Holds(cache'[l][batchIndices[r]], Id(r), Old(Id(r)))
  <2>1. l \in Nat
    BY <1>2 DEF Layers
  <2>2. CASE l = layer + 1
    <3>1. cache'[l] = Copied(moved)
      BY <1>2, <1>6, <1>7, <2>2
    <3> QED  BY <1>2, <1>11, <2>2, <3>1 DEF Holds
  <2>3. CASE l # layer + 1
    <3>1. cache'[l] = cache[l]
      BY <1>2, <1>7, <2>3
    <3>2. l <= layer + 1 <=> l <= layer
      BY <1>2, <2>1, <2>3
    <3> QED  BY <3>1, <3>2 DEF SInv, Stored
  <2> QED  BY <2>2, <2>3
<1>13. Stored'
  <2>1. ASSUME NEW l \in Layers, NEW r \in Places
        PROVE  IF l <= layer'
               THEN \A p \in 1..Len(fed'[Id(r)]) : cache'[l][r][p - 1] = fed'[Id(r)][p]
               ELSE \A p \in 1..Old(Id(r)) :
                      cache'[l][batchIndices'[r]][p - 1] = fed'[Id(r)][p]
    BY <1>1, <1>12 DEF Holds
  <2>2. ASSUME NEW l \in Layers, NEW r \in Places
        PROVE  IF l <= layer'
               THEN Holds(cache[l][r], Id(r), Len(fed[Id(r)]))'
               ELSE Holds(cache[l][batchIndices[r]], Id(r), Old(Id(r)))'
    BY <1>1, <2>1 DEF Holds, Id, Old
  <2>3. Places' = Places
    BY <1>1 DEF Places
  <2> QED  BY <2>2, <2>3 DEF Stored
<1> QED  BY <1>2, <1>3, <1>13 DEF SInv

-----------------------------------------------------------------------------
(* The rows show the tokens *)

LEMMA EmptyFaithful == Empty => SInv
<1> SUFFICES ASSUME Empty  PROVE SInv
  OBVIOUS
<1>1. NInv /\ InBatch = {}
  BY EmptyTyped
<1>2. order = batch.ids /\ batch.ids = <<>> /\ fed = NothingFed
  BY DEF Empty, EmptyBatch
<1>3. Exact
  BY <1>1, <1>2 DEF Exact, NothingFed
<1>4. Places = {}
  <2>1. Len(batch.ids) = 0
    BY <1>2
  <2> QED  BY <2>1 DEF Places
<1> QED  BY <1>1, <1>2, <1>3, <1>4 DEF SInv, Moves, Settled, Stored

LEMMA SInvStep == Serial => (SInv /\ [Next]_vars => SInv')
<1> SUFFICES ASSUME Serial, SInv, [Next]_vars  PROVE SInv'
  OBVIOUS
<1>1. CASE PreStep
  BY <1>1, PreStepFaithful
<1>2. CASE Step
  BY <1>2, StepFaithful
<1>3. CASE Reset
  <2>1. Empty'
    BY <1>3, ResetEmpty DEF SInv
  <2>2. Empty' => SInv'
    BY EmptyFaithful, PTL
  <2> QED  BY <2>1, <2>2
<1>4. CASE UNCHANGED vars
  <2>1. /\ batch' = batch /\ fed' = fed /\ steps' = steps /\ order' = order
        /\ seqlen' = seqlen /\ batchIndices' = batchIndices
        /\ needReindex' = needReindex /\ cache' = cache /\ layer' = layer
    BY <1>4 DEF vars, requests
  <2>2. NInv'
    BY NInvStep DEF SInv
  <2>3. Exact' /\ Moves' /\ Settled' /\ Stored' /\ order' = batch'.ids
    BY <2>1 DEF SInv, Exact, Moves, Settled, Stored, InBatch, Places, Id, Old, Holds
  <2> QED  BY <2>2, <2>3 DEF SInv
<1> QED  BY <1>1, <1>2, <1>3, <1>4 DEF Next

LEMMA Faithful == SInv => CacheFaithful
<1> SUFFICES ASSUME SInv  PROVE CacheFaithful
  OBVIOUS
<1>1. /\ RequestsTypeOK /\ layer \in 0..NumLayers /\ NumLayers \in Nat
      /\ Len(order) = Len(batch.ids) /\ Len(order) \in Nat /\ Stored
  BY OrderLen DEF SInv, NInv, TypeOK
<1>2. ASSUME NEW l \in 1..layer, NEW j \in 1..Len(batch.ids)
      PROVE  Shown(l, j - 1) = fed[batch.ids[j]]
  <2> DEFINE r == j - 1
             s == batch.ids[j]
  <2>1. r \in Places /\ Id(r) = s
    BY <1>1 DEF Places, Id
  <2>2. l \in Layers /\ l <= layer
    BY <1>1 DEF Layers
  <2> HIDE DEF r, s
  <2>3. Holds(cache[l][r], s, Len(fed[s]))
    BY <1>1, <2>1, <2>2 DEF Stored
  <2>4. CachedLen(r) = Len(fed[s]) /\ s \in InBatch
    BY <2>1, RowLens
  <2>5. fed[s] \in Seq(Token)
    <3>1. s \in Seqs
      BY <1>1, <2>4, RangeOfSeq DEF InBatch, RequestsTypeOK
    <3> QED  BY <1>1, <3>1 DEF RequestsTypeOK
  <2>6. fed[s] = [p \in 1..Len(fed[s]) |-> fed[s][p]]
    BY <2>5
  <2>7. Shown(l, r) = [p \in 1..Len(fed[s]) |-> fed[s][p]]
    <3>1. Shown(l, r) = [p \in 1..Len(fed[s]) |-> cache[l][r][p - 1]]
      BY <2>4 DEF Shown
    <3> QED  BY <2>3, <3>1 DEF Holds
  <2> QED  BY <2>6, <2>7 DEF r, s
<1> QED  BY <1>1, <1>2 DEF CacheFaithful

\* For a caller that decodes one token at a time and whose new ids iterate in
\* the order of the step_dict, every layer that has run step() shows attention
\* exactly the tokens fed, in order, whatever rows pre_step moved and whichever
\* number of rows the kernels looked at.
THEOREM RowsShowTokens == Serial => (Spec => []CacheFaithful)
<1>1. Init => SInv
  BY InitEmpty, EmptyFaithful
<1>2. Serial => (SInv /\ [Next]_vars => SInv')
  BY SInvStep
<1>3. SInv => CacheFaithful
  BY Faithful
<1> QED
  <2> SUFFICES ASSUME Serial  PROVE Spec => []CacheFaithful
    OBVIOUS
  <2>1. SInv /\ [Next]_vars => SInv'
    BY <1>2
  <2> QED  BY <1>1, <1>3, <2>1, PTL DEF Spec
=============================================================================
