--------------------------- MODULE KVRequests_proofs ---------------------------
(***************************************************************************)
(* What both cache managers need to know of their caller: which batches    *)
(* may follow, what they feed, and that an order of ids is determined by   *)
(* the set and the order it is taken from.                                 *)
(***************************************************************************)
EXTENDS KVRequests, SequenceTheorems, FiniteSetTheorems, TLAPS

USE RequestAssumption

-----------------------------------------------------------------------------
(* Sequences without repetition *)

\* Two sequences without repetition and without a common element make one.
LEMMA JoinInjective ==
  ASSUME NEW S, NEW p \in Seq(S), NEW q \in Seq(S),
         IsInjective(p), IsInjective(q), Range(p) \cap Range(q) = {}
  PROVE  /\ p \o q \in Seq(S)
         /\ IsInjective(p \o q)
         /\ Range(p \o q) = Range(p) \cup Range(q)
<1>1. p \o q \in Seq(S) /\ Len(p \o q) = Len(p) + Len(q)
  BY ConcatProperties
<1>2. \A i \in 1..Len(p) + Len(q) :
        (p \o q)[i] = IF i <= Len(p) THEN p[i] ELSE q[i - Len(p)]
  BY ConcatProperties
<1>3. /\ Len(p) \in Nat /\ Len(q) \in Nat
      /\ DOMAIN p = 1..Len(p) /\ DOMAIN q = 1..Len(q)
      /\ DOMAIN (p \o q) = 1..Len(p) + Len(q)
  BY <1>1, LenProperties
<1>4. \A i \in DOMAIN p, j \in DOMAIN q : p[i] # q[j]
  BY DEF Range
<1>5. ASSUME NEW i \in DOMAIN (p \o q), NEW j \in DOMAIN (p \o q),
             (p \o q)[i] = (p \o q)[j]
      PROVE  i = j
  <2>1. CASE i <= Len(p) /\ j <= Len(p)
    BY <2>1, <1>2, <1>3, <1>5 DEF IsInjective
  <2>2. CASE i <= Len(p) /\ ~(j <= Len(p))
    <3>1. i \in DOMAIN p /\ j - Len(p) \in DOMAIN q
      BY <2>2, <1>3
    <3> QED  BY <3>1, <2>2, <1>2, <1>3, <1>4, <1>5
  <2>3. CASE ~(i <= Len(p)) /\ j <= Len(p)
    <3>1. j \in DOMAIN p /\ i - Len(p) \in DOMAIN q
      BY <2>3, <1>3
    <3> QED  BY <3>1, <2>3, <1>2, <1>3, <1>4, <1>5
  <2>4. CASE ~(i <= Len(p)) /\ ~(j <= Len(p))
    <3>1. i - Len(p) \in DOMAIN q /\ j - Len(p) \in DOMAIN q
      BY <2>4, <1>3
    <3>2. q[i - Len(p)] = q[j - Len(p)]
      BY <2>4, <1>2, <1>3, <1>5
    <3>3. i - Len(p) = j - Len(p)
      BY <3>1, <3>2 DEF IsInjective
    <3> QED  BY <3>3, <1>3
  <2> QED  BY <2>1, <2>2, <2>3, <2>4
<1>6. Range(p \o q) \subseteq Range(p) \cup Range(q)
  <2> SUFFICES ASSUME NEW i \in DOMAIN (p \o q)
               PROVE  (p \o q)[i] \in Range(p) \cup Range(q)
    BY DEF Range
  <2>1. CASE i <= Len(p)
    BY <2>1, <1>2, <1>3 DEF Range
  <2>2. CASE ~(i <= Len(p))
    <3>1. i - Len(p) \in DOMAIN q /\ (p \o q)[i] = q[i - Len(p)]
      BY <2>2, <1>2, <1>3
    <3> QED  BY <3>1 DEF Range
  <2> QED  BY <2>1, <2>2
<1>7. ASSUME NEW i \in DOMAIN p  PROVE p[i] \in Range(p \o q)
  <2>1. i \in DOMAIN (p \o q) /\ (p \o q)[i] = p[i]
    BY <1>2, <1>3
  <2> QED  BY <2>1 DEF Range
<1>8. ASSUME NEW i \in DOMAIN q  PROVE q[i] \in Range(p \o q)
  <2>1. Len(p) + i \in DOMAIN (p \o q) /\ (p \o q)[Len(p) + i] = q[i]
    BY <1>2, <1>3
  <2> QED  BY <2>1 DEF Range
<1>9. Range(p) \cup Range(q) \subseteq Range(p \o q)
  BY <1>7, <1>8 DEF Range
<1> QED  BY <1>1, <1>5, <1>6, <1>9 DEF IsInjective

\* Cutting a sequence without repetition in two.
LEMMA CutInjective ==
  ASSUME NEW S, NEW p \in Seq(S), NEW k \in 0..Len(p), IsInjective(p)
  PROVE  LET h == SubSeq(p, 1, k)
             t == SubSeq(p, k + 1, Len(p))
         IN /\ h \in Seq(S) /\ t \in Seq(S)
            /\ IsInjective(h) /\ IsInjective(t)
            /\ Range(h) \cap Range(t) = {}
            /\ Range(h) \cup Range(t) = Range(p)
<1> DEFINE h == SubSeq(p, 1, k)
           t == SubSeq(p, k + 1, Len(p))
<1>1. Len(p) \in Nat /\ DOMAIN p = 1..Len(p) /\ k \in Nat /\ k <= Len(p)
  BY LenProperties
<1>2. \A i \in 1..Len(p) : p[i] \in S
  BY ElementOfSeq
<1>3. h \in Seq(S) /\ Len(h) = k /\ \A i \in 1..k : h[i] = p[i]
  <2>1. \A i \in 1..k : p[i] \in S
    BY <1>1, <1>2
  <2>2. /\ h \in Seq(S)
        /\ Len(h) = IF 1 <= k THEN k - 1 + 1 ELSE 0
        /\ \A i \in 1..k - 1 + 1 : h[i] = p[1 + i - 1]
    BY <1>1, <2>1, SubSeqProperties
  <2> QED  BY <1>1, <2>2
<1>4. /\ t \in Seq(S) /\ Len(t) = Len(p) - k
      /\ \A i \in 1..Len(p) - k : t[i] = p[k + i]
  <2>1. \A i \in k + 1..Len(p) : p[i] \in S
    BY <1>1, <1>2
  <2>2. /\ t \in Seq(S)
        /\ Len(t) = IF k + 1 <= Len(p) THEN Len(p) - (k + 1) + 1 ELSE 0
        /\ \A i \in 1..Len(p) - (k + 1) + 1 : t[i] = p[k + 1 + i - 1]
    BY <1>1, <2>1, SubSeqProperties
  <2> DEFINE n == Len(p)
  <2>3. n \in Nat /\ k \in Nat /\ k <= n
    BY <1>1
  <2> HIDE DEF h, t, n
  <2>4. /\ (IF k + 1 <= n THEN n - (k + 1) + 1 ELSE 0) = n - k
        /\ n - (k + 1) + 1 = n - k
        /\ \A i \in 1..n - k : k + 1 + i - 1 = k + i
    BY <2>3
  <2> QED  BY <2>2, <2>4 DEF n
<1>5. DOMAIN h = 1..k /\ DOMAIN t = 1..Len(p) - k
  BY <1>3, <1>4, LenProperties
<1> HIDE DEF h, t
<1>6. IsInjective(h)
  BY <1>1, <1>3, <1>5 DEF IsInjective
<1>7. IsInjective(t)
  <2> SUFFICES ASSUME NEW i \in 1..Len(p) - k, NEW j \in 1..Len(p) - k,
                      t[i] = t[j]
               PROVE  i = j
    BY <1>5 DEF IsInjective
  <2>1. k + i \in DOMAIN p /\ k + j \in DOMAIN p /\ p[k + i] = p[k + j]
    BY <1>1, <1>4
  <2>2. k + i = k + j
    BY <2>1 DEF IsInjective
  <2> QED  BY <2>2, <1>1
<1>8. Range(h) \cap Range(t) = {}
  <2> SUFFICES ASSUME NEW i \in 1..k, NEW j \in 1..Len(p) - k, h[i] = t[j]
               PROVE  FALSE
    BY <1>5 DEF Range
  <2>1. i \in DOMAIN p /\ k + j \in DOMAIN p /\ p[i] = p[k + j]
    BY <1>1, <1>3, <1>4
  <2>2. i = k + j
    BY <2>1 DEF IsInjective
  <2> QED  BY <2>2, <1>1
<1>9. Range(h) \subseteq Range(p) /\ Range(t) \subseteq Range(p)
  <2>1. ASSUME NEW i \in 1..k  PROVE h[i] \in Range(p)
    BY <1>1, <1>3 DEF Range
  <2>2. ASSUME NEW i \in 1..Len(p) - k  PROVE t[i] \in Range(p)
    <3>1. k + i \in DOMAIN p /\ t[i] = p[k + i]
      BY <1>1, <1>4
    <3> QED  BY <3>1 DEF Range
  <2> QED  BY <2>1, <2>2, <1>5 DEF Range
<1>10. ASSUME NEW i \in 1..Len(p)  PROVE p[i] \in Range(h) \cup Range(t)
  <2>1. CASE i <= k
    <3>1. i \in DOMAIN h /\ h[i] = p[i]
      BY <2>1, <1>1, <1>3, <1>5
    <3> QED  BY <3>1 DEF Range
  <2>2. CASE ~(i <= k)
    <3>1. i - k \in DOMAIN t /\ t[i - k] = p[i]
      BY <2>2, <1>1, <1>4, <1>5
    <3> QED  BY <3>1 DEF Range
  <2> QED  BY <2>1, <2>2
<1>11. Range(p) \subseteq Range(h) \cup Range(t)
  BY <1>1, <1>10 DEF Range
<1> QED  BY <1>3, <1>4, <1>6, <1>7, <1>8, <1>9, <1>11 DEF h, t

\* A strictly increasing function stays at or above its argument.
LEMMA IncreasingAbove ==
  ASSUME NEW m \in Nat, NEW f \in [1..m -> Nat \ {0}],
         \A i, j \in 1..m : i < j => f[i] < f[j]
  PROVE  \A i \in 1..m : i <= f[i]
<1> SUFFICES ASSUME NEW i \in 1..m  PROVE i <= f[i]
  OBVIOUS
<1> DEFINE g == [k \in 1..i |-> f[k]]
<1>1. f[i] \in Nat \ {0} /\ i \in Nat
  OBVIOUS
<1>2. \A k \in 1..i : f[k] \in 1..f[i]
  <2> SUFFICES ASSUME NEW k \in 1..i  PROVE f[k] \in 1..f[i]
    OBVIOUS
  <2>1. k \in 1..m /\ f[k] \in Nat \ {0} /\ (k = i \/ k < i)
    OBVIOUS
  <2>2. f[k] <= f[i]
    BY <2>1, <1>1
  <2> QED  BY <2>1, <2>2, <1>1
<1>3. g \in Injection(1..i, 1..f[i])
  <2>1. g \in [1..i -> 1..f[i]]
    BY <1>2
  <2>2. ASSUME NEW a \in 1..i, NEW b \in 1..i, g[a] = g[b]  PROVE a = b
    <3>1. a \in 1..m /\ b \in 1..m /\ f[a] = f[b] /\ f[a] \in Nat /\ f[b] \in Nat
      BY <2>2
    <3>2. ~ (a < b) /\ ~ (b < a)
      BY <3>1
    <3> QED  BY <3>1, <3>2
  <2> QED  BY <2>1, <2>2 DEF Injection, IsInjective
<1>4. IsFiniteSet(1..f[i]) /\ Cardinality(1..f[i]) = f[i]
  <2>1. 1 \in Int /\ f[i] \in Int /\ ~ (1 > f[i])
    BY <1>1
  <2>2. IsFiniteSet(1..f[i]) /\ Cardinality(1..f[i]) = f[i] - 1 + 1
    BY <2>1, FS_Interval
  <2> QED  BY <2>2, <1>1
<1>5. Cardinality(1..i) = i
  <2>1. 1 \in Int /\ i \in Int /\ ~ (1 > i)
    BY <1>1
  <2>2. Cardinality(1..i) = i - 1 + 1
    BY <2>1, FS_Interval
  <2> QED  BY <2>2, <1>1
<1>6. Cardinality(1..i) <= Cardinality(1..f[i])
  BY <1>3, <1>4, FS_Injection
<1> QED  BY <1>4, <1>5, <1>6

-----------------------------------------------------------------------------
(* Orders of ids *)

\* Callers that give an unfinished sequence one token in an iteration and list
\* new ids in the order in which a set of them is visited.
Serial == ~ AnyOrder /\ DecodeLens = {1}

\* In the list p, s comes before t.
Before(p, s, t) == \E a, b \in DOMAIN p : a < b /\ p[a] = s /\ p[b] = t

\* Two lists of the same ids in the same order are one.
LEMMA SameOrder ==
  ASSUME NEW S, NEW p \in Seq(S), NEW q \in Seq(S), IsInjective(p), IsInjective(q),
         Range(p) = Range(q),
         \A i, j \in DOMAIN p :
           i < j => \E a, b \in DOMAIN q : a < b /\ q[a] = p[i] /\ q[b] = p[j]
  PROVE  p = q
<1> DEFINE m == Len(p)
           n == Len(q)
           to == [i \in 1..m |-> CHOOSE a \in 1..n : q[a] = p[i]]
           from == [a \in 1..n |-> CHOOSE i \in 1..m : p[i] = q[a]]
<1>1. /\ m \in Nat /\ n \in Nat /\ DOMAIN p = 1..m /\ DOMAIN q = 1..n
  BY LenProperties
<1> HIDE DEF m, n
<1>2. \A i \in 1..m : to[i] \in 1..n /\ q[to[i]] = p[i]
  <2>1. ASSUME NEW i \in 1..m  PROVE \E a \in 1..n : q[a] = p[i]
    <3>1. p[i] \in Range(q)
      BY <1>1 DEF Range
    <3> QED  BY <3>1, <1>1 DEF Range
  <2> QED  BY <2>1
<1>3. \A a \in 1..n : from[a] \in 1..m /\ p[from[a]] = q[a]
  <2>1. ASSUME NEW a \in 1..n  PROVE \E i \in 1..m : p[i] = q[a]
    <3>1. q[a] \in Range(p)
      BY <1>1 DEF Range
    <3> QED  BY <3>1, <1>1 DEF Range
  <2> QED  BY <2>1
<1>4. to \in [1..m -> 1..n] /\ from \in [1..n -> 1..m]
  BY <1>2, <1>3
<1> HIDE DEF to, from
<1>5. \A i \in 1..m : from[to[i]] = i
  BY <1>1, <1>2, <1>3 DEF IsInjective
<1>6. \A a \in 1..n : to[from[a]] = a
  BY <1>1, <1>2, <1>3 DEF IsInjective
<1>7. ASSUME NEW i \in 1..m, NEW j \in 1..m, i < j  PROVE to[i] < to[j]
  <2>1. i \in DOMAIN p /\ j \in DOMAIN p
    BY <1>1
  <2>2. PICK a \in DOMAIN q, b \in DOMAIN q : a < b /\ q[a] = p[i] /\ q[b] = p[j]
    BY <2>1, <1>7
  <2>3. to[i] \in DOMAIN q /\ to[j] \in DOMAIN q /\ q[to[i]] = p[i] /\ q[to[j]] = p[j]
    BY <1>1, <1>2
  <2>4. a = to[i] /\ b = to[j]
    BY <2>2, <2>3 DEF IsInjective
  <2> QED  BY <2>2, <2>4
<1>8. ASSUME NEW a \in 1..n, NEW b \in 1..n, a < b  PROVE from[a] < from[b]
  <2>1. from[a] \in 1..m /\ from[b] \in 1..m /\ to[from[a]] = a /\ to[from[b]] = b
    BY <1>3, <1>6
  <2>2. from[a] # from[b]
    BY <2>1, <1>8
  <2>3. ~ (from[b] < from[a])
    <3> SUFFICES ASSUME from[b] < from[a]  PROVE FALSE
      OBVIOUS
    <3>1. to[from[b]] < to[from[a]]
      BY <1>7, <2>1
    <3> QED  BY <3>1, <2>1, <1>8
  <2> QED  BY <2>1, <2>2, <2>3
<1>9. \A i \in 1..m : i <= to[i]
  <2>1. to \in [1..m -> Nat \ {0}]
    BY <1>4, <1>1
  <2> QED  BY <2>1, <1>1, <1>7, IncreasingAbove
<1>10. \A a \in 1..n : a <= from[a]
  <2>1. from \in [1..n -> Nat \ {0}]
    BY <1>4, <1>1
  <2> QED  BY <2>1, <1>1, <1>8, IncreasingAbove
<1>11. \A i \in 1..m : to[i] = i /\ i \in 1..n
  <2> SUFFICES ASSUME NEW i \in 1..m  PROVE to[i] = i /\ i \in 1..n
    OBVIOUS
  <2>1. to[i] \in 1..n /\ i <= to[i] /\ to[i] <= from[to[i]] /\ from[to[i]] = i
    BY <1>2, <1>5, <1>9, <1>10
  <2> QED  BY <2>1, <1>1
<1>12. \A a \in 1..n : a \in 1..m
  <2> SUFFICES ASSUME NEW a \in 1..n  PROVE a \in 1..m
    OBVIOUS
  <2>1. from[a] \in 1..m /\ a <= from[a]
    BY <1>3, <1>10
  <2> QED  BY <2>1, <1>1
<1>13. m = n
  BY <1>1, <1>11, <1>12
<1>14. \A i \in 1..m : p[i] = q[i]
  BY <1>2, <1>11
<1> QED  BY <1>13, <1>14, SeqEqual DEF m, n

\* The orders a set of ids can be visited in.
LEMMA OrdersOfSet ==
  ASSUME NEW K \in SUBSET Seqs, NEW q \in SetToSeqs(K)
  PROVE  q \in Seq(Seqs) /\ IsInjective(q) /\ Range(q) \subseteq K
<1>1. Cardinality(K) \in Nat
  BY FS_Subset, FS_CardinalityType
<1>2. q \in [1..Cardinality(K) -> K]
      /\ \A i, j \in 1..Cardinality(K) : i # j => q[i] # q[j]
  BY DEF SetToSeqs
<1>3. q \in Seq(K)
  BY <1>1, <1>2, SeqDef
<1> QED  BY <1>2, <1>3, SeqMonotonic DEF IsInjective, Range

\* Every id of a set is visited.
LEMMA OrdersCover ==
  ASSUME NEW K \in SUBSET Seqs, NEW q \in SetToSeqs(K)
  PROVE  Range(q) = K
<1> DEFINE n == Cardinality(K)
<1>1. IsFiniteSet(K) /\ n \in Nat
  BY FS_Subset, FS_CardinalityType
<1>2. q \in [1..n -> K] /\ \A i, j \in 1..n : i # j => q[i] # q[j]
  BY DEF SetToSeqs
<1> HIDE DEF n
<1>3. q \in Injection(1..n, K)
  BY <1>2 DEF Injection, IsInjective
<1>4. Cardinality(1..n) = n
  <2>1. 1 \in Int /\ n \in Int
    BY <1>1
  <2>2. Cardinality(1..n) = IF 1 > n THEN 0 ELSE n - 1 + 1
    BY <2>1, FS_Interval
  <2> QED  BY <2>2, <1>1
<1>5. Cardinality(1..n) = Cardinality(K)
  BY <1>4 DEF n
<1>6. q \in Surjection(1..n, K)
  BY <1>1, <1>3, <1>5, FS_Injection
<1> QED  BY <1>2, <1>6 DEF Surjection, Range

\* The order of a concatenation.
LEMMA ConcatBefore ==
  ASSUME NEW p \in Seq(Seqs), NEW q \in Seq(Seqs),
         NEW s \in Range(p), NEW t \in Range(q)
  PROVE  Before(p \o q, s, t)
<1>1. /\ p \o q \in Seq(Seqs) /\ Len(p \o q) = Len(p) + Len(q)
      /\ \A i \in 1..Len(p) + Len(q) :
           (p \o q)[i] = IF i <= Len(p) THEN p[i] ELSE q[i - Len(p)]
  BY ConcatProperties
<1>2. /\ Len(p) \in Nat /\ Len(q) \in Nat /\ DOMAIN p = 1..Len(p)
      /\ DOMAIN q = 1..Len(q) /\ DOMAIN (p \o q) = 1..Len(p) + Len(q)
  BY <1>1, LenProperties
<1>3. PICK a \in 1..Len(p) : p[a] = s
  BY <1>2 DEF Range
<1>4. PICK c \in 1..Len(q) : q[c] = t
  BY <1>2 DEF Range
<1>5. a \in DOMAIN (p \o q) /\ (p \o q)[a] = s
  BY <1>1, <1>2, <1>3
<1>6. Len(p) + c \in DOMAIN (p \o q) /\ (p \o q)[Len(p) + c] = t
  BY <1>1, <1>2, <1>4
<1>7. a < Len(p) + c
  BY <1>2
<1> QED  BY <1>5, <1>6, <1>7 DEF Before

\* A list of different ids is as long as it has ids.
LEMMA LenIsCardinality ==
  ASSUME NEW p \in Seq(Seqs), IsInjective(p)
  PROVE  Len(p) \in Nat /\ Len(p) = Cardinality(Range(p))
<1> DEFINE n == Len(p)
<1>1. n \in Nat /\ p \in [1..n -> Seqs] /\ DOMAIN p = 1..n
  BY LenProperties
<1> HIDE DEF n
<1>2. IsFiniteSet(1..n) /\ Cardinality(1..n) = n
  <2>1. 1 \in Int /\ n \in Int
    BY <1>1
  <2>2. IsFiniteSet(1..n) /\ Cardinality(1..n) = IF 1 > n THEN 0 ELSE n - 1 + 1
    BY <2>1, FS_Interval
  <2> QED  BY <2>2, <1>1
<1>3. p \in Surjection(1..n, Range(p)) /\ p \in Injection(1..n, Range(p))
  <2>1. p \in [1..n -> Range(p)]
    BY <1>1 DEF Range
  <2>2. \A s \in Range(p) : \E i \in 1..n : p[i] = s
    BY <1>1 DEF Range
  <2> QED  BY <1>1, <2>1, <2>2 DEF Surjection, Injection, IsInjective
<1>4. Cardinality(Range(p)) = Cardinality(1..n)
  BY <1>2, <1>3, FS_Surjection
<1> QED  BY <1>1, <1>2, <1>4 DEF n

\* The ids of a set in the order of a list are that set, and in that order.
LEMMA InOrder ==
  ASSUME NEW p \in Seq(Seqs), NEW K \in SUBSET Seqs, NEW q \in InOrderOf(p, K)
  PROVE  /\ q \in Seq(Seqs) /\ IsInjective(q) /\ Range(q) = K
         /\ \A i, j \in DOMAIN q : i < j => Before(p, q[i], q[j])
<1>1. q \in SetToSeqs(K) /\ \A i, j \in DOMAIN q : i < j => Before(p, q[i], q[j])
  BY DEF InOrderOf, Before
<1> QED  BY <1>1, OrdersOfSet, OrdersCover

\* There is one such list.
LEMMA OneOrder ==
  ASSUME NEW p \in Seq(Seqs), IsInjective(p), NEW K \in SUBSET Seqs,
         NEW q \in InOrderOf(p, K), NEW r \in InOrderOf(p, K)
  PROVE  q = r
<1>1. /\ q \in Seq(Seqs) /\ IsInjective(q) /\ Range(q) = K
      /\ \A i, j \in DOMAIN q : i < j => Before(p, q[i], q[j])
  BY InOrder
<1>2. /\ r \in Seq(Seqs) /\ IsInjective(r) /\ Range(r) = K
      /\ \A i, j \in DOMAIN r : i < j => Before(p, r[i], r[j])
  BY InOrder
<1>3. DOMAIN p = 1..Len(p) /\ DOMAIN q = 1..Len(q) /\ DOMAIN r = 1..Len(r)
      /\ Len(p) \in Nat /\ Len(q) \in Nat /\ Len(r) \in Nat
  BY <1>1, <1>2, LenProperties
<1>4. ASSUME NEW i \in DOMAIN q, NEW j \in DOMAIN q, i < j
      PROVE  \E a, b \in DOMAIN r : a < b /\ r[a] = q[i] /\ r[b] = q[j]
  <2>1. q[i] \in Range(r) /\ q[j] \in Range(r)
    BY <1>1, <1>2 DEF Range
  <2>2. PICK a \in DOMAIN r : r[a] = q[i]
    BY <2>1 DEF Range
  <2>3. PICK b \in DOMAIN r : r[b] = q[j]
    BY <2>1 DEF Range
  <2>4. q[i] # q[j]
    BY <1>1, <1>3, <1>4 DEF IsInjective
  <2>5. ~(b < a)
    <3> SUFFICES ASSUME b < a  PROVE FALSE
      OBVIOUS
    <3>1. PICK c \in DOMAIN p, d \in DOMAIN p : c < d /\ p[c] = q[j] /\ p[d] = q[i]
      BY <1>2, <2>2, <2>3 DEF Before
    <3>2. PICK e \in DOMAIN p, f \in DOMAIN p : e < f /\ p[e] = q[i] /\ p[f] = q[j]
      BY <1>1, <1>4 DEF Before
    <3>3. e = d /\ f = c
      BY <3>1, <3>2 DEF IsInjective
    <3> QED  BY <1>3, <3>1, <3>2, <3>3
  <2>6. a # b
    BY <2>2, <2>3, <2>4
  <2> QED  BY <1>3, <2>2, <2>3, <2>5, <2>6
<1> QED  BY <1>1, <1>2, <1>4, SameOrder

-----------------------------------------------------------------------------
(* The caller *)

\* No sequence is longer than max_sequence_length, and the new tokens of an
\* iteration are among the tokens fed.
Caller ==
  \A s \in Seqs : batch.new[s] <= Len(fed[s]) /\ Len(fed[s]) <= MaxLen

\* reset and an empty InferenceParams.
LEMMA NothingRequested ==
  /\ EmptyBatch.ids \in Seq(Seqs) /\ Len(EmptyBatch.ids) <= MaxBatch
  /\ IsInjective(EmptyBatch.ids)
  /\ EmptyBatch.new \in [Seqs -> 0..MaxLen]
  /\ NothingFed \in [Seqs -> Seq(Token)]
  /\ \A s \in Seqs : EmptyBatch.new[s] = 0 /\ Len(NothingFed[s]) = 0
<1>1. <<>> \in Seq(Seqs) /\ Len(<<>>) = 0 /\ IsInjective(<<>>) /\ <<>> \in Seq(Token)
  BY EmptySeq DEF IsInjective
<1>2. EmptyBatch.ids = <<>> /\ EmptyBatch.new = [s \in Seqs |-> 0]
  BY DEF EmptyBatch
<1> QED  BY <1>1, <1>2 DEF NothingFed

\* pre_step starts with the numbers of tokens the caller has chosen.
LEMMA NextBatchNew ==
  ASSUME NextBatch
  PROVE  batch'.new \in [Seqs -> Nat]
<1>1. PICK ids \in Batches : \E new \in NewLens(ids) :
        batch' = [ids |-> ids, new |-> new]
  BY DEF NextBatch
<1>2. PICK new \in NewLens(ids) : batch' = [ids |-> ids, new |-> new]
  BY <1>1
<1>3. new \in [Seqs -> {0} \cup ContextLens \cup DecodeLens]
  BY DEF NewLens
<1>4. {0} \cup ContextLens \cup DecodeLens \subseteq Nat
  BY DEF RequestAssumption
<1> QED  BY <1>2, <1>3, <1>4

\* A batch that may follow is a list of ids without repetition.
LEMMA BatchesAreLists ==
  ASSUME NEW ids \in Batches, batch.ids \in Seq(Seqs)
  PROVE  ids \in Seq(Seqs) /\ IsInjective(ids)
<1>1. InBatch \in SUBSET Seqs
  BY RangeOfSeq DEF InBatch
<1>2. PICK kept \in UNION {InOrderOf(batch.ids, K) : K \in SUBSET InBatch},
           new \in UNION {SetToSeqs(N) : N \in SUBSET (Seqs \ InBatch)} :
             ids = kept \o new
  BY DEF Batches
<1>3. PICK K \in SUBSET InBatch : kept \in SetToSeqs(K)
  BY <1>2 DEF InOrderOf
<1>4. PICK N \in SUBSET (Seqs \ InBatch) : new \in SetToSeqs(N)
  BY <1>2
<1>5. kept \in Seq(Seqs) /\ IsInjective(kept) /\ Range(kept) \subseteq K
  BY <1>1, <1>3, OrdersOfSet
<1>6. new \in Seq(Seqs) /\ IsInjective(new) /\ Range(new) \subseteq N
  BY <1>4, OrdersOfSet
<1>7. Range(kept) \cap Range(new) = {}
  BY <1>5, <1>6
<1> QED  BY <1>2, <1>5, <1>6, <1>7, JoinInjective

\* The next batch and what it feeds.
LEMMA NextBatchFeeds ==
  ASSUME RequestsTypeOK, Caller, NextBatch
  PROVE  /\ RequestsTypeOK' /\ Caller'
         /\ \A s \in Seqs :
              /\ Len(fed'[s]) \in Nat
              /\ s \in Range(batch'.ids) => Len(fed[s]) < Len(fed'[s])
         /\ \A s \in Seqs \ Range(batch'.ids) : fed'[s] = <<>>
         /\ \A s \in Range(batch'.ids) :
              /\ Len(fed'[s]) = Len(fed[s]) + batch'.new[s]
              /\ \A k \in 1..Len(fed[s]) : fed'[s][k] = fed[s][k]
              /\ s \in InBatch => batch'.new[s] \in DecodeLens
<1>1. PICK ids \in Batches :
        /\ Len(ids) \in 1..MaxBatch
        /\ \E new \in NewLens(ids) :
             /\ batch' = [ids |-> ids, new |-> new]
             /\ fed' = [s \in Seqs |->
                  IF new[s] = 0 THEN <<>>
                  ELSE fed[s] \o
                       [i \in 1..new[s] |->
                          <<s, IF fed[s] = <<>> THEN steps + 1 ELSE fed[s][1][2],
                            Len(fed[s]) + i>>]]
  BY DEF NextBatch
<1> DEFINE more(new, s) ==
             [i \in 1..new[s] |->
                <<s, IF fed[s] = <<>> THEN steps + 1 ELSE fed[s][1][2],
                  Len(fed[s]) + i>>]
<1>2. PICK new \in NewLens(ids) :
        /\ batch' = [ids |-> ids, new |-> new]
        /\ fed' = [s \in Seqs |-> IF new[s] = 0 THEN <<>> ELSE fed[s] \o more(new, s)]
  BY <1>1
<1>3. steps' = steps + 1 /\ steps < MaxSteps
  BY DEF NextBatch
<1>4. batch.ids \in Seq(Seqs) /\ fed \in [Seqs -> Seq(Token)] /\ steps \in 0..MaxSteps
  BY DEF RequestsTypeOK
<1>5. ids \in Seq(Seqs) /\ IsInjective(ids)
  BY <1>4, BatchesAreLists
<1>6. /\ new \in [Seqs -> {0} \cup ContextLens \cup DecodeLens]
      /\ \A s \in Seqs : /\ new[s] = 0 <=> s \notin Range(ids)
                         /\ Len(fed[s]) + new[s] <= MaxLen
  BY <1>2 DEF NewLens
<1>7. \A s \in Seqs : Len(fed[s]) \in Nat
  BY <1>4, LenProperties
<1>8. \A s \in Seqs : new[s] \in 0..MaxLen
  <2> SUFFICES ASSUME NEW s \in Seqs  PROVE new[s] \in 0..MaxLen
    OBVIOUS
  <2>1. {0} \cup ContextLens \cup DecodeLens \subseteq Nat
    OBVIOUS
  <2>2. new[s] \in Nat
    BY <2>1, <1>6
  <2> QED  BY <2>2, <1>6, <1>7
<1>9. ASSUME NEW s \in Seqs
      PROVE  more(new, s) \in Seq(Token) /\ Len(more(new, s)) = new[s]
  <2>1. ASSUME NEW i \in 1..new[s]  PROVE more(new, s)[i] \in Token
    <3>1. Len(fed[s]) + i \in 1..MaxLen
      BY <1>6, <1>7, <1>8
    <3>2. (IF fed[s] = <<>> THEN steps + 1 ELSE fed[s][1][2]) \in 1..MaxSteps
      <4>1. CASE fed[s] = <<>>
        BY <4>1, <1>3, <1>4
      <4>2. CASE fed[s] # <<>>
        <5>1. 1 \in 1..Len(fed[s])
          BY <4>2, <1>4, EmptySeq
        <5>2. fed[s][1] \in Token
          BY <5>1, <1>4, ElementOfSeq
        <5> QED  BY <5>2, <4>2 DEF Token
      <4> QED  BY <4>1, <4>2
    <3> QED  BY <3>1, <3>2 DEF Token
  <2>2. more(new, s) = [i \in 1..new[s] |-> more(new, s)[i]]
    OBVIOUS
  <2> HIDE DEF more
  <2>3. more(new, s) \in [1..new[s] -> Token] /\ new[s] \in Nat
    <3>1. new[s] \in Nat
      BY <1>8
    <3>2. more(new, s) \in [1..new[s] -> Token]
      BY <2>1, <2>2
    <3> QED  BY <3>1, <3>2
  <2>4. more(new, s) \in Seq(Token)
    BY <2>3, SeqDef
  <2> QED  BY <2>3, <2>4, LenProperties
<1> HIDE DEF more
<1>10. ASSUME NEW s \in Seqs
       PROVE  /\ fed'[s] \in Seq(Token)
              /\ Len(fed'[s]) = IF new[s] = 0 THEN 0 ELSE Len(fed[s]) + new[s]
  <2>1. CASE new[s] = 0
    <3>1. fed'[s] = <<>>
      BY <1>2, <2>1
    <3> QED  BY <3>1, <2>1, EmptySeq
  <2>2. CASE new[s] # 0
    <3>1. fed'[s] = fed[s] \o more(new, s)
      BY <1>2, <2>2
    <3>2. fed[s] \in Seq(Token) /\ more(new, s) \in Seq(Token) /\ Len(more(new, s)) = new[s]
      BY <1>4, <1>9
    <3>3. /\ fed[s] \o more(new, s) \in Seq(Token)
          /\ Len(fed[s] \o more(new, s)) = Len(fed[s]) + Len(more(new, s))
      BY <3>2, ConcatProperties
    <3> QED  BY <3>1, <3>2, <3>3, <2>2
  <2> QED  BY <2>1, <2>2
<1>11. fed' \in [Seqs -> Seq(Token)]
  <2>1. fed' = [s \in Seqs |-> fed'[s]]
    BY <1>2
  <2> QED  BY <2>1, <1>10
<1>12. /\ batch'.ids = ids /\ batch'.new = new
  BY <1>2
<1>13. new \in [Seqs -> 0..MaxLen]
  BY <1>6, <1>8
<1>14. RequestsTypeOK'
  BY <1>1, <1>3, <1>4, <1>5, <1>11, <1>12, <1>13 DEF RequestsTypeOK
<1>15. Caller'
  BY <1>6, <1>7, <1>8, <1>10, <1>12 DEF Caller
<1>16. ASSUME NEW s \in Seqs, s \in Range(ids)  PROVE Len(fed[s]) < Len(fed'[s])
  BY <1>6, <1>7, <1>8, <1>10, <1>16
<1>17. \A s \in Seqs : Len(fed'[s]) \in Nat
  BY <1>11, LenProperties
<1>18. \A s \in Seqs \ Range(ids) : fed'[s] = <<>>
  BY <1>2, <1>6
<1>19. Range(ids) \subseteq Seqs
  BY <1>5, RangeOfSeq
<1>20. ASSUME NEW s \in Range(ids)
       PROVE  /\ Len(fed'[s]) = Len(fed[s]) + new[s]
              /\ \A k \in 1..Len(fed[s]) : fed'[s][k] = fed[s][k]
              /\ s \in InBatch => new[s] \in DecodeLens
  <2>1. s \in Seqs /\ new[s] # 0 /\ fed'[s] = fed[s] \o more(new, s)
    BY <1>2, <1>6, <1>19
  <2>2. fed[s] \in Seq(Token) /\ more(new, s) \in Seq(Token) /\ Len(more(new, s)) = new[s]
    BY <2>1, <1>4, <1>9
  <2> DEFINE old == fed[s]
             late == more(new, s)
  <2> HIDE DEF old, late
  <2>3. /\ Len(old \o late) = Len(old) + Len(late)
        /\ \A k \in 1..Len(old) + Len(late) :
             (old \o late)[k] = IF k <= Len(old) THEN old[k] ELSE late[k - Len(old)]
    <3>1. old \in Seq(Token) /\ late \in Seq(Token)
      BY <2>2 DEF old, late
    <3> QED  BY <3>1, ConcatProperties
  <2> USE DEF old, late
  <2>4. \A k \in 1..Len(fed[s]) : k \in 1..Len(fed[s]) + Len(more(new, s)) /\ k <= Len(fed[s])
    BY <2>1, <2>2, <1>7, <1>8
  <2>5. s \in InBatch => new[s] \in DecodeLens
    BY <2>1, <1>2 DEF NewLens
  <2> QED  BY <2>1, <2>2, <2>3, <2>4, <2>5
<1> QED  BY <1>12, <1>14, <1>15, <1>16, <1>17, <1>18, <1>20

\* The unfinished sequences keep their order, the new ones follow.
LEMMA NextBatchOrder ==
  ASSUME RequestsTypeOK, NextBatch
  PROVE  \E kept \in Seq(Seqs), late \in Seq(Seqs) :
           /\ batch'.ids = kept \o late
           /\ Range(kept) \subseteq InBatch
           /\ Range(late) \cap InBatch = {}
           /\ \A i, j \in DOMAIN kept : i < j => Before(batch.ids, kept[i], kept[j])
<1>1. PICK ids \in Batches : batch'.ids = ids
  BY DEF NextBatch
<1>2. InBatch \in SUBSET Seqs
  BY RangeOfSeq DEF InBatch, RequestsTypeOK
<1>3. PICK kept \in UNION {InOrderOf(batch.ids, K) : K \in SUBSET InBatch},
           late \in UNION {SetToSeqs(N) : N \in SUBSET (Seqs \ InBatch)} :
             ids = kept \o late
  BY DEF Batches
<1>4. PICK K \in SUBSET InBatch : kept \in InOrderOf(batch.ids, K)
  BY <1>3
<1>5. /\ kept \in SetToSeqs(K)
      /\ \A i, j \in DOMAIN kept : i < j => Before(batch.ids, kept[i], kept[j])
  BY <1>4 DEF InOrderOf, Before
<1>6. PICK N \in SUBSET (Seqs \ InBatch) : late \in SetToSeqs(N)
  BY <1>3
<1>7. kept \in Seq(Seqs) /\ Range(kept) \subseteq K
  BY <1>2, <1>5, OrdersOfSet
<1>8. late \in Seq(Seqs) /\ Range(late) \subseteq N
  BY <1>6, OrdersOfSet
<1>9. Range(kept) \subseteq InBatch /\ Range(late) \cap InBatch = {}
  BY <1>7, <1>8
<1> QED  BY <1>1, <1>3, <1>5, <1>7, <1>8, <1>9

\* The next batch: what is kept of the batch, in its order, then the new ids.
LEMMA NextBatchParts ==
  ASSUME RequestsTypeOK, NextBatch
  PROVE  \E kept, late :
           /\ batch'.ids = kept \o late
           /\ kept \in InOrderOf(batch.ids, Range(batch'.ids) \cap InBatch)
           /\ late \in SetToSeqs(Range(batch'.ids) \ InBatch)
<1>1. PICK ids \in Batches : batch'.ids = ids
  BY DEF NextBatch
<1>2. InBatch \in SUBSET Seqs /\ batch.ids \in Seq(Seqs)
  BY RangeOfSeq DEF InBatch, RequestsTypeOK
<1>3. PICK kept \in UNION {InOrderOf(batch.ids, K) : K \in SUBSET InBatch},
           late \in UNION {SetToSeqs(N) : N \in SUBSET (Seqs \ InBatch)} :
             ids = kept \o late
  BY DEF Batches
<1>4. PICK K \in SUBSET InBatch : kept \in InOrderOf(batch.ids, K)
  BY <1>3
<1>5. PICK N \in SUBSET (Seqs \ InBatch) : late \in SetToSeqs(N)
  BY <1>3
<1>6. kept \in Seq(Seqs) /\ IsInjective(kept) /\ Range(kept) = K
  <2>1. K \in SUBSET Seqs
    BY <1>2
  <2> QED  BY <1>2, <1>4, <2>1, InOrder
<1>7. late \in Seq(Seqs) /\ IsInjective(late) /\ Range(late) = N
  BY <1>2, <1>5, OrdersOfSet, OrdersCover
<1>8. Range(ids) = K \cup N
  <2>1. Range(kept) \cap Range(late) = {}
    BY <1>6, <1>7
  <2> QED  BY <1>3, <1>6, <1>7, <2>1, JoinInjective
<1>9. K = Range(ids) \cap InBatch /\ N = Range(ids) \ InBatch
  BY <1>8
<1> QED  BY <1>1, <1>3, <1>4, <1>5, <1>9
=============================================================================
