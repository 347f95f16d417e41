------------------------- MODULE PagedKVCache_proofs -------------------------
(***************************************************************************)
(* Proofs about PagedKVCache for every pool, page size, batch size, number *)
(* of layers and order of the new ids: the state is well typed, no page is *)
(* ever lost or held twice, pre_step raises only when every page is in     *)
(* use, a tracked sequence holds the pages its tokens need and no more,    *)
(* and with the pool InferenceParams insists on no legal batch finds the   *)
(* cache full.  The last part is about callers whose unfinished sequences  *)
(* decode one token at a time and whose new ids are visited in the order   *)
(* of the batch: every layer then shows them exactly the tokens they fed.  *)
(***************************************************************************)
EXTENDS PagedKVCache, KVRequests_proofs

USE RequestAssumption, PageAssumption

\* The inductive invariant: the partition, the typing it needs, and what an
\* exception says of the free list.
PagesTyped ==
  /\ free \in Seq(Pages)
  /\ allocated \in [Seqs -> Seq(Pages)]
  /\ batch.new \in [Seqs -> Nat]

RaisedEmpty == pc = "raised" => free = <<>>

Inv == PagesTyped /\ PagePartition /\ RaisedEmpty

-----------------------------------------------------------------------------
(* The partition *)

\* PagePartition of any free list and any allocation.
Partition(f, a) ==
  /\ IsInjective(f)
  /\ \A s \in Seqs : IsInjective(a[s])
  /\ \A s \in Seqs : Range(a[s]) \cap Range(f) = {}
  /\ \A s, t \in Seqs : s # t => Range(a[s]) \cap Range(a[t]) = {}
  /\ Range(f) \cup UNION {Range(a[s]) : s \in Seqs} = Pages

\* Pages may move between the free list and one sequence in any way that keeps
\* the pages the two have together.
LEMMA MovePages ==
  ASSUME NEW f, NEW a \in [Seqs -> Seq(Pages)], Partition(f, a),
         NEW s \in Seqs, NEW f2, NEW q \in Seq(Pages),
         IsInjective(f2), IsInjective(q), Range(f2) \cap Range(q) = {},
         Range(f2) \cup Range(q) = Range(f) \cup Range(a[s])
  PROVE  Partition(f2, [a EXCEPT ![s] = q])
<1> DEFINE a2 == [a EXCEPT ![s] = q]
<1>1. a2[s] = q /\ \A t \in Seqs \ {s} : a2[t] = a[t]
  OBVIOUS
<1> HIDE DEF a2
<1>2. \A t \in Seqs \ {s} :
        Range(a[t]) \cap (Range(f) \cup Range(a[s])) = {}
  BY DEF Partition
<1>3. \A t \in Seqs : IsInjective(a2[t])
  BY <1>1 DEF Partition
<1>4. \A t \in Seqs : Range(a2[t]) \cap Range(f2) = {}
  BY <1>1, <1>2
<1>5. \A t, u \in Seqs : t # u => Range(a2[t]) \cap Range(a2[u]) = {}
  <2> SUFFICES ASSUME NEW t \in Seqs, NEW u \in Seqs, t # u
               PROVE  Range(a2[t]) \cap Range(a2[u]) = {}
    OBVIOUS
  <2>1. CASE t = s
    BY <2>1, <1>1, <1>2
  <2>2. CASE u = s
    BY <2>2, <1>1, <1>2
  <2>3. CASE t # s /\ u # s
    BY <2>3, <1>1 DEF Partition
  <2> QED  BY <2>1, <2>2, <2>3
<1>6. Range(f2) \cup UNION {Range(a2[t]) : t \in Seqs} = Pages
  <2> DEFINE others == UNION {Range(a[t]) : t \in Seqs \ {s}}
  <2>1. UNION {Range(a2[t]) : t \in Seqs} = Range(q) \cup others
    <3>1. \A t \in Seqs \ {s} : Range(a2[t]) = Range(a[t])
      BY <1>1
    <3>2. Range(a2[s]) = Range(q)
      BY <1>1
    <3> QED  BY <3>1, <3>2
  <2>2. UNION {Range(a[t]) : t \in Seqs} = Range(a[s]) \cup others
    OBVIOUS
  <2>3. Range(f) \cup UNION {Range(a[t]) : t \in Seqs} = Pages
    BY DEF Partition
  <2> HIDE DEF others
  <2> QED  BY <2>1, <2>2, <2>3
<1> QED  BY <1>3, <1>4, <1>5, <1>6 DEF Partition, a2

\* allocate_page, any number of times, whether or not it raises.
LEMMA AllocateKeeps ==
  ASSUME Inv, pc # "raised", NEW s \in Seqs, NEW n \in Nat, Allocate(s, n),
         batch' = batch
  PROVE  Inv'
<1> DEFINE got == IF n <= Len(free) THEN n ELSE Len(free)
           head == SubSeq(free, 1, got)
           rest == SubSeq(free, got + 1, Len(free))
           more == allocated[s] \o head
<1>1. got \in 0..Len(free) /\ Len(free) \in Nat
  BY LenProperties DEF Inv, PagesTyped
<1>2. /\ free' = rest
      /\ allocated' = [allocated EXCEPT ![s] = more]
      /\ pc' = IF got = n THEN pc ELSE "raised"
  BY DEF Allocate
<1>3. got # n => got = Len(free)
  OBVIOUS
<1> HIDE DEF got
<1>4. /\ head \in Seq(Pages) /\ rest \in Seq(Pages)
      /\ IsInjective(head) /\ IsInjective(rest)
      /\ Range(head) \cap Range(rest) = {}
      /\ Range(head) \cup Range(rest) = Range(free)
  BY <1>1, CutInjective DEF Inv, PagesTyped, PagePartition
<1>5. got # n => rest = <<>>
  BY <1>1, <1>3, SubSeqEmpty
<1> HIDE DEF head, rest
<1>6. /\ allocated[s] \in Seq(Pages) /\ IsInjective(allocated[s])
      /\ Range(allocated[s]) \cap Range(free) = {}
  BY DEF Inv, PagesTyped, PagePartition
<1>7. /\ more \in Seq(Pages) /\ IsInjective(more)
      /\ Range(more) = Range(allocated[s]) \cup Range(head)
  <2>1. Range(allocated[s]) \cap Range(head) = {}
    BY <1>4, <1>6
  <2> QED  BY <1>4, <1>6, <2>1, JoinInjective
<1> HIDE DEF more
<1>8. Partition(rest, [allocated EXCEPT ![s] = more])
  <2>1. /\ Range(rest) \cap Range(more) = {}
        /\ Range(rest) \cup Range(more) = Range(free) \cup Range(allocated[s])
    BY <1>4, <1>6, <1>7
  <2>2. Partition(free, allocated) /\ allocated \in [Seqs -> Seq(Pages)]
    BY DEF Inv, PagePartition, Partition, PagesTyped
  <2> QED  BY <1>4, <1>7, <2>1, <2>2, MovePages
<1>9. PagePartition'
  BY <1>2, <1>8 DEF PagePartition, Partition
<1>10. PagesTyped'
  BY <1>2, <1>4, <1>7 DEF Inv, PagesTyped
<1>11. RaisedEmpty'
  BY <1>2, <1>5 DEF RaisedEmpty
<1> QED  BY <1>9, <1>10, <1>11 DEF Inv

\* deallocate_sequence.
LEMMA FinishKeeps ==
  ASSUME Inv, NEW s \in Seqs, Finish(s)
  PROVE  Inv'
<1> DEFINE list == free \o allocated[s]
<1>1. /\ free' = list /\ allocated' = [allocated EXCEPT ![s] = <<>>]
      /\ batch' = batch /\ pc' = pc /\ pc = "pre_step"
  BY DEF Finish, requests
<1>2. /\ free \in Seq(Pages) /\ allocated[s] \in Seq(Pages)
      /\ IsInjective(free) /\ IsInjective(allocated[s])
      /\ Range(free) \cap Range(allocated[s]) = {}
  BY DEF Inv, PagesTyped, PagePartition
<1>3. /\ list \in Seq(Pages) /\ IsInjective(list)
      /\ Range(list) = Range(free) \cup Range(allocated[s])
  BY <1>2, JoinInjective
<1> HIDE DEF list
<1>4. <<>> \in Seq(Pages) /\ IsInjective(<<>>) /\ Range(<<>>) = {}
  BY EmptySeq DEF IsInjective, Range
<1>5. Partition(list, [allocated EXCEPT ![s] = <<>>])
  <2>1. Partition(free, allocated) /\ allocated \in [Seqs -> Seq(Pages)]
    BY DEF Inv, PagePartition, Partition, PagesTyped
  <2> QED  BY <1>3, <1>4, <2>1, MovePages
<1>6. PagePartition'
  BY <1>1, <1>5 DEF PagePartition, Partition
<1>7. PagesTyped'
  BY <1>1, <1>3, <1>4 DEF Inv, PagesTyped
<1>8. RaisedEmpty'
  BY <1>1 DEF RaisedEmpty
<1> QED  BY <1>6, <1>7, <1>8 DEF Inv

\* The fresh pool of __init__ and reset.
LEMMA FreshPool ==
  /\ AllPages \in Seq(Pages)
  /\ NoPages \in [Seqs -> Seq(Pages)]
  /\ Partition(AllPages, NoPages)
<1>1. AllPages \in [1..TotalPages -> Pages] /\ TotalPages \in Nat
  BY DEF AllPages, Pages
<1>2. AllPages \in Seq(Pages)
  BY <1>1, SeqDef
<1>3. IsInjective(AllPages)
  BY DEF AllPages, IsInjective
<1>4. Range(AllPages) = Pages
  <2>1. Range(AllPages) \subseteq Pages
    BY DEF AllPages, Pages, Range
  <2>2. ASSUME NEW p \in Pages  PROVE p \in Range(AllPages)
    <3>1. p + 1 \in 1..TotalPages /\ AllPages[p + 1] = p
      BY DEF AllPages, Pages
    <3> QED  BY <3>1 DEF AllPages, Range
  <2> QED  BY <2>1, <2>2
<1>5. \A s \in Seqs : NoPages[s] = <<>>
  BY DEF NoPages
<1>6. <<>> \in Seq(Pages) /\ IsInjective(<<>>) /\ Range(<<>>) = {}
  BY EmptySeq DEF IsInjective, Range
<1>7. NoPages \in [Seqs -> Seq(Pages)]
  BY <1>6 DEF NoPages
<1>8. UNION {Range(NoPages[s]) : s \in Seqs} = {}
  BY <1>5, <1>6
<1> QED  BY <1>2, <1>3, <1>4, <1>5, <1>6, <1>7, <1>8 DEF Partition

-----------------------------------------------------------------------------
(* The invariant *)

\* The number of pages of a context is a natural number.
LEMMA PagesForNat ==
  ASSUME NEW n \in Nat
  PROVE  PagesFor(n) \in Nat
<1>1. n + PageSize - 1 \in Nat /\ PageSize \in Nat \ {0}
  OBVIOUS
<1> QED  BY <1>1 DEF PagesFor

\* Init establishes the invariant.
LEMMA InitInv == Init => Inv
<1> SUFFICES ASSUME Init  PROVE Inv
  OBVIOUS
<1>1. batch.new \in [Seqs -> Nat]
  BY DEF Init, NoRequests, EmptyBatch
<1>2. free = AllPages /\ allocated = NoPages /\ pc = "step"
  BY DEF Init
<1> QED
  BY <1>1, <1>2, FreshPool DEF Inv, PagesTyped, PagePartition, Partition, RaisedEmpty

\* Every action preserves it.
LEMMA InvStep == Inv /\ [Next]_vars => Inv'
<1> SUFFICES ASSUME Inv, [Next]_vars  PROVE Inv'
  OBVIOUS
<1>1. CASE BeginStep
  <2>1. /\ free' = free /\ allocated' = allocated /\ pc' = "pre_step"
        /\ NextBatch
    BY <1>1 DEF BeginStep, manager
  <2>2. batch'.new \in [Seqs -> Nat]
    BY <2>1, NextBatchNew
  <2> QED  BY <2>1, <2>2 DEF Inv, PagesTyped, PagePartition, RaisedEmpty
<1>2. ASSUME NEW s \in Seqs, Finish(s)  PROVE Inv'
  BY <1>2, FinishKeeps
<1>3. ASSUME NEW s \in Seqs, Advance(s)  PROVE Inv'
  <2> DEFINE n == IF NeedsPage(s) THEN 1 ELSE 0
  <2>1. Allocate(s, n) /\ batch' = batch /\ pc # "raised" /\ n \in Nat
    BY <1>3 DEF Advance, requests
  <2> HIDE DEF n
  <2> QED  BY <2>1, AllocateKeeps
<1>4. ASSUME NEW s \in Seqs, Admit(s)  PROVE Inv'
  <2> DEFINE n == PagesFor(batch.new[s])
  <2>1. Allocate(s, n) /\ batch' = batch /\ pc # "raised"
    BY <1>4 DEF Admit, requests
  <2>2. n \in Nat
    BY PagesForNat DEF Inv, PagesTyped
  <2> HIDE DEF n
  <2> QED  BY <2>1, <2>2, AllocateKeeps
<1>5. CASE FillPageTable
  BY <1>5 DEF FillPageTable, Inv, PagesTyped, PagePartition, RaisedEmpty, requests
<1>6. CASE Step
  BY <1>6 DEF Step, Inv, PagesTyped, PagePartition, RaisedEmpty, requests, manager
<1>7. CASE Reset
  <2>1. /\ free' = AllPages /\ allocated' = NoPages /\ pc' = "step"
        /\ batch'.new \in [Seqs -> Nat]
    BY <1>7 DEF Reset, Forget, EmptyBatch
  <2> QED
    BY <2>1, FreshPool DEF Inv, PagesTyped, PagePartition, Partition, RaisedEmpty
<1>8. CASE UNCHANGED vars
  BY <1>8 DEF vars, requests, manager, Inv, PagesTyped, PagePartition, RaisedEmpty
<1> QED  BY <1>1, <1>2, <1>3, <1>4, <1>5, <1>6, <1>7, <1>8 DEF Next

\* The invariant holds in every reachable state.
LEMMA Invariance == Spec => []Inv
<1> QED  BY InitInv, InvStep, PTL DEF Spec

\* At every moment, inside pre_step and after an exception too, every page is
\* in the free list or with one sequence, once.
THEOREM PagesPartitioned == Spec => []PagePartition
<1>1. Inv => PagePartition
  BY DEF Inv
<1> QED  BY Invariance, <1>1, PTL

\* "KV cache is full!" is raised only when every page is with a sequence.
THEOREM RaiseMeansFull == Spec => []RaisesOnlyWhenFull
<1>1. Inv => RaisesOnlyWhenFull
  <2> SUFFICES ASSUME Inv, pc = "raised"
               PROVE  free = <<>> /\ UNION {Range(allocated[s]) : s \in Seqs} = Pages
    BY DEF RaisesOnlyWhenFull
  <2>1. free = <<>>
    BY DEF Inv, RaisedEmpty
  <2>2. Range(free) = {}
    BY <2>1, EmptySeq DEF Range
  <2> QED  BY <2>1, <2>2 DEF Inv, PagePartition
<1> QED  BY Invariance, <1>1, PTL

-----------------------------------------------------------------------------
(* Pages and tokens *)

\* Division by a divisor that is not a number of its own.
LEMMA Quotient ==
  ASSUME NEW n \in Nat, NEW d \in Nat \ {0}
  PROVE  /\ n \div d \in Nat /\ n % d \in 0..d - 1
         /\ n = d * (n \div d) + (n % d)
<1>1. n \div d \in Int /\ n % d \in 0..d - 1
  OBVIOUS
<1>2. n = d * (n \div d) + (n % d)
  OBVIOUS
<1>3. n \div d \in Nat
  OBVIOUS
<1> QED  BY <1>1, <1>2, <1>3

\* Quotient and remainder are unique.
LEMMA UniqueQuotient ==
  ASSUME NEW d \in Nat \ {0}, NEW q \in Int, NEW r \in 0..d - 1,
         NEW p \in Int, NEW s \in 0..d - 1, d * q + r = d * p + s
  PROVE  q = p
<1>1. d * (q - p) = s - r /\ d * (p - q) = r - s
  OBVIOUS
<1>2. CASE q - p >= 1
  <2>1. d * (q - p) >= d
    BY <1>2
  <2> QED  BY <2>1, <1>1
<1>3. CASE p - q >= 1
  <2>1. d * (p - q) >= d
    BY <1>3
  <2> QED  BY <2>1, <1>1
<1> QED  BY <1>2, <1>3

\* How to find the number of pages of n tokens.
LEMMA PagesForIs ==
  ASSUME NEW n \in Nat, NEW q \in Int, NEW r \in 0..PageSize - 1,
         n + PageSize - 1 = PageSize * q + r
  PROVE  PagesFor(n) = q
<1>1. n + PageSize - 1 \in Nat
  OBVIOUS
<1>2. /\ PagesFor(n) \in Nat
      /\ (n + PageSize - 1) % PageSize \in 0..PageSize - 1
      /\ n + PageSize - 1
           = PageSize * PagesFor(n) + ((n + PageSize - 1) % PageSize)
  BY <1>1, Quotient DEF PagesFor
<1> QED  BY <1>2, UniqueQuotient

\* No token needs no page.
LEMMA PagesForZero == PagesFor(0) = 0
<1>1. PageSize - 1 \in 0..PageSize - 1 /\ 0 + PageSize - 1 = PageSize * 0 + (PageSize - 1)
  OBVIOUS
<1> QED  BY <1>1, PagesForIs

\* One more token needs one more page when the last one is full.
LEMMA PagesForNext ==
  ASSUME NEW n \in Nat
  PROVE  PagesFor(n + 1) = IF n % PageSize = 0 THEN PagesFor(n) + 1 ELSE PagesFor(n)
<1> DEFINE q == n \div PageSize
           r == n % PageSize
<1>1. q \in Nat /\ r \in 0..PageSize - 1 /\ n = PageSize * q + r
  BY Quotient
<1> HIDE DEF q, r
<1>2. PageSize * (q + 1) = PageSize * q + PageSize
  BY <1>1
<1>3. PagesFor(n + 1) = q + 1
  <2>1. n + 1 + PageSize - 1 = PageSize * (q + 1) + r
    BY <1>1, <1>2
  <2>2. q + 1 \in Int /\ n + 1 \in Nat
    BY <1>1
  <2> QED  BY <2>1, <2>2, <1>1, PagesForIs
<1>4. CASE r = 0
  <2>1. n + PageSize - 1 = PageSize * q + (PageSize - 1)
        /\ PageSize - 1 \in 0..PageSize - 1
    BY <1>1, <1>4
  <2>2. PagesFor(n) = q
    BY <2>1, <1>1, PagesForIs
  <2> QED  BY <2>2, <1>3, <1>4 DEF r
<1>5. CASE r # 0
  <2>1. n + PageSize - 1 = PageSize * (q + 1) + (r - 1)
        /\ r - 1 \in 0..PageSize - 1
    BY <1>1, <1>2, <1>5
  <2>2. PagesFor(n) = q + 1
    BY <2>1, <1>1, PagesForIs
  <2> QED  BY <2>2, <1>3, <1>5 DEF r
<1> QED  BY <1>4, <1>5

\* The tokens of a sequence of legal length fit into max_pages_per_seq pages.
LEMMA PagesForBound ==
  ASSUME NEW n \in Nat, n <= MaxLen
  PROVE  PagesFor(n) \in 0..MaxPages /\ MaxPages \in Nat
<1> DEFINE m == MaxLen \div PageSize
           q == PagesFor(n)
           r == (n + PageSize - 1) % PageSize
<1>1. m \in Nat /\ MaxLen = PageSize * m
  BY Quotient
<1>2. n + PageSize - 1 \in Nat
  OBVIOUS
<1>3. q \in Nat /\ r \in 0..PageSize - 1 /\ n + PageSize - 1 = PageSize * q + r
  BY <1>2, Quotient DEF PagesFor
<1> HIDE DEF m, q, r
<1>4. ASSUME q >= m + 1  PROVE FALSE
  <2>1. PageSize * q >= PageSize * (m + 1)
    BY <1>1, <1>3, <1>4
  <2>2. PageSize * (m + 1) = PageSize * m + PageSize
    BY <1>1
  <2> QED  BY <2>1, <2>2, <1>1, <1>3
<1> QED  BY <1>4, <1>1, <1>3 DEF m, q, MaxPages

-----------------------------------------------------------------------------
(* Sequences without repetition *)

\* The elements of a part of a sequence.
LEMMA RangeOfPart ==
  ASSUME NEW S, NEW p \in Seq(S), NEW m \in Nat \ {0}, NEW n \in Nat, n <= Len(p)
  PROVE  Range(SubSeq(p, m, n)) = {p[j] : j \in m..n}
<1> DEFINE part == SubSeq(p, m, n)
<1>1. \A j \in m..n : p[j] \in S
  BY LenProperties, ElementOfSeq
<1>2. /\ part \in Seq(S) /\ Len(part) = IF m <= n THEN n - m + 1 ELSE 0
      /\ \A i \in 1..n - m + 1 : part[i] = p[m + i - 1]
  BY <1>1, SubSeqProperties
<1> HIDE DEF part
<1>3. Range(part) = {part[i] : i \in 1..Len(part)}
  BY <1>2, RangeEquality
<1>4. ASSUME NEW i \in 1..Len(part)  PROVE part[i] \in {p[j] : j \in m..n}
  <2>1. m + i - 1 \in m..n /\ part[i] = p[m + i - 1]
    BY <1>2
  <2> QED  BY <2>1
<1>5. ASSUME NEW j \in m..n  PROVE p[j] \in {part[i] : i \in 1..Len(part)}
  <2>1. j - m + 1 \in 1..Len(part) /\ part[j - m + 1] = p[j]
    BY <1>2
  <2> QED  BY <2>1
<1> QED  BY <1>3, <1>4, <1>5 DEF part

\* Deleting a key of an OrderedDict.
LEMMA RemoveOne ==
  ASSUME NEW S, NEW p \in Seq(S), IsInjective(p), NEW k \in DOMAIN p
  PROVE  /\ RemoveAt(p, k) \in Seq(S)
         /\ IsInjective(RemoveAt(p, k))
         /\ Range(RemoveAt(p, k)) = Range(p) \ {p[k]}
<1> DEFINE h == SubSeq(p, 1, k - 1)
           t == SubSeq(p, k + 1, Len(p))
<1>1. Len(p) \in Nat /\ DOMAIN p = 1..Len(p) /\ k \in 1..Len(p)
  BY LenProperties
<1>2. h \in Seq(S) /\ IsInjective(h)
  BY <1>1, k - 1 \in 0..Len(p), CutInjective
<1>3. t \in Seq(S) /\ IsInjective(t)
  BY <1>1, k \in 0..Len(p), CutInjective
<1>4. Range(h) = {p[j] : j \in 1..k - 1}
  BY <1>1, k - 1 \in Nat, k - 1 <= Len(p), RangeOfPart
<1>5. Range(t) = {p[j] : j \in k + 1..Len(p)}
  BY <1>1, k + 1 \in Nat \ {0}, Len(p) <= Len(p), RangeOfPart
<1> HIDE DEF h, t
<1>6. Range(h) \cap Range(t) = {}
  <2> SUFFICES ASSUME NEW i \in 1..k - 1, NEW j \in k + 1..Len(p), p[i] = p[j]
               PROVE  FALSE
    BY <1>4, <1>5
  <2>1. i = j
    BY <1>1 DEF IsInjective
  <2> QED  BY <2>1, <1>1
<1>7. Range(h) \cup Range(t) = Range(p) \ {p[k]}
  <2>1. ASSUME NEW j \in DOMAIN p, p[j] # p[k]  PROVE p[j] \in Range(h) \cup Range(t)
    <3>1. j # k
      BY <2>1
    <3> QED  BY <3>1, <1>1, <1>4, <1>5
  <2>2. ASSUME NEW j \in DOMAIN p, j # k  PROVE p[j] \in Range(p) \ {p[k]}
    BY <2>2 DEF IsInjective, Range
  <2>3. Range(p) \ {p[k]} \subseteq Range(h) \cup Range(t)
    BY <2>1 DEF Range
  <2>4. Range(h) \subseteq Range(p) \ {p[k]}
    BY <2>2, <1>1, <1>4
  <2>5. Range(t) \subseteq Range(p) \ {p[k]}
    BY <2>2, <1>1, <1>5
  <2> QED  BY <2>3, <2>4, <2>5
<1>8. RemoveAt(p, k) = h \o t
  BY DEF RemoveAt, h, t
<1> QED  BY <1>2, <1>3, <1>6, <1>7, <1>8, JoinInjective

\* Adding a key to an OrderedDict.
LEMMA AppendOne ==
  ASSUME NEW S, NEW p \in Seq(S), IsInjective(p), NEW e \in S, e \notin Range(p)
  PROVE  /\ Append(p, e) \in Seq(S)
         /\ IsInjective(Append(p, e))
         /\ Range(Append(p, e)) = Range(p) \cup {e}
<1> DEFINE one == <<e>>
<1>1. one \in Seq(S) /\ IsInjective(one) /\ Range(one) = {e}
  BY DEF IsInjective, Range
<1>2. Append(p, e) = p \o one
  BY AppendIsConcat
<1> HIDE DEF one
<1>3. Range(p) \cap Range(one) = {}
  BY <1>1
<1> QED  BY <1>1, <1>2, <1>3, JoinInjective

\* Going on to the next element of a list.
LEMMA TailOne ==
  ASSUME NEW S, NEW p \in Seq(S), IsInjective(p), p # <<>>
  PROVE  /\ Tail(p) \in Seq(S) /\ IsInjective(Tail(p))
         /\ Head(p) \in Range(p)
         /\ Range(Tail(p)) = Range(p) \ {Head(p)}
<1>1. Len(p) \in Nat \ {0} /\ DOMAIN p = 1..Len(p)
  BY EmptySeq, LenProperties
<1>2. Head(p) = p[1]
  BY <1>1
<1>3. Tail(p) = RemoveAt(p, 1)
  <2>1. Tail(p) = SubSeq(p, 2, Len(p)) /\ SubSeq(p, 2, Len(p)) \in Seq(S)
    BY TailIsSubSeq, HeadTailProperties
  <2>2. SubSeq(p, 1, 0) = <<>>
    BY SubSeqEmpty
  <2> QED  BY <2>1, <2>2, ConcatEmptySeq DEF RemoveAt
<1>4. 1 \in DOMAIN p
  BY <1>1
<1>5. /\ RemoveAt(p, 1) \in Seq(S) /\ IsInjective(RemoveAt(p, 1))
      /\ Range(RemoveAt(p, 1)) = Range(p) \ {p[1]}
  BY <1>4, RemoveOne
<1>6. p[1] \in Range(p)
  BY <1>4 DEF Range
<1> QED  BY <1>2, <1>3, <1>5, <1>6

-----------------------------------------------------------------------------
(* The invariant *)

\* Every sequence holds the pages its tokens need.
Covered == \A s \in Seqs : Len(allocated[s]) = PagesFor(seqlen[s])

\* What the loops of pre_step have still to visit.
Visits ==
  /\ todo.finished \subseteq Range(order) /\ todo.unfinished \subseteq Range(order)
  /\ todo.finished \cap todo.unfinished = {}
  /\ IsInjective(todo.new) /\ Range(todo.new) \cap Range(order) = {}
  /\ Range(todo.new) \subseteq InBatch
  /\ Range(order) \subseteq InBatch \cup todo.finished

\* The manager counts no more tokens than the caller has fed; an unfinished
\* sequence it has not advanced yet is behind.
Lengths ==
  /\ \A s \in Seqs \ Range(order) : seqlen[s] = 0
  /\ \A s \in Seqs \ todo.finished : seqlen[s] <= Len(fed[s])
  /\ \A s \in todo.unfinished : seqlen[s] < Len(fed[s])

Working == pc # "raised" => Covered /\ Visits /\ Lengths

Idle == pc = "step" => todo = NothingTodo

CInv == Inv /\ TypeOK /\ Caller /\ Working /\ Idle

-----------------------------------------------------------------------------
(* Room for every legal batch *)

\* allocate_page with n pages to give.
LEMMA AllocateGrows ==
  ASSUME Inv, NEW s \in Seqs, NEW n \in Nat, Allocate(s, n)
  PROVE  /\ n <= Len(free) =>
              /\ pc' = pc
              /\ Len(allocated'[s]) = Len(allocated[s]) + n
              /\ \A t \in Seqs \ {s} : allocated'[t] = allocated[t]
         /\ ~ (n <= Len(free)) => pc' = "raised"
<1>1. Len(free) \in Nat /\ allocated[s] \in Seq(Pages)
      /\ allocated \in [Seqs -> Seq(Pages)] /\ free \in Seq(Pages)
  BY LenProperties DEF Inv, PagesTyped
<1>2. CASE n <= Len(free)
  <2> DEFINE head == SubSeq(free, 1, n)
  <2>1. allocated' = [allocated EXCEPT ![s] = @ \o head] /\ pc' = pc
    BY <1>2 DEF Allocate
  <2>2. head \in Seq(Pages) /\ Len(head) = n
    <3>1. \A i \in 1..n : free[i] \in Pages
      BY <1>1, <1>2, ElementOfSeq
    <3> QED  BY <3>1, SubSeqProperties
  <2> HIDE DEF head
  <2>3. /\ allocated[s] \o head \in Seq(Pages)
        /\ Len(allocated[s] \o head) = Len(allocated[s]) + Len(head)
    <3> HIDE DEF Pages
    <3>1. allocated[s] \in Seq(Pages) /\ head \in Seq(Pages)
      BY <1>1, <2>2
    <3> QED  BY <3>1, ConcatProperties
  <2> QED  BY <1>1, <1>2, <2>1, <2>2, <2>3
<1>3. CASE ~ (n <= Len(free))
  BY <1>1, <1>3 DEF Allocate
<1> QED  BY <1>2, <1>3

\* A batch has no more sequences than max_batch_size.
LEMMA BatchBounded ==
  ASSUME RequestsTypeOK
  PROVE  IsFiniteSet(InBatch) /\ Cardinality(InBatch) \in 0..MaxBatch
<1> DEFINE ids == batch.ids
<1>1. ids \in Seq(Seqs) /\ Len(ids) <= MaxBatch
  BY DEF RequestsTypeOK
<1>2. Len(ids) \in Nat /\ DOMAIN ids = 1..Len(ids) /\ ids \in [1..Len(ids) -> Seqs]
  BY <1>1, LenProperties
<1>3. InBatch = {ids[i] : i \in 1..Len(ids)}
  BY <1>1, RangeEquality DEF InBatch
<1> HIDE DEF ids
<1>4. ids \in Surjection(1..Len(ids), InBatch)
  BY <1>2, <1>3 DEF Surjection
<1>5. IsFiniteSet(1..Len(ids)) /\ Cardinality(1..Len(ids)) = Len(ids)
  BY <1>2, FS_Interval
<1>6. IsFiniteSet(InBatch) /\ Cardinality(InBatch) <= Len(ids)
  BY <1>4, <1>5, FS_Surjection
<1>7. Cardinality(InBatch) \in Nat
  BY <1>6, FS_CardinalityType
<1> QED  BY <1>1, <1>2, <1>6, <1>7

\* While only sequences of the batch hold pages, and none more than
\* max_pages_per_seq, one that may still take n pages finds them free: else the
\* pool would have fewer pages than the batch has places for them.
LEMMA RoomLeft ==
  ASSUME CInv, pc = "pre_step", todo.finished = {}, TotalPages >= PoolSize,
         NEW s \in InBatch, NEW n \in Nat, Len(allocated[s]) + n <= MaxPages
  PROVE  n <= Len(free)
<1> SUFFICES ASSUME Len(free) < n  PROVE FALSE
  <2>1. Len(free) \in Nat
    BY LenProperties DEF CInv, Inv, PagesTyped
  <2> QED  BY <2>1
<1> DEFINE held == Len(allocated[s])
           places == InBatch \X (1..MaxPages)
           slots == places \ {<<s, MaxPages>>}
           at(c) == IF c[1] = s /\ c[2] > held THEN free[c[2] - held]
                    ELSE allocated[c[1]][c[2]]
<1>1. /\ RequestsTypeOK /\ PagePartition /\ Covered /\ Visits /\ Lengths
      /\ free \in Seq(Pages) /\ allocated \in [Seqs -> Seq(Pages)]
      /\ seqlen \in [Seqs -> 0..MaxLen]
  BY DEF CInv, Inv, PagesTyped, TypeOK, Working
<1>2. InBatch \subseteq Seqs
  BY <1>1, RangeOfSeq DEF RequestsTypeOK, InBatch
<1>3. Len(free) \in Nat /\ held \in Nat /\ DOMAIN free = 1..Len(free)
  BY <1>1, <1>2, LenProperties
<1>4. MaxPages \in Nat /\ \A t \in Seqs : Len(allocated[t]) \in 0..MaxPages
  <2>1. ASSUME NEW t \in Seqs  PROVE Len(allocated[t]) \in 0..MaxPages
    <3>1. seqlen[t] \in Nat /\ seqlen[t] <= MaxLen
      BY <1>1
    <3>2. Len(allocated[t]) = PagesFor(seqlen[t])
      BY <1>1 DEF Covered
    <3> QED  BY <3>1, <3>2, PagesForBound
  <2>2. MaxPages \in Nat
    BY PagesForBound
  <2> QED  BY <2>1, <2>2
<1>5. \A t \in Seqs \ InBatch : Len(allocated[t]) = 0
  <2> SUFFICES ASSUME NEW t \in Seqs \ InBatch  PROVE Len(allocated[t]) = 0
    OBVIOUS
  <2>1. t \notin Range(order)
    BY <1>1 DEF Visits
  <2>2. seqlen[t] = 0
    BY <2>1, <1>1 DEF Lengths
  <2> QED  BY <2>2, <1>1, PagesForZero DEF Covered
<1>6. held < MaxPages
  BY <1>3, <1>4
<1>7. ASSUME NEW p \in Pages  PROVE \E c \in slots : p = at(c)
  <2>1. CASE p \in Range(free)
    <3>1. PICK k \in 1..Len(free) : p = free[k]
      BY <2>1, <1>3 DEF Range
    <3> DEFINE c == <<s, held + k>>
    <3>2. held + k \in 1..MaxPages /\ held + k # MaxPages
      BY <1>3, <1>4
    <3>3. c \in slots
      BY <3>2
    <3>4. p = at(c)
      BY <3>1, <1>3
    <3> QED  BY <3>3, <3>4
  <2>2. CASE p \notin Range(free)
    <3>1. PICK t \in Seqs : p \in Range(allocated[t])
      BY <2>2, <1>1 DEF PagePartition
    <3>2. Len(allocated[t]) \in Nat /\ DOMAIN allocated[t] = 1..Len(allocated[t])
      BY <1>1, LenProperties
    <3>3. PICK k \in 1..Len(allocated[t]) : p = allocated[t][k]
      BY <3>1, <3>2 DEF Range
    <3>4. t \in InBatch
      BY <3>2, <3>3, <1>5
    <3> DEFINE c == <<t, k>>
    <3>5. c \in slots
      BY <3>2, <3>3, <3>4, <1>3, <1>4, <1>6
    <3>6. p = at(c)
      BY <3>2, <3>3, <1>3
    <3> QED  BY <3>5, <3>6
  <2> QED  BY <2>1, <2>2
<1> DEFINE place == [p \in Pages |-> CHOOSE c \in slots : p = at(c)]
<1>8. \A p \in Pages : place[p] \in slots /\ p = at(place[p])
  BY <1>7
<1> HIDE DEF at
<1>9. place \in Injection(Pages, slots)
  <2>1. place \in [Pages -> slots]
    BY <1>8
  <2>2. ASSUME NEW p \in Pages, NEW q \in Pages, place[p] = place[q]  PROVE p = q
    <3> HIDE DEF place
    <3> QED  BY <2>2, <1>8
  <2> HIDE DEF place
  <2>3. DOMAIN place = Pages
    BY <2>1
  <2> QED  BY <2>1, <2>2, <2>3 DEF Injection, IsInjective
<1>10. IsFiniteSet(places) /\ Cardinality(places) = Cardinality(InBatch) * MaxPages
  <2>1. IsFiniteSet(1..MaxPages) /\ Cardinality(1..MaxPages) = MaxPages
    <3>1. 1 \in Int /\ MaxPages \in Int
      BY <1>4
    <3>2. /\ IsFiniteSet(1..MaxPages)
          /\ Cardinality(1..MaxPages) = IF 1 > MaxPages THEN 0 ELSE MaxPages - 1 + 1
      BY <3>1, FS_Interval
    <3> QED  BY <3>2, <1>4
  <2>2. IsFiniteSet(InBatch)
    BY <1>1, BatchBounded
  <2> QED  BY <2>1, <2>2, FS_Product, ZenonT(60)
<1>11. IsFiniteSet(slots) /\ Cardinality(slots) = Cardinality(places) - 1
  <2>1. <<s, MaxPages>> \in places
    BY <1>3, <1>4, <1>6
  <2> HIDE DEF places
  <2> QED  BY <2>1, <1>10, FS_RemoveElement
<1>12. Cardinality(Pages) = TotalPages
  <2>1. 0 \in Int /\ TotalPages - 1 \in Int /\ ~ (0 > TotalPages - 1)
    OBVIOUS
  <2>2. Cardinality(0..TotalPages - 1) = TotalPages - 1 - 0 + 1
    BY <2>1, FS_Interval
  <2> QED  BY <2>2 DEF Pages
<1> HIDE DEF slots, places, place
<1>13. Cardinality(Pages) <= Cardinality(slots)
  BY <1>9, <1>11, FS_Injection
<1>14. Cardinality(InBatch) * MaxPages <= MaxBatch * MaxPages
  <2>1. Cardinality(InBatch) \in 0..MaxBatch
    BY <1>1, BatchBounded
  <2> QED  BY <2>1, <1>4
<1>15. Cardinality(InBatch) * MaxPages \in Nat /\ MaxBatch * MaxPages \in Nat
  <2>1. Cardinality(InBatch) \in 0..MaxBatch
    BY <1>1, BatchBounded
  <2> QED  BY <2>1, <1>4
<1> QED  BY <1>10, <1>11, <1>12, <1>13, <1>14, <1>15 DEF PoolSize

-----------------------------------------------------------------------------
(* The actions *)

\* __init__ and reset: an empty manager with a fresh pool.
LEMMA FreshManager ==
  /\ <<>> \in Seq(Seqs) /\ IsInjective(<<>>) /\ Range(<<>>) = {}
  /\ NoSequences \in [Seqs -> 0..MaxLen]
  /\ AllPages \in Seq(Pages) /\ NoPages \in [Seqs -> Seq(Pages)]
  /\ EmptyTable \in [1..MaxBatch -> [1..MaxPages -> Pages]]
  /\ \A s \in Seqs : NoSequences[s] = 0 /\ Len(NoPages[s]) = 0
  /\ NothingTodo \in [finished : SUBSET Seqs, unfinished : SUBSET Seqs, new : Seq(Seqs)]
<1>1. <<>> \in Seq(Seqs) /\ IsInjective(<<>>) /\ Range(<<>>) = {} /\ Len(<<>>) = 0
  BY EmptySeq DEF IsInjective, Range
<1>2. 0 \in Pages
  BY DEF Pages
<1>3. EmptyTable \in [1..MaxBatch -> [1..MaxPages -> Pages]]
  BY <1>2 DEF EmptyTable
<1> QED  BY <1>1, <1>3, FreshPool DEF NoSequences, NoPages, NothingTodo

\* An empty manager satisfies the invariant.
LEMMA FreshCInv ==
  ASSUME Inv, batch = EmptyBatch, fed = NothingFed, steps \in 0..MaxSteps,
         order = <<>>, seqlen = NoSequences, free = AllPages,
         allocated = NoPages, pageTable = EmptyTable, todo = NothingTodo,
         cache \in [Layers -> [Pages -> [0..PageSize - 1 -> Token \cup {NoToken}]]],
         pc = "step", layer = NumLayers
  PROVE  CInv
<1>1. RequestsTypeOK
  BY NothingRequested DEF RequestsTypeOK
<1>2. Caller
  BY NothingRequested DEF Caller
<1>3. TypeOK
  BY <1>1, FreshManager DEF TypeOK
<1>4. Covered
  BY FreshManager, PagesForZero DEF Covered
<1>5. Visits
  BY FreshManager DEF Visits, NothingTodo
<1>6. Lengths
  BY FreshManager, NothingRequested DEF Lengths, NothingTodo
<1> QED  BY <1>2, <1>3, <1>4, <1>5, <1>6 DEF CInv, Working, Idle

\* pre_step sorts the ids into finished, unfinished and new ones.
LEMMA BeginKeeps ==
  ASSUME CInv, Inv', BeginStep
  PROVE  CInv'
<1> DEFINE ids == Range(batch'.ids)
<1>1. /\ pc = "step" /\ pc' = "pre_step" /\ NextBatch
      /\ order' = order /\ seqlen' = seqlen /\ free' = free
      /\ allocated' = allocated /\ pageTable' = pageTable
      /\ cache' = cache /\ layer' = layer
  BY DEF BeginStep, manager
<1>2. PICK new \in NewOrders(batch'.ids, Unknown(ids)) :
        todo' = [finished |-> Range(order) \ ids,
                 unfinished |-> Range(order) \cap ids,
                 new |-> new]
  BY DEF BeginStep
<1>3. /\ TypeOK /\ RequestsTypeOK /\ Caller /\ Covered /\ Visits /\ Lengths
      /\ todo = NothingTodo
  BY <1>1 DEF CInv, Working, Idle, TypeOK
<1>4. RequestsTypeOK' /\ Caller'
  BY <1>1, <1>3, NextBatchFeeds
<1>5. \A s \in Seqs : /\ Len(fed'[s]) \in Nat
                      /\ s \in ids => Len(fed[s]) < Len(fed'[s])
  BY <1>1, <1>3, NextBatchFeeds
<1>6. ids \subseteq Seqs /\ Range(order) \subseteq Seqs /\ InBatch' = ids
  BY <1>3, <1>4, RangeOfSeq DEF RequestsTypeOK, TypeOK, InBatch
<1>7. seqlen \in [Seqs -> 0..MaxLen] /\ fed \in [Seqs -> Seq(Token)]
  BY <1>3 DEF TypeOK, RequestsTypeOK
<1> HIDE DEF ids
<1>8. new \in Seq(Seqs) /\ IsInjective(new) /\ Range(new) \subseteq Unknown(ids)
  <2>1. Unknown(ids) \in SUBSET Seqs
    BY <1>6 DEF Unknown
  <2>2. new \in SetToSeqs(Unknown(ids))
    BY <1>2 DEF NewOrders, InOrderOf
  <2> QED  BY <2>1, <2>2, OrdersOfSet
<1>9. /\ todo'.finished = Range(order) \ ids
      /\ todo'.unfinished = Range(order) \cap ids /\ todo'.new = new
      /\ todo' \in [finished : SUBSET Seqs, unfinished : SUBSET Seqs, new : Seq(Seqs)]
  BY <1>2, <1>6, <1>8
<1>10. TypeOK'
  BY <1>1, <1>3, <1>4, <1>9 DEF TypeOK
<1>11. Covered'
  BY <1>1, <1>3 DEF Covered
<1>12. Visits'
  BY <1>1, <1>6, <1>8, <1>9 DEF Visits, Unknown
<1>13. Lengths'
  <2>1. ASSUME NEW s \in Seqs, s \in ids  PROVE seqlen[s] < Len(fed'[s])
    <3>1. seqlen[s] <= Len(fed[s])
      BY <1>3 DEF Lengths, NothingTodo
    <3>2. seqlen[s] \in Nat /\ Len(fed[s]) \in Nat /\ Len(fed'[s]) \in Nat
      BY <1>5, <1>7, LenProperties
    <3> QED  BY <3>1, <3>2, <1>5, <2>1
  <2>2. ASSUME NEW s \in Seqs, s \notin Range(order)  PROVE seqlen[s] = 0
    BY <1>3, <2>2 DEF Lengths
  <2>3. ASSUME NEW s \in Seqs \ todo'.finished  PROVE seqlen[s] <= Len(fed'[s])
    <3>1. CASE s \in ids
      BY <3>1, <2>1, <1>5, <1>7
    <3>2. CASE s \notin Range(order)
      BY <3>2, <2>2, <1>5
    <3> QED  BY <3>1, <3>2, <2>3, <1>9
  <2> QED  BY <2>1, <2>2, <2>3, <1>1, <1>6, <1>9 DEF Lengths
<1> QED  BY <1>1, <1>4, <1>10, <1>11, <1>12, <1>13 DEF CInv, Working, Idle

\* deallocate_sequence and the deletion from sequences.
LEMMA FinishCounts ==
  ASSUME CInv, Inv', NEW s \in Seqs, Finish(s)
  PROVE  CInv'
<1>1. /\ pc = "pre_step" /\ pc' = pc /\ s \in todo.finished
      /\ order' = RemoveAt(order, Place(s))
      /\ seqlen' = [seqlen EXCEPT ![s] = 0]
      /\ allocated' = [allocated EXCEPT ![s] = <<>>]
      /\ todo' = [todo EXCEPT !.finished = @ \ {s}]
      /\ batch' = batch /\ fed' = fed /\ steps' = steps
      /\ pageTable' = pageTable /\ cache' = cache /\ layer' = layer
  BY DEF Finish, requests
<1>2. /\ TypeOK /\ RequestsTypeOK /\ Caller /\ Covered /\ Visits /\ Lengths
  BY <1>1 DEF CInv, Working, TypeOK
<1>3. /\ order \in Seq(Seqs) /\ IsInjective(order)
      /\ seqlen \in [Seqs -> 0..MaxLen] /\ allocated \in [Seqs -> Seq(Pages)]
      /\ todo \in [finished : SUBSET Seqs, unfinished : SUBSET Seqs, new : Seq(Seqs)]
  BY <1>2 DEF TypeOK
<1>4. Place(s) \in DOMAIN order /\ order[Place(s)] = s
  <2>1. \E i \in DOMAIN order : order[i] = s
    BY <1>1, <1>2 DEF Visits, Range
  <2> QED  BY <2>1 DEF Place
<1>5. /\ order' \in Seq(Seqs) /\ IsInjective(order')
      /\ Range(order') = Range(order) \ {s}
  BY <1>1, <1>3, <1>4, RemoveOne, SMTT(60)
<1>6. seqlen'[s] = 0 /\ \A t \in Seqs \ {s} : seqlen'[t] = seqlen[t]
  BY <1>1, <1>3
<1>7. Len(allocated'[s]) = 0 /\ \A t \in Seqs \ {s} : allocated'[t] = allocated[t]
  BY <1>1, <1>3, EmptySeq
<1>8. /\ todo'.finished = todo.finished \ {s}
      /\ todo'.unfinished = todo.unfinished /\ todo'.new = todo.new
      /\ todo' \in [finished : SUBSET Seqs, unfinished : SUBSET Seqs, new : Seq(Seqs)]
  BY <1>1, <1>3
<1>9. TypeOK'
  <2>1. free' \in Seq(Pages) /\ allocated' \in [Seqs -> Seq(Pages)]
    BY DEF Inv, PagesTyped
  <2>2. RequestsTypeOK'
    BY <1>1, <1>2 DEF RequestsTypeOK
  <2>3. seqlen' \in [Seqs -> 0..MaxLen]
    BY <1>1, <1>3
  <2> QED  BY <2>1, <2>2, <2>3, <1>1, <1>2, <1>5, <1>8 DEF TypeOK
<1>10. Covered'
  BY <1>2, <1>6, <1>7, PagesForZero DEF Covered
<1>11. Visits'
  BY <1>1, <1>2, <1>5, <1>8 DEF Visits, InBatch
<1>12. Caller'
  BY <1>1, <1>2 DEF Caller
<1>13. Lengths'
  <2>1. ASSUME NEW t \in Seqs \ Range(order')  PROVE seqlen'[t] = 0
    BY <1>2, <1>5, <1>6, <2>1 DEF Lengths
  <2>2. \A t \in Seqs : Len(fed[t]) \in Nat
    BY <1>2, LenProperties DEF RequestsTypeOK
  <2>3. ASSUME NEW t \in Seqs \ todo'.finished  PROVE seqlen'[t] <= Len(fed'[t])
    BY <1>1, <1>2, <1>6, <1>8, <2>2, <2>3 DEF Lengths
  <2>4. ASSUME NEW t \in todo'.unfinished  PROVE seqlen'[t] < Len(fed'[t])
    <3>1. t # s /\ t \in Seqs /\ t \in todo.unfinished
      BY <1>1, <1>2, <1>3, <1>8, <2>4 DEF Visits
    <3> QED  BY <3>1, <1>1, <1>2, <1>6 DEF Lengths
  <2> QED  BY <2>1, <2>3, <2>4 DEF Lengths
<1> QED  BY <1>1, <1>9, <1>10, <1>11, <1>12, <1>13 DEF CInv, Working, Idle

\* The places an unfinished sequence needs are within max_pages_per_seq.
LEMMA AdvanceFits ==
  ASSUME CInv, NEW s \in Seqs, Advance(s)
  PROVE  LET n == IF NeedsPage(s) THEN 1 ELSE 0
         IN /\ seqlen[s] + 1 \in 0..MaxLen /\ seqlen[s] < Len(fed[s])
            /\ seqlen[s] + 1 <= Len(fed[s])
            /\ Len(allocated[s]) + n = PagesFor(seqlen[s] + 1)
            /\ Len(allocated[s]) + n <= MaxPages
<1>1. /\ seqlen \in [Seqs -> 0..MaxLen] /\ fed \in [Seqs -> Seq(Token)]
      /\ Caller /\ Covered /\ Lengths /\ s \in todo.unfinished
  BY DEF CInv, Working, TypeOK, RequestsTypeOK, Advance
<1>2. seqlen[s] \in Nat /\ Len(fed[s]) \in Nat
  BY <1>1, LenProperties
<1>3. seqlen[s] < Len(fed[s]) /\ Len(fed[s]) <= MaxLen
  BY <1>1 DEF Lengths, Caller
<1>4. seqlen[s] + 1 \in Nat /\ seqlen[s] + 1 <= MaxLen /\ seqlen[s] < MaxLen
  BY <1>2, <1>3
<1> DEFINE n == IF NeedsPage(s) THEN 1 ELSE 0
<1>5. n = IF seqlen[s] % PageSize = 0 THEN 1 ELSE 0
  BY <1>4 DEF NeedsPage
<1>6. Len(allocated[s]) = PagesFor(seqlen[s]) /\ PagesFor(seqlen[s]) \in Nat
  BY <1>1, <1>2, PagesForNat DEF Covered
<1>7. PagesFor(seqlen[s] + 1) = PagesFor(seqlen[s]) + n
  <2>1. PagesFor(seqlen[s] + 1) = IF seqlen[s] % PageSize = 0
                                  THEN PagesFor(seqlen[s]) + 1 ELSE PagesFor(seqlen[s])
    BY <1>2, PagesForNext
  <2> HIDE DEF n
  <2> QED  BY <2>1, <1>5, <1>6
<1>8. PagesFor(seqlen[s] + 1) <= MaxPages
  BY <1>4, PagesForBound
<1> QED  BY <1>2, <1>3, <1>4, <1>6, <1>7, <1>8

\* An unfinished sequence grows by a token.
LEMMA AdvanceCounts ==
  ASSUME CInv, Inv', NEW s \in Seqs, Advance(s)
  PROVE  CInv'
<1> DEFINE n == IF NeedsPage(s) THEN 1 ELSE 0
<1>1. /\ pc = "pre_step" /\ s \in todo.unfinished /\ Allocate(s, n)
      /\ seqlen' = IF pc' = "raised" THEN seqlen ELSE [seqlen EXCEPT ![s] = @ + 1]
      /\ todo' = [todo EXCEPT !.unfinished = @ \ {s}]
      /\ batch' = batch /\ fed' = fed /\ steps' = steps /\ order' = order
      /\ pageTable' = pageTable /\ cache' = cache /\ layer' = layer
  BY DEF Advance, requests
<1>2. /\ Inv /\ TypeOK /\ RequestsTypeOK /\ Caller /\ Covered /\ Visits /\ Lengths
  BY <1>1 DEF CInv, Working, TypeOK
<1>3. /\ seqlen \in [Seqs -> 0..MaxLen]
      /\ todo \in [finished : SUBSET Seqs, unfinished : SUBSET Seqs, new : Seq(Seqs)]
  BY <1>2 DEF TypeOK
<1>4. /\ seqlen[s] + 1 \in 0..MaxLen /\ seqlen[s] + 1 <= Len(fed[s])
      /\ Len(allocated[s]) + n = PagesFor(seqlen[s] + 1)
  BY AdvanceFits
<1>5. n \in Nat
  OBVIOUS
<1> HIDE DEF n
<1>6. /\ n <= Len(free) =>
           /\ pc' = pc /\ Len(allocated'[s]) = Len(allocated[s]) + n
           /\ \A t \in Seqs \ {s} : allocated'[t] = allocated[t]
      /\ ~ (n <= Len(free)) => pc' = "raised"
  BY <1>1, <1>2, <1>5, AllocateGrows
<1>7. pc' \in {"pre_step", "raised"} /\ (pc' # "raised" => n <= Len(free))
  BY <1>1, <1>6
<1>8. /\ todo'.unfinished = todo.unfinished \ {s}
      /\ todo'.finished = todo.finished /\ todo'.new = todo.new
      /\ todo' \in [finished : SUBSET Seqs, unfinished : SUBSET Seqs, new : Seq(Seqs)]
  BY <1>1, <1>3
<1>9. TypeOK'
  <2>1. free' \in Seq(Pages) /\ allocated' \in [Seqs -> Seq(Pages)]
    BY DEF Inv, PagesTyped
  <2>2. RequestsTypeOK'
    BY <1>1, <1>2 DEF RequestsTypeOK
  <2>3. seqlen' \in [Seqs -> 0..MaxLen]
    BY <1>1, <1>3, <1>4
  <2> QED  BY <2>1, <2>2, <2>3, <1>1, <1>2, <1>7, <1>8 DEF TypeOK
<1>10. Caller'
  BY <1>1, <1>2 DEF Caller
<1>11. ASSUME pc' # "raised"  PROVE Covered' /\ Visits' /\ Lengths'
  <2>1. seqlen'[s] = seqlen[s] + 1 /\ \A t \in Seqs \ {s} : seqlen'[t] = seqlen[t]
    BY <1>1, <1>3, <1>11
  <2>2. Covered'
    BY <1>2, <1>4, <1>6, <1>7, <1>11, <2>1 DEF Covered
  <2>3. Visits'
    BY <1>1, <1>2, <1>8 DEF Visits, InBatch
  <2>4. s \in Range(order) /\ s \in Seqs
    BY <1>1, <1>2 DEF Visits
  <2>5. \A t \in Seqs \ Range(order') : seqlen'[t] = 0
    BY <1>1, <1>2, <2>1, <2>4 DEF Lengths
  <2>6. \A t \in Seqs \ todo'.finished : seqlen'[t] <= Len(fed'[t])
    BY <1>1, <1>2, <1>4, <1>8, <2>1 DEF Lengths
  <2>7. \A t \in todo'.unfinished : t \in Seqs \ {s} /\ t \in todo.unfinished
    BY <1>3, <1>8
  <2>8. \A t \in todo'.unfinished : seqlen'[t] < Len(fed'[t])
    BY <1>1, <1>2, <2>1, <2>7 DEF Lengths
  <2> QED  BY <2>2, <2>3, <2>5, <2>6, <2>8 DEF Lengths
<1> QED  BY <1>7, <1>9, <1>10, <1>11 DEF CInv, Working, Idle

\* The pages of a new sequence are within max_pages_per_seq.
LEMMA AdmitFits ==
  ASSUME CInv, NEW s \in Seqs, Admit(s)
  PROVE  /\ s \notin Range(order) /\ s \in Range(todo.new)
         /\ s \in InBatch
         /\ Len(allocated[s]) = 0
         /\ batch.new[s] \in 0..MaxLen /\ batch.new[s] <= Len(fed[s])
         /\ PagesFor(batch.new[s]) \in 0..MaxPages
<1>1. /\ TypeOK /\ RequestsTypeOK /\ Caller /\ Covered /\ Visits /\ Lengths
      /\ todo.new # <<>> /\ s = Head(todo.new) /\ todo.new \in Seq(Seqs)
  BY DEF CInv, Working, TypeOK, Admit
<1>2. s \in Range(todo.new)
  BY <1>1, TailOne DEF Visits
<1>3. s \notin Range(order) /\ s \in InBatch
  BY <1>1, <1>2 DEF Visits
<1>4. Len(allocated[s]) = 0
  BY <1>1, <1>3, PagesForZero DEF Lengths, Covered
<1>5. batch.new[s] \in 0..MaxLen
  BY <1>1 DEF RequestsTypeOK
<1>6. PagesFor(batch.new[s]) \in 0..MaxPages
  <2>1. batch.new[s] \in Nat /\ batch.new[s] <= MaxLen
    BY <1>5
  <2> QED  BY <2>1, PagesForBound
<1> QED  BY <1>1, <1>2, <1>3, <1>4, <1>5, <1>6 DEF Caller

\* A new sequence is entered with its context.
LEMMA AdmitCounts ==
  ASSUME CInv, Inv', NEW s \in Seqs, Admit(s)
  PROVE  CInv'
<1> DEFINE n == PagesFor(batch.new[s])
<1>1. /\ pc = "pre_step" /\ todo.finished = {} /\ todo.unfinished = {}
      /\ todo.new # <<>> /\ s = Head(todo.new) /\ Allocate(s, n)
      /\ order' = Append(order, s)
      /\ seqlen' = [seqlen EXCEPT ![s] = batch.new[s]]
      /\ todo' = [todo EXCEPT !.new = Tail(@)]
      /\ batch' = batch /\ fed' = fed /\ steps' = steps
      /\ pageTable' = pageTable /\ cache' = cache /\ layer' = layer
  BY DEF Admit, requests
<1>2. /\ Inv /\ TypeOK /\ RequestsTypeOK /\ Caller /\ Covered /\ Visits /\ Lengths
  BY <1>1 DEF CInv, Working, TypeOK
<1>3. /\ seqlen \in [Seqs -> 0..MaxLen] /\ order \in Seq(Seqs) /\ IsInjective(order)
      /\ todo \in [finished : SUBSET Seqs, unfinished : SUBSET Seqs, new : Seq(Seqs)]
  BY <1>2 DEF TypeOK
<1>4. /\ s \notin Range(order) /\ s \in Range(todo.new) /\ s \in InBatch
      /\ Len(allocated[s]) = 0
      /\ batch.new[s] \in 0..MaxLen /\ batch.new[s] <= Len(fed[s]) /\ n \in Nat
  BY AdmitFits
<1> HIDE DEF n
<1>5. /\ n <= Len(free) =>
           /\ pc' = pc /\ Len(allocated'[s]) = Len(allocated[s]) + n
           /\ \A t \in Seqs \ {s} : allocated'[t] = allocated[t]
      /\ ~ (n <= Len(free)) => pc' = "raised"
  BY <1>1, <1>2, <1>4, AllocateGrows
<1>6. pc' \in {"pre_step", "raised"} /\ (pc' # "raised" => n <= Len(free))
  BY <1>1, <1>5
<1>7. /\ order' \in Seq(Seqs) /\ IsInjective(order')
      /\ Range(order') = Range(order) \cup {s}
  BY <1>1, <1>3, <1>4, AppendOne
<1>8. /\ Tail(todo.new) \in Seq(Seqs) /\ IsInjective(Tail(todo.new))
      /\ Range(Tail(todo.new)) = Range(todo.new) \ {s}
  BY <1>1, <1>2, <1>3, TailOne DEF Visits
<1>9. /\ todo'.unfinished = {} /\ todo'.finished = {} /\ todo'.new = Tail(todo.new)
      /\ todo' \in [finished : SUBSET Seqs, unfinished : SUBSET Seqs, new : Seq(Seqs)]
  BY <1>1, <1>3, <1>8
<1>10. TypeOK'
  <2>1. free' \in Seq(Pages) /\ allocated' \in [Seqs -> Seq(Pages)]
    BY DEF Inv, PagesTyped
  <2>2. RequestsTypeOK'
    BY <1>1, <1>2 DEF RequestsTypeOK
  <2>3. seqlen' \in [Seqs -> 0..MaxLen]
    BY <1>1, <1>3, <1>4
  <2> QED  BY <2>1, <2>2, <2>3, <1>1, <1>2, <1>6, <1>7, <1>9 DEF TypeOK
<1>11. Caller'
  BY <1>1, <1>2 DEF Caller
<1>12. seqlen'[s] = batch.new[s] /\ \A t \in Seqs \ {s} : seqlen'[t] = seqlen[t]
  BY <1>1, <1>3
<1>13. ASSUME pc' # "raised"  PROVE Covered'
  <2>1. Len(allocated'[s]) = n
    BY <1>4, <1>5, <1>6, <1>13
  <2> QED  BY <2>1, <1>2, <1>5, <1>6, <1>12, <1>13 DEF Covered, n
<1>14. Visits'
  BY <1>1, <1>2, <1>4, <1>7, <1>8, <1>9 DEF Visits, InBatch
<1>15. Lengths'
  <2>1. \A t \in Seqs \ Range(order') : seqlen'[t] = 0
    BY <1>2, <1>7, <1>12 DEF Lengths
  <2>2. \A t \in Seqs \ todo'.finished : seqlen'[t] <= Len(fed'[t])
    BY <1>1, <1>2, <1>4, <1>9, <1>12 DEF Lengths
  <2> QED  BY <2>1, <2>2, <1>9 DEF Lengths
<1> QED  BY <1>6, <1>10, <1>11, <1>13, <1>14, <1>15 DEF CInv, Working, Idle

\* The page table is written from the pages of the tracked sequences.
LEMMA FillKeeps ==
  ASSUME CInv, Inv', FillPageTable
  PROVE  CInv'
<1>1. /\ pc = "pre_step" /\ todo = NothingTodo /\ pc' = "step" /\ layer' = 0
      /\ pageTable' = [j \in 1..MaxBatch |->
           IF j <= Len(order) THEN PageRow(order[j]) ELSE pageTable[j]]
      /\ batch' = batch /\ fed' = fed /\ steps' = steps
      /\ order' = order /\ seqlen' = seqlen /\ free' = free
      /\ allocated' = allocated /\ cache' = cache /\ todo' = todo
  BY DEF FillPageTable, requests
<1>2. /\ TypeOK /\ RequestsTypeOK /\ Caller /\ Covered /\ Visits /\ Lengths
  BY <1>1 DEF CInv, Working, TypeOK
<1>3. ASSUME NEW t \in Seqs  PROVE PageRow(t) \in [1..MaxPages -> Pages]
  <2>1. allocated[t] \in Seq(Pages)
    BY <1>2 DEF TypeOK
  <2>2. 0 \in Pages
    BY DEF Pages
  <2>3. ASSUME NEW k \in 1..MaxPages, k <= Len(allocated[t])
        PROVE  allocated[t][k] \in Pages
    <3> HIDE DEF Pages
    <3>1. k \in 1..Len(allocated[t])
      BY <2>1, <2>3, LenProperties
    <3> QED  BY <2>1, <3>1, ElementOfSeq
  <2> QED  BY <2>2, <2>3 DEF PageRow
<1>4. ASSUME NEW j \in 1..MaxBatch, j <= Len(order)
      PROVE  PageRow(order[j]) \in [1..MaxPages -> Pages]
  <2>1. order \in Seq(Seqs)
    BY <1>2 DEF TypeOK
  <2>2. j \in 1..Len(order)
    BY <2>1, <1>4, LenProperties
  <2>3. order[j] \in Seqs
    BY <2>1, <2>2, ElementOfSeq
  <2> QED  BY <2>3, <1>3
<1>5. pageTable' \in [1..MaxBatch -> [1..MaxPages -> Pages]]
  <2>1. pageTable \in [1..MaxBatch -> [1..MaxPages -> Pages]]
    BY <1>2 DEF TypeOK
  <2> QED  BY <2>1, <1>1, <1>4
<1>6. RequestsTypeOK'
  BY <1>1, <1>2 DEF RequestsTypeOK
<1>7. TypeOK'
  BY <1>1, <1>2, <1>5, <1>6 DEF TypeOK
<1>8. Caller' /\ Covered' /\ Visits' /\ Lengths'
  BY <1>1, <1>2 DEF Caller, Covered, Visits, Lengths, InBatch
<1> QED  BY <1>1, <1>7, <1>8 DEF CInv, Working, Idle

\* A layer copies tokens of the batch into its cache.
LEMMA StepKeeps ==
  ASSUME CInv, Inv', Step
  PROVE  CInv'
<1> DEFINE Contents == [Pages -> [0..PageSize - 1 -> Token \cup {NoToken}]]
           here(p, o) == {t \in NewTokens : Slot(t[1], Position(t[1], t[2])) = <<p, o>>}
           cell(p, o) == IF here(p, o) = {} THEN cache[layer + 1][p][o]
                         ELSE LET t == CHOOSE t \in here(p, o) : TRUE
                              IN NewToken(t[1], t[2])
<1>1. /\ pc = "step" /\ pc' = pc /\ layer < NumLayers /\ layer' = layer + 1
      /\ cache' = [cache EXCEPT ![layer + 1] =
                     [p \in Pages |-> [o \in 0..PageSize - 1 |-> cell(p, o)]]]
      /\ batch' = batch /\ fed' = fed /\ steps' = steps
      /\ order' = order /\ seqlen' = seqlen /\ free' = free
      /\ allocated' = allocated /\ pageTable' = pageTable /\ todo' = todo
  BY DEF Step, requests, manager
<1>2. /\ TypeOK /\ RequestsTypeOK /\ Caller /\ Covered /\ Visits /\ Lengths
      /\ todo = NothingTodo
  BY <1>1 DEF CInv, Working, Idle, TypeOK
<1>3. layer \in 0..NumLayers /\ cache \in [Layers -> Contents] /\ layer + 1 \in Layers
  BY <1>1, <1>2 DEF TypeOK, Layers
<1>4. ASSUME NEW t \in NewTokens  PROVE NewToken(t[1], t[2]) \in Token
  <2> DEFINE s == batch.ids[t[1]]
  <2>1. /\ t[1] \in 1..Len(batch.ids) /\ t[2] \in 1..MaxLen /\ t[2] <= batch.new[s]
    BY DEF NewTokens, NewLen
  <2>2. batch.ids \in Seq(Seqs) /\ batch.new \in [Seqs -> 0..MaxLen]
        /\ fed \in [Seqs -> Seq(Token)]
    BY <1>2 DEF RequestsTypeOK
  <2>3. s \in Seqs
    BY <2>1, <2>2, ElementOfSeq
  <2>4. batch.new[s] \in Nat /\ batch.new[s] <= Len(fed[s])
    BY <2>2, <2>3, <1>2 DEF Caller
  <2>5. fed[s] \in Seq(Token) /\ Len(fed[s]) \in Nat
    BY <2>2, <2>3, LenProperties
  <2> HIDE DEF s
  <2>6. Len(fed[s]) - batch.new[s] + t[2] \in 1..Len(fed[s])
    BY <2>1, <2>4, <2>5
  <2>7. fed[s][Len(fed[s]) - batch.new[s] + t[2]] \in Token
    BY <2>5, <2>6, ElementOfSeq
  <2> QED  BY <2>7 DEF NewToken, s
<1>5. ASSUME NEW p \in Pages, NEW o \in 0..PageSize - 1
      PROVE  cell(p, o) \in Token \cup {NoToken}
  <2>1. CASE here(p, o) = {}
    <3>1. cache[layer + 1] \in Contents
      BY <1>3
    <3>2. cell(p, o) = cache[layer + 1][p][o]
      BY <2>1
    <3> HIDE DEF cell
    <3> QED  BY <3>1, <3>2
  <2>2. CASE here(p, o) # {}
    <3> DEFINE t == CHOOSE t \in here(p, o) : TRUE
    <3>1. t \in here(p, o)
      BY <2>2
    <3>2. cell(p, o) = NewToken(t[1], t[2])
      BY <2>2
    <3>3. t \in NewTokens
      BY <3>1
    <3> HIDE DEF t, cell
    <3> QED  BY <3>2, <3>3, <1>4
  <2> QED  BY <2>1, <2>2
<1> HIDE DEF cell, here
<1>6. [p \in Pages |-> [o \in 0..PageSize - 1 |-> cell(p, o)]] \in Contents
  BY <1>5
<1>7. cache' \in [Layers -> Contents]
  BY <1>1, <1>3, <1>6
<1>8. layer' \in 0..NumLayers
  BY <1>1, <1>3
<1>9. RequestsTypeOK'
  BY <1>1, <1>2 DEF RequestsTypeOK
<1>10. TypeOK'
  BY <1>1, <1>2, <1>7, <1>8, <1>9 DEF TypeOK
<1>11. Caller' /\ Covered' /\ Visits' /\ Lengths'
  BY <1>1, <1>2 DEF Caller, Covered, Visits, Lengths, InBatch
<1> QED  BY <1>1, <1>2, <1>10, <1>11 DEF CInv, Working, Idle

-----------------------------------------------------------------------------
(* The theorems *)

\* Init establishes the invariant.
LEMMA InitCInv == Init => CInv
<1> SUFFICES ASSUME Init  PROVE CInv
  OBVIOUS
<1>1. Inv
  BY InitInv
<1>2. cache \in [Layers -> [Pages -> [0..PageSize - 1 -> Token \cup {NoToken}]]]
  BY DEF Init
<1>3. /\ batch = EmptyBatch /\ fed = NothingFed /\ steps \in 0..MaxSteps
      /\ order = <<>> /\ seqlen = NoSequences /\ free = AllPages
      /\ allocated = NoPages /\ pageTable = EmptyTable /\ todo = NothingTodo
      /\ pc = "step" /\ layer = NumLayers
  BY DEF Init, NoRequests
<1> QED  BY <1>1, <1>2, <1>3, FreshCInv

\* reset brings the manager back to an empty one.
LEMMA ResetKeeps ==
  ASSUME CInv, Inv', Reset
  PROVE  CInv'
<1>1. /\ batch' = EmptyBatch /\ fed' = NothingFed /\ steps' = steps
      /\ order' = <<>> /\ seqlen' = NoSequences /\ free' = AllPages
      /\ allocated' = NoPages /\ pageTable' = EmptyTable /\ todo' = NothingTodo
      /\ pc' = "step" /\ layer' = NumLayers /\ cache' = cache
  BY DEF Reset, Forget
<1>2. /\ cache \in [Layers -> [Pages -> [0..PageSize - 1 -> Token \cup {NoToken}]]]
      /\ steps \in 0..MaxSteps
  BY DEF CInv, TypeOK, RequestsTypeOK
<1>3. RequestsTypeOK'
  BY <1>1, <1>2, NothingRequested DEF RequestsTypeOK
<1>4. Caller'
  BY <1>1, NothingRequested DEF Caller
<1>5. TypeOK'
  BY <1>1, <1>2, <1>3, FreshManager DEF TypeOK
<1>6. Covered'
  BY <1>1, FreshManager, PagesForZero DEF Covered
<1>7. Visits'
  BY <1>1, FreshManager DEF Visits, NothingTodo
<1>8. Lengths'
  BY <1>1, FreshManager, NothingRequested DEF Lengths, NothingTodo
<1> QED  BY <1>1, <1>4, <1>5, <1>6, <1>7, <1>8 DEF CInv, Working, Idle

\* Every action preserves the invariant.
LEMMA CInvStep == CInv /\ [Next]_vars => CInv'
<1> SUFFICES ASSUME CInv, [Next]_vars  PROVE CInv'
  OBVIOUS
<1>1. Inv'
  BY InvStep DEF CInv
<1>2. CASE BeginStep
  BY <1>1, <1>2, BeginKeeps
<1>3. ASSUME NEW s \in Seqs, Finish(s)  PROVE CInv'
  BY <1>1, <1>3, FinishCounts
<1>4. ASSUME NEW s \in Seqs, Advance(s)  PROVE CInv'
  BY <1>1, <1>4, AdvanceCounts
<1>5. ASSUME NEW s \in Seqs, Admit(s)  PROVE CInv'
  BY <1>1, <1>5, AdmitCounts
<1>6. CASE FillPageTable
  BY <1>1, <1>6, FillKeeps
<1>7. CASE Step
  BY <1>1, <1>7, StepKeeps
<1>8. CASE Reset
  BY <1>1, <1>8, ResetKeeps
<1>9. CASE UNCHANGED vars
  <2>1. /\ batch' = batch /\ fed' = fed /\ steps' = steps
        /\ order' = order /\ seqlen' = seqlen /\ free' = free
        /\ allocated' = allocated /\ pageTable' = pageTable
        /\ cache' = cache /\ todo' = todo /\ pc' = pc /\ layer' = layer
    BY <1>9 DEF vars, requests, manager
  <2>2. RequestsTypeOK'
    BY <2>1 DEF CInv, TypeOK, RequestsTypeOK
  <2>3. TypeOK' /\ Caller'
    BY <2>1, <2>2 DEF CInv, TypeOK, Caller
  <2>4. Working' /\ Idle'
    BY <2>1 DEF CInv, Working, Idle, Covered, Visits, Lengths, InBatch
  <2> QED  BY <1>1, <2>3, <2>4 DEF CInv
<1> QED  BY <1>2, <1>3, <1>4, <1>5, <1>6, <1>7, <1>8, <1>9 DEF Next

\* The invariant holds in every reachable state.
LEMMA CInvariance == Spec => []CInv
<1> QED  BY InitCInv, CInvStep, PTL DEF Spec

\* The state of PagedKVCacheManager and of its caller is well typed.
THEOREM StateTyped == Spec => []TypeOK
<1>1. CInv => TypeOK
  BY DEF CInv
<1> QED  BY CInvariance, <1>1, PTL

\* Unless pre_step raised, every sequence holds exactly the pages its tokens
\* need: the page taken at a page boundary (pre_step) agrees with the number of
\* pages a context of that length is given.
THEOREM PagesCover == Spec => []PagesCoverTokens
<1>1. CInv => PagesCoverTokens
  BY DEF CInv, Working, Covered, PagesCoverTokens
<1> QED  BY CInvariance, <1>1, PTL

\* With max_batch_size * max_pages_per_seq pages no step of pre_step raises.
LEMMA NoStepRaises ==
  ASSUME CInv, NeverFull, [Next]_vars
  PROVE  NeverFull'
<1> SUFFICES ASSUME TotalPages >= PoolSize, pc # "raised"  PROVE pc' # "raised"
  BY DEF NeverFull
<1>0. Inv /\ TypeOK
  BY DEF CInv
<1>1. CASE BeginStep
  BY <1>1 DEF BeginStep
<1>2. ASSUME NEW s \in Seqs, Finish(s)  PROVE pc' # "raised"
  BY <1>2 DEF Finish
<1>3. ASSUME NEW s \in Seqs, Advance(s)  PROVE pc' # "raised"
  <2> DEFINE n == IF NeedsPage(s) THEN 1 ELSE 0
  <2>1. pc = "pre_step" /\ todo.finished = {} /\ s \in todo.unfinished /\ Allocate(s, n)
    BY <1>3 DEF Advance
  <2>2. s \in InBatch
    BY <2>1 DEF CInv, Working, Visits
  <2>3. Len(allocated[s]) + n <= MaxPages /\ n \in Nat
    BY <1>3, AdvanceFits
  <2> HIDE DEF n
  <2>4. n <= Len(free)
    BY <2>1, <2>2, <2>3, RoomLeft
  <2> QED  BY <1>0, <2>1, <2>3, <2>4, AllocateGrows
<1>4. ASSUME NEW s \in Seqs, Admit(s)  PROVE pc' # "raised"
  <2> DEFINE n == PagesFor(batch.new[s])
  <2>1. pc = "pre_step" /\ todo.finished = {} /\ Allocate(s, n)
    BY <1>4 DEF Admit
  <2>2. s \in InBatch /\ Len(allocated[s]) = 0 /\ n \in 0..MaxPages
    BY <1>4, AdmitFits
  <2> HIDE DEF n
  <2>3. MaxPages \in Nat
    BY PagesForBound
  <2>4. n \in Nat /\ Len(allocated[s]) + n <= MaxPages
    BY <2>2, <2>3
  <2>5. n <= Len(free)
    BY <2>1, <2>2, <2>4, RoomLeft
  <2> QED  BY <1>0, <2>1, <2>4, <2>5, AllocateGrows
<1>5. CASE FillPageTable
  BY <1>5 DEF FillPageTable
<1>6. CASE Step
  BY <1>6 DEF Step
<1>7. CASE Reset
  BY <1>7 DEF Reset
<1>8. CASE UNCHANGED vars
  BY <1>8 DEF vars
<1> QED  BY <1>1, <1>2, <1>3, <1>4, <1>5, <1>6, <1>7, <1>8 DEF Next

\* With the pool InferenceParams insists on, "KV cache is full!" is never
\* raised on a legal batch, whatever its order and however it changes.
THEOREM PoolSuffices == Spec => []NeverFull
<1>1. Init => NeverFull
  BY DEF Init, NeverFull
<1>2. CInv /\ NeverFull /\ [Next]_vars => NeverFull'
  BY NoStepRaises
<1> QED  BY CInvariance, <1>1, <1>2, PTL DEF Spec
-----------------------------------------------------------------------------
(* Positions and pages *)

\* The page and the offset of the k-th of n tokens.
LEMMA PageOfToken ==
  ASSUME NEW n \in Nat, NEW k \in 1..n
  PROVE  /\ ((k - 1) \div PageSize) + 1 \in 1..PagesFor(n)
         /\ (k - 1) % PageSize \in 0..PageSize - 1
<1> DEFINE q == (k - 1) \div PageSize
           r == (k - 1) % PageSize
           m == PagesFor(n)
           u == (n + PageSize - 1) % PageSize
<1>1. k - 1 \in Nat /\ n + PageSize - 1 \in Nat
  OBVIOUS
<1>2. q \in Nat /\ r \in 0..PageSize - 1 /\ k - 1 = PageSize * q + r
  BY <1>1, Quotient
<1>3. m \in Nat /\ u \in 0..PageSize - 1 /\ n + PageSize - 1 = PageSize * m + u
  BY <1>1, Quotient DEF PagesFor
<1> HIDE DEF q, r, m, u
<1>4. ASSUME q >= m  PROVE FALSE
  <2>1. PageSize * q >= PageSize * m
    BY <1>2, <1>3, <1>4
  <2>2. PageSize * q \in Int /\ PageSize * m \in Int
    BY <1>2, <1>3
  <2> QED  BY <2>1, <2>2, <1>2, <1>3
<1>5. q + 1 \in 1..m
  BY <1>2, <1>3, <1>4
<1> QED  BY <1>2, <1>5 DEF q, r, m

\* Two tokens of a sequence have different places.
LEMMA PlaceOfToken ==
  ASSUME NEW j \in Nat, NEW k \in Nat,
         (j \div PageSize) + 1 = (k \div PageSize) + 1,
         j % PageSize = k % PageSize
  PROVE  j = k
<1>1. /\ j \div PageSize \in Nat /\ j = PageSize * (j \div PageSize) + (j % PageSize)
      /\ k \div PageSize \in Nat /\ k = PageSize * (k \div PageSize) + (k % PageSize)
  BY Quotient
<1>2. j \div PageSize = k \div PageSize
  BY <1>1
<1> QED  BY <1>1, <1>2

-----------------------------------------------------------------------------
(* Orders *)

\* Deleting a key keeps the others in order.
LEMMA RemoveKeepsOrder ==
  ASSUME NEW S, NEW p \in Seq(S), NEW k \in DOMAIN p,
         NEW i \in DOMAIN RemoveAt(p, k), NEW j \in DOMAIN RemoveAt(p, k), i < j
  PROVE  \E a, b \in DOMAIN p :
           a < b /\ p[a] = RemoveAt(p, k)[i] /\ p[b] = RemoveAt(p, k)[j]
<1> DEFINE h == SubSeq(p, 1, k - 1)
           t == SubSeq(p, k + 1, Len(p))
           at(x) == IF x < k THEN x ELSE x + 1
<1>1. Len(p) \in Nat /\ DOMAIN p = 1..Len(p) /\ k \in 1..Len(p)
  BY LenProperties
<1>2. \A x \in 1..Len(p) : p[x] \in S
  BY ElementOfSeq
<1>3. h \in Seq(S) /\ Len(h) = k - 1 /\ \A x \in 1..k - 1 : h[x] = p[x]
  <2>1. 1 \in Int /\ k - 1 \in Int /\ \A x \in 1..k - 1 : p[x] \in S
    BY <1>1, <1>2
  <2>2. /\ h \in Seq(S) /\ Len(h) = IF 1 <= k - 1 THEN k - 1 - 1 + 1 ELSE 0
        /\ \A x \in 1..k - 1 - 1 + 1 : h[x] = p[1 + x - 1]
    BY <2>1, SubSeqProperties
  <2> QED  BY <2>2, <1>1
<1>4. t \in Seq(S) /\ Len(t) = Len(p) - k /\ \A x \in 1..Len(p) - k : t[x] = p[k + x]
  <2>1. k + 1 \in Int /\ Len(p) \in Int /\ \A x \in k + 1..Len(p) : p[x] \in S
    BY <1>1, <1>2
  <2>2. /\ t \in Seq(S) /\ Len(t) = IF k + 1 <= Len(p) THEN Len(p) - (k + 1) + 1 ELSE 0
        /\ \A x \in 1..Len(p) - (k + 1) + 1 : t[x] = p[k + 1 + x - 1]
    BY <2>1, SubSeqProperties
  <2> QED  BY <2>2, <1>1
<1> HIDE DEF h, t
<1>5. RemoveAt(p, k) = h \o t
  BY DEF RemoveAt, h, t
<1>6. /\ h \o t \in Seq(S) /\ Len(h \o t) = Len(p) - 1
      /\ \A x \in 1..Len(p) - 1 : (h \o t)[x] = IF x <= Len(h) THEN h[x] ELSE t[x - Len(h)]
  <2>1. /\ h \o t \in Seq(S) /\ Len(h \o t) = Len(h) + Len(t)
        /\ \A x \in 1..Len(h) + Len(t) :
             (h \o t)[x] = IF x <= Len(h) THEN h[x] ELSE t[x - Len(h)]
    <3>1. h \in Seq(S) /\ t \in Seq(S)
      BY <1>3, <1>4
    <3> QED  BY <3>1, ConcatProperties
  <2>2. Len(h) + Len(t) = Len(p) - 1
    BY <1>1, <1>3, <1>4
  <2> QED  BY <2>1, <2>2
<1>7. DOMAIN (h \o t) = 1..Len(p) - 1
  BY <1>6, LenProperties
<1>8. ASSUME NEW x \in 1..Len(p) - 1
      PROVE  at(x) \in 1..Len(p) /\ (h \o t)[x] = p[at(x)]
  <2>1. CASE x < k
    BY <2>1, <1>1, <1>3, <1>6
  <2>2. CASE ~ (x < k)
    <3>1. x - (k - 1) \in 1..Len(p) - k /\ ~ (x <= Len(h)) /\ Len(h) = k - 1
      BY <2>2, <1>1, <1>3
    <3>2. t[x - (k - 1)] = p[k + (x - (k - 1))]
      BY <3>1, <1>4
    <3>3. (h \o t)[x] = t[x - (k - 1)]
      BY <3>1, <1>6
    <3>4. k + (x - (k - 1)) = x + 1 /\ x + 1 \in 1..Len(p)
      BY <1>1
    <3> QED  BY <3>2, <3>3, <3>4, <2>2
  <2> QED  BY <2>1, <2>2
<1>9. i \in 1..Len(p) - 1 /\ j \in 1..Len(p) - 1
  BY <1>5, <1>7
<1>10. at(i) < at(j)
  BY <1>1, <1>9
<1> HIDE DEF at
<1> QED  BY <1>1, <1>5, <1>8, <1>9, <1>10

-----------------------------------------------------------------------------
(* The invariant *)

\* What stays of the tracked sequences, followed by the new ones still to be
\* entered, has the order of the batch.
Ordered ==
  /\ \A i, j \in DOMAIN order :
       i < j /\ order[i] \in InBatch /\ order[j] \in InBatch => Before(batch.ids, order[i], order[j])
  /\ \A i, j \in DOMAIN todo.new : i < j => Before(batch.ids, todo.new[i], todo.new[j])
  /\ \A s \in Range(order) \cap InBatch, t \in Range(todo.new) : Before(batch.ids, s, t)

\* How the lengths of the manager and those of the caller are related.
Exact ==
  /\ \A s \in Seqs \ InBatch : fed[s] = <<>>
  /\ InBatch \subseteq Range(order) \cup Range(todo.new)
  /\ todo.finished \cap InBatch = {}
  /\ \A s \in todo.unfinished :
       s \in InBatch /\ batch.new[s] = 1 /\ seqlen[s] + 1 = Len(fed[s])
  /\ \A s \in Range(todo.new) : batch.new[s] = Len(fed[s])
  /\ \A s \in Range(order) \ (todo.finished \cup todo.unfinished) :
       seqlen[s] = Len(fed[s])

\* How many tokens of s layer l has stored.
Done(l, s) ==
  IF pc = "step" /\ l <= layer THEN Len(fed[s]) ELSE Len(fed[s]) - batch.new[s]

\* The k-th token of s in layer l, found through the pages of s.
Cell(l, s, k) ==
  cache[l][allocated[s][((k - 1) \div PageSize) + 1]][(k - 1) % PageSize]

Stored ==
  \A l \in Layers, s \in InBatch : \A k \in 1..Done(l, s) : Cell(l, s, k) = fed[s][k]

TableWritten == \A j \in 1..Len(order) : pageTable[j] = PageRow(order[j])

FInv ==
  /\ CInv
  /\ pc # "raised" => Ordered /\ Exact /\ Stored
  /\ pc = "step" => order = batch.ids /\ TableWritten

-----------------------------------------------------------------------------
(* pre_step *)

\* allocate_page only adds to the end of a page list.
LEMMA AllocateExtends ==
  ASSUME Inv, NEW s \in Seqs, NEW n \in Nat, Allocate(s, n)
  PROVE  \A t \in Seqs : \A x \in 1..Len(allocated[t]) : allocated'[t][x] = allocated[t][x]
<1> DEFINE got == IF n <= Len(free) THEN n ELSE Len(free)
           head == SubSeq(free, 1, got)
           old == allocated[s]
<1>1. /\ Len(free) \in Nat /\ allocated \in [Seqs -> Seq(Pages)] /\ free \in Seq(Pages)
      /\ old \in Seq(Pages)
  BY LenProperties DEF Inv, PagesTyped
<1>2. allocated' = [allocated EXCEPT ![s] = old \o head]
  BY DEF Allocate
<1>3. got \in 0..Len(free)
  BY <1>1
<1> HIDE DEF got
<1>4. head \in Seq(Pages)
  <2>1. \A i \in 1..got : free[i] \in Pages
    BY <1>1, <1>3, ElementOfSeq
  <2> QED  BY <2>1, <1>3, SubSeqProperties
<1> HIDE DEF head
<1>5. \A x \in 1..Len(old) : (old \o head)[x] = old[x]
  <2> HIDE DEF old, Pages
  <2>1. \A x \in 1..Len(old) + Len(head) :
          (old \o head)[x] = IF x <= Len(old) THEN old[x] ELSE head[x - Len(old)]
    BY <1>1, <1>4, ConcatProperties
  <2>2. Len(old) \in Nat /\ Len(head) \in Nat
    BY <1>1, <1>4, LenProperties
  <2> QED  BY <2>1, <2>2
<1>6. \A t \in Seqs : allocated'[t] = IF t = s THEN old \o head ELSE allocated[t]
  BY <1>1, <1>2
<1> QED  BY <1>5, <1>6

\* pre_step begins: the caches hold what was fed before.
LEMMA BeginFaithful ==
  ASSUME Serial, FInv, CInv', BeginStep
  PROVE  FInv'
<1> DEFINE ids == Range(batch'.ids)
<1>1. /\ pc = "step" /\ layer = NumLayers /\ pc' = "pre_step" /\ NextBatch
      /\ order' = order /\ seqlen' = seqlen /\ allocated' = allocated
      /\ cache' = cache /\ layer' = layer
  BY DEF BeginStep, manager
<1>2. PICK new \in NewOrders(batch'.ids, Unknown(ids)) :
        todo' = [finished |-> Range(order) \ ids,
                 unfinished |-> Range(order) \cap ids,
                 new |-> new]
  BY DEF BeginStep
<1>3. /\ TypeOK /\ RequestsTypeOK /\ Caller /\ Visits /\ Lengths
      /\ todo = NothingTodo /\ Ordered /\ Exact /\ Stored /\ order = batch.ids
  BY <1>1 DEF FInv, CInv, Working, Idle, TypeOK
<1>4. /\ \A s \in Seqs \ ids : fed'[s] = <<>>
      /\ \A s \in ids : /\ Len(fed'[s]) = Len(fed[s]) + batch'.new[s]
                        /\ \A k \in 1..Len(fed[s]) : fed'[s][k] = fed[s][k]
                        /\ s \in InBatch => batch'.new[s] \in DecodeLens
      /\ RequestsTypeOK'
  BY <1>1, <1>3, NextBatchFeeds
<1>5. PICK kept \in Seq(Seqs), late \in Seq(Seqs) :
        /\ batch'.ids = kept \o late
        /\ Range(kept) \subseteq InBatch
        /\ Range(late) \cap InBatch = {}
        /\ \A i, j \in DOMAIN kept : i < j => Before(batch.ids, kept[i], kept[j])
  BY <1>1, <1>3, NextBatchOrder
<1>6. /\ ids \subseteq Seqs /\ InBatch' = ids /\ Range(order) = InBatch
      /\ InBatch \subseteq Seqs
  BY <1>3, <1>4, RangeOfSeq DEF RequestsTypeOK, InBatch
<1>7. ids = Range(kept) \cup Range(late)
  BY <1>5, RangeConcatenation
<1> HIDE DEF ids
<1>8. Range(order) \cap ids = Range(kept) /\ Unknown(ids) = Range(late)
  BY <1>5, <1>6, <1>7 DEF Unknown
<1>9. new \in InOrderOf(batch'.ids, Unknown(ids))
  BY <1>2 DEF Serial, NewOrders
<1>10. /\ new \in SetToSeqs(Unknown(ids))
       /\ \A i, j \in DOMAIN new : i < j => Before(batch'.ids, new[i], new[j])
  BY <1>9 DEF InOrderOf, Before
<1>11. Range(new) = Range(late)
  <2>1. Unknown(ids) \in SUBSET Seqs
    BY <1>6 DEF Unknown
  <2> QED  BY <2>1, <1>8, <1>10, OrdersCover
<1>12. /\ todo'.finished = Range(order) \ ids
       /\ todo'.unfinished = Range(order) \cap ids /\ todo'.new = new
  BY <1>2
<1>13. \A s \in Range(kept), t \in Range(late) : Before(batch'.ids, s, t)
  <2> SUFFICES ASSUME NEW s \in Range(kept), NEW t \in Range(late)
               PROVE  Before(kept \o late, s, t)
    BY <1>5
  <2>1. kept \in Seq(Seqs) /\ late \in Seq(Seqs)
    BY <1>5
  <2> QED  BY <2>1, ConcatBefore
<1>14. ASSUME NEW i \in DOMAIN order, NEW j \in DOMAIN order, i < j,
              order[i] \in ids, order[j] \in ids
       PROVE  Before(batch'.ids, order[i], order[j])
  <2>1. order[i] \in Range(kept) /\ order[j] \in Range(kept)
    BY <1>8, <1>14 DEF Range
  <2>2. PICK a \in DOMAIN kept, b \in DOMAIN kept : kept[a] = order[i] /\ kept[b] = order[j]
    BY <2>1 DEF Range
  <2>3. order[i] # order[j] /\ IsInjective(batch.ids) /\ i \in Int /\ j \in Int
    <3>1. IsInjective(order) /\ order \in Seq(Seqs)
      BY <1>3 DEF RequestsTypeOK
    <3>2. i \in Int /\ j \in Int
      BY <3>1, LenProperties
    <3>3. i # j
      BY <3>2, <1>14
    <3> QED  BY <3>1, <3>2, <3>3, <1>3 DEF IsInjective
  <2>4. DOMAIN kept = 1..Len(kept) /\ Len(kept) \in Nat /\ Len(late) \in Nat
    BY <1>5, LenProperties
  <2>5. ~ (b < a)
    <3> SUFFICES ASSUME b < a  PROVE FALSE
      OBVIOUS
    <3>1. Before(batch.ids, order[j], order[i])
      BY <2>2, <1>5
    <3>2. PICK c \in DOMAIN batch.ids, d \in DOMAIN batch.ids :
            c < d /\ batch.ids[c] = order[j] /\ batch.ids[d] = order[i]
      BY <3>1 DEF Before
    <3>3. c = j /\ d = i
      BY <3>2, <1>3, <2>3 DEF IsInjective
    <3> QED  BY <3>2, <3>3, <1>14, <2>3
  <2>6. a < b
    BY <2>2, <2>3, <2>4, <2>5
  <2>7. /\ kept \o late \in Seq(Seqs) /\ Len(kept \o late) = Len(kept) + Len(late)
        /\ \A x \in 1..Len(kept) + Len(late) :
             (kept \o late)[x] = IF x <= Len(kept) THEN kept[x] ELSE late[x - Len(kept)]
    BY <1>5, ConcatProperties
  <2>8. DOMAIN (kept \o late) = 1..Len(kept) + Len(late)
    BY <2>7, LenProperties
  <2>9. /\ a \in DOMAIN batch'.ids /\ batch'.ids[a] = order[i]
        /\ b \in DOMAIN batch'.ids /\ batch'.ids[b] = order[j]
    BY <1>5, <2>2, <2>4, <2>7, <2>8
  <2> QED  BY <2>6, <2>9 DEF Before
<1>15. Ordered'
  <2>1. \A i, j \in DOMAIN order' :
          i < j /\ (order'[i] \in InBatch') /\ (order'[j] \in InBatch')
            => Before(batch'.ids, order[i], order[j])
    BY <1>1, <1>6, <1>14
  <2>2. \A s \in Range(order') \cap InBatch', t \in Range(todo'.new) : Before(batch'.ids, s, t)
    BY <1>1, <1>6, <1>8, <1>11, <1>12, <1>13
  <2> QED  BY <2>1, <2>2, <1>1, <1>10, <1>12 DEF Ordered
<1>16. ASSUME NEW s \in ids, s \in InBatch
       PROVE  batch'.new[s] = 1 /\ seqlen[s] + 1 = Len(fed'[s])
  <2>1. batch'.new[s] = 1
    BY <1>4, <1>16 DEF Serial
  <2>2. seqlen[s] = Len(fed[s])
    BY <1>3, <1>6, <1>16 DEF Exact, NothingTodo
  <2> QED  BY <2>1, <2>2, <1>4
<1>17. ASSUME NEW s \in ids, s \notin InBatch
       PROVE  batch'.new[s] = Len(fed'[s])
  <2>1. Len(fed[s]) = 0
    <3>1. fed[s] = <<>>
      BY <1>3, <1>6, <1>17 DEF Exact
    <3> QED  BY <3>1, EmptySeq
  <2>2. batch'.new[s] \in Nat
    BY <1>4, <1>6 DEF RequestsTypeOK
  <2> QED  BY <2>1, <2>2, <1>4
<1>18. Exact'
  <2>1. \A s \in todo'.unfinished :
          s \in InBatch' /\ batch'.new[s] = 1 /\ seqlen'[s] + 1 = Len(fed'[s])
    BY <1>1, <1>6, <1>12, <1>16
  <2>2. \A s \in Range(todo'.new) : batch'.new[s] = Len(fed'[s])
    BY <1>5, <1>7, <1>11, <1>12, <1>17
  <2>3. InBatch' \subseteq Range(order') \cup Range(todo'.new)
    BY <1>1, <1>6, <1>7, <1>8, <1>11, <1>12
  <2>4. Range(order') \ (todo'.finished \cup todo'.unfinished) = {}
    BY <1>1, <1>12
  <2> QED  BY <2>1, <2>2, <2>3, <2>4, <1>4, <1>6, <1>12 DEF Exact
<1>19. ASSUME NEW l \in Layers, NEW s \in ids, NEW k \in 1..(Len(fed'[s]) - batch'.new[s])
       PROVE  Cell(l, s, k)' = fed'[s][k]
  <2>1. Len(fed[s]) \in Nat /\ batch'.new[s] \in Nat
    BY <1>3, <1>4, <1>6, LenProperties DEF RequestsTypeOK
  <2>2. k \in 1..Len(fed[s])
    BY <2>1, <1>4
  <2>3. s \in InBatch
    <3> SUFFICES ASSUME s \notin InBatch  PROVE FALSE
      OBVIOUS
    <3>1. fed[s] = <<>>
      BY <1>3, <1>6 DEF Exact
    <3> QED  BY <3>1, <2>2, EmptySeq
  <2>4. Done(l, s) = Len(fed[s])
    BY <1>1 DEF Done, Layers
  <2>5. Cell(l, s, k) = fed[s][k]
    BY <2>2, <2>3, <2>4, <1>3 DEF Stored
  <2> QED  BY <2>2, <2>5, <1>1, <1>4 DEF Cell
<1>20. Stored'
  BY <1>1, <1>6, <1>19 DEF Stored, Done
<1> QED  BY <1>1, <1>15, <1>18, <1>20 DEF FInv

\* What the layers have stored of a sequence is within the length the manager
\* has counted.
LEMMA StoredBehind ==
  ASSUME FInv, pc = "pre_step", NEW t \in InBatch
  PROVE  Len(fed[t]) - batch.new[t] = 0 \/ Len(fed[t]) - batch.new[t] <= seqlen[t]
<1>1. RequestsTypeOK /\ TypeOK /\ Exact
  BY DEF FInv, CInv, TypeOK
<1>2. /\ t \in Seqs /\ Len(fed[t]) \in Nat /\ batch.new[t] \in Nat /\ seqlen[t] \in Nat
  BY <1>1, RangeOfSeq, LenProperties DEF TypeOK, RequestsTypeOK, InBatch
<1>3. CASE t \in Range(todo.new)
  BY <1>1, <1>2, <1>3 DEF Exact
<1>4. CASE t \in todo.unfinished
  BY <1>1, <1>2, <1>4 DEF Exact
<1>5. CASE t \notin Range(todo.new) /\ t \notin todo.unfinished
  BY <1>1, <1>2, <1>5 DEF Exact
<1> QED  BY <1>3, <1>4, <1>5

\* What is stored of a sequence stays while pre_step changes the page lists of
\* others, or adds to its own.
LEMMA StoredKept ==
  ASSUME FInv, pc = "pre_step", pc' \in {"pre_step", "raised"},
         batch' = batch, fed' = fed, cache' = cache, NEW T \in SUBSET Seqs,
         \A s \in T : /\ allocated'[s] \in Seq(Pages)
                      /\ \A x \in 1..Len(allocated[s]) : allocated'[s][x] = allocated[s][x],
         \A s \in InBatch \ T : Len(fed[s]) - batch.new[s] = 0,
         \A s \in InBatch \cap T : Len(fed[s]) - batch.new[s] <= seqlen[s]
  PROVE  Stored'
<1>1. Stored /\ Covered /\ TypeOK /\ RequestsTypeOK
  BY DEF FInv, CInv, Working, TypeOK
<1>2. InBatch \subseteq Seqs
  BY <1>1, RangeOfSeq DEF RequestsTypeOK, InBatch
<1> SUFFICES ASSUME NEW l \in Layers, NEW s \in InBatch,
                    NEW k \in 1..(Len(fed[s]) - batch.new[s])
             PROVE  Cell(l, s, k)' = fed[s][k]
  BY DEF Stored, Done, InBatch
<1>3. s \in T
  BY DEF InBatch
<1>4. seqlen[s] \in Nat /\ Len(fed[s]) - batch.new[s] \in Int
  BY <1>1, <1>2, LenProperties DEF TypeOK, RequestsTypeOK
<1>5. k \in 1..seqlen[s]
  BY <1>3, <1>4
<1>6. ((k - 1) \div PageSize) + 1 \in 1..Len(allocated[s])
  BY <1>1, <1>2, <1>4, <1>5, PageOfToken DEF Covered
<1>7. allocated'[s][((k - 1) \div PageSize) + 1] = allocated[s][((k - 1) \div PageSize) + 1]
  BY <1>3, <1>6
<1>8. Cell(l, s, k)' = Cell(l, s, k)
  BY <1>7 DEF Cell
<1>9. Cell(l, s, k) = fed[s][k]
  BY <1>1 DEF Stored, Done
<1> QED  BY <1>8, <1>9

\* A finished sequence is none of the batch.
LEMMA FinishFaithful ==
  ASSUME Serial, FInv, CInv', NEW s \in Seqs, Finish(s)
  PROVE  FInv'
<1>1. /\ pc = "pre_step" /\ pc' = pc /\ s \in todo.finished
      /\ order' = RemoveAt(order, Place(s))
      /\ seqlen' = [seqlen EXCEPT ![s] = 0]
      /\ allocated' = [allocated EXCEPT ![s] = <<>>]
      /\ todo' = [todo EXCEPT !.finished = @ \ {s}]
      /\ batch' = batch /\ fed' = fed /\ cache' = cache
  BY DEF Finish, requests
<1>2. /\ TypeOK /\ RequestsTypeOK /\ Visits /\ Lengths /\ Ordered /\ Exact /\ Stored
  BY <1>1 DEF FInv, CInv, Working, TypeOK
<1>3. /\ order \in Seq(Seqs) /\ IsInjective(order)
      /\ seqlen \in [Seqs -> 0..MaxLen] /\ allocated \in [Seqs -> Seq(Pages)]
      /\ todo \in [finished : SUBSET Seqs, unfinished : SUBSET Seqs, new : Seq(Seqs)]
  BY <1>2 DEF TypeOK
<1>4. Place(s) \in DOMAIN order /\ order[Place(s)] = s
  <2>1. \E i \in DOMAIN order : order[i] = s
    BY <1>1, <1>2 DEF Visits, Range
  <2> QED  BY <2>1 DEF Place
<1>5. Range(order') = Range(order) \ {s}
  BY <1>1, <1>3, <1>4, RemoveOne
<1>6. InBatch' = InBatch /\ s \notin InBatch
  BY <1>1, <1>2 DEF InBatch, Exact
<1>7. /\ todo'.finished = todo.finished \ {s}
      /\ todo'.unfinished = todo.unfinished /\ todo'.new = todo.new
  BY <1>1, <1>3
<1>8. Ordered'
  <2>1. ASSUME NEW i \in DOMAIN order', NEW j \in DOMAIN order', i < j,
               order'[i] \in InBatch, order'[j] \in InBatch
        PROVE  Before(batch.ids, order'[i], order'[j])
    <3>1. PICK a \in DOMAIN order, b \in DOMAIN order :
            a < b /\ order[a] = order'[i] /\ order[b] = order'[j]
      BY <2>1, <1>1, <1>3, <1>4, RemoveKeepsOrder
    <3> QED  BY <3>1, <2>1, <1>2 DEF Ordered
  <2> QED  BY <2>1, <1>1, <1>2, <1>5, <1>6, <1>7 DEF Ordered
<1>9. seqlen'[s] = 0 /\ \A t \in Seqs \ {s} : seqlen'[t] = seqlen[t]
  BY <1>1, <1>3
<1>10. Exact'
  <2>1. InBatch' \subseteq Range(order') \cup Range(todo'.new)
    BY <1>2, <1>5, <1>6, <1>7 DEF Exact
  <2>2. \A t \in todo'.unfinished : t \in InBatch' /\ t # s /\ t \in Seqs
    BY <1>2, <1>3, <1>6, <1>7 DEF Exact
  <2>3. \A t \in todo'.unfinished :
          t \in InBatch' /\ batch'.new[t] = 1 /\ seqlen'[t] + 1 = Len(fed'[t])
    BY <2>2, <1>1, <1>2, <1>7, <1>9 DEF Exact
  <2>4. \A t \in Range(order') \ (todo'.finished \cup todo'.unfinished) :
          t \in Range(order) \ (todo.finished \cup todo.unfinished) /\ t # s /\ t \in Seqs
    BY <1>3, <1>5, <1>7, RangeOfSeq
  <2>5. \A t \in Range(order') \ (todo'.finished \cup todo'.unfinished) :
          seqlen'[t] = Len(fed'[t])
    BY <2>4, <1>1, <1>2, <1>9 DEF Exact
  <2> QED  BY <2>1, <2>3, <2>5, <1>1, <1>2, <1>6, <1>7 DEF Exact
<1>11. Stored'
  <2> DEFINE T == {t \in Seqs \ {s} : ~ (Len(fed[t]) - batch.new[t] = 0)}
  <2>1. \A t \in T : /\ allocated'[t] \in Seq(Pages)
                     /\ \A x \in 1..Len(allocated[t]) : allocated'[t][x] = allocated[t][x]
    BY <1>1, <1>3
  <2>2. InBatch \subseteq Seqs
    BY <1>2, RangeOfSeq DEF RequestsTypeOK, InBatch
  <2>3. \A t \in InBatch \ T : Len(fed[t]) - batch.new[t] = 0
    BY <1>6, <2>2
  <2>4. \A t \in InBatch \cap T : Len(fed[t]) - batch.new[t] <= seqlen[t]
    BY <1>1, StoredBehind
  <2>5. T \in SUBSET Seqs
    OBVIOUS
  <2> HIDE DEF T
  <2> QED  BY <2>1, <2>3, <2>4, <2>5, <1>1, StoredKept
<1> QED  BY <1>1, <1>8, <1>10, <1>11 DEF FInv

\* allocate_page leaves what is stored where it is.
LEMMA AllocateStored ==
  ASSUME FInv, Inv', pc = "pre_step", pc' \in {"pre_step", "raised"},
         batch' = batch, fed' = fed, cache' = cache,
         NEW s \in Seqs, NEW n \in Nat, Allocate(s, n)
  PROVE  Stored'
<1> DEFINE T == {t \in Seqs : ~ (Len(fed[t]) - batch.new[t] = 0)}
<1>1. Inv /\ InBatch \subseteq Seqs
  BY RangeOfSeq DEF FInv, CInv, TypeOK, RequestsTypeOK, InBatch
<1>2. \A t \in T : /\ allocated'[t] \in Seq(Pages)
                   /\ \A x \in 1..Len(allocated[t]) : allocated'[t][x] = allocated[t][x]
  <2>1. \A t \in Seqs : allocated'[t] \in Seq(Pages)
    BY DEF Inv, PagesTyped
  <2> QED  BY <2>1, <1>1, AllocateExtends
<1>3. \A t \in InBatch \ T : Len(fed[t]) - batch.new[t] = 0
  BY <1>1
<1>4. \A t \in InBatch \cap T : Len(fed[t]) - batch.new[t] <= seqlen[t]
  BY StoredBehind
<1>5. T \in SUBSET Seqs
  OBVIOUS
<1> HIDE DEF T
<1> QED  BY <1>2, <1>3, <1>4, <1>5, StoredKept

\* An unfinished sequence catches up with the caller.
LEMMA AdvanceFaithful ==
  ASSUME Serial, FInv, CInv', NEW s \in Seqs, Advance(s)
  PROVE  FInv'
<1> DEFINE n == IF NeedsPage(s) THEN 1 ELSE 0
<1>1. /\ pc = "pre_step" /\ s \in todo.unfinished /\ Allocate(s, n)
      /\ seqlen' = IF pc' = "raised" THEN seqlen ELSE [seqlen EXCEPT ![s] = @ + 1]
      /\ todo' = [todo EXCEPT !.unfinished = @ \ {s}]
      /\ batch' = batch /\ fed' = fed /\ cache' = cache /\ order' = order
  BY DEF Advance, requests
<1>2. n \in Nat
  OBVIOUS
<1> HIDE DEF n
<1>3. /\ TypeOK /\ RequestsTypeOK /\ Visits /\ Ordered /\ Exact
      /\ seqlen \in [Seqs -> 0..MaxLen] /\ order \in Seq(Seqs)
      /\ todo \in [finished : SUBSET Seqs, unfinished : SUBSET Seqs, new : Seq(Seqs)]
  BY <1>1 DEF FInv, CInv, Working, TypeOK
<1>4. pc' \in {"pre_step", "raised"}
  BY <1>1 DEF Allocate
<1>5. /\ todo'.unfinished = todo.unfinished \ {s}
      /\ todo'.finished = todo.finished /\ todo'.new = todo.new
      /\ InBatch' = InBatch
  BY <1>1, <1>3 DEF InBatch
<1>6. Ordered'
  BY <1>1, <1>3, <1>5 DEF Ordered
<1>7. ASSUME pc' # "raised"  PROVE Exact'
  <2>1. seqlen'[s] = seqlen[s] + 1 /\ \A t \in Seqs \ {s} : seqlen'[t] = seqlen[t]
    BY <1>1, <1>3, <1>7
  <2>2. \A t \in todo'.unfinished : t \in Seqs \ {s} /\ t \in todo.unfinished
    BY <1>3, <1>5
  <2>3. \A t \in todo'.unfinished :
          t \in InBatch' /\ batch'.new[t] = 1 /\ seqlen'[t] + 1 = Len(fed'[t])
    BY <2>1, <2>2, <1>1, <1>3, <1>5 DEF Exact
  <2>4. ASSUME NEW t \in Range(order') \ (todo'.finished \cup todo'.unfinished)
        PROVE  seqlen'[t] = Len(fed'[t])
    <3>1. CASE t = s
      BY <3>1, <2>1, <1>1, <1>3 DEF Exact
    <3>2. CASE t # s
      <4>1. t \in Range(order) \ (todo.finished \cup todo.unfinished) /\ t \in Seqs
        BY <3>2, <2>4, <1>1, <1>3, <1>5, RangeOfSeq
      <4> QED  BY <4>1, <3>2, <2>1, <1>1, <1>3 DEF Exact
    <3> QED  BY <3>1, <3>2
  <2> QED  BY <2>3, <2>4, <1>1, <1>3, <1>5 DEF Exact
<1>8. Stored'
  <2>1. Inv'
    BY DEF CInv
  <2> QED  BY <2>1, <1>1, <1>2, <1>4, AllocateStored
<1> QED  BY <1>4, <1>6, <1>7, <1>8 DEF FInv

\* A new sequence takes its place behind the tracked ones.
LEMMA AdmitFaithful ==
  ASSUME Serial, FInv, CInv', NEW s \in Seqs, Admit(s)
  PROVE  FInv'
<1> DEFINE n == PagesFor(batch.new[s])
<1>1. /\ pc = "pre_step" /\ todo.finished = {} /\ todo.unfinished = {}
      /\ todo.new # <<>> /\ s = Head(todo.new) /\ Allocate(s, n)
      /\ order' = Append(order, s)
      /\ seqlen' = [seqlen EXCEPT ![s] = batch.new[s]]
      /\ todo' = [todo EXCEPT !.new = Tail(@)]
      /\ batch' = batch /\ fed' = fed /\ cache' = cache
  BY DEF Admit, requests
<1>2. /\ CInv /\ TypeOK /\ RequestsTypeOK /\ Visits /\ Ordered /\ Exact
      /\ seqlen \in [Seqs -> 0..MaxLen] /\ order \in Seq(Seqs) /\ IsInjective(order)
      /\ todo \in [finished : SUBSET Seqs, unfinished : SUBSET Seqs, new : Seq(Seqs)]
  BY <1>1 DEF FInv, CInv, Working, TypeOK
<1>3. n \in Nat /\ s \notin Range(order) /\ s \in Range(todo.new) /\ s \in InBatch
  BY <1>2, AdmitFits
<1> HIDE DEF n
<1>4. pc' \in {"pre_step", "raised"}
  BY <1>1 DEF Allocate
<1>5. /\ order' \in Seq(Seqs) /\ Range(order') = Range(order) \cup {s}
      /\ Len(order') = Len(order) + 1 /\ order'[Len(order) + 1] = s
      /\ \A i \in 1..Len(order) : order'[i] = order[i]
  BY <1>1, <1>2, <1>3, AppendOne, AppendProperties, SMTT(60)
<1>6. /\ todo'.unfinished = {} /\ todo'.finished = {} /\ todo'.new = Tail(todo.new)
      /\ InBatch' = InBatch
  BY <1>1, <1>2 DEF InBatch
<1> DEFINE p == todo.new
<1>7. /\ p \in Seq(Seqs) /\ IsInjective(p) /\ p # <<>> /\ s = Head(p)
      /\ \A i, j \in DOMAIN p : i < j => Before(batch.ids, p[i], p[j])
      /\ \A t \in Range(order) \cap InBatch, u \in Range(p) : Before(batch.ids, t, u)
  BY <1>1, <1>2 DEF Visits, Ordered
<1> HIDE DEF p
<1>8. /\ Tail(p) \in Seq(Seqs) /\ Range(Tail(p)) = Range(p) \ {s}
      /\ Len(Tail(p)) = Len(p) - 1 /\ \A i \in 1..Len(Tail(p)) : Tail(p)[i] = p[i + 1]
  BY <1>7, TailOne, HeadTailProperties
<1>9. Len(p) \in Nat \ {0} /\ DOMAIN p = 1..Len(p) /\ p[1] = s
      /\ DOMAIN Tail(p) = 1..Len(p) - 1
  BY <1>7, <1>8, EmptySeq, LenProperties
<1>10. Ordered'
  <2>1. ASSUME NEW i \in DOMAIN order', NEW j \in DOMAIN order', i < j,
               order'[i] \in InBatch, order'[j] \in InBatch
        PROVE  Before(batch.ids, order'[i], order'[j])
    <3>1. /\ DOMAIN order = 1..Len(order) /\ Len(order) \in Nat
          /\ DOMAIN order' = 1..Len(order) + 1
      BY <1>2, <1>5, LenProperties
    <3>2. i \in DOMAIN order /\ order'[i] = order[i]
      BY <3>1, <2>1, <1>5
    <3>3. CASE j \in DOMAIN order
      <4>1. order'[j] = order[j]
        BY <3>1, <3>3, <1>5
      <4> QED  BY <4>1, <3>2, <3>3, <2>1, <1>2 DEF Ordered
    <3>4. CASE j \notin DOMAIN order
      <4>1. order'[j] = s
        BY <3>1, <3>4, <1>5
      <4>2. order[i] \in Range(order) \cap InBatch
        BY <3>2, <2>1 DEF Range
      <4>3. s \in Range(p)
        BY <1>3 DEF p
      <4> QED  BY <4>1, <4>2, <4>3, <3>2, <1>7
    <3> QED  BY <3>3, <3>4
  <2>2. ASSUME NEW i \in DOMAIN Tail(p), NEW j \in DOMAIN Tail(p), i < j
        PROVE  Before(batch.ids, Tail(p)[i], Tail(p)[j])
    <3>1. /\ i + 1 \in DOMAIN p /\ j + 1 \in DOMAIN p /\ i + 1 < j + 1
          /\ Tail(p)[i] = p[i + 1] /\ Tail(p)[j] = p[j + 1]
      BY <2>2, <1>8, <1>9
    <3> QED  BY <3>1, <1>7
  <2>3. ASSUME NEW t \in Range(order') \cap InBatch, NEW u \in Range(Tail(p))
        PROVE  Before(batch.ids, t, u)
    <3>1. u \in Range(p)
      BY <1>8
    <3>2. CASE t = s
      <4>1. PICK i \in 1..Len(p) - 1 : Tail(p)[i] = u
        BY <1>9 DEF Range
      <4>2. i + 1 \in DOMAIN p /\ 1 \in DOMAIN p /\ 1 < i + 1 /\ p[i + 1] = u
        BY <4>1, <1>8, <1>9
      <4>3. Before(batch.ids, p[1], p[i + 1])
        BY <4>2, <1>7
      <4> QED  BY <4>2, <4>3, <3>2, <1>9
    <3>3. CASE t # s
      BY <3>1, <3>3, <1>5, <1>7
    <3> QED  BY <3>2, <3>3
  <2>4. todo'.new = Tail(p) /\ batch' = batch /\ InBatch' = InBatch
    BY <1>1, <1>6 DEF p
  <2> QED  BY <2>1, <2>2, <2>3, <2>4 DEF Ordered
<1>11. Exact'
  <2>1. seqlen'[s] = batch.new[s] /\ \A t \in Seqs \ {s} : seqlen'[t] = seqlen[t]
    BY <1>1, <1>2
  <2>2. batch.new[s] = Len(fed[s])
    BY <1>2, <1>3 DEF Exact
  <2>3. InBatch' \subseteq Range(order') \cup Range(todo'.new)
    BY <1>2, <1>5, <1>6, <1>8 DEF Exact, p
  <2>4. \A t \in Range(todo'.new) : batch'.new[t] = Len(fed'[t])
    BY <1>1, <1>2, <1>6, <1>8 DEF Exact, p
  <2>5. ASSUME NEW t \in Range(order')  PROVE seqlen'[t] = Len(fed'[t])
    <3>1. CASE t = s
      BY <3>1, <2>1, <2>2, <1>1
    <3>2. CASE t # s
      <4>1. t \in Range(order) /\ t \in Seqs
        BY <3>2, <1>2, <1>5, RangeOfSeq
      <4>2. t \in Range(order) \ (todo.finished \cup todo.unfinished)
        BY <4>1, <1>1
      <4> QED  BY <4>1, <4>2, <3>2, <2>1, <1>1, <1>2 DEF Exact
    <3> QED  BY <3>1, <3>2
  <2> QED  BY <2>3, <2>4, <2>5, <1>1, <1>2, <1>6 DEF Exact
<1>12. Stored'
  <2>1. Inv'
    BY DEF CInv
  <2> QED  BY <2>1, <1>1, <1>3, <1>4, AllocateStored
<1> QED  BY <1>4, <1>10, <1>11, <1>12 DEF FInv

\* With nothing left to visit the tracked sequences are the batch, in its order.
LEMMA FillFaithful ==
  ASSUME Serial, FInv, CInv', FillPageTable
  PROVE  FInv'
<1>1. /\ pc = "pre_step" /\ todo = NothingTodo /\ pc' = "step" /\ layer' = 0
      /\ pageTable' = [j \in 1..MaxBatch |->
           IF j <= Len(order) THEN PageRow(order[j]) ELSE pageTable[j]]
      /\ batch' = batch /\ fed' = fed /\ order' = order /\ seqlen' = seqlen
      /\ allocated' = allocated /\ cache' = cache /\ todo' = todo
  BY DEF FillPageTable, requests
<1>2. /\ TypeOK /\ RequestsTypeOK /\ Visits /\ Ordered /\ Exact /\ Stored
  BY <1>1 DEF FInv, CInv, Working, TypeOK
<1>3. /\ order \in Seq(Seqs) /\ IsInjective(order)
      /\ batch.ids \in Seq(Seqs) /\ IsInjective(batch.ids) /\ Len(batch.ids) <= MaxBatch
  BY <1>2 DEF TypeOK, RequestsTypeOK
<1>4. Range(order) = InBatch
  <2>1. todo.finished = {} /\ Range(todo.new) = {}
    BY <1>1, FreshManager DEF NothingTodo
  <2> QED  BY <2>1, <1>2 DEF Visits, Exact
<1>5. order = batch.ids
  <2>1. Range(order) = Range(batch.ids)
    BY <1>4 DEF InBatch
  <2>2. \A i, j \in DOMAIN order :
          i < j => \E a, b \in DOMAIN batch.ids :
                     a < b /\ batch.ids[a] = order[i] /\ batch.ids[b] = order[j]
    <3>1. \A i \in DOMAIN order : order[i] \in InBatch
      BY <1>4 DEF Range
    <3> QED  BY <3>1, <1>2 DEF Ordered, Before
  <2> QED  BY <2>1, <2>2, <1>3, SameOrder
<1>6. TableWritten'
  <2>1. Len(order) \in Nat /\ Len(order) <= MaxBatch
    BY <1>3, <1>5, LenProperties
  <2>2. ASSUME NEW j \in 1..Len(order)  PROVE pageTable'[j] = PageRow(order[j])
    BY <2>1, <1>1
  <2>3. \A j \in 1..Len(order) : PageRow(order[j])' = PageRow(order[j])
    BY <1>1 DEF PageRow
  <2> QED  BY <2>2, <2>3, <1>1 DEF TableWritten
<1>7. Ordered' /\ Exact'
  BY <1>1, <1>2 DEF Ordered, Exact, InBatch
<1>8. Stored'
  <2>1. \A l \in Layers, s \in InBatch : Done(l, s)' = Done(l, s)
    BY <1>1 DEF Done, Layers
  <2> QED  BY <2>1, <1>1, <1>2 DEF Stored, Cell, InBatch
<1> QED  BY <1>1, <1>5, <1>6, <1>7, <1>8 DEF FInv

-----------------------------------------------------------------------------
(* step *)

\* The place of the k-th token of row j between two iterations of pre_step.
LEMMA RowPlace ==
  ASSUME FInv, pc = "step", NEW j \in 1..Len(batch.ids),
         NEW k \in 1..Len(fed[batch.ids[j]])
  PROVE  LET s == batch.ids[j]
             x == ((k - 1) \div PageSize) + 1
         IN /\ s \in Seqs /\ s \in InBatch /\ order[j] = s
            /\ Len(fed[s]) \in Nat /\ CachedLen(j) = Len(fed[s])
            /\ batch.new[s] \in Nat /\ batch.new[s] <= Len(fed[s])
            /\ Len(fed[s]) <= MaxLen
            /\ x \in 1..Len(allocated[s]) /\ x \in Nat
            /\ DOMAIN allocated[s] = 1..Len(allocated[s])
            /\ allocated[s][x] \in Pages
            /\ (k - 1) % PageSize \in 0..PageSize - 1
            /\ Slot(j, k - 1) = <<allocated[s][x], (k - 1) % PageSize>>
<1> DEFINE s == batch.ids[j]
           x == ((k - 1) \div PageSize) + 1
<1>1. /\ TypeOK /\ RequestsTypeOK /\ Caller /\ Covered /\ Exact /\ Visits
      /\ todo = NothingTodo /\ order = batch.ids /\ TableWritten
  BY DEF FInv, CInv, Working, Idle, TypeOK
<1>2. /\ batch.ids \in Seq(Seqs) /\ batch.new \in [Seqs -> 0..MaxLen]
      /\ fed \in [Seqs -> Seq(Token)] /\ allocated \in [Seqs -> Seq(Pages)]
      /\ seqlen \in [Seqs -> 0..MaxLen]
  BY <1>1 DEF TypeOK, RequestsTypeOK
<1>3. s \in Seqs /\ s \in InBatch /\ s \in Range(order) /\ order[j] = s
  <2>1. j \in DOMAIN batch.ids
    BY <1>2, LenProperties
  <2>2. s \in Seqs
    BY <1>2, ElementOfSeq
  <2>3. s \in Range(batch.ids)
    BY <2>1 DEF Range
  <2> QED  BY <2>2, <2>3, <1>1 DEF InBatch
<1> HIDE DEF s
<1>4. s \notin todo.finished \cup todo.unfinished
  BY <1>1 DEF NothingTodo
<1>5. seqlen[s] = Len(fed[s]) /\ Len(fed[s]) \in Nat
  BY <1>1, <1>2, <1>3, <1>4, LenProperties DEF Exact
<1>6. batch.new[s] \in Nat /\ batch.new[s] <= Len(fed[s]) /\ Len(fed[s]) <= MaxLen
  <2>1. batch.new[s] \in 0..MaxLen
    BY <1>2, <1>3
  <2>2. batch.new[s] <= Len(fed[s]) /\ Len(fed[s]) <= MaxLen
    BY <1>1, <1>3 DEF Caller
  <2> QED  BY <2>1, <2>2
<1>7. x \in 1..PagesFor(Len(fed[s])) /\ (k - 1) % PageSize \in 0..PageSize - 1
  BY <1>5, PageOfToken DEF s
<1> HIDE DEF x
<1>8. Len(allocated[s]) = PagesFor(Len(fed[s]))
  BY <1>1, <1>3, <1>5 DEF Covered
<1>9. /\ x \in 1..Len(allocated[s]) /\ x \in Nat
      /\ DOMAIN allocated[s] = 1..Len(allocated[s]) /\ Len(allocated[s]) \in Nat
  BY <1>2, <1>3, <1>7, <1>8, LenProperties
<1>10. allocated[s][x] \in Pages
  <2> HIDE DEF Pages
  <2>1. allocated[s] \in Seq(Pages)
    BY <1>2, <1>3
  <2> QED  BY <2>1, <1>9, ElementOfSeq
<1>11. x \in 1..MaxPages
  <2>1. PagesFor(Len(fed[s])) \in 0..MaxPages /\ MaxPages \in Nat
    BY <1>5, <1>6, PagesForBound
  <2> QED  BY <2>1, <1>8, <1>9
<1>12. pageTable[j][x] = allocated[s][x]
  <2>1. pageTable[j] = PageRow(s)
    BY <1>1, <1>3 DEF TableWritten
  <2>2. x <= Len(allocated[s])
    BY <1>9
  <2> QED  BY <2>1, <2>2, <1>11 DEF PageRow
<1>13. Slot(j, k - 1) = <<allocated[s][x], (k - 1) % PageSize>>
  BY <1>12 DEF Slot, x
<1>14. CachedLen(j) = Len(fed[s])
  BY <1>3, <1>5 DEF CachedLen
<1> QED  BY <1>3, <1>5, <1>6, <1>7, <1>9, <1>10, <1>13, <1>14 DEF s, x

\* Different tokens of the batch have different places.
LEMMA SlotsDiffer ==
  ASSUME FInv, pc = "step",
         NEW i \in 1..Len(batch.ids), NEW h \in 1..Len(fed[batch.ids[i]]),
         NEW j \in 1..Len(batch.ids), NEW k \in 1..Len(fed[batch.ids[j]]),
         Slot(i, h - 1) = Slot(j, k - 1)
  PROVE  i = j /\ h = k
<1> DEFINE s == batch.ids[i]
           t == batch.ids[j]
           x == ((h - 1) \div PageSize) + 1
           y == ((k - 1) \div PageSize) + 1
<1>1. /\ s \in Seqs /\ t \in Seqs /\ Len(fed[s]) \in Nat /\ Len(fed[t]) \in Nat
      /\ x \in DOMAIN allocated[s] /\ y \in DOMAIN allocated[t]
      /\ allocated[s][x] = allocated[t][y]
      /\ (h - 1) % PageSize = (k - 1) % PageSize
  <2>1. /\ s \in Seqs /\ Len(fed[s]) \in Nat /\ x \in DOMAIN allocated[s]
        /\ Slot(i, h - 1) = <<allocated[s][x], (h - 1) % PageSize>>
    BY RowPlace, ZenonT(60)
  <2>2. /\ t \in Seqs /\ Len(fed[t]) \in Nat /\ y \in DOMAIN allocated[t]
        /\ Slot(j, k - 1) = <<allocated[t][y], (k - 1) % PageSize>>
    BY RowPlace, ZenonT(60)
  <2> HIDE DEF s, t, x, y
  <2> QED  BY <2>1, <2>2
<1>2. PagePartition /\ IsInjective(batch.ids) /\ batch.ids \in Seq(Seqs)
  BY DEF FInv, CInv, Inv, TypeOK, RequestsTypeOK
<1> HIDE DEF x, y
<1>3. s = t
  <2> SUFFICES ASSUME s # t  PROVE FALSE
    OBVIOUS
  <2>1. allocated[s][x] \in Range(allocated[s]) /\ allocated[t][y] \in Range(allocated[t])
    BY <1>1 DEF Range
  <2>2. Range(allocated[s]) \cap Range(allocated[t]) = {}
    BY <1>1, <1>2 DEF PagePartition
  <2> QED  BY <2>1, <2>2, <1>1
<1>4. i = j
  <2>1. i \in DOMAIN batch.ids /\ j \in DOMAIN batch.ids
    BY <1>2, LenProperties
  <2> QED  BY <2>1, <1>2, <1>3 DEF IsInjective
<1>5. x = y
  <2>1. IsInjective(allocated[s])
    BY <1>1, <1>2 DEF PagePartition
  <2> QED  BY <2>1, <1>1, <1>3 DEF IsInjective
<1>6. h - 1 = k - 1
  <2>1. h - 1 \in Nat /\ k - 1 \in Nat
    BY <1>1
  <2> QED  BY <2>1, <1>1, <1>5, PlaceOfToken DEF x, y
<1>7. h \in Int /\ k \in Int
  BY <1>1
<1> QED  BY <1>4, <1>6, <1>7

\* The copy kernel writes the new tokens behind the stored ones.
LEMMA StepFaithful ==
  ASSUME Serial, FInv, CInv', Step
  PROVE  FInv'
<1> DEFINE here(p, o) == {t \in NewTokens : Slot(t[1], Position(t[1], t[2])) = <<p, o>>}
           cell(p, o) == IF here(p, o) = {} THEN cache[layer + 1][p][o]
                         ELSE LET t == CHOOSE t \in here(p, o) : TRUE
                              IN NewToken(t[1], t[2])
<1>1. /\ pc = "step" /\ pc' = pc /\ layer < NumLayers /\ layer' = layer + 1
      /\ cache' = [cache EXCEPT ![layer + 1] =
                     [p \in Pages |-> [o \in 0..PageSize - 1 |-> cell(p, o)]]]
      /\ batch' = batch /\ fed' = fed /\ order' = order /\ seqlen' = seqlen
      /\ allocated' = allocated /\ pageTable' = pageTable /\ todo' = todo
  BY DEF Step, requests, manager
<1>2. /\ TypeOK /\ RequestsTypeOK /\ Ordered /\ Exact /\ Stored /\ TableWritten
      /\ order = batch.ids
  BY <1>1 DEF FInv, CInv, TypeOK
<1>3. /\ layer \in 0..NumLayers /\ layer + 1 \in Layers /\ DOMAIN cache = Layers
      /\ batch.ids \in Seq(Seqs)
  BY <1>1, <1>2 DEF TypeOK, RequestsTypeOK, Layers
<1> HIDE DEF cell
<1>4. /\ \A l \in Layers \ {layer + 1} : cache'[l] = cache[l]
      /\ \A p \in Pages, o \in 0..PageSize - 1 : cache'[layer + 1][p][o] = cell(p, o)
  BY <1>1, <1>3
<1>5. ASSUME NEW t \in NewTokens
      PROVE  LET h == Position(t[1], t[2]) + 1
                 s == batch.ids[t[1]]
             IN /\ t[1] \in 1..Len(batch.ids) /\ t[2] \in 1..MaxLen
                /\ h \in 1..Len(fed[s]) /\ h = Len(fed[s]) - batch.new[s] + t[2]
                /\ h - 1 = Position(t[1], t[2])
                /\ NewToken(t[1], t[2]) = fed[s][h]
  <2> DEFINE s == batch.ids[t[1]]
             h == Position(t[1], t[2]) + 1
  <2>1. /\ t[1] \in 1..Len(batch.ids) /\ t[2] \in 1..MaxLen /\ t[2] <= batch.new[s]
        /\ Position(t[1], t[2]) >= 0
    BY DEF NewTokens, NewLen
  <2>2. s \in Seqs /\ s \in Range(order) /\ order[t[1]] = s
    <3>1. t[1] \in DOMAIN batch.ids
      BY <2>1, <1>3, LenProperties
    <3> QED  BY <3>1, <2>1, <1>2, <1>3, ElementOfSeq DEF Range
  <2>3. seqlen[s] = Len(fed[s])
    <3>1. todo = NothingTodo
      BY <1>1 DEF FInv, CInv, Idle
    <3> QED  BY <3>1, <2>2, <1>2 DEF Exact, NothingTodo
  <2>4. Len(fed[s]) \in Nat /\ batch.new[s] \in Nat /\ batch.new[s] <= Len(fed[s])
    BY <2>2, <1>2, LenProperties DEF RequestsTypeOK, FInv, CInv, Caller
  <2>5. Position(t[1], t[2]) = Len(fed[s]) - batch.new[s] + t[2] - 1
    BY <2>2, <2>3 DEF Position, CachedLen, NewLen
  <2> HIDE DEF s
  <2>6. h = Len(fed[s]) - batch.new[s] + t[2] /\ h \in 1..Len(fed[s])
        /\ h - 1 = Position(t[1], t[2])
    <3> DEFINE i == t[2]
               pos == Position(t[1], t[2])
    <3>1. /\ i \in 1..MaxLen /\ i <= batch.new[s] /\ pos >= 0
          /\ pos = Len(fed[s]) - batch.new[s] + i - 1
      BY <2>1, <2>5
    <3> HIDE DEF i, pos
    <3>2. /\ pos + 1 = Len(fed[s]) - batch.new[s] + i
          /\ pos + 1 \in 1..Len(fed[s]) /\ pos \in Int
      BY <3>1, <2>4, SMTT(60)
    <3>3. h = pos + 1 /\ Position(t[1], t[2]) = pos /\ t[2] = i
      BY DEF i, pos
    <3> HIDE DEF h
    <3>4. h = Len(fed[s]) - batch.new[s] + t[2]
      BY <3>2, <3>3, Zenon
    <3>5. h \in 1..Len(fed[s])
      BY <3>2, <3>3, Zenon
    <3>6. h - 1 = Position(t[1], t[2])
      <4>1. h - 1 = pos
        BY <3>2, <3>3
      <4> QED  BY <4>1, <3>3
    <3> QED  BY <3>4, <3>5, <3>6
  <2>7. NewToken(t[1], t[2]) = fed[s][Len(fed[s]) - batch.new[s] + t[2]]
    BY DEF NewToken, s
  <2> QED  BY <2>1, <2>6, <2>7 DEF s
<1>6. ASSUME NEW l \in Layers, l = layer + 1,
             NEW j \in 1..Len(batch.ids), NEW s \in Seqs, s = batch.ids[j],
             NEW k \in 1..Len(fed[s])
      PROVE  Cell(l, s, k)' = fed[s][k]
  <2> DEFINE old == Len(fed[s]) - batch.new[s]
             p == allocated[s][((k - 1) \div PageSize) + 1]
             o == (k - 1) % PageSize
  <2>1. /\ s \in Seqs /\ s \in InBatch /\ Len(fed[s]) \in Nat /\ CachedLen(j) = Len(fed[s])
        /\ batch.new[s] \in Nat /\ batch.new[s] <= Len(fed[s]) /\ Len(fed[s]) <= MaxLen
        /\ p \in Pages /\ o \in 0..PageSize - 1
        /\ Slot(j, k - 1) = <<p, o>>
    BY <1>1, <1>6, RowPlace
  <2> HIDE DEF p, o
  <2>2. Cell(l, s, k)' = cell(p, o)
    <3>1. Cell(l, s, k)' = cache'[layer + 1][p][o]
      BY <1>1, <1>6 DEF Cell, p, o
    <3> QED  BY <3>1, <1>4, <2>1
  <2>3. ASSUME NEW t \in here(p, o)
        PROVE  t[1] = j /\ Position(t[1], t[2]) + 1 = k /\ k = old + t[2]
               /\ t[2] \in 1..MaxLen
               /\ NewToken(t[1], t[2]) = fed[s][k]
    <3>1. t \in NewTokens /\ Slot(t[1], Position(t[1], t[2])) = <<p, o>>
      OBVIOUS
    <3> DEFINE h == Position(t[1], t[2]) + 1
    <3>2. /\ t[1] \in 1..Len(batch.ids) /\ h \in 1..Len(fed[batch.ids[t[1]]])
          /\ h = Len(fed[batch.ids[t[1]]]) - batch.new[batch.ids[t[1]]] + t[2]
          /\ h - 1 = Position(t[1], t[2]) /\ t[2] \in 1..MaxLen
          /\ NewToken(t[1], t[2]) = fed[batch.ids[t[1]]][h]
      BY <3>1, <1>5
    <3> DEFINE i == t[1]
    <3> HIDE DEF h
    <3>3. Slot(i, h - 1) = Slot(j, k - 1)
      BY <2>1, <3>1, <3>2
    <3>4. i \in 1..Len(batch.ids) /\ h \in 1..Len(fed[batch.ids[i]])
      BY <3>2
    <3>5. k \in 1..Len(fed[batch.ids[j]])
      BY <1>6
    <3> HIDE DEF i
    <3>6. i = j /\ h = k
      BY <3>3, <3>4, <3>5, <1>1, SlotsDiffer, SMTT(60)
    <3>7. /\ h = Len(fed[batch.ids[i]]) - batch.new[batch.ids[i]] + t[2]
          /\ NewToken(t[1], t[2]) = fed[batch.ids[i]][h]
      BY <3>2 DEF i
    <3> QED  BY <3>2, <3>6, <3>7, <1>6 DEF h, i
  <2>4. CASE k <= old
    <3>1. here(p, o) = {}
      <4> SUFFICES ASSUME NEW t \in here(p, o)  PROVE FALSE
        OBVIOUS
      <4> HIDE DEF here
      <4>1. k = old + t[2] /\ t[2] \in 1..MaxLen
        BY <2>3
      <4>2. old \in Int /\ k \in Int
        BY <2>1
      <4> HIDE DEF old
      <4> QED  BY <4>1, <4>2, <2>4
    <3>2. cell(p, o) = cache[layer + 1][p][o]
      BY <3>1 DEF cell
    <3>3. Done(l, s) = old
      BY <1>3, <1>6 DEF Done
    <3>4. Cell(l, s, k) = fed[s][k]
      <4>1. k \in 1..old
        BY <2>1, <2>4
      <4> QED  BY <4>1, <3>3, <1>2, <2>1 DEF Stored
    <3> QED  BY <2>2, <3>2, <3>4, <1>6 DEF Cell, p, o
  <2>5. CASE ~ (k <= old)
    <3> DEFINE u == <<j, k - old>>
    <3>1. /\ old \in Nat /\ k - old \in 1..MaxLen /\ k - old <= batch.new[s]
          /\ Len(fed[s]) - batch.new[s] + (k - old) - 1 = k - 1 /\ k - 1 >= 0
      <4> DEFINE n == Len(fed[s])
                 m == batch.new[s]
      <4>1. n \in Nat /\ m \in Nat /\ m <= n /\ n <= MaxLen /\ k \in 1..n
            /\ ~ (k <= n - m)
        BY <2>1, <2>5
      <4> HIDE DEF n, m
      <4>2. /\ n - m \in Nat /\ k - (n - m) \in 1..MaxLen /\ k - (n - m) <= m
            /\ n - m + (k - (n - m)) - 1 = k - 1 /\ k - 1 >= 0
        BY <4>1
      <4> QED  BY <4>2 DEF n, m
    <3> HIDE DEF old
    <3>2. Position(j, k - old) = k - 1 /\ NewLen(j) = batch.new[s]
      BY <2>1, <3>1, <1>6 DEF Position, NewLen
    <3>3. u \in NewTokens
      <4>1. u \in (1..Len(batch.ids)) \X (1..MaxLen) /\ u[1] = j /\ u[2] = k - old
        BY <3>1
      <4> HIDE DEF u
      <4> QED  BY <4>1, <3>1, <3>2 DEF NewTokens
    <3>4. u \in here(p, o)
      BY <2>1, <3>2, <3>3
    <3> HIDE DEF here, u
    <3>5. cell(p, o) = fed[s][k]
      <4> DEFINE t == CHOOSE t \in here(p, o) : TRUE
      <4>1. t \in here(p, o)
        BY <3>4
      <4>2. cell(p, o) = NewToken(t[1], t[2])
        BY <3>4 DEF cell
      <4> HIDE DEF t
      <4> QED  BY <4>1, <4>2, <2>3
    <3> QED  BY <2>2, <3>5
  <2> QED  BY <2>4, <2>5
<1>7. Stored'
  <2> SUFFICES ASSUME NEW l \in Layers, NEW s \in InBatch, NEW k \in 1..Done(l, s)'
               PROVE  Cell(l, s, k)' = fed[s][k]
    BY <1>1 DEF Stored, InBatch
  <2>1. CASE l = layer + 1
    <3>1. Done(l, s)' = Len(fed[s])
      <4>1. layer' = l /\ l \in Int /\ l <= layer' /\ pc' = "step" /\ fed' = fed
        BY <2>1, <1>1, <1>3
      <4> QED  BY <4>1 DEF Done
    <3>2. PICK j \in 1..Len(batch.ids) : s = batch.ids[j]
      BY <1>3, LenProperties DEF InBatch, Range
    <3>3. s \in Seqs
      BY <3>2, <1>3, ElementOfSeq
    <3>4. k \in 1..Len(fed[s])
      BY <3>1
    <3> QED  BY <2>1, <3>2, <3>3, <3>4, <1>6
  <2>2. CASE l # layer + 1
    <3>1. Done(l, s)' = Done(l, s)
      BY <2>2, <1>1, <1>3 DEF Done, Layers
    <3>2. Cell(l, s, k) = fed[s][k]
      BY <3>1, <1>2 DEF Stored
    <3> QED  BY <2>2, <3>2, <1>1, <1>4 DEF Cell
  <2> QED  BY <2>1, <2>2
<1>8. Ordered' /\ Exact' /\ TableWritten'
  <2>1. \A j \in 1..Len(order) : PageRow(order[j])' = PageRow(order[j])
    BY <1>1 DEF PageRow
  <2>2. Ordered' /\ Exact'
    BY <1>1, <1>2 DEF Ordered, Exact, InBatch
  <2> QED  BY <2>1, <2>2, <1>1, <1>2 DEF TableWritten
<1> QED  BY <1>1, <1>2, <1>7, <1>8 DEF FInv

-----------------------------------------------------------------------------
(* The theorem *)

\* An empty manager has nothing to show.
LEMMA FreshFaithful ==
  ASSUME CInv, batch = EmptyBatch, fed = NothingFed, order = <<>>,
         todo = NothingTodo, pc = "step"
  PROVE  FInv
<1>1. DOMAIN <<>> = {} /\ Range(<<>>) = {} /\ Len(<<>>) = 0
  BY EmptySeq, FreshManager
<1>2. InBatch = {} /\ batch.ids = <<>>
  BY <1>1 DEF InBatch, EmptyBatch
<1>3. Ordered
  BY <1>1, <1>2 DEF Ordered, NothingTodo
<1>4. Exact
  BY <1>1, <1>2 DEF Exact, NothingTodo, NothingFed
<1>5. Stored
  BY <1>2 DEF Stored
<1>6. TableWritten
  BY <1>1 DEF TableWritten
<1> QED  BY <1>2, <1>3, <1>4, <1>5, <1>6 DEF FInv

\* Every action preserves the invariant.
LEMMA FInvStep == Serial /\ FInv /\ [Next]_vars => FInv'
<1> SUFFICES ASSUME Serial, FInv, [Next]_vars  PROVE FInv'
  OBVIOUS
<1>1. CInv'
  BY CInvStep DEF FInv
<1>2. CASE BeginStep
  BY <1>1, <1>2, BeginFaithful
<1>3. ASSUME NEW s \in Seqs, Finish(s)  PROVE FInv'
  BY <1>1, <1>3, FinishFaithful
<1>4. ASSUME NEW s \in Seqs, Advance(s)  PROVE FInv'
  BY <1>1, <1>4, AdvanceFaithful
<1>5. ASSUME NEW s \in Seqs, Admit(s)  PROVE FInv'
  BY <1>1, <1>5, AdmitFaithful
<1>6. CASE FillPageTable
  BY <1>1, <1>6, FillFaithful
<1>7. CASE Step
  BY <1>1, <1>7, StepFaithful
<1>8. CASE Reset
  <2>1. /\ batch' = EmptyBatch /\ fed' = NothingFed /\ order' = <<>>
        /\ todo' = NothingTodo /\ pc' = "step"
    BY <1>8 DEF Reset, Forget
  <2>2. InBatch' = {} /\ batch'.ids = <<>>
    BY <2>1, FreshManager DEF InBatch, EmptyBatch
  <2>3. DOMAIN <<>> = {} /\ Range(<<>>) = {} /\ Len(<<>>) = 0
    BY EmptySeq, FreshManager
  <2>4. Ordered'
    BY <2>1, <2>2, <2>3 DEF Ordered, NothingTodo
  <2>5. Exact'
    BY <2>1, <2>2, <2>3 DEF Exact, NothingTodo, NothingFed
  <2>6. Stored' /\ TableWritten'
    BY <2>1, <2>2, <2>3 DEF Stored, TableWritten
  <2> QED  BY <1>1, <2>1, <2>2, <2>4, <2>5, <2>6 DEF FInv
<1>9. CASE UNCHANGED vars
  <2>1. /\ batch' = batch /\ fed' = fed /\ order' = order /\ seqlen' = seqlen
        /\ allocated' = allocated /\ pageTable' = pageTable
        /\ cache' = cache /\ todo' = todo /\ pc' = pc /\ layer' = layer
    BY <1>9 DEF vars, requests, manager
  <2>2. /\ Ordered => Ordered'
        /\ Exact => Exact'
        /\ TableWritten => TableWritten'
    <3>1. \A j \in 1..Len(order) : PageRow(order[j])' = PageRow(order[j])
      BY <2>1 DEF PageRow
    <3>2. TableWritten => TableWritten'
      BY <3>1, <2>1 DEF TableWritten
    <3> QED  BY <3>2, <2>1 DEF Ordered, Exact, InBatch
  <2>3. Stored => Stored'
    BY <2>1 DEF Stored, Done, Cell, InBatch
  <2> QED  BY <1>1, <2>1, <2>2, <2>3 DEF FInv
<1> QED  BY <1>2, <1>3, <1>4, <1>5, <1>6, <1>7, <1>8, <1>9 DEF Next

\* What the invariant says of attention.
LEMMA FInvShows == FInv => CacheFaithful
<1> SUFFICES ASSUME FInv, pc = "step"
             PROVE  /\ Len(order) = Len(batch.ids)
                    /\ \A l \in 1..layer, j \in 1..Len(batch.ids) :
                         Shown(l, j) = fed[batch.ids[j]]
  BY DEF CacheFaithful
<1>1. /\ TypeOK /\ RequestsTypeOK /\ Exact /\ Stored /\ order = batch.ids
      /\ todo = NothingTodo
  BY DEF FInv, CInv, Idle, TypeOK
<1>2. ASSUME NEW l \in 1..layer, NEW j \in 1..Len(batch.ids)
      PROVE  Shown(l, j) = fed[batch.ids[j]]
  <2> DEFINE s == batch.ids[j]
  <2>1. s \in Seqs /\ s \in InBatch /\ s \in Range(order) /\ order[j] = s
    <3>1. batch.ids \in Seq(Seqs)
      BY <1>1 DEF RequestsTypeOK
    <3>2. j \in DOMAIN batch.ids
      BY <3>1, LenProperties
    <3> QED  BY <3>1, <3>2, <1>1, ElementOfSeq DEF InBatch, Range
  <2>2. CachedLen(j) = Len(fed[s])
    BY <2>1, <1>1 DEF CachedLen, Exact, NothingTodo
  <2>3. fed[s] \in [1..Len(fed[s]) -> Token]
    BY <2>1, <1>1, LenProperties DEF RequestsTypeOK
  <2>4. l \in Layers /\ Done(l, s) = Len(fed[s])
    BY <1>1 DEF TypeOK, Layers, Done
  <2>5. ASSUME NEW k \in 1..Len(fed[s])
        PROVE  cache[l][Slot(j, k - 1)[1]][Slot(j, k - 1)[2]] = fed[s][k]
    <3>1. Slot(j, k - 1) = <<allocated[s][((k - 1) \div PageSize) + 1], (k - 1) % PageSize>>
      BY RowPlace
    <3>2. Cell(l, s, k) = fed[s][k]
      BY <2>1, <2>4, <1>1 DEF Stored
    <3> QED  BY <3>1, <3>2, SMTT(60) DEF Cell
  <2>6. Shown(l, j) = [k \in 1..Len(fed[s]) |-> fed[s][k]]
    BY <2>2, <2>5 DEF Shown
  <2> QED  BY <2>3, <2>6
<1> QED  BY <1>1, <1>2

\* After a layer has run its step, every row of the batch shows exactly the
\* tokens the caller has fed that sequence (inference.py, kv_cache.cu), for
\* callers that decode one token at a time and list new ids in their order.
THEOREM CacheShowsTokens ==
  Serial => (Spec => []CacheFaithful)
<1> SUFFICES ASSUME Serial  PROVE Spec => []CacheFaithful
  OBVIOUS
<1>1. Init => FInv
  <2> SUFFICES ASSUME Init  PROVE FInv
    OBVIOUS
  <2>1. CInv
    BY InitCInv
  <2>2. /\ batch = EmptyBatch /\ fed = NothingFed /\ order = <<>>
        /\ todo = NothingTodo /\ pc = "step"
    BY DEF Init, NoRequests
  <2> QED  BY <2>1, <2>2, FreshFaithful
<1>2. FInv /\ [Next]_vars => FInv'
  BY FInvStep
<1> QED  BY <1>1, <1>2, FInvShows, PTL DEF Spec
=============================================================================
