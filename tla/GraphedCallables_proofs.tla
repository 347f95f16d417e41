---------------------- MODULE GraphedCallables_proofs ----------------------
(***************************************************************************)
(* Proofs about callables captured as graphs, for every schedule, number   *)
(* of layers, sharing of shapes and number of iterations: the checks of    *)
(* the capture let exactly the alternating schedules through, and of those *)
(* what is sent and the weight gradients are those of their microbatch.    *)
(* Static inputs are shared as far as the schedule allows.                 *)
(*                                                                         *)
(* A point is a position x of the order and a step s of its pass.  Needed  *)
(* is what must be in the pool there: activations between forward and      *)
(* backward, the input gradient about to be used, the last one of a chunk. *)
(* The capture keeps it alive, so that the replay may not lose it.         *)
(***************************************************************************)
EXTENDS GraphedCallables, FiniteSetTheorems, SequenceTheorems, TLAPS

-----------------------------------------------------------------------------
(* Counting passes.                                                          *)

\* Of some subsets of a finite set, one contains no other.
LEMMA SmallestSubset ==
  ASSUME NEW S, IsFiniteSet(S), NEW U \in SUBSET (SUBSET S), U # {}
  PROVE  \E s \in U : \A t \in U : ~(t \subseteq s /\ t # s)
<1>1. FiniteSubsetsOf(S) = SUBSET S
  BY FS_FiniteSubsetsOfFinite
<1>2. PICK s \in U : \A t \in U : <<t, s>> \notin StrictSubsetOrdering(S)
  BY <1>1, FS_StrictSubsetOrderingWellFounded, WFMin
<1>3. \A t \in U : ~(t \subseteq s /\ t # s)
  BY <1>2 DEF StrictSubsetOrdering
<1> QED  BY <1>3

\* A set of natural numbers that is not empty has a least element.
LEMMA LeastNatural ==
  ASSUME NEW T \in SUBSET Nat, T # {}
  PROVE  \E x \in T : \A y \in T : x <= y
<1>1. PICK n \in T : TRUE
  OBVIOUS
<1> DEFINE U == {0..k : k \in {i \in T : i <= n}}
<1>2. U \in SUBSET (SUBSET (0..n)) /\ U # {}
  <2>1. \A k \in T : k <= n => 0..k \subseteq 0..n
    OBVIOUS
  <2>2. 0..n \in U
    BY <1>1
  <2> QED  BY <2>1, <2>2
<1>3. PICK s \in U : \A t \in U : ~(t \subseteq s /\ t # s)
  <2> DEFINE S == 0..n
  <2>1. IsFiniteSet(S) /\ U \in SUBSET (SUBSET S) /\ U # {}
    BY <1>2, FS_Interval
  <2> HIDE DEF U, S
  <2> QED  BY <2>1, SmallestSubset
<1>4. PICK x \in T : x <= n /\ s = 0..x
  BY <1>3
<1>5. \A y \in T : x <= y
  <2> SUFFICES ASSUME NEW y \in T, y < x  PROVE FALSE
    OBVIOUS
  <2>1. 0..y \in U /\ 0..y \subseteq 0..x /\ x \in 0..x /\ x \notin 0..y
    BY <1>4
  <2> QED  BY <1>3, <1>4, <2>1
<1> QED  BY <1>5

\* What holds at one position and is carried to the next holds at all that follow.
LEMMA PositionInduction ==
  ASSUME NEW a \in Nat, NEW b \in Nat, NEW T,
         a \in T, \A x \in a..b - 1 : x \in T => x + 1 \in T
  PROVE  a..b \subseteq T
<1> SUFFICES ASSUME NEW w \in a..b, w \notin T  PROVE FALSE
  OBVIOUS
<1> DEFINE S == {x \in a..b : x \notin T}
<1>1. PICK n \in S : \A y \in S : n <= y
  <2>1. S \in SUBSET Nat /\ S # {}
    OBVIOUS
  <2> HIDE DEF S
  <2> QED  BY <2>1, LeastNatural
<1>2. n # a /\ n \in a..b /\ n \notin T
  BY <1>1
<1>3. n - 1 \in a..b - 1 /\ (n - 1) + 1 = n
  BY <1>2
<1>4. n - 1 \notin T
  BY <1>2, <1>3
<1>5. n - 1 \in S
  BY <1>3, <1>4
<1> QED  BY <1>1, <1>3, <1>5

\* The passes between two positions can be counted.
LEMMA OccurrencesFinite ==
  ASSUME NEW o, NEW p, NEW a \in Int, NEW b \in Int
  PROVE  IsFiniteSet({x \in a..b : o[x] = p})
<1> DEFINE S == {x \in a..b : o[x] = p}
<1>1. IsFiniteSet(a..b) /\ S \in SUBSET (a..b)
  BY FS_Interval
<1> HIDE DEF S
<1>2. IsFiniteSet(S)
  BY <1>1, FS_Subset
<1> QED  BY <1>2 DEF S

LEMMA OccurrencesType ==
  ASSUME NEW o, NEW p, NEW a \in Int, NEW b \in Int
  PROVE  Occurrences(o, p, a, b) \in Nat
<1> DEFINE S == {x \in a..b : o[x] = p}
<1>1. IsFiniteSet(S)
  BY OccurrencesFinite
<1> HIDE DEF S
<1>2. Cardinality(S) \in Nat
  BY <1>1, FS_CardinalityType
<1> QED  BY <1>2 DEF S, Occurrences

LEMMA OccurrencesNone ==
  ASSUME NEW o, NEW p, NEW a \in Int, NEW b \in Int, b < a
  PROVE  Occurrences(o, p, a, b) = 0
<1> DEFINE S == {x \in a..b : o[x] = p}
<1>1. S = {}
  OBVIOUS
<1> HIDE DEF S
<1>2. Cardinality(S) = 0
  BY <1>1, FS_EmptySet
<1> QED  BY <1>2 DEF S, Occurrences

\* One position more.
LEMMA OccurrencesStep ==
  ASSUME NEW o, NEW p, NEW a \in Int, NEW b \in Int, a <= b + 1
  PROVE  Occurrences(o, p, a, b + 1) =
           IF o[b + 1] = p THEN Occurrences(o, p, a, b) + 1 ELSE Occurrences(o, p, a, b)
<1> DEFINE S == {x \in a..b : o[x] = p}
           T == {x \in a..b + 1 : o[x] = p}
<1>1. IsFiniteSet(S)
  BY OccurrencesFinite
<1>2. o[b + 1] = p => T = S \cup {b + 1}
  OBVIOUS
<1>3. o[b + 1] # p => T = S
  OBVIOUS
<1>4. b + 1 \notin S
  OBVIOUS
<1> HIDE DEF S, T
<1>5. o[b + 1] = p => Cardinality(T) = Cardinality(S) + 1
  BY <1>1, <1>2, <1>4, FS_AddElement
<1> QED  BY <1>3, <1>5 DEF S, T, Occurrences

\* How often pass p of chunk k comes before position x.
End(c) == Len(c.order)
N(c, p, k, x) == Occurrences(c.order, Pass(p, k), 1, x - 1)

LEMMA CountType ==
  ASSUME NEW c, NEW p, NEW k, NEW x \in Int
  PROVE  N(c, p, k, x) \in Nat
<1>1. x - 1 \in Int
  OBVIOUS
<1>2. Occurrences(c.order, Pass(p, k), 1, x - 1) \in Nat
  BY <1>1, OccurrencesType
<1> QED  BY <1>2 DEF N

LEMMA CountFirst ==
  ASSUME NEW c, NEW p, NEW k
  PROVE  N(c, p, k, 1) = 0
<1>1. 1 \in Int /\ 1 - 1 \in Int /\ 1 - 1 < 1
  OBVIOUS
<1>2. Occurrences(c.order, Pass(p, k), 1, 1 - 1) = 0
  BY <1>1, OccurrencesNone
<1> QED  BY <1>2 DEF N

LEMMA CountStep ==
  ASSUME NEW c, NEW p, NEW k, NEW x \in Nat \ {0}
  PROVE  N(c, p, k, x + 1) =
           IF c.order[x] = Pass(p, k) THEN N(c, p, k, x) + 1 ELSE N(c, p, k, x)
<1> DEFINE b == x - 1
<1>1. b \in Int /\ 1 <= b + 1 /\ b + 1 = x /\ (x + 1) - 1 = b + 1
  OBVIOUS
<1> HIDE DEF b
<1>2. Occurrences(c.order, Pass(p, k), 1, b + 1) =
        IF c.order[b + 1] = Pass(p, k) THEN Occurrences(c.order, Pass(p, k), 1, b) + 1
        ELSE Occurrences(c.order, Pass(p, k), 1, b)
  BY <1>1, OccurrencesStep
<1> QED  BY <1>1, <1>2 DEF N, b

LEMMA CountMonotone ==
  ASSUME NEW c, NEW p, NEW k, NEW x \in Int, NEW y \in Int, x <= y
  PROVE  N(c, p, k, x) <= N(c, p, k, y)
<1> DEFINE S(z) == {n \in 1..z : c.order[n] = Pass(p, k)}
<1>1. IsFiniteSet(S(y - 1)) /\ S(x - 1) \in SUBSET S(y - 1)
  <2>1. ASSUME NEW b \in Int  PROVE IsFiniteSet({n \in 1..b : c.order[n] = Pass(p, k)})
    <3>1. 1 \in Int
      OBVIOUS
    <3> QED  BY ONLY <3>1, b \in Int, OccurrencesFinite, ZenonT(60)
  <2>2. IsFiniteSet(S(y - 1))
    BY <2>1
  <2>3. S(x - 1) \in SUBSET S(y - 1)
    OBVIOUS
  <2> QED  BY <2>2, <2>3
<1> HIDE DEF S
<1>2. Cardinality(S(x - 1)) <= Cardinality(S(y - 1))
  BY <1>1, FS_Subset
<1> QED  BY <1>2 DEF S, N, Occurrences

\* A pass that comes before another of its kind has been counted.
LEMMA CountStrict ==
  ASSUME NEW c, NEW p, NEW k, NEW x \in Nat \ {0}, NEW y \in Nat, x < y,
         c.order[x] = Pass(p, k)
  PROVE  N(c, p, k, x) < N(c, p, k, y)
<1>1. N(c, p, k, x + 1) = N(c, p, k, x) + 1
  BY CountStep
<1>2. x + 1 \in Int /\ y \in Int /\ x + 1 <= y
  OBVIOUS
<1>3. N(c, p, k, x + 1) <= N(c, p, k, y)
  BY <1>2, CountMonotone
<1>4. N(c, p, k, x) \in Nat /\ N(c, p, k, y) \in Nat
  BY CountType
<1> QED  BY <1>1, <1>3, <1>4

\* The passes between two positions are the difference of the counts.
LEMMA CountBetween ==
  ASSUME NEW c, NEW p, NEW k, NEW x \in Nat \ {0}, NEW y \in Nat, x <= y + 1
  PROVE  Occurrences(c.order, Pass(p, k), x, y) = N(c, p, k, y + 1) - N(c, p, k, x)
<1> DEFINE D(z) == Occurrences(c.order, Pass(p, k), x, z - 1) = N(c, p, k, z) - N(c, p, k, x)
           T == {z \in x..y + 1 : D(z)}
<1>1. x \in T
  <2>1. Occurrences(c.order, Pass(p, k), x, x - 1) = 0
    <3>1. x \in Int /\ x - 1 \in Int /\ x - 1 < x
      OBVIOUS
    <3> QED  BY <3>1, OccurrencesNone
  <2>2. N(c, p, k, x) \in Nat
    BY CountType
  <2> QED  BY <2>1, <2>2
<1>2. ASSUME NEW z \in x..(y + 1) - 1, z \in T  PROVE z + 1 \in T
  <2>1. z - 1 \in Int /\ x <= (z - 1) + 1 /\ (z - 1) + 1 = z /\ (z + 1) - 1 = z
        /\ z \in Nat \ {0}
    OBVIOUS
  <2> DEFINE b == z - 1
  <2>2. b \in Int /\ x <= b + 1 /\ b + 1 = z
    BY <2>1
  <2> HIDE DEF b
  <2>3. Occurrences(c.order, Pass(p, k), x, b + 1) =
          IF c.order[b + 1] = Pass(p, k) THEN Occurrences(c.order, Pass(p, k), x, b) + 1
          ELSE Occurrences(c.order, Pass(p, k), x, b)
    BY <2>2, OccurrencesStep
  <2>4. N(c, p, k, z + 1) =
          IF c.order[z] = Pass(p, k) THEN N(c, p, k, z) + 1 ELSE N(c, p, k, z)
    BY <2>1, CountStep
  <2>5. Occurrences(c.order, Pass(p, k), x, b) = N(c, p, k, z) - N(c, p, k, x)
    BY <1>2 DEF b
  <2>6. N(c, p, k, z) \in Nat /\ N(c, p, k, x) \in Nat /\ Occurrences(c.order, Pass(p, k), x, b) \in Nat
    <3>1. N(c, p, k, z) \in Nat /\ N(c, p, k, x) \in Nat
      BY <2>1, CountType
    <3>2. Occurrences(c.order, Pass(p, k), x, b) \in Nat
      BY <2>2, OccurrencesType
    <3> QED  BY <3>1, <3>2
  <2>7. Occurrences(c.order, Pass(p, k), x, z) = N(c, p, k, z + 1) - N(c, p, k, x)
    BY <2>2, <2>3, <2>4, <2>5, <2>6
  <2> QED  BY <2>1, <2>7
<1>3. x..y + 1 \subseteq T
  <2> HIDE DEF T
  <2> QED  BY <1>1, <1>2, PositionInduction
<1> QED  BY <1>3

-----------------------------------------------------------------------------
(* A schedule, its points (a position and a layer within the pass), and what  *)
(* has run before a point.                                                    *)

NL(c, x) == c.layers[c.order[x].chunk]
LayerAt(c, x, s) == IF c.order[x].pass = "fwd" THEN s ELSE NL(c, x) + 1 - s
Cur(c, x, s) ==
  <<c.order[x].chunk, N(c, c.order[x].pass, c.order[x].chunk, x), LayerAt(c, x, s)>>
NextX(c, x, s) == IF s < NL(c, x) THEN x ELSE x + 1
NextS(c, x, s) == IF s < NL(c, x) THEN s + 1 ELSE 1

Ran(c, p, x, s) == {i \in CallablesOf(c) :
  \/ i[2] < N(c, p, i[1], x)
  \/ /\ i[2] = N(c, p, i[1], x) /\ x <= End(c) /\ c.order[x] = Pass(p, i[1])
     /\ IF p = "fwd" THEN i[3] < s ELSE c.layers[i[1]] + 1 - i[3] < s}

LEMMA ConfigFacts ==
  ASSUME NEW c \in Configs
  PROVE  /\ End(c) \in Nat \ {0} /\ DOMAIN c.order = 1..End(c)
         /\ ChunksOf(c) \subseteq Nat
         /\ \A k \in ChunksOf(c) : c.layers[k] \in Nat \ {0}
         /\ c.reuse \in BOOLEAN /\ c.delay \in BOOLEAN
         /\ c.delay => \A k \in ChunksOf(c) : c.layers[k] = 1
<1>1. /\ c.layers \in Seq(Nat \ {0})
      /\ c.order \in Seq([pass : Passes, chunk : ChunksOf(c)]) /\ c.order # <<>>
      /\ c.reuse \in BOOLEAN /\ c.delay \in BOOLEAN
      /\ c.delay => \A k \in ChunksOf(c) : c.layers[k] = 1
  BY ConfigsAssumption
<1>2. End(c) \in Nat \ {0} /\ DOMAIN c.order = 1..End(c)
  BY <1>1, EmptySeq DEF End
<1>3. ChunksOf(c) \subseteq Nat /\ \A k \in ChunksOf(c) : c.layers[k] \in Nat \ {0}
  BY <1>1 DEF ChunksOf
<1> QED  BY <1>1, <1>2, <1>3

LEMMA OrderAt ==
  ASSUME NEW c \in Configs, NEW x \in 1..End(c)
  PROVE  /\ c.order[x].pass \in Passes /\ c.order[x].chunk \in ChunksOf(c)
         /\ c.order[x] = Pass(c.order[x].pass, c.order[x].chunk)
         /\ NL(c, x) \in Nat \ {0}
<1>1. c.order \in Seq([pass : Passes, chunk : ChunksOf(c)])
  BY ConfigsAssumption
<1>2. c.order[x] \in [pass : Passes, chunk : ChunksOf(c)]
  <2>1. x \in 1..Len(c.order)
    BY DEF End
  <2> QED  BY ONLY <1>1, <2>1, ElementOfSeq
<1>3. c.order[x].pass \in Passes /\ c.order[x].chunk \in ChunksOf(c)
      /\ c.order[x] = Pass(c.order[x].pass, c.order[x].chunk)
  BY <1>2 DEF Pass
<1> QED  BY <1>3, ConfigFacts DEF NL

LEMMA PassIs ==
  ASSUME NEW p, NEW k, NEW q, NEW j
  PROVE  /\ Pass(p, k) = Pass(q, j) <=> p = q /\ k = j
         /\ Pass(p, k).pass = p /\ Pass(p, k).chunk = k
  BY DEF Pass

LEMMA PassAt ==
  ASSUME NEW c \in Configs, NEW x \in 1..End(c), NEW p, NEW k
  PROVE  c.order[x] = Pass(p, k) <=> c.order[x].pass = p /\ c.order[x].chunk = k
  BY OrderAt, PassIs

\* Every chunk runs forward and backward for every microbatch.
LEMMA Totals ==
  ASSUME NEW c \in Configs, NEW k \in ChunksOf(c)
  PROVE  /\ MicrobatchesOf(c) \in Nat
         /\ N(c, "fwd", k, End(c) + 1) = MicrobatchesOf(c)
         /\ N(c, "bwd", k, End(c) + 1) = MicrobatchesOf(c)
<1>1. End(c) \in Nat \ {0} /\ (End(c) + 1) - 1 = End(c)
  BY ConfigFacts
<1>2. /\ Occurrences(c.order, Pass("fwd", k), 1, Len(c.order)) = MicrobatchesOf(c)
      /\ Occurrences(c.order, Pass("bwd", k), 1, Len(c.order)) = MicrobatchesOf(c)
  BY ConfigsAssumption
<1>3. N(c, "fwd", k, End(c) + 1) \in Nat
  <2>1. End(c) + 1 \in Int
    BY <1>1
  <2> QED  BY <2>1, CountType
<1> QED  BY <1>1, <1>2, <1>3 DEF N, End

\* When a pass comes: its forward has, and some dgrad of a wgrad.
LEMMA Possible ==
  ASSUME NEW c \in Configs, NEW x \in 1..End(c), NEW k \in ChunksOf(c)
  PROVE  /\ c.order[x] = Pass("bwd", k) => N(c, "bwd", k, x) < N(c, "fwd", k, x)
         /\ c.order[x] = Pass("dw", k) => N(c, "bwd", k, x) > 0
<1>1. x \in DOMAIN c.order
  BY ConfigFacts
<1> QED  BY <1>1, ConfigsAssumption DEF N

LEMMA CountBound ==
  ASSUME NEW c \in Configs, NEW k \in ChunksOf(c), NEW x \in 1..End(c) + 1
  PROVE  /\ N(c, "bwd", k, x) \in 0..N(c, "fwd", k, x)
         /\ N(c, "fwd", k, x) \in 0..MicrobatchesOf(c)
         /\ N(c, "dw", k, x) \in Nat
<1>1. End(c) \in Nat \ {0}
  BY ConfigFacts
<1>2. \A y \in 1..End(c) + 1 :
        N(c, "bwd", k, y) \in Nat /\ N(c, "fwd", k, y) \in Nat /\ N(c, "dw", k, y) \in Nat
  <2> TAKE y \in 1..End(c) + 1
  <2>1. y \in Int
    BY <1>1
  <2> QED  BY <2>1, CountType
<1> DEFINE T == {y \in 1..End(c) + 1 : N(c, "bwd", k, y) <= N(c, "fwd", k, y)}
<1>3. 1 \in T
  BY <1>1, CountFirst
<1>4. ASSUME NEW y \in 1..(End(c) + 1) - 1, y \in T  PROVE y + 1 \in T
  <2>1. y \in 1..End(c) /\ y \in Nat \ {0} /\ y \in 1..End(c) + 1 /\ y + 1 \in 1..End(c) + 1
    BY <1>1
  <2>2. /\ N(c, "bwd", k, y + 1) = IF c.order[y] = Pass("bwd", k) THEN N(c, "bwd", k, y) + 1
                                   ELSE N(c, "bwd", k, y)
        /\ N(c, "fwd", k, y + 1) = IF c.order[y] = Pass("fwd", k) THEN N(c, "fwd", k, y) + 1
                                   ELSE N(c, "fwd", k, y)
    BY <2>1, CountStep
  <2>3. c.order[y] = Pass("bwd", k) => N(c, "bwd", k, y) < N(c, "fwd", k, y)
    BY <2>1, Possible
  <2>4. N(c, "bwd", k, y) \in Nat /\ N(c, "fwd", k, y) \in Nat
    BY ONLY <1>1, <1>2, y \in 1..End(c), <2>1
  <2> QED  BY <1>4, <2>1, <2>2, <2>3, <2>4
<1>5. 1..End(c) + 1 \subseteq T
  <2>1. 1 \in Nat /\ End(c) + 1 \in Nat
    BY <1>1
  <2> HIDE DEF T
  <2> QED  BY <1>3, <1>4, <2>1, PositionInduction
<1>6. N(c, "fwd", k, x) <= N(c, "fwd", k, End(c) + 1)
  <2>1. x \in Int /\ End(c) + 1 \in Int /\ x <= End(c) + 1
    BY <1>1
  <2> QED  BY <2>1, CountMonotone
<1> QED  BY <1>2, <1>5, <1>6, Totals

\* The microbatch of a pass at hand.
LEMMA CountAt ==
  ASSUME NEW c \in Configs, NEW x \in 1..End(c), NEW k \in ChunksOf(c), NEW p \in {"fwd", "bwd"},
         c.order[x] = Pass(p, k)
  PROVE  N(c, p, k, x) \in 0..MicrobatchesOf(c) - 1
<1>1. End(c) \in Nat \ {0} /\ x \in Nat \ {0} /\ End(c) + 1 \in Nat /\ x < End(c) + 1
  BY ConfigFacts
<1>2. N(c, p, k, x) < N(c, p, k, End(c) + 1)
  BY <1>1, CountStrict
<1>3. N(c, p, k, End(c) + 1) = MicrobatchesOf(c) /\ MicrobatchesOf(c) \in Nat
  BY Totals
<1>4. x \in Int
  BY <1>1
<1>5. N(c, p, k, x) \in Nat
  BY <1>4, CountType
<1> QED  BY <1>2, <1>3, <1>5

LEMMA CallableIs ==
  ASSUME NEW c, NEW i
  PROVE  i \in CallablesOf(c) <=>
           /\ i = <<i[1], i[2], i[3]>> /\ i[1] \in ChunksOf(c)
           /\ i[2] \in 0..MicrobatchesOf(c) - 1 /\ i[3] \in 1..c.layers[i[1]]
<1>1. ASSUME i \in CallablesOf(c)
      PROVE  /\ i = <<i[1], i[2], i[3]>> /\ i[1] \in ChunksOf(c)
             /\ i[2] \in 0..MicrobatchesOf(c) - 1 /\ i[3] \in 1..c.layers[i[1]]
  <2>1. PICK k \in ChunksOf(c) :
               i \in {<<k, m, l>> : m \in 0..MicrobatchesOf(c) - 1, l \in 1..c.layers[k]}
    BY <1>1 DEF CallablesOf
  <2>2. PICK m \in 0..MicrobatchesOf(c) - 1, l \in 1..c.layers[k] : i = <<k, m, l>>
    BY <2>1
  <2> QED  BY <2>2
<1>2. ASSUME i = <<i[1], i[2], i[3]>>, i[1] \in ChunksOf(c),
             i[2] \in 0..MicrobatchesOf(c) - 1, i[3] \in 1..c.layers[i[1]]
      PROVE  i \in CallablesOf(c)
  <2> DEFINE S == {<<i[1], m, l>> : m \in 0..MicrobatchesOf(c) - 1, l \in 1..c.layers[i[1]]}
  <2>1. i \in S
    BY <1>2
  <2> QED  BY <1>2, <2>1 DEF CallablesOf
<1> QED  BY <1>1, <1>2

LEMMA CallableOf ==
  ASSUME NEW c, NEW k \in ChunksOf(c), NEW m \in 0..MicrobatchesOf(c) - 1, NEW l \in 1..c.layers[k]
  PROVE  <<k, m, l>> \in CallablesOf(c)
  BY CallableIs

\* A step of the schedule runs one pass of one callable.
LEMMA RanStep ==
  ASSUME NEW c \in Configs, NEW x \in 1..End(c), NEW s \in 1..NL(c, x), NEW p \in Passes,
         NEW i \in CallablesOf(c)
  PROVE  i \in Ran(c, p, NextX(c, x, s), NextS(c, x, s)) <=>
           i \in Ran(c, p, x, s) \/ (c.order[x].pass = p /\ i = Cur(c, x, s))
<1> DEFINE k == c.order[x].chunk
           n == N(c, p, i[1], x)
           L == c.layers[i[1]]
<1>1. /\ End(c) \in Nat /\ x \in Nat \ {0} /\ k \in ChunksOf(c) /\ NL(c, x) \in Nat \ {0} /\ s \in Nat \ {0}
      /\ s <= NL(c, x) /\ x <= End(c) /\ c.order[x] = Pass(c.order[x].pass, k)
  BY ConfigFacts, OrderAt
<1>2. /\ i = <<i[1], i[2], i[3]>> /\ i[1] \in ChunksOf(c) /\ i[2] \in Nat /\ i[3] \in Nat
      /\ i[3] >= 1 /\ i[3] <= L /\ L \in Nat
  <2>1. i[1] \in ChunksOf(c) /\ i[3] \in 1..c.layers[i[1]] /\ i[2] \in 0..MicrobatchesOf(c) - 1
        /\ i = <<i[1], i[2], i[3]>>
    BY CallableIs
  <2>2. c.layers[i[1]] \in Nat
    BY <2>1, ConfigFacts
  <2> QED  BY <2>1, <2>2
<1>3. n \in Nat
  <2>1. x \in Int
    BY <1>1
  <2> QED  BY <2>1, CountType
<1>4. N(c, p, i[1], x + 1) = IF c.order[x] = Pass(p, i[1]) THEN n + 1 ELSE n
  BY <1>1, CountStep
<1>5. c.order[x] = Pass(p, i[1]) <=> c.order[x].pass = p /\ k = i[1]
  BY PassAt
<1>6. i \in Ran(c, p, x, s) <=>
        \/ i[2] < n
        \/ /\ i[2] = n /\ c.order[x].pass = p /\ k = i[1]
           /\ IF p = "fwd" THEN i[3] < s ELSE L + 1 - i[3] < s
  BY <1>1, <1>5 DEF Ran
<1>7. i = Cur(c, x, s) <=> k = i[1] /\ i[2] = N(c, c.order[x].pass, k, x) /\ i[3] = LayerAt(c, x, s)
  BY <1>2 DEF Cur
<1>8. CASE s < NL(c, x)
  <2>1. NextX(c, x, s) = x /\ NextS(c, x, s) = s + 1
    BY <1>8 DEF NextX, NextS
  <2>2. i \in Ran(c, p, x, s + 1) <=>
          \/ i[2] < n
          \/ /\ i[2] = n /\ c.order[x].pass = p /\ k = i[1]
             /\ IF p = "fwd" THEN i[3] < s + 1 ELSE L + 1 - i[3] < s + 1
    BY <1>1, <1>5 DEF Ran
  <2>3. c.order[x].pass = p /\ k = i[1] =>
          (i[3] = LayerAt(c, x, s) <=> IF p = "fwd" THEN i[3] = s ELSE L + 1 - i[3] = s)
    BY <1>1, <1>2 DEF LayerAt, NL
  <2> HIDE DEF k, n, L
  <2>4. c.order[x].pass = p /\ k = i[1] => N(c, c.order[x].pass, k, x) = n
    BY DEF n
  <2> QED  BY <1>1, <1>2, <1>3, <1>6, <1>7, <2>1, <2>2, <2>3, <2>4
<1>9. CASE ~(s < NL(c, x))
  <2>1. NextX(c, x, s) = x + 1 /\ NextS(c, x, s) = 1
    BY <1>9 DEF NextX, NextS
  <2>2. i \in Ran(c, p, x + 1, 1) <=> i[2] < N(c, p, i[1], x + 1)
    BY <1>2 DEF Ran
  <2>3. k = i[1] => L = NL(c, x)
    BY DEF NL
  <2>4. c.order[x].pass = p /\ k = i[1] =>
          (i[3] = LayerAt(c, x, s) <=> IF p = "fwd" THEN i[3] = s ELSE L + 1 - i[3] = s)
    BY <1>1, <1>2 DEF LayerAt, NL
  <2> HIDE DEF k, n, L
  <2>5. c.order[x].pass = p /\ k = i[1] => N(c, c.order[x].pass, k, x) = n
    BY DEF n
  <2> QED  BY <1>1, <1>2, <1>3, <1>4, <1>5, <1>6, <1>7, <1>9, <2>1, <2>2, <2>3, <2>4, <2>5
<1> QED  BY <1>8, <1>9

\* Before the first point nothing has run, after the last everything.
LEMMA RanFirst ==
  ASSUME NEW c \in Configs, NEW p \in Passes
  PROVE  Ran(c, p, 1, 1) = {}
<1> SUFFICES ASSUME NEW i \in CallablesOf(c), i \in Ran(c, p, 1, 1)  PROVE FALSE
  BY DEF Ran
<1>1. N(c, p, i[1], 1) = 0
  BY CountFirst
<1>2. i[2] \in Nat /\ i[3] \in 1..c.layers[i[1]] /\ c.layers[i[1]] \in Nat
  BY CallableIs, ConfigFacts
<1> QED  BY <1>1, <1>2 DEF Ran

\* A point of the schedule.
LEMMA PointFacts ==
  ASSUME NEW c \in Configs, NEW x \in 1..End(c), NEW s \in 1..NL(c, x)
  PROVE  /\ x \in Nat \ {0} /\ x \in Int /\ x <= End(c) /\ x \in 1..End(c) + 1 /\ x + 1 \in 1..End(c) + 1
         /\ s \in Nat \ {0} /\ NL(c, x) \in Nat \ {0} /\ s <= NL(c, x)
         /\ c.order[x].chunk \in ChunksOf(c) /\ c.order[x].pass \in Passes
         /\ LayerAt(c, x, s) \in 1..NL(c, x)
         /\ NL(c, x) = c.layers[c.order[x].chunk]
<1>1. End(c) \in Nat /\ NL(c, x) \in Nat \ {0}
  BY ConfigFacts, OrderAt
<1> QED  BY <1>1, OrderAt DEF LayerAt, NL

LEMMA CurIs ==
  ASSUME NEW c \in Configs, NEW x \in 1..End(c), NEW s \in 1..NL(c, x), NEW p \in {"fwd", "bwd"},
         c.order[x].pass = p
  PROVE  /\ Cur(c, x, s) = <<c.order[x].chunk, N(c, p, c.order[x].chunk, x), LayerAt(c, x, s)>>
         /\ Cur(c, x, s) \in CallablesOf(c)
         /\ Cur(c, x, s) \notin Ran(c, p, x, s)
         /\ p = "bwd" => Cur(c, x, s) \in Ran(c, "fwd", x, s)
<1> DEFINE k == c.order[x].chunk
           m == N(c, p, k, x)
           l == LayerAt(c, x, s)
<1>1. /\ k \in ChunksOf(c) /\ l \in 1..NL(c, x) /\ NL(c, x) = c.layers[k] /\ NL(c, x) \in Nat
      /\ s \in Nat
  BY PointFacts
<1>2. c.order[x] = Pass(p, k)
  BY PassAt
<1>3. m \in 0..MicrobatchesOf(c) - 1
  BY <1>1, <1>2, CountAt
<1>4. Cur(c, x, s) = <<k, m, l>>
  BY DEF Cur
<1>5. <<k, m, l>> \in CallablesOf(c)
  BY <1>1, <1>3, CallableOf
<1>6. m \in Nat
  BY <1>3, Totals, <1>1
<1>7. <<k, m, l>> \notin Ran(c, p, x, s)
  <2>1. p = "fwd" => l = s
    BY DEF LayerAt
  <2>2. p = "bwd" => c.layers[k] + 1 - l = s
    BY <1>1 DEF LayerAt
  <2> HIDE DEF k, m, l
  <2>3. <<k, m, l>>[1] = k /\ <<k, m, l>>[2] = m /\ <<k, m, l>>[3] = l
    OBVIOUS
  <2> QED  BY <1>1, <1>6, <2>1, <2>2, <2>3 DEF Ran, m
<1>8. p = "bwd" => <<k, m, l>> \in Ran(c, "fwd", x, s)
  <2> SUFFICES ASSUME p = "bwd"  PROVE <<k, m, l>> \in Ran(c, "fwd", x, s)
    OBVIOUS
  <2>1. m < N(c, "fwd", k, x)
    BY <1>1, <1>2, Possible
  <2> HIDE DEF k, m, l
  <2> QED  BY <1>5, <2>1 DEF Ran
<1> QED  BY <1>4, <1>5, <1>7, <1>8

\* What the layer below has put out is there for the one above.
LEMMA Below ==
  ASSUME NEW c \in Configs, NEW x \in 1..End(c), NEW s \in 1..NL(c, x),
         c.order[x].pass = "fwd", LayerAt(c, x, s) # 1,
         NEW j, j = <<Cur(c, x, s)[1], Cur(c, x, s)[2], Cur(c, x, s)[3] - 1>>
  PROVE  j \in Ran(c, "fwd", x, s) \ Ran(c, "bwd", x, s)
<1> DEFINE k == c.order[x].chunk
           m == N(c, "fwd", k, x)
<1>1. /\ k \in ChunksOf(c) /\ NL(c, x) = c.layers[k] /\ NL(c, x) \in Nat
      /\ s \in Nat /\ s <= NL(c, x) /\ s > 1 /\ LayerAt(c, x, s) = s /\ x \in 1..End(c) + 1 /\ x <= End(c)
  BY PointFacts DEF LayerAt
<1>2. c.order[x] = Pass("fwd", k) /\ c.order[x] # Pass("bwd", k)
  BY PassAt
<1>3. Cur(c, x, s) = <<k, m, s>>
  BY <1>1 DEF Cur
<1>4. m \in 0..MicrobatchesOf(c) - 1
  BY <1>1, <1>2, CountAt
<1>5. N(c, "bwd", k, x) \in 0..m
  BY <1>1, CountBound
<1>6. j = <<k, m, s - 1>>
  BY <1>3
<1>7. MicrobatchesOf(c) \in Nat
  BY <1>1, Totals
<1> HIDE DEF k
<1>8. j \in CallablesOf(c)
  <2>1. s - 1 \in 1..c.layers[k]
    BY <1>1
  <2> HIDE DEF m
  <2> QED  BY <1>1, <1>4, <1>6, <2>1, CallableOf
<1>9. j[1] = k /\ j[2] = m /\ j[3] = s - 1
  BY <1>6
<1>10. j \in Ran(c, "fwd", x, s)
  BY <1>1, <1>2, <1>8, <1>9 DEF Ran
<1>11. j \notin Ran(c, "bwd", x, s)
  <2>1. ~(m < N(c, "bwd", k, x))
    BY <1>4, <1>5, <1>7
  <2> QED  BY <1>2, <1>9, <2>1 DEF Ran
<1> QED  BY <1>10, <1>11

\* No backward without its forward.
LEMMA BackwardAfter ==
  ASSUME NEW c \in Configs, NEW x \in 1..End(c) + 1, NEW s
  PROVE  Ran(c, "bwd", x, s) \subseteq Ran(c, "fwd", x, s)
<1> SUFFICES ASSUME NEW i \in CallablesOf(c), i \in Ran(c, "bwd", x, s)  PROVE i \in Ran(c, "fwd", x, s)
  BY DEF Ran
<1>1. i[1] \in ChunksOf(c) /\ i[2] \in Nat
  BY CallableIs
<1>2. N(c, "bwd", i[1], x) \in 0..N(c, "fwd", i[1], x) /\ N(c, "fwd", i[1], x) \in 0..MicrobatchesOf(c)
      /\ MicrobatchesOf(c) \in Nat
  BY <1>1, CountBound, Totals
<1>3. x <= End(c) /\ c.order[x] = Pass("bwd", i[1]) => N(c, "bwd", i[1], x) < N(c, "fwd", i[1], x)
  <2>1. End(c) \in Nat
    BY ConfigFacts
  <2> SUFFICES ASSUME x <= End(c), c.order[x] = Pass("bwd", i[1])
               PROVE  N(c, "bwd", i[1], x) < N(c, "fwd", i[1], x)
    OBVIOUS
  <2>2. x \in 1..End(c)
    BY <2>1
  <2> QED  BY <1>1, <2>2, Possible
<1>4. i[2] < N(c, "fwd", i[1], x)
  BY <1>1, <1>2, <1>3 DEF Ran
<1> QED  BY <1>4 DEF Ran

-----------------------------------------------------------------------------
(* The tensors of the pool whose contents still matter at a point.            *)

LastBwd(c, x) == {y \in 1..x - 1 : c.order[y].pass = "bwd" /\ \A z \in y + 1..x - 1 : c.order[z].pass # "bwd"}
\* The input gradient of the last backward of a chunk, which another stage may be owed.
LastGrad(c, x) == {<<c.order[y].chunk, N(c, "bwd", c.order[y].chunk, y), 1>> : y \in LastBwd(c, x)}
\* The activations between forward and backward.
NeedAct(c, x, s) == Ran(c, "fwd", x, s) \ Ran(c, "bwd", x, s)
\* The input gradient that the layer below is about to use.
Above(c, x, s) ==
  IF x <= End(c) /\ c.order[x].pass = "bwd" /\ s > 1
  THEN {<<c.order[x].chunk, N(c, "bwd", c.order[x].chunk, x), LayerAt(c, x, s) + 1>>} ELSE {}
NeedGin(c, x, s) == LastGrad(c, x) \cup Above(c, x, s)
Needed(c, x, s) == ({"out", "saved"} \X NeedAct(c, x, s)) \cup ({"gin"} \X NeedGin(c, x, s))

LEMMA LastGradFirst ==
  ASSUME NEW c
  PROVE  LastGrad(c, 1) = {}
  BY DEF LastGrad, LastBwd

LEMMA LastGradStep ==
  ASSUME NEW c, NEW x \in Nat \ {0}
  PROVE  LastGrad(c, x + 1) =
           IF c.order[x].pass = "bwd" THEN {<<c.order[x].chunk, N(c, "bwd", c.order[x].chunk, x), 1>>}
           ELSE LastGrad(c, x)
<1>1. c.order[x].pass = "bwd" => LastBwd(c, x + 1) = {x}
  BY DEF LastBwd
<1>2. c.order[x].pass # "bwd" => LastBwd(c, x + 1) = LastBwd(c, x)
  <2> SUFFICES ASSUME c.order[x].pass # "bwd"  PROVE LastBwd(c, x + 1) = LastBwd(c, x)
    OBVIOUS
  <2>1. ASSUME NEW y \in LastBwd(c, x)  PROVE y \in LastBwd(c, x + 1)
    BY <2>1 DEF LastBwd
  <2>2. ASSUME NEW y \in LastBwd(c, x + 1)  PROVE y \in LastBwd(c, x)
    BY <2>2 DEF LastBwd
  <2> QED  BY <2>1, <2>2
<1> QED  BY <1>1, <1>2 DEF LastGrad

LEMMA LastGradIs ==
  ASSUME NEW c \in Configs, NEW x \in 1..End(c) + 1, NEW s, NEW g \in LastGrad(c, x)
  PROVE  g \in CallablesOf(c) /\ g[3] = 1 /\ g \in Ran(c, "bwd", x, s)
<1>1. PICK y \in LastBwd(c, x) : g = <<c.order[y].chunk, N(c, "bwd", c.order[y].chunk, y), 1>>
  BY DEF LastGrad
<1>2. y \in 1..End(c) /\ y \in Nat \ {0} /\ x \in Nat /\ y < x /\ c.order[y].pass = "bwd"
  <2>1. End(c) \in Nat
    BY ConfigFacts
  <2> QED  BY <2>1 DEF LastBwd
<1> DEFINE k == c.order[y].chunk
<1>3. k \in ChunksOf(c) /\ c.order[y] = Pass("bwd", k)
  BY <1>2, OrderAt
<1>4. N(c, "bwd", k, y) \in 0..MicrobatchesOf(c) - 1
  BY <1>2, <1>3, CountAt
<1>5. N(c, "bwd", k, y) < N(c, "bwd", k, x)
  BY <1>2, <1>3, CountStrict
<1>6. 1 \in 1..c.layers[k]
  BY <1>3, ConfigFacts
<1> HIDE DEF k
<1>7. g = <<k, N(c, "bwd", k, y), 1>>
  BY <1>1 DEF k
<1>8. g \in CallablesOf(c)
  <2> DEFINE m == N(c, "bwd", k, y)
  <2>1. m \in 0..MicrobatchesOf(c) - 1 /\ g = <<k, m, 1>>
    BY <1>4, <1>7
  <2> HIDE DEF m
  <2> QED  BY ONLY <2>1, <1>3, <1>6, CallableOf
<1> QED  BY <1>5, <1>7, <1>8 DEF Ran

LEMMA NextPoint ==
  ASSUME NEW c \in Configs, NEW x \in 1..End(c), NEW s \in 1..NL(c, x)
  PROVE  /\ NextX(c, x, s) \in 1..End(c) + 1 /\ NextX(c, x, s) \in {x, x + 1}
         /\ NextX(c, x, s) \in 1..End(c) => NextS(c, x, s) \in 1..NL(c, NextX(c, x, s))
         /\ NextX(c, x, s) = End(c) + 1 <=> x = End(c) /\ s = NL(c, x)
         /\ NextX(c, x, s) = End(c) + 1 => NextS(c, x, s) = 1
<1>1. /\ x \in Nat \ {0} /\ x <= End(c) /\ x \in 1..End(c) + 1 /\ x + 1 \in 1..End(c) + 1
      /\ s \in Nat \ {0} /\ NL(c, x) \in Nat \ {0} /\ s <= NL(c, x)
  BY PointFacts
<1>2. End(c) \in Nat
  BY ConfigFacts
<1>3. CASE s < NL(c, x)
  BY <1>1, <1>2, <1>3 DEF NextX, NextS
<1>4. CASE ~(s < NL(c, x))
  <2>1. NextX(c, x, s) = x + 1 /\ NextS(c, x, s) = 1
    BY <1>4 DEF NextX, NextS
  <2>2. x + 1 \in 1..End(c) => NL(c, x + 1) \in Nat \ {0}
    BY OrderAt
  <2> QED  BY <1>1, <1>2, <1>4, <2>1, <2>2
<1> QED  BY <1>3, <1>4

LEMMA NeedActStep ==
  ASSUME NEW c \in Configs, NEW x \in 1..End(c), NEW s \in 1..NL(c, x)
  PROVE  NeedAct(c, NextX(c, x, s), NextS(c, x, s)) =
           IF c.order[x].pass = "fwd" THEN NeedAct(c, x, s) \cup {Cur(c, x, s)}
           ELSE IF c.order[x].pass = "bwd" THEN NeedAct(c, x, s) \ {Cur(c, x, s)}
           ELSE NeedAct(c, x, s)
<1> DEFINE F == Ran(c, "fwd", x, s)
           B == Ran(c, "bwd", x, s)
           G == Ran(c, "fwd", NextX(c, x, s), NextS(c, x, s))
           A == Ran(c, "bwd", NextX(c, x, s), NextS(c, x, s))
           i == Cur(c, x, s)
           p == c.order[x].pass
<1>1. \A j \in CallablesOf(c) : /\ j \in G <=> j \in F \/ (p = "fwd" /\ j = i)
                                /\ j \in A <=> j \in B \/ (p = "bwd" /\ j = i)
  BY RanStep DEF Passes
<1>2. F \subseteq CallablesOf(c) /\ B \subseteq CallablesOf(c) /\ G \subseteq CallablesOf(c)
      /\ A \subseteq CallablesOf(c)
  BY DEF Ran
<1>3. p = "fwd" => i \in CallablesOf(c) /\ i \notin F
  BY CurIs
<1>4. B \subseteq F
  BY PointFacts, BackwardAfter
<1>5. p \in Passes
  BY OrderAt
<1> HIDE DEF F, B, G, A, i, p
<1>6. G \ A = IF p = "fwd" THEN (F \ B) \cup {i} ELSE IF p = "bwd" THEN (F \ B) \ {i} ELSE F \ B
  BY <1>1, <1>2, <1>3, <1>4, <1>5 DEF Passes
<1> QED  BY <1>6 DEF F, B, G, A, i, p, NeedAct

LEMMA NeedGinStep ==
  ASSUME NEW c \in Configs, NEW x \in 1..End(c), NEW s \in 1..NL(c, x)
  PROVE  /\ c.order[x].pass # "bwd" =>
              NeedGin(c, NextX(c, x, s), NextS(c, x, s)) \subseteq NeedGin(c, x, s)
         /\ c.order[x].pass = "bwd" =>
              NeedGin(c, NextX(c, x, s), NextS(c, x, s)) =
                (IF LayerAt(c, x, s) = 1 THEN {} ELSE LastGrad(c, x)) \cup {Cur(c, x, s)}
<1>1. /\ x \in Nat \ {0} /\ x <= End(c) /\ s \in Nat \ {0} /\ NL(c, x) \in Nat \ {0} /\ s <= NL(c, x)
  BY PointFacts
<1>2. LastGrad(c, x + 1) =
        IF c.order[x].pass = "bwd" THEN {<<c.order[x].chunk, N(c, "bwd", c.order[x].chunk, x), 1>>}
        ELSE LastGrad(c, x)
  BY <1>1, LastGradStep
<1>3. Above(c, x + 1, 1) = {}
  BY DEF Above
<1>4. c.order[x].pass = "bwd" => LayerAt(c, x, s) = NL(c, x) + 1 - s
  BY DEF LayerAt
<1>5. CASE s < NL(c, x)
  <2>1. NextX(c, x, s) = x /\ NextS(c, x, s) = s + 1
    BY <1>5 DEF NextX, NextS
  <2>2. c.order[x].pass # "bwd" => Above(c, x, s + 1) = {}
    BY DEF Above
  <2>3. c.order[x].pass = "bwd" => LayerAt(c, x, s) # 1 /\ LayerAt(c, x, s + 1) + 1 = LayerAt(c, x, s)
    BY <1>1, <1>4, <1>5 DEF LayerAt
  <2>4. c.order[x].pass = "bwd" => Above(c, x, s + 1) = {Cur(c, x, s)}
    BY <1>1, <2>3 DEF Above, Cur
  <2> QED  BY <2>1, <2>2, <2>3, <2>4 DEF NeedGin
<1>6. CASE ~(s < NL(c, x))
  <2>1. NextX(c, x, s) = x + 1 /\ NextS(c, x, s) = 1
    BY <1>6 DEF NextX, NextS
  <2>2. c.order[x].pass = "bwd" => LayerAt(c, x, s) = 1
    BY <1>1, <1>4, <1>6
  <2>3. c.order[x].pass = "bwd" =>
          Cur(c, x, s) = <<c.order[x].chunk, N(c, "bwd", c.order[x].chunk, x), 1>>
    BY <2>2 DEF Cur
  <2> QED  BY <1>2, <1>3, <2>1, <2>2, <2>3 DEF NeedGin
<1> QED  BY <1>5, <1>6

\* What is needed after a step was needed before, or the step has written it; and a backward
\* needs no more what it releases.
LEMMA NeededStep ==
  ASSUME NEW c \in Configs, NEW x \in 1..End(c), NEW s \in 1..NL(c, x),
         NEW t \in Needed(c, NextX(c, x, s), NextS(c, x, s))
  PROVE  /\ c.order[x].pass = "fwd" =>
              t \in Needed(c, x, s) \cup {<<"out", Cur(c, x, s)>>, <<"saved", Cur(c, x, s)>>}
         /\ c.order[x].pass = "bwd" =>
              \/ t = <<"gin", Cur(c, x, s)>>
              \/ /\ t \in Needed(c, x, s)
                 /\ t \notin {<<"out", Cur(c, x, s)>>, <<"saved", Cur(c, x, s)>>}
                 /\ t[1] = "gin" => LayerAt(c, x, s) # 1 /\ t[2] \in LastGrad(c, x)
         /\ c.order[x].pass = "dw" => t \in Needed(c, x, s)
<1> DEFINE y == NextX(c, x, s)
           r == NextS(c, x, s)
           i == Cur(c, x, s)
<1>1. t \in ({"out", "saved"} \X NeedAct(c, y, r)) \cup ({"gin"} \X NeedGin(c, y, r))
  BY DEF Needed
<1>2. \A u : u \in ({"out", "saved"} \X NeedAct(c, x, s)) \cup ({"gin"} \X NeedGin(c, x, s)) =>
               u \in Needed(c, x, s)
  BY DEF Needed
<1>3. LastGrad(c, x) \subseteq NeedGin(c, x, s)
  BY DEF NeedGin
<1>4. /\ NeedAct(c, y, r) = IF c.order[x].pass = "fwd" THEN NeedAct(c, x, s) \cup {i}
                            ELSE IF c.order[x].pass = "bwd" THEN NeedAct(c, x, s) \ {i}
                            ELSE NeedAct(c, x, s)
      /\ c.order[x].pass # "bwd" => NeedGin(c, y, r) \subseteq NeedGin(c, x, s)
      /\ c.order[x].pass = "bwd" =>
           NeedGin(c, y, r) = (IF LayerAt(c, x, s) = 1 THEN {} ELSE LastGrad(c, x)) \cup {i}
  BY NeedActStep, NeedGinStep
<1> HIDE DEF y, r, i
<1>5. ASSUME c.order[x].pass = "fwd"  PROVE t \in Needed(c, x, s) \cup {<<"out", i>>, <<"saved", i>>}
  BY <1>1, <1>2, <1>4, <1>5
<1>6. ASSUME c.order[x].pass = "bwd"
      PROVE  \/ t = <<"gin", i>>
             \/ /\ t \in Needed(c, x, s)
                /\ t \notin {<<"out", i>>, <<"saved", i>>}
                /\ t[1] = "gin" => LayerAt(c, x, s) # 1 /\ t[2] \in LastGrad(c, x)
  <2>1. CASE t \in {"out", "saved"} \X NeedAct(c, y, r)
    BY <1>2, <1>4, <1>6, <2>1
  <2>2. CASE t \in {"gin"} \X NeedGin(c, y, r)
    BY <1>2, <1>3, <1>4, <1>6, <2>2
  <2> QED  BY <1>1, <2>1, <2>2
<1>7. ASSUME c.order[x].pass = "dw"  PROVE t \in Needed(c, x, s)
  BY <1>1, <1>2, <1>4, <1>7
<1> QED  BY <1>5, <1>6, <1>7 DEF i

LEMMA NeededFirst ==
  ASSUME NEW c \in Configs
  PROVE  Needed(c, 1, 1) = {}
<1>1. NeedAct(c, 1, 1) = {}
  BY RanFirst DEF NeedAct, Passes
<1>2. Above(c, 1, 1) = {} /\ LastGrad(c, 1) = {}
  BY LastGradFirst DEF Above
<1> QED  BY <1>1, <1>2 DEF Needed, NeedGin

-----------------------------------------------------------------------------
(* What the checks during the capture amount to.                              *)

Legal(c) == IF c.delay THEN Alternates(c) ELSE \A x \in DOMAIN c.order : c.order[x].pass # "dw"

\* The checks let the pass at position y through.
AcceptedAt(c, y) ==
  /\ c.order[y].pass = "bwd" /\ c.delay => WgradMatches(c, y)
  /\ c.order[y].pass = "dw" =>
       LET k == c.order[y].chunk IN
       /\ c.delay /\ N(c, "dw", k, y) < N(c, "bwd", k, y)
       /\ \A z \in 1..y - 1 : c.order[z] = Pass("dw", k) => N(c, "bwd", k, z) # N(c, "bwd", k, y)

\* The dgrads of a chunk whose wgrads have not run.
Owed(c, k, x) == N(c, "bwd", k, x) - N(c, "dw", k, x)

LEMMA OwedStep ==
  ASSUME NEW c \in Configs, NEW k \in ChunksOf(c), NEW x \in 1..End(c)
  PROVE  /\ Owed(c, k, x) \in Int /\ Owed(c, k, x + 1) \in Int
         /\ c.order[x] = Pass("bwd", k) => Owed(c, k, x + 1) = Owed(c, k, x) + 1
         /\ c.order[x] = Pass("dw", k) => Owed(c, k, x + 1) = Owed(c, k, x) - 1
         /\ c.order[x] # Pass("bwd", k) /\ c.order[x] # Pass("dw", k) => Owed(c, k, x + 1) = Owed(c, k, x)
<1>1. x \in Nat \ {0} /\ x \in Int
  BY ConfigFacts
<1>2. N(c, "bwd", k, x) \in Nat /\ N(c, "dw", k, x) \in Nat
  BY <1>1, CountType
<1>3. /\ N(c, "bwd", k, x + 1) = IF c.order[x] = Pass("bwd", k) THEN N(c, "bwd", k, x) + 1 ELSE N(c, "bwd", k, x)
      /\ N(c, "dw", k, x + 1) = IF c.order[x] = Pass("dw", k) THEN N(c, "dw", k, x) + 1 ELSE N(c, "dw", k, x)
  BY <1>1, CountStep
<1>4. Pass("bwd", k) # Pass("dw", k)
  BY PassIs
<1> QED  BY <1>2, <1>3, <1>4 DEF Owed

LEMMA OwedFirst ==
  ASSUME NEW c, NEW k
  PROVE  Owed(c, k, 1) = 0
  BY CountFirst DEF Owed

\* A backward is accepted if what is owed comes back to what it was before.
LEMMA MatchIs ==
  ASSUME NEW c \in Configs, NEW k \in ChunksOf(c), NEW y \in 1..End(c),
         c.order[y] = Pass("bwd", k), WgradMatches(c, y)
  PROVE  \E q \in y + 1..End(c) : Owed(c, k, q + 1) = Owed(c, k, y)
<1>1. c.order[y].chunk = k /\ y \in Nat \ {0} /\ End(c) \in Nat
  BY PassIs, ConfigFacts
<1>2. PICK q \in y + 1..End(c) :
        Occurrences(c.order, Pass("bwd", k), y, q) = Occurrences(c.order, Pass("dw", k), y, q)
  BY <1>1 DEF WgradMatches, End
<1>3. q \in Nat /\ y <= q + 1 /\ q + 1 \in Int /\ y \in Int
  BY <1>1
<1>4. /\ Occurrences(c.order, Pass("bwd", k), y, q) = N(c, "bwd", k, q + 1) - N(c, "bwd", k, y)
      /\ Occurrences(c.order, Pass("dw", k), y, q) = N(c, "dw", k, q + 1) - N(c, "dw", k, y)
  BY <1>1, <1>3, CountBetween
<1>5. /\ N(c, "bwd", k, q + 1) \in Nat /\ N(c, "bwd", k, y) \in Nat
      /\ N(c, "dw", k, q + 1) \in Nat /\ N(c, "dw", k, y) \in Nat
  BY <1>3, CountType
<1> QED  BY <1>2, <1>4, <1>5 DEF Owed

LEMMA MatchIf ==
  ASSUME NEW c \in Configs, NEW k \in ChunksOf(c), NEW y \in 1..End(c),
         c.order[y] = Pass("bwd", k), NEW q \in y + 1..End(c), Owed(c, k, q + 1) = Owed(c, k, y)
  PROVE  WgradMatches(c, y)
<1>1. c.order[y].chunk = k /\ y \in Nat \ {0} /\ End(c) \in Nat
  BY PassIs, ConfigFacts
<1>3. q \in Nat /\ y <= q + 1 /\ q + 1 \in Int /\ y \in Int
  BY <1>1
<1>4. /\ Occurrences(c.order, Pass("bwd", k), y, q) = N(c, "bwd", k, q + 1) - N(c, "bwd", k, y)
      /\ Occurrences(c.order, Pass("dw", k), y, q) = N(c, "dw", k, q + 1) - N(c, "dw", k, y)
  BY <1>1, <1>3, CountBetween
<1>5. /\ N(c, "bwd", k, q + 1) \in Nat /\ N(c, "bwd", k, y) \in Nat
      /\ N(c, "dw", k, q + 1) \in Nat /\ N(c, "dw", k, y) \in Nat
  BY <1>3, CountType
<1>6. Occurrences(c.order, Pass("bwd", k), y, q) = Occurrences(c.order, Pass("dw", k), y, q)
  BY <1>4, <1>5 DEF Owed
<1> QED  BY <1>1, <1>6 DEF WgradMatches, End

LEMMA AlternatesIs ==
  ASSUME NEW c \in Configs
  PROVE  Alternates(c) <=>
           \A k \in ChunksOf(c) : /\ \A x \in 1..End(c) : Owed(c, k, x + 1) \in {0, 1}
                                  /\ Owed(c, k, End(c) + 1) = 0
<1>1. DOMAIN c.order = 1..End(c) /\ End(c) \in Nat \ {0} /\ Len(c.order) = End(c)
  BY ConfigFacts DEF End
<1>2. ASSUME NEW k \in ChunksOf(c), NEW x \in 1..End(c)
      PROVE  /\ Occurrences(c.order, Pass("bwd", k), 1, x) = N(c, "bwd", k, x + 1)
             /\ Occurrences(c.order, Pass("dw", k), 1, x) = N(c, "dw", k, x + 1)
             /\ N(c, "bwd", k, x + 1) \in Nat /\ N(c, "dw", k, x + 1) \in Nat
  <2>1. (x + 1) - 1 = x /\ x + 1 \in Int
    BY <1>1
  <2>2. N(c, "bwd", k, x + 1) \in Nat /\ N(c, "dw", k, x + 1) \in Nat
    BY <2>1, CountType
  <2> QED  BY <2>1, <2>2 DEF N
<1>3. ASSUME NEW k \in ChunksOf(c)
      PROVE  (/\ \A x \in DOMAIN c.order : Occurrences(c.order, Pass("bwd", k), 1, x)
                                             - Occurrences(c.order, Pass("dw", k), 1, x) \in {0, 1}
              /\ Occurrences(c.order, Pass("bwd", k), 1, Len(c.order))
                   = Occurrences(c.order, Pass("dw", k), 1, Len(c.order)))
             <=> (/\ \A x \in 1..End(c) : Owed(c, k, x + 1) \in {0, 1}
                  /\ Owed(c, k, End(c) + 1) = 0)
  <2>1. \A x \in 1..End(c) : Owed(c, k, x + 1) = Occurrences(c.order, Pass("bwd", k), 1, x)
                                             - Occurrences(c.order, Pass("dw", k), 1, x)
    BY <1>2 DEF Owed
  <2>2. End(c) \in 1..End(c)
    BY <1>1
  <2>3. Owed(c, k, End(c) + 1) = 0 <=>
          Occurrences(c.order, Pass("bwd", k), 1, End(c)) = Occurrences(c.order, Pass("dw", k), 1, End(c))
    BY <1>2, <2>1, <2>2
  <2> QED  BY <1>1, <2>1, <2>3
<1> QED  BY <1>3 DEF Alternates

\* Where a sum that is not zero last was zero.
LEMMA LastSettled ==
  ASSUME NEW c \in Configs, NEW k \in ChunksOf(c), NEW b \in 1..End(c) + 1, Owed(c, k, b) # 0
  PROVE  \E p \in 1..b - 1 : Owed(c, k, p) = 0 /\ \A y \in p + 1..b : Owed(c, k, y) # 0
<1> DEFINE Back(x) == \E p \in 1..x - 1 : Owed(c, k, p) = 0 /\ \A y \in p + 1..x : Owed(c, k, y) # 0
           T == {x \in 1..End(c) + 1 : Owed(c, k, x) # 0 => Back(x)}
<1>1. End(c) \in Nat \ {0}
  BY ConfigFacts
<1>2. 1 \in T
  BY <1>1, OwedFirst
<1>3. ASSUME NEW x \in 1..(End(c) + 1) - 1, x \in T  PROVE x + 1 \in T
  <2> SUFFICES ASSUME Owed(c, k, x + 1) # 0  PROVE Back(x + 1)
    BY <1>1
  <2>1. CASE Owed(c, k, x) = 0
    <3>1. x \in 1..(x + 1) - 1
      BY <1>1
    <3>2. \A y \in x + 1..x + 1 : y = x + 1
      BY <1>1
    <3> QED  BY <2>1, <3>1, <3>2
  <2>2. CASE Owed(c, k, x) # 0
    <3>1. PICK p \in 1..x - 1 : Owed(c, k, p) = 0 /\ \A y \in p + 1..x : Owed(c, k, y) # 0
      BY <1>3, <2>2
    <3>2. p \in 1..(x + 1) - 1
      BY <1>1
    <3>3. \A y \in p + 1..x + 1 : y \in p + 1..x \/ y = x + 1
      BY <1>1
    <3> QED  BY <3>1, <3>2, <3>3
  <2> QED  BY <2>1, <2>2
<1>4. 1..End(c) + 1 \subseteq T
  <2>1. 1 \in Nat /\ End(c) + 1 \in Nat
    BY <1>1
  <2> HIDE DEF T
  <2> QED  BY <1>2, <1>3, <2>1, PositionInduction
<1>5. Back(b)
  BY <1>4
<1> QED  BY <1>5

LEMMA AcceptedLegal ==
  ASSUME NEW c \in Configs, \A y \in 1..End(c) : AcceptedAt(c, y)
  PROVE  Legal(c)
<1>1. DOMAIN c.order = 1..End(c) /\ End(c) \in Nat \ {0} /\ c.delay \in BOOLEAN
  BY ConfigFacts
<1>2. CASE ~c.delay
  BY <1>1, <1>2 DEF Legal, AcceptedAt
<1>3. CASE c.delay
  <2> SUFFICES ASSUME NEW k \in ChunksOf(c)
               PROVE  /\ \A x \in 1..End(c) : Owed(c, k, x + 1) \in {0, 1}
                      /\ Owed(c, k, End(c) + 1) = 0
    BY <1>3, AlternatesIs DEF Legal
  <2>1. ASSUME NEW x \in 1..End(c)
        PROVE  /\ Owed(c, k, x) \in Int /\ Owed(c, k, x + 1) \in Int
               /\ c.order[x] = Pass("bwd", k) => Owed(c, k, x + 1) = Owed(c, k, x) + 1
               /\ c.order[x] = Pass("dw", k) => Owed(c, k, x + 1) = Owed(c, k, x) - 1
               /\ c.order[x] # Pass("bwd", k) /\ c.order[x] # Pass("dw", k) => Owed(c, k, x + 1) = Owed(c, k, x)
    BY OwedStep
  <2>2. ASSUME NEW x \in 1..End(c) + 1  PROVE Owed(c, k, x) \in Int
    <3>1. CASE x \in 1..End(c)
      BY <2>1, <3>1
    <3>2. CASE x = End(c) + 1
      <4>1. End(c) \in 1..End(c)
        BY <1>1
      <4> QED  BY <2>1, <3>2, <4>1
    <3> QED  BY <1>1, <3>1, <3>2
  <2>3. ASSUME NEW y \in 1..End(c), c.order[y] = Pass("bwd", k)
        PROVE  \E q \in y + 1..End(c) : Owed(c, k, q + 1) = Owed(c, k, y)
    <3>1. WgradMatches(c, y)
      BY <1>3, <2>3, PassIs DEF AcceptedAt
    <3> QED  BY <2>3, <3>1, MatchIs
  <2>4. ASSUME NEW y \in 1..End(c), c.order[y] = Pass("dw", k)
        PROVE  /\ Owed(c, k, y) > 0
               /\ \A z \in 1..y - 1 : c.order[z] = Pass("dw", k) => N(c, "bwd", k, z) # N(c, "bwd", k, y)
    <3>1. /\ N(c, "dw", k, y) < N(c, "bwd", k, y)
          /\ \A z \in 1..y - 1 : c.order[z] = Pass("dw", k) => N(c, "bwd", k, z) # N(c, "bwd", k, y)
      BY <2>4, PassIs DEF AcceptedAt
    <3>2. y \in Int
      BY <1>1
    <3>3. N(c, "dw", k, y) \in Nat /\ N(c, "bwd", k, y) \in Nat
      BY <3>2, CountType
    <3> QED  BY <3>1, <3>3 DEF Owed
  \* No wgrad without a dgrad.
  <2>5. ASSUME NEW x \in 1..End(c) + 1  PROVE Owed(c, k, x) >= 0
    <3> DEFINE T == {y \in 1..End(c) + 1 : Owed(c, k, y) >= 0}
    <3>1. 1 \in T
      BY <1>1, OwedFirst
    <3>2. ASSUME NEW y \in 1..(End(c) + 1) - 1, y \in T  PROVE y + 1 \in T
      <4>1. y \in 1..End(c) /\ y + 1 \in 1..End(c) + 1
        BY <1>1
      <4> QED  BY <2>1, <2>4, <3>2, <4>1
    <3>3. 1 \in Nat /\ End(c) + 1 \in Nat
      BY <1>1
    <3> HIDE DEF T
    <3>4. 1..End(c) + 1 \subseteq T
      BY <3>1, <3>2, <3>3, PositionInduction
    <3> QED  BY <3>4 DEF T
  \* After an unsettled backward that lacks a partner, what is owed never comes back to nothing.
  <2>6. ASSUME NEW x \in 1..End(c) + 1, Owed(c, k, x) >= 2, NEW w \in x..End(c) + 1
        PROVE  Owed(c, k, w) >= 1
    <3> DEFINE Paid(z) == \E v \in x..z - 1 : c.order[v] = Pass("dw", k) /\ N(c, "bwd", k, v) = N(c, "bwd", k, z)
               T == {z \in x..End(c) + 1 : Owed(c, k, z) >= 1 /\ (Owed(c, k, z) = 1 => Paid(z))}
    <3>1. x \in T
      BY <1>1, <2>2, <2>6
    <3>2. ASSUME NEW z \in x..(End(c) + 1) - 1, z \in T  PROVE z + 1 \in T
      <4>1. z \in 1..End(c) /\ z + 1 \in x..End(c) + 1 /\ z \in Nat \ {0} /\ z \in x..(z + 1) - 1
        BY <1>1
      <4>2. N(c, "bwd", k, z + 1) = IF c.order[z] = Pass("bwd", k) THEN N(c, "bwd", k, z) + 1 ELSE N(c, "bwd", k, z)
        BY <4>1, CountStep
      <4>3. Owed(c, k, z) >= 1 /\ (Owed(c, k, z) = 1 => Paid(z)) /\ Owed(c, k, z) \in Int
        BY <2>1, <3>2, <4>1
      <4>4. CASE c.order[z] = Pass("bwd", k)
        <5>1. Owed(c, k, z + 1) = Owed(c, k, z) + 1
          BY <2>1, <4>1, <4>4
        <5> QED  BY <4>1, <4>3, <5>1
      <4>5. CASE c.order[z] = Pass("dw", k)
        <5>1. Owed(c, k, z) # 1
          <6> SUFFICES ASSUME Paid(z)  PROVE FALSE
            BY <4>3
          <6>1. PICK v \in x..z - 1 : c.order[v] = Pass("dw", k) /\ N(c, "bwd", k, v) = N(c, "bwd", k, z)
            OBVIOUS
          <6>2. v \in 1..z - 1
            BY <1>1
          <6> QED  BY <2>4, <4>1, <4>5, <6>1, <6>2
        <5>2. Owed(c, k, z + 1) = Owed(c, k, z) - 1
          BY <2>1, <4>1, <4>5
        <5>3. Paid(z + 1)
          <6>1. N(c, "bwd", k, z) = N(c, "bwd", k, z + 1)
            BY <4>2, <4>5, PassIs
          <6> QED  BY <4>1, <4>5, <6>1
        <5> HIDE DEF Paid
        <5> QED  BY <4>1, <4>3, <5>1, <5>2, <5>3
      <4>6. CASE c.order[z] # Pass("bwd", k) /\ c.order[z] # Pass("dw", k)
        <5>1. Owed(c, k, z + 1) = Owed(c, k, z) /\ N(c, "bwd", k, z + 1) = N(c, "bwd", k, z)
          BY <2>1, <4>1, <4>2, <4>6
        <5>2. Paid(z) => Paid(z + 1)
          <6> SUFFICES ASSUME Paid(z)  PROVE Paid(z + 1)
            OBVIOUS
          <6>1. PICK v \in x..z - 1 : c.order[v] = Pass("dw", k) /\ N(c, "bwd", k, v) = N(c, "bwd", k, z)
            OBVIOUS
          <6>2. v \in x..(z + 1) - 1
            BY <1>1
          <6> QED  BY <5>1, <6>1, <6>2
        <5> HIDE DEF Paid
        <5> QED  BY <4>1, <4>3, <5>1, <5>2
      <4> QED  BY <4>4, <4>5, <4>6
    <3>3. x \in Nat /\ End(c) + 1 \in Nat
      BY <1>1
    <3> HIDE DEF T
    <3>4. x..End(c) + 1 \subseteq T
      BY <3>1, <3>2, <3>3, PositionInduction
    <3> QED  BY <3>4 DEF T
  \* A position where nothing is owed, and something after it.
  <2>7. ASSUME NEW p \in 1..End(c), Owed(c, k, p) = 0, Owed(c, k, p + 1) # 0
        PROVE  /\ Owed(c, k, p + 1) = 1
               /\ \E q \in p + 1..End(c) : Owed(c, k, q + 1) = 0
    <3>1. c.order[p] = Pass("bwd", k)
      BY <2>1, <2>4, <2>7
    <3> QED  BY <2>1, <2>3, <2>7, <3>1
  <2>8. ASSUME NEW x \in 1..End(c) + 1  PROVE Owed(c, k, x) <= 1
    <3> SUFFICES ASSUME Owed(c, k, x) > 1  PROVE FALSE
      BY <2>2
    <3> DEFINE S == {y \in 1..End(c) + 1 : Owed(c, k, y) >= 2}
    <3>1. S \in SUBSET Nat /\ x \in S
      BY <1>1, <2>2
    <3>2. PICK n \in S : \A y \in S : n <= y
      <4> HIDE DEF S
      <4> QED  BY <3>1, LeastNatural
    <3>3. n \in 1..End(c) + 1 /\ Owed(c, k, n) >= 2 /\ Owed(c, k, n) # 0
      BY <2>2, <3>2
    <3>4. PICK p \in 1..n - 1 : Owed(c, k, p) = 0 /\ \A y \in p + 1..n : Owed(c, k, y) # 0
      BY <3>3, LastSettled
    <3>5. p \in 1..End(c) /\ p + 1 \in p + 1..n
      BY <1>1, <3>3
    <3>6. PICK q \in p + 1..End(c) : Owed(c, k, q + 1) = 0
      BY <2>7, <3>4, <3>5
    <3>7. q + 1 \notin p + 1..n
      BY <3>4, <3>6
    <3>8. q + 1 \in n..End(c) + 1
      BY <1>1, <3>3, <3>5, <3>7
    <3>9. Owed(c, k, q + 1) >= 1
      BY <2>6, <3>3, <3>8
    <3> QED  BY <3>6, <3>9
  <2>9. Owed(c, k, End(c) + 1) = 0
    <3> SUFFICES ASSUME Owed(c, k, End(c) + 1) # 0  PROVE FALSE
      OBVIOUS
    <3>1. End(c) + 1 \in 1..End(c) + 1
      BY <1>1
    <3>2. PICK p \in 1..(End(c) + 1) - 1 :
            Owed(c, k, p) = 0 /\ \A y \in p + 1..End(c) + 1 : Owed(c, k, y) # 0
      BY <3>1, LastSettled
    <3>3. p \in 1..End(c) /\ p + 1 \in p + 1..End(c) + 1
      BY <1>1
    <3>4. PICK q \in p + 1..End(c) : Owed(c, k, q + 1) = 0
      BY <2>7, <3>2, <3>3
    <3>5. q + 1 \in p + 1..End(c) + 1
      BY <1>1
    <3> QED  BY <3>2, <3>4, <3>5
  <2>10. ASSUME NEW x \in 1..End(c)  PROVE Owed(c, k, x + 1) \in {0, 1}
    <3>1. x + 1 \in 1..End(c) + 1
      BY <1>1
    <3> QED  BY <2>2, <2>5, <2>8, <3>1
  <2> QED  BY <2>9, <2>10
<1> QED  BY <1>1, <1>2, <1>3

\* In a legal schedule a dgrad finds nothing owed, a wgrad one dgrad.
LEMMA LegalOwed ==
  ASSUME NEW c \in Configs, Legal(c), c.delay, NEW k \in ChunksOf(c), NEW x \in 1..End(c)
  PROVE  /\ Owed(c, k, x) \in {0, 1} /\ Owed(c, k, x + 1) \in {0, 1} /\ Owed(c, k, End(c) + 1) = 0
         /\ c.order[x] = Pass("bwd", k) => Owed(c, k, x) = 0
         /\ c.order[x] = Pass("dw", k) => Owed(c, k, x) = 1
<1>1. /\ \A y \in 1..End(c) : Owed(c, k, y + 1) \in {0, 1}
      /\ Owed(c, k, End(c) + 1) = 0
  BY AlternatesIs DEF Legal
<1>2. Owed(c, k, x) \in {0, 1}
  <2>1. CASE x = 1
    BY <2>1, OwedFirst
  <2>2. CASE x # 1
    <3>1. x - 1 \in 1..End(c) /\ (x - 1) + 1 = x
      BY <2>2, ConfigFacts
    <3> QED  BY <1>1, <3>1
  <2> QED  BY <2>1, <2>2
<1>3. Owed(c, k, x + 1) \in {0, 1}
  BY <1>1
<1> QED  BY <1>1, <1>2, <1>3, OwedStep

LEMMA LegalAccepted ==
  ASSUME NEW c \in Configs, Legal(c), NEW y \in 1..End(c)
  PROVE  AcceptedAt(c, y)
<1>1. /\ DOMAIN c.order = 1..End(c) /\ End(c) \in Nat \ {0} /\ c.delay \in BOOLEAN
      /\ y \in Nat \ {0} /\ y \in Int
  BY ConfigFacts
<1> DEFINE k == c.order[y].chunk
<1>2. k \in ChunksOf(c) /\ c.order[y] = Pass(c.order[y].pass, k)
  BY OrderAt
<1> HIDE DEF k
<1>3. ASSUME c.order[y].pass = "bwd", c.delay  PROVE WgradMatches(c, y)
  <2>1. c.order[y] = Pass("bwd", k)
    BY <1>2, <1>3
  <2>2. Owed(c, k, y) = 0 /\ Owed(c, k, End(c) + 1) = 0
    BY <1>2, <1>3, <2>1, LegalOwed
  <2>3. Owed(c, k, y + 1) = 1
    BY <1>2, <2>1, <2>2, OwedStep
  <2>4. End(c) \in y + 1..End(c)
    BY <1>1, <2>2, <2>3
  <2>5. Owed(c, k, End(c) + 1) = Owed(c, k, y)
    BY <2>2
  <2> QED  BY ONLY <1>2, <2>1, <2>4, <2>5, y \in 1..End(c), c \in Configs, MatchIf
<1>4. ASSUME c.order[y].pass = "dw"
      PROVE  /\ c.delay /\ N(c, "dw", k, y) < N(c, "bwd", k, y)
             /\ \A z \in 1..y - 1 : c.order[z] = Pass("dw", k) => N(c, "bwd", k, z) # N(c, "bwd", k, y)
  <2>1. c.delay
    BY <1>1, <1>4 DEF Legal
  <2>2. c.order[y] = Pass("dw", k)
    BY <1>2, <1>4
  <2>3. Owed(c, k, y) = 1
    BY <1>2, <2>1, <2>2, LegalOwed
  <2>4. N(c, "dw", k, y) \in Nat /\ N(c, "bwd", k, y) \in Nat
    BY <1>1, CountType
  <2>5. ASSUME NEW z \in 1..y - 1, c.order[z] = Pass("dw", k)  PROVE N(c, "bwd", k, z) # N(c, "bwd", k, y)
    <3>1. z \in 1..End(c) /\ z \in Nat \ {0} /\ z \in Int /\ z < y /\ y \in Nat
      BY <1>1
    <3>2. Owed(c, k, z) = 1
      BY <1>2, <2>1, <2>5, <3>1, LegalOwed
    <3>3. N(c, "dw", k, z) < N(c, "dw", k, y)
      BY <2>5, <3>1, CountStrict
    <3>4. N(c, "dw", k, z) \in Nat /\ N(c, "bwd", k, z) \in Nat
      BY <3>1, CountType
    <3> QED  BY <2>3, <2>4, <3>2, <3>3, <3>4 DEF Owed
  <2> QED  BY <2>1, <2>3, <2>4, <2>5 DEF Owed
<1> QED  BY <1>3, <1>4 DEF AcceptedAt, k

LEMMA WgradCur ==
  ASSUME NEW c \in Configs, Legal(c), NEW x \in 1..End(c), NEW s \in 1..NL(c, x), c.order[x].pass = "dw"
  PROVE  LET k == c.order[x].chunk IN
         /\ c.delay /\ NL(c, x) = 1 /\ s = 1 /\ LayerAt(c, x, s) = 1
         /\ N(c, "dw", k, x) = N(c, "bwd", k, x) - 1
         /\ N(c, "dw", k, x) \in 0..MicrobatchesOf(c) - 1
         /\ Cur(c, x, s) = <<k, N(c, "dw", k, x), 1>>
         /\ Cur(c, x, s) \in CallablesOf(c)
         /\ Cur(c, x, s) \in Ran(c, "bwd", x, s) /\ Cur(c, x, s) \notin Ran(c, "dw", x, s)
<1> DEFINE k == c.order[x].chunk
           m == N(c, "dw", k, x)
<1>1. /\ End(c) \in Nat /\ x \in Nat \ {0} /\ x \in Int /\ x \in 1..End(c) + 1 /\ k \in ChunksOf(c)
      /\ NL(c, x) = c.layers[k] /\ c.order[x] = Pass("dw", k)
  BY ConfigFacts, PointFacts, OrderAt
<1>2. c.delay
  BY <1>1, ConfigFacts DEF Legal
<1>3. NL(c, x) = 1 /\ s = 1 /\ LayerAt(c, x, s) = 1
  BY <1>1, <1>2, ConfigFacts DEF LayerAt
<1>4. Owed(c, k, x) = 1
  BY <1>1, <1>2, LegalOwed
<1>5. N(c, "bwd", k, x) \in 0..N(c, "fwd", k, x) /\ N(c, "fwd", k, x) \in 0..MicrobatchesOf(c) /\ m \in Nat
      /\ MicrobatchesOf(c) \in Nat
  BY <1>1, CountBound, Totals
<1>6. m = N(c, "bwd", k, x) - 1 /\ m \in 0..MicrobatchesOf(c) - 1
  BY <1>4, <1>5 DEF Owed
<1>7. Cur(c, x, s) = <<k, m, 1>>
  BY <1>3 DEF Cur
<1>8. 1 \in 1..c.layers[k]
  BY <1>1, <1>3
<1> HIDE DEF k, m
<1>9. <<k, m, 1>> \in CallablesOf(c)
  BY <1>1, <1>6, <1>8, CallableOf
<1>10. <<k, m, 1>>[1] = k /\ <<k, m, 1>>[2] = m /\ <<k, m, 1>>[3] = 1
  OBVIOUS
<1>11. <<k, m, 1>> \in Ran(c, "bwd", x, s)
  BY <1>5, <1>6, <1>9, <1>10 DEF Ran
<1>12. <<k, m, 1>> \notin Ran(c, "dw", x, s)
  <2>1. ~(m < N(c, "dw", k, x))
    BY <1>5 DEF m
  <2>2. ~(c.layers[k] + 1 - 1 < s)
    BY <1>1, <1>3
  <2> QED  BY <1>10, <2>1, <2>2 DEF Ran
<1> QED  BY <1>2, <1>3, <1>6, <1>7, <1>9, <1>11, <1>12 DEF k, m

-----------------------------------------------------------------------------
(* Which static inputs a callable uses.                                       *)

Keys(c) == {c.shape[k] : k \in ChunksOf(c)}
After(c, f, n) ==
  [x \in 0..n |-> IF x = 0 THEN OwnSamples(c) ELSE ReorganizeStep(c, f[x - 1], c.order[x])]
Reorganized(c) == CHOOSE f : f = After(c, f, End(c))

\* Step by step there is a state of the queues for every position.
LEMMA ReorganizedIs ==
  ASSUME NEW c \in Configs
  PROVE  /\ Reorganized(c)[0] = OwnSamples(c)
         /\ \A x \in 1..End(c) : Reorganized(c)[x] = ReorganizeStep(c, Reorganized(c)[x - 1], c.order[x])
<1>1. End(c) \in Nat
  BY ConfigFacts
<1> DEFINE T == {n \in 0..End(c) : \E f : f = After(c, f, n)}
<1>2. 0 \in T
  <2> DEFINE f == [x \in 0..0 |-> OwnSamples(c)]
  <2>1. f = After(c, f, 0)
    BY DEF After
  <2> HIDE DEF f
  <2> QED  BY <1>1, <2>1
<1>3. ASSUME NEW n \in 0..End(c) - 1, n \in T  PROVE n + 1 \in T
  <2>1. PICK f : f = After(c, f, n)
    BY <1>3
  <2> DEFINE g == [x \in 0..n + 1 |-> IF x = n + 1 THEN ReorganizeStep(c, f[n], c.order[n + 1]) ELSE f[x]]
  <2>2. ASSUME NEW x \in 0..n + 1
        PROVE  g[x] = IF x = 0 THEN OwnSamples(c) ELSE ReorganizeStep(c, g[x - 1], c.order[x])
    <3>1. CASE x = n + 1
      <4>1. x - 1 = n /\ n \in 0..n + 1 /\ n # n + 1 /\ x # 0
        BY <1>1, <3>1
      <4>2. g[n] = f[n]
        BY <4>1
      <4> QED  BY <3>1, <4>1, <4>2
    <3>2. CASE x # n + 1
      <4>1. x \in 0..n /\ (x # 0 => x - 1 \in 0..n + 1 /\ x - 1 # n + 1)
        BY <1>1, <3>2
      <4>2. f[x] = IF x = 0 THEN OwnSamples(c) ELSE ReorganizeStep(c, f[x - 1], c.order[x])
        BY <2>1, <4>1 DEF After
      <4> QED  BY <3>2, <4>1, <4>2
    <3> QED  BY <3>1, <3>2
  <2>3. g = [x \in 0..n + 1 |-> g[x]]
    OBVIOUS
  <2> HIDE DEF g
  <2>4. g = After(c, g, n + 1)
    BY <2>2, <2>3 DEF After
  <2> QED  BY <1>1, <2>4
<1>4. End(c) \in T
  <2>1. 0 \in Nat /\ End(c) \in Nat
    BY <1>1
  <2> HIDE DEF T
  <2>2. 0..End(c) \subseteq T
    BY <1>2, <1>3, <2>1, PositionInduction
  <2> QED  BY <1>1, <2>2
<1>5. Reorganized(c) = After(c, Reorganized(c), End(c))
  <2>1. \E f : f = After(c, f, End(c))
    BY <1>4
  <2> QED  BY ONLY <2>1 DEF Reorganized
<1> QED  BY <1>1, <1>5 DEF After

LEMMA SampleArgsIs ==
  ASSUME NEW c \in Configs
  PROVE  SampleArgs(c) = IF c.reuse THEN Reorganized(c)[End(c)].sample ELSE [i \in CallablesOf(c) |-> i]
  BY ConfigFacts DEF SampleArgs, Reorganized, After, End, OwnSamples

Reorganizing(c) ==
  [queue : [ChunksOf(c) -> Seq(Nat)], consumed : [Keys(c) -> Seq(CallablesOf(c))],
   fwdIdx : [ChunksOf(c) -> Nat], sample : [CallablesOf(c) -> CallablesOf(c)]]

KeyOf(c, i) == c.shape[i[1]]
\* Before position x: callables whose forward was seen, whose backward was not.
Seen(c, x) == {i \in CallablesOf(c) : i[2] < N(c, "fwd", i[1], x)}
Over(c, x) == {i \in CallablesOf(c) : i[2] < N(c, "bwd", i[1], x)}
\* A sample that can be taken over.
Free(c, q, i) == \E a \in DOMAIN q.consumed[KeyOf(c, i)] : q.consumed[KeyOf(c, i)][a] = i
\* A sample that is in use or may be used again.
Holds(c, q, x, i) == i \in Seen(c, x) /\ (i \notin Over(c, x) \/ Free(c, q, i))

QueueRight(c, q, x) == \A k \in ChunksOf(c) :
  /\ q.fwdIdx[k] = N(c, "fwd", k, x)
  /\ Len(q.queue[k]) = N(c, "fwd", k, x) - N(c, "bwd", k, x)
  /\ \A j \in 1..Len(q.queue[k]) : q.queue[k][j] = N(c, "bwd", k, x) + j - 1
ConsumedRight(c, q, x) == \A key \in Keys(c) : LET f == q.consumed[key] IN
  /\ \A a \in 1..Len(f) : KeyOf(c, f[a]) = key /\ f[a] \in Over(c, x)
  /\ \A a, b \in 1..Len(f) : f[a] = f[b] => a = b
SampleRight(c, q, x) == \A i \in CallablesOf(c) :
  /\ KeyOf(c, q.sample[i]) = KeyOf(c, i)
  /\ IF i \in Seen(c, x) THEN q.sample[i] \in Seen(c, x) ELSE q.sample[i] = i
SampleDistinct(c, q, x) == \A i, j \in CallablesOf(c) :
  Holds(c, q, x, i) /\ Holds(c, q, x, j) /\ q.sample[i] = q.sample[j] => i = j
\* No sample is lost.
Holder(c, q, x, i, j) == Holds(c, q, x, j) /\ KeyOf(c, j) = KeyOf(c, i) /\ q.sample[j] = q.sample[i]
SampleKept(c, q, x) == \A i \in Seen(c, x) : \E j \in CallablesOf(c) : Holder(c, q, x, i, j)
\* What a position adds uses no new sample, or all there are are in use.
Reuses(c, q, r, x, w) == \A i \in Seen(c, x + 1) : KeyOf(c, i) = w =>
  \E j \in Seen(c, x) : KeyOf(c, j) = w /\ q.sample[j] = r.sample[i]

FoldInv(c, q, x) ==
  /\ q \in Reorganizing(c) /\ QueueRight(c, q, x) /\ ConsumedRight(c, q, x)
  /\ SampleRight(c, q, x) /\ SampleDistinct(c, q, x) /\ SampleKept(c, q, x)

LEMMA ShapeKey ==
  ASSUME NEW c, NEW k \in ChunksOf(c)
  PROVE  c.shape[k] \in Keys(c)
  BY DEF Keys

LEMMA CallableKey ==
  ASSUME NEW c, NEW i \in CallablesOf(c)
  PROVE  KeyOf(c, i) \in Keys(c)
  BY CallableIs, ShapeKey DEF KeyOf

LEMMA ReorganizingParts ==
  ASSUME NEW c, NEW q
  PROVE  q \in Reorganizing(c) <=>
           /\ q = [queue |-> q.queue, consumed |-> q.consumed, fwdIdx |-> q.fwdIdx, sample |-> q.sample]
           /\ q.queue \in [ChunksOf(c) -> Seq(Nat)]
           /\ q.consumed \in [Keys(c) -> Seq(CallablesOf(c))]
           /\ q.fwdIdx \in [ChunksOf(c) -> Nat]
           /\ q.sample \in [CallablesOf(c) -> CallablesOf(c)]
  BY DEF Reorganizing

\* What a position adds to what was seen.
LEMMA SeenStep ==
  ASSUME NEW c \in Configs, NEW x \in 1..End(c), NEW i \in CallablesOf(c)
  PROVE  /\ i \in Seen(c, x + 1) <=>
              i \in Seen(c, x) \/ (c.order[x] = Pass("fwd", i[1]) /\ i[2] = N(c, "fwd", i[1], x))
         /\ i \in Over(c, x + 1) <=>
              i \in Over(c, x) \/ (c.order[x] = Pass("bwd", i[1]) /\ i[2] = N(c, "bwd", i[1], x))
<1>1. x \in Nat \ {0} /\ x \in Int
  BY ConfigFacts
<1>2. i[2] \in 0..MicrobatchesOf(c) - 1 /\ i[1] \in ChunksOf(c)
  BY CallableIs
<1>3. i[2] \in Nat
  BY <1>2
<1>4. N(c, "fwd", i[1], x) \in Nat /\ N(c, "bwd", i[1], x) \in Nat
  BY <1>1, CountType
<1>5. /\ N(c, "fwd", i[1], x + 1) = IF c.order[x] = Pass("fwd", i[1]) THEN N(c, "fwd", i[1], x) + 1
                                    ELSE N(c, "fwd", i[1], x)
      /\ N(c, "bwd", i[1], x + 1) = IF c.order[x] = Pass("bwd", i[1]) THEN N(c, "bwd", i[1], x) + 1
                                    ELSE N(c, "bwd", i[1], x)
  BY <1>1, CountStep
<1> QED  BY <1>3, <1>4, <1>5 DEF Seen, Over

\* A backward gives its samples back.
LEMMA FoldBackward ==
  ASSUME NEW c \in Configs, NEW x \in 1..End(c), NEW q, FoldInv(c, q, x), NEW k \in ChunksOf(c),
         c.order[x] = Pass("bwd", k), NEW r, r = Consume(c, q, k)
  PROVE  FoldInv(c, r, x + 1)
<1> DEFINE m == N(c, "bwd", k, x)
           key == c.shape[k]
           old == q.consumed[key]
           add == SamplesOf(c, k, m)
<1>1. /\ x \in Nat \ {0} /\ x \in Int /\ x + 1 \in Int /\ End(c) \in Nat /\ x \in 1..End(c) + 1
  BY ConfigFacts
<1>2. /\ q \in Reorganizing(c) /\ QueueRight(c, q, x) /\ ConsumedRight(c, q, x)
      /\ SampleRight(c, q, x) /\ SampleDistinct(c, q, x)
  BY DEF FoldInv
<1>3. /\ q.queue \in [ChunksOf(c) -> Seq(Nat)] /\ q.consumed \in [Keys(c) -> Seq(CallablesOf(c))]
      /\ q.fwdIdx \in [ChunksOf(c) -> Nat] /\ q.sample \in [CallablesOf(c) -> CallablesOf(c)]
  BY <1>2, ReorganizingParts
<1>4. m \in Nat /\ m < N(c, "fwd", k, x) /\ N(c, "fwd", k, x) \in Nat /\ m \in 0..MicrobatchesOf(c) - 1
  BY <1>1, CountType, Possible, CountAt
<1>5. \A j \in ChunksOf(c) :
        /\ N(c, "fwd", j, x) \in Nat /\ N(c, "bwd", j, x) \in Nat
        /\ N(c, "fwd", j, x + 1) = N(c, "fwd", j, x)
        /\ N(c, "bwd", j, x + 1) = IF j = k THEN N(c, "bwd", j, x) + 1 ELSE N(c, "bwd", j, x)
  BY <1>1, CountType, CountStep, PassIs
<1>6. /\ q.queue[k] \in Seq(Nat) /\ q.queue[k] # <<>> /\ Len(q.queue[k]) \in Nat
      /\ Head(q.queue[k]) = m
  <2>1. Len(q.queue[k]) = N(c, "fwd", k, x) - m /\ q.queue[k] \in Seq(Nat)
        /\ \A j \in 1..Len(q.queue[k]) : q.queue[k][j] = m + j - 1
    BY <1>2, <1>3 DEF QueueRight
  <2>2. 1 \in 1..Len(q.queue[k]) /\ Len(q.queue[k]) \in Nat
    BY <1>4, <2>1
  <2>3. q.queue[k] # <<>>
    BY <2>2
  <2>4. q.queue[k][1] = m
    BY <1>4, <2>1, <2>2
  <2> QED  BY <2>1, <2>2, <2>3, <2>4
<1>7. /\ r = [queue |-> r.queue, consumed |-> r.consumed, fwdIdx |-> r.fwdIdx, sample |-> r.sample]
      /\ r.queue = [q.queue EXCEPT ![k] = Tail(q.queue[k])]
      /\ r.consumed = [q.consumed EXCEPT ![key] = old \o add]
      /\ r.fwdIdx = q.fwdIdx
      /\ r.sample = q.sample
  <2> DEFINE rest == Tail(q.queue[k])
  <2>1. r = [q EXCEPT !.consumed[key] = @ \o add, !.queue[k] = rest]
    BY <1>6 DEF Consume
  <2> HIDE DEF key, old, add, rest
  <2>2. q = [queue |-> q.queue, consumed |-> q.consumed, fwdIdx |-> q.fwdIdx, sample |-> q.sample]
    BY <1>2 DEF Reorganizing
  <2>3. /\ r = [queue |-> r.queue, consumed |-> r.consumed, fwdIdx |-> r.fwdIdx, sample |-> r.sample]
        /\ r.queue = [q.queue EXCEPT ![k] = rest]
        /\ r.consumed = [q.consumed EXCEPT ![key] = q.consumed[key] \o add]
        /\ r.fwdIdx = q.fwdIdx
        /\ r.sample = q.sample
    BY ONLY <2>1, <2>2
  <2> QED  BY <2>3 DEF rest, old
<1>8. /\ add \in Seq(CallablesOf(c)) /\ Len(add) = c.layers[k] /\ c.layers[k] \in Nat
      /\ \A l \in 1..c.layers[k] : add[l] = <<k, m, l>> /\ <<k, m, l>> \in CallablesOf(c)
  <2>1. c.layers[k] \in Nat
    BY ConfigFacts
  <2>2. \A l \in 1..c.layers[k] : <<k, m, l>> \in CallablesOf(c)
    BY <1>4, CallableOf
  <2> HIDE DEF m
  <2>3. add = [l \in 1..c.layers[k] |-> <<k, m, l>>]
    BY DEF SamplesOf
  <2> HIDE DEF add
  <2>4. \A l \in 1..c.layers[k] : add[l] = <<k, m, l>>
    BY <2>3
  <2>5. add \in [1..c.layers[k] -> CallablesOf(c)]
    BY <2>2, <2>3
  <2>6. add \in Seq(CallablesOf(c)) /\ Len(add) = c.layers[k]
    <3> DEFINE n == c.layers[k]
               C == CallablesOf(c)
    <3>1. n \in Nat /\ add \in [1..n -> C]
      BY <2>1, <2>5
    <3> HIDE DEF n, C
    <3>2. add \in Seq(C) /\ Len(add) = n
      BY <3>1
    <3> QED  BY <3>2 DEF n, C
  <2> QED  BY <2>1, <2>2, <2>4, <2>6
<1>9. key \in Keys(c) /\ old \in Seq(CallablesOf(c)) /\ Len(old) \in Nat
  <2>1. key \in Keys(c)
    BY ShapeKey
  <2> QED  BY <1>3, <2>1
<1>10. /\ old \o add \in Seq(CallablesOf(c)) /\ Len(old \o add) = Len(old) + c.layers[k]
       /\ \A a \in 1..Len(old) + c.layers[k] :
            (old \o add)[a] = IF a <= Len(old) THEN old[a] ELSE add[a - Len(old)]
  <2> DEFINE C == CallablesOf(c)
  <2> HIDE DEF old, add, C
  <2>1. old \in Seq(C) /\ add \in Seq(C)
    BY <1>8, <1>9 DEF C
  <2>2. old \o add \in Seq(C) /\ Len(old \o add) = Len(old) + Len(add)
        /\ \A a \in 1..Len(old) + Len(add) :
             (old \o add)[a] = IF a <= Len(old) THEN old[a] ELSE add[a - Len(old)]
    BY ONLY <2>1, ConcatProperties
  <2> QED  BY <1>8, <2>2 DEF C
<1> HIDE DEF old, add, key, m
<1>11. r \in Reorganizing(c)
  <2>1. Tail(q.queue[k]) \in Seq(Nat)
    BY <1>6, HeadTailProperties
  <2>2. r.queue \in [ChunksOf(c) -> Seq(Nat)] /\ r.consumed \in [Keys(c) -> Seq(CallablesOf(c))]
    BY <1>3, <1>7, <1>10, <2>1, ZenonT(60)
  <2> QED  BY <1>3, <1>7, <2>2, ReorganizingParts
<1>12. QueueRight(c, r, x + 1)
  <2> SUFFICES ASSUME NEW j \in ChunksOf(c)
               PROVE  /\ r.fwdIdx[j] = N(c, "fwd", j, x + 1)
                      /\ Len(r.queue[j]) = N(c, "fwd", j, x + 1) - N(c, "bwd", j, x + 1)
                      /\ \A n \in 1..Len(r.queue[j]) : r.queue[j][n] = N(c, "bwd", j, x + 1) + n - 1
    BY DEF QueueRight
  <2>1. /\ q.fwdIdx[j] = N(c, "fwd", j, x)
        /\ Len(q.queue[j]) = N(c, "fwd", j, x) - N(c, "bwd", j, x)
        /\ \A n \in 1..Len(q.queue[j]) : q.queue[j][n] = N(c, "bwd", j, x) + n - 1
    BY <1>2 DEF QueueRight
  <2>2. CASE j # k
    BY <1>3, <1>5, <1>7, <2>1, <2>2
  <2>3. CASE j = k
    <3>1. r.queue[k] = Tail(q.queue[k])
      BY <1>3, <1>7
    <3>2. Len(Tail(q.queue[k])) = Len(q.queue[k]) - 1
          /\ \A n \in 1..Len(Tail(q.queue[k])) : Tail(q.queue[k])[n] = q.queue[k][n + 1]
      BY <1>6, HeadTailProperties
    <3>3. \A n \in 1..Len(q.queue[k]) - 1 : n \in Nat /\ n + 1 \in 1..Len(q.queue[k])
      BY <1>6
    <3>4. N(c, "bwd", k, x + 1) = N(c, "bwd", k, x) + 1 /\ N(c, "bwd", k, x) \in Nat
          /\ N(c, "fwd", k, x + 1) = N(c, "fwd", k, x) /\ N(c, "fwd", k, x) \in Nat
      BY <1>5
    <3>5. \A n \in 1..Len(q.queue[k]) - 1 : r.queue[k][n] = N(c, "bwd", k, x + 1) + n - 1
      <4> TAKE n \in 1..Len(q.queue[k]) - 1
      <4>1. r.queue[k][n] = q.queue[k][n + 1]
        BY <3>1, <3>2
      <4>2. q.queue[k][n + 1] = N(c, "bwd", k, x) + (n + 1) - 1
        BY <2>1, <2>3, <3>3
      <4> QED  BY <1>6, <3>3, <3>4, <4>1, <4>2
    <3>6. r.fwdIdx[k] = N(c, "fwd", k, x + 1)
      BY <1>7, <2>1, <2>3, <3>4
    <3>7. Len(r.queue[k]) = N(c, "fwd", k, x + 1) - N(c, "bwd", k, x + 1)
          /\ Len(r.queue[k]) = Len(q.queue[k]) - 1
      BY <2>1, <2>3, <3>1, <3>2, <3>4
    <3> QED  BY <2>3, <3>5, <3>6, <3>7
  <2> QED  BY <2>2, <2>3
<1>13. \A i \in CallablesOf(c) : (i \in Seen(c, x + 1) <=> i \in Seen(c, x))
                               /\ (i \in Over(c, x + 1) <=> i \in Over(c, x) \/ (i[1] = k /\ i[2] = m))
  <2> TAKE i \in CallablesOf(c)
  <2>1. i \in Seen(c, x + 1) <=> i \in Seen(c, x) \/ (c.order[x] = Pass("fwd", i[1]) /\ i[2] = N(c, "fwd", i[1], x))
    BY SeenStep
  <2>2. i \in Over(c, x + 1) <=> i \in Over(c, x) \/ (c.order[x] = Pass("bwd", i[1]) /\ i[2] = N(c, "bwd", i[1], x))
    BY SeenStep
  <2> QED  BY <2>1, <2>2, PassIs DEF m
\* What has just been given back was not over before.
<1>14. \A l \in 1..c.layers[k] :
         KeyOf(c, <<k, m, l>>) = key /\ <<k, m, l>> \in Over(c, x + 1) /\ <<k, m, l>> \notin Over(c, x)
  <2> TAKE l \in 1..c.layers[k]
  <2>1. <<k, m, l>> \in CallablesOf(c) /\ <<k, m, l>>[1] = k /\ <<k, m, l>>[2] = m
    BY <1>8
  <2>2. ~(m < N(c, "bwd", k, x))
    BY <1>4 DEF m
  <2> QED  BY <1>13, <2>1, <2>2 DEF KeyOf, Over, key
<1>15. ConsumedRight(c, r, x + 1)
  <2> SUFFICES ASSUME NEW w \in Keys(c)
               PROVE  /\ \A a \in 1..Len(r.consumed[w]) : KeyOf(c, r.consumed[w][a]) = w
                                                          /\ r.consumed[w][a] \in Over(c, x + 1)
                      /\ \A a, b \in 1..Len(r.consumed[w]) : r.consumed[w][a] = r.consumed[w][b] => a = b
    BY DEF ConsumedRight
  <2>1. /\ \A a \in 1..Len(q.consumed[w]) : KeyOf(c, q.consumed[w][a]) = w /\ q.consumed[w][a] \in Over(c, x)
        /\ \A a, b \in 1..Len(q.consumed[w]) : q.consumed[w][a] = q.consumed[w][b] => a = b
    BY <1>2 DEF ConsumedRight
  <2>2. Over(c, x) \subseteq CallablesOf(c)
    BY DEF Over
  <2>3. CASE w # key
    <3>1. r.consumed[w] = q.consumed[w]
      BY <1>3, <1>7, <2>3
    <3> QED  BY <1>13, <2>1, <2>2, <3>1
  <2>4. CASE w = key
    <3>1. r.consumed[w] = old \o add
      BY <1>3, <1>7, <1>9, <2>4
    <3>2. /\ \A a \in 1..Len(old) : KeyOf(c, old[a]) = key /\ old[a] \in Over(c, x)
          /\ \A a, b \in 1..Len(old) : old[a] = old[b] => a = b
      BY <2>1, <2>4 DEF old
    <3>3. ASSUME NEW a \in 1..Len(old) + c.layers[k]
          PROVE  \/ a \in 1..Len(old) /\ (old \o add)[a] = old[a]
                 \/ a - Len(old) \in 1..c.layers[k] /\ (old \o add)[a] = <<k, m, a - Len(old)>>
      <4>1. a <= Len(old) => a \in 1..Len(old)
        BY <1>9
      <4>2. ~(a <= Len(old)) => a - Len(old) \in 1..c.layers[k]
        BY <1>8, <1>9
      <4> QED  BY <1>8, <1>10, <4>1, <4>2
    <3>4. ASSUME NEW a \in 1..Len(old) + c.layers[k]
          PROVE  KeyOf(c, (old \o add)[a]) = key /\ (old \o add)[a] \in Over(c, x + 1)
      BY <1>13, <1>14, <2>2, <3>2, <3>3, ZenonT(60)
    <3>5. ASSUME NEW a \in 1..Len(old) + c.layers[k], NEW b \in 1..Len(old) + c.layers[k],
                 (old \o add)[a] = (old \o add)[b]
          PROVE  a = b
      <4>1. CASE a \in 1..Len(old) /\ (old \o add)[a] = old[a]
        BY <1>14, <3>2, <3>3, <3>5, <4>1
      <4>2. CASE a - Len(old) \in 1..c.layers[k] /\ (old \o add)[a] = <<k, m, a - Len(old)>>
        <5>1. b - Len(old) \in 1..c.layers[k] /\ (old \o add)[b] = <<k, m, b - Len(old)>>
          BY <1>14, <3>2, <3>3, <3>5, <4>2
        <5>2. a - Len(old) = b - Len(old)
          <6>1. <<k, m, a - Len(old)>> = <<k, m, b - Len(old)>>
            BY <3>5, <4>2, <5>1
          <6>2. <<k, m, a - Len(old)>>[3] = <<k, m, b - Len(old)>>[3]
            BY <6>1
          <6> QED  BY <6>2
        <5> QED  BY <1>8, <1>9, <5>2
      <4> QED  BY <3>3, <4>1, <4>2
    <3> QED  BY <1>10, <2>4, <3>1, <3>4, <3>5
  <2> QED  BY <2>3, <2>4
<1>16. SampleRight(c, r, x + 1)
  <2> SUFFICES ASSUME NEW i \in CallablesOf(c)
               PROVE  /\ KeyOf(c, r.sample[i]) = KeyOf(c, i)
                      /\ IF i \in Seen(c, x + 1) THEN r.sample[i] \in Seen(c, x + 1) ELSE r.sample[i] = i
    BY DEF SampleRight
  <2>1. /\ KeyOf(c, q.sample[i]) = KeyOf(c, i)
        /\ IF i \in Seen(c, x) THEN q.sample[i] \in Seen(c, x) ELSE q.sample[i] = i
    BY <1>2 DEF SampleRight
  <2>2. q.sample[i] \in CallablesOf(c)
    BY <1>3
  <2> QED  BY <1>7, <1>13, <2>1, <2>2
<1>17. ASSUME NEW i \in CallablesOf(c), Holds(c, r, x + 1, i)  PROVE Holds(c, q, x, i)
  <2>1. i \in Seen(c, x)
    BY <1>13, <1>17 DEF Holds
  <2>2. CASE i \notin Over(c, x)
    BY <2>1, <2>2 DEF Holds
  <2>3. CASE i \in Over(c, x)
    <3>1. Free(c, r, i)
      BY <1>13, <1>17, <2>3 DEF Holds
    <3> DEFINE w == KeyOf(c, i)
    <3>2. w \in Keys(c)
      BY CallableKey
    <3>3. PICK a \in DOMAIN r.consumed[w] : r.consumed[w][a] = i
      BY <3>1 DEF Free
    <3>4. CASE w # key
      <4>1. r.consumed[w] = q.consumed[w]
        BY <1>3, <1>7, <3>2, <3>4
      <4> QED  BY <2>1, <3>3, <4>1 DEF Holds, Free
    <3>5. CASE w = key
      <4>1. r.consumed[w] = old \o add
        BY <1>3, <1>7, <1>9, <3>5
      <4>2. a \in 1..Len(old) + c.layers[k]
        BY <1>10, <3>3, <4>1
      <4>3. a <= Len(old)
        <5> SUFFICES ASSUME ~(a <= Len(old))  PROVE FALSE
          OBVIOUS
        <5>1. a - Len(old) \in 1..c.layers[k]
          BY <1>8, <1>9, <4>2
        <5>2. i = <<k, m, a - Len(old)>>
          BY <1>8, <1>10, <3>3, <4>1, <4>2, <5>1
        <5> QED  BY <1>14, <2>3, <5>1, <5>2
      <4>4. a \in DOMAIN old /\ old[a] = i
        BY <1>9, <1>10, <3>3, <4>1, <4>2, <4>3
      <4>5. Free(c, q, i)
        BY <3>5, <4>4 DEF Free, old
      <4> QED  BY <2>1, <4>5 DEF Holds
    <3> QED  BY <3>4, <3>5
  <2> QED  BY <2>2, <2>3
<1>18. SampleDistinct(c, r, x + 1)
  BY <1>2, <1>7, <1>17 DEF SampleDistinct
\* What could be used again still can, and what is over can too.
<1>19. ASSUME NEW j \in CallablesOf(c), Holds(c, q, x, j)  PROVE Holds(c, r, x + 1, j)
  <2> DEFINE w == KeyOf(c, j)
  <2>1. j \in Seen(c, x + 1) /\ w \in Keys(c)
    BY <1>13, <1>19, CallableKey DEF Holds
  <2>2. CASE j \in Over(c, x)
    <3>1. PICK a \in DOMAIN q.consumed[w] : q.consumed[w][a] = j
      BY <1>19, <2>2 DEF Holds, Free
    <3> HIDE DEF w
    <3>2. CASE w # key
      <4>1. r.consumed[w] = q.consumed[w]
        BY <1>3, <1>7, <2>1, <3>2
      <4> QED  BY <2>1, <3>1, <4>1 DEF Holds, Free, w
    <3>3. CASE w = key
      <4>1. r.consumed[w] = old \o add /\ q.consumed[w] = old
        BY <1>3, <1>7, <1>9, <3>3 DEF old
      <4>2. a \in 1..Len(old) /\ a \in 1..Len(old) + c.layers[k] /\ a <= Len(old)
        BY <1>8, <1>9, <3>1, <4>1
      <4>3. (old \o add)[a] = j /\ a \in DOMAIN (old \o add)
        BY <1>10, <3>1, <4>1, <4>2
      <4> QED  BY <2>1, <4>1, <4>3 DEF Holds, Free, w
    <3> QED  BY <3>2, <3>3
  <2>3. CASE j \notin Over(c, x) /\ j \in Over(c, x + 1)
    <3>1. j[1] = k /\ j[2] = m /\ j = <<j[1], j[2], j[3]>> /\ j[3] \in 1..c.layers[j[1]]
      BY <1>13, <2>3, CallableIs
    <3> DEFINE l == j[3]
    <3>2. j = <<k, m, l>> /\ l \in 1..c.layers[k]
      BY <3>1
    <3>3. w = key
      BY <3>1 DEF KeyOf, key
    <3> HIDE DEF w, l
    <3>4. r.consumed[w] = old \o add
      BY <1>3, <1>7, <1>9, <3>3
    <3> DEFINE b == Len(old) + l
    <3>5. b \in 1..Len(old) + c.layers[k] /\ ~(b <= Len(old)) /\ b - Len(old) = l
      BY <1>8, <1>9, <3>2
    <3> HIDE DEF b
    <3>6. (old \o add)[b] = add[b - Len(old)]
      BY <1>10, <3>5
    <3>7. (old \o add)[b] = j /\ b \in DOMAIN (old \o add)
      BY <1>8, <1>10, <3>2, <3>5, <3>6
    <3> QED  BY <2>1, <3>4, <3>7 DEF Holds, Free, w
  <2>4. CASE j \notin Over(c, x + 1)
    BY <2>1, <2>4 DEF Holds
  <2> QED  BY <2>2, <2>3, <2>4
<1>20. SampleKept(c, r, x + 1)
  <2> SUFFICES ASSUME NEW i \in Seen(c, x + 1)
               PROVE  \E j \in CallablesOf(c) : Holder(c, r, x + 1, i, j)
    BY DEF SampleKept
  <2>1. i \in Seen(c, x)
    BY <1>13 DEF Seen
  <2>2. PICK j \in CallablesOf(c) : Holder(c, q, x, i, j)
    BY <2>1 DEF FoldInv, SampleKept
  <2>3. Holds(c, r, x + 1, j)
    BY <1>19, <2>2 DEF Holder
  <2> QED  BY <1>7, <2>2, <2>3 DEF Holder
<1> QED  BY <1>11, <1>12, <1>15, <1>16, <1>18, <1>20 DEF FoldInv

\* A forward takes the samples that are free, one for each layer.
LEMMA FoldForward ==
  ASSUME NEW c \in Configs, NEW x \in 1..End(c), NEW q, FoldInv(c, q, x), NEW k \in ChunksOf(c),
         c.order[x] = Pass("fwd", k), NEW r, r = TakeSamples(c, q, k)
  PROVE  /\ FoldInv(c, r, x + 1)
         /\ \A i \in Seen(c, x) : r.sample[i] = q.sample[i]
         /\ \A w \in Keys(c) : Reuses(c, q, r, x, w) \/ r.consumed[w] = <<>>
<1> DEFINE m == N(c, "fwd", k, x)
           key == c.shape[k]
           L == c.layers[k]
           free == q.consumed[key]
           n == IF Len(free) < L THEN Len(free) ELSE L
           rest == SubSeq(free, n + 1, Len(free))
           sam == [i \in CallablesOf(c) |->
                     IF i[1] = k /\ i[2] = m /\ i[3] <= n THEN q.sample[free[i[3]]] ELSE q.sample[i]]
           C == CallablesOf(c)
<1>1. /\ x \in Nat \ {0} /\ x \in Int /\ x + 1 \in Int /\ End(c) \in Nat /\ x \in 1..End(c) + 1
  BY ConfigFacts
<1>2. /\ q \in Reorganizing(c) /\ QueueRight(c, q, x) /\ ConsumedRight(c, q, x)
      /\ SampleRight(c, q, x) /\ SampleDistinct(c, q, x)
  BY DEF FoldInv
<1>3. /\ q.queue \in [ChunksOf(c) -> Seq(Nat)] /\ q.consumed \in [Keys(c) -> Seq(C)]
      /\ q.fwdIdx \in [ChunksOf(c) -> Nat] /\ q.sample \in [C -> C]
      /\ q = [queue |-> q.queue, consumed |-> q.consumed, fwdIdx |-> q.fwdIdx, sample |-> q.sample]
  BY <1>2, ReorganizingParts
<1>4. m \in Nat /\ m \in 0..MicrobatchesOf(c) - 1 /\ N(c, "bwd", k, x) \in 0..m
  BY <1>1, CountType, CountAt, CountBound
<1>5. \A j \in ChunksOf(c) :
        /\ N(c, "fwd", j, x) \in Nat /\ N(c, "bwd", j, x) \in Nat
        /\ N(c, "bwd", j, x + 1) = N(c, "bwd", j, x)
        /\ N(c, "fwd", j, x + 1) = IF j = k THEN N(c, "fwd", j, x) + 1 ELSE N(c, "fwd", j, x)
  BY <1>1, CountType, CountStep, PassIs
<1>6. q.fwdIdx[k] = m
  BY <1>2 DEF QueueRight
<1>7. /\ r = [queue |-> r.queue, consumed |-> r.consumed, fwdIdx |-> r.fwdIdx, sample |-> r.sample]
      /\ r.queue = [q.queue EXCEPT ![k] = Append(q.queue[k], m)]
      /\ r.consumed = [q.consumed EXCEPT ![key] = rest]
      /\ r.fwdIdx = [q.fwdIdx EXCEPT ![k] = m + 1]
      /\ r.sample = sam
  <2>1. r = [q EXCEPT !.queue[k] = Append(@, m), !.consumed[key] = rest, !.fwdIdx[k] = m + 1, !.sample = sam]
    BY <1>6 DEF TakeSamples
  <2> HIDE DEF m, key, L, free, n, rest, sam, C
  <2> QED  BY ONLY <1>3, <2>1
<1>8. key \in Keys(c) /\ free \in Seq(C) /\ Len(free) \in Nat
      /\ \A a \in 1..Len(free) : free[a] \in C
  <2>1. key \in Keys(c)
    BY ShapeKey
  <2>2. free \in Seq(C)
    BY <1>3, <2>1
  <2> HIDE DEF free, C
  <2> QED  BY <2>1, <2>2, ElementOfSeq
<1>9. L \in Nat \ {0} /\ n \in 0..L /\ n \in 0..Len(free)
  <2>1. L \in Nat \ {0}
    BY ConfigFacts
  <2> HIDE DEF L, free
  <2> QED  BY <1>8, <2>1
<1>10. rest \in Seq(C) /\ Len(rest) = Len(free) - n
       /\ \A a \in 1..Len(free) - n : rest[a] = free[a + n] /\ a + n \in 1..Len(free)
  <2> HIDE DEF L, free, n, C
  <2>1. n + 1 \in Int /\ Len(free) \in Int /\ \A a \in n + 1..Len(free) : free[a] \in C
    BY <1>8, <1>9
  <2>2. /\ rest \in Seq(C)
        /\ Len(rest) = IF n + 1 <= Len(free) THEN Len(free) - (n + 1) + 1 ELSE 0
        /\ \A a \in 1..Len(free) - (n + 1) + 1 : rest[a] = free[(n + 1) + a - 1]
    BY <2>1, SubSeqProperties
  <2>3. \A a \in 1..Len(free) - n : a \in 1..Len(free) - (n + 1) + 1 /\ (n + 1) + a - 1 = a + n
                                    /\ a + n \in 1..Len(free)
    BY <1>8, <1>9
  <2> HIDE DEF rest
  <2> QED  BY <1>8, <1>9, <2>2, <2>3
<1> HIDE DEF m, key, L, free, n, rest, sam, C
<1>11. ASSUME NEW i \in C
       PROVE  /\ i = <<i[1], i[2], i[3]>> /\ i[3] \in Nat \ {0} /\ i[2] \in Nat /\ i[1] \in ChunksOf(c)
              /\ (i[1] = k => i[3] <= L)
  BY CallableIs, ConfigFacts DEF C, L
<1>12. \A a \in 1..Len(free) : KeyOf(c, free[a]) = key /\ free[a] \in Over(c, x) /\ free[a] \in C
  BY <1>2, <1>8 DEF ConsumedRight, free
<1>13. \A a, b \in 1..Len(free) : free[a] = free[b] => a = b
  BY <1>2, <1>8 DEF ConsumedRight, free
<1>14. \A i \in C : /\ i \in Seen(c, x + 1) <=> i \in Seen(c, x) \/ (i[1] = k /\ i[2] = m)
                    /\ i \in Over(c, x + 1) <=> i \in Over(c, x)
  <2> TAKE i \in C
  <2>1. i \in Seen(c, x + 1) <=> i \in Seen(c, x) \/ (c.order[x] = Pass("fwd", i[1]) /\ i[2] = N(c, "fwd", i[1], x))
    BY SeenStep DEF C
  <2>2. i \in Over(c, x + 1) <=> i \in Over(c, x) \/ (c.order[x] = Pass("bwd", i[1]) /\ i[2] = N(c, "bwd", i[1], x))
    BY SeenStep DEF C
  <2> QED  BY <2>1, <2>2, PassIs DEF m
\* The callables of the forward were not seen before.
<1>15. \A i \in C : i[1] = k /\ i[2] = m => i \notin Seen(c, x) /\ i \notin Over(c, x)
  <2> TAKE i \in C
  <2>1. ~(m < N(c, "fwd", k, x)) /\ ~(m < N(c, "bwd", k, x))
    BY <1>4, <1>5 DEF m
  <2> QED  BY <2>1 DEF Seen, Over
<1>16. \A i \in C : i \in Over(c, x) => i \in Seen(c, x)
  <2> TAKE i \in C
  <2>1. N(c, "bwd", i[1], x) <= N(c, "fwd", i[1], x) /\ i[2] \in Nat
        /\ N(c, "bwd", i[1], x) \in Nat /\ N(c, "fwd", i[1], x) \in Nat
    BY <1>1, <1>5, <1>11, CountBound
  <2> QED  BY <2>1 DEF Seen, Over
<1>17. \A i \in C : /\ i[1] = k /\ i[2] = m /\ i[3] <= n =>
                        r.sample[i] = q.sample[free[i[3]]] /\ i[3] \in 1..Len(free)
                    /\ ~(i[1] = k /\ i[2] = m /\ i[3] <= n) => r.sample[i] = q.sample[i]
  <2> TAKE i \in C
  <2>1. r.sample[i] = IF i[1] = k /\ i[2] = m /\ i[3] <= n THEN q.sample[free[i[3]]] ELSE q.sample[i]
    BY <1>7 DEF sam, C
  <2>2. i[3] <= n => i[3] \in 1..Len(free)
    BY <1>8, <1>9, <1>11, SMTT(30)
  <2> QED  BY <2>1, <2>2
<1>18. r \in Reorganizing(c)
  <2>1. Append(q.queue[k], m) \in Seq(Nat)
    BY <1>3, <1>4
  <2>2. r.queue \in [ChunksOf(c) -> Seq(Nat)]
    BY <1>3, <1>7, <2>1
  <2>3. r.consumed \in [Keys(c) -> Seq(C)]
    BY <1>3, <1>7, <1>10, ZenonT(60)
  <2>4. r.fwdIdx \in [ChunksOf(c) -> Nat]
    BY <1>3, <1>4, <1>7
  <2>5. r.sample \in [C -> C]
    <3>1. \A i \in C : r.sample[i] \in C
      BY <1>3, <1>12, <1>17
    <3>2. r.sample = [i \in C |-> r.sample[i]]
      BY <1>7 DEF sam, C
    <3> QED  BY <3>1, <3>2
  <2> QED  BY <1>7, <2>2, <2>3, <2>4, <2>5, ReorganizingParts DEF C
<1>19. QueueRight(c, r, x + 1)
  <2> SUFFICES ASSUME NEW j \in ChunksOf(c)
               PROVE  /\ r.fwdIdx[j] = N(c, "fwd", j, x + 1)
                      /\ Len(r.queue[j]) = N(c, "fwd", j, x + 1) - N(c, "bwd", j, x + 1)
                      /\ \A a \in 1..Len(r.queue[j]) : r.queue[j][a] = N(c, "bwd", j, x + 1) + a - 1
    BY DEF QueueRight
  <2>1. /\ q.fwdIdx[j] = N(c, "fwd", j, x)
        /\ Len(q.queue[j]) = N(c, "fwd", j, x) - N(c, "bwd", j, x)
        /\ \A a \in 1..Len(q.queue[j]) : q.queue[j][a] = N(c, "bwd", j, x) + a - 1
    BY <1>2 DEF QueueRight
  <2>2. CASE j # k
    BY <1>3, <1>5, <1>7, <2>1, <2>2
  <2>3. CASE j = k
    <3>1. r.queue[k] = Append(q.queue[k], m) /\ q.queue[k] \in Seq(Nat) /\ r.fwdIdx[k] = m + 1
      BY <1>3, <1>7
    <3>2. Len(Append(q.queue[k], m)) = Len(q.queue[k]) + 1 /\ Len(q.queue[k]) \in Nat
          /\ \A a \in 1..Len(q.queue[k]) + 1 :
               Append(q.queue[k], m)[a] = IF a <= Len(q.queue[k]) THEN q.queue[k][a] ELSE m
      BY <1>4, <3>1
    <3>3. N(c, "bwd", k, x + 1) = N(c, "bwd", k, x) /\ N(c, "bwd", k, x) \in Nat
          /\ N(c, "fwd", k, x + 1) = m + 1 /\ m = N(c, "fwd", k, x)
      BY <1>5 DEF m
    <3>4. \A a \in 1..Len(q.queue[k]) + 1 : r.queue[k][a] = N(c, "bwd", k, x + 1) + a - 1
      <4> TAKE a \in 1..Len(q.queue[k]) + 1
      <4>1. CASE a <= Len(q.queue[k])
        <5>1. a \in 1..Len(q.queue[k])
          BY <3>2, <4>1
        <5> QED  BY <2>1, <2>3, <3>1, <3>2, <3>3, <4>1, <5>1
      <4>2. CASE ~(a <= Len(q.queue[k]))
        <5>1. a = Len(q.queue[k]) + 1
          BY <3>2, <4>2
        <5>2. Len(q.queue[k]) = m - N(c, "bwd", k, x)
          BY <2>1, <2>3, <3>3
        <5> QED  BY <1>4, <3>1, <3>2, <3>3, <4>2, <5>1, <5>2
      <4> QED  BY <4>1, <4>2
    <3>5. Len(r.queue[k]) = Len(q.queue[k]) + 1
      BY <3>1, <3>2
    <3>6. Len(q.queue[k]) = m - N(c, "bwd", k, x)
      BY <2>1, <2>3, <3>3
    <3>7. r.fwdIdx[k] = N(c, "fwd", k, x + 1)
      BY <3>1, <3>3
    <3>8. Len(r.queue[k]) = N(c, "fwd", k, x + 1) - N(c, "bwd", k, x + 1)
      <4> DEFINE nb == N(c, "bwd", k, x)
      <4>1. nb \in Nat /\ N(c, "bwd", k, x + 1) = nb /\ N(c, "fwd", k, x + 1) = m + 1
            /\ Len(r.queue[k]) = (m - nb) + 1
        BY <3>3, <3>5, <3>6
      <4> HIDE DEF nb
      <4> QED  BY <1>4, <4>1
    <3>9. \A a \in 1..Len(r.queue[k]) : r.queue[k][a] = N(c, "bwd", k, x + 1) + a - 1
      BY <3>4, <3>5
    <3> HIDE DEF N
    <3> QED  BY <2>3, <3>7, <3>8, <3>9
  <2> QED  BY <2>2, <2>3
<1>20. ConsumedRight(c, r, x + 1)
  <2> SUFFICES ASSUME NEW w \in Keys(c)
               PROVE  /\ \A a \in 1..Len(r.consumed[w]) : KeyOf(c, r.consumed[w][a]) = w
                                                          /\ r.consumed[w][a] \in Over(c, x + 1)
                      /\ \A a, b \in 1..Len(r.consumed[w]) : r.consumed[w][a] = r.consumed[w][b] => a = b
    BY DEF ConsumedRight
  <2>1. /\ \A a \in 1..Len(q.consumed[w]) : KeyOf(c, q.consumed[w][a]) = w /\ q.consumed[w][a] \in Over(c, x)
        /\ \A a, b \in 1..Len(q.consumed[w]) : q.consumed[w][a] = q.consumed[w][b] => a = b
    BY <1>2 DEF ConsumedRight
  <2>2. Over(c, x) \subseteq C
    BY DEF Over, C
  <2>3. CASE w # key
    <3>1. r.consumed[w] = q.consumed[w]
      BY <1>3, <1>7, <2>3
    <3> QED  BY <1>14, <2>1, <2>2, <3>1
  <2>4. CASE w = key
    <3>1. r.consumed[w] = rest
      BY <1>3, <1>7, <1>8, <2>4
    <3>2. \A a \in 1..Len(rest) : KeyOf(c, rest[a]) = key /\ rest[a] \in Over(c, x + 1)
      BY <1>10, <1>12, <1>14
    <3>3. ASSUME NEW a \in 1..Len(rest), NEW b \in 1..Len(rest), rest[a] = rest[b]  PROVE a = b
      <4>1. a + n = b + n
        BY <1>10, <1>13, <3>3
      <4> QED  BY <1>8, <1>9, <1>10, <4>1
    <3> QED  BY <2>4, <3>1, <3>2, <3>3
  <2> QED  BY <2>3, <2>4
<1>21. \A i \in C : /\ KeyOf(c, q.sample[i]) = KeyOf(c, i)
                    /\ IF i \in Seen(c, x) THEN q.sample[i] \in Seen(c, x) ELSE q.sample[i] = i
                    /\ q.sample[i] \in C
  BY <1>2, <1>3 DEF SampleRight, C
<1>22. SampleRight(c, r, x + 1)
  <2> SUFFICES ASSUME NEW i \in C
               PROVE  /\ KeyOf(c, r.sample[i]) = KeyOf(c, i)
                      /\ IF i \in Seen(c, x + 1) THEN r.sample[i] \in Seen(c, x + 1) ELSE r.sample[i] = i
    BY DEF SampleRight, C
  <2>1. CASE i[1] = k /\ i[2] = m /\ i[3] <= n
    <3>1. r.sample[i] = q.sample[free[i[3]]] /\ i[3] \in 1..Len(free)
      BY <1>17, <2>1
    <3>2. KeyOf(c, free[i[3]]) = key /\ free[i[3]] \in Seen(c, x) /\ free[i[3]] \in C
      BY <1>12, <1>16, <3>1
    <3>3. KeyOf(c, q.sample[free[i[3]]]) = key /\ q.sample[free[i[3]]] \in Seen(c, x)
          /\ q.sample[free[i[3]]] \in C
      BY <1>21, <3>2
    <3>4. KeyOf(c, i) = key
      BY <2>1 DEF KeyOf, key
    <3>5. i \in Seen(c, x + 1)
      BY <1>14, <2>1
    <3>6. q.sample[free[i[3]]] \in Seen(c, x + 1)
      BY <1>14, <3>3
    <3> HIDE DEF KeyOf
    <3> QED  BY <3>1, <3>3, <3>4, <3>5, <3>6
  <2>2. CASE ~(i[1] = k /\ i[2] = m /\ i[3] <= n)
    <3>1. r.sample[i] = q.sample[i]
      BY <1>17, <2>2
    <3> QED  BY <1>14, <1>21, <3>1
  <2> QED  BY <2>1, <2>2
\* Whose sample a callable got: of itself, or of one that held it before.
<1>23. ASSUME NEW i \in C, Holds(c, r, x + 1, i)
       PROVE  \/ Holds(c, q, x, i) /\ r.sample[i] = q.sample[i] /\ i \in Seen(c, x)
                 /\ \A a \in 1..n : free[a] # i
              \/ i[1] = k /\ i[2] = m /\ i[3] \in 1..n /\ r.sample[i] = q.sample[free[i[3]]]
              \/ i[1] = k /\ i[2] = m /\ r.sample[i] = i /\ i \notin Seen(c, x)
  <2>1. CASE i[1] = k /\ i[2] = m /\ i[3] <= n
    BY <1>9, <1>11, <1>17, <2>1
  <2>2. CASE i[1] = k /\ i[2] = m /\ ~(i[3] <= n)
    BY <1>15, <1>17, <1>21, <2>2
  <2>3. CASE ~(i[1] = k /\ i[2] = m)
    <3>1. i \in Seen(c, x)
      BY <1>14, <1>23, <2>3 DEF Holds
    <3>2. r.sample[i] = q.sample[i]
      BY <1>17, <2>3
    <3>3. CASE i \notin Over(c, x)
      <4>1. Holds(c, q, x, i)
        BY <3>1, <3>3 DEF Holds
      <4>2. \A a \in 1..n : free[a] # i
        <5>1. \A a \in 1..n : a \in 1..Len(free)
          BY <1>8, <1>9
        <5> QED  BY <1>12, <3>3, <5>1
      <4> QED  BY <3>1, <3>2, <4>1, <4>2
    <3>4. CASE i \in Over(c, x)
      <4>1. Free(c, r, i)
        BY <1>14, <1>23, <3>4 DEF Holds
      <4> DEFINE w == KeyOf(c, i)
      <4>2. w \in Keys(c)
        BY CallableKey DEF C
      <4>3. PICK a \in DOMAIN r.consumed[w] : r.consumed[w][a] = i
        BY <4>1 DEF Free
      <4> HIDE DEF w
      <4>4. CASE w # key
        <5>1. r.consumed[w] = q.consumed[w]
          BY <1>3, <1>7, <4>2, <4>4
        <5>2. Free(c, q, i)
          BY <4>3, <5>1 DEF Free, w
        <5>3. \A b \in 1..n : free[b] # i
          <6>1. \A b \in 1..n : b \in 1..Len(free)
            BY <1>8, <1>9
          <6> QED  BY <1>12, <4>4, <6>1 DEF w
        <5> QED  BY <3>1, <3>2, <5>2, <5>3 DEF Holds
      <4>5. CASE w = key
        <5>1. r.consumed[w] = rest
          BY <1>3, <1>7, <1>8, <4>5
        <5>2. a \in 1..Len(free) - n
          BY <1>10, <4>3, <5>1
        <5>3. free[a + n] = i /\ a + n \in 1..Len(free)
          BY <1>10, <4>3, <5>1, <5>2
        <5>4. DOMAIN free = 1..Len(free)
          BY <1>8
        <5>5. Free(c, q, i)
          <6>1. q.consumed[KeyOf(c, i)] = free
            BY <4>5 DEF w, free
          <6> QED  BY <5>3, <5>4, <6>1 DEF Free
        <5>6. \A b \in 1..n : free[b] # i
          <6>1. \A b \in 1..n : b \in 1..Len(free) /\ b # a + n
            BY <1>8, <1>9, <5>2
          <6> QED  BY <1>13, <5>3, <6>1
        <5> QED  BY <3>1, <3>2, <5>5, <5>6 DEF Holds
      <4> QED  BY <4>4, <4>5
    <3> QED  BY <3>3, <3>4
  <2> QED  BY <2>1, <2>2, <2>3
<1>24. \A a \in 1..n : free[a] \in C /\ Holds(c, q, x, free[a]) /\ q.sample[free[a]] \in Seen(c, x) /\ a \in 1..Len(free)
  <2> TAKE a \in 1..n
  <2>1. a \in 1..Len(free)
    BY <1>8, <1>9
  <2>2. free[a] \in C /\ free[a] \in Seen(c, x) /\ KeyOf(c, free[a]) = key
    BY <1>12, <1>16, <2>1
  <2>3. q.consumed[KeyOf(c, free[a])] = free /\ DOMAIN free = 1..Len(free)
    BY <1>8, <2>2 DEF free
  <2>4. Free(c, q, free[a])
    BY <2>1, <2>3 DEF Free
  <2> QED  BY <1>21, <2>1, <2>2, <2>4 DEF Holds
<1>25. \A i \in C : \A j \in C : Holds(c, q, x, i) /\ Holds(c, q, x, j) /\ q.sample[i] = q.sample[j] => i = j
  BY <1>2 DEF SampleDistinct, C
<1>26. SampleDistinct(c, r, x + 1)
  <2> SUFFICES ASSUME NEW i \in C, NEW j \in C, Holds(c, r, x + 1, i), Holds(c, r, x + 1, j),
                      r.sample[i] = r.sample[j]
               PROVE  i = j
    BY DEF SampleDistinct, C
  <2> DEFINE O(e) == Holds(c, q, x, e) /\ r.sample[e] = q.sample[e] /\ e \in Seen(c, x)
                     /\ \A a \in 1..n : free[a] # e
             Took(e) == e[1] = k /\ e[2] = m /\ e[3] \in 1..n /\ r.sample[e] = q.sample[free[e[3]]]
             Own(e) == e[1] = k /\ e[2] = m /\ r.sample[e] = e /\ e \notin Seen(c, x)
  <2>1. (O(i) \/ Took(i) \/ Own(i)) /\ (O(j) \/ Took(j) \/ Own(j))
    BY <1>23
  <2>2. ASSUME NEW e \in C, NEW f \in C, O(e), Took(f)  PROVE r.sample[e] # r.sample[f]
    BY <1>24, <1>25, <2>2
  <2>3. ASSUME NEW e \in C, NEW f \in C, O(e), Own(f)  PROVE r.sample[e] # r.sample[f]
    BY <1>21, <2>3
  <2>4. ASSUME NEW e \in C, NEW f \in C, Took(e), Own(f)  PROVE r.sample[e] # r.sample[f]
    BY <1>24, <2>4
  <2>5. ASSUME O(i), O(j)  PROVE i = j
    BY <1>25, <2>5
  <2>6. ASSUME Took(i), Took(j)  PROVE i = j
    <3>1. free[i[3]] = free[j[3]]
      BY <1>24, <1>25, <2>6
    <3>2. i[3] = j[3]
      BY <1>13, <1>24, <2>6, <3>1
    <3> QED  BY <1>11, <2>6, <3>2
  <2>7. ASSUME Own(i), Own(j)  PROVE i = j
    BY <2>7
  <2> HIDE DEF O, Took, Own
  <2> QED  BY <2>1, <2>2, <2>3, <2>4, <2>5, <2>6, <2>7
<1>27. \A i \in Seen(c, x) : r.sample[i] = q.sample[i]
  <2>1. Seen(c, x) \subseteq C
    BY DEF Seen, C
  <2> QED  BY <1>15, <1>17, <2>1
<1>28. ASSUME NEW j \in C, Holds(c, q, x, j), \A a \in 1..n : free[a] # j
       PROVE  Holds(c, r, x + 1, j)
  <2> DEFINE w == KeyOf(c, j)
  <2>1. j \in Seen(c, x + 1) /\ w \in Keys(c)
    BY <1>14, <1>28, CallableKey DEF Holds, C
  <2>2. CASE j \notin Over(c, x)
    BY <1>14, <2>1, <2>2 DEF Holds
  <2>3. CASE j \in Over(c, x)
    <3>1. PICK a \in DOMAIN q.consumed[w] : q.consumed[w][a] = j
      BY <1>28, <2>3 DEF Holds, Free
    <3> HIDE DEF w
    <3>2. CASE w # key
      <4>1. r.consumed[w] = q.consumed[w]
        BY <1>3, <1>7, <2>1, <3>2
      <4> QED  BY <2>1, <3>1, <4>1 DEF Holds, Free, w
    <3>3. CASE w = key
      <4>1. r.consumed[w] = rest /\ q.consumed[w] = free
        BY <1>3, <1>7, <1>8, <3>3 DEF free
      <4>2. a \in 1..Len(free) /\ free[a] = j
        BY <1>8, <3>1, <4>1
      <4>3. ~(a \in 1..n)
        BY <1>28, <4>2
      <4>4. a - n \in 1..Len(free) - n /\ (a - n) + n = a
        BY <1>8, <1>9, <4>2, <4>3
      <4>5. rest[a - n] = free[(a - n) + n]
        BY <1>10, <4>4
      <4>6. rest[a - n] = j /\ a - n \in DOMAIN rest
        BY <1>10, <4>2, <4>4, <4>5
      <4> QED  BY <2>1, <4>1, <4>6 DEF Holds, Free, w
    <3> QED  BY <3>2, <3>3
  <2> QED  BY <2>2, <2>3
\* The callable that takes a free sample over.
<1>29. ASSUME NEW a \in 1..n
       PROVE  <<k, m, a>> \in C /\ Holds(c, r, x + 1, <<k, m, a>>) /\ KeyOf(c, <<k, m, a>>) = key
              /\ r.sample[<<k, m, a>>] = q.sample[free[a]]
  <2>1. a \in 1..L /\ a <= n
    BY <1>9
  <2>2. <<k, m, a>> \in C
    BY <1>4, <2>1, CallableOf DEF C, L
  <2> DEFINE j == <<k, m, a>>
  <2>3. j \in C /\ j[1] = k /\ j[2] = m /\ j[3] = a
    BY <2>2
  <2> HIDE DEF j
  <2>4. r.sample[j] = q.sample[free[a]]
    BY <1>17, <2>1, <2>3
  <2>5. j \in Seen(c, x + 1) /\ j \notin Over(c, x + 1)
    BY <1>14, <1>15, <2>3
  <2>6. KeyOf(c, j) = key
    BY <2>3 DEF KeyOf, key
  <2>7. Holds(c, r, x + 1, j)
    BY <2>5 DEF Holds
  <2> QED  BY <2>3, <2>4, <2>6, <2>7 DEF j
<1>30. SampleKept(c, r, x + 1)
  <2> SUFFICES ASSUME NEW i \in Seen(c, x + 1)
               PROVE  \E j \in C : Holder(c, r, x + 1, i, j)
    BY DEF SampleKept, C
  <2>0. i \in C
    BY DEF Seen, C
  <2>1. CASE i \in Seen(c, x)
    <3>1. PICK j \in C : Holder(c, q, x, i, j)
      BY <2>1 DEF FoldInv, SampleKept, C
    <3>2. r.sample[i] = q.sample[i] /\ j \in Seen(c, x) /\ r.sample[j] = q.sample[j]
      BY <1>27, <2>1, <3>1 DEF Holder, Holds
    <3>3. CASE \A a \in 1..n : free[a] # j
      <4>1. Holds(c, r, x + 1, j)
        BY <1>28, <3>1, <3>3 DEF Holder
      <4> QED  BY <3>1, <3>2, <4>1 DEF Holder
    <3>4. CASE \E a \in 1..n : free[a] = j
      <4>1. PICK a \in 1..n : free[a] = j
        BY <3>4
      <4>2. KeyOf(c, j) = key
        BY <1>12, <1>24, <4>1
      <4>3. KeyOf(c, i) = key
        BY <3>1, <4>2 DEF Holder
      <4>4. r.sample[<<k, m, a>>] = r.sample[i]
        BY <1>29, <3>1, <3>2, <4>1 DEF Holder
      <4> QED  BY <1>29, <4>3, <4>4 DEF Holder
    <3> QED  BY <3>3, <3>4
  <2>2. CASE i \notin Seen(c, x)
    <3>1. i[1] = k /\ i[2] = m
      BY <1>14, <2>0, <2>2
    <3>2. i \notin Over(c, x + 1)
      BY <1>14, <1>15, <2>0, <3>1
    <3> QED  BY <2>0, <3>2 DEF Holder, Holds
  <2> QED  BY <2>1, <2>2
<1>31. ASSUME NEW w \in Keys(c), r.consumed[w] # <<>>  PROVE Reuses(c, q, r, x, w)
  <2> SUFFICES ASSUME NEW i \in Seen(c, x + 1), KeyOf(c, i) = w
               PROVE  \E j \in Seen(c, x) : KeyOf(c, j) = w /\ q.sample[j] = r.sample[i]
    BY DEF Reuses
  <2>0. i \in C
    BY DEF Seen, C
  <2>1. CASE i \in Seen(c, x)
    BY <1>27, <2>1
  <2>2. CASE i \notin Seen(c, x)
    <3>1. i[1] = k /\ i[2] = m
      BY <1>14, <2>0, <2>2
    <3>2. w = key
      BY <3>1 DEF KeyOf, key
    <3>3. r.consumed[w] = rest
      BY <1>3, <1>7, <1>8, <3>2
    <3>4. Len(rest) # 0
      BY <1>10, <1>31, <3>3, EmptySeq
    <3>5. n = L
      <4>1. Len(free) # n
        BY <1>8, <1>9, <1>10, <3>4
      <4> QED  BY <4>1 DEF n
    <3>6. i[3] \in 1..n
      BY <1>9, <1>11, <2>0, <3>1, <3>5
    <3>7. r.sample[i] = q.sample[free[i[3]]] /\ i[3] \in 1..Len(free)
      BY <1>9, <1>17, <2>0, <3>1, <3>6
    <3>8. free[i[3]] \in Seen(c, x) /\ KeyOf(c, free[i[3]]) = key
      BY <1>12, <1>16, <3>7
    <3> QED  BY <3>2, <3>7, <3>8
  <2> QED  BY <2>1, <2>2
<1> QED  BY <1>18, <1>19, <1>20, <1>22, <1>26, <1>27, <1>30, <1>31 DEF FoldInv

LEMMA FoldFirst ==
  ASSUME NEW c \in Configs
  PROVE  FoldInv(c, OwnSamples(c), 1)
<1> DEFINE q == OwnSamples(c)
<1>1. /\ q.queue = [k \in ChunksOf(c) |-> <<>>] /\ q.consumed = [w \in Keys(c) |-> <<>>]
      /\ q.fwdIdx = [k \in ChunksOf(c) |-> 0] /\ q.sample = [i \in CallablesOf(c) |-> i]
      /\ q = [queue |-> q.queue, consumed |-> q.consumed, fwdIdx |-> q.fwdIdx, sample |-> q.sample]
  BY DEF OwnSamples, Keys
<1> HIDE DEF q
<1>2. q \in Reorganizing(c)
  <2>1. q.queue \in [ChunksOf(c) -> Seq(Nat)] /\ q.consumed \in [Keys(c) -> Seq(CallablesOf(c))]
    BY <1>1
  <2>2. q.fwdIdx \in [ChunksOf(c) -> Nat] /\ q.sample \in [CallablesOf(c) -> CallablesOf(c)]
    BY <1>1
  <2> QED  BY <1>1, <2>1, <2>2, ReorganizingParts
<1>3. \A k : N(c, "fwd", k, 1) = 0 /\ N(c, "bwd", k, 1) = 0
  BY CountFirst
<1>4. Seen(c, 1) = {} /\ Over(c, 1) = {}
  <2>1. \A i \in CallablesOf(c) : ~(i[2] < 0)
    <3> TAKE i \in CallablesOf(c)
    <3>1. i[2] \in 0..MicrobatchesOf(c) - 1
      BY CallableIs
    <3> QED  BY <3>1
  <2> QED  BY <1>3, <2>1 DEF Seen, Over
<1>5. QueueRight(c, q, 1)
  <2> SUFFICES ASSUME NEW k \in ChunksOf(c)
               PROVE  /\ q.fwdIdx[k] = N(c, "fwd", k, 1)
                      /\ Len(q.queue[k]) = N(c, "fwd", k, 1) - N(c, "bwd", k, 1)
                      /\ \A j \in 1..Len(q.queue[k]) : q.queue[k][j] = N(c, "bwd", k, 1) + j - 1
    BY DEF QueueRight
  <2>1. q.fwdIdx[k] = 0 /\ q.queue[k] = <<>> /\ Len(q.queue[k]) = 0
    BY <1>1
  <2>2. 1..Len(q.queue[k]) = {}
    BY <2>1
  <2> QED  BY <1>3, <2>1, <2>2
<1>6. ConsumedRight(c, q, 1)
  <2>1. \A w \in Keys(c) : q.consumed[w] = <<>> /\ 1..Len(q.consumed[w]) = {}
    BY <1>1
  <2> QED  BY <2>1 DEF ConsumedRight
<1>7. SampleRight(c, q, 1)
  BY <1>1, <1>4 DEF SampleRight
<1>8. SampleDistinct(c, q, 1)
  BY <1>4 DEF SampleDistinct, Holds
<1>9. SampleKept(c, q, 1)
  BY <1>4 DEF SampleKept
<1> QED  BY <1>2, <1>5, <1>6, <1>7, <1>8, <1>9 DEF FoldInv, q

\* A wgrad leaves the samples alone.
LEMMA FoldWgrad ==
  ASSUME NEW c \in Configs, NEW x \in 1..End(c), NEW q, FoldInv(c, q, x), c.order[x].pass = "dw"
  PROVE  FoldInv(c, q, x + 1)
<1>1. x \in Nat \ {0}
  BY ConfigFacts
<1>2. \A k : c.order[x] # Pass("fwd", k) /\ c.order[x] # Pass("bwd", k)
  BY PassIs
<1>3. \A k : N(c, "fwd", k, x + 1) = N(c, "fwd", k, x) /\ N(c, "bwd", k, x + 1) = N(c, "bwd", k, x)
  BY <1>1, <1>2, CountStep
<1>4. Seen(c, x + 1) = Seen(c, x) /\ Over(c, x + 1) = Over(c, x)
  BY <1>3 DEF Seen, Over
<1>5. QueueRight(c, q, x + 1)
  BY <1>3 DEF FoldInv, QueueRight
<1>6. ConsumedRight(c, q, x + 1)
  BY <1>4 DEF FoldInv, ConsumedRight
<1>7. SampleRight(c, q, x + 1)
  BY <1>4 DEF FoldInv, SampleRight
<1>8. SampleDistinct(c, q, x + 1)
  BY <1>4 DEF FoldInv, SampleDistinct, Holds
<1>9. SampleKept(c, q, x + 1)
  BY <1>4 DEF FoldInv, SampleKept, Holder, Holds
<1> QED  BY <1>5, <1>6, <1>7, <1>8, <1>9 DEF FoldInv

LEMMA FoldStep ==
  ASSUME NEW c \in Configs, NEW x \in 1..End(c), NEW q, FoldInv(c, q, x),
         NEW r, r = ReorganizeStep(c, q, c.order[x])
  PROVE  FoldInv(c, r, x + 1) /\ \A i \in Seen(c, x) : r.sample[i] = q.sample[i]
<1> DEFINE k == c.order[x].chunk
<1>1. c.order[x].pass \in Passes /\ k \in ChunksOf(c) /\ c.order[x] = Pass(c.order[x].pass, k)
  BY OrderAt
<1> HIDE DEF k
<1>2. CASE c.order[x].pass = "fwd"
  <2>1. r = TakeSamples(c, q, k)
    BY <1>2 DEF ReorganizeStep, k
  <2>2. c.order[x] = Pass("fwd", k)
    BY <1>1, <1>2
  <2> QED  BY <1>1, <2>1, <2>2, FoldForward
<1>3. CASE c.order[x].pass = "bwd"
  <2>1. r = Consume(c, q, k)
    BY <1>3 DEF ReorganizeStep, k
  <2>2. c.order[x] = Pass("bwd", k)
    BY <1>1, <1>3
  <2>3. r.sample = q.sample
    <3> DEFINE rest == Tail(q.queue[k])
               all == q.consumed[c.shape[k]] \o SamplesOf(c, k, Head(q.queue[k]))
               w == c.shape[k]
    <3>1. r = [q EXCEPT !.consumed[w] = all, !.queue[k] = rest]
      BY <2>1 DEF Consume
    <3>2. q = [queue |-> q.queue, consumed |-> q.consumed, fwdIdx |-> q.fwdIdx, sample |-> q.sample]
      BY DEF FoldInv, Reorganizing
    <3> HIDE DEF rest, all, w
    <3> QED  BY ONLY <3>1, <3>2
  <2> QED  BY <1>1, <2>1, <2>2, <2>3, FoldBackward
<1>4. CASE c.order[x].pass = "dw"
  <2>1. r = q
    BY <1>4 DEF ReorganizeStep
  <2> QED  BY <1>4, <2>1, FoldWgrad
<1> QED  BY <1>1, <1>2, <1>3, <1>4 DEF Passes

LEMMA FoldAll ==
  ASSUME NEW c \in Configs, NEW x \in 0..End(c)
  PROVE  FoldInv(c, Reorganized(c)[x], x + 1)
<1> DEFINE f == Reorganized(c)
           T == {y \in 0..End(c) : FoldInv(c, f[y], y + 1)}
<1>1. End(c) \in Nat
  BY ConfigFacts
<1>2. f[0] = OwnSamples(c) /\ \A y \in 1..End(c) : f[y] = ReorganizeStep(c, f[y - 1], c.order[y])
  BY ReorganizedIs
<1> HIDE DEF f
<1>3. 0 \in T
  <2>1. FoldInv(c, OwnSamples(c), 1) /\ 0 + 1 = 1 /\ 0 \in 0..End(c)
    BY <1>1, FoldFirst
  <2> QED  BY <1>2, <2>1
<1>4. ASSUME NEW y \in 0..End(c) - 1, y \in T  PROVE y + 1 \in T
  <2>1. y + 1 \in 1..End(c) /\ (y + 1) - 1 = y /\ y + 1 \in 0..End(c)
    BY <1>1
  <2>2. f[y + 1] = ReorganizeStep(c, f[y], c.order[y + 1]) /\ FoldInv(c, f[y], y + 1)
    BY <1>2, <1>4, <2>1
  <2>3. FoldInv(c, f[y + 1], (y + 1) + 1)
    BY ONLY c \in Configs, <2>1, <2>2, FoldStep
  <2> QED  BY <2>1, <2>3
<1> HIDE DEF T
<1>5. 0..End(c) \subseteq T
  BY <1>1, <1>3, <1>4, PositionInduction
<1> QED  BY <1>5 DEF T, f

\* A sample given to a forward stays.
LEMMA SampleStays ==
  ASSUME NEW c \in Configs, NEW x \in 0..End(c), NEW i \in Seen(c, x + 1)
  PROVE  Reorganized(c)[End(c)].sample[i] = Reorganized(c)[x].sample[i]
<1> DEFINE f == Reorganized(c)
           T == {y \in x..End(c) : i \in Seen(c, y + 1) /\ f[y].sample[i] = f[x].sample[i]}
<1>1. End(c) \in Nat /\ x \in Nat /\ x <= End(c)
  BY ConfigFacts
<1>2. x \in T
  BY <1>1
<1>3. ASSUME NEW y \in x..End(c) - 1, y \in T  PROVE y + 1 \in T
  <2>1. y \in 0..End(c) /\ y + 1 \in 1..End(c) /\ (y + 1) - 1 = y /\ y + 1 \in x..End(c)
    BY <1>1
  <2>2. f[y + 1] = ReorganizeStep(c, f[y], c.order[y + 1]) /\ FoldInv(c, f[y], y + 1)
    BY <2>1, ReorganizedIs, FoldAll
  <2> HIDE DEF f
  <2>3. i \in Seen(c, y + 1) /\ f[y].sample[i] = f[x].sample[i] /\ i \in CallablesOf(c)
    BY <1>3 DEF Seen
  <2>4. f[y + 1].sample[i] = f[y].sample[i]
    <3>1. \A j \in Seen(c, y + 1) : f[y + 1].sample[j] = f[y].sample[j]
      BY ONLY c \in Configs, <2>1, <2>2, FoldStep
    <3> QED  BY <2>3, <3>1
  <2>5. i \in Seen(c, (y + 1) + 1)
    BY <2>1, <2>3, SeenStep
  <2> QED  BY <2>1, <2>3, <2>4, <2>5
<1> HIDE DEF T
<1>4. x..End(c) \subseteq T
  BY <1>1, <1>2, <1>3, PositionInduction
<1>5. End(c) \in T
  BY <1>1, <1>4
<1> QED  BY <1>5 DEF T

LEMMA SampleType ==
  ASSUME NEW c \in Configs
  PROVE  SampleArgs(c) \in [CallablesOf(c) -> CallablesOf(c)]
<1>1. End(c) \in 0..End(c)
  BY ConfigFacts
<1>2. Reorganized(c)[End(c)] \in Reorganizing(c)
  BY <1>1, FoldAll DEF FoldInv
<1>3. Reorganized(c)[End(c)].sample \in [CallablesOf(c) -> CallablesOf(c)]
  BY <1>2, ReorganizingParts
<1>4. [i \in CallablesOf(c) |-> i] \in [CallablesOf(c) -> CallablesOf(c)]
  OBVIOUS
<1> QED  BY <1>3, <1>4, SampleArgsIs

\* No two callables between their forward and their backward share static inputs.
LEMMA SampleApart ==
  ASSUME NEW c \in Configs, NEW x \in 1..End(c) + 1,
         NEW i \in Seen(c, x), NEW j \in Seen(c, x), i \notin Over(c, x), j \notin Over(c, x),
         SampleArgs(c)[i] = SampleArgs(c)[j]
  PROVE  i = j
<1>1. i \in CallablesOf(c) /\ j \in CallablesOf(c)
  BY DEF Seen
<1>2. CASE c.reuse
  <2> DEFINE y == x - 1
             q == Reorganized(c)[y]
             e == Reorganized(c)[End(c)]
  <2>1. y \in 0..End(c) /\ y + 1 = x
    BY ConfigFacts
  <2>2. FoldInv(c, q, x)
    <3> HIDE DEF y
    <3>1. FoldInv(c, Reorganized(c)[y], y + 1)
      BY <2>1, FoldAll
    <3> QED  BY <2>1, <3>1
  <2>3. e.sample[i] = q.sample[i] /\ e.sample[j] = q.sample[j]
    <3> HIDE DEF y
    <3>1. i \in Seen(c, y + 1) /\ j \in Seen(c, y + 1)
      BY <2>1
    <3> QED  BY <2>1, <3>1, SampleStays
  <2>4. SampleArgs(c) = e.sample
    BY <1>2, SampleArgsIs
  <2> HIDE DEF q, e, y
  <2>5. q.sample[i] = q.sample[j]
    BY <2>3, <2>4
  <2>6. Holds(c, q, x, i) /\ Holds(c, q, x, j)
    BY DEF Holds
  <2> QED  BY <1>1, <2>2, <2>5, <2>6 DEF FoldInv, SampleDistinct
<1>3. CASE ~c.reuse
  BY <1>1, <1>3, SampleArgsIs
<1> QED  BY <1>2, <1>3

\* The inputs of a callable are used by no other that is between its passes.
LEMMA ActApart ==
  ASSUME NEW c \in Configs, NEW x \in 1..End(c), NEW s \in 1..NL(c, x), c.order[x].pass = "fwd",
         NEW i \in NeedAct(c, x, s), SampleArgs(c)[i] = SampleArgs(c)[Cur(c, x, s)]
  PROVE  FALSE
<1> DEFINE j == Cur(c, x, s)
           k == c.order[x].chunk
<1>1. x \in Nat \ {0} /\ x + 1 \in 1..End(c) + 1 /\ k \in ChunksOf(c) /\ c.order[x] = Pass("fwd", k)
  BY PointFacts, OrderAt
<1>2. j \in CallablesOf(c) /\ j[1] = k /\ j[2] = N(c, "fwd", k, x) /\ j \notin Ran(c, "fwd", x, s)
  BY CurIs
<1>3. i \in CallablesOf(c) /\ i \in Ran(c, "fwd", x, s) /\ i \notin Ran(c, "bwd", x, s)
  BY DEF NeedAct, Ran
<1>4. j \in Seen(c, x + 1)
  BY <1>1, <1>2, SeenStep
<1>5. i \in Seen(c, x + 1)
  BY <1>1, <1>3, SeenStep, PassIs DEF Ran, Seen
<1>6. i \notin Over(c, x)
  BY <1>3 DEF Ran, Over
<1>7. i \notin Over(c, x + 1)
  BY <1>1, <1>3, <1>6, SeenStep, PassIs
<1>8. j \notin Over(c, x + 1)
  <2>1. N(c, "bwd", k, x) \in 0..N(c, "fwd", k, x) /\ N(c, "fwd", k, x) \in Nat
    BY <1>1, PointFacts, CountBound
  <2>2. ~(N(c, "fwd", k, x) < N(c, "bwd", k, x))
    BY <2>1
  <2>3. j \notin Over(c, x)
    BY <1>2, <2>2 DEF Over
  <2> QED  BY <1>1, <1>2, <2>3, SeenStep, PassIs
<1>9. i # j
  BY <1>2, <1>3
<1> HIDE DEF j, k
<1>10. SampleArgs(c)[i] = SampleArgs(c)[j]
  BY DEF j
<1> QED  BY ONLY c \in Configs, <1>1, <1>4, <1>5, <1>7, <1>8, <1>9, <1>10, SampleApart

LEMMA FirstForward ==
  ASSUME NEW c \in Configs
  PROVE  1 \in 1..End(c) /\ c.order[1].pass = "fwd" /\ 1 \in 1..NL(c, 1)
<1> DEFINE k == c.order[1].chunk
<1>1. 1 \in 1..End(c)
  BY ConfigFacts
<1>2. c.order[1].pass \in Passes /\ k \in ChunksOf(c) /\ c.order[1] = Pass(c.order[1].pass, k)
      /\ NL(c, 1) \in Nat \ {0}
  BY <1>1, OrderAt
<1>3. N(c, "fwd", k, 1) = 0 /\ N(c, "bwd", k, 1) = 0
  BY CountFirst
<1> HIDE DEF k
<1>4. c.order[1] # Pass("bwd", k) /\ c.order[1] # Pass("dw", k)
  BY <1>1, <1>2, <1>3, Possible
<1> QED  BY <1>1, <1>2, <1>4 DEF Passes

-----------------------------------------------------------------------------
(* The cursor.                                                                *)

CursorAt(c, x, s) ==
  [pos |-> x, step |-> s, done |-> [p \in Passes |-> [k \in ChunksOf(c) |-> N(c, p, k, x)]]]

LEMMA StartIs ==
  ASSUME NEW c \in Configs
  PROVE  Start(c) = CursorAt(c, 1, 1)
<1>1. \A p, k : N(c, p, k, 1) = 0
  BY CountFirst
<1> QED  BY <1>1 DEF Start, CursorAt

LEMMA CursorNow ==
  ASSUME NEW c \in Configs, config = c, NEW x \in 1..End(c), NEW s \in 1..NL(c, x),
         cursor = CursorAt(c, x, s)
  PROVE  /\ Current = c.order[x] /\ NumLayers = NL(c, x) /\ Layer = LayerAt(c, x, s)
         /\ cursor.pos = x /\ cursor.step = s
         /\ \A p \in Passes : Done(p) = N(c, p, c.order[x].chunk, x)
         /\ At(Done(c.order[x].pass)) = Cur(c, x, s)
         /\ cursor = Start(c) <=> x = 1 /\ s = 1
<1>1. cursor.pos = x /\ cursor.step = s
      /\ cursor.done = [p \in Passes |-> [k \in ChunksOf(c) |-> N(c, p, k, x)]]
  BY DEF CursorAt
<1>2. c.order[x].chunk \in ChunksOf(c) /\ c.order[x].pass \in Passes
  BY PointFacts
<1>3. Current = c.order[x]
  BY <1>1 DEF Current
<1>4. NumLayers = NL(c, x)
  BY <1>3 DEF NumLayers, NL
<1>5. Layer = LayerAt(c, x, s)
  BY <1>1, <1>3, <1>4 DEF Layer, LayerAt
<1>6. \A p \in Passes : Done(p) = N(c, p, c.order[x].chunk, x)
  BY <1>1, <1>2, <1>3 DEF Done
<1>7. At(Done(c.order[x].pass)) = Cur(c, x, s)
  BY <1>2, <1>3, <1>5, <1>6 DEF At, Cur
<1>8. cursor = Start(c) <=> x = 1 /\ s = 1
  <2>1. Start(c) = CursorAt(c, 1, 1)
    BY StartIs
  <2>2. Start(c).pos = 1 /\ Start(c).step = 1
    BY <2>1 DEF CursorAt
  <2> QED  BY <1>1, <2>1, <2>2
<1> QED  BY <1>1, <1>3, <1>4, <1>5, <1>6, <1>7, <1>8

\* Counting one of a table of numbers up.
LEMMA OneUp ==
  ASSUME NEW S, NEW T, NEW o \in [S -> [T -> Int]], NEW n \in [S -> [T -> Int]], NEW P \in S, NEW K \in T,
         \A p \in S, k \in T : n[p][k] = IF p = P /\ k = K THEN o[p][k] + 1 ELSE o[p][k]
  PROVE  [o EXCEPT ![P][K] = @ + 1] = n
<1> DEFINE a == [o[P] EXCEPT ![K] = @ + 1]
<1>1. a = n[P]
  <2>1. n[P] \in [T -> Int] /\ o[P] \in [T -> Int]
    OBVIOUS
  <2>2. \A k \in T : n[P][k] = IF k = K THEN o[P][k] + 1 ELSE o[P][k]
    OBVIOUS
  <2> QED  BY <2>1, <2>2
<1>2. ASSUME NEW p \in S, p # P  PROVE n[p] = o[p]
  <2>1. n[p] \in [T -> Int] /\ o[p] \in [T -> Int]
    OBVIOUS
  <2>2. \A k \in T : n[p][k] = o[p][k]
    BY <1>2
  <2> QED  BY <2>1, <2>2
<1>3. [o EXCEPT ![P][K] = @ + 1] = [o EXCEPT ![P] = a]
  OBVIOUS
<1> HIDE DEF a
<1>4. [o EXCEPT ![P] = a] = n
  BY <1>1, <1>2
<1> QED  BY <1>3, <1>4

LEMMA AdvanceStep ==
  ASSUME NEW c \in Configs, config = c, NEW x \in 1..End(c), NEW s \in 1..NL(c, x),
         cursor = CursorAt(c, x, s), Advance
  PROVE  /\ NextX(c, x, s) <= End(c) =>
              cursor' = CursorAt(c, NextX(c, x, s), NextS(c, x, s)) /\ iteration' = iteration
         /\ NextX(c, x, s) = End(c) + 1 => cursor' = CursorAt(c, 1, 1) /\ iteration' = iteration + 1
<1>1. /\ Current = c.order[x] /\ NumLayers = NL(c, x) /\ cursor.pos = x /\ cursor.step = s
  BY CursorNow
<1>2. x \in Nat \ {0} /\ s \in Nat \ {0} /\ NL(c, x) \in Nat \ {0} /\ s <= NL(c, x) /\ x <= End(c)
      /\ End(c) \in Nat
  BY PointFacts, ConfigFacts
<1>3. LastStep <=> s = NL(c, x) /\ x = End(c)
  BY <1>1 DEF LastStep, End
<1>4. CASE s < NL(c, x)
  <2>1. NextX(c, x, s) = x /\ NextS(c, x, s) = s + 1
    BY <1>4 DEF NextX, NextS
  <2>2. cursor' = [cursor EXCEPT !.step = cursor.step + 1] /\ iteration' = iteration
    BY <1>1, <1>2, <1>3, <1>4 DEF Advance
  <2>3. cursor' = CursorAt(c, x, s + 1)
    BY <1>1, <2>2 DEF CursorAt
  <2> QED  BY <1>2, <2>1, <2>2, <2>3
<1>5. CASE s = NL(c, x)
  <2>1. NextX(c, x, s) = x + 1 /\ NextS(c, x, s) = 1
    BY <1>2, <1>5 DEF NextX, NextS
  <2>2. CASE x = End(c)
    <3>1. cursor' = Start(c) /\ iteration' = iteration + 1
      BY <1>1, <1>2, <1>3, <1>5, <2>2 DEF Advance
    <3> QED  BY <1>2, <2>1, <2>2, <3>1, StartIs
  <2>3. CASE x # End(c)
    <3> DEFINE d == [cursor.done EXCEPT ![c.order[x].pass][c.order[x].chunk] = @ + 1]
    <3>1. iteration' = iteration
          /\ cursor' = [cursor EXCEPT !.pos = x + 1, !.step = 1,
                                      !.done[c.order[x].pass][c.order[x].chunk] = @ + 1]
      BY <1>1, <1>2, <1>3, <1>5, <2>3 DEF Advance
    <3>2. cursor' = [pos |-> x + 1, step |-> 1, done |-> d]
      BY <3>1 DEF CursorAt
    <3>3. d = [p \in Passes |-> [k \in ChunksOf(c) |-> N(c, p, k, x + 1)]]
      <4> DEFINE o == [p \in Passes |-> [k \in ChunksOf(c) |-> N(c, p, k, x)]]
                 P == c.order[x].pass
                 K == c.order[x].chunk
      <4>1. cursor.done = o
        BY DEF CursorAt
      <4>2. P \in Passes /\ K \in ChunksOf(c) /\ c.order[x] = Pass(P, K)
        BY OrderAt
      <4>3. \A p \in Passes, k \in ChunksOf(c) :
              N(c, p, k, x + 1) = IF p = P /\ k = K THEN N(c, p, k, x) + 1 ELSE N(c, p, k, x)
        BY <1>2, <4>2, CountStep, PassIs
      <4>4. d = [o EXCEPT ![P][K] = @ + 1]
        BY <4>1
      <4> DEFINE n == [p \in Passes |-> [k \in ChunksOf(c) |-> N(c, p, k, x + 1)]]
      <4>5. o \in [Passes -> [ChunksOf(c) -> Int]] /\ n \in [Passes -> [ChunksOf(c) -> Int]]
        <5>1. x \in Int /\ x + 1 \in Int
          OBVIOUS
        <5>2. \A p, k : N(c, p, k, x) \in Int /\ N(c, p, k, x + 1) \in Int
          BY <5>1, CountType
        <5> QED  BY <5>2
      <4>6. \A p \in Passes, k \in ChunksOf(c) : n[p][k] = IF p = P /\ k = K THEN o[p][k] + 1 ELSE o[p][k]
        <5> HIDE DEF P, K
        <5> QED  BY <4>3
      <4> HIDE DEF P, K, d, o, n
      <4>7. d = n
        BY ONLY <4>2, <4>4, <4>5, <4>6, OneUp
      <4> QED  BY ONLY <4>7, Zenon DEF n
    <3> HIDE DEF d
    <3>4. cursor' = CursorAt(c, x + 1, 1)
      BY <3>2, <3>3 DEF CursorAt
    <3>5. NextX(c, x, s) # End(c) + 1
      BY <1>2, <2>1, <2>3
    <3>6. cursor' = CursorAt(c, NextX(c, x, s), NextS(c, x, s))
      BY <2>1, <3>4
    <3> QED  BY <3>1, <3>5, <3>6
  <2> QED  BY <2>2, <2>3
<1> QED  BY <1>2, <1>4, <1>5

-----------------------------------------------------------------------------
(* What has been captured before a point.                                     *)

Before(y, t, x, s) == y < x \/ (y = x /\ t < s)

LEMMA BeforeStep ==
  ASSUME NEW c \in Configs, NEW x \in 1..End(c), NEW s \in 1..NL(c, x),
         NEW y \in 1..End(c), NEW t \in 1..NL(c, y)
  PROVE  Before(y, t, NextX(c, x, s), NextS(c, x, s)) <=> Before(y, t, x, s) \/ (y = x /\ t = s)
<1>1. /\ x \in Nat \ {0} /\ s \in Nat \ {0} /\ NL(c, x) \in Nat \ {0} /\ s <= NL(c, x)
      /\ y \in Nat \ {0} /\ t \in Nat \ {0} /\ NL(c, y) \in Nat \ {0} /\ t <= NL(c, y)
  BY PointFacts
<1>2. CASE s < NL(c, x)
  BY <1>1, <1>2 DEF Before, NextX, NextS
<1>3. CASE ~(s < NL(c, x))
  <2>1. NextX(c, x, s) = x + 1 /\ NextS(c, x, s) = 1 /\ s = NL(c, x)
    BY <1>1, <1>3 DEF NextX, NextS
  <2>2. Before(y, t, x + 1, 1) <=> y <= x
    BY <1>1 DEF Before
  <2>3. y = x => t <= s
    BY <1>1, <2>1
  <2> QED  BY <1>1, <2>1, <2>2, <2>3 DEF Before
<1> QED  BY <1>2, <1>3

\* The graph of a point.
KeyAt(c, y, t) ==
  <<c.order[y].pass,
    IF c.order[y].pass = "dw"
    THEN <<c.order[y].chunk, N(c, "bwd", c.order[y].chunk, y) - 1, LayerAt(c, y, t)>>
    ELSE Cur(c, y, t)>>
CapturedWgrad(c, i, x) ==
  \E z \in 1..x - 1 : c.order[z] = Pass("dw", i[1]) /\ i[2] = N(c, "bwd", i[1], z) - 1

\* Every graph keeps what is needed at its point.
GraphsRight(c, gr, x, s) ==
  /\ \A g \in DOMAIN gr : g \in Passes \X CallablesOf(c) /\ gr[g] \subseteq Tensors(c)
  /\ \A p \in {"fwd", "bwd"} : \A i \in CallablesOf(c) : <<p, i>> \in DOMAIN gr <=> i \in Ran(c, p, x, s)
  /\ \A i \in CallablesOf(c) : <<"dw", i>> \in DOMAIN gr => CapturedWgrad(c, i, x)
  /\ \A y \in 1..End(c) : \A t \in 1..NL(c, y) : Before(y, t, x, s) =>
       KeyAt(c, y, t) \in DOMAIN gr /\ Needed(c, y, t) \subseteq gr[KeyAt(c, y, t)]

LEMMA GraphsStep ==
  ASSUME NEW c \in Configs, NEW x \in 1..End(c), NEW s \in 1..NL(c, x), NEW gr,
         GraphsRight(c, gr, x, s), NEW L \in SUBSET Tensors(c), Needed(c, x, s) \subseteq L,
         KeyAt(c, x, s)[2] \in CallablesOf(c),
         c.order[x].pass = "dw" => c.delay /\ KeyAt(c, x, s) \notin DOMAIN gr,
         NEW r, r = [h \in DOMAIN gr \cup {KeyAt(c, x, s)} |-> IF h = KeyAt(c, x, s) THEN L ELSE gr[h]]
  PROVE  GraphsRight(c, r, NextX(c, x, s), NextS(c, x, s))
<1> DEFINE g == KeyAt(c, x, s)
           P == c.order[x].pass
           X == NextX(c, x, s)
           S == NextS(c, x, s)
<1>1. P \in Passes /\ c.order[x].chunk \in ChunksOf(c) /\ NL(c, x) = c.layers[c.order[x].chunk]
      /\ x \in Nat \ {0} /\ s \in Nat \ {0} /\ s <= NL(c, x)
  BY PointFacts
<1>2. g = <<P, g[2]>> /\ g[2] \in CallablesOf(c)
  BY DEF KeyAt
<1>3. P # "dw" => g[2] = Cur(c, x, s)
  BY DEF KeyAt
<1>4. X \in {x, x + 1} /\ X \in 1..End(c) + 1
  BY NextPoint
<1>5. P = "dw" => X = x + 1
  <2>1. c.delay => NL(c, x) = 1
    BY <1>1, ConfigFacts
  <2> QED  BY <1>1, <2>1 DEF NextX
<1>6. g \notin DOMAIN gr
  <2>1. CASE P = "dw"
    BY <2>1
  <2>2. CASE P # "dw"
    <3>1. P \in {"fwd", "bwd"}
      BY <1>1, <2>2 DEF Passes
    <3>2. Cur(c, x, s) \notin Ran(c, P, x, s)
      BY <3>1, CurIs
    <3>3. <<P, g[2]>> \in DOMAIN gr <=> g[2] \in Ran(c, P, x, s)
      BY <1>2, <3>1 DEF GraphsRight
    <3> QED  BY <1>2, <1>3, <2>2, <3>2, <3>3
  <2> QED  BY <2>1, <2>2
<1>7. /\ DOMAIN r = DOMAIN gr \cup {g} /\ r[g] = L
      /\ \A h \in DOMAIN gr : r[h] = gr[h]
  <2> HIDE DEF g
  <2>1. r = [h \in DOMAIN gr \cup {g} |-> IF h = g THEN L ELSE gr[h]]
    BY DEF g
  <2> QED  BY <1>6, <2>1
<1> HIDE DEF g
<1>8. \A h \in DOMAIN r : h \in Passes \X CallablesOf(c) /\ r[h] \subseteq Tensors(c)
  BY <1>1, <1>2, <1>7 DEF GraphsRight
<1>9. ASSUME NEW p \in {"fwd", "bwd"}, NEW i \in CallablesOf(c)
      PROVE  <<p, i>> \in DOMAIN r <=> i \in Ran(c, p, X, S)
  <2>1. i \in Ran(c, p, X, S) <=> i \in Ran(c, p, x, s) \/ (P = p /\ i = Cur(c, x, s))
    BY RanStep DEF Passes
  <2>2. <<p, i>> \in DOMAIN gr <=> i \in Ran(c, p, x, s)
    BY DEF GraphsRight
  <2>3. <<p, i>> = g <=> p = P /\ i = g[2]
    BY <1>2
  <2>4. <<p, i>> = g <=> p = P /\ i = Cur(c, x, s)
    BY <1>3, <2>3
  <2> QED  BY <1>7, <2>1, <2>2, <2>4
<1>10. ASSUME NEW i \in CallablesOf(c), <<"dw", i>> \in DOMAIN r
       PROVE  CapturedWgrad(c, i, X)
  <2>1. CASE <<"dw", i>> \in DOMAIN gr
    <3>1. CapturedWgrad(c, i, x)
      BY <2>1 DEF GraphsRight
    <3>2. 1..x - 1 \subseteq 1..X - 1
      BY <1>1, <1>4
    <3> QED  BY <3>1, <3>2 DEF CapturedWgrad
  <2>2. CASE <<"dw", i>> = g
    <3>1. P = "dw" /\ i = g[2]
      BY <1>2, <2>2
    <3>2. i = <<c.order[x].chunk, N(c, "bwd", c.order[x].chunk, x) - 1, LayerAt(c, x, s)>>
      BY <3>1 DEF KeyAt, g
    <3>3. i[1] = c.order[x].chunk /\ i[2] = N(c, "bwd", i[1], x) - 1
      BY <3>2
    <3>4. c.order[x] = Pass("dw", i[1])
      BY <3>1, <3>3, OrderAt
    <3>5. x \in 1..X - 1
      BY <1>1, <1>5, <3>1
    <3> QED  BY <3>3, <3>4, <3>5 DEF CapturedWgrad
  <2> QED  BY <1>7, <1>10, <2>1, <2>2
<1>11. ASSUME NEW y \in 1..End(c), NEW t \in 1..NL(c, y), Before(y, t, X, S)
       PROVE  KeyAt(c, y, t) \in DOMAIN r /\ Needed(c, y, t) \subseteq r[KeyAt(c, y, t)]
  <2>1. Before(y, t, x, s) \/ (y = x /\ t = s)
    BY <1>11, BeforeStep
  <2>2. CASE Before(y, t, x, s)
    <3>1. KeyAt(c, y, t) \in DOMAIN gr /\ Needed(c, y, t) \subseteq gr[KeyAt(c, y, t)]
      BY <2>2 DEF GraphsRight
    <3> QED  BY <1>7, <3>1
  <2>3. CASE y = x /\ t = s
    BY <1>7, <2>3 DEF g
  <2> QED  BY <2>1, <2>2, <2>3
<1> QED  BY <1>8, <1>9, <1>10, <1>11 DEF GraphsRight

\* What is needed is alive.
AllocRight(c, lv, lg, x, s) ==
  lv \subseteq Tensors(c) /\ Needed(c, x, s) \subseteq lv /\ lg = LastGrad(c, x)

LEMMA LastGradKept ==
  ASSUME NEW c \in Configs, NEW x \in 1..End(c), NEW s \in 1..NL(c, x),
         c.order[x].pass # "bwd" \/ LayerAt(c, x, s) # 1
  PROVE  LastGrad(c, NextX(c, x, s)) = LastGrad(c, x)
<1>1. x \in Nat \ {0} /\ s \in Nat \ {0} /\ NL(c, x) \in Nat \ {0} /\ s <= NL(c, x)
  BY PointFacts
<1>2. CASE NextX(c, x, s) = x
  BY <1>2
<1>3. CASE NextX(c, x, s) # x
  <2>1. NextX(c, x, s) = x + 1 /\ s = NL(c, x)
    BY <1>1, <1>3 DEF NextX
  <2>2. c.order[x].pass = "bwd" => LayerAt(c, x, s) = 1
    BY <1>1, <2>1 DEF LayerAt
  <2>3. c.order[x].pass # "bwd"
    BY <2>2
  <2> QED  BY <1>1, <2>1, <2>3, LastGradStep
<1> QED  BY <1>2, <1>3

LEMMA LastGradNew ==
  ASSUME NEW c \in Configs, NEW x \in 1..End(c), NEW s \in 1..NL(c, x),
         c.order[x].pass = "bwd", LayerAt(c, x, s) = 1
  PROVE  LastGrad(c, NextX(c, x, s)) = {Cur(c, x, s)}
<1>1. x \in Nat \ {0} /\ s \in Nat \ {0} /\ NL(c, x) \in Nat \ {0} /\ s <= NL(c, x)
  BY PointFacts
<1>2. s = NL(c, x)
  BY <1>1 DEF LayerAt
<1>3. NextX(c, x, s) = x + 1
  BY <1>1, <1>2 DEF NextX
<1>4. Cur(c, x, s) = <<c.order[x].chunk, N(c, "bwd", c.order[x].chunk, x), 1>>
  BY CurIs
<1> QED  BY <1>1, <1>3, <1>4, LastGradStep

LEMMA NeededTensors ==
  ASSUME NEW c \in Configs, NEW i \in CallablesOf(c), NEW u \in {"out", "saved", "gin"}
  PROVE  <<u, i>> \in Tensors(c)
  BY DEF Tensors

LEMMA AllocForward ==
  ASSUME NEW c \in Configs, NEW x \in 1..End(c), NEW s \in 1..NL(c, x), NEW lv, NEW lg,
         AllocRight(c, lv, lg, x, s), c.order[x].pass = "fwd"
  PROVE  AllocRight(c, lv \cup {<<"out", Cur(c, x, s)>>, <<"saved", Cur(c, x, s)>>}, lg,
                    NextX(c, x, s), NextS(c, x, s))
<1>1. Cur(c, x, s) \in CallablesOf(c)
  BY CurIs
<1>2. LastGrad(c, NextX(c, x, s)) = LastGrad(c, x)
  BY LastGradKept
<1>3. \A t \in Needed(c, NextX(c, x, s), NextS(c, x, s)) :
        t \in Needed(c, x, s) \cup {<<"out", Cur(c, x, s)>>, <<"saved", Cur(c, x, s)>>}
  BY NeededStep
<1>4. {<<"out", Cur(c, x, s)>>, <<"saved", Cur(c, x, s)>>} \subseteq Tensors(c)
  BY <1>1, NeededTensors
<1> QED  BY <1>2, <1>3, <1>4 DEF AllocRight

LEMMA AllocWgrad ==
  ASSUME NEW c \in Configs, NEW x \in 1..End(c), NEW s \in 1..NL(c, x), NEW lv, NEW lg,
         AllocRight(c, lv, lg, x, s), c.order[x].pass = "dw"
  PROVE  AllocRight(c, lv, lg, NextX(c, x, s), NextS(c, x, s))
<1>1. LastGrad(c, NextX(c, x, s)) = LastGrad(c, x)
  BY LastGradKept
<1>2. \A t \in Needed(c, NextX(c, x, s), NextS(c, x, s)) : t \in Needed(c, x, s)
  BY NeededStep
<1> QED  BY <1>1, <1>2 DEF AllocRight

\* A backward releases nothing that is needed after it.
LEMMA AllocBackward ==
  ASSUME NEW c \in Configs, NEW x \in 1..End(c), NEW s \in 1..NL(c, x), NEW lv, NEW lg,
         AllocRight(c, lv, lg, x, s), c.order[x].pass = "bwd", NEW i, i = Cur(c, x, s), NEW rel,
         rel \subseteq {<<"saved", i>>, <<"out", i>>, <<"gin", <<i[1], i[2], i[3] + 1>>>>}
                       \cup (IF LayerAt(c, x, s) = 1 THEN {<<"gin", j>> : j \in lg} ELSE {})
  PROVE  AllocRight(c, (lv \cup {<<"gin", i>>}) \ rel, IF LayerAt(c, x, s) = 1 THEN {i} ELSE lg,
                    NextX(c, x, s), NextS(c, x, s))
<1>1. i \in CallablesOf(c) /\ i \notin Ran(c, "bwd", x, s)
  BY CurIs
<1>2. i[3] \in Nat \ {0}
  BY <1>1, CallableIs, ConfigFacts
<1>3. <<"gin", i>> \in Tensors(c)
  BY <1>1, NeededTensors
<1>4. LastGrad(c, NextX(c, x, s)) = IF LayerAt(c, x, s) = 1 THEN {i} ELSE lg
  BY LastGradKept, LastGradNew DEF AllocRight
<1>5. \A j \in lg : j[3] = 1 /\ j # i
  <2>1. x \in 1..End(c) + 1
    BY PointFacts
  <2> QED  BY <1>1, <2>1, LastGradIs DEF AllocRight
<1>6. ASSUME NEW t \in Needed(c, NextX(c, x, s), NextS(c, x, s))
      PROVE  t \in (lv \cup {<<"gin", i>>}) \ rel
  <2>1. \/ t = <<"gin", i>>
        \/ /\ t \in Needed(c, x, s)
           /\ t \notin {<<"out", i>>, <<"saved", i>>}
           /\ t[1] = "gin" => LayerAt(c, x, s) # 1 /\ t[2] \in lg
    BY NeededStep DEF AllocRight
  <2>2. CASE t = <<"gin", i>>
    <3>1. i # <<i[1], i[2], i[3] + 1>>
      <4>1. i[3] # i[3] + 1
        BY <1>2
      <4>2. i[3] # <<i[1], i[2], i[3] + 1>>[3]
        BY <4>1
      <4> QED  BY <4>2
    <3>2. t \notin {<<"saved", i>>, <<"out", i>>, <<"gin", <<i[1], i[2], i[3] + 1>>>>}
      BY <2>2, <3>1
    <3>3. t \notin {<<"gin", j>> : j \in lg}
      BY <1>5, <2>2
    <3> QED  BY <2>2, <3>2, <3>3
  <2>3. CASE /\ t \in Needed(c, x, s)
             /\ t \notin {<<"out", i>>, <<"saved", i>>}
             /\ t[1] = "gin" => LayerAt(c, x, s) # 1 /\ t[2] \in lg
    <3>1. t \in lv
      BY <2>3 DEF AllocRight
    <3>2. t # <<"gin", <<i[1], i[2], i[3] + 1>>>>
      <4> SUFFICES ASSUME t = <<"gin", <<i[1], i[2], i[3] + 1>>>>  PROVE FALSE
        OBVIOUS
      <4>1. t[1] = "gin" /\ t[2][3] = i[3] + 1
        OBVIOUS
      <4>2. t[2][3] = 1
        BY <1>5, <2>3, <4>1
      <4> QED  BY <1>2, <4>1, <4>2
    <3>3. LayerAt(c, x, s) = 1 => t \notin {<<"gin", j>> : j \in lg}
      <4> SUFFICES ASSUME LayerAt(c, x, s) = 1, NEW j \in lg, t = <<"gin", j>>  PROVE FALSE
        OBVIOUS
      <4>1. t[1] = "gin"
        OBVIOUS
      <4> QED  BY <2>3, <4>1
    <3> QED  BY <2>3, <3>1, <3>2, <3>3
  <2> QED  BY <2>1, <2>2, <2>3
<1>7. (lv \cup {<<"gin", i>>}) \ rel \subseteq Tensors(c)
  BY <1>3 DEF AllocRight
<1> QED  BY <1>4, <1>6, <1>7 DEF AllocRight

LEMMA KeyCallable ==
  ASSUME NEW c \in Configs, NEW x \in 1..End(c), NEW s \in 1..NL(c, x)
  PROVE  /\ KeyAt(c, x, s)[2] \in CallablesOf(c)
         /\ KeyAt(c, x, s)[2][1] = c.order[x].chunk /\ KeyAt(c, x, s)[2][3] = LayerAt(c, x, s)
<1> DEFINE k == c.order[x].chunk
           b == N(c, "bwd", k, x)
<1>1. /\ k \in ChunksOf(c) /\ c.order[x].pass \in Passes /\ LayerAt(c, x, s) \in 1..NL(c, x)
      /\ NL(c, x) = c.layers[k] /\ x \in 1..End(c) + 1
  BY PointFacts
<1>2. CASE c.order[x].pass = "dw"
  <2>1. c.order[x] = Pass("dw", k)
    BY <1>1, <1>2, OrderAt
  <2>2. b > 0
    BY <1>1, <2>1, Possible
  <2>3. b \in 0..N(c, "fwd", k, x) /\ N(c, "fwd", k, x) \in 0..MicrobatchesOf(c) /\ MicrobatchesOf(c) \in Nat
    BY <1>1, CountBound, Totals
  <2> HIDE DEF b
  <2>4. b - 1 \in 0..MicrobatchesOf(c) - 1
    BY <2>2, <2>3
  <2>5. <<k, b - 1, LayerAt(c, x, s)>> \in CallablesOf(c)
    BY <1>1, <2>4, CallableOf
  <2>6. KeyAt(c, x, s)[2] = <<k, b - 1, LayerAt(c, x, s)>>
    BY <1>2 DEF KeyAt, b
  <2> QED  BY <2>5, <2>6
<1>3. CASE c.order[x].pass # "dw"
  <2>1. c.order[x].pass \in {"fwd", "bwd"}
    BY <1>1, <1>3 DEF Passes
  <2>2. KeyAt(c, x, s)[2] = Cur(c, x, s)
    BY <1>3 DEF KeyAt
  <2> QED  BY <2>1, <2>2, CurIs
<1> QED  BY <1>2, <1>3

LayersOf(c) == {<<i[1], i[3]>> : i \in CallablesOf(c)}

LEMMA LayersIs ==
  ASSUME NEW c, NEW m \in LayersOf(c)
  PROVE  m = <<m[1], m[2]>> /\ m[1] \in ChunksOf(c) /\ m[2] \in 1..c.layers[m[1]]
  BY CallableIs DEF LayersOf

LEMMA LayerNow ==
  ASSUME NEW c \in Configs, NEW x \in 1..End(c), NEW s \in 1..NL(c, x)
  PROVE  <<c.order[x].chunk, LayerAt(c, x, s)>> \in LayersOf(c)
  BY KeyCallable DEF LayersOf

\* The stores hold the dgrads whose wgrads are owed, oldest first; a wgrad graph has taken
\* the oldest.
StoreRight(c, st, x) == \A m \in LayersOf(c) :
  /\ st[m] \in Seq(CallablesOf(c))
  /\ Len(st[m]) = IF c.delay THEN Owed(c, m[1], x) ELSE 0
  /\ \A j \in 1..Len(st[m]) : st[m][j] = <<m[1], N(c, "dw", m[1], x) + j - 1, 1>>
WgradsRight(c, dwo, x) == \A z \in 1..x - 1 : c.order[z].pass = "dw" =>
  dwo[KeyAt(c, z, 1)[2]] = <<c.order[z].chunk, N(c, "dw", c.order[z].chunk, z), 1>>

\* With delay a pass is one step.
LEMMA DelayStep ==
  ASSUME NEW c \in Configs, NEW x \in 1..End(c), NEW s \in 1..NL(c, x), c.delay
  PROVE  /\ NL(c, x) = 1 /\ s = 1 /\ LayerAt(c, x, s) = 1
         /\ NextX(c, x, s) = x + 1 /\ NextS(c, x, s) = 1
<1>1. NL(c, x) = 1
  BY PointFacts, ConfigFacts
<1>2. s = 1 /\ LayerAt(c, x, s) = 1
  BY <1>1 DEF LayerAt
<1> QED  BY <1>1, <1>2 DEF NextX, NextS

LEMMA DelayLayers ==
  ASSUME NEW c \in Configs, c.delay, NEW m \in LayersOf(c)
  PROVE  m = <<m[1], 1>> /\ m[1] \in ChunksOf(c)
<1>1. m = <<m[1], m[2]>> /\ m[1] \in ChunksOf(c) /\ m[2] \in 1..c.layers[m[1]]
  BY LayersIs
<1>2. c.layers[m[1]] = 1
  BY <1>1, ConfigFacts
<1>3. m[2] = 1
  BY <1>1, <1>2
<1> QED  BY <1>1, <1>3

LEMMA StoreKeep ==
  ASSUME NEW c \in Configs, NEW x \in 1..End(c), NEW s \in 1..NL(c, x), NEW st, StoreRight(c, st, x),
         c.order[x].pass = "fwd" \/ ~c.delay
  PROVE  StoreRight(c, st, NextX(c, x, s))
<1>1. CASE ~c.delay
  <2>1. \A m \in LayersOf(c) : Len(st[m]) = 0
    BY <1>1 DEF StoreRight
  <2>2. \A m \in LayersOf(c) : 1..Len(st[m]) = {}
    BY <2>1
  <2> QED  BY <1>1, <2>2 DEF StoreRight
<1>2. CASE c.delay /\ c.order[x].pass = "fwd"
  <2>1. NextX(c, x, s) = x + 1 /\ x \in Nat \ {0}
    BY <1>2, DelayStep, PointFacts
  <2>2. \A k \in ChunksOf(c) : c.order[x] # Pass("bwd", k) /\ c.order[x] # Pass("dw", k)
    BY <1>2, PassIs
  <2>3. \A k \in ChunksOf(c) : Owed(c, k, x + 1) = Owed(c, k, x) /\ N(c, "dw", k, x + 1) = N(c, "dw", k, x)
    BY <2>1, <2>2, OwedStep, CountStep
  <2>4. \A m \in LayersOf(c) : m[1] \in ChunksOf(c)
    BY LayersIs
  <2> QED  BY <2>1, <2>3, <2>4 DEF StoreRight
<1> QED  BY <1>1, <1>2

LEMMA StoreBackward ==
  ASSUME NEW c \in Configs, NEW x \in 1..End(c), NEW s \in 1..NL(c, x), NEW st, StoreRight(c, st, x),
         DOMAIN st = LayersOf(c), c.delay, c.order[x].pass = "bwd", NEW n, n = <<c.order[x].chunk, LayerAt(c, x, s)>>,
         NEW r, r = [st EXCEPT ![n] = Append(@, Cur(c, x, s))]
  PROVE  StoreRight(c, r, NextX(c, x, s))
<1> DEFINE k == c.order[x].chunk
           i == Cur(c, x, s)
<1>1. /\ NextX(c, x, s) = x + 1 /\ x \in Nat \ {0} /\ n = <<k, 1>> /\ k \in ChunksOf(c) /\ n \in LayersOf(c)
      /\ c.order[x] = Pass("bwd", k) /\ x \in Int
  <2>1. NextX(c, x, s) = x + 1 /\ LayerAt(c, x, s) = 1
    BY DelayStep
  <2>2. x \in Nat \ {0} /\ x \in Int /\ k \in ChunksOf(c)
    BY PointFacts
  <2>3. n \in LayersOf(c)
    BY LayerNow
  <2>4. c.order[x] = Pass("bwd", k)
    BY OrderAt
  <2> QED  BY <2>1, <2>2, <2>3, <2>4
<1>2. i = <<k, N(c, "bwd", k, x), 1>> /\ i \in CallablesOf(c)
  BY DelayStep, CurIs
<1>3. \A j \in ChunksOf(c) : N(c, "dw", j, x + 1) = N(c, "dw", j, x)
                             /\ Owed(c, j, x + 1) = IF j = k THEN Owed(c, j, x) + 1 ELSE Owed(c, j, x)
  BY <1>1, OwedStep, CountStep, PassIs
<1>4. N(c, "dw", k, x) \in Nat /\ N(c, "bwd", k, x) \in Nat /\ Owed(c, k, x) = N(c, "bwd", k, x) - N(c, "dw", k, x)
  BY <1>1, CountType DEF Owed
<1> HIDE DEF k, i
<1>5. ASSUME NEW m \in LayersOf(c), m # n
      PROVE  /\ r[m] \in Seq(CallablesOf(c)) /\ Len(r[m]) = Owed(c, m[1], x + 1)
             /\ \A j \in 1..Len(r[m]) : r[m][j] = <<m[1], N(c, "dw", m[1], x + 1) + j - 1, 1>>
  <2>1. r[m] = st[m]
    BY <1>5
  <2>2. m[1] \in ChunksOf(c) /\ m[1] # k
    BY <1>1, <1>5, DelayLayers
  <2>3. N(c, "dw", m[1], x + 1) = N(c, "dw", m[1], x) /\ Owed(c, m[1], x + 1) = Owed(c, m[1], x)
    BY <1>3, <2>2
  <2>4. st[m] \in Seq(CallablesOf(c)) /\ Len(st[m]) = Owed(c, m[1], x)
        /\ \A j \in 1..Len(st[m]) : st[m][j] = <<m[1], N(c, "dw", m[1], x) + j - 1, 1>>
    BY DEF StoreRight
  <2> QED  BY <2>1, <2>3, <2>4
<1>6. /\ r[n] \in Seq(CallablesOf(c)) /\ Len(r[n]) = Owed(c, k, x + 1)
      /\ \A j \in 1..Len(r[n]) : r[n][j] = <<k, N(c, "dw", k, x + 1) + j - 1, 1>>
  <2> DEFINE C == CallablesOf(c)
             q == st[n]
  <2>1. /\ q \in Seq(C) /\ Len(q) = Owed(c, k, x) /\ n[1] = k
        /\ \A j \in 1..Len(q) : q[j] = <<k, N(c, "dw", k, x) + j - 1, 1>>
    <3>1. /\ q \in Seq(C) /\ Len(q) = Owed(c, n[1], x)
          /\ \A j \in 1..Len(q) : q[j] = <<n[1], N(c, "dw", n[1], x) + j - 1, 1>>
      BY <1>1 DEF StoreRight
    <3>2. n[1] = k
      BY <1>1
    <3> QED  BY <3>1, <3>2
  <2>2. r[n] = Append(q, i)
    BY <1>1 DEF i
  <2> HIDE DEF C, q
  <2>3. i \in C
    BY <1>2 DEF C
  <2>4. Append(q, i) \in Seq(C) /\ Len(Append(q, i)) = Len(q) + 1
        /\ \A j \in 1..Len(q) + 1 : Append(q, i)[j] = IF j <= Len(q) THEN q[j] ELSE i
    BY <2>1, <2>3
  <2>5. \A j \in 1..Len(q) + 1 : r[n][j] = <<k, N(c, "dw", k, x) + j - 1, 1>>
    <3> TAKE j \in 1..Len(q) + 1
    <3>0. Len(q) \in Nat
      BY <2>1
    <3>1. CASE j <= Len(q)
      <4>1. j \in 1..Len(q)
        BY <3>0, <3>1
      <4> QED  BY <2>1, <2>2, <2>4, <3>1, <4>1
    <3>2. CASE ~(j <= Len(q))
      <4>1. j = Len(q) + 1
        BY <3>0, <3>2
      <4>2. N(c, "dw", k, x) + j - 1 = N(c, "bwd", k, x)
        BY <1>4, <2>1, <4>1
      <4> QED  BY <1>2, <2>2, <2>4, <3>2, <4>2
    <3> QED  BY <3>1, <3>2
  <2>6. r[n] \in Seq(C) /\ Len(r[n]) = Owed(c, k, x + 1) /\ Len(r[n]) = Len(q) + 1
    BY <1>1, <1>3, <2>1, <2>2, <2>4
  <2>7. N(c, "dw", k, x + 1) = N(c, "dw", k, x)
    BY <1>1, <1>3
  <2> QED  BY <2>5, <2>6, <2>7 DEF C
<1>7. n[1] = k
  BY <1>1
<1> QED  BY <1>1, <1>5, <1>6, <1>7, ZenonT(60) DEF StoreRight

LEMMA StoreWgrad ==
  ASSUME NEW c \in Configs, NEW x \in 1..End(c), NEW s \in 1..NL(c, x), NEW st, StoreRight(c, st, x),
         DOMAIN st = LayersOf(c), c.delay, c.order[x].pass = "dw", NEW n, n = <<c.order[x].chunk, LayerAt(c, x, s)>>,
         st[n] # <<>>, NEW r, r = [st EXCEPT ![n] = Tail(@)]
  PROVE  /\ StoreRight(c, r, NextX(c, x, s))
         /\ N(c, "dw", c.order[x].chunk, x) < N(c, "bwd", c.order[x].chunk, x)
         /\ Head(st[n]) = <<c.order[x].chunk, N(c, "dw", c.order[x].chunk, x), 1>>
         /\ Head(st[n]) \in CallablesOf(c)
<1> DEFINE k == c.order[x].chunk
           C == CallablesOf(c)
           q == st[n]
<1>1. /\ NextX(c, x, s) = x + 1 /\ x \in Nat \ {0} /\ n = <<k, 1>> /\ k \in ChunksOf(c) /\ n \in LayersOf(c)
      /\ c.order[x] = Pass("dw", k) /\ x \in Int
  <2>1. NextX(c, x, s) = x + 1 /\ LayerAt(c, x, s) = 1
    BY DelayStep
  <2>2. x \in Nat \ {0} /\ x \in Int /\ k \in ChunksOf(c)
    BY PointFacts
  <2>3. n \in LayersOf(c)
    BY LayerNow
  <2>4. c.order[x] = Pass("dw", k)
    BY OrderAt
  <2> QED  BY <2>1, <2>2, <2>3, <2>4
<1>2. \A j \in ChunksOf(c) : N(c, "dw", j, x + 1) = (IF j = k THEN N(c, "dw", j, x) + 1 ELSE N(c, "dw", j, x))
                             /\ Owed(c, j, x + 1) = IF j = k THEN Owed(c, j, x) - 1 ELSE Owed(c, j, x)
  <2> TAKE j \in ChunksOf(c)
  <2>1. c.order[x] = Pass("dw", j) <=> j = k
    BY <1>1, PassIs
  <2>2. c.order[x] # Pass("bwd", j)
    BY <1>1, PassIs
  <2> HIDE DEF k
  <2>3. N(c, "dw", j, x + 1) = IF j = k THEN N(c, "dw", j, x) + 1 ELSE N(c, "dw", j, x)
    BY <1>1, <2>1, CountStep
  <2>4. Owed(c, j, x + 1) = IF j = k THEN Owed(c, j, x) - 1 ELSE Owed(c, j, x)
    BY <2>1, <2>2, OwedStep
  <2> QED  BY <2>3, <2>4
<1>3. N(c, "dw", k, x) \in Nat /\ N(c, "bwd", k, x) \in Nat /\ Owed(c, k, x) = N(c, "bwd", k, x) - N(c, "dw", k, x)
  BY <1>1, CountType DEF Owed
<1>4. /\ q \in Seq(C) /\ Len(q) = Owed(c, k, x) /\ n[1] = k
      /\ \A j \in 1..Len(q) : q[j] = <<k, N(c, "dw", k, x) + j - 1, 1>>
  <2>1. /\ q \in Seq(C) /\ Len(q) = Owed(c, n[1], x)
        /\ \A j \in 1..Len(q) : q[j] = <<n[1], N(c, "dw", n[1], x) + j - 1, 1>>
    BY <1>1 DEF StoreRight
  <2>2. n[1] = k
    BY <1>1
  <2> QED  BY <2>1, <2>2
<1>5. r[n] = Tail(q) /\ q # <<>>
  BY <1>1
<1> HIDE DEF k, C, q
<1>6. Len(q) \in Nat \ {0} /\ 1 \in 1..Len(q) /\ Head(q) = q[1] /\ Head(q) \in C
  BY <1>4, <1>5
<1>7. Len(Tail(q)) = Len(q) - 1 /\ Tail(q) \in Seq(C) /\ \A j \in 1..Len(q) - 1 : Tail(q)[j] = q[j + 1]
  BY <1>4, <1>5, HeadTailProperties
<1>8. ASSUME NEW m \in LayersOf(c), m # n
      PROVE  /\ r[m] \in Seq(CallablesOf(c)) /\ Len(r[m]) = Owed(c, m[1], x + 1)
             /\ \A j \in 1..Len(r[m]) : r[m][j] = <<m[1], N(c, "dw", m[1], x + 1) + j - 1, 1>>
  <2>1. r[m] = st[m]
    BY <1>8
  <2>2. m[1] \in ChunksOf(c) /\ m[1] # k
    BY <1>1, <1>8, DelayLayers
  <2>3. N(c, "dw", m[1], x + 1) = N(c, "dw", m[1], x) /\ Owed(c, m[1], x + 1) = Owed(c, m[1], x)
    BY <1>2, <2>2
  <2>4. st[m] \in Seq(CallablesOf(c)) /\ Len(st[m]) = Owed(c, m[1], x)
        /\ \A j \in 1..Len(st[m]) : st[m][j] = <<m[1], N(c, "dw", m[1], x) + j - 1, 1>>
    BY DEF StoreRight
  <2> QED  BY <2>1, <2>3, <2>4
<1>9. /\ r[n] \in Seq(C) /\ Len(r[n]) = Owed(c, k, x + 1)
      /\ \A j \in 1..Len(r[n]) : r[n][j] = <<k, N(c, "dw", k, x + 1) + j - 1, 1>>
  <2>1. r[n] \in Seq(C) /\ Len(r[n]) = Len(q) - 1
    BY <1>5, <1>7
  <2>2. Owed(c, k, x + 1) = Owed(c, k, x) - 1 /\ N(c, "dw", k, x + 1) = N(c, "dw", k, x) + 1
    BY <1>1, <1>2
  <2>3. \A j \in 1..Len(q) - 1 : r[n][j] = <<k, N(c, "dw", k, x + 1) + j - 1, 1>>
    <3> TAKE j \in 1..Len(q) - 1
    <3>1. j + 1 \in 1..Len(q) /\ j \in Nat
      BY <1>6
    <3>2. r[n][j] = <<k, N(c, "dw", k, x) + (j + 1) - 1, 1>>
      BY <1>4, <1>5, <1>7, <3>1
    <3>3. N(c, "dw", k, x) + (j + 1) - 1 = N(c, "dw", k, x + 1) + j - 1
      BY <1>3, <2>2, <3>1
    <3> QED  BY <3>2, <3>3
  <2> QED  BY <1>4, <2>1, <2>2, <2>3
<1>10. Head(q) = <<k, N(c, "dw", k, x), 1>>
  <2>1. Head(q) = <<k, N(c, "dw", k, x) + 1 - 1, 1>>
    BY <1>4, <1>6
  <2>2. N(c, "dw", k, x) + 1 - 1 = N(c, "dw", k, x)
    BY <1>3
  <2> QED  BY <2>1, <2>2
<1>11. N(c, "dw", k, x) < N(c, "bwd", k, x)
  BY <1>3, <1>4, <1>6
<1>12. StoreRight(c, r, x + 1)
  BY <1>4, <1>8, <1>9, ZenonT(60) DEF StoreRight, C
<1> QED  BY <1>1, <1>6, <1>10, <1>11, <1>12 DEF k, C, q

LEMMA WgradsKeep ==
  ASSUME NEW c \in Configs, NEW x \in 1..End(c), NEW s \in 1..NL(c, x), NEW dwo, WgradsRight(c, dwo, x),
         c.order[x].pass # "dw"
  PROVE  WgradsRight(c, dwo, NextX(c, x, s))
<1>1. NextX(c, x, s) \in {x, x + 1} /\ x \in Nat
  BY NextPoint, PointFacts
<1>2. \A z \in 1..NextX(c, x, s) - 1 : z \in 1..x - 1 \/ z = x
  BY <1>1
<1> QED  BY <1>2 DEF WgradsRight

LEMMA WgradsStep ==
  ASSUME NEW c \in Configs, NEW x \in 1..End(c), NEW s \in 1..NL(c, x), NEW dwo, WgradsRight(c, dwo, x),
         c.delay, c.order[x].pass = "dw", NEW gr, GraphsRight(c, gr, x, s), KeyAt(c, x, s) \notin DOMAIN gr,
         dwo \in [CallablesOf(c) -> CallablesOf(c)], NEW v,
         v = <<c.order[x].chunk, N(c, "dw", c.order[x].chunk, x), 1>>,
         NEW r, r = [dwo EXCEPT ![KeyAt(c, x, s)[2]] = v]
  PROVE  WgradsRight(c, r, NextX(c, x, s))
<1>1. NextX(c, x, s) = x + 1 /\ x \in Nat \ {0} /\ s = 1 /\ x <= End(c) /\ End(c) \in Nat
  BY DelayStep, PointFacts, ConfigFacts
<1> SUFFICES ASSUME NEW z \in 1..(x + 1) - 1, c.order[z].pass = "dw"
             PROVE  r[KeyAt(c, z, 1)[2]] = <<c.order[z].chunk, N(c, "dw", c.order[z].chunk, z), 1>>
  BY <1>1 DEF WgradsRight
<1>2. KeyAt(c, x, s)[2] \in CallablesOf(c)
  BY KeyCallable
<1>3. CASE z = x
  BY <1>1, <1>2, <1>3
<1>4. CASE z # x
  <2>1. z \in 1..x - 1 /\ z \in 1..End(c) /\ z < x
    BY <1>1, <1>4
  <2>2. NL(c, z) \in Nat \ {0}
    BY <2>1, OrderAt
  <2>3. 1 \in 1..NL(c, z)
    BY <2>2
  <2>4. KeyAt(c, z, 1) \in DOMAIN gr
    BY <2>1, <2>3 DEF GraphsRight, Before
  <2>5. KeyAt(c, z, 1)[2] # KeyAt(c, x, s)[2]
    <3>1. KeyAt(c, z, 1)[1] = "dw" /\ KeyAt(c, x, s)[1] = "dw"
      BY DEF KeyAt
    <3>2. KeyAt(c, z, 1) = <<KeyAt(c, z, 1)[1], KeyAt(c, z, 1)[2]>>
          /\ KeyAt(c, x, s) = <<KeyAt(c, x, s)[1], KeyAt(c, x, s)[2]>>
      BY DEF KeyAt
    <3>3. KeyAt(c, z, 1) # KeyAt(c, x, s)
      BY <2>4
    <3> QED  BY ONLY <3>1, <3>2, <3>3
  <2>6. KeyAt(c, z, 1)[2] \in CallablesOf(c)
    BY <2>1, <2>3, KeyCallable
  <2>7. r[KeyAt(c, z, 1)[2]] = dwo[KeyAt(c, z, 1)[2]]
    BY <2>5, <2>6
  <2> QED  BY <2>1, <2>7 DEF WgradsRight
<1> QED  BY <1>3, <1>4

\* What a capture that has come to a point has left.
Captured(c, x, s) ==
  /\ GraphsRight(c, graphs, x, s)
  /\ AllocRight(c, live, lastGrad, x, s)
  /\ DOMAIN store = LayersOf(c) /\ StoreRight(c, store, x)
  /\ dwOf \in [CallablesOf(c) -> CallablesOf(c)] /\ WgradsRight(c, dwOf, x)
  /\ gradOut \in [CallablesOf(c) -> CallablesOf(c)]
  /\ ~c.reuse => \A i \in CallablesOf(c) : gradOut[i] = i
  /\ \A y \in 1..x - 1 : AcceptedAt(c, y)

LEMMA AcceptedStep ==
  ASSUME NEW c \in Configs, NEW x \in 1..End(c), NEW s \in 1..NL(c, x),
         \A y \in 1..x - 1 : AcceptedAt(c, y), AcceptedAt(c, x)
  PROVE  \A y \in 1..NextX(c, x, s) - 1 : AcceptedAt(c, y)
<1>1. NextX(c, x, s) \in {x, x + 1} /\ x \in Nat
  BY NextPoint, PointFacts
<1>2. \A y \in 1..NextX(c, x, s) - 1 : y \in 1..x - 1 \/ y = x
  BY <1>1
<1> QED  BY <1>2

LEMMA CapturedFirst ==
  ASSUME NEW c \in Configs, config = c, Init
  PROVE  Captured(c, 1, 1)
<1>1. 1 \in 1..End(c) /\ 1 \in 1..End(c) + 1 /\ 1..1 - 1 = {}
  BY FirstForward, ConfigFacts
<1>2. GraphsRight(c, graphs, 1, 1)
  <2>1. graphs = <<>> /\ DOMAIN graphs = {}
    BY DEF Init
  <2>2. Ran(c, "fwd", 1, 1) = {} /\ Ran(c, "bwd", 1, 1) = {}
    BY RanFirst DEF Passes
  <2>3. \A y \in 1..End(c) : \A t \in 1..NL(c, y) : ~Before(y, t, 1, 1)
    <3> TAKE y \in 1..End(c)
    <3> TAKE t \in 1..NL(c, y)
    <3>1. y \in Nat \ {0} /\ t \in Nat \ {0}
      BY PointFacts
    <3> QED  BY <3>1 DEF Before
  <2> QED  BY <2>1, <2>2, <2>3 DEF GraphsRight
<1>3. AllocRight(c, live, lastGrad, 1, 1)
  BY NeededFirst, LastGradFirst DEF AllocRight, Init
<1>4. store = [m \in LayersOf(c) |-> <<>>]
  BY DEF Init, LayersOf
<1>5. DOMAIN store = LayersOf(c)
  BY <1>4
<1>6. StoreRight(c, store, 1)
  <2> SUFFICES ASSUME NEW m \in LayersOf(c)
               PROVE  /\ store[m] \in Seq(CallablesOf(c))
                      /\ Len(store[m]) = IF c.delay THEN Owed(c, m[1], 1) ELSE 0
                      /\ \A j \in 1..Len(store[m]) : store[m][j] = <<m[1], N(c, "dw", m[1], 1) + j - 1, 1>>
    BY DEF StoreRight
  <2>1. store[m] = <<>> /\ Len(store[m]) = 0 /\ 1..Len(store[m]) = {} /\ store[m] \in Seq(CallablesOf(c))
    BY <1>4
  <2>2. Owed(c, m[1], 1) = 0
    BY OwedFirst
  <2> QED  BY <2>1, <2>2
<1>7. /\ gradOut = [i \in CallablesOf(c) |-> i] /\ dwOf = gradOut
  BY DEF Init
<1>8. WgradsRight(c, dwOf, 1)
  BY <1>1 DEF WgradsRight
<1> QED  BY <1>1, <1>2, <1>3, <1>5, <1>6, <1>7, <1>8 DEF Captured

LEMMA CapturesForward ==
  ASSUME NEW c \in Configs, config = c, NEW x \in 1..End(c), NEW s \in 1..NL(c, x),
         cursor = CursorAt(c, x, s), Captured(c, x, s), CaptureForward
  PROVE  Captured(c, NextX(c, x, s), NextS(c, x, s))'
<1> DEFINE i == Cur(c, x, s)
           new == {<<"out", i>>, <<"saved", i>>}
           X == NextX(c, x, s)
           S == NextS(c, x, s)
<1>1. Current = c.order[x] /\ c.order[x].pass = "fwd" /\ At(Done("fwd")) = i
  <2>1. Current = c.order[x] /\ At(Done(c.order[x].pass)) = i
    BY CursorNow
  <2>2. c.order[x].pass = "fwd"
    BY <2>1 DEF CaptureForward, Capturing
  <2> QED  BY <2>1, <2>2
<1>2. /\ Capture(<<"fwd", i>>, new) /\ live' = live \cup new
      /\ UNCHANGED <<gradOut, lastGrad, store, dwOf>>
  BY <1>1 DEF CaptureForward
<1>3. KeyAt(c, x, s) = <<"fwd", i>>
  BY <1>1 DEF KeyAt
<1>4. AllocRight(c, live, lastGrad, x, s) /\ GraphsRight(c, graphs, x, s)
  BY DEF Captured
<1>5. AllocRight(c, live \cup new, lastGrad, X, S)
  BY <1>1, <1>4, AllocForward
<1>6. GraphsRight(c, graphs', X, S)
  <2> DEFINE L == live \cup new
  <2>1. L \in SUBSET Tensors(c) /\ Needed(c, x, s) \subseteq L
    BY <1>4, <1>5 DEF AllocRight
  <2>2. graphs' = [h \in DOMAIN graphs \cup {KeyAt(c, x, s)} |-> IF h = KeyAt(c, x, s) THEN L ELSE graphs[h]]
    BY <1>2, <1>3 DEF Capture
  <2>3. KeyAt(c, x, s)[2] \in CallablesOf(c) /\ c.order[x].pass # "dw"
    BY <1>1, KeyCallable
  <2> HIDE DEF L
  <2> QED  BY <1>4, <2>1, <2>2, <2>3, GraphsStep
<1>7. StoreRight(c, store, X)
  BY <1>1, StoreKeep DEF Captured
<1>8. WgradsRight(c, dwOf, X)
  BY <1>1, WgradsKeep DEF Captured
<1>9. \A y \in 1..X - 1 : AcceptedAt(c, y)
  <2>1. AcceptedAt(c, x)
    BY <1>1 DEF AcceptedAt
  <2> QED  BY <2>1, AcceptedStep DEF Captured
<1> HIDE DEF new, i
<1> QED  BY <1>2, <1>5, <1>6, <1>7, <1>8, <1>9 DEF Captured

LEMMA CapturesBackward ==
  ASSUME NEW c \in Configs, config = c, NEW x \in 1..End(c), NEW s \in 1..NL(c, x),
         cursor = CursorAt(c, x, s), sample \in [CallablesOf(c) -> CallablesOf(c)],
         Captured(c, x, s), CaptureBackward
  PROVE  Captured(c, NextX(c, x, s), NextS(c, x, s))'
<1> DEFINE i == Cur(c, x, s)
           new == {<<"gin", i>>}
           rel == ReleasedBy(i)
           X == NextX(c, x, s)
           S == NextS(c, x, s)
           k == c.order[x].chunk
<1>1. /\ Current = c.order[x] /\ c.order[x].pass = "bwd" /\ At(Done("bwd")) = i
      /\ Layer = LayerAt(c, x, s) /\ cursor.pos = x /\ cursor.step = s
  <2>1. Current = c.order[x] /\ At(Done(c.order[x].pass)) = i
        /\ Layer = LayerAt(c, x, s) /\ cursor.pos = x /\ cursor.step = s
    BY CursorNow
  <2>2. c.order[x].pass = "bwd"
    BY <2>1 DEF CaptureBackward, Capturing
  <2> QED  BY <2>1, <2>2
<1>2. /\ Capture(<<"bwd", i>>, new) /\ live' = (live \cup new) \ rel
      /\ gradOut' = [gradOut EXCEPT ![i] = GradOutputsOf(i)]
      /\ lastGrad' = IF LayerAt(c, x, s) = 1 THEN {i} ELSE lastGrad
      /\ store' = IF c.delay THEN [store EXCEPT ![<<i[1], i[3]>>] = Append(@, i)] ELSE store
      /\ dwOf' = dwOf
      /\ c.delay => WgradMatches(c, x)
  BY <1>1 DEF CaptureBackward
<1>3. KeyAt(c, x, s) = <<"bwd", i>> /\ i \in CallablesOf(c) /\ i[1] = k /\ i[3] = LayerAt(c, x, s)
  BY <1>1, CurIs DEF KeyAt
<1>4. AllocRight(c, live, lastGrad, x, s) /\ GraphsRight(c, graphs, x, s)
  BY DEF Captured
<1>5. AllocRight(c, live', lastGrad', X, S)
  <2>1. rel \subseteq {<<"saved", i>>, <<"out", i>>, <<"gin", <<i[1], i[2], i[3] + 1>>>>}
                      \cup (IF LayerAt(c, x, s) = 1 THEN {<<"gin", j>> : j \in lastGrad} ELSE {})
    BY <1>1 DEF ReleasedBy
  <2> HIDE DEF i, rel
  <2>2. AllocRight(c, (live \cup {<<"gin", i>>}) \ rel, IF LayerAt(c, x, s) = 1 THEN {i} ELSE lastGrad, X, S)
    BY <1>1, <1>4, <2>1, AllocBackward DEF i
  <2> QED  BY <1>2, <2>2
<1>6. GraphsRight(c, graphs', X, S)
  <2> DEFINE L == live \cup new
  <2>1. L \in SUBSET Tensors(c) /\ Needed(c, x, s) \subseteq L
    BY <1>3, <1>4, NeededTensors DEF AllocRight
  <2>2. graphs' = [h \in DOMAIN graphs \cup {KeyAt(c, x, s)} |-> IF h = KeyAt(c, x, s) THEN L ELSE graphs[h]]
    BY <1>2, <1>3 DEF Capture
  <2>3. KeyAt(c, x, s)[2] \in CallablesOf(c) /\ c.order[x].pass # "dw"
    BY <1>1, KeyCallable
  <2> HIDE DEF L
  <2> QED  BY <1>4, <2>1, <2>2, <2>3, GraphsStep
<1>7. StoreRight(c, store', X) /\ DOMAIN store' = LayersOf(c)
  <2>1. DOMAIN store = LayersOf(c) /\ StoreRight(c, store, x)
    BY DEF Captured
  <2>2. CASE ~c.delay
    BY <1>2, <2>1, <2>2, StoreKeep
  <2>3. CASE c.delay
    <3>1. store' = [store EXCEPT ![<<k, LayerAt(c, x, s)>>] = Append(@, i)]
      BY <1>2, <1>3, <2>3
    <3>2. StoreRight(c, store', X)
      <4> DEFINE n == <<k, LayerAt(c, x, s)>>
      <4>1. n = <<c.order[x].chunk, LayerAt(c, x, s)>> /\ c.order[x].pass = "bwd"
            /\ store' = [store EXCEPT ![n] = Append(@, Cur(c, x, s))]
        BY <1>1, <3>1
      <4> HIDE DEF n
      <4> QED  BY ONLY c \in Configs, x \in 1..End(c), s \in 1..NL(c, x), <2>1, <2>3, <4>1, StoreBackward
    <3> QED  BY <2>1, <3>1, <3>2
  <2> QED  BY <2>2, <2>3
<1>8. WgradsRight(c, dwOf, X)
  BY <1>1, WgradsKeep DEF Captured
<1>9. \A y \in 1..X - 1 : AcceptedAt(c, y)
  <2>1. AcceptedAt(c, x)
    BY <1>1, <1>2 DEF AcceptedAt
  <2> QED  BY <2>1, AcceptedStep DEF Captured
<1>10. gradOut' \in [CallablesOf(c) -> CallablesOf(c)] /\ (~c.reuse => \A j \in CallablesOf(c) : gradOut'[j] = j)
  <2>1. gradOut \in [CallablesOf(c) -> CallablesOf(c)] /\ (~c.reuse => \A j \in CallablesOf(c) : gradOut[j] = j)
    BY DEF Captured
  <2>2. GradOutputsOf(i) \in CallablesOf(c) /\ (~c.reuse => GradOutputsOf(i) = i)
    <3> DEFINE same == {j \in Callables : /\ <<"bwd", j>> \in DOMAIN graphs
                                          /\ config.shape[j[1]] = config.shape[i[1]]}
    <3>1. GradOutputsOf(i) = IF c.reuse /\ same # {} THEN gradOut[CHOOSE j \in same : TRUE] ELSE i
      BY DEF GradOutputsOf
    <3>2. same \subseteq CallablesOf(c)
      BY DEF Callables
    <3> HIDE DEF same, i
    <3>3. same # {} => (CHOOSE j \in same : TRUE) \in CallablesOf(c)
      BY <3>2
    <3> QED  BY <1>3, <2>1, <3>1, <3>3
  <2> HIDE DEF i
  <2> QED  BY <1>2, <1>3, <2>1, <2>2
<1> HIDE DEF new, i, rel
<1>11. dwOf' \in [CallablesOf(c) -> CallablesOf(c)] /\ WgradsRight(c, dwOf', X)
  BY <1>2, <1>8 DEF Captured
<1> QED  BY <1>5, <1>6, <1>7, <1>9, <1>10, <1>11 DEF Captured

LEMMA WgradIndexIs ==
  ASSUME NEW c \in Configs, config = c, NEW x \in 1..End(c), NEW s \in 1..NL(c, x),
         cursor = CursorAt(c, x, s), Current.pass = "dw"
  PROVE  /\ c.order[x].pass = "dw" /\ Current.chunk = c.order[x].chunk /\ Layer = LayerAt(c, x, s)
         /\ WgradIndex = KeyAt(c, x, s)[2] /\ KeyAt(c, x, s) = <<"dw", WgradIndex>>
<1>1. /\ Current = c.order[x] /\ Layer = LayerAt(c, x, s) /\ Done("bwd") = N(c, "bwd", c.order[x].chunk, x)
  BY CursorNow DEF Passes
<1>2. WgradIndex = <<c.order[x].chunk, N(c, "bwd", c.order[x].chunk, x) - 1, LayerAt(c, x, s)>>
  BY <1>1 DEF WgradIndex, At
<1> QED  BY <1>1, <1>2 DEF KeyAt

LEMMA CapturesWgrad ==
  ASSUME NEW c \in Configs, config = c, NEW x \in 1..End(c), NEW s \in 1..NL(c, x),
         cursor = CursorAt(c, x, s), Captured(c, x, s), CaptureWgrad
  PROVE  Captured(c, NextX(c, x, s), NextS(c, x, s))'
<1> DEFINE k == c.order[x].chunk
           m == <<k, LayerAt(c, x, s)>>
           i == KeyAt(c, x, s)[2]
           X == NextX(c, x, s)
           S == NextS(c, x, s)
<1>1. /\ Current.chunk = k /\ c.order[x].pass = "dw" /\ Layer = LayerAt(c, x, s)
      /\ WgradIndex = i /\ KeyAt(c, x, s) = <<"dw", i>>
  BY WgradIndexIs DEF CaptureWgrad, Capturing
<1>2. /\ c.delay /\ KeyAt(c, x, s) \notin DOMAIN graphs /\ store[m] # <<>>
  BY <1>1 DEF CaptureWgrad, WgradFails
<1>3. /\ Capture(<<"dw", i>>, {}) /\ UNCHANGED <<live, gradOut, lastGrad>>
      /\ dwOf' = [dwOf EXCEPT ![i] = Head(store[m])]
      /\ store' = [store EXCEPT ![m] = Tail(@)]
  BY <1>1 DEF CaptureWgrad
<1>4. AllocRight(c, live, lastGrad, x, s) /\ GraphsRight(c, graphs, x, s)
  BY DEF Captured
<1>5. AllocRight(c, live, lastGrad, X, S)
  BY <1>1, <1>4, AllocWgrad
<1>6. GraphsRight(c, graphs', X, S)
  <2> DEFINE L == live \cup {}
  <2>1. L \in SUBSET Tensors(c) /\ Needed(c, x, s) \subseteq L
    BY <1>4 DEF AllocRight
  <2>2. graphs' = [h \in DOMAIN graphs \cup {KeyAt(c, x, s)} |-> IF h = KeyAt(c, x, s) THEN L ELSE graphs[h]]
    BY <1>1, <1>3 DEF Capture
  <2>3. KeyAt(c, x, s)[2] \in CallablesOf(c)
    BY KeyCallable
  <2> HIDE DEF L
  <2> QED  BY <1>2, <1>4, <2>1, <2>2, <2>3, GraphsStep
<1>7. DOMAIN store = LayersOf(c) /\ StoreRight(c, store, x)
  BY DEF Captured
<1>8. /\ StoreRight(c, store', X) /\ N(c, "dw", k, x) < N(c, "bwd", k, x)
      /\ Head(store[m]) = <<k, N(c, "dw", k, x), 1>> /\ Head(store[m]) \in CallablesOf(c)
  <2>1. m = <<c.order[x].chunk, LayerAt(c, x, s)>> /\ c.order[x].pass = "dw" /\ c.delay /\ store[m] # <<>>
        /\ store' = [store EXCEPT ![m] = Tail(@)] /\ k = c.order[x].chunk
    BY <1>1, <1>2, <1>3
  <2> HIDE DEF m, k
  <2>2. /\ StoreRight(c, store', X) /\ N(c, "dw", c.order[x].chunk, x) < N(c, "bwd", c.order[x].chunk, x)
        /\ Head(store[m]) = <<c.order[x].chunk, N(c, "dw", c.order[x].chunk, x), 1>>
        /\ Head(store[m]) \in CallablesOf(c)
    BY ONLY c \in Configs, x \in 1..End(c), s \in 1..NL(c, x), <1>7, <2>1, StoreWgrad, ZenonT(60)
  <2> QED  BY <2>1, <2>2
<1>9. DOMAIN store' = LayersOf(c)
  BY <1>3, <1>7
<1>10. dwOf \in [CallablesOf(c) -> CallablesOf(c)] /\ WgradsRight(c, dwOf, x)
  BY DEF Captured
<1>11. dwOf' \in [CallablesOf(c) -> CallablesOf(c)]
  BY <1>3, <1>8, <1>10
<1>12. WgradsRight(c, dwOf', X)
  <2>1. dwOf' = [dwOf EXCEPT ![KeyAt(c, x, s)[2]] = <<k, N(c, "dw", k, x), 1>>]
    BY <1>3, <1>8
  <2> QED  BY <1>1, <1>2, <1>4, <1>10, <2>1, WgradsStep
<1>13. AcceptedAt(c, x)
  <2>1. \A z \in 1..x - 1 : c.order[z] = Pass("dw", k) => N(c, "bwd", k, z) # N(c, "bwd", k, x)
    <3> SUFFICES ASSUME NEW z \in 1..x - 1, c.order[z] = Pass("dw", k), N(c, "bwd", k, z) = N(c, "bwd", k, x)
                 PROVE  FALSE
      OBVIOUS
    <3>0. x \in Nat /\ x <= End(c) /\ End(c) \in Nat
      BY PointFacts, ConfigFacts
    <3>1. z \in 1..End(c) /\ z < x /\ x \in Nat
      BY <3>0
    <3>2. NL(c, z) \in Nat \ {0} /\ c.order[z].pass = "dw" /\ c.order[z].chunk = k
      BY <3>1, OrderAt, PassIs
    <3>3. 1 \in 1..NL(c, z)
      BY <3>2
    <3>4. KeyAt(c, z, 1) \in DOMAIN graphs
      BY <1>4, <3>1, <3>3 DEF GraphsRight, Before
    <3>5. LayerAt(c, z, 1) = 1 /\ LayerAt(c, x, s) = 1
      BY <1>2, <3>1, <3>3, DelayStep
    <3>6. KeyAt(c, z, 1) = KeyAt(c, x, s)
      BY <1>1, <3>2, <3>5 DEF KeyAt
    <3> QED  BY <1>2, <3>4, <3>6
  <2> QED  BY <1>1, <1>2, <1>8, <2>1 DEF AcceptedAt
<1>14. \A y \in 1..X - 1 : AcceptedAt(c, y)
  BY <1>13, AcceptedStep DEF Captured
<1> HIDE DEF i, m
<1>15. AllocRight(c, live', lastGrad', X, S) /\ gradOut' = gradOut
  BY <1>3, <1>5
<1> QED  BY <1>6, <1>8, <1>9, <1>11, <1>12, <1>14, <1>15 DEF Captured

\* An exception is right.
LEMMA RaiseIllegal ==
  ASSUME NEW c \in Configs, config = c, NEW x \in 1..End(c), NEW s \in 1..NL(c, x),
         cursor = CursorAt(c, x, s), Captured(c, x, s), BackwardRaises \/ WgradRaises
  PROVE  ~Legal(c)
<1> SUFFICES ASSUME Legal(c)  PROVE FALSE
  OBVIOUS
<1> DEFINE k == c.order[x].chunk
<1>1. Current = c.order[x] /\ Layer = LayerAt(c, x, s) /\ cursor.pos = x
  BY CursorNow
<1>2. AcceptedAt(c, x)
  BY LegalAccepted
<1>3. CASE BackwardRaises
  BY <1>1, <1>2, <1>3 DEF BackwardRaises, Capturing, AcceptedAt
<1>4. CASE WgradRaises
  <2>1. /\ c.order[x].pass = "dw" /\ Current.chunk = k /\ WgradIndex = KeyAt(c, x, s)[2]
        /\ KeyAt(c, x, s) = <<"dw", WgradIndex>>
    BY <1>4, WgradIndexIs DEF WgradRaises, Capturing
  <2>2. /\ c.delay /\ N(c, "dw", k, x) < N(c, "bwd", k, x)
        /\ \A z \in 1..x - 1 : c.order[z] = Pass("dw", k) => N(c, "bwd", k, z) # N(c, "bwd", k, x)
    BY <1>2, <2>1 DEF AcceptedAt
  <2>3. \/ KeyAt(c, x, s) \in DOMAIN graphs
        \/ store[<<k, LayerAt(c, x, s)>>] = <<>>
    BY <1>1, <1>4, <2>1, <2>2 DEF WgradRaises, WgradFails
  <2>4. k \in ChunksOf(c) /\ x \in Int
    BY PointFacts
  <2>5. CASE KeyAt(c, x, s) \in DOMAIN graphs
    <3>1. WgradIndex \in CallablesOf(c) /\ WgradIndex[1] = k
      BY <2>1, KeyCallable
    <3>2. CapturedWgrad(c, WgradIndex, x)
      BY <2>1, <2>5, <3>1 DEF Captured, GraphsRight
    <3>3. PICK z \in 1..x - 1 : c.order[z] = Pass("dw", k) /\ WgradIndex[2] = N(c, "bwd", k, z) - 1
      BY <3>1, <3>2 DEF CapturedWgrad
    <3>4. WgradIndex[2] = N(c, "bwd", k, x) - 1
      BY <2>1 DEF KeyAt
    <3>5. z \in Int
      OBVIOUS
    <3>6. N(c, "bwd", k, z) \in Nat /\ N(c, "bwd", k, x) \in Nat
      BY <2>4, <3>5, CountType
    <3> HIDE DEF k
    <3>7. N(c, "bwd", k, z) = N(c, "bwd", k, x)
      BY <3>3, <3>4, <3>6
    <3> QED  BY <2>2, <3>3, <3>7
  <2>6. CASE store[<<k, LayerAt(c, x, s)>>] = <<>>
    <3> DEFINE n == <<k, LayerAt(c, x, s)>>
    <3>1. n \in LayersOf(c) /\ n[1] = k
      BY LayerNow
    <3> HIDE DEF n
    <3>2. Len(store[n]) = Owed(c, k, x)
      BY <2>2, <3>1 DEF Captured, StoreRight
    <3>3. store[n] = <<>> /\ Len(store[n]) = 0
      BY <2>6 DEF n
    <3>4. N(c, "bwd", k, x) \in Nat /\ N(c, "dw", k, x) \in Nat
      BY <2>4, CountType
    <3> QED  BY <2>2, <3>2, <3>3, <3>4 DEF Owed
  <2> QED  BY <2>3, <2>5, <2>6
<1> QED  BY <1>3, <1>4

-----------------------------------------------------------------------------
(* What a replay that has come to a point has computed.                       *)

\* The value of a microbatch in an iteration.
Is(it, i) == <<it, i[1], i[2]>>

PoolRight(c, ct, it, x, s) == \A t \in Needed(c, x, s) : ct[t] = Is(it, t[2])

\* What a pass writes.
Written(c, x, s) ==
  IF c.order[x].pass = "fwd" THEN {<<"out", Cur(c, x, s)>>, <<"saved", Cur(c, x, s)>>}
  ELSE IF c.order[x].pass = "bwd" THEN {<<"gin", Cur(c, x, s)>>} ELSE {}

LEMMA NeededIs ==
  ASSUME NEW c \in Configs, NEW x \in 1..End(c), NEW s \in 1..NL(c, x), NEW gr,
         GraphsRight(c, gr, End(c) + 1, 1)
  PROVE  /\ Needed(c, x, s) \subseteq Tensors(c)
         /\ Needed(c, x, s) \subseteq gr[KeyAt(c, x, s)]
         /\ KeyAt(c, x, s) \in DOMAIN gr
<1>1. x < End(c) + 1
  BY ConfigFacts
<1>2. KeyAt(c, x, s) \in DOMAIN gr /\ Needed(c, x, s) \subseteq gr[KeyAt(c, x, s)]
  BY <1>1 DEF GraphsRight, Before
<1> QED  BY <1>2 DEF GraphsRight

\* A pass does not write the last input gradient.
LEMMA LastGradUnwritten ==
  ASSUME NEW c \in Configs, NEW x \in 1..End(c), NEW s \in 1..NL(c, x), NEW j \in LastGrad(c, x)
  PROVE  <<"gin", j>> \in Needed(c, x, s) /\ <<"gin", j>> \notin Written(c, x, s)
<1>1. j \in NeedGin(c, x, s)
  BY DEF NeedGin
<1>2. <<"gin", j>> \in Needed(c, x, s)
  BY <1>1 DEF Needed
<1>3. j \in Ran(c, "bwd", x, s)
  BY PointFacts, LastGradIs
<1>4. c.order[x].pass = "bwd" => j # Cur(c, x, s)
  BY <1>3, CurIs
<1> QED  BY <1>2, <1>4 DEF Written

LEMMA PoolStep ==
  ASSUME NEW gr, NEW ct, NEW v, NEW r, NEW it, NEW c \in Configs, NEW x \in 1..End(c), NEW s \in 1..NL(c, x),
         GraphsRight(c, gr, End(c) + 1, 1),
         \A t \in Tensors(c) : r[t] = IF t \in Written(c, x, s) THEN v
                                      ELSE IF t \in gr[KeyAt(c, x, s)] THEN ct[t] ELSE Junk,
         PoolRight(c, ct, it, x, s), c.order[x].pass # "dw" => v = Is(it, Cur(c, x, s))
  PROVE  PoolRight(c, r, it, NextX(c, x, s), NextS(c, x, s))
<1> SUFFICES ASSUME NEW t \in Needed(c, NextX(c, x, s), NextS(c, x, s))
             PROVE  r[t] = Is(it, t[2])
  BY DEF PoolRight
<1> DEFINE i == Cur(c, x, s)
<1>1. \A u \in Needed(c, x, s) : u \notin Written(c, x, s) => r[u] = ct[u]
  <2>1. Needed(c, x, s) \subseteq Tensors(c) /\ Needed(c, x, s) \subseteq gr[KeyAt(c, x, s)]
    BY NeededIs
  <2> QED  BY <2>1
<1>2. \A u \in Needed(c, x, s) : ct[u] = Is(it, u[2])
  BY DEF PoolRight
<1>3. t \in Needed(c, x, s) \/ t \in Written(c, x, s)
  <2>1. c.order[x].pass \in Passes
    BY PointFacts
  <2> QED  BY <2>1, NeededStep DEF Written, Passes
<1>4. CASE t \in Written(c, x, s)
  <2>1. c.order[x].pass \in {"fwd", "bwd"} /\ t[2] = i
    BY <1>4 DEF Written
  <2>2. i \in CallablesOf(c)
    BY <2>1, CurIs
  <2>3. t \in Tensors(c)
    BY <1>4, <2>2, NeededTensors DEF Written
  <2>4. r[t] = v
    BY <1>4, <2>3
  <2> QED  BY <2>1, <2>4
<1>5. CASE t \notin Written(c, x, s)
  BY <1>1, <1>2, <1>3, <1>5
<1> QED  BY <1>4, <1>5

\* The value a forward reads.
LEMMA ForwardReads ==
  ASSUME NEW c \in Configs, NEW x \in 1..End(c), NEW s \in 1..NL(c, x), NEW ct, NEW it,
         PoolRight(c, ct, it, x, s), c.order[x].pass = "fwd", LayerAt(c, x, s) # 1,
         NEW i, i = Cur(c, x, s)
  PROVE  ct[<<"out", <<i[1], i[2], i[3] - 1>>>>] = Is(it, i)
<1> DEFINE j == <<i[1], i[2], i[3] - 1>>
<1>1. j \in NeedAct(c, x, s)
  <2>1. j = <<Cur(c, x, s)[1], Cur(c, x, s)[2], Cur(c, x, s)[3] - 1>>
    OBVIOUS
  <2> HIDE DEF j
  <2> QED  BY <2>1, Below DEF NeedAct
<1>2. <<"out", j>> \in Needed(c, x, s)
  BY <1>1 DEF Needed
<1>3. ct[<<"out", j>>] = Is(it, <<"out", j>>[2])
  BY <1>2 DEF PoolRight
<1> QED  BY <1>3 DEF Is

\* The values a backward reads.
LEMMA BackwardReads ==
  ASSUME NEW ct, NEW it, NEW i, NEW c \in Configs, NEW x \in 1..End(c), NEW s \in 1..NL(c, x),
         PoolRight(c, ct, it, x, s), c.order[x].pass = "bwd", i = Cur(c, x, s)
  PROVE  /\ i \in NeedAct(c, x, s) /\ ct[<<"saved", i>>] = Is(it, i)
         /\ LayerAt(c, x, s) # NL(c, x) => ct[<<"gin", <<i[1], i[2], i[3] + 1>>>>] = Is(it, i)
<1>1. i \in NeedAct(c, x, s)
  BY CurIs DEF NeedAct
<1>2. ct[<<"saved", i>>] = Is(it, i)
  <2>1. <<"saved", i>> \in Needed(c, x, s)
    BY <1>1 DEF Needed
  <2> QED  BY <2>1 DEF PoolRight
<1>3. ASSUME LayerAt(c, x, s) # NL(c, x)
      PROVE  ct[<<"gin", <<i[1], i[2], i[3] + 1>>>>] = Is(it, i)
  <2> DEFINE j == <<i[1], i[2], i[3] + 1>>
  <2>1. s > 1 /\ x <= End(c)
    BY <1>3, PointFacts DEF LayerAt
  <2>2. i = <<c.order[x].chunk, N(c, "bwd", c.order[x].chunk, x), LayerAt(c, x, s)>>
    BY CurIs
  <2>3. j \in Above(c, x, s)
    BY <2>1, <2>2 DEF Above
  <2>4. <<"gin", j>> \in Needed(c, x, s)
    BY <2>3 DEF Needed, NeedGin
  <2>5. ct[<<"gin", j>>] = Is(it, <<"gin", j>>[2])
    BY <2>4 DEF PoolRight
  <2> QED  BY <2>5 DEF Is
<1> QED  BY <1>1, <1>2, <1>3

InputsRight(c, inp, it, x, s) == \A i \in NeedAct(c, x, s) : inp[SampleArgs(c)[i]] = Is(it, i)

LEMMA InputsForward ==
  ASSUME NEW c \in Configs, NEW x \in 1..End(c), NEW s \in 1..NL(c, x), NEW inp, NEW it,
         InputsRight(c, inp, it, x, s), DOMAIN inp = CallablesOf(c), c.order[x].pass = "fwd",
         NEW r, r = [inp EXCEPT ![SampleArgs(c)[Cur(c, x, s)]] = Is(it, Cur(c, x, s))]
  PROVE  InputsRight(c, r, it, NextX(c, x, s), NextS(c, x, s))
<1> DEFINE i == Cur(c, x, s)
           f == SampleArgs(c)
<1>1. NeedAct(c, NextX(c, x, s), NextS(c, x, s)) = NeedAct(c, x, s) \cup {i}
  BY NeedActStep
<1>2. i \in CallablesOf(c) /\ f \in [CallablesOf(c) -> CallablesOf(c)]
  BY CurIs, SampleType
<1>3. \A j \in NeedAct(c, x, s) : f[j] # f[i]
  BY ActApart
<1>4. NeedAct(c, x, s) \subseteq CallablesOf(c)
  BY DEF NeedAct, Ran
<1> HIDE DEF f, i
<1>5. r = [inp EXCEPT ![f[i]] = Is(it, i)]
  BY DEF f, i
<1>6. r[f[i]] = Is(it, i)
  BY <1>2, <1>5
<1>7. \A j \in NeedAct(c, x, s) : r[f[j]] = inp[f[j]] /\ inp[f[j]] = Is(it, j)
  BY <1>2, <1>3, <1>4, <1>5 DEF InputsRight, f
<1> QED  BY <1>1, <1>6, <1>7 DEF InputsRight, f

LEMMA InputsKeep ==
  ASSUME NEW c \in Configs, NEW x \in 1..End(c), NEW s \in 1..NL(c, x), NEW inp, NEW it,
         InputsRight(c, inp, it, x, s), c.order[x].pass # "fwd"
  PROVE  InputsRight(c, inp, it, NextX(c, x, s), NextS(c, x, s))
<1>1. NeedAct(c, NextX(c, x, s), NextS(c, x, s)) \subseteq NeedAct(c, x, s)
  BY NeedActStep
<1> QED  BY <1>1 DEF InputsRight

\* What is being sent is there; at most the last two input gradients, the last one at the end.
SendingRight(c, ct, out, gin, it, x, s) ==
  /\ \A i \in out : i \in NeedAct(c, x, s) /\ i[3] = c.layers[i[1]]
  /\ gin \in Seq(CallablesOf(c)) /\ Len(gin) <= 2
  /\ \A e \in 1..Len(gin) : ct[<<"gin", gin[e]>>] = Is(it, gin[e])
  /\ gin # <<>> => gin[Len(gin)] \in LastGrad(c, x)

LEMMA SendingForward ==
  ASSUME NEW ct, NEW out, NEW gin, NEW it, NEW r, NEW o, NEW c \in Configs, NEW x \in 1..End(c), NEW s \in 1..NL(c, x),
         SendingRight(c, ct, out, gin, it, x, s), Len(gin) <= 1, c.order[x].pass = "fwd",
         \A j \in LastGrad(c, x) : r[<<"gin", j>>] = ct[<<"gin", j>>],
         o = IF LayerAt(c, x, s) = NL(c, x) THEN out \cup {Cur(c, x, s)} ELSE out
  PROVE  SendingRight(c, r, o, gin, it, NextX(c, x, s), NextS(c, x, s))
<1>1. NeedAct(c, NextX(c, x, s), NextS(c, x, s)) = NeedAct(c, x, s) \cup {Cur(c, x, s)}
  BY NeedActStep
<1>2. LayerAt(c, x, s) = NL(c, x) => Cur(c, x, s)[3] = c.layers[Cur(c, x, s)[1]]
  BY DEF Cur, NL
<1>3. \A i \in o : i \in NeedAct(c, NextX(c, x, s), NextS(c, x, s)) /\ i[3] = c.layers[i[1]]
  BY <1>1, <1>2 DEF SendingRight
<1>4. LastGrad(c, NextX(c, x, s)) = LastGrad(c, x)
  BY LastGradKept
<1>5. \A e \in 1..Len(gin) : gin[e] \in LastGrad(c, x)
  <2>1. gin \in Seq(CallablesOf(c)) /\ Len(gin) \in Nat
    BY DEF SendingRight
  <2>2. \A e \in 1..Len(gin) : e = Len(gin) /\ gin # <<>>
    BY <2>1
  <2> QED  BY <2>2 DEF SendingRight
<1> QED  BY <1>3, <1>4, <1>5 DEF SendingRight

LEMMA SendingWgrad ==
  ASSUME NEW ct, NEW out, NEW gin, NEW it, NEW r, NEW c \in Configs, NEW x \in 1..End(c), NEW s \in 1..NL(c, x),
         SendingRight(c, ct, out, gin, it, x, s), Len(gin) <= 1, c.order[x].pass = "dw",
         \A j \in LastGrad(c, x) : r[<<"gin", j>>] = ct[<<"gin", j>>]
  PROVE  SendingRight(c, r, out, gin, it, NextX(c, x, s), NextS(c, x, s))
<1>1. NeedAct(c, NextX(c, x, s), NextS(c, x, s)) = NeedAct(c, x, s)
  BY NeedActStep
<1>2. LastGrad(c, NextX(c, x, s)) = LastGrad(c, x)
  BY LastGradKept
<1>3. \A e \in 1..Len(gin) : gin[e] \in LastGrad(c, x)
  <2>1. gin \in Seq(CallablesOf(c)) /\ Len(gin) \in Nat
    BY DEF SendingRight
  <2>2. \A e \in 1..Len(gin) : e = Len(gin) /\ gin # <<>>
    BY <2>1
  <2> QED  BY <2>2 DEF SendingRight
<1> QED  BY <1>1, <1>2, <1>3 DEF SendingRight

LEMMA SendingBackward ==
  ASSUME NEW ct, NEW out, NEW gin, NEW it, NEW r, NEW g, NEW c \in Configs, NEW x \in 1..End(c), NEW s \in 1..NL(c, x),
         SendingRight(c, ct, out, gin, it, x, s), Len(gin) <= 1, c.order[x].pass = "bwd",
         \A j \in LastGrad(c, x) : r[<<"gin", j>>] = ct[<<"gin", j>>],
         r[<<"gin", Cur(c, x, s)>>] = Is(it, Cur(c, x, s)),
         LayerAt(c, x, s) = NL(c, x) => Cur(c, x, s) \notin out,
         g = IF LayerAt(c, x, s) = 1 THEN Append(gin, Cur(c, x, s)) ELSE gin
  PROVE  SendingRight(c, r, out, g, it, NextX(c, x, s), NextS(c, x, s))
<1> DEFINE C == CallablesOf(c)
           i == Cur(c, x, s)
<1>1. NeedAct(c, NextX(c, x, s), NextS(c, x, s)) = NeedAct(c, x, s) \ {i}
  BY NeedActStep
<1>2. i \in C /\ i[1] = c.order[x].chunk /\ i[3] = LayerAt(c, x, s)
  BY CurIs
<1>3. \A j \in out : j \in NeedAct(c, NextX(c, x, s), NextS(c, x, s)) /\ j[3] = c.layers[j[1]]
  <2>1. i \notin out
    <3>1. i \in out => i[3] = c.layers[i[1]]
      BY DEF SendingRight
    <3>2. i \in out => LayerAt(c, x, s) = NL(c, x)
      BY <1>2, <3>1 DEF NL
    <3> QED  BY <3>2
  <2> QED  BY <1>1, <2>1 DEF SendingRight
<1>4. gin \in Seq(C) /\ Len(gin) \in Nat /\ Len(gin) <= 1
  BY DEF SendingRight
<1>5. \A e \in 1..Len(gin) : gin[e] \in LastGrad(c, x)
  <2>1. \A e \in 1..Len(gin) : e = Len(gin) /\ gin # <<>>
    BY <1>4
  <2> QED  BY <2>1 DEF SendingRight
<1>6. \A e \in 1..Len(gin) : r[<<"gin", gin[e]>>] = Is(it, gin[e])
  BY <1>5 DEF SendingRight
<1>7. CASE LayerAt(c, x, s) # 1
  <2>1. LastGrad(c, NextX(c, x, s)) = LastGrad(c, x)
    BY <1>7, LastGradKept
  <2> QED  BY <1>3, <1>6, <1>7, <2>1 DEF SendingRight
<1>8. CASE LayerAt(c, x, s) = 1
  <2>0. g = Append(gin, i)
    BY <1>8
  <2>1. LastGrad(c, NextX(c, x, s)) = {i}
    BY <1>8, LastGradNew
  <2> HIDE DEF i, C
  <2>2. g \in Seq(C) /\ Len(g) = Len(gin) + 1 /\ \A e \in 1..Len(gin) + 1 : g[e] = IF e <= Len(gin) THEN gin[e] ELSE i
    BY <1>2, <1>4, <2>0
  <2>3. g[Len(g)] = i /\ Len(g) <= 2
    BY <1>4, <2>2
  <2>4. \A e \in 1..Len(g) : r[<<"gin", g[e]>>] = Is(it, g[e])
    <3> TAKE e \in 1..Len(g)
    <3>1. CASE e <= Len(gin)
      <4>1. e \in 1..Len(gin) /\ g[e] = gin[e]
        BY <1>4, <2>2, <3>1
      <4> QED  BY <1>6, <4>1
    <3>2. CASE ~(e <= Len(gin))
      <4>1. g[e] = i
        BY <2>2, <3>2
      <4> QED  BY <4>1 DEF i
    <3> QED  BY <3>1, <3>2
  <2>5. SendingRight(c, r, out, g, it, NextX(c, x, s), NextS(c, x, s))
    BY <1>3, <2>1, <2>2, <2>3, <2>4 DEF SendingRight, C
  <2> QED  BY <2>5
<1> QED  BY <1>7, <1>8

-----------------------------------------------------------------------------
(* Weight gradients.                                                          *)

\* With shared buffers and delayed wgrads each dgrad is followed by its wgrad.
Prompt(c) == c.reuse /\ c.delay /\ Alternates(c) =>
  \A x \in DOMAIN c.order : c.order[x].pass = "bwd" => c.order[x + 1] = Pass("dw", c.order[x].chunk)

\* Then nothing is owed except right before a wgrad.
LEMMA PromptOwed ==
  ASSUME NEW c \in Configs, Prompt(c), Legal(c), c.reuse, c.delay, NEW x \in 1..End(c),
         c.order[x].pass # "dw", NEW k \in ChunksOf(c)
  PROVE  Owed(c, k, x) = 0
<1> DEFINE R(y) == \A j \in ChunksOf(c) : Owed(c, j, y) = 0 \/ c.order[y] = Pass("dw", j)
           T == {y \in 1..End(c) : R(y)}
<1>1. End(c) \in Nat /\ DOMAIN c.order = 1..End(c) /\ 1 \in 1..End(c)
  BY ConfigFacts
<1>2. 1 \in T
  BY <1>1, OwedFirst
<1>3. ASSUME NEW y \in 1..End(c) - 1, y \in T  PROVE y + 1 \in T
  <2>1. y \in 1..End(c) /\ y + 1 \in 1..End(c)
    BY <1>1
  <2> SUFFICES ASSUME NEW j \in ChunksOf(c)  PROVE Owed(c, j, y + 1) = 0 \/ c.order[y + 1] = Pass("dw", j)
    BY <2>1
  <2>2. Owed(c, j, y) = 0 \/ c.order[y] = Pass("dw", j)
    BY <1>3
  <2>3. CASE c.order[y] = Pass("bwd", j)
    <3>1. c.order[y].pass = "bwd" /\ c.order[y].chunk = j
      BY <2>3, PassIs
    <3>2. c.order[y + 1] = Pass("dw", j)
      BY <1>1, <2>1, <3>1 DEF Prompt, Legal
    <3> QED  BY <3>2
  <2>4. CASE c.order[y] = Pass("dw", j)
    <3>1. Owed(c, j, y) = 1 /\ Owed(c, j, y + 1) = Owed(c, j, y) - 1
      BY <2>1, <2>4, LegalOwed, OwedStep
    <3> QED  BY <3>1
  <2>5. CASE c.order[y] # Pass("bwd", j) /\ c.order[y] # Pass("dw", j)
    BY <2>1, <2>2, <2>5, OwedStep
  <2> QED  BY <2>3, <2>4, <2>5
<1> HIDE DEF T
<1>4. 1..End(c) \subseteq T
  BY <1>1, <1>2, <1>3, PositionInduction
<1>5. R(x)
  BY <1>4 DEF T
<1> QED  BY <1>5, PassIs

\* The buffers of a wgrad that is owed.
OwedRight(c, inp, go, gout, it, x) == Prompt(c) /\ c.delay =>
  \A k \in ChunksOf(c) : \A n \in N(c, "dw", k, x)..N(c, "bwd", k, x) - 1 :
    /\ inp[SampleArgs(c)[<<k, n, 1>>]] = Is(it, <<k, n, 1>>)
    /\ gout[go[<<k, n, 1>>]] = Is(it, <<k, n, 1>>)

GradOutRight(c, go) ==
  go \in [CallablesOf(c) -> CallablesOf(c)] /\ (~c.reuse => \A i \in CallablesOf(c) : go[i] = i)

LEMMA OwedCallable ==
  ASSUME NEW c \in Configs, NEW x \in 1..End(c) + 1, NEW k \in ChunksOf(c),
         NEW n \in N(c, "dw", k, x)..N(c, "bwd", k, x) - 1
  PROVE  <<k, n, 1>> \in CallablesOf(c)
<1>1. N(c, "dw", k, x) \in Nat /\ N(c, "bwd", k, x) \in 0..N(c, "fwd", k, x)
      /\ N(c, "fwd", k, x) \in 0..MicrobatchesOf(c) /\ MicrobatchesOf(c) \in Nat
  BY CountBound, Totals
<1>2. n \in 0..MicrobatchesOf(c) - 1
  BY <1>1
<1>3. 1 \in 1..c.layers[k]
  BY ConfigFacts
<1> QED  BY <1>2, <1>3, CallableOf

LEMMA OwedForward ==
  ASSUME NEW inp, NEW go, NEW gout, NEW it, NEW r, NEW v, NEW c \in Configs, NEW x \in 1..End(c), NEW s \in 1..NL(c, x),
         Legal(c), OwedRight(c, inp, go, gout, it, x), DOMAIN inp = CallablesOf(c), c.order[x].pass = "fwd",
         r = [inp EXCEPT ![SampleArgs(c)[Cur(c, x, s)]] = v]
  PROVE  OwedRight(c, r, go, gout, it, NextX(c, x, s))
<1> SUFFICES ASSUME Prompt(c), c.delay, NEW k \in ChunksOf(c),
                    NEW n \in N(c, "dw", k, NextX(c, x, s))..N(c, "bwd", k, NextX(c, x, s)) - 1
             PROVE  /\ r[SampleArgs(c)[<<k, n, 1>>]] = Is(it, <<k, n, 1>>)
                    /\ gout[go[<<k, n, 1>>]] = Is(it, <<k, n, 1>>)
  BY DEF OwedRight
<1>1. NextX(c, x, s) = x + 1 /\ x \in Nat \ {0} /\ x \in 1..End(c) + 1
  BY DelayStep, PointFacts
<1>2. c.order[x] # Pass("bwd", k) /\ c.order[x] # Pass("dw", k)
  BY PassIs
<1>3. n \in N(c, "dw", k, x)..N(c, "bwd", k, x) - 1
  BY <1>1, <1>2, CountStep
<1> DEFINE i == <<k, n, 1>>
           j == Cur(c, x, s)
<1>4. inp[SampleArgs(c)[i]] = Is(it, i) /\ gout[go[i]] = Is(it, i)
  BY <1>3 DEF OwedRight
<1>5. i \in CallablesOf(c)
  BY <1>1, <1>3, OwedCallable
<1>6. N(c, "dw", k, x) \in Nat /\ N(c, "bwd", k, x) \in Nat /\ N(c, "bwd", k, x) <= N(c, "fwd", k, x)
      /\ N(c, "fwd", k, x) \in Nat
  BY <1>1, CountBound, CountType
<1>7. CASE c.reuse
  <2>1. Owed(c, k, x) = 0
    BY <1>7, PromptOwed
  <2>2. FALSE
    BY <1>3, <1>6, <2>1 DEF Owed
  <2> QED  BY <2>2
<1>8. CASE ~c.reuse
  <2>1. SampleArgs(c) = [e \in CallablesOf(c) |-> e]
    BY <1>8, SampleArgsIs
  <2>2. j \in CallablesOf(c) /\ j = <<c.order[x].chunk, N(c, "fwd", c.order[x].chunk, x), LayerAt(c, x, s)>>
    BY CurIs
  <2>3. i # j
    <3> SUFFICES ASSUME i = j  PROVE FALSE
      OBVIOUS
    <3>1. i[1] = j[1] /\ i[2] = j[2]
      OBVIOUS
    <3>2. k = c.order[x].chunk /\ n = N(c, "fwd", c.order[x].chunk, x)
      BY <2>2, <3>1
    <3>3. n = N(c, "fwd", k, x)
      BY <3>2
    <3> QED  BY <1>3, <1>6, <3>3
  <2> HIDE DEF i, j
  <2>4. r = [inp EXCEPT ![j] = v] /\ SampleArgs(c)[i] = i
    BY <1>5, <2>1, <2>2 DEF j
  <2>5. r[i] = inp[i]
    BY <1>5, <2>3, <2>4
  <2> QED  BY <1>4, <2>4, <2>5 DEF i
<1> QED  BY <1>7, <1>8

LEMMA OwedBackward ==
  ASSUME NEW inp, NEW go, NEW gout, NEW it, NEW r, NEW c \in Configs, NEW x \in 1..End(c), NEW s \in 1..NL(c, x),
         Legal(c), OwedRight(c, inp, go, gout, it, x), InputsRight(c, inp, it, x, s), GradOutRight(c, go),
         DOMAIN gout = CallablesOf(c), c.order[x].pass = "bwd",
         c.delay => r = [gout EXCEPT ![go[Cur(c, x, s)]] = Is(it, Cur(c, x, s))]
  PROVE  OwedRight(c, inp, go, r, it, NextX(c, x, s))
<1> SUFFICES ASSUME Prompt(c), c.delay, NEW k \in ChunksOf(c),
                    NEW n \in N(c, "dw", k, NextX(c, x, s))..N(c, "bwd", k, NextX(c, x, s)) - 1
             PROVE  /\ inp[SampleArgs(c)[<<k, n, 1>>]] = Is(it, <<k, n, 1>>)
                    /\ r[go[<<k, n, 1>>]] = Is(it, <<k, n, 1>>)
  BY DEF OwedRight
<1> DEFINE i == <<k, n, 1>>
           j == Cur(c, x, s)
           K == c.order[x].chunk
<1>1. /\ NextX(c, x, s) = x + 1 /\ LayerAt(c, x, s) = 1
  BY DelayStep
<1>2. /\ x \in Nat \ {0} /\ x \in 1..End(c) + 1 /\ x + 1 \in 1..End(c) + 1 /\ K \in ChunksOf(c)
  BY PointFacts
<1>3. c.order[x] = Pass("bwd", K)
  BY OrderAt
<1>4. j = <<K, N(c, "bwd", K, x), 1>> /\ j \in CallablesOf(c) /\ j \in NeedAct(c, x, s)
  <2>1. j = <<K, N(c, "bwd", K, x), LayerAt(c, x, s)>> /\ j \in CallablesOf(c)
    BY CurIs
  <2>2. j \notin Ran(c, "bwd", x, s) /\ j \in Ran(c, "fwd", x, s)
    BY CurIs
  <2>3. j \in NeedAct(c, x, s)
    BY <2>2 DEF NeedAct
  <2> QED  BY <1>1, <2>1, <2>3
<1>5. N(c, "dw", k, x) \in Nat /\ N(c, "bwd", k, x) \in Nat
  BY <1>2, CountBound, CountType
<1>6. i \in CallablesOf(c)
  BY <1>1, <1>2, OwedCallable
<1>7. go \in [CallablesOf(c) -> CallablesOf(c)]
  BY DEF GradOutRight
<1>8. r = [gout EXCEPT ![go[j]] = Is(it, j)]
  OBVIOUS
<1>9. i = j \/ (i # j /\ n \in N(c, "dw", k, x)..N(c, "bwd", k, x) - 1)
  <2>1. N(c, "dw", k, x + 1) = N(c, "dw", k, x)
        /\ N(c, "bwd", k, x + 1) = IF k = K THEN N(c, "bwd", k, x) + 1 ELSE N(c, "bwd", k, x)
    BY <1>2, <1>3, CountStep, PassIs
  <2>2. n \in N(c, "dw", k, x)..N(c, "bwd", k, x) - 1 \/ (k = K /\ n = N(c, "bwd", k, x))
    <3> HIDE DEF K
    <3> QED  BY <1>1, <1>5, <2>1
  <2> QED  BY <1>4, <2>2
<1> HIDE DEF i, j
<1>10. CASE i = j
  <2>1. inp[SampleArgs(c)[i]] = Is(it, i)
    BY <1>4, <1>10 DEF InputsRight
  <2>2. r[go[i]] = Is(it, i)
    BY <1>4, <1>7, <1>8, <1>10
  <2> QED  BY <2>1, <2>2 DEF i
<1>11. CASE i # j /\ n \in N(c, "dw", k, x)..N(c, "bwd", k, x) - 1
  <2>1. inp[SampleArgs(c)[i]] = Is(it, i) /\ gout[go[i]] = Is(it, i)
    BY <1>11 DEF OwedRight, i
  <2>2. ~c.reuse
    <3> SUFFICES ASSUME c.reuse  PROVE FALSE
      OBVIOUS
    <3>1. Owed(c, k, x) = 0
      BY PromptOwed
    <3> QED  BY <1>5, <1>11, <3>1 DEF Owed
  <2>3. go[i] = i /\ go[j] = j
    BY <1>4, <1>6, <2>2 DEF GradOutRight
  <2>4. r[i] = gout[i]
    BY <1>6, <1>8, <1>11, <2>3
  <2> QED  BY <2>1, <2>3, <2>4 DEF i
<1> QED  BY <1>9, <1>10, <1>11

LEMMA OwedWgrad ==
  ASSUME NEW inp, NEW go, NEW gout, NEW it, NEW c \in Configs, NEW x \in 1..End(c), NEW s \in 1..NL(c, x),
         OwedRight(c, inp, go, gout, it, x), c.order[x].pass = "dw"
  PROVE  OwedRight(c, inp, go, gout, it, NextX(c, x, s))
<1> SUFFICES ASSUME Prompt(c), c.delay, NEW k \in ChunksOf(c),
                    NEW n \in N(c, "dw", k, NextX(c, x, s))..N(c, "bwd", k, NextX(c, x, s)) - 1
             PROVE  /\ inp[SampleArgs(c)[<<k, n, 1>>]] = Is(it, <<k, n, 1>>)
                    /\ gout[go[<<k, n, 1>>]] = Is(it, <<k, n, 1>>)
  BY DEF OwedRight
<1>1. NextX(c, x, s) = x + 1 /\ x \in Nat \ {0} /\ x \in Int
  BY DelayStep, PointFacts
<1>2. c.order[x] # Pass("bwd", k)
  BY PassIs
<1>3. N(c, "bwd", k, x + 1) = N(c, "bwd", k, x) /\ N(c, "dw", k, x + 1) \in {N(c, "dw", k, x), N(c, "dw", k, x) + 1}
  BY <1>1, <1>2, CountStep
<1>4. N(c, "dw", k, x) \in Nat /\ N(c, "bwd", k, x) \in Nat
  BY <1>1, CountType
<1>5. n \in N(c, "dw", k, x)..N(c, "bwd", k, x) - 1
  BY <1>1, <1>3, <1>4
<1> QED  BY <1>5 DEF OwedRight

\* The pass that adds to the weight gradients, and how often it has for a layer.
GradPass(c) == IF c.delay THEN "dw" ELSE "bwd"
Cnt(c, m, x, s) ==
  N(c, GradPass(c), m[1], x)
    + IF x <= End(c) /\ c.order[x] = Pass(GradPass(c), m[1]) /\ c.layers[m[1]] + 1 - m[2] < s THEN 1 ELSE 0

LEMMA CntFirst ==
  ASSUME NEW c \in Configs, NEW m \in LayersOf(c)
  PROVE  Cnt(c, m, 1, 1) = 0
<1>1. N(c, GradPass(c), m[1], 1) = 0
  BY CountFirst
<1>2. m[2] \in 1..c.layers[m[1]] /\ c.layers[m[1]] \in Nat \ {0}
  BY LayersIs, ConfigFacts
<1>3. ~(c.layers[m[1]] + 1 - m[2] < 1)
  BY <1>2
<1> QED  BY <1>1, <1>3 DEF Cnt

LEMMA CntEnd ==
  ASSUME NEW c \in Configs, Legal(c), NEW m \in LayersOf(c)
  PROVE  Cnt(c, m, End(c) + 1, 1) = MicrobatchesOf(c)
<1>1. End(c) \in Nat \ {0} /\ m[1] \in ChunksOf(c) /\ ~(End(c) + 1 <= End(c)) /\ End(c) \in 1..End(c)
  BY LayersIs, ConfigFacts
<1>2. N(c, "bwd", m[1], End(c) + 1) = MicrobatchesOf(c) /\ MicrobatchesOf(c) \in Nat
  BY <1>1, Totals
<1>3. N(c, "dw", m[1], End(c) + 1) \in Nat
  BY <1>1, CountType
<1>4. c.delay => Owed(c, m[1], End(c) + 1) = 0
  BY <1>1, LegalOwed
<1>5. N(c, GradPass(c), m[1], End(c) + 1) = MicrobatchesOf(c)
  BY <1>2, <1>3, <1>4 DEF GradPass, Owed
<1> QED  BY <1>1, <1>2, <1>5 DEF Cnt

LEMMA CntStep ==
  ASSUME NEW c \in Configs, NEW x \in 1..End(c), NEW s \in 1..NL(c, x), NEW m \in LayersOf(c)
  PROVE  /\ c.order[x] = Pass(GradPass(c), m[1]) /\ m[2] = LayerAt(c, x, s) =>
              /\ Cnt(c, m, NextX(c, x, s), NextS(c, x, s)) = Cnt(c, m, x, s) + 1
              /\ Cnt(c, m, x, s) = N(c, GradPass(c), m[1], x)
         /\ ~(c.order[x] = Pass(GradPass(c), m[1]) /\ m[2] = LayerAt(c, x, s)) =>
              Cnt(c, m, NextX(c, x, s), NextS(c, x, s)) = Cnt(c, m, x, s)
<1> DEFINE p == GradPass(c)
           n == N(c, p, m[1], x)
           b == c.layers[m[1]]
           P == c.order[x] = Pass(p, m[1])
<1>1. /\ x \in Nat \ {0} /\ x <= End(c) /\ End(c) \in Nat /\ s \in Nat \ {0} /\ s <= NL(c, x)
      /\ NL(c, x) \in Nat \ {0} /\ x \in Int /\ NL(c, x) = c.layers[c.order[x].chunk]
  BY PointFacts, ConfigFacts
<1>2. m[2] \in 1..b /\ b \in Nat \ {0}
  BY LayersIs, ConfigFacts
<1>3. n \in Nat
  BY <1>1, CountType
<1>4. P => NL(c, x) = b /\ LayerAt(c, x, s) = b + 1 - s
  <2>1. P => c.order[x].pass = p /\ c.order[x].chunk = m[1]
    BY PassIs
  <2>2. p # "fwd"
    BY DEF GradPass
  <2> QED  BY <1>1, <2>1, <2>2 DEF LayerAt
<1>5. Cnt(c, m, x, s) = n + IF P /\ b + 1 - m[2] < s THEN 1 ELSE 0
  BY <1>1 DEF Cnt
<1>6. CASE s < NL(c, x)
  <2>1. NextX(c, x, s) = x /\ NextS(c, x, s) = s + 1
    BY <1>6 DEF NextX, NextS
  <2>2. Cnt(c, m, x, s + 1) = n + IF P /\ b + 1 - m[2] < s + 1 THEN 1 ELSE 0
    BY <1>1 DEF Cnt
  <2> HIDE DEF n, b, P
  <2> QED  BY <1>1, <1>2, <1>3, <1>4, <1>5, <2>1, <2>2 DEF P, n
<1>7. CASE s = NL(c, x)
  <2>1. NextX(c, x, s) = x + 1 /\ NextS(c, x, s) = 1
    BY <1>1, <1>7 DEF NextX, NextS
  <2>2. N(c, p, m[1], x + 1) = IF P THEN n + 1 ELSE n
    BY <1>1, CountStep
  <2>3. ~(b + 1 - m[2] < 1)
    BY <1>2
  <2>4. Cnt(c, m, x + 1, 1) = N(c, p, m[1], x + 1)
    <3>1. N(c, p, m[1], x + 1) \in Nat
      BY <1>3, <2>2
    <3> QED  BY <2>3, <3>1 DEF Cnt
  <2> HIDE DEF n, b, P
  <2>5. P => (b + 1 - m[2] < s <=> m[2] # LayerAt(c, x, s))
    BY <1>1, <1>2, <1>4, <1>7
  <2>6. P /\ m[2] = LayerAt(c, x, s) => Cnt(c, m, x, s) = n /\ Cnt(c, m, x + 1, 1) = n + 1
    BY <1>3, <1>5, <2>2, <2>4, <2>5
  <2>7. ~(P /\ m[2] = LayerAt(c, x, s)) => Cnt(c, m, x + 1, 1) = Cnt(c, m, x, s)
    BY <1>3, <1>5, <2>2, <2>4, <2>5
  <2> QED  BY <1>3, <2>1, <2>6, <2>7 DEF P, n
<1> QED  BY <1>1, <1>6, <1>7

\* Each weight gradient is that of its microbatch.
GradsRight(c, gd, it, x, s) == Prompt(c) => \A m \in LayersOf(c) :
  /\ gd[m] \in Seq(Nat \X Nat \X Int) /\ Len(gd[m]) = Cnt(c, m, x, s)
  /\ \A n \in 1..Len(gd[m]) : gd[m][n] = <<it, m[1], n - 1>>

LEMMA GradsStep ==
  ASSUME NEW gd, NEW r, NEW add, NEW it \in Nat, NEW c \in Configs, NEW x \in 1..End(c), NEW s \in 1..NL(c, x),
         GradsRight(c, gd, it, x, s),
         c.order[x].pass = GradPass(c) /\ Prompt(c) => add = <<Is(it, Cur(c, x, s))>>,
         c.order[x].pass # GradPass(c) => add = <<>>,
         \A m \in LayersOf(c) :
           r[m] = gd[m] \o IF m = <<c.order[x].chunk, LayerAt(c, x, s)>> THEN add ELSE <<>>
  PROVE  GradsRight(c, r, it, NextX(c, x, s), NextS(c, x, s))
<1> SUFFICES ASSUME Prompt(c), NEW m \in LayersOf(c)
             PROVE  /\ r[m] \in Seq(Nat \X Nat \X Int)
                    /\ Len(r[m]) = Cnt(c, m, NextX(c, x, s), NextS(c, x, s))
                    /\ \A n \in 1..Len(r[m]) : r[m][n] = <<it, m[1], n - 1>>
  BY DEF GradsRight
<1> DEFINE V == Nat \X Nat \X Int
           q == gd[m]
           k == c.order[x].chunk
<1>1. q \in Seq(V) /\ Len(q) = Cnt(c, m, x, s) /\ \A n \in 1..Len(q) : q[n] = <<it, m[1], n - 1>>
  BY DEF GradsRight
<1>2. r[m] = q \o IF m = <<k, LayerAt(c, x, s)>> THEN add ELSE <<>>
  OBVIOUS
<1>3. m = <<m[1], m[2]>> /\ m[1] \in ChunksOf(c)
  BY LayersIs
<1>4. c.order[x] = Pass(GradPass(c), m[1]) /\ m[2] = LayerAt(c, x, s)
        <=> c.order[x].pass = GradPass(c) /\ m = <<k, LayerAt(c, x, s)>>
  BY <1>3, PassAt
<1> HIDE DEF q, V
<1>5. CASE c.order[x].pass = GradPass(c) /\ m = <<k, LayerAt(c, x, s)>>
  <2> DEFINE w == Is(it, Cur(c, x, s))
             nn == N(c, GradPass(c), m[1], x)
  <2>1. r[m] = q \o <<w>>
    BY <1>2, <1>5
  <2>2. Cnt(c, m, NextX(c, x, s), NextS(c, x, s)) = Cnt(c, m, x, s) + 1 /\ Cnt(c, m, x, s) = nn
    BY <1>4, <1>5, CntStep
  <2>3. m[1] = k /\ x \in Int /\ m[1] \in Nat
    BY <1>3, <1>5, PointFacts, ConfigFacts
  <2>4. nn \in Nat
    BY <2>3, CountType
  <2>5. w = <<it, m[1], nn>>
    <3>1. Cur(c, x, s) = <<k, N(c, GradPass(c), k, x), LayerAt(c, x, s)>>
      BY <1>5 DEF Cur
    <3> QED  BY <2>3, <3>1 DEF Is
  <2> HIDE DEF w, nn
  <2>6. w \in V
    BY <2>3, <2>4, <2>5 DEF V
  <2>7. q \o <<w>> \in Seq(V) /\ Len(q \o <<w>>) = Len(q) + 1
        /\ \A n \in 1..Len(q) + 1 : (q \o <<w>>)[n] = IF n <= Len(q) THEN q[n] ELSE w
    <3>1. <<w>> \in Seq(V) /\ Len(<<w>>) = 1 /\ <<w>>[1] = w
      BY <2>6
    <3>2. q \o <<w>> \in Seq(V) /\ Len(q \o <<w>>) = Len(q) + Len(<<w>>)
          /\ \A n \in 1..Len(q) + Len(<<w>>) : (q \o <<w>>)[n] = IF n <= Len(q) THEN q[n] ELSE <<w>>[n - Len(q)]
      BY ONLY <1>1, <3>1, ConcatProperties
    <3>3. Len(q) \in Nat
      BY <1>1
    <3>4. \A n \in 1..Len(q) + 1 : ~(n <= Len(q)) => n - Len(q) = 1
      BY <3>3
    <3> QED  BY <3>1, <3>2, <3>4
  <2>8. Len(q) = nn
    BY <1>1, <2>2
  <2>9. \A n \in 1..Len(q) + 1 : (q \o <<w>>)[n] = <<it, m[1], n - 1>>
    <3> TAKE n \in 1..Len(q) + 1
    <3>1. Len(q) \in Nat
      BY <1>1
    <3>2. CASE n <= Len(q)
      <4>1. n \in 1..Len(q)
        BY <3>1, <3>2
      <4> QED  BY <1>1, <2>7, <3>2, <4>1
    <3>3. CASE ~(n <= Len(q))
      <4>1. n - 1 = nn
        BY ONLY n \in 1..Len(q) + 1, <2>8, <3>1, <3>3
      <4> QED  BY <2>5, <2>7, <3>3, <4>1
    <3> QED  BY <3>2, <3>3
  <2> QED  BY <1>1, <2>1, <2>2, <2>7, <2>9 DEF V
<1>6. CASE ~(c.order[x].pass = GradPass(c) /\ m = <<k, LayerAt(c, x, s)>>)
  <2>1. r[m] = q \o <<>>
    BY <1>2, <1>6
  <2>2. q \o <<>> = q
    BY <1>1
  <2>3. Cnt(c, m, NextX(c, x, s), NextS(c, x, s)) = Cnt(c, m, x, s)
    BY <1>4, <1>6, CntStep
  <2> QED  BY <1>1, <2>1, <2>2, <2>3 DEF V
<1> QED  BY <1>5, <1>6

LEMMA MixOne ==
  ASSUME NEW v
  PROVE  Mix({v}) = v
<1>1. Cardinality({v}) = 1
  BY FS_Singleton
<1> QED  BY <1>1 DEF Mix

LEMMA MixType ==
  ASSUME NEW V, Junk \in V, NEW S \in SUBSET V, S # {}
  PROVE  Mix(S) \in V
  BY DEF Mix

\* Before the first pass of an iteration.
LEMMA PoolFresh ==
  ASSUME NEW ct, NEW inp, NEW go, NEW gout, NEW it, NEW c \in Configs
  PROVE  /\ PoolRight(c, ct, it, 1, 1) /\ InputsRight(c, inp, it, 1, 1)
         /\ OwedRight(c, inp, go, gout, it, 1) /\ SendingRight(c, ct, {}, <<>>, it, 1, 1)
<1>1. PoolRight(c, ct, it, 1, 1)
  BY NeededFirst DEF PoolRight
<1>2. InputsRight(c, inp, it, 1, 1)
  <2>1. NeedAct(c, 1, 1) = {}
    BY RanFirst DEF NeedAct, Passes
  <2> QED  BY <2>1 DEF InputsRight
<1>3. OwedRight(c, inp, go, gout, it, 1)
  <2>1. \A k : N(c, "dw", k, 1) = 0 /\ N(c, "bwd", k, 1) = 0
    BY CountFirst
  <2>2. 0..0 - 1 = {}
    OBVIOUS
  <2> QED  BY <2>1, <2>2 DEF OwedRight
<1>4. SendingRight(c, ct, {}, <<>>, it, 1, 1)
  <2>1. Len(<<>>) = 0 /\ 1..Len(<<>>) = {} /\ <<>> \in Seq(CallablesOf(c))
    OBVIOUS
  <2> QED  BY <2>1 DEF SendingRight
<1> QED  BY <1>1, <1>2, <1>3, <1>4

LEMMA GradsFresh ==
  ASSUME NEW gd, NEW it, NEW c \in Configs, \A m \in LayersOf(c) : gd[m] = <<>>
  PROVE  GradsRight(c, gd, it, 1, 1)
<1> SUFFICES ASSUME NEW m \in LayersOf(c)
             PROVE  /\ gd[m] \in Seq(Nat \X Nat \X Int) /\ Len(gd[m]) = Cnt(c, m, 1, 1)
                    /\ \A n \in 1..Len(gd[m]) : gd[m][n] = <<it, m[1], n - 1>>
  BY DEF GradsRight
<1>1. gd[m] = <<>>
  OBVIOUS
<1>2. Len(<<>>) = 0 /\ 1..0 = {} /\ <<>> \in Seq(Nat \X Nat \X Int)
  OBVIOUS
<1> QED  BY <1>1, <1>2, CntFirst

-----------------------------------------------------------------------------
(* The invariant.                                                             *)

ValuesOf(c) == {Junk} \cup ((1..Iterations) \X ChunksOf(c) \X (0..MicrobatchesOf(c) - 1))

Typed(c) ==
  /\ content \in [Tensors(c) -> ValuesOf(c)]
  /\ inputs \in [CallablesOf(c) -> ValuesOf(c)] /\ gradOutputs \in [CallablesOf(c) -> ValuesOf(c)]
  /\ sending = [out |-> sending.out, gin |-> sending.gin]
  /\ sending.out \subseteq CallablesOf(c) /\ sending.gin \in Seq(CallablesOf(c))
  /\ grads \in [LayersOf(c) -> Seq(ValuesOf(c))]

SentIs(it, e) == e[3][1] = it /\ e[3][2] = e[2][1] /\ e[3][3] = e[2][2]

Replayed(c, it, x, s) ==
  /\ PoolRight(c, content, it, x, s) /\ InputsRight(c, inputs, it, x, s)
  /\ OwedRight(c, inputs, gradOut, gradOutputs, it, x)
  /\ SendingRight(c, content, sending.out, sending.gin, it, x, s)
  /\ \A e \in sent : SentIs(it, e)
  /\ GradsRight(c, grads, it, x, s)

CursorRight(c) ==
  /\ cursor.pos \in 1..End(c) /\ cursor.step \in 1..NL(c, cursor.pos)
  /\ cursor = CursorAt(c, cursor.pos, cursor.step)

ProgressRight(c) ==
  /\ iteration = 0 =>
       /\ Captured(c, cursor.pos, cursor.step)
       /\ sending = [out |-> {}, gin |-> <<>>] /\ sent = {} /\ \A m \in LayersOf(c) : grads[m] = <<>>
  /\ iteration > 0 => Captured(c, End(c) + 1, 1)
  /\ iteration = 1 /\ cursor = Start(c) => sending = [out |-> {}, gin |-> <<>>] /\ sent = {}
  /\ iteration = 1 => Replayed(c, 1, cursor.pos, cursor.step)
  /\ iteration > 1 /\ cursor = Start(c) => Replayed(c, iteration - 1, End(c) + 1, 1)
  /\ iteration > 1 /\ cursor # Start(c) => Replayed(c, iteration, cursor.pos, cursor.step)

InvOf(c) ==
  /\ sample = SampleArgs(c) /\ CursorRight(c) /\ Typed(c)
  /\ iteration \in 0..Iterations + 1 /\ raised \in BOOLEAN /\ (raised => iteration = 0 /\ ~Legal(c))
  /\ ProgressRight(c)
Inv == config \in Configs /\ InvOf(config)

\* What a pass of an iteration starts from.
Base(c) == [m \in LayersOf(c) |-> IF cursor = Start(c) THEN <<>> ELSE grads[m]]

LEMMA ReplayStarts ==
  ASSUME NEW c \in Configs, InvOf(c), config = c, NEW p, Replaying(p),
         NEW x, x = cursor.pos, NEW s, s = cursor.step, NEW it, it = iteration
  PROVE  /\ it \in 1..Iterations /\ it \in Nat /\ Captured(c, End(c) + 1, 1) /\ Legal(c)
         /\ x \in 1..End(c) /\ s \in 1..NL(c, x) /\ cursor = CursorAt(c, x, s) /\ c.order[x].pass = p
         /\ Current = c.order[x] /\ Len(sending.gin) <= 1
         /\ PoolRight(c, content, it, x, s) /\ InputsRight(c, inputs, it, x, s)
         /\ OwedRight(c, inputs, gradOut, gradOutputs, it, x)
         /\ SendingRight(c, content, sending.out, sending.gin, it, x, s)
         /\ cursor # Start(c) => \A e \in sent : SentIs(it, e)
         /\ GradsRight(c, Base(c), it, x, s)
<1>1. /\ it \in 1..Iterations /\ Iterations \in Nat /\ Current.pass = p /\ Len(sending.gin) <= 1
      /\ cursor = Start(c) => sending.out = {} /\ sending.gin = <<>>
  BY IterationsAssumption DEF Replaying
<1>2. x \in 1..End(c) /\ s \in 1..NL(c, x) /\ cursor = CursorAt(c, x, s)
  BY DEF InvOf, CursorRight
<1>3. Current = c.order[x] /\ (cursor = Start(c) <=> x = 1 /\ s = 1)
  BY <1>2, CursorNow
<1>4. it \in Nat /\ it > 0
  BY <1>1
<1>5. Captured(c, End(c) + 1, 1)
  BY <1>4 DEF InvOf, ProgressRight
<1>6. Legal(c)
  <2>1. \A y \in 1..(End(c) + 1) - 1 : AcceptedAt(c, y)
    BY <1>5 DEF Captured
  <2>2. (End(c) + 1) - 1 = End(c)
    BY ConfigFacts
  <2> QED  BY <2>1, <2>2, AcceptedLegal
<1>7. CASE cursor = Start(c)
  <2>1. x = 1 /\ s = 1 /\ sending.out = {} /\ sending.gin = <<>>
    BY <1>1, <1>3, <1>7
  <2>2. \A m \in LayersOf(c) : Base(c)[m] = <<>>
    BY <1>7 DEF Base
  <2>3. GradsRight(c, Base(c), it, 1, 1)
    BY <2>2, GradsFresh
  <2>4. /\ PoolRight(c, content, it, 1, 1) /\ InputsRight(c, inputs, it, 1, 1)
        /\ OwedRight(c, inputs, gradOut, gradOutputs, it, 1) /\ SendingRight(c, content, {}, <<>>, it, 1, 1)
    BY PoolFresh
  <2> QED  BY <1>1, <1>2, <1>3, <1>4, <1>5, <1>6, <1>7, <2>1, <2>3, <2>4
<1>8. CASE cursor # Start(c)
  <2>1. it = 1 \/ it > 1
    BY <1>4
  <2>2. Replayed(c, it, x, s)
    BY <1>8, <2>1 DEF InvOf, ProgressRight
  <2>3. Base(c) = grads
    BY <1>8 DEF Base, InvOf, Typed
  <2> QED  BY <1>1, <1>2, <1>3, <1>4, <1>5, <1>6, <2>2, <2>3 DEF Replayed
<1> QED  BY <1>7, <1>8

\* The weight gradients after a pass.
LEMMA AddGradIs ==
  ASSUME NEW add, NEW c \in Configs, NEW x \in 1..End(c), NEW s \in 1..NL(c, x), config = c,
         cursor = CursorAt(c, x, s), DOMAIN store = LayersOf(c), AddGrad(add)
  PROVE  /\ grads' = [m \in LayersOf(c) |-> Base(c)[m] \o (IF m = <<c.order[x].chunk, LayerAt(c, x, s)>> THEN add ELSE <<>>)]
<1>1. Current = c.order[x] /\ Layer = LayerAt(c, x, s)
  BY CursorNow
<1> QED  BY <1>1 DEF AddGrad, ModuleLayers, Base

LEMMA AddGradType ==
  ASSUME NEW add \in Seq(ValuesOf(config)), NEW c \in Configs, config = c, grads \in [LayersOf(c) -> Seq(ValuesOf(c))],
         NEW n, grads' = [m \in LayersOf(c) |-> Base(c)[m] \o (IF m = n THEN add ELSE <<>>)]
  PROVE  grads' \in [LayersOf(c) -> Seq(ValuesOf(c))]
<1> DEFINE V == ValuesOf(c)
<1>1. grads \in [LayersOf(c) -> Seq(V)] /\ add \in Seq(V) /\ <<>> \in Seq(V)
  OBVIOUS
<1> HIDE DEF V
<1>2. \A m \in LayersOf(c) : Base(c)[m] \in Seq(V)
  BY <1>1 DEF Base
<1>3. \A m \in LayersOf(c) : (Base(c)[m] \o (IF m = n THEN add ELSE <<>>)) \in Seq(V)
  BY <1>1, <1>2, ConcatProperties
<1>4. grads' \in [LayersOf(c) -> Seq(V)]
  BY <1>3
<1> QED  BY <1>4 DEF V

LEMMA ValueType ==
  ASSUME NEW c \in Configs, iteration \in 1..Iterations, NEW i \in CallablesOf(c)
  PROVE  Value(i) \in ValuesOf(c) /\ Value(i) = Is(iteration, i)
  BY CallableIs DEF Value, ValuesOf, Is

\* What a pass leaves in the pool.
LEMMA RunIs ==
  ASSUME NEW g, NEW W, NEW v, NEW c \in Configs, content \in [Tensors(c) -> ValuesOf(c)], Run(g, W, v)
  PROVE  /\ \A t \in Tensors(c) : content'[t] = IF t \in W THEN v ELSE IF t \in graphs[g] THEN content[t] ELSE Junk
         /\ v \in ValuesOf(c) => content' \in [Tensors(c) -> ValuesOf(c)]
<1>1. content' = [t \in Tensors(c) |-> IF t \in W THEN v ELSE IF t \in graphs[g] THEN content[t] ELSE Junk]
  BY DEF Run
<1>2. Junk \in ValuesOf(c)
  BY DEF ValuesOf
<1> QED  BY <1>1, <1>2

LEMMA ReplaysForward ==
  ASSUME NEW c \in Configs, InvOf(c), config = c, ReplayForward,
         NEW x, x = cursor.pos, NEW s, s = cursor.step, NEW it, it = iteration
  PROVE  Typed(c)' /\ Replayed(c, it, NextX(c, x, s), NextS(c, x, s))'
<1> DEFINE i == Cur(c, x, s)
           v == IF LayerAt(c, x, s) = 1 THEN Value(i) ELSE content[<<"out", <<i[1], i[2], i[3] - 1>>>>]
           X == NextX(c, x, s)
           S == NextS(c, x, s)
<1>1. /\ it \in 1..Iterations /\ it \in Nat /\ Captured(c, End(c) + 1, 1) /\ Legal(c)
      /\ x \in 1..End(c) /\ s \in 1..NL(c, x) /\ cursor = CursorAt(c, x, s) /\ c.order[x].pass = "fwd"
      /\ Current = c.order[x] /\ Len(sending.gin) <= 1
      /\ PoolRight(c, content, it, x, s) /\ InputsRight(c, inputs, it, x, s)
      /\ OwedRight(c, inputs, gradOut, gradOutputs, it, x)
      /\ SendingRight(c, content, sending.out, sending.gin, it, x, s)
      /\ cursor # Start(c) => \A e \in sent : SentIs(it, e)
      /\ GradsRight(c, Base(c), it, x, s)
  BY ReplayStarts DEF ReplayForward
<1>2. Layer = LayerAt(c, x, s) /\ NumLayers = NL(c, x) /\ At(Done("fwd")) = i
  <2>1. Layer = LayerAt(c, x, s) /\ NumLayers = NL(c, x) /\ At(Done(c.order[x].pass)) = i
    BY <1>1, CursorNow
  <2> QED  BY <1>1, <2>1
<1>3. /\ inputs' = [inputs EXCEPT ![sample[i]] = v]
      /\ Run(<<"fwd", i>>, {<<"out", i>>, <<"saved", i>>}, v)
      /\ sending' = IF LayerAt(c, x, s) = NL(c, x) THEN [sending EXCEPT !.out = @ \cup {i}] ELSE sending
      /\ AddGrad(<<>>) /\ sent' = (IF cursor = Start(c) THEN {} ELSE sent)
      /\ gradOut' = gradOut /\ gradOutputs' = gradOutputs
  BY <1>2 DEF ReplayForward, BeginIteration, capturing
<1>4. i \in CallablesOf(c) /\ KeyAt(c, x, s) = <<"fwd", i>> /\ Written(c, x, s) = {<<"out", i>>, <<"saved", i>>}
  BY <1>1, CurIs DEF KeyAt, Written
<1>5. v = Is(it, i)
  BY <1>1, <1>4, ValueType, ForwardReads
<1>6. Is(it, i) \in ValuesOf(c)
  BY <1>1, <1>4, ValueType
<1> HIDE DEF v
<1>7. GraphsRight(c, graphs, End(c) + 1, 1) /\ DOMAIN store = LayersOf(c) /\ sample = SampleArgs(c) /\ Typed(c)
  BY <1>1 DEF Captured, InvOf
<1>8. /\ \A t \in Tensors(c) : content'[t] = IF t \in Written(c, x, s) THEN v
                               ELSE IF t \in graphs[KeyAt(c, x, s)] THEN content[t] ELSE Junk
      /\ content' \in [Tensors(c) -> ValuesOf(c)]
  BY <1>3, <1>4, <1>5, <1>6, <1>7, RunIs DEF Typed
<1>9. PoolRight(c, content', it, X, S)
  BY <1>1, <1>5, <1>7, <1>8, PoolStep, ZenonT(60)
<1>10. \A j \in LastGrad(c, x) : content'[<<"gin", j>>] = content[<<"gin", j>>]
  <2> TAKE j \in LastGrad(c, x)
  <2>1. <<"gin", j>> \in Needed(c, x, s) /\ <<"gin", j>> \notin Written(c, x, s)
    BY <1>1, LastGradUnwritten
  <2>2. <<"gin", j>> \in Tensors(c) /\ <<"gin", j>> \in graphs[KeyAt(c, x, s)]
    BY <1>1, <1>7, <2>1, NeededIs
  <2> QED  BY <1>8, <2>1, <2>2
<1>11. InputsRight(c, inputs', it, X, S)
  BY <1>1, <1>3, <1>5, <1>7, InputsForward DEF Typed
<1>12. OwedRight(c, inputs', gradOut, gradOutputs, it, X)
  BY <1>1, <1>3, <1>7, OwedForward DEF Typed
<1>13. /\ sending'.out = (IF LayerAt(c, x, s) = NL(c, x) THEN sending.out \cup {i} ELSE sending.out)
       /\ sending'.gin = sending.gin /\ sending' = [out |-> sending'.out, gin |-> sending'.gin]
  BY <1>3, <1>7 DEF Typed
<1>14. SendingRight(c, content', sending'.out, sending'.gin, it, X, S)
  <2>1. \A j \in LastGrad(c, x) : content'[<<"gin", j>>] = content[<<"gin", j>>]
    BY <1>10
  <2>2. sending'.out = IF LayerAt(c, x, s) = NL(c, x) THEN sending.out \cup {Cur(c, x, s)} ELSE sending.out
    BY <1>13
  <2>3. SendingRight(c, content', sending'.out, sending.gin, it, X, S)
    BY ONLY c \in Configs, <1>1, <2>1, <2>2, SendingForward
  <2> QED  BY <1>13, <2>3
<1>15. \A e \in sent' : SentIs(it, e)
  BY <1>1, <1>3
<1>16. grads' = [m \in LayersOf(c) |-> Base(c)[m] \o (IF m = <<c.order[x].chunk, LayerAt(c, x, s)>> THEN <<>> ELSE <<>>)]
  BY <1>1, <1>3, <1>7, AddGradIs
<1>17. GradsRight(c, grads', it, X, S)
  <2>1. c.order[x].pass # GradPass(c)
    BY <1>1 DEF GradPass
  <2>2. \A m \in LayersOf(c) :
          grads'[m] = Base(c)[m] \o (IF m = <<c.order[x].chunk, LayerAt(c, x, s)>> THEN <<>> ELSE <<>>)
    BY <1>16
  <2> QED  BY <1>1, <2>1, <2>2, GradsStep, ZenonT(60)
<1>18. grads' \in [LayersOf(c) -> Seq(ValuesOf(c))]
  <2>1. <<>> \in Seq(ValuesOf(config))
    OBVIOUS
  <2> QED  BY <1>7, <1>16, <2>1, AddGradType DEF Typed
<1>19. inputs' \in [CallablesOf(c) -> ValuesOf(c)]
  BY <1>3, <1>5, <1>6, <1>7 DEF Typed
<1>20. sending'.out \subseteq CallablesOf(c) /\ sending'.gin \in Seq(CallablesOf(c))
  BY <1>4, <1>7, <1>13 DEF Typed
<1>21. gradOutputs' \in [CallablesOf(c) -> ValuesOf(c)]
  BY <1>3, <1>7 DEF Typed
<1> HIDE DEF i
<1>22. Typed(c)'
  BY <1>8, <1>13, <1>18, <1>19, <1>20, <1>21 DEF Typed
<1>23. OwedRight(c, inputs', gradOut', gradOutputs', it, X)
  BY <1>3, <1>12
<1>24. Replayed(c, it, X, S)'
  BY <1>9, <1>11, <1>14, <1>15, <1>17, <1>23 DEF Replayed
<1> QED  BY <1>22, <1>24

LEMMA ReplaysBackward ==
  ASSUME NEW c \in Configs, InvOf(c), config = c, ReplayBackward,
         NEW x, x = cursor.pos, NEW s, s = cursor.step, NEW it, it = iteration
  PROVE  Typed(c)' /\ Replayed(c, it, NextX(c, x, s), NextS(c, x, s))'
<1> DEFINE i == Cur(c, x, s)
           g == IF LayerAt(c, x, s) = NL(c, x) THEN Value(i) ELSE content[<<"gin", <<i[1], i[2], i[3] + 1>>>>]
           R == {content[<<"saved", i>>]} \cup IF c.delay THEN {} ELSE {inputs[sample[i]]}
           v == Mix({g} \cup R)
           add == IF c.delay THEN <<>> ELSE <<v>>
           X == NextX(c, x, s)
           S == NextS(c, x, s)
<1>1. /\ it \in 1..Iterations /\ it \in Nat /\ Captured(c, End(c) + 1, 1) /\ Legal(c)
      /\ x \in 1..End(c) /\ s \in 1..NL(c, x) /\ cursor = CursorAt(c, x, s) /\ c.order[x].pass = "bwd"
      /\ Current = c.order[x] /\ Len(sending.gin) <= 1
      /\ PoolRight(c, content, it, x, s) /\ InputsRight(c, inputs, it, x, s)
      /\ OwedRight(c, inputs, gradOut, gradOutputs, it, x)
      /\ SendingRight(c, content, sending.out, sending.gin, it, x, s)
      /\ cursor # Start(c) => \A e \in sent : SentIs(it, e)
      /\ GradsRight(c, Base(c), it, x, s)
  BY ReplayStarts DEF ReplayBackward
<1>2. Layer = LayerAt(c, x, s) /\ NumLayers = NL(c, x) /\ At(Done("bwd")) = i /\ cursor # Start(c)
  <2>1. Layer = LayerAt(c, x, s) /\ NumLayers = NL(c, x) /\ At(Done(c.order[x].pass)) = i
        /\ (cursor = Start(c) <=> x = 1 /\ s = 1)
    BY <1>1, CursorNow
  <2>2. x # 1
    BY <1>1, FirstForward
  <2> QED  BY <1>1, <2>1, <2>2
<1>3. /\ LayerAt(c, x, s) = NL(c, x) => i \notin sending.out
      /\ gradOutputs' = [gradOutputs EXCEPT ![gradOut[i]] = g]
      /\ Run(<<"bwd", i>>, {<<"gin", i>>}, v)
      /\ sending' = IF LayerAt(c, x, s) = 1 THEN [sending EXCEPT !.gin = Append(@, i)] ELSE sending
      /\ AddGrad(add) /\ sent' = sent /\ gradOut' = gradOut /\ inputs' = inputs
  BY <1>2 DEF ReplayBackward, capturing
<1>4. i \in CallablesOf(c) /\ KeyAt(c, x, s) = <<"bwd", i>> /\ Written(c, x, s) = {<<"gin", i>>}
  BY <1>1, CurIs DEF KeyAt, Written
<1>5. GraphsRight(c, graphs, End(c) + 1, 1) /\ DOMAIN store = LayersOf(c) /\ sample = SampleArgs(c) /\ Typed(c)
      /\ GradOutRight(c, gradOut)
  BY <1>1 DEF Captured, InvOf, GradOutRight
<1>6. i \in NeedAct(c, x, s) /\ content[<<"saved", i>>] = Is(it, i) /\ g = Is(it, i)
  <2>0. i = Cur(c, x, s)
    OBVIOUS
  <2> HIDE DEF i
  <2>1. i \in NeedAct(c, x, s) /\ content[<<"saved", i>>] = Is(it, i)
    BY ONLY c \in Configs, <1>1, <2>0, BackwardReads
  <2>2. LayerAt(c, x, s) # NL(c, x) => content[<<"gin", <<i[1], i[2], i[3] + 1>>>>] = Is(it, i)
    BY ONLY c \in Configs, <1>1, <2>0, BackwardReads
  <2>3. Value(i) = Is(it, i)
    BY <1>1, <1>4, ValueType
  <2> QED  BY <2>1, <2>2, <2>3
<1>7. v = Is(it, i) /\ Is(it, i) \in ValuesOf(c)
  <2>1. inputs[sample[i]] = Is(it, i)
    BY <1>1, <1>5, <1>6 DEF InputsRight
  <2> HIDE DEF g
  <2>2. {g} \cup R = {Is(it, i)}
    BY <1>6, <2>1
  <2>3. v = Mix({Is(it, i)})
    BY <2>2
  <2> QED  BY <1>1, <1>4, <2>3, MixOne, ValueType
<1> HIDE DEF v, g, R
<1>8. /\ \A t \in Tensors(c) : content'[t] = IF t \in Written(c, x, s) THEN v
                               ELSE IF t \in graphs[KeyAt(c, x, s)] THEN content[t] ELSE Junk
      /\ content' \in [Tensors(c) -> ValuesOf(c)]
  BY <1>3, <1>4, <1>5, <1>7, RunIs DEF Typed
<1>9. PoolRight(c, content', it, X, S)
  BY <1>1, <1>5, <1>7, <1>8, PoolStep, ZenonT(60)
<1>10. \A j \in LastGrad(c, x) : content'[<<"gin", j>>] = content[<<"gin", j>>]
  <2> TAKE j \in LastGrad(c, x)
  <2>1. <<"gin", j>> \in Needed(c, x, s) /\ <<"gin", j>> \notin Written(c, x, s)
    BY <1>1, LastGradUnwritten
  <2>2. <<"gin", j>> \in Tensors(c) /\ <<"gin", j>> \in graphs[KeyAt(c, x, s)]
    BY <1>1, <1>5, <2>1, NeededIs
  <2> QED  BY <1>8, <2>1, <2>2
<1>11. InputsRight(c, inputs', it, X, S)
  BY <1>1, <1>3, InputsKeep
<1>12. OwedRight(c, inputs, gradOut, gradOutputs', it, X)
  <2>1. gradOutputs' = [gradOutputs EXCEPT ![gradOut[Cur(c, x, s)]] = Is(it, Cur(c, x, s))]
        /\ DOMAIN gradOutputs = CallablesOf(c)
    BY <1>3, <1>5, <1>6 DEF Typed
  <2> QED  BY <1>1, <1>5, <2>1, OwedBackward
<1>13. /\ sending'.out = sending.out
       /\ sending'.gin = (IF LayerAt(c, x, s) = 1 THEN Append(sending.gin, i) ELSE sending.gin)
       /\ sending' = [out |-> sending'.out, gin |-> sending'.gin]
  BY <1>3, <1>5 DEF Typed
<1>14. SendingRight(c, content', sending'.out, sending'.gin, it, X, S)
  <2>1. \A j \in LastGrad(c, x) : content'[<<"gin", j>>] = content[<<"gin", j>>]
    BY <1>10
  <2>2. sending'.gin = IF LayerAt(c, x, s) = 1 THEN Append(sending.gin, Cur(c, x, s)) ELSE sending.gin
    BY <1>13
  <2>3. content'[<<"gin", Cur(c, x, s)>>] = Is(it, Cur(c, x, s))
    BY <1>4, <1>7, <1>8, NeededTensors
  <2>4. LayerAt(c, x, s) = NL(c, x) => Cur(c, x, s) \notin sending.out
    BY <1>3
  <2>5. SendingRight(c, content', sending.out, sending'.gin, it, X, S)
    BY ONLY c \in Configs, <1>1, <2>1, <2>2, <2>3, <2>4, SendingBackward
  <2> QED  BY <1>13, <2>5
<1>15. \A e \in sent' : SentIs(it, e)
  BY <1>1, <1>2, <1>3
<1>16. grads' = [m \in LayersOf(c) |-> Base(c)[m] \o (IF m = <<c.order[x].chunk, LayerAt(c, x, s)>> THEN add ELSE <<>>)]
  <2> HIDE DEF add
  <2>1. AddGrad(add)
    BY <1>3
  <2> QED  BY ONLY c \in Configs, config = c, <1>1, <1>5, <2>1, AddGradIs
<1>17. GradsRight(c, grads', it, X, S)
  <2>1. /\ c.order[x].pass = GradPass(c) /\ Prompt(c) => add = <<Is(it, Cur(c, x, s))>>
        /\ c.order[x].pass # GradPass(c) => add = <<>>
    BY <1>1, <1>7 DEF GradPass
  <2> HIDE DEF add
  <2>2. \A m \in LayersOf(c) :
          grads'[m] = Base(c)[m] \o (IF m = <<c.order[x].chunk, LayerAt(c, x, s)>> THEN add ELSE <<>>)
    BY <1>16
  <2> QED  BY ONLY c \in Configs, <1>1, <2>1, <2>2, GradsStep
<1>18. grads' \in [LayersOf(c) -> Seq(ValuesOf(c))]
  <2>1. add \in Seq(ValuesOf(config))
    BY <1>7
  <2> HIDE DEF add
  <2> QED  BY <1>5, <1>16, <2>1, AddGradType DEF Typed
<1>19. gradOutputs' \in [CallablesOf(c) -> ValuesOf(c)]
  BY <1>3, <1>5, <1>6, <1>7 DEF Typed
<1>20. sending'.out \subseteq CallablesOf(c) /\ sending'.gin \in Seq(CallablesOf(c))
  BY <1>4, <1>5, <1>13 DEF Typed
<1>21. inputs' \in [CallablesOf(c) -> ValuesOf(c)]
  BY <1>3, <1>5 DEF Typed
<1> HIDE DEF i, add
<1>22. Typed(c)'
  BY <1>8, <1>13, <1>18, <1>19, <1>20, <1>21 DEF Typed
<1>23. OwedRight(c, inputs', gradOut', gradOutputs', it, X)
  BY <1>3, <1>12
<1>24. Replayed(c, it, X, S)'
  BY <1>9, <1>11, <1>14, <1>15, <1>17, <1>23 DEF Replayed
<1> QED  BY <1>22, <1>24

LEMMA ReplaysWgrad ==
  ASSUME NEW c \in Configs, InvOf(c), config = c, ReplayWgrad,
         NEW x, x = cursor.pos, NEW s, s = cursor.step, NEW it, it = iteration
  PROVE  Typed(c)' /\ Replayed(c, it, NextX(c, x, s), NextS(c, x, s))'
<1> DEFINE i == Cur(c, x, s)
           v == Mix({inputs[sample[dwOf[i]]], gradOutputs[gradOut[dwOf[i]]]})
           X == NextX(c, x, s)
           S == NextS(c, x, s)
<1>1. /\ it \in 1..Iterations /\ it \in Nat /\ Captured(c, End(c) + 1, 1) /\ Legal(c)
      /\ x \in 1..End(c) /\ s \in 1..NL(c, x) /\ cursor = CursorAt(c, x, s) /\ c.order[x].pass = "dw"
      /\ Current = c.order[x] /\ Len(sending.gin) <= 1
      /\ PoolRight(c, content, it, x, s) /\ InputsRight(c, inputs, it, x, s)
      /\ OwedRight(c, inputs, gradOut, gradOutputs, it, x)
      /\ SendingRight(c, content, sending.out, sending.gin, it, x, s)
      /\ cursor # Start(c) => \A e \in sent : SentIs(it, e)
      /\ GradsRight(c, Base(c), it, x, s)
  BY ReplayStarts DEF ReplayWgrad
<1>2. Layer = LayerAt(c, x, s) /\ At(Done("dw")) = i /\ cursor # Start(c)
  <2>1. Layer = LayerAt(c, x, s) /\ At(Done(c.order[x].pass)) = i
        /\ (cursor = Start(c) <=> x = 1 /\ s = 1)
    BY <1>1, CursorNow
  <2>2. x # 1
    BY <1>1, FirstForward
  <2> QED  BY <1>1, <2>1, <2>2
<1>3. /\ Run(<<"dw", i>>, {}, Junk) /\ AddGrad(<<v>>) /\ sending' = sending /\ sent' = sent
      /\ gradOut' = gradOut /\ inputs' = inputs /\ gradOutputs' = gradOutputs
  BY <1>2 DEF ReplayWgrad, capturing
<1>4. /\ c.delay /\ s = 1 /\ i \in CallablesOf(c) /\ i = <<c.order[x].chunk, N(c, "dw", c.order[x].chunk, x), 1>>
      /\ N(c, "dw", c.order[x].chunk, x) = N(c, "bwd", c.order[x].chunk, x) - 1 /\ LayerAt(c, x, s) = 1
  BY <1>1, WgradCur
<1>5. KeyAt(c, x, s) = <<"dw", i>> /\ Written(c, x, s) = {}
  BY <1>1, <1>4 DEF KeyAt, Written
<1>6. GraphsRight(c, graphs, End(c) + 1, 1) /\ DOMAIN store = LayersOf(c) /\ sample = SampleArgs(c) /\ Typed(c)
      /\ GradOutRight(c, gradOut) /\ dwOf \in [CallablesOf(c) -> CallablesOf(c)]
      /\ WgradsRight(c, dwOf, End(c) + 1)
  BY <1>1 DEF Captured, InvOf, GradOutRight
<1>7. dwOf[i] = i
  <2>1. x \in 1..(End(c) + 1) - 1
    BY <1>1, ConfigFacts
  <2>2. dwOf[KeyAt(c, x, 1)[2]] = <<c.order[x].chunk, N(c, "dw", c.order[x].chunk, x), 1>>
    BY <1>1, <1>6, <2>1 DEF WgradsRight
  <2> QED  BY <1>4, <1>5, <2>2
<1>8. v \in ValuesOf(c) /\ Junk \in ValuesOf(c)
  <2>1. inputs[sample[dwOf[i]]] \in ValuesOf(c) /\ gradOutputs[gradOut[dwOf[i]]] \in ValuesOf(c)
    BY <1>4, <1>6, <1>7, SampleType DEF Typed, GradOutRight
  <2>2. Junk \in ValuesOf(c)
    BY DEF ValuesOf
  <2> QED  BY <2>1, <2>2, MixType
<1>9. Prompt(c) => v = Is(it, i)
  <2>1. Prompt(c) => inputs[sample[i]] = Is(it, i) /\ gradOutputs[gradOut[i]] = Is(it, i)
    <3>1. i = Cur(c, x, s)
      OBVIOUS
    <3> HIDE DEF i
    <3>2. ASSUME Prompt(c)
          PROVE  inputs[SampleArgs(c)[i]] = Is(it, i) /\ gradOutputs[gradOut[i]] = Is(it, i)
      <4>1. /\ x \in 1..End(c) /\ s \in 1..NL(c, x) /\ c.order[x].pass = "dw" /\ Legal(c)
            /\ OwedRight(c, inputs, gradOut, gradOutputs, it, x)
        BY <1>1
      <4> DEFINE k == c.order[x].chunk
                 n == N(c, "dw", k, x)
      <4>2. k \in ChunksOf(c) /\ n \in Nat /\ N(c, "bwd", k, x) \in Nat /\ i = <<k, n, 1>>
        BY <1>1, <1>4, PointFacts, CountType
      <4>3. n \in N(c, "dw", k, x)..N(c, "bwd", k, x) - 1
        BY <1>4, <4>2
      <4>4. c.delay
        BY <1>4
      <4> HIDE DEF k, n
      <4>5. inputs[SampleArgs(c)[<<k, n, 1>>]] = Is(it, <<k, n, 1>>) /\ gradOutputs[gradOut[<<k, n, 1>>]] = Is(it, <<k, n, 1>>)
        BY <3>2, <4>1, <4>2, <4>3, <4>4 DEF OwedRight, n
      <4> QED  BY <4>2, <4>5
    <3> QED  BY <1>6, <3>2
  <2>2. Prompt(c) => v = Mix({Is(it, i)})
    BY <1>7, <2>1
  <2> QED  BY <2>2, MixOne
<1> HIDE DEF v
<1>10. /\ \A t \in Tensors(c) : content'[t] = IF t \in Written(c, x, s) THEN Junk
                                ELSE IF t \in graphs[KeyAt(c, x, s)] THEN content[t] ELSE Junk
       /\ content' \in [Tensors(c) -> ValuesOf(c)]
  BY <1>3, <1>5, <1>6, <1>8, RunIs DEF Typed
<1>11. PoolRight(c, content', it, X, S)
  BY <1>1, <1>6, <1>10, PoolStep
<1>12. \A j \in LastGrad(c, x) : content'[<<"gin", j>>] = content[<<"gin", j>>]
  <2> TAKE j \in LastGrad(c, x)
  <2>1. <<"gin", j>> \in Needed(c, x, s) /\ <<"gin", j>> \notin Written(c, x, s)
    BY <1>1, LastGradUnwritten
  <2>2. <<"gin", j>> \in Tensors(c) /\ <<"gin", j>> \in graphs[KeyAt(c, x, s)]
    BY <1>1, <1>6, <2>1, NeededIs
  <2> QED  BY <1>10, <2>1, <2>2
<1>13. InputsRight(c, inputs', it, X, S)
  BY <1>1, <1>3, InputsKeep
<1>14. OwedRight(c, inputs', gradOut', gradOutputs', it, X)
  BY <1>1, <1>3, OwedWgrad
<1>15. SendingRight(c, content', sending'.out, sending'.gin, it, X, S)
  <2>1. \A j \in LastGrad(c, x) : content'[<<"gin", j>>] = content[<<"gin", j>>]
    BY <1>12
  <2>2. SendingRight(c, content', sending.out, sending.gin, it, X, S)
    BY ONLY c \in Configs, <1>1, <2>1, SendingWgrad
  <2> QED  BY <1>3, <2>2
<1>16. \A e \in sent' : SentIs(it, e)
  BY <1>1, <1>2, <1>3
<1>17. grads' = [m \in LayersOf(c) |-> Base(c)[m] \o (IF m = <<c.order[x].chunk, LayerAt(c, x, s)>> THEN <<v>> ELSE <<>>)]
  <2> DEFINE add == <<v>>
  <2>1. AddGrad(add)
    BY <1>3
  <2> HIDE DEF add
  <2>2. grads' = [m \in LayersOf(c) |-> Base(c)[m] \o (IF m = <<c.order[x].chunk, LayerAt(c, x, s)>> THEN add ELSE <<>>)]
    BY ONLY c \in Configs, config = c, <1>1, <1>6, <2>1, AddGradIs
  <2> QED  BY <2>2 DEF add
<1>18. GradsRight(c, grads', it, X, S)
  <2> DEFINE add == <<v>>
  <2>1. /\ c.order[x].pass = GradPass(c) /\ Prompt(c) => add = <<Is(it, Cur(c, x, s))>>
        /\ c.order[x].pass # GradPass(c) => add = <<>>
    BY <1>1, <1>4, <1>9 DEF GradPass
  <2>2. \A m \in LayersOf(c) :
          grads'[m] = Base(c)[m] \o (IF m = <<c.order[x].chunk, LayerAt(c, x, s)>> THEN add ELSE <<>>)
    BY <1>17
  <2> HIDE DEF add
  <2> QED  BY ONLY c \in Configs, <1>1, <2>1, <2>2, GradsStep
<1>19. grads' \in [LayersOf(c) -> Seq(ValuesOf(c))]
  <2>1. <<v>> \in Seq(ValuesOf(config))
    BY <1>8
  <2> QED  BY <1>6, <1>17, <2>1, AddGradType DEF Typed
<1> HIDE DEF i
<1>20. Typed(c)'
  BY <1>3, <1>6, <1>10, <1>19 DEF Typed
<1>21. Replayed(c, it, X, S)'
  BY <1>11, <1>13, <1>14, <1>15, <1>16, <1>18 DEF Replayed
<1> QED  BY <1>20, <1>21

LEMMA OutputSent ==
  ASSUME NEW it, NEW x, NEW s, NEW c \in Configs, Typed(c), Replayed(c, it, x, s), SendOutput
  PROVE  Typed(c)' /\ Replayed(c, it, x, s)'
<1>1. PICK i \in sending.out : /\ sending' = [sending EXCEPT !.out = @ \ {i}]
                               /\ sent' = sent \cup {<<"out", i, content[<<"out", i>>]>>}
  BY DEF SendOutput
<1>2. content' = content /\ inputs' = inputs /\ gradOutputs' = gradOutputs /\ grads' = grads /\ gradOut' = gradOut
  BY DEF SendOutput, capturing
<1>3. sending'.out = sending.out \ {i} /\ sending'.gin = sending.gin /\ sending' = [out |-> sending'.out, gin |-> sending'.gin]
  BY <1>1 DEF Typed
<1>4. content[<<"out", i>>] = Is(it, i)
  <2>1. i \in NeedAct(c, x, s)
    BY DEF Replayed, SendingRight
  <2>2. <<"out", i>> \in Needed(c, x, s)
    BY <2>1 DEF Needed
  <2> QED  BY <2>2 DEF Replayed, PoolRight
<1>5. SentIs(it, <<"out", i, content[<<"out", i>>]>>)
  BY <1>4 DEF SentIs, Is
<1>6. \A e \in sent' : SentIs(it, e)
  BY <1>1, <1>5 DEF Replayed
<1>7. SendingRight(c, content', sending'.out, sending'.gin, it, x, s)
  BY <1>2, <1>3 DEF Replayed, SendingRight
<1>8. Typed(c)'
  BY <1>2, <1>3 DEF Typed
<1>9. Replayed(c, it, x, s)'
  BY <1>2, <1>6, <1>7 DEF Replayed
<1> QED  BY <1>8, <1>9

LEMMA GradientSent ==
  ASSUME NEW it, NEW x, NEW s, NEW c \in Configs, Typed(c), Replayed(c, it, x, s), SendGradient
  PROVE  Typed(c)' /\ Replayed(c, it, x, s)'
<1> DEFINE q == sending.gin
           i == Head(q)
           C == CallablesOf(c)
<1>1. /\ q # <<>> /\ sent' = sent \cup {<<"gin", i, content[<<"gin", i>>]>>}
      /\ sending' = [sending EXCEPT !.gin = Tail(q)]
  BY DEF SendGradient
<1>2. content' = content /\ inputs' = inputs /\ gradOutputs' = gradOutputs /\ grads' = grads /\ gradOut' = gradOut
  BY DEF SendGradient, capturing
<1>3. sending'.out = sending.out /\ sending'.gin = Tail(q) /\ sending' = [out |-> sending'.out, gin |-> sending'.gin]
  BY <1>1 DEF Typed
<1>4. /\ q \in Seq(C) /\ Len(q) <= 2 /\ q[Len(q)] \in LastGrad(c, x)
      /\ \A e \in 1..Len(q) : content[<<"gin", q[e]>>] = Is(it, q[e])
  BY <1>1 DEF Replayed, SendingRight
<1> HIDE DEF q, C
<1>5. /\ Len(q) \in Nat \ {0} /\ i = q[1] /\ Tail(q) \in Seq(C) /\ Len(Tail(q)) = Len(q) - 1
      /\ \A e \in 1..Len(q) - 1 : Tail(q)[e] = q[e + 1]
  BY <1>1, <1>4
<1>6. content[<<"gin", i>>] = Is(it, i)
  BY <1>4, <1>5
<1> HIDE DEF i
<1>7. SentIs(it, <<"gin", i, content[<<"gin", i>>]>>)
  BY <1>6 DEF SentIs, Is
<1>8. \A e \in sent' : SentIs(it, e)
  BY <1>1, <1>7 DEF Replayed
<1>9. SendingRight(c, content', sending'.out, sending'.gin, it, x, s)
  <2> DEFINE r == Tail(q)
  <2>1. \A j \in sending'.out : j \in NeedAct(c, x, s) /\ j[3] = c.layers[j[1]]
    BY <1>3 DEF Replayed, SendingRight
  <2>2. r \in Seq(CallablesOf(c)) /\ Len(r) <= 2
    BY <1>4, <1>5 DEF C
  <2>3. \A e \in 1..Len(r) : content[<<"gin", r[e]>>] = Is(it, r[e])
    <3> TAKE e \in 1..Len(r)
    <3>1. r[e] = q[e + 1] /\ e + 1 \in 1..Len(q)
      BY <1>5
    <3> QED  BY <1>4, <3>1
  <2>4. r # <<>> => r[Len(r)] \in LastGrad(c, x)
    <3>1. SUFFICES ASSUME r # <<>>  PROVE r[Len(r)] \in LastGrad(c, x)
      OBVIOUS
    <3>2. Len(r) \in Nat \ {0}
      BY <1>5, <3>1
    <3>3. Len(r) \in 1..Len(q) - 1 /\ Len(r) + 1 = Len(q)
      BY <1>5, <3>2
    <3>4. r[Len(r)] = q[Len(q)]
      BY <1>5, <3>3
    <3> QED  BY <1>4, <3>4
  <2>5. sending'.gin = r
    BY <1>3
  <2> HIDE DEF r
  <2> QED  BY <1>2, <2>1, <2>2, <2>3, <2>4, <2>5 DEF SendingRight
<1>10. Typed(c)'
  BY <1>2, <1>3, <1>5 DEF Typed, C
<1>11. Replayed(c, it, x, s)'
  BY <1>2, <1>8, <1>9 DEF Replayed
<1> QED  BY <1>10, <1>11

\* Where the replay stands.
LEMMA SendKeeps ==
  ASSUME NEW c \in Configs, InvOf(c), config = c, SendOutput \/ SendGradient
  PROVE  InvOf(c)'
<1>1. /\ sample' = sample /\ iteration' = iteration /\ cursor' = cursor /\ raised' = raised
      /\ graphs' = graphs /\ live' = live /\ lastGrad' = lastGrad /\ store' = store /\ dwOf' = dwOf
      /\ gradOut' = gradOut
  BY DEF SendOutput, SendGradient, capturing
<1>2. \A it, x, s : Replayed(c, it, x, s) => Typed(c)' /\ Replayed(c, it, x, s)'
  BY OutputSent, GradientSent DEF InvOf
<1>3. iteration \in Nat /\ (iteration = 0 \/ iteration = 1 \/ iteration > 1)
  BY IterationsAssumption DEF InvOf
<1>4. sending # [out |-> {}, gin |-> <<>>]
  <2>1. sending.out # {} \/ sending.gin # <<>>
    BY DEF SendOutput, SendGradient
  <2> QED  BY <2>1
<1>5. iteration # 0 /\ (iteration = 1 => cursor # Start(c))
  BY <1>4 DEF InvOf, ProgressRight
<1>6. Typed(c)'
  BY <1>2, <1>3, <1>5 DEF InvOf, ProgressRight
<1>7. Captured(c, End(c) + 1, 1)'
  BY <1>1, <1>3, <1>5 DEF InvOf, ProgressRight, Captured
<1>8. CursorRight(c)'
  BY <1>1 DEF InvOf, CursorRight
<1>9. ProgressRight(c)'
  BY <1>1, <1>2, <1>3, <1>5, <1>7 DEF InvOf, ProgressRight
<1> QED  BY <1>1, <1>6, <1>8, <1>9 DEF InvOf

LEMMA InvInit == Init => Inv
<1> SUFFICES ASSUME Init  PROVE Inv
  OBVIOUS
<1> DEFINE c == config
<1>1. c \in Configs /\ c.order # <<>>
  BY ConfigsAssumption DEF Init
<1>2. /\ sample = SampleArgs(c) /\ iteration = 0 /\ cursor = Start(c) /\ raised = FALSE
      /\ store = [m \in LayersOf(c) |-> <<>>] /\ grads = store
      /\ content = [t \in Tensors(c) |-> Junk] /\ inputs = [i \in CallablesOf(c) |-> Junk] /\ gradOutputs = inputs
      /\ sending = [out |-> {}, gin |-> <<>>] /\ sent = {}
  BY DEF Init, LayersOf
<1>3. Captured(c, 1, 1)
  <2>1. config = c
    OBVIOUS
  <2> HIDE DEF c
  <2> QED  BY <1>1, <2>1, CapturedFirst
<1> HIDE DEF c
<1>4. 1 \in 1..End(c) /\ 1 \in 1..NL(c, 1) /\ cursor = CursorAt(c, 1, 1)
  BY <1>1, <1>2, FirstForward, StartIs
<1>5. cursor.pos = 1 /\ cursor.step = 1
  BY <1>4 DEF CursorAt
<1>6. CursorRight(c)
  BY <1>4, <1>5 DEF CursorRight
<1>7. Typed(c)
  <2>1. Junk \in ValuesOf(c)
    BY DEF ValuesOf
  <2>2. <<>> \in Seq(ValuesOf(c)) /\ <<>> \in Seq(CallablesOf(c)) /\ {} \subseteq CallablesOf(c)
    OBVIOUS
  <2>3. sending.out = {} /\ sending.gin = <<>>
    BY <1>2
  <2> HIDE DEF Junk
  <2>4. content \in [Tensors(c) -> ValuesOf(c)]
    BY <1>2, <2>1
  <2>5. inputs \in [CallablesOf(c) -> ValuesOf(c)] /\ gradOutputs \in [CallablesOf(c) -> ValuesOf(c)]
    BY <1>2, <2>1
  <2>6. grads \in [LayersOf(c) -> Seq(ValuesOf(c))]
    BY <1>2, <2>2
  <2> QED  BY <1>2, <2>2, <2>3, <2>4, <2>5, <2>6 DEF Typed
<1>8. ProgressRight(c)
  BY <1>2, <1>3, <1>5 DEF ProgressRight
<1>9. iteration \in 0..Iterations + 1
  BY <1>2, IterationsAssumption
<1>10. InvOf(c)
  BY <1>2, <1>6, <1>7, <1>8, <1>9 DEF InvOf
<1> QED  BY <1>1, <1>10 DEF Inv, c

\* A pass of the capture.
LEMMA CaptureKeeps ==
  ASSUME NEW c \in Configs, InvOf(c), config = c, CaptureForward \/ CaptureBackward \/ CaptureWgrad,
         NEW x, x = cursor.pos, NEW s, s = cursor.step
  PROVE  InvOf(c)'
<1> DEFINE X == NextX(c, x, s)
           S == NextS(c, x, s)
<1>1. /\ sample' = sample /\ raised' = raised /\ Advance /\ iteration = 0 /\ ~raised
      /\ content' = content /\ inputs' = inputs /\ gradOutputs' = gradOutputs /\ sending' = sending
      /\ sent' = sent /\ grads' = grads
  BY DEF CaptureForward, CaptureBackward, CaptureWgrad, Capturing, replaying
<1>2. /\ sample = SampleArgs(c) /\ x \in 1..End(c) /\ s \in 1..NL(c, x) /\ cursor = CursorAt(c, x, s) /\ Typed(c)
      /\ Captured(c, x, s) /\ sending = [out |-> {}, gin |-> <<>>] /\ sent = {}
      /\ \A m \in LayersOf(c) : grads[m] = <<>>
  BY <1>1 DEF InvOf, CursorRight, ProgressRight
<1>3. Captured(c, X, S)'
  <2>1. SampleArgs(c) \in [CallablesOf(c) -> CallablesOf(c)]
    BY SampleType
  <2> QED  BY <1>2, <2>1, CapturesForward, CapturesBackward, CapturesWgrad
<1>4. Typed(c)'
  BY <1>1, <1>2 DEF Typed
<1>5. Iterations \in Nat \ {0} /\ End(c) \in Nat \ {0}
  BY IterationsAssumption, ConfigFacts
<1>6. CASE X <= End(c)
  <2>1. cursor' = CursorAt(c, X, S) /\ iteration' = 0
    BY <1>1, <1>2, <1>6, AdvanceStep
  <2>2. X \in 1..End(c) /\ S \in 1..NL(c, X)
    <3>1. X \in 1..End(c) + 1 /\ (X \in 1..End(c) => S \in 1..NL(c, X))
      BY <1>2, NextPoint
    <3> QED  BY <1>5, <1>6, <3>1
  <2> HIDE DEF X, S
  <2>3. cursor'.pos = X /\ cursor'.step = S
    BY <2>1 DEF CursorAt
  <2>4. CursorRight(c)'
    BY <2>1, <2>2, <2>3 DEF CursorRight
  <2>5. Captured(c, cursor.pos, cursor.step)'
    BY <1>3, <2>3
  <2>6. ProgressRight(c)'
    BY <1>1, <1>2, <2>1, <2>5 DEF ProgressRight
  <2>7. iteration' \in 0..Iterations + 1
    BY <1>5, <2>1
  <2> QED  BY <1>1, <1>2, <1>4, <2>4, <2>6, <2>7 DEF InvOf
<1>7. CASE ~(X <= End(c))
  <2>1. X = End(c) + 1 /\ S = 1
    <3>1. X \in 1..End(c) + 1 /\ (X = End(c) + 1 => S = 1)
      BY <1>2, NextPoint
    <3> QED  BY <1>5, <1>7, <3>1
  <2>2. cursor' = CursorAt(c, 1, 1) /\ iteration' = 1
    BY <1>1, <1>2, <2>1, AdvanceStep
  <2>3. Captured(c, End(c) + 1, 1)'
    BY <1>3, <2>1
  <2> HIDE DEF X, S
  <2>4. 1 \in 1..End(c) /\ 1 \in 1..NL(c, 1) /\ cursor' = Start(c)
    BY <2>2, FirstForward, StartIs
  <2>5. cursor'.pos = 1 /\ cursor'.step = 1
    BY <2>2 DEF CursorAt
  <2>6. CursorRight(c)'
    BY <2>2, <2>4, <2>5 DEF CursorRight
  <2>7. Replayed(c, 1, 1, 1)'
    <3>1. /\ PoolRight(c, content', 1, 1, 1) /\ InputsRight(c, inputs', 1, 1, 1)
          /\ OwedRight(c, inputs', gradOut', gradOutputs', 1, 1) /\ SendingRight(c, content', {}, <<>>, 1, 1, 1)
      BY PoolFresh
    <3>2. GradsRight(c, grads', 1, 1, 1)
      BY <1>1, <1>2, GradsFresh
    <3>3. sending'.out = {} /\ sending'.gin = <<>> /\ sent' = {}
      BY <1>1, <1>2
    <3> QED  BY <3>1, <3>2, <3>3 DEF Replayed
  <2>8. ProgressRight(c)'
    <3>1. Replayed(c, 1, cursor.pos, cursor.step)'
      BY <2>5, <2>7
    <3> QED  BY <1>1, <1>2, <2>2, <2>3, <3>1 DEF ProgressRight
  <2>9. iteration' \in 0..Iterations + 1
    BY <1>5, <2>2
  <2> QED  BY <1>1, <1>2, <1>4, <2>6, <2>8, <2>9 DEF InvOf
<1> QED  BY <1>6, <1>7

\* A capture that is refused.
LEMMA RaiseKeeps ==
  ASSUME NEW c \in Configs, InvOf(c), config = c, BackwardRaises \/ WgradRaises
  PROVE  InvOf(c)'
<1>1. raised' = TRUE /\ iteration = 0
  BY DEF BackwardRaises, WgradRaises, Capturing, Raise
<1>2. /\ sample' = sample /\ iteration' = iteration /\ cursor' = cursor
      /\ graphs' = graphs /\ live' = live /\ lastGrad' = lastGrad /\ store' = store /\ dwOf' = dwOf
      /\ gradOut' = gradOut
      /\ content' = content /\ inputs' = inputs /\ gradOutputs' = gradOutputs /\ sending' = sending
      /\ sent' = sent /\ grads' = grads
  BY DEF BackwardRaises, WgradRaises, Raise, capturing, replaying
<1>3. ~Legal(c)
  <2>1. Captured(c, cursor.pos, cursor.step) /\ cursor.pos \in 1..End(c) /\ cursor.step \in 1..NL(c, cursor.pos)
        /\ cursor = CursorAt(c, cursor.pos, cursor.step)
    BY <1>1 DEF InvOf, CursorRight, ProgressRight
  <2> QED  BY <2>1, RaiseIllegal
<1>4. Typed(c)' /\ CursorRight(c)'
  BY <1>2 DEF InvOf, Typed, CursorRight
<1>5. ProgressRight(c)'
  BY <1>1, <1>2 DEF InvOf, ProgressRight, Captured
<1> QED  BY <1>1, <1>2, <1>3, <1>4, <1>5 DEF InvOf

\* A pass of an iteration.
LEMMA ReplayKeeps ==
  ASSUME NEW c \in Configs, InvOf(c), config = c, ReplayForward \/ ReplayBackward \/ ReplayWgrad,
         NEW x, x = cursor.pos, NEW s, s = cursor.step, NEW it, it = iteration
  PROVE  InvOf(c)'
<1> DEFINE X == NextX(c, x, s)
           S == NextS(c, x, s)
<1>1. /\ sample' = sample /\ raised' = raised /\ Advance /\ it \in 1..Iterations /\ ~raised
      /\ graphs' = graphs /\ live' = live /\ lastGrad' = lastGrad /\ store' = store /\ dwOf' = dwOf
      /\ gradOut' = gradOut
  BY DEF ReplayForward, ReplayBackward, ReplayWgrad, Replaying, capturing
<1>2. /\ sample = SampleArgs(c) /\ x \in 1..End(c) /\ s \in 1..NL(c, x) /\ cursor = CursorAt(c, x, s)
  BY DEF InvOf, CursorRight
<1>3. Typed(c)' /\ Replayed(c, it, X, S)'
  BY ReplaysForward, ReplaysBackward, ReplaysWgrad
<1>4. Iterations \in Nat \ {0} /\ End(c) \in Nat \ {0} /\ it \in Nat \ {0} /\ it <= Iterations
  BY <1>1, IterationsAssumption, ConfigFacts
<1>5. Captured(c, End(c) + 1, 1)'
  BY <1>1, <1>4 DEF InvOf, ProgressRight, Captured
<1>6. CASE X <= End(c)
  <2>1. cursor' = CursorAt(c, X, S) /\ iteration' = it
    BY <1>2, <1>1, <1>6, AdvanceStep
  <2>2. X \in 1..End(c) /\ S \in 1..NL(c, X)
    <3>1. X \in 1..End(c) + 1 /\ (X \in 1..End(c) => S \in 1..NL(c, X))
      BY <1>2, NextPoint
    <3> QED  BY <1>4, <1>6, <3>1
  <2>3. ~(X = 1 /\ S = 1)
    <3>1. x \in Nat \ {0} /\ s \in Nat \ {0}
      BY <1>2, PointFacts
    <3> QED  BY <3>1 DEF NextX, NextS
  <2> HIDE DEF X, S
  <2>4. cursor'.pos = X /\ cursor'.step = S
    BY <2>1 DEF CursorAt
  <2>5. CursorRight(c)'
    BY <2>1, <2>2, <2>4 DEF CursorRight
  <2>6. cursor' # Start(c)
    <3>1. Start(c).pos = 1 /\ Start(c).step = 1
      BY DEF Start
    <3> QED  BY <2>3, <2>4, <3>1
  <2>7. Replayed(c, it, cursor.pos, cursor.step)'
    BY <1>3, <2>4
  <2>8. ProgressRight(c)'
    BY <1>4, <1>5, <2>1, <2>6, <2>7 DEF ProgressRight
  <2>9. iteration' \in 0..Iterations + 1
    BY <1>4, <2>1
  <2> QED  BY <1>1, <1>2, <1>3, <2>5, <2>8, <2>9 DEF InvOf
<1>7. CASE ~(X <= End(c))
  <2>1. X = End(c) + 1 /\ S = 1
    <3>1. X \in 1..End(c) + 1 /\ (X = End(c) + 1 => S = 1)
      BY <1>2, NextPoint
    <3> QED  BY <1>4, <1>7, <3>1
  <2>2. cursor' = CursorAt(c, 1, 1) /\ iteration' = it + 1
    BY <1>1, <1>2, <2>1, AdvanceStep
  <2>3. Replayed(c, it, End(c) + 1, 1)'
    BY <1>3, <2>1
  <2> HIDE DEF X, S
  <2>4. 1 \in 1..End(c) /\ 1 \in 1..NL(c, 1) /\ cursor' = Start(c)
    BY <2>2, FirstForward, StartIs
  <2>5. cursor'.pos = 1 /\ cursor'.step = 1
    BY <2>2 DEF CursorAt
  <2>6. CursorRight(c)'
    BY <2>2, <2>4, <2>5 DEF CursorRight
  <2>7. iteration' > 1 /\ iteration' # 0 /\ iteration' # 1 /\ iteration' - 1 = it
    BY <1>4, <2>2
  <2>8. ProgressRight(c)'
    BY <1>5, <2>3, <2>4, <2>7 DEF ProgressRight
  <2>9. iteration' \in 0..Iterations + 1
    BY <1>4, <2>2
  <2> QED  BY <1>1, <1>2, <1>3, <2>6, <2>8, <2>9 DEF InvOf
<1> QED  BY <1>6, <1>7

LEMMA InvStep == Inv /\ [Next]_vars => Inv'
<1> SUFFICES ASSUME Inv, [Next]_vars  PROVE Inv'
  OBVIOUS
<1>1. PICK c : c = config
  OBVIOUS
<1>2. c \in Configs /\ InvOf(c) /\ config = c
  BY <1>1 DEF Inv
<1>3. config' = c
  BY <1>2 DEF Next, vars, CaptureForward, CaptureBackward, BackwardRaises, CaptureWgrad, WgradRaises, Raise,
     ReplayForward, ReplayBackward, ReplayWgrad, SendOutput, SendGradient
<1>4. PICK x, s, it : x = cursor.pos /\ s = cursor.step /\ it = iteration
  OBVIOUS
<1>5. InvOf(c)'
  <2>1. CASE CaptureForward \/ CaptureBackward \/ CaptureWgrad
    BY <1>2, <1>4, <2>1, CaptureKeeps
  <2>2. CASE BackwardRaises \/ WgradRaises
    BY <1>2, <2>2, RaiseKeeps
  <2>3. CASE ReplayForward \/ ReplayBackward \/ ReplayWgrad
    BY <1>2, <1>4, <2>3, ReplayKeeps
  <2>4. CASE SendOutput \/ SendGradient
    BY <1>2, <2>4, SendKeeps
  <2>5. CASE vars' = vars
    <3>1. /\ sample' = sample /\ iteration' = iteration /\ cursor' = cursor /\ raised' = raised
          /\ capturing' = capturing /\ replaying' = replaying
      BY <2>5 DEF vars
    <3>2. /\ graphs' = graphs /\ live' = live /\ lastGrad' = lastGrad /\ store' = store /\ dwOf' = dwOf
          /\ gradOut' = gradOut
      BY <3>1 DEF capturing
    <3>3. /\ content' = content /\ inputs' = inputs /\ gradOutputs' = gradOutputs /\ sending' = sending
          /\ sent' = sent /\ grads' = grads
      BY <3>1 DEF replaying
    <3>4. Typed(c)' /\ CursorRight(c)'
      BY <1>2, <3>1, <3>3 DEF InvOf, Typed, CursorRight
    <3>5. \A y, t : Captured(c, y, t) => Captured(c, y, t)'
      BY <3>2 DEF Captured
    <3>6. \A i, y, t : Replayed(c, i, y, t) => Replayed(c, i, y, t)'
      BY <3>2, <3>3 DEF Replayed
    <3>7. ProgressRight(c)'
      BY <1>2, <3>1, <3>3, <3>5, <3>6 DEF InvOf, ProgressRight
    <3> QED  BY <1>2, <3>1, <3>4, <3>7 DEF InvOf
  <2> QED  BY <2>1, <2>2, <2>3, <2>4, <2>5 DEF Next
<1>6. (config \in Configs)' /\ InvOf(config)'
  BY <1>2, <1>3, <1>5
<1> QED  BY <1>6 DEF Inv

LEMMA InvAlways == Spec => []Inv
  BY InvInit, InvStep, PTL DEF Spec

-----------------------------------------------------------------------------
(* What follows.                                                              *)

LEMMA InvLegal ==
  ASSUME NEW c \in Configs, InvOf(c), config = c, iteration > 0
  PROVE  Legal(c)
<1>1. Captured(c, End(c) + 1, 1)
  BY DEF InvOf, ProgressRight
<1>2. \A y \in 1..(End(c) + 1) - 1 : AcceptedAt(c, y)
  BY <1>1 DEF Captured
<1>3. (End(c) + 1) - 1 = End(c)
  BY ConfigFacts
<1> QED  BY <1>2, <1>3, AcceptedLegal

\* Whatever the schedule, every value in a static buffer or in the pool, every weight gradient
\* added up and every entry of a weight gradient store is that of a callable of the schedule:
\* make_graphed_callables and the replays never index outside it.
THEOREM GraphsTypeOK == Spec => []TypeOK
<1>1. Inv => TypeOK
  <2> SUFFICES ASSUME Inv  PROVE TypeOK
    OBVIOUS
  <2>1. PICK c : c = config
    OBVIOUS
  <2>2. c \in Configs /\ InvOf(c) /\ config = c
    BY <2>1 DEF Inv
  <2>3. sample \in [CallablesOf(c) -> CallablesOf(c)]
    BY <2>2, SampleType DEF InvOf
  <2>4. iteration = 0 \/ iteration > 0
    BY <2>2, IterationsAssumption DEF InvOf
  <2>5. PICK x, s : Captured(c, x, s)
    BY <2>2, <2>4 DEF InvOf, ProgressRight
  <2>6. /\ Callables = CallablesOf(c) /\ ModuleLayers = LayersOf(c) /\ DOMAIN content = Tensors(c) /\ Values = ValuesOf(c)
    BY <2>2, <2>3, <2>5 DEF Callables, ModuleLayers, InvOf, Typed, Captured, Values, ValuesOf
  <2>7. iteration \in 0..Iterations + 1 /\ raised \in BOOLEAN
    BY <2>2 DEF InvOf
  <2>8. \A f \in {sample, gradOut, dwOf} : Range(f) \subseteq Callables
    BY <2>3, <2>5, <2>6 DEF Captured, Range
  <2>9. live \subseteq DOMAIN content /\ lastGrad \subseteq Callables
    <3>1. live \subseteq Tensors(c) /\ lastGrad = LastGrad(c, x) /\ Needed(c, x, s) \subseteq live
      BY <2>5 DEF Captured, AllocRight
    <3>2. ASSUME NEW i \in lastGrad  PROVE i \in CallablesOf(c)
      <4>1. <<"gin", i>> \in Needed(c, x, s)
        BY <3>1 DEF Needed, NeedGin
      <4>2. <<"gin", i>> \in {"out", "saved", "gin"} \X CallablesOf(c)
        BY <3>1, <4>1 DEF Tensors
      <4> QED  BY <4>2
    <3>3. lastGrad \subseteq CallablesOf(c)
      BY <3>2
    <3> QED  BY <2>6, <3>1, <3>3
  <2>10. \A g \in DOMAIN graphs : g \in Passes \X Callables /\ graphs[g] \subseteq DOMAIN content
    BY <2>5, <2>6 DEF Captured, GraphsRight
  <2>11. \A m \in ModuleLayers : store[m] \in Seq(Callables) /\ grads[m] \in Seq(Values)
    BY <2>2, <2>5, <2>6 DEF Captured, StoreRight, InvOf, Typed
  <2>12. \A f \in {content, inputs, gradOutputs} : Range(f) \subseteq Values
    BY <2>2, <2>6 DEF InvOf, Typed, Range
  <2>13. sending.out \subseteq Callables /\ sending.gin \in Seq(Callables)
    BY <2>2, <2>6 DEF InvOf, Typed
  <2> QED  BY <2>7, <2>8, <2>9, <2>10, <2>11, <2>12, <2>13 DEF TypeOK
<1> QED  BY <1>1, InvAlways, PTL

\* The checks of the capture, on the passes that follow, on the graph and on the store, let
\* exactly the schedules through in which dgrads and wgrads of a chunk alternate.
THEOREM AcceptsExactly == Spec => []AcceptsAlternating
<1>1. Inv => AcceptsAlternating
  <2> SUFFICES ASSUME Inv  PROVE AcceptsAlternating
    OBVIOUS
  <2>1. config \in Configs /\ InvOf(config)
    BY DEF Inv
  <2>2. raised => ~Legal(config)
    BY <2>1 DEF InvOf
  <2>3. iteration > 0 => Legal(config)
    BY <2>1, InvLegal
  <2> QED  BY <2>2, <2>3 DEF AcceptsAlternating, Legal
<1> QED  BY <1>1, InvAlways, PTL

\* Whatever the schedule, the sharing of static buffers and the delay of the sends, what is sent
\* to another stage is the output or input gradient of its microbatch in this iteration.
THEOREM SentRight == Spec => []SentExact
<1>1. Inv => SentExact
  <2> SUFFICES ASSUME Inv  PROVE SentExact
    OBVIOUS
  <2>1. PICK c : c = config
    OBVIOUS
  <2>2. c \in Configs /\ InvOf(c) /\ config = c
    BY <2>1 DEF Inv
  <2>3. iteration \in Nat /\ (iteration = 0 \/ iteration = 1 \/ iteration > 1)
    BY <2>2, IterationsAssumption DEF InvOf
  <2>4. CASE iteration = 0 \/ (iteration = 1 /\ cursor = Start(c))
    <3>1. sent = {}
      BY <2>2, <2>4 DEF InvOf, ProgressRight
    <3> QED  BY <3>1 DEF SentExact
  <2>5. CASE iteration > 0 /\ cursor # Start(c)
    <3>1. Replayed(c, iteration, cursor.pos, cursor.step)
      BY <2>2, <2>3, <2>5 DEF InvOf, ProgressRight
    <3>2. \A e \in sent : SentIs(iteration, e)
      BY <3>1 DEF Replayed
    <3> QED  BY <2>2, <2>5, <3>2 DEF SentExact, SentIs
  <2>6. CASE iteration > 1 /\ cursor = Start(c)
    <3>1. Replayed(c, iteration - 1, End(c) + 1, 1)
      BY <2>2, <2>6 DEF InvOf, ProgressRight
    <3>2. \A e \in sent : SentIs(iteration - 1, e)
      BY <3>1 DEF Replayed
    <3> QED  BY <2>2, <2>6, <3>2 DEF SentExact, SentIs
  <2> QED  BY <2>3, <2>4, <2>5, <2>6
<1> QED  BY <1>1, InvAlways, PTL

\* The weight gradients of an iteration are complete and each is computed from the values of
\* its own microbatch, unless static buffers are shared and a delayed wgrad does not come
\* right behind its dgrad.
THEOREM PromptGradientsExact == Spec => [](Prompt(config) => GradientsExact)
<1>1. Inv => (Prompt(config) => GradientsExact)
  <2> SUFFICES ASSUME Inv, Prompt(config), IterationOver, NEW m \in ModuleLayers
               PROVE  /\ Len(grads[m]) = MicrobatchesOf(config)
                      /\ {grads[m][n] : n \in DOMAIN grads[m]}
                           = {<<iteration - 1, m[1], n>> : n \in 0..MicrobatchesOf(config) - 1}
    BY DEF GradientsExact
  <2>1. PICK c : c = config
    OBVIOUS
  <2>2. c \in Configs /\ InvOf(c) /\ config = c /\ Prompt(c)
    BY <2>1 DEF Inv
  <2>3. iteration \in Nat /\ iteration > 1 /\ iteration > 0 /\ cursor = Start(c)
    BY <2>2, IterationsAssumption DEF InvOf, IterationOver
  <2>4. Replayed(c, iteration - 1, End(c) + 1, 1) /\ Captured(c, End(c) + 1, 1) /\ Legal(c)
    BY <2>2, <2>3, InvLegal DEF InvOf, ProgressRight
  <2>5. m \in LayersOf(c)
    BY <2>4 DEF ModuleLayers, Captured
  <2> DEFINE q == grads[m]
             M == MicrobatchesOf(c)
             i == iteration - 1
  <2>6. /\ q \in Seq(Nat \X Nat \X Int) /\ Len(q) = Cnt(c, m, End(c) + 1, 1)
        /\ \A n \in 1..Len(q) : q[n] = <<i, m[1], n - 1>>
    BY <2>2, <2>4, <2>5 DEF Replayed, GradsRight
  <2>7. Len(q) = M
    BY <2>2, <2>4, <2>5, <2>6, CntEnd
  <2>8. DOMAIN q = 1..M /\ M \in Nat
    BY <2>6, <2>7
  <2> HIDE DEF q, M, i
  <2>9. {q[n] : n \in DOMAIN q} = {<<i, m[1], n>> : n \in 0..M - 1}
    <3>1. ASSUME NEW n \in DOMAIN q  PROVE q[n] \in {<<i, m[1], l>> : l \in 0..M - 1}
      <4>1. n - 1 \in 0..M - 1 /\ q[n] = <<i, m[1], n - 1>>
        BY <2>6, <2>7, <2>8, <3>1
      <4> QED  BY <4>1
    <3>2. ASSUME NEW n \in 0..M - 1  PROVE <<i, m[1], n>> \in {q[l] : l \in DOMAIN q}
      <4>1. n + 1 \in DOMAIN q /\ (n + 1) - 1 = n
        BY <2>8, <3>2
      <4>2. q[n + 1] = <<i, m[1], n>>
        BY <2>6, <2>7, <2>8, <4>1
      <4> QED  BY <4>1, <4>2
    <3> QED  BY <3>1, <3>2
  <2> QED  BY <2>2, <2>7, <2>9 DEF q, M, i
<1> QED  BY <1>1, InvAlways, PTL

-----------------------------------------------------------------------------
(* How many static inputs there are.                                          *)

\* Of one shape: the callables between their forward and their backward, and all samples used.
Out(c, w, x) == {i \in Seen(c, x) : i \notin Over(c, x) /\ KeyOf(c, i) = w}
Used(c, q, w, x) == {q.sample[i] : i \in {j \in Seen(c, x) : KeyOf(c, j) = w}}

LEMMA ImageFinite ==
  ASSUME NEW S, NEW T, IsFiniteSet(S), NEW f \in [S -> T], \A t \in T : \E s \in S : f[s] = t
  PROVE  IsFiniteSet(T)
<1>1. f \in Surjection(S, T)
  BY DEF Surjection
<1> QED  BY <1>1, FS_Surjection

LEMMA CallablesFinite ==
  ASSUME NEW c \in Configs
  PROVE  IsFiniteSet(CallablesOf(c))
<1> DEFINE M == 0..MicrobatchesOf(c) - 1
           F == [k \in ChunksOf(c) |-> {<<k, m, l>> : m \in M, l \in 1..c.layers[k]}]
           Parts == {F[k] : k \in ChunksOf(c)}
<1>1. MicrobatchesOf(c) \in Nat /\ IsFiniteSet(M)
  <2>1. MicrobatchesOf(c) \in Nat
    BY FirstForward, OrderAt, Totals
  <2> QED  BY <2>1, FS_Interval
<1>2. IsFiniteSet(ChunksOf(c))
  <2>1. c.layers \in Seq(Nat \ {0})
    BY ConfigsAssumption
  <2>2. Len(c.layers) \in Nat /\ ChunksOf(c) = 1..Len(c.layers)
    BY <2>1 DEF ChunksOf
  <2> QED  BY <2>2, FS_Interval
<1> HIDE DEF M
<1>3. ASSUME NEW k \in ChunksOf(c)  PROVE IsFiniteSet(F[k])
  <2> DEFINE S == M \X (1..c.layers[k])
             T == {<<k, m, l>> : m \in M, l \in 1..c.layers[k]}
             f == [s \in S |-> <<k, s[1], s[2]>>]
  <2>1. IsFiniteSet(S)
    <3>1. IsFiniteSet(1..c.layers[k])
      <4>1. c.layers[k] \in Int /\ 1 \in Int
        BY ConfigFacts
      <4> QED  BY <4>1, FS_Interval
    <3> QED  BY <1>1, <3>1, FS_Product
  <2>2. f \in [S -> T]
    OBVIOUS
  <2>3. ASSUME NEW t \in T  PROVE \E s \in S : f[s] = t
    <3>1. PICK m \in M, l \in 1..c.layers[k] : t = <<k, m, l>>
      OBVIOUS
    <3>2. <<m, l>> \in S /\ f[<<m, l>>] = t
      BY <3>1
    <3> QED  BY <3>2
  <2>4. F[k] = T
    OBVIOUS
  <2> HIDE DEF S, T, f, F
  <2> QED  BY <2>1, <2>2, <2>3, <2>4, ImageFinite
<1>4. F \in [ChunksOf(c) -> Parts] /\ \A t \in Parts : \E k \in ChunksOf(c) : F[k] = t
  OBVIOUS
<1>5. CallablesOf(c) = UNION Parts
  BY DEF CallablesOf, M
<1> HIDE DEF F
<1>6. IsFiniteSet(Parts)
  <2> HIDE DEF Parts
  <2> QED  BY <1>2, <1>4, ImageFinite
<1>7. \A t \in Parts : IsFiniteSet(t)
  BY <1>3
<1> HIDE DEF Parts
<1> QED  BY <1>5, <1>6, <1>7, FS_UNION

LEMMA OutFinite ==
  ASSUME NEW w, NEW x, NEW c \in Configs
  PROVE  IsFiniteSet(Out(c, w, x)) /\ IsFiniteSet({j \in Seen(c, x) : KeyOf(c, j) = w})
<1>1. Out(c, w, x) \in SUBSET CallablesOf(c) /\ {j \in Seen(c, x) : KeyOf(c, j) = w} \in SUBSET CallablesOf(c)
  BY DEF Out, Seen
<1> QED  BY <1>1, CallablesFinite, FS_Subset

\* A set of samples that one set of callables holds, each its own.
LEMMA OwnSample ==
  ASSUME NEW S, NEW T, NEW h, IsFiniteSet(S), \A s \in S : h[s] \in T, \A t \in T : \E s \in S : h[s] = t,
         \A s, t \in S : h[s] = h[t] => s = t
  PROVE  Cardinality(S) = Cardinality(T)
<1> DEFINE f == [s \in S |-> h[s]]
<1>1. f \in [S -> T] /\ (\A t \in T : \E s \in S : f[s] = t) /\ \A s, t \in S : f[s] = f[t] => s = t
  OBVIOUS
<1> HIDE DEF f
<1>2. f \in Surjection(S, T) /\ f \in Injection(S, T)
  BY <1>1 DEF Surjection, Injection, IsInjective
<1> QED  BY <1>2, FS_Surjection

LEMMA StepReuses ==
  ASSUME NEW w, NEW c \in Configs, NEW x \in 1..End(c), NEW q, FoldInv(c, q, x),
         NEW r, r = ReorganizeStep(c, q, c.order[x]), w \in Keys(c)
  PROVE  Reuses(c, q, r, x, w) \/ r.consumed[w] = <<>>
<1> DEFINE k == c.order[x].chunk
<1>1. c.order[x].pass \in Passes /\ k \in ChunksOf(c) /\ c.order[x] = Pass(c.order[x].pass, k)
  BY OrderAt
<1> HIDE DEF k
<1>2. CASE c.order[x].pass = "fwd"
  <2>1. r = TakeSamples(c, q, k)
    BY <1>2 DEF ReorganizeStep, k
  <2>2. c.order[x] = Pass("fwd", k)
    BY <1>1, <1>2
  <2>3. \A v \in Keys(c) : Reuses(c, q, r, x, v) \/ r.consumed[v] = <<>>
    BY <1>1, <2>1, <2>2, FoldForward
  <2> QED  BY <2>3
<1>3. CASE c.order[x].pass # "fwd"
  <2>1. \A i \in Seen(c, x + 1) : i \in Seen(c, x)
    <3> TAKE i \in Seen(c, x + 1)
    <3>1. i \in CallablesOf(c)
      BY DEF Seen
    <3> QED  BY <1>3, <3>1, SeenStep, PassIs
  <2>2. \A i \in Seen(c, x) : r.sample[i] = q.sample[i]
    BY FoldStep
  <2> QED  BY <2>1, <2>2 DEF Reuses
<1> QED  BY <1>2, <1>3

\* At some point all samples that have been used are in use.
LEMMA AllInUse ==
  ASSUME NEW w, NEW c \in Configs, NEW x \in 0..End(c), w \in Keys(c)
  PROVE  \E y \in 1..x + 1 : Cardinality(Out(c, w, y)) = Cardinality(Used(c, Reorganized(c)[x], w, x + 1))
<1> DEFINE f == Reorganized(c)
           Reached(y) == \E z \in 1..y + 1 : Cardinality(Out(c, w, z)) = Cardinality(Used(c, f[y], w, y + 1))
           T == {y \in 0..End(c) : Reached(y)}
<1>1. End(c) \in Nat
  BY ConfigFacts
<1>2. \A y \in 1..End(c) : f[y] = ReorganizeStep(c, f[y - 1], c.order[y])
  BY ReorganizedIs
<1> HIDE DEF f
<1>3. 0 \in T
  <2>1. Seen(c, 1) = {}
    <3>1. \A i \in CallablesOf(c) : ~(i[2] < 0)
      <4> TAKE i \in CallablesOf(c)
      <4>1. i[2] \in 0..MicrobatchesOf(c) - 1
        BY CallableIs
      <4> QED  BY <4>1
    <3>2. \A k : N(c, "fwd", k, 1) = 0
      BY CountFirst
    <3> QED  BY <3>1, <3>2 DEF Seen
  <2>2. Out(c, w, 1) = {} /\ Used(c, f[0], w, 1) = {}
    BY <2>1 DEF Out, Used
  <2>3. 0 + 1 = 1 /\ 1 \in 1..1 /\ 0 \in 0..End(c)
    BY <1>1
  <2> QED  BY <2>2, <2>3
<1>4. ASSUME NEW y \in 0..End(c) - 1, y \in T  PROVE y + 1 \in T
  <2> DEFINE q == f[y]
             r == f[y + 1]
             u == y + 1
  <2>1. u \in 1..End(c) /\ u - 1 = y /\ u \in 0..End(c) /\ y \in 0..End(c) /\ u + 1 \in Nat /\ u \in Nat
    BY <1>1
  <2>2. r = ReorganizeStep(c, q, c.order[u]) /\ FoldInv(c, q, u) /\ FoldInv(c, r, u + 1)
    <3>1. FoldInv(c, f[y], y + 1) /\ FoldInv(c, f[u], u + 1)
      BY <2>1, FoldAll DEF f
    <3>2. f[u] = ReorganizeStep(c, f[u - 1], c.order[u])
      BY <1>2, <2>1
    <3> QED  BY <2>1, <3>1, <3>2
  <2>3. PICK z \in 1..y + 1 : Cardinality(Out(c, w, z)) = Cardinality(Used(c, f[y], w, y + 1))
    BY <1>4
  <2> HIDE DEF q, r
  <2>4. CASE Reuses(c, q, r, u, w)
    <3>1. \A i \in Seen(c, u) : i \in Seen(c, u + 1) /\ r.sample[i] = q.sample[i]
      <4>1. \A i \in Seen(c, u) : r.sample[i] = q.sample[i]
        BY ONLY c \in Configs, <2>1, <2>2, FoldStep
      <4>2. ASSUME NEW i \in Seen(c, u)  PROVE i \in Seen(c, u + 1)
        <5>1. i \in CallablesOf(c)
          BY DEF Seen
        <5> QED  BY <2>1, <5>1, SeenStep
      <4> QED  BY <4>1, <4>2
    <3>2. ASSUME NEW v \in Used(c, r, w, u + 1)  PROVE v \in Used(c, q, w, u)
      <4>1. PICK i \in Seen(c, u + 1) : KeyOf(c, i) = w /\ v = r.sample[i]
        BY DEF Used
      <4>2. PICK j \in Seen(c, u) : KeyOf(c, j) = w /\ q.sample[j] = r.sample[i]
        BY <2>4, <4>1 DEF Reuses
      <4> QED  BY <4>1, <4>2 DEF Used
    <3>3. ASSUME NEW v \in Used(c, q, w, u)  PROVE v \in Used(c, r, w, u + 1)
      <4>1. PICK i \in Seen(c, u) : KeyOf(c, i) = w /\ v = q.sample[i]
        BY DEF Used
      <4> QED  BY <3>1, <4>1 DEF Used
    <3>4. Used(c, r, w, u + 1) = Used(c, q, w, u)
      BY <3>2, <3>3
    <3>5. z \in 1..u + 1
      BY <2>1
    <3>6. Cardinality(Out(c, w, z)) = Cardinality(Used(c, f[u], w, u + 1))
      BY <2>3, <3>4 DEF q, r
    <3> QED  BY <2>1, <3>5, <3>6
  <2>5. CASE r.consumed[w] = <<>>
    <3> DEFINE S == Out(c, w, u + 1)
               V == Used(c, r, w, u + 1)
    <3>1. IsFiniteSet(S)
      BY OutFinite
    <3>2. \A s \in S : r.sample[s] \in V
      BY DEF Out, Used
    <3>3. ASSUME NEW v \in V  PROVE \E s \in S : r.sample[s] = v
      <4>1. PICK i \in Seen(c, u + 1) : KeyOf(c, i) = w /\ v = r.sample[i]
        BY DEF Used
      <4>2. PICK j \in CallablesOf(c) : Holder(c, r, u + 1, i, j)
        BY <2>2 DEF FoldInv, SampleKept
      <4>3. ~Free(c, r, j)
        <5>1. KeyOf(c, j) = w /\ DOMAIN r.consumed[w] = {}
          BY <2>5, <4>1, <4>2 DEF Holder
        <5> QED  BY <5>1 DEF Free
      <4>4. j \in S
        BY <4>1, <4>2, <4>3 DEF Holder, Holds, Out
      <4> QED  BY <4>1, <4>2, <4>4 DEF Holder
    <3>4. ASSUME NEW s \in S, NEW t \in S, r.sample[s] = r.sample[t]  PROVE s = t
      <4>1. s \in CallablesOf(c) /\ t \in CallablesOf(c) /\ Holds(c, r, u + 1, s) /\ Holds(c, r, u + 1, t)
        BY DEF Out, Seen, Holds
      <4> QED  BY <2>2, <3>4, <4>1 DEF FoldInv, SampleDistinct
    <3> HIDE DEF S, V
    <3>5. Cardinality(S) = Cardinality(V)
      <4> DEFINE h == r.sample
      <4>1. /\ \A s \in S : h[s] \in V
            /\ \A t \in V : \E s \in S : h[s] = t
            /\ \A s, t \in S : h[s] = h[t] => s = t
        BY <3>2, <3>3, <3>4
      <4> HIDE DEF h
      <4> QED  BY <3>1, <4>1, OwnSample
    <3>6. u + 1 \in 1..u + 1
      BY <2>1
    <3>7. Cardinality(Out(c, w, u + 1)) = Cardinality(Used(c, f[u], w, u + 1))
      BY <3>5 DEF S, V, r
    <3> QED  BY <2>1, <3>6, <3>7
  <2>6. Reuses(c, q, r, u, w) \/ r.consumed[w] = <<>>
    BY ONLY c \in Configs, w \in Keys(c), <2>1, <2>2, StepReuses
  <2> QED  BY <2>4, <2>5, <2>6
<1> HIDE DEF T
<1>5. 0..End(c) \subseteq T
  BY <1>1, <1>3, <1>4, PositionInduction
<1>6. x \in T
  BY <1>5
<1> QED  BY <1>6 DEF T, f

\* No more forwards of a shape can be outstanding than there are static inputs.
LEMMA OutAtMost ==
  ASSUME NEW w, NEW c \in Configs, NEW x \in 1..End(c) + 1, NEW U,
         U = {SampleArgs(c)[i] : i \in {j \in CallablesOf(c) : KeyOf(c, j) = w}}
  PROVE  Cardinality(Out(c, w, x)) <= Cardinality(U)
<1> DEFINE h == SampleArgs(c)
           S == Out(c, w, x)
           f == [i \in S |-> h[i]]
<1>1. IsFiniteSet(U)
  <2> DEFINE A == {j \in CallablesOf(c) : KeyOf(c, j) = w}
             g == [i \in A |-> h[i]]
  <2>1. IsFiniteSet(A)
    <3>1. A \in SUBSET CallablesOf(c)
      OBVIOUS
    <3> QED  BY <3>1, CallablesFinite, FS_Subset
  <2>2. g \in [A -> U] /\ \A u \in U : \E i \in A : g[i] = u
    OBVIOUS
  <2> HIDE DEF A, g
  <2> QED  BY <2>1, <2>2, ImageFinite
<1>2. \A i \in S : i \in Seen(c, x) /\ i \notin Over(c, x) /\ KeyOf(c, i) = w /\ i \in CallablesOf(c)
  BY DEF Out, Seen
<1>3. ASSUME NEW i \in S, NEW j \in S, h[i] = h[j]  PROVE i = j
  BY <1>2, <1>3, SampleApart
<1>4. f \in [S -> U] /\ \A i, j \in S : f[i] = f[j] => i = j
  BY <1>2, <1>3
<1> HIDE DEF f, S
<1>5. f \in Injection(S, U)
  BY <1>4 DEF Injection, IsInjective
<1>6. Cardinality(S) <= Cardinality(U)
  BY <1>1, <1>5, FS_Injection
<1> QED  BY <1>6 DEF S

LEMMA SomeCallable ==
  ASSUME NEW c \in Configs, NEW k \in ChunksOf(c)
  PROVE  <<k, 0, 1>> \in CallablesOf(c)
<1> DEFINE f == c.order[1].chunk
<1>1. 1 \in 1..End(c) /\ f \in ChunksOf(c) /\ c.order[1] = Pass("fwd", f)
  <2>1. 1 \in 1..End(c) /\ c.order[1].pass = "fwd"
    BY FirstForward
  <2> QED  BY <2>1, OrderAt
<1> HIDE DEF f
<1>2. N(c, "fwd", f, 1) \in 0..MicrobatchesOf(c) - 1
  BY <1>1, CountAt
<1>3. MicrobatchesOf(c) \in Nat /\ 0 \in 0..MicrobatchesOf(c) - 1
  BY <1>2, Totals
<1>4. 1 \in 1..c.layers[k]
  BY ConfigFacts
<1>5. LET i == <<k, 0, 1>> IN i = <<i[1], i[2], i[3]>> /\ i[1] = k /\ i[2] = 0 /\ i[3] = 1
  OBVIOUS
<1> QED  BY <1>3, <1>4, <1>5, CallableIs

\* All forwards are seen in the end.
LEMMA SeenAll ==
  ASSUME NEW c \in Configs
  PROVE  Seen(c, End(c) + 1) = CallablesOf(c)
<1>1. ASSUME NEW i \in CallablesOf(c)  PROVE i \in Seen(c, End(c) + 1)
  <2>1. i[1] \in ChunksOf(c) /\ i[2] \in 0..MicrobatchesOf(c) - 1
    BY CallableIs
  <2>2. N(c, "fwd", i[1], End(c) + 1) = MicrobatchesOf(c) /\ MicrobatchesOf(c) \in Nat
    BY <2>1, Totals
  <2> QED  BY <2>1, <2>2 DEF Seen
<1> QED  BY <1>1 DEF Seen

\* And at some position as many are.
LEMMA OutReached ==
  ASSUME NEW w, NEW c \in Configs, w \in Keys(c), c.reuse, NEW U,
         U = {SampleArgs(c)[i] : i \in {j \in CallablesOf(c) : KeyOf(c, j) = w}}
  PROVE  \E x \in 1..End(c) : Cardinality(Out(c, w, x + 1)) = Cardinality(U)
<1>1. End(c) \in Nat /\ End(c) \in 0..End(c)
  BY ConfigFacts
<1> DEFINE q == Reorganized(c)[End(c)]
<1>2. Used(c, q, w, End(c) + 1) = U
  BY SeenAll, SampleArgsIs DEF Used
<1>3. PICK y \in 1..End(c) + 1 : Cardinality(Out(c, w, y)) = Cardinality(U)
  <2>1. \E y \in 1..End(c) + 1 : Cardinality(Out(c, w, y)) = Cardinality(Used(c, q, w, End(c) + 1))
    BY <1>1, AllInUse
  <2> QED  BY <1>2, <2>1
<1>4. y # 1
  <2> SUFFICES ASSUME y = 1  PROVE FALSE
    OBVIOUS
  <2>1. Out(c, w, y) = {}
    <3>1. Seen(c, 1) = {}
      <4>1. \A i \in CallablesOf(c) : ~(i[2] < 0)
        <5> TAKE i \in CallablesOf(c)
        <5>1. i[2] \in 0..MicrobatchesOf(c) - 1
          BY CallableIs
        <5> QED  BY <5>1
      <4>2. \A k : N(c, "fwd", k, 1) = 0
        BY CountFirst
      <4> QED  BY <4>1, <4>2 DEF Seen
    <3> QED  BY <3>1 DEF Out
  <2>2. Cardinality(U) = 0 /\ IsFiniteSet(U)
    <3> DEFINE A == {j \in CallablesOf(c) : KeyOf(c, j) = w}
               h == SampleArgs(c)
               g == [i \in A |-> h[i]]
    <3>1. IsFiniteSet(A)
      <4>1. A \in SUBSET CallablesOf(c)
        OBVIOUS
      <4> QED  BY <4>1, CallablesFinite, FS_Subset
    <3>2. g \in [A -> U] /\ \A u \in U : \E i \in A : g[i] = u
      OBVIOUS
    <3> HIDE DEF A, g
    <3>3. IsFiniteSet(U)
      BY <3>1, <3>2, ImageFinite
    <3> QED  BY <1>3, <2>1, <3>3, FS_EmptySet
  <2>3. U = {}
    BY <2>2, FS_EmptySet
  <2>4. PICK k \in ChunksOf(c) : w = c.shape[k]
    BY DEF Keys
  <2>5. <<k, 0, 1>> \in CallablesOf(c) /\ KeyOf(c, <<k, 0, 1>>) = w
    BY <2>4, SomeCallable DEF KeyOf
  <2> QED  BY <2>3, <2>5
<1>5. y - 1 \in 1..End(c) /\ (y - 1) + 1 = y
  BY <1>1, <1>4
<1> QED  BY <1>3, <1>5

\* Whatever the schedule, buffer sharing allocates per shape as many static inputs as there are
\* forwards outstanding at some point of the schedule, which is as few as is possible.
THEOREM SharingMinimal == Spec => []InputsMinimal
<1>1. Inv => InputsMinimal
  <2> SUFFICES ASSUME Inv, config.reuse  PROVE InputsMinimal
    BY DEF InputsMinimal
  <2>1. PICK c : c = config
    OBVIOUS
  <2>2. c \in Configs /\ InvOf(c) /\ c.reuse
    BY <2>1 DEF Inv
  <2>3. sample = SampleArgs(c) /\ Callables = CallablesOf(c) /\ DOMAIN c.order = 1..End(c)
    BY <2>2, SampleType, ConfigFacts DEF InvOf, Callables
  <2> DEFINE O(w, x) == {i \in {j \in Callables : config.shape[j[1]] = w} :
                           /\ Occurrences(config.order, Pass("bwd", i[1]), 1, x) <= i[2]
                           /\ i[2] < Occurrences(config.order, Pass("fwd", i[1]), 1, x)}
             U(w) == {sample[i] : i \in {j \in Callables : config.shape[j[1]] = w}}
  <2>4. ASSUME NEW w, NEW x \in 1..End(c)  PROVE O(w, x) = Out(c, w, x + 1)
    <3>1. x \in Int /\ (x + 1) - 1 = x /\ x + 1 \in Int
      OBVIOUS
    <3>2. \A p, k : N(c, p, k, x + 1) = Occurrences(c.order, Pass(p, k), 1, x)
      BY <3>1 DEF N
    <3>3. \A p, k : N(c, p, k, x + 1) \in Nat
      BY <3>1, CountType
    <3>4. \A i \in CallablesOf(c) : i[2] \in Int
      <4> TAKE i \in CallablesOf(c)
      <4>1. i[2] \in 0..MicrobatchesOf(c) - 1
        BY CallableIs
      <4> QED  BY <4>1
    <3> DEFINE B(i) == Occurrences(c.order, Pass("bwd", i[1]), 1, x)
               F(i) == Occurrences(c.order, Pass("fwd", i[1]), 1, x)
    <3>5. ASSUME NEW i \in CallablesOf(c)
          PROVE  i \in Out(c, w, x + 1) <=> c.shape[i[1]] = w /\ B(i) <= i[2] /\ i[2] < F(i)
      <4>1. i[2] \in Int /\ B(i) \in Nat /\ N(c, "bwd", i[1], x + 1) = B(i) /\ N(c, "fwd", i[1], x + 1) = F(i)
        BY <3>2, <3>3, <3>4
      <4> HIDE DEF B, F
      <4> QED  BY <4>1 DEF Out, Seen, Over, KeyOf
    <3>6. \A i : i \in Out(c, w, x + 1) => i \in CallablesOf(c)
      BY DEF Out, Seen
    <3>7. \A i : i \in O(w, x) <=> i \in CallablesOf(c) /\ c.shape[i[1]] = w /\ B(i) <= i[2] /\ i[2] < F(i)
      BY <2>1, <2>3
    <3> HIDE DEF B, F, O
    <3> QED  BY <3>5, <3>6, <3>7
  <2>5. ASSUME NEW w
        PROVE  U(w) = {SampleArgs(c)[i] : i \in {j \in CallablesOf(c) : KeyOf(c, j) = w}}
    BY <2>1, <2>3 DEF KeyOf
  <2> HIDE DEF O, U
  <2>6. ASSUME NEW w, w \in Keys(c)
        PROVE  /\ \A x \in 1..End(c) : Cardinality(O(w, x)) <= Cardinality(U(w))
               /\ \E x \in 1..End(c) : Cardinality(O(w, x)) = Cardinality(U(w))
    <3>1. ASSUME NEW x \in 1..End(c)  PROVE Cardinality(O(w, x)) <= Cardinality(U(w))
      <4>1. x + 1 \in 1..End(c) + 1
        <5>1. End(c) \in Nat
          BY <2>2, ConfigFacts
        <5> QED  BY <5>1
      <4> QED  BY <2>2, <2>4, <2>5, <4>1, OutAtMost
    <3>2. PICK x \in 1..End(c) : Cardinality(Out(c, w, x + 1)) = Cardinality(U(w))
      BY <2>2, <2>5, <2>6, OutReached
    <3> QED  BY <2>4, <3>1, <3>2
  <2>7. \A w \in {c.shape[k] : k \in ChunksOf(c)} :
          /\ \A x \in DOMAIN c.order : Cardinality(O(w, x)) <= Cardinality(U(w))
          /\ \E x \in DOMAIN c.order : Cardinality(O(w, x)) = Cardinality(U(w))
    BY <2>3, <2>6 DEF Keys
  <2>8. config.reuse /\ iteration = 0 /\ cursor = Start(config) =>
        \A w \in {config.shape[k] : k \in ChunksOf(config)} :
          /\ \A x \in DOMAIN config.order : Cardinality(O(w, x)) <= Cardinality(U(w))
          /\ \E x \in DOMAIN config.order : Cardinality(O(w, x)) = Cardinality(U(w))
    <3> HIDE DEF O, U
    <3> QED  BY ONLY <2>1, <2>7
  <2> QED  BY ONLY <2>8 DEF InputsMinimal, O, U
<1> QED  BY <1>1, InvAlways, PTL
=============================================================================
