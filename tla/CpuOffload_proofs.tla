-------------------------- MODULE CpuOffload_proofs --------------------------
(***************************************************************************)
(* Proofs about activation offloading, for every model, schedule, list of  *)
(* saved tensors and amount of memory, and however far the streams lag     *)
(* behind the host: no hook raises, the schedule keeps its promise about   *)
(* peak memory, nothing is held between passes, and in every order in      *)
(* which host, main stream and offload stream go on, the kernels of a      *)
(* backward read what the forward computed.  That last proof is about what *)
(* is queued: a read of a block is followed back to the write it will see. *)
(***************************************************************************)
EXTENDS CpuOffload, Integers, FiniteSetTheorems, SequenceTheorems, TLAPS

-----------------------------------------------------------------------------
(* The host *)

N == Len(Saves)
\* The tensors of a layer that are offloaded, and their buffers in pass p.
Offloadable == {Saves[j] : j \in {i \in 1..N : Saves[i] \notin Kept}}
Count == Cardinality(Offloadable)
Buffers(c, p, l) ==
  [n \in 1..Count |-> [layer |-> l, at |-> n, pass |-> IF c.retain THEN 0 ELSE p]]

Tensors == [block : Blocks, ready : Nat]
Items == [kind : {"tensor", "index"}, at : Nat]
States == {"not_offloaded", "offload_started", "offload_finished", "reload_started"}

\* push_tensor of the default schedule returns the tensors of layer l themselves.
Direct(c, l) == c.mode = "default" /\ ~(l < c.numLayers)

\* What each state of a layer says of its groups.
Typed(c, p, l, ly) ==
  ly \in [state : States, fwd : Seq(Tensors), cpu : {<<>>, Buffers(c, p, l)},
          bwd : Seq(Tensors), aux : Seq(1..Count), finished : Nat]
Shape(c, p, l, ly) ==
  /\ ly.state = "not_offloaded" => ly.bwd = <<>> /\ (c.retain \/ ly.cpu = <<>>)
  /\ ly.state # "not_offloaded" => ly.cpu = Buffers(c, p, l) /\ ~Direct(c, l)
  /\ ly.state = "offload_started" => ly.bwd = <<>> /\ Len(ly.fwd) = Count
  /\ ly.state = "offload_finished" => ly.fwd = <<>> /\ ly.bwd = <<>>
  /\ ly.state = "reload_started" => ly.fwd = <<>> /\ Len(ly.bwd) = Len(ly.aux)

\* The group that the indices of a layer point into.
Group(ly) == IF ly.state = "not_offloaded" THEN DOMAIN ly.fwd ELSE DOMAIN ly.aux

\* What the layer has saved: blocks, and indices into its group.
SavedAre(c, l, ly, sv) ==
  /\ sv \in Seq(Items) /\ Len(sv) <= N
  /\ \A j \in 1..Len(sv) :
       IF Direct(c, l) \/ Saves[j] \in Kept THEN sv[j].kind = "tensor" /\ sv[j].at \in Blocks
       ELSE sv[j].kind = "index" /\ sv[j].at \in Group(ly)

\* In a group still to be offloaded, a block stands for one tensor.
OneBlockEach(ly, sv) ==
  ly.state = "not_offloaded" =>
    \A i, j \in 1..Len(sv) : sv[i].kind = "index" /\ sv[j].kind = "index" =>
      ((ly.fwd[sv[i].at].block = ly.fwd[sv[j].at].block) <=> Saves[i] = Saves[j])

Good(c, p, l, ly, sv) ==
  Typed(c, p, l, ly) /\ Shape(c, p, l, ly) /\ SavedAre(c, l, ly, sv) /\ OneBlockEach(ly, sv)

\* Every member of the group belongs to something saved.
Covered(ly, sv) == \A i \in Group(ly) : \E j \in 1..Len(sv) : sv[j].kind = "index" /\ sv[j].at = i

IsIndex(l, j) == saved[l][j].kind = "index"
At(l, j) == saved[l][j].at

HostTyped ==
  /\ config \in Configs /\ pass \in Nat
  /\ numOfFwds \in Layers \cup {None}
  /\ previousBwd \in Layers \cup {None} /\ currentLayer \in Layers \cup {None}
  /\ pc \in {"idle", "forward", "hook", "unpack", "callback"}
  /\ k \in Nat /\ (pc \in {"forward", "unpack"} => k \in 1..N + 1)
  /\ DOMAIN layers = Layers /\ DOMAIN saved = Layers

\* The forward of layer l runs; its backward is over, and its memory not released yet.
Filling(l) == pc = "forward" /\ numOfFwds = l
Spent(l) == pc \in {"hook", "callback"} /\ previousBwd = l

\* A layer has saved all its tensors or none, but while its forward runs.
Lengths(l) ==
  /\ saved[l] = <<>> \/ Len(saved[l]) = N \/ Filling(l)
  /\ Filling(l) => Len(saved[l]) = k - 1 /\ layers[l].state = "not_offloaded"
  /\ layers[l].state # "not_offloaded" => Len(saved[l]) = N \/ Spent(l)
  /\ Spent(l) => saved[l] = <<>>
  /\ Spent(l) \/ Covered(layers[l], saved[l])

\* The layers that are still to come in this forward hold nothing.
Ahead(l) ==
  numOfFwds = None \/ numOfFwds < l => saved[l] = <<>> /\ layers[l].state = "not_offloaded"

Phase ==
  /\ pc \in {"idle", "forward"} => previousBwd = None /\ agenda = <<>>
  /\ pc = "forward" => numOfFwds \in Layers
  /\ pc \in {"hook", "unpack"} =>
       /\ agenda \in Seq(Layers) /\ agenda # <<>>
       /\ \A i \in DOMAIN agenda : Len(saved[agenda[i]]) = N
       /\ \A i, j \in DOMAIN agenda : agenda[i] = agenda[j] => i = j
       /\ config.mode = "manual" =>
            /\ Len(agenda) = 1
            /\ layers[agenda[1]].state \in {"not_offloaded", "reload_started"}
  /\ pc = "hook" => previousBwd \notin {agenda[i] : i \in DOMAIN agenda}
  /\ pc = "unpack" => previousBwd = currentLayer /\ currentLayer = Head(agenda)
  /\ pc = "callback" => previousBwd \in Layers /\ agenda = <<>>

\* The default schedule: the backward has come down to layer b, or not begun.  Where p
\* is the phase and f the number of the forward, layer l is gone, or in this state.
Gone(p, l, b) == b < l \/ (b = l /\ p = "idle")
StateAt(c, p, f, l, b) ==
  IF ~(l < c.numLayers) \/ Gone(p, l, b) \/ f = None \/ (b = c.modelLayers /\ f <= l)
  THEN "not_offloaded"
  ELSE IF b + c.numLayers + 1 <= c.modelLayers + l THEN "reload_started"
  ELSE IF f + c.numLayers < c.modelLayers + l THEN "offload_started"
  ELSE "offload_finished"

SchedulePhase(b) ==
  /\ b < NumLayers => numOfFwds = NumLayers - 1
  /\ pc = "forward" => b = NumLayers
  /\ pc = "hook" => /\ b > 0 /\ previousBwd = (IF b = NumLayers THEN None ELSE b)
                    /\ numOfFwds = NumLayers - 1
                    /\ \E m \in 0..b - 1 : agenda = Down(b - 1, m)
  /\ pc = "unpack" => b < NumLayers /\ currentLayer = b /\ \E m \in 0..b : agenda = Down(b, m)
  /\ pc = "callback" => b < NumLayers /\ previousBwd = b
ScheduleLayer(l, b) ==
  /\ layers[l].state = StateAt(config, pc, numOfFwds, l, b)
  /\ Gone(pc, l, b) => saved[l] = <<>>
  /\ l < b /\ numOfFwds # None /\ l <= numOfFwds /\ ~Filling(l) => Len(saved[l]) = N
Schedule(b) == SchedulePhase(b) /\ \A l \in Layers : ScheduleLayer(l, b)
OnSchedule == config.mode = "default" => \E b \in 0..NumLayers : Schedule(b)

LayerInv(l) ==
  Good(config, pass, l, layers[l], saved[l]) /\ Lengths(l) /\ Ahead(l)

HInv == HostTyped /\ Phase /\ OnSchedule /\ \A l \in Layers : LayerInv(l)

-----------------------------------------------------------------------------
(* The streams.  Q are the queues and D the numbers of operations that ran.  *)

End(Q, D, s) == D[s] + Len(Q[s])

\* The operations of a stream, where the other one ends at e: events are not beyond.
Values == [pass : Nat, layer : Nat, tensor : Range(Saves)]
Names == [layer : Nat, at : Nat, pass : Nat]
WaitsFor(s, e) == [op : {"wait"}, stream : {s}, at : 0..e]
MainOps(e) ==
  WaitsFor("copy", e) \cup [op : {"compute"}, block : Blocks, value : Values]
    \cup [op : {"use"}, block : Blocks, pass : Nat, layer : Nat, k : 1..N]
CopyOps(e) ==
  WaitsFor("main", e) \cup [op : {"offload"}, block : Blocks, buffer : Names]
    \cup [op : {"reload"}, block : Blocks, buffer : Names]

QueuesTyped(Q, D) ==
  /\ DOMAIN Q = Streams /\ D \in [Streams -> Nat]
  /\ Q["main"] \in Seq(MainOps(End(Q, D, "copy")))
  /\ Q["copy"] \in Seq(CopyOps(End(Q, D, "main")))
DeviceTyped == QueuesTyped(queue, done)

\* The events of a layer are not beyond m on the main and c on the copy stream.
EventsBy(ly, m, c) ==
  /\ \A i \in DOMAIN ly.fwd : ly.fwd[i].ready <= m
  /\ \A i \in DOMAIN ly.bwd : ly.bwd[i].ready <= c
  /\ ly.finished <= c
EventsPut ==
  \A l \in Layers : EventsBy(layers[l], End(queue, done, "main"), End(queue, done, "copy"))

IInv == HInv /\ DeviceTyped /\ EventsPut
-----------------------------------------------------------------------------
(* Sets of numbers, and deduplication                                        *)

Below(S, x) == {y \in S : y < x}
Rank(S, x) == Cardinality(Below(S, x))

LEMMA BelowFinite ==
  ASSUME NEW S \in SUBSET Nat, IsFiniteSet(S), NEW x \in S
  PROVE  IsFiniteSet(Below(S, x)) /\ Rank(S, x) \in 0..Cardinality(S) - 1
<1>1. IsFiniteSet(Below(S, x)) /\ Below(S, x) \in SUBSET S /\ x \notin Below(S, x)
  BY FS_Subset DEF Below
<1>2. Rank(S, x) \in Nat /\ Cardinality(S) \in Nat /\ Rank(S, x) <= Cardinality(S)
  BY <1>1, FS_Subset, FS_CardinalityType DEF Rank
<1>3. Rank(S, x) # Cardinality(S)  BY <1>1, FS_Subset DEF Rank
<1> QED  BY <1>1, <1>2, <1>3

\* Different elements have different ranks.
LEMMA RankInjective ==
  ASSUME NEW S \in SUBSET Nat, IsFiniteSet(S), NEW x \in S, NEW y \in S, Rank(S, x) = Rank(S, y)
  PROVE  x = y
<1>1. ASSUME NEW a \in S, NEW b \in S, a < b  PROVE Rank(S, a) < Rank(S, b)
  <2>1. IsFiniteSet(Below(S, a)) /\ IsFiniteSet(Below(S, b))  BY BelowFinite
  <2>2. Below(S, a) \in SUBSET Below(S, b)
    <3>1. \A z \in S : z < a => z < b
      <4>1. S \subseteq Int  OBVIOUS
      <4> QED  BY <1>1, <4>1
    <3> QED  BY <3>1 DEF Below
  <2>3. a \in Below(S, b) /\ a \notin Below(S, a)  BY <1>1 DEF Below
  <2>4. Rank(S, a) <= Rank(S, b) /\ Rank(S, a) # Rank(S, b)  BY <2>1, <2>2, <2>3, FS_Subset DEF Rank
  <2> QED  BY <2>4, BelowFinite
<1>2. Rank(S, x) \in Nat /\ x \in Nat /\ y \in Nat  BY BelowFinite
<1> QED  BY <1>1, <1>2

\* Every rank is that of some element.
LEMMA RankSurjective ==
  ASSUME NEW S \in SUBSET Nat, IsFiniteSet(S), NEW r \in 0..Cardinality(S) - 1
  PROVE  \E x \in S : Rank(S, x) = r
<1> SUFFICES ASSUME \A x \in S : Rank(S, x) # r  PROVE FALSE
  OBVIOUS
<1> DEFINE T == (0..Cardinality(S) - 1) \ {r}
           f == [x \in S |-> Rank(S, x)]
<1>1. Cardinality(S) \in Nat /\ Cardinality(S) > 0  BY FS_CardinalityType
<1>2. IsFiniteSet(0..Cardinality(S) - 1) /\ Cardinality(0..Cardinality(S) - 1) = Cardinality(S)
  BY <1>1, FS_Interval
<1>3. IsFiniteSet(T) /\ Cardinality(T) = Cardinality(S) - 1  BY <1>2, FS_RemoveElement
<1>4. f \in [S -> T]  BY BelowFinite
<1>5. PICK x \in S, y \in S : x # y /\ f[x] = f[y]
  <2>1. Cardinality(T) < Cardinality(S)  BY <1>1, <1>3
  <2> HIDE DEF T, f
  <2> QED  BY <1>3, <1>4, <2>1, FS_PigeonHole
<1> QED  BY <1>5, RankInjective

\* Some numbers have a least one.
LEMMA LeastNumber ==
  ASSUME NEW S \in SUBSET Nat, IsFiniteSet(S), S # {}
  PROVE  \E x \in S : \A y \in S : x <= y
<1>1. Cardinality(S) \in Nat /\ Cardinality(S) # 0  BY FS_EmptySet, FS_CardinalityType
<1>2. 0 \in 0..Cardinality(S) - 1  BY <1>1
<1>3. PICK x \in S : Rank(S, x) = 0  BY <1>2, RankSurjective
<1>4. Below(S, x) = {}  BY <1>3, BelowFinite, FS_EmptySet DEF Rank
<1>5. \A y \in S : ~(y < x)  BY <1>4 DEF Below
<1>6. \A y \in S : y \in Nat  OBVIOUS
<1> QED  BY <1>5, <1>6

\* The least elements of a finite set are elements, each once; all of them when as many
\* are asked for as there are.
LEMMA LeastElements ==
  ASSUME NEW S \in SUBSET Nat, IsFiniteSet(S), NEW n \in Nat, n <= Cardinality(S)
  PROVE  /\ DOMAIN Least(n, S) = 1..n
         /\ \A i \in 1..n : Least(n, S)[i] \in S
         /\ \A i, j \in 1..n : Least(n, S)[i] = Least(n, S)[j] => i = j
         /\ n = Cardinality(S) => \A x \in S : \E i \in 1..n : Least(n, S)[i] = x
<1>0. Cardinality(S) \in Nat  BY FS_CardinalityType
<1>1. ASSUME NEW i \in 1..n
      PROVE  Least(n, S)[i] \in S /\ Rank(S, Least(n, S)[i]) = i - 1
  <2>1. i - 1 \in 0..Cardinality(S) - 1  BY <1>0
  <2>2. \E x \in S : Rank(S, x) = i - 1  BY <2>1, RankSurjective
  <2>3. Least(n, S)[i] = CHOOSE x \in S : Rank(S, x) = i - 1  BY DEF Least, Rank, Below
  <2> QED  BY <2>2, <2>3
<1>2. ASSUME NEW i \in 1..n, NEW j \in 1..n, Least(n, S)[i] = Least(n, S)[j]  PROVE i = j
  <2>1. i - 1 = j - 1  BY <1>1, <1>2
  <2> QED  BY <2>1
<1>3. ASSUME n = Cardinality(S), NEW x \in S  PROVE \E i \in 1..n : Least(n, S)[i] = x
  <2>1. Rank(S, x) \in 0..Cardinality(S) - 1  BY BelowFinite
  <2> DEFINE i == Rank(S, x) + 1
  <2>2. i \in 1..n /\ i - 1 = Rank(S, x)  BY <1>0, <1>3, <2>1
  <2> HIDE DEF i
  <2>3. Least(n, S)[i] \in S /\ Rank(S, Least(n, S)[i]) = Rank(S, x)  BY <1>1, <2>2
  <2> DEFINE z == Least(n, S)[i]
  <2>4. z \in S /\ Rank(S, z) = Rank(S, x)  BY <2>3
  <2> HIDE DEF z
  <2>5. z = x  BY <2>4, RankInjective
  <2> QED  BY <2>2, <2>5 DEF z
<1>4. DOMAIN Least(n, S) = 1..n  BY DEF Least
<1> QED  BY <1>1, <1>2, <1>3, <1>4

Firsts(group) == {i \in DOMAIN group : \A j \in 1..i - 1 : group[j].block # group[i].block}

LEMMA FirstOnesAre ==
  ASSUME NEW group \in Seq(Tensors)
  PROVE  /\ IsFiniteSet(Firsts(group)) /\ Firsts(group) \in SUBSET (1..Len(group))
         /\ Cardinality(Firsts(group)) \in Nat
         /\ DOMAIN FirstOnes(group) = 1..Cardinality(Firsts(group))
         /\ \A n \in 1..Cardinality(Firsts(group)) : FirstOnes(group)[n] \in Firsts(group)
         /\ \A n, m \in 1..Cardinality(Firsts(group)) :
              FirstOnes(group)[n] = FirstOnes(group)[m] => n = m
         /\ \A i \in Firsts(group) :
              \E n \in 1..Cardinality(Firsts(group)) : FirstOnes(group)[n] = i
<1> DEFINE S == Firsts(group)
           c == Cardinality(S)
<1>1. Len(group) \in Nat /\ DOMAIN group = 1..Len(group)  OBVIOUS
<1>2. IsFiniteSet(S) /\ S \in SUBSET (1..Len(group)) /\ S \in SUBSET Nat
  <2>1. S \in SUBSET (1..Len(group))  BY <1>1 DEF Firsts
  <2>2. IsFiniteSet(1..Len(group))  BY <1>1, FS_Interval
  <2> QED  BY <2>1, <2>2, FS_Subset
<1>3. c \in Nat /\ c <= c  BY <1>2, FS_CardinalityType
<1>4. FirstOnes(group) = Least(c, S)  BY DEF FirstOnes, Firsts
<1> HIDE DEF S, c
<1>5. /\ DOMAIN Least(c, S) = 1..c
      /\ \A i \in 1..c : Least(c, S)[i] \in S
      /\ \A i, j \in 1..c : Least(c, S)[i] = Least(c, S)[j] => i = j
      /\ \A x \in S : \E i \in 1..c : Least(c, S)[i] = x
  BY <1>2, <1>3, LeastElements DEF c
<1> QED  BY <1>2, <1>3, <1>4, <1>5 DEF c, S

\* _deduplicate_tensors keeps one tensor of each block, and says for each which one.
LEMMA DeduplicatedAre ==
  ASSUME NEW group \in Seq(Tensors)
  PROVE  /\ Deduplicated(group) \in Seq(Tensors)
         /\ Len(Deduplicated(group)) = Cardinality(Firsts(group))
         /\ \A n \in 1..Len(Deduplicated(group)) :
              /\ FirstOnes(group)[n] \in 1..Len(group)
              /\ Deduplicated(group)[n] = group[FirstOnes(group)[n]]
         /\ OriginalIds(group) \in Seq(1..Len(Deduplicated(group)))
         /\ Len(OriginalIds(group)) = Len(group)
         /\ \A i \in 1..Len(group) :
              Deduplicated(group)[OriginalIds(group)[i]].block = group[i].block
         /\ \A n, m \in 1..Len(Deduplicated(group)) :
              Deduplicated(group)[n].block = Deduplicated(group)[m].block => n = m
<1> DEFINE c == Cardinality(Firsts(group))
           d == Deduplicated(group)
<1>1. Len(group) \in Nat /\ DOMAIN group = 1..Len(group) /\ \A i \in 1..Len(group) : group[i] \in Tensors
  OBVIOUS
<1>2. /\ c \in Nat /\ DOMAIN FirstOnes(group) = 1..c
      /\ \A n \in 1..c : FirstOnes(group)[n] \in Firsts(group) /\ FirstOnes(group)[n] \in 1..Len(group)
      /\ \A n, m \in 1..c : FirstOnes(group)[n] = FirstOnes(group)[m] => n = m
      /\ \A i \in Firsts(group) : \E n \in 1..c : FirstOnes(group)[n] = i
  BY FirstOnesAre
<1>3. DOMAIN d = 1..c /\ \A n \in 1..c : d[n] = group[FirstOnes(group)[n]]  BY <1>2 DEF Deduplicated
<1> HIDE DEF c
<1>4. d \in Seq(Tensors) /\ Len(d) = c
  <2>1. d \in [1..c -> Tensors]  BY <1>1, <1>2, <1>3 DEF Deduplicated
  <2> HIDE DEF d
  <2> QED  BY <1>2, <2>1
<1>5. ASSUME NEW n \in 1..c, NEW m \in 1..c, d[n].block = d[m].block  PROVE n = m
  <2> DEFINE x == FirstOnes(group)[n]
             y == FirstOnes(group)[m]
  <2>1. x \in Firsts(group) /\ y \in Firsts(group) /\ x \in 1..Len(group) /\ y \in 1..Len(group)
    BY <1>2
  <2>2. group[x].block = group[y].block  BY <1>3, <1>5
  <2>3. \A j \in 1..x - 1 : group[j].block # group[x].block  BY <2>1 DEF Firsts
  <2>4. \A j \in 1..y - 1 : group[j].block # group[y].block  BY <2>1 DEF Firsts
  <2>6. x = y => n = m  BY <1>2
  <2> HIDE DEF x, y
  <2>5. x = y
    <3>1. ~(x < y) /\ ~(y < x)
      <4>1. x < y => x \in 1..y - 1  BY <2>1, <1>1
      <4>2. y < x => y \in 1..x - 1  BY <2>1, <1>1
      <4> QED  BY <2>2, <2>3, <2>4, <4>1, <4>2
    <3> QED  BY <2>1, <3>1
  <2> QED  BY <2>5, <2>6
<1>6. ASSUME NEW i \in 1..Len(group)  PROVE \E n \in 1..c : d[n].block = group[i].block
  <2> DEFINE S == {j \in 1..Len(group) : group[j].block = group[i].block}
  <2>1. S \in SUBSET Nat /\ S \in SUBSET (1..Len(group)) /\ S # {}  OBVIOUS
  <2>2. IsFiniteSet(S)
    <3>1. IsFiniteSet(1..Len(group))  BY <1>1, FS_Interval
    <3> HIDE DEF S
    <3> QED  BY <2>1, <3>1, FS_Subset
  <2>3. PICK x \in S : \A y \in S : x <= y
    <3> HIDE DEF S
    <3> QED  BY <2>1, <2>2, LeastNumber
  <2>4. \A j \in 1..x - 1 : j \notin S /\ j \in 1..Len(group)  BY <1>1, <2>1, <2>3
  <2>5. x \in Firsts(group)  BY <1>1, <2>3, <2>4 DEF Firsts
  <2>6. PICK n \in 1..c : FirstOnes(group)[n] = x  BY <1>2, <2>5
  <2> QED  BY <1>3, <2>3, <2>6
<1>7. DOMAIN OriginalIds(group) = 1..Len(group)  BY <1>1 DEF OriginalIds
<1>8. ASSUME NEW i \in 1..Len(group)
      PROVE  OriginalIds(group)[i] \in 1..c /\ d[OriginalIds(group)[i]].block = group[i].block
  <2>1. OriginalIds(group)[i] = CHOOSE n \in 1..c : d[n].block = group[i].block
    BY <1>1, <1>3 DEF OriginalIds
  <2> HIDE DEF d
  <2> QED  BY <1>6, <2>1
<1>9. OriginalIds(group) \in Seq(1..c) /\ Len(OriginalIds(group)) = Len(group)
  <2>1. OriginalIds(group) \in [1..Len(group) -> 1..c]  BY <1>7, <1>8 DEF OriginalIds
  <2> DEFINE A == 1..c
             o == OriginalIds(group)
             m == Len(group)
  <2>2. o \in [1..m -> A] /\ m \in Nat  BY <1>1, <2>1
  <2> HIDE DEF A, o, m
  <2>3. o \in Seq(A) /\ Len(o) = m  BY <2>2
  <2> QED  BY <2>3 DEF A, o, m
<1> HIDE DEF d
<1>10. /\ d \in Seq(Tensors) /\ Len(d) = c
       /\ \A n \in 1..Len(d) : FirstOnes(group)[n] \in 1..Len(group) /\ d[n] = group[FirstOnes(group)[n]]
       /\ OriginalIds(group) \in Seq(1..Len(d)) /\ Len(OriginalIds(group)) = Len(group)
       /\ \A i \in 1..Len(group) : d[OriginalIds(group)[i]].block = group[i].block
       /\ \A n, m \in 1..Len(d) : d[n].block = d[m].block => n = m
  BY <1>2, <1>3, <1>4, <1>5, <1>8, <1>9
<1> QED  BY <1>10 DEF d, c

-----------------------------------------------------------------------------
(* The layer records                                                         *)

LEMMA CountFinite == IsFiniteSet(Offloadable) /\ Count \in Nat /\ N \in Nat
<1>1. N \in Nat /\ Saves \in Seq(Range(Saves))  BY OffloadAssumption DEF N
<1> DEFINE T == {Saves[i] : i \in 1..N}
           f == [i \in 1..N |-> Saves[i]]
<1>2. f \in Surjection(1..N, T)  BY DEF Surjection
<1>3. IsFiniteSet(1..N)  BY <1>1, FS_Interval
<1>4. IsFiniteSet(T)
  <2> HIDE DEF T, f
  <2> QED  BY <1>2, <1>3, FS_Surjection
<1>5. Offloadable \in SUBSET T  BY DEF Offloadable
<1>6. IsFiniteSet(Offloadable)
  <2> HIDE DEF T
  <2> QED  BY <1>4, <1>5, FS_Subset
<1> QED  BY <1>1, <1>6, FS_CardinalityType DEF Count

\* The deduplicated group of a layer that has saved all its tensors has as many members
\* as there are tensors to offload.
LEMMA GroupCount ==
  ASSUME NEW c, NEW p, NEW l, NEW ly, NEW sv, Good(c, p, l, ly, sv), Covered(ly, sv),
         ly.state = "not_offloaded", ~Direct(c, l), Len(sv) = N
  PROVE  Len(Deduplicated(ly.fwd)) = Count
<1> DEFINE d == Deduplicated(ly.fwd)
           m == Len(d)
           first == FirstOnes(ly.fwd)
           j(n) == CHOOSE x \in 1..N : sv[x].kind = "index" /\ sv[x].at = first[n]
           f == [n \in 1..m |-> Saves[j(n)]]
<1>1. ly.fwd \in Seq(Tensors) /\ Group(ly) = 1..Len(ly.fwd) /\ N \in Nat
  BY CountFinite DEF Good, Typed, Group
<1>2. /\ d \in Seq(Tensors) /\ m \in Nat
      /\ \A n \in 1..m : first[n] \in 1..Len(ly.fwd) /\ d[n] = ly.fwd[first[n]]
      /\ OriginalIds(ly.fwd) \in Seq(1..m) /\ Len(OriginalIds(ly.fwd)) = Len(ly.fwd)
      /\ \A i \in 1..Len(ly.fwd) : d[OriginalIds(ly.fwd)[i]].block = ly.fwd[i].block
      /\ \A n, o \in 1..m : d[n].block = d[o].block => n = o
  BY <1>1, DeduplicatedAre
<1>3. ASSUME NEW n \in 1..m
      PROVE  /\ j(n) \in 1..N /\ sv[j(n)].kind = "index" /\ sv[j(n)].at = first[n]
             /\ Saves[j(n)] \in Offloadable
  <2>1. \E x \in 1..N : sv[x].kind = "index" /\ sv[x].at = first[n]  BY <1>1, <1>2 DEF Covered
  <2>2. j(n) \in 1..N /\ sv[j(n)].kind = "index" /\ sv[j(n)].at = first[n]  BY <2>1
  <2>3. Saves[j(n)] \notin Kept  BY <2>2 DEF Good, SavedAre
  <2> QED  BY <2>2, <2>3 DEF Offloadable
<1>4. \A x, y \in 1..N : sv[x].kind = "index" /\ sv[y].kind = "index" =>
        ((ly.fwd[sv[x].at].block = ly.fwd[sv[y].at].block) <=> Saves[x] = Saves[y])
  BY DEF Good, OneBlockEach
<1> HIDE DEF j, d, m, first
<1>5. f \in [1..m -> Offloadable]  BY <1>3
<1>6. ASSUME NEW a \in 1..m, NEW b \in 1..m, f[a] = f[b]  PROVE a = b
  <2>1. Saves[j(a)] = Saves[j(b)]  BY <1>6
  <2>2. ly.fwd[first[a]].block = ly.fwd[first[b]].block  BY <1>3, <1>4, <2>1
  <2> QED  BY <1>2, <2>2
<1>7. ASSUME NEW t \in Offloadable  PROVE \E n \in 1..m : f[n] = t
  <2>1. PICK x \in 1..N : Saves[x] \notin Kept /\ t = Saves[x]  BY DEF Offloadable
  <2>2. sv[x].kind = "index" /\ sv[x].at \in 1..Len(ly.fwd)  BY <1>1, <2>1 DEF Good, SavedAre
  <2> DEFINE n == OriginalIds(ly.fwd)[sv[x].at]
  <2>3. n \in 1..m  BY <1>2, <2>2
  <2>4. d[n].block = ly.fwd[sv[x].at].block  BY <1>2, <2>2
  <2>5. ly.fwd[first[n]].block = ly.fwd[sv[x].at].block  BY <1>2, <2>3, <2>4
  <2> HIDE DEF n
  <2>6. Saves[j(n)] = Saves[x]  BY <1>3, <1>4, <2>2, <2>3, <2>5
  <2> QED  BY <2>1, <2>3, <2>6
<1>8. f \in Surjection(1..m, Offloadable) /\ f \in Injection(1..m, Offloadable)
  <2> HIDE DEF f
  <2> QED  BY <1>5, <1>6, <1>7 DEF Surjection, Injection, IsInjective
<1>9. IsFiniteSet(1..m) /\ Cardinality(1..m) = m  BY <1>2, FS_Interval
<1>10. Cardinality(Offloadable) = Cardinality(1..m)
  <2> HIDE DEF f
  <2> QED  BY <1>8, <1>9, FS_Surjection
<1> QED  BY <1>9, <1>10 DEF Count, m, d

\* A copy and the wait before it, in turn.
LEMMA InTurnIs ==
  ASSUME NEW A, NEW waits \in Seq(A), NEW copies \in Seq(A), Len(waits) = Len(copies)
  PROVE  /\ InTurn(waits, copies) \in Seq(A)
         /\ Len(InTurn(waits, copies)) = 2 * Len(copies)
         /\ \A n \in 1..Len(copies) :
              InTurn(waits, copies)[2 * n - 1] = waits[n] /\ InTurn(waits, copies)[2 * n] = copies[n]
<1> DEFINE m == Len(copies)
           f == InTurn(waits, copies)
<1>0. \A x \in 1..m : waits[x] \in A /\ copies[x] \in A
  <2>1. \A x \in 1..Len(waits) : waits[x] \in A  OBVIOUS
  <2>2. \A x \in 1..Len(copies) : copies[x] \in A  OBVIOUS
  <2> QED  BY <2>1, <2>2
<1>1. m \in Nat /\ DOMAIN f = 1..2 * m  BY DEF InTurn
<1>2. ASSUME NEW i \in 1..2 * m  PROVE f[i] \in A
  <2>1. CASE i % 2 = 1
    <3>1. (i + 1) \div 2 \in 1..m  BY <1>1, <2>1
    <3>2. waits[(i + 1) \div 2] \in A
      <4> DEFINE x == (i + 1) \div 2
      <4>1. x \in 1..m  BY <3>1
      <4> HIDE DEF x, m, f
      <4>2. waits[x] \in A  BY <1>0, <4>1
      <4> QED  BY <4>2 DEF x
    <3> QED  BY <2>1, <3>2 DEF InTurn
  <2>2. CASE i % 2 # 1
    <3>1. i \div 2 \in 1..m  BY <1>1, <2>2
    <3>2. copies[i \div 2] \in A
      <4> DEFINE x == i \div 2
      <4>1. x \in 1..m  BY <3>1
      <4> HIDE DEF x, m, f
      <4>2. copies[x] \in A  BY <1>0, <4>1
      <4> QED  BY <4>2 DEF x
    <3> QED  BY <2>2, <3>2 DEF InTurn
  <2> QED  BY <2>1, <2>2
<1>3. f \in Seq(A) /\ Len(f) = 2 * m
  <2>1. f \in [1..2 * m -> A] /\ 2 * m \in Nat  BY <1>1, <1>2 DEF InTurn
  <2> DEFINE x == 2 * m
  <2>2. f \in [1..x -> A] /\ x \in Nat  BY <2>1
  <2> HIDE DEF f, m, x
  <2>3. f \in Seq(A) /\ Len(f) = x  BY <2>2
  <2> QED  BY <2>3 DEF x
<1>4. ASSUME NEW n \in 1..m  PROVE f[2 * n - 1] = waits[n] /\ f[2 * n] = copies[n]
  <2>1. /\ 2 * n \in 1..2 * m /\ 2 * n - 1 \in 1..2 * m
        /\ (2 * n) % 2 = 0 /\ (2 * n - 1) % 2 = 1
        /\ ((2 * n - 1) + 1) \div 2 = n /\ (2 * n) \div 2 = n
    BY <1>1
  <2> QED  BY <2>1 DEF InTurn
<1> QED  BY <1>3, <1>4 DEF m, f

\* The operations of an offload, and of a reload.
LEMMA OffloadOpsAre ==
  ASSUME NEW l, NEW ly, ly.fwd \in Seq(Tensors)
  PROVE  /\ Len(OffloadOps(l, ly)) = 2 * Len(Deduplicated(ly.fwd))
         /\ Len(OffloadOps(l, ly)) \in Nat
         /\ OffloadOps(l, ly) \in Seq({OffloadOps(l, ly)[i] : i \in 1..2 * Len(Deduplicated(ly.fwd))})
         /\ \A n \in 1..Len(Deduplicated(ly.fwd)) :
              /\ OffloadOps(l, ly)[2 * n - 1] = Wait("main", Deduplicated(ly.fwd)[n].ready)
              /\ OffloadOps(l, ly)[2 * n] =
                   [op |-> "offload", block |-> Deduplicated(ly.fwd)[n].block, buffer |-> Buffer(l, n)]
<1> DEFINE d == Deduplicated(ly.fwd)
           m == Len(d)
           w == [n \in DOMAIN d |-> Wait("main", d[n].ready)]
           x == [n \in DOMAIN d |-> [op |-> "offload", block |-> d[n].block, buffer |-> Buffer(l, n)]]
           A == {w[n] : n \in 1..m} \cup {x[n] : n \in 1..m}
<1>1. d \in Seq(Tensors)  BY DeduplicatedAre
<1>2. m \in Nat /\ DOMAIN d = 1..m  BY <1>1
<1>3. w \in [1..m -> A] /\ x \in [1..m -> A]  BY <1>2
<1>4. /\ \A n \in 1..m : w[n] = Wait("main", d[n].ready)
      /\ \A n \in 1..m : x[n] = [op |-> "offload", block |-> d[n].block, buffer |-> Buffer(l, n)]
      /\ OffloadOps(l, ly) = InTurn(w, x)
  BY <1>2 DEF OffloadOps
<1> HIDE DEF d, m, w, x, A
<1>5. w \in Seq(A) /\ x \in Seq(A) /\ Len(w) = m /\ Len(x) = m  BY <1>2, <1>3
<1>6. /\ InTurn(w, x) \in Seq(A) /\ Len(InTurn(w, x)) = 2 * m
      /\ \A n \in 1..m : InTurn(w, x)[2 * n - 1] = w[n] /\ InTurn(w, x)[2 * n] = x[n]
  BY <1>5, InTurnIs
<1>7. InTurn(w, x) \in Seq({InTurn(w, x)[i] : i \in 1..2 * m})
  <2> DEFINE f == InTurn(w, x)
             z == 2 * m
  <2>1. f \in Seq(A) /\ Len(f) = z /\ z \in Nat  BY <1>2, <1>6
  <2> HIDE DEF f, z
  <2>2. f \in [1..z -> {f[i] : i \in 1..z}]  BY <2>1
  <2> DEFINE B == {f[i] : i \in 1..z}
  <2>3. f \in [1..z -> B]  BY <2>2
  <2> HIDE DEF B
  <2>4. f \in Seq(B)  BY <2>1, <2>3
  <2> QED  BY <2>4 DEF f, z, B
<1>8. /\ Len(OffloadOps(l, ly)) = 2 * m /\ 2 * m \in Nat
      /\ OffloadOps(l, ly) \in Seq({OffloadOps(l, ly)[i] : i \in 1..2 * m})
      /\ \A n \in 1..m :
           /\ OffloadOps(l, ly)[2 * n - 1] = Wait("main", d[n].ready)
           /\ OffloadOps(l, ly)[2 * n] =
                [op |-> "offload", block |-> d[n].block, buffer |-> Buffer(l, n)]
  <2>1. 2 * m \in Nat  BY <1>2
  <2> QED  BY <1>4, <1>6, <1>7, <2>1
<1> QED  BY <1>8 DEF m, d

\* start_offload, release_activation_forward_gpu_memory, start_reload, release_all_memory.
LEMMA StartOffloadGood ==
  ASSUME NEW l, NEW ly, NEW sv, NEW q, Good(config, pass, l, ly, sv), Covered(ly, sv),
         ly.state = "not_offloaded", ~Direct(config, l), Len(sv) = N, Now("copy", q) \in Nat
  PROVE  /\ Good(config, pass, l, StartOffload(l, ly, q), sv)
         /\ Covered(StartOffload(l, ly, q), sv)
         /\ StartOffload(l, ly, q).state = "offload_started"
         /\ StartOffload(l, ly, q).fwd = Deduplicated(ly.fwd)
         /\ StartOffload(l, ly, q).aux = OriginalIds(ly.fwd)
         /\ StartOffload(l, ly, q).cpu = Buffers(config, pass, l)
         /\ StartOffload(l, ly, q).finished = Now("copy", q) + 2 * Count
<1> DEFINE d == Deduplicated(ly.fwd)
           new == StartOffload(l, ly, q)
           B == Buffers(config, pass, l)
           cpu == IF config.retain /\ ly.cpu # <<>> THEN ly.cpu
                  ELSE [n \in DOMAIN d |-> Buffer(l, n)]
           end == Now("copy", q) + Len(OffloadOps(l, ly))
<1>1. ly.fwd \in Seq(Tensors) /\ ly.bwd = <<>> /\ ly.cpu \in {<<>>, B} /\ ly.bwd \in Seq(Tensors)
  BY DEF Good, Typed, Shape
<1>2. d \in Seq(Tensors) /\ Len(d) = Count  BY <1>1, DeduplicatedAre, GroupCount
<1>3. OriginalIds(ly.fwd) \in Seq(1..Count) /\ Len(OriginalIds(ly.fwd)) = Len(ly.fwd)
  BY <1>1, <1>2, DeduplicatedAre
<1>4. cpu = B
  <2>1. [n \in DOMAIN d |-> Buffer(l, n)] = B  BY <1>2 DEF Buffers, Buffer
  <2> HIDE DEF B, d
  <2> QED  BY <1>1, <2>1
<1>5. end = Now("copy", q) + 2 * Count /\ end \in Nat
  <2>1. Len(OffloadOps(l, ly)) = 2 * Len(d)  BY <1>1, OffloadOpsAre
  <2> HIDE DEF d
  <2>2. Len(OffloadOps(l, ly)) = 2 * Count  BY <1>2, <2>1
  <2> QED  BY <2>2, CountFinite
<1>6. ly \in [state : States, fwd : Seq(Tensors), cpu : {<<>>, B},
              bwd : Seq(Tensors), aux : Seq(1..Count), finished : Nat]
  BY DEF Good, Typed
<1>7. new = [state |-> "offload_started", fwd |-> d, cpu |-> cpu, bwd |-> ly.bwd,
             aux |-> OriginalIds(ly.fwd), finished |-> end]
  <2> DEFINE A == Seq(Tensors)
             C == {<<>>, B}
             E == Seq(1..Count)
  <2>1. ly \in [state : States, fwd : A, cpu : C, bwd : A, aux : E, finished : Nat]  BY <1>6
  <2>2. new = [ly EXCEPT !.state = "offload_started", !.fwd = d, !.aux = OriginalIds(ly.fwd),
                         !.cpu = cpu, !.finished = end]
    BY DEF StartOffload
  <2> HIDE DEF A, C, E, new, d, cpu, end, B
  <2> QED  BY <2>1, <2>2
<1> HIDE DEF d, B, cpu, end, new
<1>8. Typed(config, pass, l, new)
  <2> DEFINE A == Seq(Tensors)
             C == {<<>>, B}
             E == Seq(1..Count)
  <2>1. d \in A /\ cpu \in C /\ ly.bwd \in A /\ OriginalIds(ly.fwd) \in E /\ end \in Nat
    BY <1>1, <1>2, <1>3, <1>4, <1>5
  <2> HIDE DEF A, C, E
  <2>2. new \in [state : States, fwd : A, cpu : C, bwd : A, aux : E, finished : Nat]
    BY <1>7, <2>1 DEF States
  <2> QED  BY <2>2 DEF Typed, A, B, C, E
<1>9. Shape(config, pass, l, new)  BY <1>1, <1>2, <1>4, <1>7 DEF Shape, B
<1>10. Group(new) = 1..Len(ly.fwd) /\ Group(ly) = 1..Len(ly.fwd)
  <2>1. Group(ly) = 1..Len(ly.fwd)  BY <1>1 DEF Group
  <2>2. DOMAIN OriginalIds(ly.fwd) = 1..Len(ly.fwd)  BY <1>3
  <2>3. new.state # "not_offloaded" /\ new.aux = OriginalIds(ly.fwd)  BY <1>7
  <2> QED  BY <2>1, <2>2, <2>3 DEF Group
<1>11. SavedAre(config, l, new, sv) /\ Covered(new, sv)  BY <1>10 DEF SavedAre, Covered, Good
<1>12. OneBlockEach(new, sv)  BY <1>7 DEF OneBlockEach
<1> QED  BY <1>4, <1>5, <1>7, <1>8, <1>9, <1>11, <1>12 DEF Good, new, d, B

LEMMA ReleaseForwardGood ==
  ASSUME NEW c, NEW p, NEW l, NEW ly, NEW sv, Good(c, p, l, ly, sv), Covered(ly, sv),
         ly.state = "offload_started"
  PROVE  /\ Good(c, p, l, ReleaseForward(ly), sv)
         /\ Covered(ReleaseForward(ly), sv)
         /\ ReleaseForward(ly).state = "offload_finished"
<1> DEFINE new == ReleaseForward(ly)
<1>1. new = [state |-> "offload_finished", fwd |-> <<>>, cpu |-> ly.cpu, bwd |-> ly.bwd,
             aux |-> ly.aux, finished |-> ly.finished]
  <2> DEFINE A == Seq(Tensors)
             C == {<<>>, Buffers(c, p, l)}
             E == Seq(1..Count)
  <2>1. ly \in [state : States, fwd : A, cpu : C, bwd : A, aux : E, finished : Nat]
    BY DEF Good, Typed
  <2>2. new = [ly EXCEPT !.state = "offload_finished", !.fwd = <<>>]  BY DEF ReleaseForward
  <2> HIDE DEF A, C, E, new
  <2> QED  BY <2>1, <2>2
<1> HIDE DEF new
<1>2. Typed(c, p, l, new)
  <2> DEFINE A == Seq(Tensors)
             C == {<<>>, Buffers(c, p, l)}
             E == Seq(1..Count)
  <2>1. ly \in [state : States, fwd : A, cpu : C, bwd : A, aux : E, finished : Nat] /\ <<>> \in A
    BY DEF Good, Typed
  <2> HIDE DEF A, C, E
  <2>2. new \in [state : States, fwd : A, cpu : C, bwd : A, aux : E, finished : Nat]
    BY <1>1, <2>1 DEF States
  <2> QED  BY <2>2 DEF Typed, A, C, E
<1>3. Shape(c, p, l, new)  BY <1>1 DEF Good, Shape
<1>4. Group(new) = Group(ly)  BY <1>1 DEF Group
<1> QED  BY <1>1, <1>2, <1>3, <1>4 DEF Good, SavedAre, Covered, OneBlockEach, new

LEMMA StartReloadIs ==
  ASSUME NEW c, NEW p, NEW l, NEW ly, Typed(c, p, l, ly), NEW blocks, NEW q
  PROVE  StartReload(ly, blocks, q) =
           [state |-> "reload_started", fwd |-> ly.fwd, cpu |-> ly.cpu,
            bwd |-> [i \in DOMAIN ly.aux |->
                       [block |-> blocks[ly.aux[i]], ready |-> Now("copy", q) + 2 * ly.aux[i]]],
            aux |-> ly.aux, finished |-> ly.finished]
<1> DEFINE A == Seq(Tensors)
           C == {<<>>, Buffers(c, p, l)}
           E == Seq(1..Count)
           new == StartReload(ly, blocks, q)
           bwd == [i \in DOMAIN ly.aux |->
                     [block |-> blocks[ly.aux[i]], ready |-> Now("copy", q) + 2 * ly.aux[i]]]
<1>1. ly \in [state : States, fwd : A, cpu : C, bwd : A, aux : E, finished : Nat]  BY DEF Typed
<1>2. new = [ly EXCEPT !.state = "reload_started", !.bwd = bwd]  BY DEF StartReload
<1> HIDE DEF A, C, E, bwd, new
<1>3. new = [state |-> "reload_started", fwd |-> ly.fwd, cpu |-> ly.cpu, bwd |-> bwd,
             aux |-> ly.aux, finished |-> ly.finished]
  BY <1>1, <1>2
<1> QED  BY <1>3 DEF new, bwd

LEMMA StartReloadGood ==
  ASSUME NEW c, NEW p, NEW l, NEW ly, NEW sv, Good(c, p, l, ly, sv), Covered(ly, sv),
         ly.state = "offload_finished", NEW blocks, \A n \in 1..Count : blocks[n] \in Blocks,
         NEW q, Now("copy", q) \in Nat
  PROVE  /\ Good(c, p, l, StartReload(ly, blocks, q), sv)
         /\ Covered(StartReload(ly, blocks, q), sv)
         /\ StartReload(ly, blocks, q).state = "reload_started"
<1> DEFINE new == StartReload(ly, blocks, q)
           bwd == [i \in DOMAIN ly.aux |->
                     [block |-> blocks[ly.aux[i]], ready |-> Now("copy", q) + 2 * ly.aux[i]]]
           now == Now("copy", q)
<1>0. ly.aux \in Seq(1..Count) /\ Count \in Nat  BY CountFinite DEF Good, Typed
<1>1. new = [state |-> "reload_started", fwd |-> ly.fwd, cpu |-> ly.cpu, bwd |-> bwd,
             aux |-> ly.aux, finished |-> ly.finished]
  BY StartReloadIs DEF Good
<1>2. bwd \in Seq(Tensors) /\ Len(bwd) = Len(ly.aux)
  <2> DEFINE m == Len(ly.aux)
             T == Tensors
  <2>1. m \in Nat /\ DOMAIN ly.aux = 1..m /\ \A i \in 1..m : ly.aux[i] \in 1..Count  BY <1>0
  <2>2. ASSUME NEW i \in 1..m
        PROVE  [block |-> blocks[ly.aux[i]], ready |-> now + 2 * ly.aux[i]] \in T
    <3>1. blocks[ly.aux[i]] \in Blocks /\ now + 2 * ly.aux[i] \in Nat  BY <1>0, <2>1, SMTT(60)
    <3> HIDE DEF now
    <3> QED  BY <3>1 DEF Tensors
  <2>3. bwd \in [1..m -> T]  BY <2>1, <2>2
  <2> HIDE DEF bwd, m, T
  <2>4. bwd \in Seq(T) /\ Len(bwd) = m  BY <2>1, <2>3
  <2> QED  BY <2>4 DEF m, T
<1> HIDE DEF new, bwd, now
<1>3. Typed(c, p, l, new)
  <2> DEFINE A == Seq(Tensors)
             C == {<<>>, Buffers(c, p, l)}
             E == Seq(1..Count)
  <2>1. ly \in [state : States, fwd : A, cpu : C, bwd : A, aux : E, finished : Nat] /\ bwd \in A
    BY <1>2 DEF Good, Typed
  <2> HIDE DEF A, C, E
  <2>2. new \in [state : States, fwd : A, cpu : C, bwd : A, aux : E, finished : Nat]
    BY <1>1, <2>1 DEF States
  <2> QED  BY <2>2 DEF Typed, A, C, E
<1>4. Shape(c, p, l, new)  BY <1>1, <1>2 DEF Good, Shape
<1>5. Group(new) = Group(ly)  BY <1>1 DEF Group
<1> QED  BY <1>1, <1>3, <1>4, <1>5 DEF Good, SavedAre, Covered, OneBlockEach, new

\* It is as at the start, but for retained buffers; autograd has let go of the tensors.
LEMMA ReleaseAllGood ==
  ASSUME NEW c, NEW p, NEW p2, NEW l, NEW ly, NEW sv, Good(c, p, l, ly, sv),
         c.retain \in BOOLEAN, config.retain = c.retain
  PROVE  /\ Good(c, p2, l, ReleaseAll(ly), <<>>)
         /\ Covered(ReleaseAll(ly), <<>>)
         /\ ReleaseAll(ly).state = "not_offloaded"
<1> DEFINE new == ReleaseAll(ly)
           cpu == IF config.retain THEN ly.cpu ELSE <<>>
<1>1. new = [state |-> "not_offloaded", fwd |-> <<>>, cpu |-> cpu, bwd |-> <<>>,
             aux |-> ly.aux, finished |-> ly.finished]
  <2>1. new = [Fresh EXCEPT !.cpu = cpu, !.aux = ly.aux, !.finished = ly.finished]
    BY DEF ReleaseAll
  <2> HIDE DEF new, cpu
  <2> QED  BY <2>1 DEF Fresh
<1>2. cpu \in {<<>>, Buffers(c, p2, l)}
  <2>1. ly.cpu \in {<<>>, Buffers(c, p, l)}  BY DEF Good, Typed
  <2>2. c.retain => Buffers(c, p, l) = Buffers(c, p2, l)  BY DEF Buffers
  <2> QED  BY <2>1, <2>2
<1> HIDE DEF new
<1>3. Typed(c, p2, l, new)
  <2> DEFINE A == Seq(Tensors)
             C == {<<>>, Buffers(c, p2, l)}
             E == Seq(1..Count)
  <2>1. ly.aux \in E /\ ly.finished \in Nat /\ <<>> \in A /\ cpu \in C  BY <1>2 DEF Good, Typed
  <2> HIDE DEF A, C, E, cpu
  <2>2. new \in [state : States, fwd : A, cpu : C, bwd : A, aux : E, finished : Nat]
    BY <1>1, <2>1 DEF States
  <2> QED  BY <2>2 DEF Typed, A, C, E
<1>4. Shape(c, p2, l, new)  BY <1>1 DEF Shape
<1>5. Group(new) = {}  BY <1>1 DEF Group
<1>6. SavedAre(c, l, new, <<>>)  BY CountFinite DEF SavedAre
<1> QED  BY <1>1, <1>3, <1>4, <1>5, <1>6 DEF Good, Covered, OneBlockEach, new

-----------------------------------------------------------------------------
(* The schedule                                                              *)

LEMMA ConfigIs ==
  ASSUME HostTyped
  PROVE  /\ config.modelLayers = NumLayers /\ NumLayers \in Nat \ {0} /\ Layers = 0..NumLayers - 1
         /\ config.numLayers \in Nat /\ config.retain \in BOOLEAN
         /\ config.mode \in {"default", "manual"}
         /\ config.mode = "default" => config.numLayers < NumLayers
         /\ None \notin Nat /\ None \notin Layers
BY OffloadAssumption DEF HostTyped, NumLayers, Layers

\* fwd_step of layer f + 1 starts the offload of layer f, and finishes another.
LEMMA StateForward ==
  ASSUME NEW c, c.modelLayers \in Nat, c.numLayers \in Nat, c.numLayers < c.modelLayers,
         NEW f \in Nat, f + 1 < c.modelLayers, NEW l \in 0..c.modelLayers - 1, None \notin Nat
  PROVE  /\ l < c.numLayers /\ l = f =>
              StateAt(c, "idle", f, l, c.modelLayers) = "not_offloaded"
         /\ l < c.numLayers /\ c.modelLayers - c.numLayers + l = f + 1 /\ l # f =>
              StateAt(c, "idle", f, l, c.modelLayers) = "offload_started"
         /\ StateAt(c, "forward", f + 1, l, c.modelLayers) =
              IF l < c.numLayers /\ c.modelLayers - c.numLayers + l = f + 1
              THEN "offload_finished"
              ELSE IF l < c.numLayers /\ l = f THEN "offload_started"
              ELSE StateAt(c, "idle", f, l, c.modelLayers)
<1> DEFINE M == c.modelLayers
           m == c.numLayers
<1>1. M \in Nat /\ m \in Nat /\ m < M /\ f + 1 < M /\ l \in Nat /\ l < M /\ f # None /\ f + 1 # None
      /\ f \in Nat
  OBVIOUS
<1>2. \A p \in {"idle", "forward"} : ~Gone(p, l, M)  BY <1>1 DEF Gone
<1>3. \A p \in {"idle", "forward"}, g \in Nat : StateAt(c, p, g, l, M) =
        IF ~(l < m) \/ g <= l THEN "not_offloaded"
        ELSE IF M + m + 1 <= M + l THEN "reload_started"
        ELSE IF g + m < M + l THEN "offload_started" ELSE "offload_finished"
  BY <1>1, <1>2 DEF StateAt
<1>4. f + 1 \in Nat  BY <1>1
<1> HIDE DEF M, m
<1>5. /\ l < m /\ l = f => StateAt(c, "idle", f, l, M) = "not_offloaded"
      /\ l < m /\ M - m + l = f + 1 /\ l # f => StateAt(c, "idle", f, l, M) = "offload_started"
  BY <1>1, <1>3
<1>6. StateAt(c, "forward", f + 1, l, M) =
        IF l < m /\ M - m + l = f + 1 THEN "offload_finished"
        ELSE IF l < m /\ l = f THEN "offload_started" ELSE StateAt(c, "idle", f, l, M)
  BY <1>1, <1>3, <1>4
<1> QED  BY <1>5, <1>6 DEF M, m

\* A first forward, or a new one, starts with layers that are not offloaded.
LEMMA StateFirst ==
  ASSUME NEW c, c.modelLayers \in Nat, NEW l \in 0..c.modelLayers - 1
  PROVE  StateAt(c, "forward", 0, l, c.modelLayers) = "not_offloaded"
BY DEF StateAt, Gone

\* bwd_step of layer b - 1 starts the reload of one layer and releases layer b.
LEMMA StateBackward ==
  ASSUME NEW c, c.modelLayers \in Nat, c.numLayers \in Nat, c.numLayers < c.modelLayers,
         NEW b \in 1..c.modelLayers, NEW f, f = c.modelLayers - 1,
         NEW l \in 0..c.modelLayers - 1, None \notin Nat
  PROVE  /\ l < c.numLayers /\ c.modelLayers - 1 - c.numLayers + l = b - 1 =>
              StateAt(c, "hook", f, l, b) = "offload_finished" /\ l < b
         /\ StateAt(c, "unpack", f, l, b - 1) =
              IF l < c.numLayers /\ c.modelLayers - 1 - c.numLayers + l = b - 1 THEN "reload_started"
              ELSE IF l = b THEN "not_offloaded" ELSE StateAt(c, "hook", f, l, b)
<1> DEFINE M == c.modelLayers
           m == c.numLayers
<1>1. M \in Nat /\ m \in Nat /\ m < M /\ l \in Nat /\ l < M /\ b \in Nat /\ b <= M /\ b > 0
      /\ f = M - 1 /\ f \in Nat /\ f # None
  OBVIOUS
<1>2. \A p \in {"hook", "unpack"}, d \in 0..M :
        StateAt(c, p, f, l, d) =
          IF ~(l < m) \/ d < l \/ (d = M /\ f <= l) THEN "not_offloaded"
          ELSE IF d + m + 1 <= M + l THEN "reload_started"
          ELSE IF f + m < M + l THEN "offload_started" ELSE "offload_finished"
  BY <1>1 DEF StateAt, Gone
<1>3. b \in 0..M /\ b - 1 \in 0..M  BY <1>1
<1> HIDE DEF M, m
<1>4. l < m /\ M - 1 - m + l = b - 1 => StateAt(c, "hook", f, l, b) = "offload_finished" /\ l < b
  BY <1>1, <1>2, <1>3
<1>5. StateAt(c, "unpack", f, l, b - 1) =
        IF l < m /\ M - 1 - m + l = b - 1 THEN "reload_started"
        ELSE IF l = b THEN "not_offloaded" ELSE StateAt(c, "hook", f, l, b)
  BY <1>1, <1>2, <1>3
<1> QED  BY <1>4, <1>5 DEF M, m

\* The layer of the backward is on the GPU.
LEMMA StateUnpack ==
  ASSUME NEW c, c.modelLayers \in Nat, c.numLayers \in Nat, c.numLayers < c.modelLayers,
         NEW f, f = c.modelLayers - 1, NEW l \in 0..c.modelLayers - 1
  PROVE  StateAt(c, "unpack", f, l, l) \in {"not_offloaded", "reload_started"}
BY DEF StateAt, Gone

\* In the other phases a layer is as in the phase before.
LEMMA StateKept ==
  ASSUME NEW c, NEW f, NEW l, NEW b
  PROVE  /\ StateAt(c, "forward", f, l, b) = StateAt(c, "unpack", f, l, b)
         /\ StateAt(c, "hook", f, l, b) = StateAt(c, "unpack", f, l, b)
         /\ StateAt(c, "callback", f, l, b) = StateAt(c, "unpack", f, l, b)
         /\ StateAt(c, "idle", f, l, b) =
              IF l = b THEN "not_offloaded" ELSE StateAt(c, "unpack", f, l, b)
BY DEF StateAt, Gone

-----------------------------------------------------------------------------
(* The actions of the host                                                   *)

LEMMA NowIs ==
  ASSUME DeviceTyped
  PROVE  /\ Now("main", queue) \in Nat /\ Now("copy", queue) \in Nat
         /\ Now("main", queue) = End(queue, done, "main")
         /\ Now("copy", queue) = End(queue, done, "copy")
<1> DEFINE A == MainOps(End(queue, done, "copy"))
           C == CopyOps(End(queue, done, "main"))
<1>1. /\ done["main"] \in Nat /\ done["copy"] \in Nat
      /\ queue["main"] \in Seq(A) /\ queue["copy"] \in Seq(C)
  BY DEF DeviceTyped, QueuesTyped, Streams
<1> HIDE DEF A, C
<1>2. Len(queue["main"]) \in Nat /\ Len(queue["copy"]) \in Nat  BY <1>1
<1> QED  BY <1>1, <1>2 DEF Now, End

\* What fwd_step does to a layer.
Starts(l) == config.mode = "default" /\ l + 1 = NextFwd /\ Offloads(l)
Releases(l) == config.mode = "default" /\ Offloads(l) /\ NumLayers - config.numLayers + l = NextFwd
Started(l) == IF Starts(l) THEN StartOffload(l, AfterFwdStep[l], queue) ELSE AfterFwdStep[l]

LEMMA FwdStepDoes ==
  ASSUME NEW sv, NEW p, FwdStep(sv, p),
         \A l \in Layers : Starts(l) => AfterFwdStep[l].state = "not_offloaded",
         \A l \in Layers : Releases(l) => Started(l).state = "offload_started"
  PROVE  /\ layers' = [l \in Layers |-> IF Releases(l) THEN ReleaseForward(Started(l)) ELSE Started(l)]
         /\ numOfFwds' = NextFwd /\ currentLayer' = NextFwd /\ saved' = sv /\ pass' = p
         /\ pc' = "forward" /\ k' = 1
         /\ config' = config /\ previousBwd' = previousBwd /\ agenda' = agenda
<1> DEFINE n == NextFwd
           start == IF config.mode = "default" THEN {l \in Layers : l + 1 = n /\ Offloads(l)} ELSE {}
           release == IF config.mode = "default" THEN FinishOffloadAt(n) ELSE {}
           started == [l \in Layers |-> IF l \in start THEN StartOffload(l, AfterFwdStep[l], queue)
                                        ELSE AfterFwdStep[l]]
<1>1. /\ \A l \in start : l \in Layers /\ AfterFwdStep[l].state = "not_offloaded"
      /\ \A l \in Layers : (l \in start <=> Starts(l)) /\ (l \in release <=> Releases(l))
      /\ release \subseteq Layers
  BY DEF Starts, Releases, FinishOffloadAt
<1>2. \A l \in Layers : started[l] = Started(l)  BY <1>1 DEF Started
<1> HIDE DEF start, release, started
<1>3. ~(\/ \E l \in start : AfterFwdStep[l].state # "not_offloaded"
        \/ \E l \in release : started[l].state # "offload_started")
  BY <1>1, <1>2
<1>4. /\ layers' = [l \in Layers |-> IF l \in release THEN ReleaseForward(started[l]) ELSE started[l]]
      /\ numOfFwds' = n /\ currentLayer' = n /\ saved' = sv /\ pass' = p
      /\ pc' = "forward" /\ k' = 1
      /\ UNCHANGED <<config, previousBwd, agenda>>
  BY <1>3 DEF FwdStep, start, release, started
<1>5. layers' = [l \in Layers |-> IF Releases(l) THEN ReleaseForward(Started(l)) ELSE Started(l)]
  BY <1>1, <1>2, <1>4
<1> QED  BY <1>4, <1>5

\* __enter__: the next layer of this forward.
LEMMA NextLayerHost ==
  ASSUME HInv, DeviceTyped, NextLayer
  PROVE  HInv'
<1> DEFINE f == numOfFwds
           M == NumLayers
           m == config.numLayers
<1>1. /\ pc = "idle" /\ f \in Layers /\ f \in Nat /\ f + 1 \in Layers /\ NextFwd = f + 1
      /\ AfterFwdStep = layers /\ FwdStep(saved, pass) /\ DOMAIN layers = Layers
      /\ previousBwd = None /\ agenda = <<>> /\ None \notin Nat
      /\ config.modelLayers = M /\ M \in Nat \ {0} /\ Layers = 0..M - 1 /\ m \in Nat
  <2>1. pc = "idle" /\ f # None /\ f # M - 1 /\ FwdStep(saved, pass)  BY DEF NextLayer, ForwardDone
  <2>2. /\ f \in Layers \cup {None} /\ DOMAIN layers = Layers
        /\ previousBwd = None /\ agenda = <<>>
    BY <2>1 DEF HInv, HostTyped, Phase
  <2>3. /\ config.modelLayers = M /\ M \in Nat \ {0} /\ Layers = 0..M - 1 /\ m \in Nat
        /\ None \notin Nat /\ None \notin Layers
    BY ConfigIs DEF HInv
  <2> HIDE DEF M, m
  <2>4. f \in Nat /\ f + 1 \in Layers /\ f \in Layers  BY <2>1, <2>2, <2>3
  <2>5. NextFwd = f + 1 /\ f + 1 # 0  BY <2>1, <2>4 DEF NextFwd, M
  <2>6. AfterFwdStep = layers  BY <2>5 DEF AfterFwdStep
  <2> QED  BY <2>1, <2>2, <2>3, <2>4, <2>5, <2>6
<1>2. /\ \A l \in Layers : Good(config, pass, l, layers[l], saved[l]) /\ Lengths(l) /\ Ahead(l)
      /\ \A l \in Layers : Covered(layers[l], saved[l])
  BY <1>1 DEF HInv, LayerInv, Lengths, Spent
<1> HIDE DEF M, m
<1>3. ASSUME config.mode = "default"
      PROVE  /\ m < M /\ Schedule(M)
             /\ \A l \in Layers : layers[l].state = StateAt(config, "idle", f, l, M)
             /\ \A l \in Layers : l <= f => Len(saved[l]) = N
             /\ \A l \in Layers :
                  /\ l < m /\ l = f => StateAt(config, "idle", f, l, M) = "not_offloaded"
                  /\ l < m /\ M - m + l = f + 1 /\ l # f =>
                       StateAt(config, "idle", f, l, M) = "offload_started"
                  /\ StateAt(config, "forward", f + 1, l, M) =
                       IF l < m /\ M - m + l = f + 1 THEN "offload_finished"
                       ELSE IF l < m /\ l = f THEN "offload_started"
                       ELSE StateAt(config, "idle", f, l, M)
  <2>1. PICK b \in 0..M : Schedule(b)  BY <1>3 DEF HInv, OnSchedule, M
  <2>2. b = M
    <3>1. b < M => f = M - 1  BY <2>1 DEF Schedule, SchedulePhase, M
    <3>2. f # M - 1  BY DEF NextLayer, ForwardDone, M
    <3> QED  BY <1>1, <3>1, <3>2
  <2>3. \A l \in Layers : ScheduleLayer(l, M) /\ l \in Nat /\ l < M
    BY <1>1, <2>1, <2>2 DEF Schedule
  <2>4. m < M  BY <1>3, ConfigIs DEF HInv, m, M
  <2>5. ASSUME NEW l \in Layers, l <= f  PROVE Len(saved[l]) = N
    <3>1. f # None /\ ~Filling(l) /\ l < M  BY <1>1, <2>3 DEF Filling
    <3> QED  BY <2>3, <2>5, <3>1 DEF ScheduleLayer
  <2>6. f + 1 < M  BY <1>1
  <2>7. ASSUME NEW l \in Layers
        PROVE  /\ l < m /\ l = f => StateAt(config, "idle", f, l, M) = "not_offloaded"
               /\ l < m /\ M - m + l = f + 1 /\ l # f =>
                    StateAt(config, "idle", f, l, M) = "offload_started"
               /\ StateAt(config, "forward", f + 1, l, M) =
                    IF l < m /\ M - m + l = f + 1 THEN "offload_finished"
                    ELSE IF l < m /\ l = f THEN "offload_started"
                    ELSE StateAt(config, "idle", f, l, M)
    <3>1. l \in 0..M - 1  BY <1>1
    <3> HIDE DEF f
    <3> QED  BY <1>1, <2>4, <2>6, <3>1, StateForward DEF M, m, NumLayers
  <2> QED  BY <1>1, <2>1, <2>2, <2>3, <2>4, <2>5, <2>7 DEF ScheduleLayer
<1>4. \A l \in Layers :
        /\ Starts(l) <=> config.mode = "default" /\ l < m /\ l = f
        /\ Releases(l) <=> config.mode = "default" /\ l < m /\ M - m + l = f + 1
  BY <1>1 DEF Starts, Releases, Offloads, M, m
<1>5. ASSUME NEW l \in Layers, Starts(l)
      PROVE  /\ layers[l].state = "not_offloaded" /\ Len(saved[l]) = N
             /\ Good(config, pass, l, Started(l), saved[l])
             /\ Covered(Started(l), saved[l])
             /\ Started(l).state = "offload_started"
  <2>1. config.mode = "default" /\ l < m /\ l = f /\ l \in 0..M - 1  BY <1>1, <1>4, <1>5
  <2>2. layers[l].state = "not_offloaded" /\ Len(saved[l]) = N
    <3> QED  BY <1>1, <1>3, <2>1
  <2>3. ~Direct(config, l)  BY <2>1 DEF Direct, m
  <2>4. Started(l) = StartOffload(l, layers[l], queue)  BY <1>1, <1>5 DEF Started
  <2>5. Now("copy", queue) \in Nat /\ Good(config, pass, l, layers[l], saved[l])
        /\ Covered(layers[l], saved[l])
    BY <1>2, NowIs
  <2>6. /\ Good(config, pass, l, StartOffload(l, layers[l], queue), saved[l])
        /\ Covered(StartOffload(l, layers[l], queue), saved[l])
        /\ StartOffload(l, layers[l], queue).state = "offload_started"
    BY <2>2, <2>3, <2>5, StartOffloadGood
  <2> QED  BY <2>2, <2>4, <2>6
<1>6. ASSUME NEW l \in Layers, ~Starts(l)
      PROVE  Started(l) = layers[l]
  BY <1>1, <1>6 DEF Started
<1>7. \A l \in Layers : Good(config, pass, l, Started(l), saved[l]) /\ Covered(Started(l), saved[l])
  BY <1>2, <1>5, <1>6
<1>8. ASSUME NEW l \in Layers, Releases(l)
      PROVE  /\ Len(saved[l]) = N
             /\ Started(l).state = "offload_started"
             /\ Good(config, pass, l, ReleaseForward(Started(l)), saved[l])
             /\ Covered(ReleaseForward(Started(l)), saved[l])
             /\ ReleaseForward(Started(l)).state = "offload_finished"
  <2>1. config.mode = "default" /\ l < m /\ M - m + l = f + 1 /\ l \in 0..M - 1  BY <1>1, <1>4, <1>8
  <2>2. l <= f  BY <1>1, <1>3, <2>1
  <2>3. Started(l).state = "offload_started"
    <3>1. CASE Starts(l)  BY <1>5, <3>1
    <3>2. CASE ~Starts(l)
      <4>1. l # f  BY <1>4, <2>1, <3>2
      <4>2. StateAt(config, "idle", f, l, M) = "offload_started"  BY <1>3, <2>1, <4>1
      <4> QED  BY <1>3, <1>6, <2>1, <3>2, <4>2
    <3> QED  BY <3>1, <3>2
  <2> QED  BY <1>3, <1>7, <2>1, <2>2, <2>3, ReleaseForwardGood
<1>9. /\ layers' = [l \in Layers |-> IF Releases(l) THEN ReleaseForward(Started(l)) ELSE Started(l)]
      /\ numOfFwds' = f + 1 /\ currentLayer' = f + 1 /\ saved' = saved /\ pass' = pass
      /\ pc' = "forward" /\ k' = 1
      /\ config' = config /\ previousBwd' = previousBwd /\ agenda' = agenda
  BY <1>1, <1>5, <1>8, FwdStepDoes
<1>10. ASSUME NEW l \in Layers
       PROVE  /\ Good(config, pass, l, layers'[l], saved[l])
              /\ Covered(layers'[l], saved[l])
              /\ layers'[l].state # "not_offloaded" => Len(saved[l]) = N
              /\ layers'[l].state # layers[l].state => l <= f
  <2>1. layers'[l] = IF Releases(l) THEN ReleaseForward(Started(l)) ELSE Started(l)  BY <1>9
  <2>2. layers[l].state # "not_offloaded" => Len(saved[l]) = N  BY <1>1, <1>2 DEF Lengths, Spent
  <2>3. Starts(l) => l <= f  BY <1>1, <1>4
  <2>4. Releases(l) => l <= f  BY <1>1, <1>3, <1>4
  <2>5. CASE Releases(l)  BY <1>8, <2>1, <2>4, <2>5
  <2>6. CASE ~Releases(l) /\ Starts(l)  BY <1>5, <2>1, <2>3, <2>6
  <2>7. CASE ~Releases(l) /\ ~Starts(l)  BY <1>2, <1>6, <2>1, <2>2, <2>7
  <2> QED  BY <2>5, <2>6, <2>7
<1>11. HostTyped'
  <2>1. Layers' = Layers  BY <1>9 DEF Layers, NumLayers
  <2>2. DOMAIN layers' = Layers  BY <1>9
  <2> QED  BY <1>1, <1>9, <2>1, <2>2, CountFinite DEF HInv, HostTyped
<1>12. Phase'  BY <1>1, <1>9 DEF Phase, Layers, NumLayers
<1>13. OnSchedule'
  <2> SUFFICES ASSUME config.mode = "default"  PROVE \E b \in 0..NumLayers' : Schedule(b)'
    BY <1>9 DEF OnSchedule
  <2>1. NumLayers' = M /\ Layers' = Layers /\ M' = M  BY <1>9 DEF Layers, NumLayers, M
  <2>2. SchedulePhase(M)'  BY <1>1, <1>9, <2>1 DEF SchedulePhase
  <2>3. ASSUME NEW l \in Layers  PROVE ScheduleLayer(l, M)'
    <3>1. layers'[l].state = StateAt(config, "forward", f + 1, l, M)
      <4>2. layers'[l] = IF Releases(l) THEN ReleaseForward(Started(l)) ELSE Started(l)  BY <1>9
      <4> QED  BY <1>3, <1>4, <1>5, <1>6, <1>8, <4>2
    <3>2. ~Gone("forward", l, M)  BY <1>1 DEF Gone
    <3>3. l <= f + 1 /\ ~(l = f + 1) => Len(saved[l]) = N  BY <1>1, <1>3
    <3> QED  BY <1>9, <2>1, <3>1, <3>2, <3>3 DEF ScheduleLayer, Filling
  <2> QED  BY <1>1, <2>1, <2>2, <2>3 DEF Schedule
<1>14. ASSUME NEW l \in Layers  PROVE LayerInv(l)'
  <2>1. Good(config, pass, l, layers[l], saved[l])'  BY <1>9, <1>10
  <2>2. f + 1 = l => saved[l] = <<>> /\ layers'[l].state = "not_offloaded"
    <3>1. f + 1 = l => saved[l] = <<>> /\ layers[l].state = "not_offloaded" /\ ~(l <= f)
      BY <1>1, <1>2 DEF Ahead
    <3> QED  BY <1>10, <3>1
  <2>3. Lengths(l)'
    <3>1. saved[l] = <<>> \/ Len(saved[l]) = N  BY <1>1, <1>2 DEF Lengths, Filling
    <3>2. Covered(layers'[l], saved'[l])  BY <1>9, <1>10
    <3> QED  BY <1>9, <1>10, <2>2, <3>1, <3>2 DEF Lengths, Filling, Spent
  <2>4. Ahead(l)'
    <3>1. f + 1 < l => saved[l] = <<>> /\ layers[l].state = "not_offloaded" /\ ~(l <= f)
      BY <1>1, <1>2 DEF Ahead
    <3> QED  BY <1>1, <1>9, <1>10, <3>1 DEF Ahead
  <2> QED  BY <2>1, <2>3, <2>4 DEF LayerInv
<1>15. Layers' = Layers  BY <1>9 DEF Layers, NumLayers
<1> QED  BY <1>11, <1>12, <1>13, <1>14, <1>15 DEF HInv

\* __enter__: the first layer of a forward.
LEMMA NextForwardHost ==
  ASSUME HInv, DeviceTyped, NextForward
  PROVE  HInv'
<1> DEFINE M == NumLayers
           m == config.numLayers
           sv == [l \in Layers |-> <<>>]
<1>1. /\ pc = "idle" /\ NextFwd = 0 /\ FwdStep(sv, pass + 1)
      /\ AfterFwdStep = [l \in Layers |-> ReleaseAll(layers[l])]
      /\ previousBwd = None /\ agenda = <<>> /\ None \notin Nat
      /\ config.modelLayers = M /\ M \in Nat \ {0} /\ Layers = 0..M - 1 /\ m \in Nat
      /\ config.retain \in BOOLEAN /\ (config.mode = "default" => m < M)
  <2>1. pc = "idle" /\ numOfFwds \in {None, M - 1} /\ FwdStep(sv, pass + 1)
    BY DEF NextForward, ForwardDone
  <2>2. previousBwd = None /\ agenda = <<>>  BY <2>1 DEF HInv, Phase
  <2>3. /\ config.modelLayers = M /\ M \in Nat \ {0} /\ Layers = 0..M - 1 /\ m \in Nat
        /\ None \notin Nat /\ config.retain \in BOOLEAN
        /\ config.mode = "default" => m < M
    BY ConfigIs DEF HInv
  <2>4. NextFwd = 0  BY <2>1 DEF NextFwd
  <2> QED  BY <2>1, <2>2, <2>3, <2>4 DEF AfterFwdStep
<1>2. \A l \in Layers : Good(config, pass, l, layers[l], saved[l])  BY DEF HInv, LayerInv
<1>3. \A l \in Layers : ~Starts(l) /\ ~Releases(l) /\ Started(l) = ReleaseAll(layers[l])
  <2> SUFFICES ASSUME NEW l \in Layers
               PROVE  ~Starts(l) /\ ~Releases(l) /\ Started(l) = ReleaseAll(layers[l])
    OBVIOUS
  <2>1. l \in Nat /\ l + 1 # 0  BY <1>1
  <2>2. ~Starts(l)  BY <1>1, <2>1 DEF Starts
  <2>3. ~Releases(l)  BY <1>1, <2>1 DEF Releases
  <2> QED  BY <1>1, <2>2, <2>3 DEF Started
<1> HIDE DEF M, m, sv
<1>4. /\ layers' = [l \in Layers |-> IF Releases(l) THEN ReleaseForward(Started(l)) ELSE Started(l)]
      /\ numOfFwds' = 0 /\ currentLayer' = 0 /\ saved' = sv /\ pass' = pass + 1
      /\ pc' = "forward" /\ k' = 1
      /\ config' = config /\ previousBwd' = previousBwd /\ agenda' = agenda
  BY <1>1, <1>3, FwdStepDoes
<1>5. /\ Layers' = Layers /\ NumLayers' = M /\ M' = M
      /\ DOMAIN layers' = Layers /\ DOMAIN saved' = Layers
      /\ \A l \in Layers : layers'[l] = ReleaseAll(layers[l]) /\ saved'[l] = <<>>
  BY <1>3, <1>4 DEF sv, Layers, NumLayers, M
<1>6. ASSUME NEW l \in Layers
      PROVE  /\ Good(config, pass + 1, l, layers'[l], saved'[l])
             /\ Covered(layers'[l], saved'[l])
             /\ layers'[l].state = "not_offloaded"
  BY <1>1, <1>2, <1>5, ReleaseAllGood
<1>7. HostTyped'
  <2>1. 0 \in Layers /\ 1 \in 1..N + 1  BY <1>1, CountFinite
  <2> QED  BY <1>1, <1>4, <1>5, <2>1 DEF HInv, HostTyped
<1>8. Phase'
  <2>1. 0 \in Layers  BY <1>1
  <2> QED  BY <1>1, <1>4, <1>5, <2>1 DEF Phase
<1>9. OnSchedule'
  <2>1. SchedulePhase(M)'  BY <1>1, <1>4, <1>5 DEF SchedulePhase
  <2>2. ASSUME NEW l \in Layers  PROVE ScheduleLayer(l, M)'
    <3>1. StateAt(config, "forward", 0, l, M) = "not_offloaded"
      BY <1>1, StateFirst DEF M, NumLayers
    <3>2. l \in Nat /\ (l <= 0 => l = 0)  BY <1>1
    <3> QED  BY <1>4, <1>5, <1>6, <3>1, <3>2 DEF ScheduleLayer, Filling
  <2>3. M \in 0..M  BY <1>1
  <2> QED  BY <1>4, <1>5, <2>1, <2>2, <2>3 DEF OnSchedule, Schedule
<1>10. ASSUME NEW l \in Layers  PROVE LayerInv(l)'
  <2>1. Good(config, pass, l, layers[l], saved[l])'  BY <1>4, <1>6
  <2>2. Lengths(l)'
    <3>1. Len(<<>>) = 0  OBVIOUS
    <3> QED  BY <1>1, <1>4, <1>5, <1>6, <3>1 DEF Lengths, Filling, Spent
  <2>3. Ahead(l)'  BY <1>4, <1>5, <1>6 DEF Ahead
  <2> QED  BY <2>1, <2>2, <2>3 DEF LayerInv
<1> QED  BY <1>5, <1>7, <1>8, <1>9, <1>10 DEF HInv

LEMMA InitHost ==
  ASSUME Init
  PROVE  HInv
<1>1. /\ config \in Configs /\ Layers = 0..NumLayers - 1 /\ NumLayers \in Nat \ {0}
      /\ config.modelLayers = NumLayers /\ None \notin Nat
  BY OffloadAssumption DEF Init, Layers, NumLayers
<1>2. HostTyped  BY <1>1 DEF Init, HostTyped
<1>3. Phase  BY DEF Init, Phase
<1>4. OnSchedule
  <2>1. SchedulePhase(NumLayers)  BY <1>1 DEF Init, SchedulePhase
  <2>2. ASSUME NEW l \in Layers  PROVE ScheduleLayer(l, NumLayers)
    <3>1. layers[l].state = "not_offloaded" /\ numOfFwds = None /\ saved[l] = <<>>
      BY DEF Init, Fresh
    <3> QED  BY <3>1 DEF ScheduleLayer, StateAt
  <2>3. NumLayers \in 0..NumLayers  BY <1>1
  <2> QED  BY <2>1, <2>2, <2>3 DEF OnSchedule, Schedule
<1>5. ASSUME NEW l \in Layers  PROVE LayerInv(l)
  <2>1. layers[l] = Fresh /\ saved[l] = <<>> /\ pc = "idle"  BY DEF Init
  <2>2. Fresh \in [state : States, fwd : Seq(Tensors), cpu : {<<>>, Buffers(config, pass, l)},
                   bwd : Seq(Tensors), aux : Seq(1..Count), finished : Nat]
    <3> DEFINE A == Seq(Tensors)
               C == {<<>>, Buffers(config, pass, l)}
               E == Seq(1..Count)
    <3>1. <<>> \in A /\ <<>> \in C /\ <<>> \in E  OBVIOUS
    <3> HIDE DEF A, C, E
    <3>2. Fresh \in [state : States, fwd : A, cpu : C, bwd : A, aux : E, finished : Nat]
      BY <3>1 DEF Fresh, States
    <3> QED  BY <3>2 DEF A, C, E
  <2>3. Shape(config, pass, l, Fresh) /\ Group(Fresh) = {} /\ Fresh.state = "not_offloaded"
    BY DEF Shape, Fresh, Group
  <2>4. Len(<<>>) = 0  OBVIOUS
  <2>5. SavedAre(config, l, Fresh, <<>>) /\ OneBlockEach(Fresh, <<>>) /\ Covered(Fresh, <<>>)
    BY <2>3, <2>4, CountFinite DEF SavedAre, OneBlockEach, Covered
  <2>6. Good(config, pass, l, layers[l], saved[l]) /\ Covered(layers[l], saved[l])
    BY <2>1, <2>2, <2>3, <2>5 DEF Good, Typed
  <2>7. Lengths(l) /\ Ahead(l)  BY <2>1, <2>3, <2>6 DEF Lengths, Filling, Spent, Ahead
  <2> QED  BY <2>6, <2>7 DEF LayerInv
<1> QED  BY <1>2, <1>3, <1>4, <1>5 DEF HInv

\* __exit__.
LEMMA LeaveContextHost ==
  ASSUME HInv, LeaveContext
  PROVE  HInv'
<1>1. /\ pc = "forward" /\ k > Len(Saves) /\ pc' = "idle"
      /\ config' = config /\ numOfFwds' = numOfFwds /\ previousBwd' = previousBwd
      /\ currentLayer' = currentLayer /\ layers' = layers
      /\ saved' = saved /\ k' = k /\ agenda' = agenda /\ pass' = pass
  BY DEF LeaveContext, syncVars
<1>2. /\ k \in 1..N + 1 /\ k > N /\ N \in Nat /\ numOfFwds \in Layers
      /\ previousBwd = None /\ agenda = <<>> /\ None \notin Layers
      /\ \A l \in Layers : LayerInv(l)
  BY <1>1, ConfigIs, CountFinite DEF HInv, HostTyped, Phase, N
<1>3. k - 1 = N  BY <1>2
<1>4. Layers' = Layers /\ NumLayers' = NumLayers  BY <1>1 DEF Layers, NumLayers
<1>5. HostTyped' /\ Phase'  BY <1>1, <1>2, <1>4 DEF HInv, HostTyped, Phase
<1>6. OnSchedule'
  <2> SUFFICES ASSUME config.mode = "default"
               PROVE  \E b \in 0..NumLayers : SchedulePhase(b)' /\ \A l \in Layers : ScheduleLayer(l, b)'
    BY <1>1, <1>4 DEF OnSchedule, Schedule
  <2>1. PICK b \in 0..NumLayers : Schedule(b)  BY DEF HInv, OnSchedule
  <2>2. SchedulePhase(b)' /\ b = NumLayers  BY <1>1, <1>4, <2>1 DEF Schedule, SchedulePhase
  <2>3. ASSUME NEW l \in Layers  PROVE ScheduleLayer(l, b)'
    <3>1. l # b /\ ~(b < l)  BY <2>2, ConfigIs DEF HInv
    <3>2. StateAt(config, "idle", numOfFwds, l, b) = StateAt(config, "forward", numOfFwds, l, b)
      BY <3>1, StateKept
    <3>3. ScheduleLayer(l, b) /\ ~Gone("idle", l, b)  BY <2>1, <3>1 DEF Schedule, Gone
    <3>4. Filling(l) => Len(saved[l]) = N  BY <1>2, <1>3 DEF LayerInv, Lengths
    <3> QED  BY <1>1, <3>2, <3>3, <3>4 DEF ScheduleLayer, Filling
  <2> QED  BY <2>2, <2>3
<1>7. ASSUME NEW l \in Layers  PROVE LayerInv(l)'
  <2>1. Good(config, pass, l, layers[l], saved[l]) /\ Lengths(l) /\ Ahead(l)  BY <1>2 DEF LayerInv
  <2>2. Good(config, pass, l, layers[l], saved[l])'  BY <1>1, <2>1
  <2>3. Lengths(l)'  BY <1>1, <1>2, <1>3, <2>1 DEF Lengths, Filling, Spent
  <2>4. Ahead(l)'  BY <1>1, <2>1 DEF Ahead
  <2> QED  BY <2>2, <2>3, <2>4 DEF LayerInv
<1> QED  BY <1>4, <1>5, <1>6, <1>7 DEF HInv

\* push_tensor returns the tensor, or an index into the group it adds it to.
LEMMA PushTensorGood ==
  ASSUME NEW c, NEW p, NEW l, NEW ly, NEW sv, Good(c, p, l, ly, sv), Covered(ly, sv),
         Len(sv) < N, Direct(c, l) \/ Saves[Len(sv) + 1] \in Kept,
         NEW item, item.kind = "tensor", item.at \in Blocks, item \in Items
  PROVE  Good(c, p, l, ly, Append(sv, item)) /\ Covered(ly, Append(sv, item))
<1> DEFINE new == Append(sv, item)
           n == Len(sv)
           I == Items
<1>1. /\ sv \in Seq(I) /\ n \in Nat /\ N \in Nat /\ new \in Seq(I) /\ Len(new) = n + 1
      /\ \A j \in 1..n : new[j] = sv[j]
      /\ new[n + 1] = item
  <2>1. sv \in Seq(I)  BY DEF Good, SavedAre
  <2>2. item \in I /\ N \in Nat  BY CountFinite
  <2> HIDE DEF I
  <2> QED  BY <2>1, <2>2
<1> HIDE DEF new, n
<1>2. SavedAre(c, l, ly, new)
  <2>1. ASSUME NEW j \in 1..n + 1
        PROVE  IF Direct(c, l) \/ Saves[j] \in Kept THEN new[j].kind = "tensor" /\ new[j].at \in Blocks
               ELSE new[j].kind = "index" /\ new[j].at \in Group(ly)
    <3>1. CASE j = n + 1  BY <1>1, <3>1 DEF n
    <3>2. CASE j \in 1..n  BY <1>1, <3>2 DEF Good, SavedAre, n
    <3> QED  BY <1>1, <3>1, <3>2
  <2>2. n + 1 <= N  BY <1>1 DEF n
  <2> QED  BY <1>1, <2>1, <2>2 DEF SavedAre
<1>3. OneBlockEach(ly, new)
  <2>1. \A j \in 1..Len(new) : new[j].kind = "index" => j \in 1..n /\ new[j] = sv[j]  BY <1>1
  <2> QED  BY <2>1 DEF OneBlockEach, Good, n
<1>4. Covered(ly, new)  BY <1>1 DEF Covered, n
<1> QED  BY <1>2, <1>3, <1>4 DEF Good, new

Pushed(ly, t) == [ly EXCEPT !.fwd = Append(@, t)]
Index(ly) == [kind |-> "index", at |-> Len(ly.fwd) + 1]

LEMMA PushIndexGood ==
  ASSUME NEW c, NEW p, NEW l, NEW ly, NEW sv, Good(c, p, l, ly, sv), Covered(ly, sv),
         ly.state = "not_offloaded",
         Len(sv) < N, ~Direct(c, l), Saves[Len(sv) + 1] \notin Kept, NEW t \in Tensors,
         \A j \in 1..Len(sv) : sv[j].kind = "index" =>
           ((ly.fwd[sv[j].at].block = t.block) <=> Saves[j] = Saves[Len(sv) + 1])
  PROVE  /\ Good(c, p, l, Pushed(ly, t), Append(sv, Index(ly)))
         /\ Covered(Pushed(ly, t), Append(sv, Index(ly)))
         /\ Pushed(ly, t).state = "not_offloaded"
<1> DEFINE item == Index(ly)
           new == Pushed(ly, t)
           sv2 == Append(sv, item)
           n == Len(sv)
           m == Len(ly.fwd)
           fwd == Append(ly.fwd, t)
           I == Items
           T == Tensors
<1>1. new = [state |-> "not_offloaded", fwd |-> fwd, cpu |-> ly.cpu, bwd |-> ly.bwd,
             aux |-> ly.aux, finished |-> ly.finished]
  <2> DEFINE A == Seq(Tensors)
             C == {<<>>, Buffers(c, p, l)}
             E == Seq(1..Count)
  <2>1. ly \in [state : States, fwd : A, cpu : C, bwd : A, aux : E, finished : Nat]
    BY DEF Good, Typed
  <2>2. new = [ly EXCEPT !.fwd = fwd]  BY <2>1 DEF Pushed
  <2> HIDE DEF A, C, E, fwd, new
  <2> QED  BY <2>1, <2>2
<1>2. /\ fwd \in Seq(T) /\ Len(fwd) = m + 1 /\ fwd[m + 1] = t
      /\ \A j \in 1..m : fwd[j] = ly.fwd[j]
      /\ DOMAIN fwd = 1..m + 1 /\ m \in Nat /\ DOMAIN ly.fwd = 1..m
  <2>1. ly.fwd \in Seq(T)  BY DEF Good, Typed
  <2> HIDE DEF T
  <2>2. t \in T  BY DEF T
  <2> QED  BY <2>1, <2>2
<1>3. /\ sv \in Seq(I) /\ n \in Nat /\ N \in Nat /\ sv2 \in Seq(I) /\ Len(sv2) = n + 1
      /\ \A j \in 1..n : sv2[j] = sv[j]
      /\ sv2[n + 1] = item
  <2>1. sv \in Seq(I) /\ item \in I /\ N \in Nat
    BY <1>2, CountFinite DEF Good, SavedAre, Items, Index
  <2> HIDE DEF I, item
  <2> QED  BY <2>1
<1>0. item.kind = "index" /\ item.at = m + 1  BY DEF Index
<1> HIDE DEF fwd, sv2, n, m, T, I, item, new
<1>4. Typed(c, p, l, new)
  <2> DEFINE A == Seq(Tensors)
             C == {<<>>, Buffers(c, p, l)}
             E == Seq(1..Count)
  <2>1. ly \in [state : States, fwd : A, cpu : C, bwd : A, aux : E, finished : Nat] /\ fwd \in A
    BY <1>2 DEF Good, Typed, T
  <2> HIDE DEF A, C, E
  <2>2. new \in [state : States, fwd : A, cpu : C, bwd : A, aux : E, finished : Nat]
    BY <1>1, <2>1 DEF States
  <2> QED  BY <2>2 DEF Typed, A, C, E
<1>5. Shape(c, p, l, new)  BY <1>1 DEF Good, Shape
<1>6. Group(ly) = 1..m /\ Group(new) = 1..m + 1 /\ new.fwd = fwd /\ new.state = "not_offloaded"
  BY <1>1, <1>2 DEF Group
<1>7. ASSUME NEW j \in 1..n + 1
      PROVE  IF Direct(c, l) \/ Saves[j] \in Kept THEN sv2[j].kind = "tensor" /\ sv2[j].at \in Blocks
             ELSE sv2[j].kind = "index" /\ sv2[j].at \in 1..m + 1
  <2>1. CASE j = n + 1  BY <1>0, <1>2, <1>3, <2>1 DEF n
  <2>2. CASE j \in 1..n
    <3>1. IF Direct(c, l) \/ Saves[j] \in Kept THEN sv[j].kind = "tensor" /\ sv[j].at \in Blocks
          ELSE sv[j].kind = "index" /\ sv[j].at \in 1..m
      BY <1>6, <2>2 DEF Good, SavedAre, n
    <3> QED  BY <1>2, <1>3, <2>2, <3>1
  <2> QED  BY <1>3, <2>1, <2>2
<1>8. SavedAre(c, l, new, sv2)
  <2>1. n + 1 <= N  BY <1>3 DEF n
  <2> QED  BY <1>3, <1>6, <1>7, <2>1 DEF SavedAre, I
<1>9. ASSUME NEW j \in 1..n, sv[j].kind = "index"
      PROVE  sv2[j] = sv[j] /\ sv[j].at \in 1..m /\ fwd[sv[j].at] = ly.fwd[sv[j].at]
  <2>1. sv[j].at \in 1..m  BY <1>6, <1>9 DEF Good, SavedAre, n
  <2> QED  BY <1>2, <1>3, <2>1
<1>10. OneBlockEach(new, sv2)
  <2> SUFFICES ASSUME NEW i \in 1..n + 1, NEW j \in 1..n + 1,
                      sv2[i].kind = "index", sv2[j].kind = "index"
               PROVE  (fwd[sv2[i].at].block = fwd[sv2[j].at].block) <=> Saves[i] = Saves[j]
    BY <1>3, <1>6 DEF OneBlockEach
  <2>1. \A x, y \in 1..n : sv[x].kind = "index" /\ sv[y].kind = "index" =>
          ((ly.fwd[sv[x].at].block = ly.fwd[sv[y].at].block) <=> Saves[x] = Saves[y])
    BY DEF Good, OneBlockEach, n
  <2>2. fwd[sv2[n + 1].at] = t  BY <1>0, <1>2, <1>3
  <2>3. \A x \in 1..n : sv[x].kind = "index" =>
          ((ly.fwd[sv[x].at].block = t.block) <=> Saves[x] = Saves[n + 1])
    BY DEF n
  <2>8. ASSUME NEW x \in 1..n, sv2[x].kind = "index"
        PROVE  sv[x].kind = "index" /\ fwd[sv2[x].at].block = ly.fwd[sv[x].at].block
    BY <1>3, <1>9, <2>8
  <2>4. CASE i \in 1..n /\ j \in 1..n  BY <2>1, <2>4, <2>8
  <2>5. CASE i \in 1..n /\ j = n + 1  BY <2>2, <2>3, <2>5, <2>8
  <2>6. CASE i = n + 1 /\ j \in 1..n  BY <2>2, <2>3, <2>6, <2>8
  <2>7. CASE i = n + 1 /\ j = n + 1  BY <2>7
  <2> QED  BY <1>3, <2>4, <2>5, <2>6, <2>7
<1>11. Covered(new, sv2)
  <2>1. ASSUME NEW i \in 1..m + 1
        PROVE  \E j \in 1..n + 1 : sv2[j].kind = "index" /\ sv2[j].at = i
    <3>1. CASE i = m + 1  BY <1>0, <1>3, <3>1
    <3>2. CASE i \in 1..m
      <4>1. PICK j \in 1..n : sv[j].kind = "index" /\ sv[j].at = i  BY <1>6, <3>2 DEF Covered, n
      <4> QED  BY <1>3, <4>1
    <3> QED  BY <1>2, <3>1, <3>2
  <2> QED  BY <1>3, <1>6, <2>1 DEF Covered
<1> QED  BY <1>4, <1>5, <1>6, <1>8, <1>10, <1>11 DEF Good, sv2, item, new

LEMMA PushHost ==
  ASSUME HInv, pc = "forward", k <= N, NEW block \in Blocks, NEW q, Now("main", q) \in Nat,
         Push(numOfFwds, block, q),
         ~Direct(config, numOfFwds) /\ Saves[k] \notin Kept =>
           \A j \in 1..k - 1 : IsIndex(numOfFwds, j) =>
             ((layers[numOfFwds].fwd[At(numOfFwds, j)].block = block) <=> Saves[j] = Saves[k])
  PROVE  HInv'
<1> DEFINE f == numOfFwds
           item == saved'[f][k]
<1>1. /\ f \in Layers /\ f # None /\ k \in 1..N + 1 /\ N \in Nat /\ DOMAIN layers = Layers
      /\ DOMAIN saved = Layers /\ None \notin Layers /\ Blocks \subseteq Nat
      /\ \A l \in Layers : LayerInv(l)
  BY ConfigIs, CountFinite, OffloadAssumption DEF HInv, HostTyped, Phase
<1>2. /\ Good(config, pass, f, layers[f], saved[f]) /\ Covered(layers[f], saved[f])
      /\ Len(saved[f]) = k - 1 /\ layers[f].state = "not_offloaded"
      /\ saved[f] \in Seq(Items)
  BY <1>1 DEF LayerInv, Lengths, Filling, Spent, Good, SavedAre
<1> HIDE DEF f
<1>3. /\ pc' = "forward" /\ k' = k + 1 /\ config' = config /\ numOfFwds' = f
      /\ previousBwd' = previousBwd /\ currentLayer' = currentLayer
      /\ agenda' = agenda /\ pass' = pass
      /\ \/ /\ Direct(config, f) \/ Saves[k] \in Kept
            /\ saved' = [saved EXCEPT ![f] = Append(@, [kind |-> "tensor", at |-> block])]
            /\ layers' = layers
         \/ /\ ~Direct(config, f) /\ Saves[k] \notin Kept
            /\ saved' = [saved EXCEPT ![f] = Append(@, [kind |-> "index", at |-> Len(layers[f].fwd) + 1])]
            /\ layers' = [layers EXCEPT ![f].fwd = Append(@, [block |-> block, ready |-> Now("main", q)])]
  BY <1>2 DEF Push, Direct, Offloads, syncVars, f
<1>4. /\ Layers' = Layers /\ NumLayers' = NumLayers
      /\ DOMAIN layers' = Layers /\ DOMAIN saved' = Layers
      /\ \A l \in Layers : l # f => layers'[l] = layers[l] /\ saved'[l] = saved[l]
  BY <1>1, <1>3 DEF Layers, NumLayers
<1>5. /\ Good(config, pass, f, layers'[f], saved'[f]) /\ Covered(layers'[f], saved'[f])
      /\ Len(saved'[f]) = k /\ layers'[f].state = "not_offloaded"
  <2>0. Len(saved[f]) < N /\ Len(saved[f]) + 1 = k /\ 1..Len(saved[f]) = 1..k - 1  BY <1>1, <1>2
  <2>1. CASE /\ Direct(config, f) \/ Saves[k] \in Kept
             /\ saved' = [saved EXCEPT ![f] = Append(@, [kind |-> "tensor", at |-> block])]
             /\ layers' = layers
    <3> DEFINE x == [kind |-> "tensor", at |-> block]
    <3>1. x.kind = "tensor" /\ x.at \in Blocks /\ x \in Items  BY <1>1 DEF Items
    <3>2. saved'[f] = Append(saved[f], x) /\ layers'[f] = layers[f]  BY <1>1, <2>1
    <3> HIDE DEF x
    <3>3. Good(config, pass, f, layers[f], Append(saved[f], x)) /\ Covered(layers[f], Append(saved[f], x))
      BY <1>2, <2>0, <2>1, <3>1, PushTensorGood
    <3>4. Len(Append(saved[f], x)) = k  BY <1>2, <2>0, <3>1
    <3> QED  BY <1>2, <3>2, <3>3, <3>4
  <2>2. CASE /\ ~Direct(config, f) /\ Saves[k] \notin Kept
             /\ saved' = [saved EXCEPT ![f] = Append(@, [kind |-> "index", at |-> Len(layers[f].fwd) + 1])]
             /\ layers' = [layers EXCEPT ![f].fwd = Append(@, [block |-> block, ready |-> Now("main", q)])]
    <3> DEFINE t == [block |-> block, ready |-> Now("main", q)]
               x == Index(layers[f])
               new == Pushed(layers[f], t)
    <3>1. t \in Tensors /\ t.block = block  BY DEF Tensors
    <3>2. saved'[f] = Append(saved[f], x) /\ layers'[f] = new  BY <1>1, <2>2 DEF Index, Pushed
    <3>3. \A j \in 1..Len(saved[f]) : saved[f][j].kind = "index" =>
            ((layers[f].fwd[saved[f][j].at].block = t.block) <=> Saves[j] = Saves[Len(saved[f]) + 1])
      BY <2>0, <2>2, <3>1 DEF f, IsIndex, At
    <3>7. Len(layers[f].fwd) + 1 \in Nat
      <4>1. layers[f].fwd \in Seq(Tensors)  BY <1>2 DEF Good, Typed
      <4> QED  BY <4>1
    <3>6. x \in Items  BY <3>7 DEF Items, Index
    <3> HIDE DEF x, t, new
    <3>4. /\ Good(config, pass, f, new, Append(saved[f], x)) /\ Covered(new, Append(saved[f], x))
          /\ new.state = "not_offloaded"
      <4>1. ~Direct(config, f) /\ Saves[Len(saved[f]) + 1] \notin Kept /\ Len(saved[f]) < N
        BY <2>0, <2>2
      <4>2. Good(config, pass, f, layers[f], saved[f]) /\ Covered(layers[f], saved[f])
            /\ layers[f].state = "not_offloaded"
        BY <1>2
      <4> DEFINE ly == layers[f]
                 sv == saved[f]
      <4>3. /\ Good(config, pass, f, ly, sv) /\ Covered(ly, sv) /\ ly.state = "not_offloaded"
            /\ ~Direct(config, f) /\ Saves[Len(sv) + 1] \notin Kept /\ Len(sv) < N
            /\ \A j \in 1..Len(sv) : sv[j].kind = "index" =>
                 ((ly.fwd[sv[j].at].block = t.block) <=> Saves[j] = Saves[Len(sv) + 1])
        BY <3>3, <4>1, <4>2
      <4> HIDE DEF ly, sv
      <4>4. /\ Good(config, pass, f, Pushed(ly, t), Append(sv, Index(ly)))
            /\ Covered(Pushed(ly, t), Append(sv, Index(ly))) /\ Pushed(ly, t).state = "not_offloaded"
        BY <3>1, <4>3, PushIndexGood
      <4> QED  BY <4>4 DEF new, x, ly, sv
    <3>9. Len(Append(saved[f], x)) = k  BY <1>2, <2>0, <3>6
    <3> QED  BY <3>2, <3>4, <3>9
  <2> QED  BY <1>3, <2>1, <2>2
<1>6. HostTyped' /\ Phase'
  <2>1. k + 1 \in 1..N + 1 /\ k + 1 \in Nat  BY <1>1
  <2>2. /\ config \in Configs /\ pass \in Nat /\ f \in Layers
        /\ previousBwd \in Layers \cup {None} /\ currentLayer \in Layers \cup {None}
        /\ previousBwd = None /\ agenda = <<>>
    BY <1>1 DEF HInv, HostTyped, Phase
  <2> QED  BY <1>3, <1>4, <2>1, <2>2 DEF HostTyped, Phase
<1>7. OnSchedule'
  <2> SUFFICES ASSUME config.mode = "default"
               PROVE  \E b \in 0..NumLayers : SchedulePhase(b)' /\ \A l \in Layers : ScheduleLayer(l, b)'
    BY <1>3, <1>4 DEF OnSchedule, Schedule
  <2>1. PICK b \in 0..NumLayers : Schedule(b)  BY DEF HInv, OnSchedule
  <2>2. SchedulePhase(b)' /\ b = NumLayers  BY <1>3, <1>4, <2>1 DEF Schedule, SchedulePhase, f
  <2>3. ASSUME NEW l \in Layers  PROVE ScheduleLayer(l, b)'
    <3>1. ~Gone("forward", l, b)  BY <2>2, ConfigIs DEF HInv, Gone
    <3>2. ScheduleLayer(l, b)  BY <2>1 DEF Schedule
    <3>3. layers'[l].state = layers[l].state /\ (l # f => saved'[l] = saved[l])  BY <1>2, <1>4, <1>5
    <3> QED  BY <1>3, <3>1, <3>2, <3>3 DEF ScheduleLayer, Filling, f
  <2> QED  BY <2>2, <2>3
<1>8. ASSUME NEW l \in Layers  PROVE LayerInv(l)'
  <2>1. Good(config, pass, l, layers[l], saved[l]) /\ Lengths(l) /\ Ahead(l)  BY <1>1 DEF LayerInv
  <2>2. CASE l # f
    <3>1. Good(config, pass, l, layers[l], saved[l])'  BY <1>3, <1>4, <2>1, <2>2
    <3>2. Lengths(l)'  BY <1>3, <1>4, <2>1, <2>2 DEF Lengths, Filling, Spent, f
    <3>3. Ahead(l)'  BY <1>3, <1>4, <2>1, <2>2 DEF Ahead, f
    <3> QED  BY <3>1, <3>2, <3>3 DEF LayerInv
  <2>3. CASE l = f
    <3>1. Good(config, pass, l, layers[l], saved[l])'  BY <1>3, <1>5, <2>3
    <3>2. Lengths(l)'
      <4>1. (k + 1) - 1 = k  BY <1>1
      <4>2. Filling(l)' /\ ~Spent(l)'  BY <1>3, <2>3 DEF Filling, Spent
      <4> QED  BY <1>3, <1>5, <2>3, <4>1, <4>2 DEF Lengths
    <3>3. Ahead(l)'
      <4>1. ~(f < f) /\ f # None  BY <1>1 DEF Layers
      <4> QED  BY <1>3, <2>3, <4>1 DEF Ahead
    <3> QED  BY <3>1, <3>2, <3>3 DEF LayerInv
  <2> QED  BY <2>2, <2>3
<1> QED  BY <1>4, <1>6, <1>7, <1>8 DEF HInv

\* Memory handed out is free, and each block is handed out once.
LEMMA Allocated ==
  ASSUME NEW ls, NEW sv, NEW n \in Nat, Fits(n, FreeBlocks(ls, sv))
  PROVE  /\ \A i \in 1..n :
              /\ Allocate(n, FreeBlocks(ls, sv))[i] \in Blocks
              /\ \A l \in Layers : Allocate(n, FreeBlocks(ls, sv))[i] \notin HeldBy(ls, sv, l)
         /\ \A i, j \in 1..n :
              Allocate(n, FreeBlocks(ls, sv))[i] = Allocate(n, FreeBlocks(ls, sv))[j] => i = j
<1> DEFINE F == FreeBlocks(ls, sv)
<1>1. F \in SUBSET Blocks /\ \A b \in F : \A l \in Layers : b \notin HeldBy(ls, sv, l)
  BY DEF FreeBlocks
<1>2. IsFiniteSet(F) /\ F \in SUBSET Nat
  <2> HIDE DEF F
  <2> QED  BY <1>1, OffloadAssumption, FS_Subset
<1>3. n <= Cardinality(F) /\ Allocate(n, F) = Least(n, F)  BY DEF Fits, Allocate
<1> HIDE DEF F
<1>4. /\ \A i \in 1..n : Least(n, F)[i] \in F
      /\ \A i, j \in 1..n : Least(n, F)[i] = Least(n, F)[j] => i = j
  BY <1>2, <1>3, LeastElements
<1> QED  BY <1>1, <1>3, <1>4 DEF F

LEMMA OneFits ==
  ASSUME NEW ls, NEW sv, FreeBlocks(ls, sv) # {}
  PROVE  Fits(1, FreeBlocks(ls, sv))
<1> DEFINE F == FreeBlocks(ls, sv)
<1>1. F \in SUBSET Blocks /\ F # {}  BY DEF FreeBlocks
<1> HIDE DEF F
<1>2. IsFiniteSet(F)  BY <1>1, OffloadAssumption, FS_Subset
<1>3. Cardinality(F) \in Nat /\ Cardinality(F) # 0  BY <1>1, <1>2, FS_CardinalityType, FS_EmptySet
<1> QED  BY <1>3 DEF Fits, F

\* What is put on a stream comes after what is there.
LEMMA PutMain ==
  ASSUME NEW Q, NEW D, QueuesTyped(Q, D), NEW ops \in Seq(MainOps(End(Q, D, "copy")))
  PROVE  /\ QueuesTyped(Put(Q, "main", ops), D)
         /\ End(Put(Q, "main", ops), D, "main") = End(Q, D, "main") + Len(ops)
         /\ End(Put(Q, "main", ops), D, "copy") = End(Q, D, "copy")
         /\ End(Q, D, "main") \in Nat /\ End(Q, D, "copy") \in Nat /\ Len(ops) \in Nat
<1> DEFINE e == End(Q, D, "main")
           A == MainOps(End(Q, D, "copy"))
           q == Q["main"]
           R == Put(Q, "main", ops)
<1>1. /\ q \in Seq(A) /\ Q["copy"] \in Seq(CopyOps(e)) /\ DOMAIN Q = Streams
      /\ D \in [Streams -> Nat] /\ D["main"] \in Nat /\ D["copy"] \in Nat /\ ops \in Seq(A)
  BY DEF QueuesTyped, Streams
<1>2. R["main"] = q \o ops /\ R["copy"] = Q["copy"] /\ DOMAIN R = Streams  BY <1>1 DEF Put, Streams
<1>3. /\ q \o ops \in Seq(A) /\ Len(q \o ops) = Len(q) + Len(ops)
      /\ Len(q) \in Nat /\ Len(ops) \in Nat
  <2> HIDE DEF A, q
  <2> QED  BY <1>1
<1>4. Len(Q["copy"]) \in Nat
  <2> DEFINE C == CopyOps(e)
  <2>1. Q["copy"] \in Seq(C)  BY <1>1
  <2> HIDE DEF C
  <2> QED  BY <2>1
<1> HIDE DEF R
<1>5. End(R, D, "main") = e + Len(ops) /\ e \in Nat
  <2>1. End(R, D, "main") = D["main"] + Len(q \o ops) /\ e = D["main"] + Len(q)  BY <1>2 DEF End, q
  <2> HIDE DEF q, e
  <2> QED  BY <1>1, <1>3, <2>1
<1>6. End(R, D, "copy") = End(Q, D, "copy") /\ End(Q, D, "copy") \in Nat
  BY <1>1, <1>2, <1>4 DEF End
<1>7. R["copy"] \in Seq(CopyOps(e + Len(ops)))
  <2>1. 0..e \subseteq 0..e + Len(ops)  BY <1>3, <1>5
  <2>2. CopyOps(e) \subseteq CopyOps(e + Len(ops))
    <3> HIDE DEF e
    <3> QED  BY <2>1 DEF CopyOps, WaitsFor
  <2> DEFINE B == CopyOps(e)
             C == CopyOps(e + Len(ops))
  <2>3. Q["copy"] \in Seq(B) /\ B \subseteq C  BY <1>1, <2>2
  <2> HIDE DEF B, C
  <2>4. Q["copy"] \in Seq(C)  BY <2>3
  <2> QED  BY <1>2, <2>4 DEF C
<1> HIDE DEF e
<1>8. QueuesTyped(R, D)  BY <1>1, <1>2, <1>3, <1>5, <1>6, <1>7 DEF QueuesTyped
<1> QED  BY <1>3, <1>5, <1>6, <1>8 DEF R, e

LEMMA PutCopy ==
  ASSUME NEW Q, NEW D, QueuesTyped(Q, D), NEW ops \in Seq(CopyOps(End(Q, D, "main")))
  PROVE  /\ QueuesTyped(Put(Q, "copy", ops), D)
         /\ End(Put(Q, "copy", ops), D, "copy") = End(Q, D, "copy") + Len(ops)
         /\ End(Put(Q, "copy", ops), D, "main") = End(Q, D, "main")
         /\ End(Q, D, "copy") \in Nat /\ End(Q, D, "main") \in Nat /\ Len(ops) \in Nat
<1> DEFINE e == End(Q, D, "copy")
           A == CopyOps(End(Q, D, "main"))
           q == Q["copy"]
           R == Put(Q, "copy", ops)
<1>1. /\ q \in Seq(A) /\ Q["main"] \in Seq(MainOps(e)) /\ DOMAIN Q = Streams
      /\ D \in [Streams -> Nat] /\ D["copy"] \in Nat /\ D["main"] \in Nat /\ ops \in Seq(A)
  BY DEF QueuesTyped, Streams
<1>2. R["copy"] = q \o ops /\ R["main"] = Q["main"] /\ DOMAIN R = Streams  BY <1>1 DEF Put, Streams
<1>3. /\ q \o ops \in Seq(A) /\ Len(q \o ops) = Len(q) + Len(ops)
      /\ Len(q) \in Nat /\ Len(ops) \in Nat
  <2> HIDE DEF A, q
  <2> QED  BY <1>1
<1>4. Len(Q["main"]) \in Nat
  <2> DEFINE C == MainOps(e)
  <2>1. Q["main"] \in Seq(C)  BY <1>1
  <2> HIDE DEF C
  <2> QED  BY <2>1
<1> HIDE DEF R
<1>5. End(R, D, "copy") = e + Len(ops) /\ e \in Nat
  <2>1. End(R, D, "copy") = D["copy"] + Len(q \o ops) /\ e = D["copy"] + Len(q)  BY <1>2 DEF End, q
  <2> HIDE DEF q, e
  <2> QED  BY <1>1, <1>3, <2>1
<1>6. End(R, D, "main") = End(Q, D, "main") /\ End(Q, D, "main") \in Nat
  BY <1>1, <1>2, <1>4 DEF End
<1>7. R["main"] \in Seq(MainOps(e + Len(ops)))
  <2>1. 0..e \subseteq 0..e + Len(ops)  BY <1>3, <1>5
  <2>2. MainOps(e) \subseteq MainOps(e + Len(ops))
    <3> HIDE DEF e
    <3> QED  BY <2>1 DEF MainOps, WaitsFor
  <2> DEFINE B == MainOps(e)
             C == MainOps(e + Len(ops))
  <2>3. Q["main"] \in Seq(B) /\ B \subseteq C  BY <1>1, <2>2
  <2> HIDE DEF B, C
  <2>4. Q["main"] \in Seq(C)  BY <2>3
  <2> QED  BY <1>2, <2>4 DEF C
<1> HIDE DEF e
<1>8. QueuesTyped(R, D)  BY <1>1, <1>2, <1>3, <1>5, <1>6, <1>7 DEF QueuesTyped
<1> QED  BY <1>3, <1>5, <1>6, <1>8 DEF R, e

LEMMA PutNow ==
  ASSUME DeviceTyped, NEW ops \in Seq(MainOps(End(queue, done, "copy")))
  PROVE  /\ Now("main", Put(queue, "main", ops)) = Now("main", queue) + Len(ops)
         /\ Now("main", Put(queue, "main", ops)) \in Nat
BY PutMain DEF DeviceTyped, Now, End

\* The operation of a kernel that computes a tensor.
ComputeOp(block) == [op |-> "compute", block |-> block, value |-> Value(pass, numOfFwds, Saves[k])]

LEMMA ComputeOpIs ==
  ASSUME HInv, pc = "forward", k <= N, NEW block \in Blocks, NEW e
  PROVE  <<ComputeOp(block)>> \in Seq(MainOps(e))
<1>1. pass \in Nat /\ numOfFwds \in Nat /\ k \in 1..N
  BY ConfigIs, CountFinite DEF HInv, HostTyped, Phase
<1>2. Saves[k] \in Range(Saves)  BY <1>1 DEF Range, N
<1>3. Value(pass, numOfFwds, Saves[k]) \in Values  BY <1>1, <1>2 DEF Value, Values
<1>4. ComputeOp(block) \in MainOps(e)  BY <1>3 DEF ComputeOp, MainOps
<1> QED  BY <1>4

\* The layer whose forward runs.
LEMMA FillingIs ==
  ASSUME HInv, pc = "forward", k <= N
  PROVE  /\ numOfFwds \in Layers /\ k \in 1..N /\ Len(saved[numOfFwds]) = k - 1
         /\ 1..Len(saved[numOfFwds]) = 1..k - 1
         /\ Good(config, pass, numOfFwds, layers[numOfFwds], saved[numOfFwds])
         /\ layers[numOfFwds].state = "not_offloaded"
         /\ \A j \in 1..k - 1 :
              IF Direct(config, numOfFwds) \/ Saves[j] \in Kept
              THEN ~IsIndex(numOfFwds, j) /\ At(numOfFwds, j) \in Blocks
              ELSE IsIndex(numOfFwds, j) /\ At(numOfFwds, j) \in DOMAIN layers[numOfFwds].fwd
         /\ \A i, j \in 1..k - 1 : IsIndex(numOfFwds, i) /\ IsIndex(numOfFwds, j) =>
              ((layers[numOfFwds].fwd[At(numOfFwds, i)].block =
                layers[numOfFwds].fwd[At(numOfFwds, j)].block) <=> Saves[i] = Saves[j])
<1> DEFINE f == numOfFwds
<1>1. f \in Layers /\ LayerInv(f) /\ k \in 1..N  BY CountFinite DEF HInv, HostTyped, Phase
<1>2. Len(saved[f]) = k - 1 /\ layers[f].state = "not_offloaded" /\ 1..Len(saved[f]) = 1..k - 1
  BY <1>1 DEF LayerInv, Lengths, Filling
<1>3. Good(config, pass, f, layers[f], saved[f])  BY <1>1 DEF LayerInv
<1> HIDE DEF f
<1>4. \A j \in 1..k - 1 :
        IF Direct(config, f) \/ Saves[j] \in Kept THEN ~IsIndex(f, j) /\ At(f, j) \in Blocks
        ELSE IsIndex(f, j) /\ At(f, j) \in DOMAIN layers[f].fwd
  BY <1>2, <1>3 DEF Good, SavedAre, Group, IsIndex, At
<1>5. \A i, j \in 1..k - 1 : IsIndex(f, i) /\ IsIndex(f, j) =>
        ((layers[f].fwd[At(f, i)].block = layers[f].fwd[At(f, j)].block) <=> Saves[i] = Saves[j])
  BY <1>2, <1>3 DEF Good, OneBlockEach, IsIndex, At
<1> QED  BY <1>1, <1>2, <1>3, <1>4, <1>5 DEF f

LEMMA SaveTensorHost ==
  ASSUME HInv, DeviceTyped, SaveTensor
  PROVE  HInv'
<1> DEFINE f == numOfFwds
           F == FreeBlocks(layers, saved)
           block == Allocate(1, F)[1]
           q == Put(queue, "main", <<ComputeOp(block)>>)
<1>1. /\ pc = "forward" /\ k <= N /\ Earlier = {} /\ F # {}
      /\ Push(f, block, q)
  BY DEF SaveTensor, N, ComputeOp
<1>2. block \in Blocks /\ \A l \in Layers : block \notin HeldBy(layers, saved, l)
  BY <1>1, OneFits, Allocated
<1>3. Now("main", q) \in Nat  BY <1>1, <1>2, ComputeOpIs, PutNow
<1>4. ASSUME NEW j \in 1..k - 1, IsIndex(f, j)
      PROVE  layers[f].fwd[At(f, j)].block # block /\ Saves[j] # Saves[k]
  <2>1. f \in Layers /\ At(f, j) \in DOMAIN layers[f].fwd  BY <1>1, <1>4, FillingIs
  <2>2. layers[f].fwd[At(f, j)].block \in HeldBy(layers, saved, f)  BY <2>1 DEF HeldBy, GroupBlocks
  <2>3. j \notin Earlier  BY <1>1
  <2> QED  BY <1>2, <1>4, <2>1, <2>2, <2>3 DEF Earlier
<1> HIDE DEF block, q, F
<1> QED  BY <1>1, <1>2, <1>3, <1>4, PushHost

LEMMA SaveAgainHost ==
  ASSUME HInv, DeviceTyped, SaveAgain
  PROVE  HInv'
<1> DEFINE f == numOfFwds
           j == CHOOSE i \in Earlier : TRUE
           block == IF saved[f][j].kind = "tensor" THEN saved[f][j].at
                    ELSE layers[f].fwd[saved[f][j].at].block
<1>1. pc = "forward" /\ k <= N /\ j \in Earlier /\ Push(f, block, queue)  BY DEF SaveAgain, N
<1> HIDE DEF j
<1>2. j \in 1..k - 1 /\ Saves[j] = Saves[k]  BY <1>1 DEF Earlier
<1>3. /\ f \in Layers
      /\ IF Direct(config, f) \/ Saves[j] \in Kept THEN ~IsIndex(f, j) /\ At(f, j) \in Blocks
         ELSE IsIndex(f, j) /\ At(f, j) \in DOMAIN layers[f].fwd
      /\ layers[f].fwd \in Seq(Tensors) /\ saved[f][j].kind \in {"tensor", "index"}
  <2>1. saved[f] \in Seq(Items) /\ layers[f].fwd \in Seq(Tensors) /\ j \in 1..Len(saved[f])
    BY <1>1, <1>2, FillingIs DEF Good, SavedAre, Typed
  <2>2. saved[f][j] \in Items  BY <2>1
  <2>3. saved[f][j].kind \in {"tensor", "index"}  BY <2>2 DEF Items
  <2> QED  BY <1>1, <1>2, <2>1, <2>3, FillingIs
<1>4. block \in Blocks
  <2>1. CASE IsIndex(f, j)
    <3>1. layers[f].fwd[At(f, j)] \in Tensors  BY <1>3, <2>1
    <3> QED  BY <2>1, <3>1 DEF IsIndex, At, Tensors
  <2>2. CASE ~IsIndex(f, j)  BY <1>3, <2>2 DEF IsIndex, At
  <2> QED  BY <2>1, <2>2
<1>5. ASSUME ~Direct(config, f), Saves[k] \notin Kept, NEW i \in 1..k - 1, IsIndex(f, i)
      PROVE  (layers[f].fwd[At(f, i)].block = block) <=> Saves[i] = Saves[k]
  <2>1. IsIndex(f, j) /\ block = layers[f].fwd[At(f, j)].block  BY <1>2, <1>3, <1>5 DEF IsIndex, At
  <2> HIDE DEF block
  <2> QED  BY <1>1, <1>2, <1>5, <2>1, FillingIs
<1>6. Now("main", queue) \in Nat  BY NowIs
<1> HIDE DEF block
<1> QED  BY <1>1, <1>4, <1>5, <1>6, PushHost

\* A manual call, or what the hooks of the default schedule do, for one layer.
ManualStep(l) ==
  /\ pc = "idle" /\ config.mode = "manual" /\ l \in Unused
  /\ layers' = [layers EXCEPT ![l] = layers'[l]]
  /\ UNCHANGED <<config, numOfFwds, previousBwd, currentLayer, scriptVars>>

LEMMA ManualHost ==
  ASSUME HInv, NEW l \in Layers, ManualStep(l),
         Good(config, pass, l, layers'[l], saved[l]), Covered(layers'[l], saved[l]),
         layers'[l].state # "not_offloaded"
  PROVE  HInv'
<1>1. /\ pc = "idle" /\ config.mode = "manual" /\ saved[l] # <<>>
      /\ config' = config /\ numOfFwds' = numOfFwds /\ previousBwd' = previousBwd
      /\ currentLayer' = currentLayer /\ saved' = saved /\ pc' = pc /\ k' = k
      /\ agenda' = agenda /\ pass' = pass
      /\ layers' = [layers EXCEPT ![l] = layers'[l]]
  BY DEF ManualStep, scriptVars, Unused
<1>2. /\ DOMAIN layers = Layers /\ \A x \in Layers : LayerInv(x)
      /\ previousBwd = None /\ agenda = <<>> /\ None \notin Layers
  BY <1>1, ConfigIs DEF HInv, HostTyped, Phase
<1>3. /\ Layers' = Layers /\ NumLayers' = NumLayers /\ DOMAIN layers' = Layers
      /\ \A x \in Layers : x # l => layers'[x] = layers[x]
  <2>1. DOMAIN [layers EXCEPT ![l] = layers'[l]] = Layers  BY <1>2
  <2>2. \A x \in Layers : x # l => [layers EXCEPT ![l] = layers'[l]][x] = layers[x]  BY <1>2
  <2>3. Layers' = Layers /\ NumLayers' = NumLayers  BY <1>1 DEF Layers, NumLayers
  <2> QED  BY <1>1, <2>1, <2>2, <2>3
<1>4. HostTyped' /\ Phase' /\ OnSchedule'
  BY <1>1, <1>2, <1>3 DEF HInv, HostTyped, Phase, OnSchedule
<1>5. ASSUME NEW x \in Layers  PROVE LayerInv(x)'
  <2>1. Good(config, pass, x, layers[x], saved[x]) /\ Lengths(x) /\ Ahead(x)  BY <1>2 DEF LayerInv
  <2>2. CASE x # l  BY <1>1, <1>3, <2>1, <2>2 DEF LayerInv, Lengths, Filling, Spent, Ahead
  <2>3. CASE x = l
    <3>1. Len(saved[l]) = N  BY <1>1, <2>1, <2>3 DEF Lengths, Filling
    <3>2. Lengths(l)'  BY <1>1, <1>2, <3>1 DEF Lengths, Filling, Spent
    <3>3. Ahead(l)'  BY <1>1, <2>1, <2>3 DEF Ahead
    <3> QED  BY <1>1, <2>3, <3>2, <3>3 DEF LayerInv
  <2> QED  BY <2>2, <2>3
<1> QED  BY <1>3, <1>4, <1>5 DEF HInv

\* The layer of a manual call has saved all its tensors.
LEMMA ManualIs ==
  ASSUME HInv, pc = "idle", config.mode = "manual", NEW l \in Unused
  PROVE  /\ l \in Layers /\ Len(saved[l]) = N /\ ~Direct(config, l)
         /\ Good(config, pass, l, layers[l], saved[l]) /\ Covered(layers[l], saved[l])
         /\ DOMAIN layers = Layers
BY DEF Unused, HInv, HostTyped, LayerInv, Lengths, Filling, Spent, Direct

LEMMA StartOffloadLayerHost ==
  ASSUME HInv, DeviceTyped, StartOffloadLayer
  PROVE  HInv'
<1>1. PICK l \in Unused :
        /\ layers[l].state = "not_offloaded"
        /\ layers' = [layers EXCEPT ![l] = StartOffload(l, @, queue)]
  BY DEF StartOffloadLayer
<1>2. pc = "idle" /\ config.mode = "manual"  BY DEF StartOffloadLayer
<1>3. /\ l \in Layers /\ Len(saved[l]) = N /\ ~Direct(config, l)
      /\ Good(config, pass, l, layers[l], saved[l]) /\ Covered(layers[l], saved[l])
      /\ DOMAIN layers = Layers
  BY <1>2, ManualIs
<1>4. layers'[l] = StartOffload(l, layers[l], queue)  BY <1>1, <1>3
<1>5. ManualStep(l)
  <2>1. layers' = [layers EXCEPT ![l] = layers'[l]]  BY <1>1, <1>4
  <2> QED  BY <1>2, <2>1 DEF ManualStep, StartOffloadLayer
<1>6. /\ Good(config, pass, l, layers'[l], saved[l]) /\ Covered(layers'[l], saved[l])
      /\ layers'[l].state # "not_offloaded"
  BY <1>1, <1>3, <1>4, NowIs, StartOffloadGood
<1> QED  BY <1>3, <1>5, <1>6, ManualHost

LEMMA ReleaseActivationHost ==
  ASSUME HInv, DeviceTyped, ReleaseActivationForwardGpuMemory
  PROVE  HInv'
<1>1. PICK l \in Unused :
        /\ layers[l].state = "offload_started"
        /\ layers' = [layers EXCEPT ![l] = ReleaseForward(@)]
  BY DEF ReleaseActivationForwardGpuMemory
<1>2. pc = "idle" /\ config.mode = "manual"  BY DEF ReleaseActivationForwardGpuMemory
<1>3. /\ l \in Layers /\ Len(saved[l]) = N /\ ~Direct(config, l)
      /\ Good(config, pass, l, layers[l], saved[l]) /\ Covered(layers[l], saved[l])
      /\ DOMAIN layers = Layers
  BY <1>2, ManualIs
<1>4. layers'[l] = ReleaseForward(layers[l])  BY <1>1, <1>3
<1>5. ManualStep(l)
  <2>1. layers' = [layers EXCEPT ![l] = layers'[l]]  BY <1>1, <1>4
  <2> QED  BY <1>2, <2>1 DEF ManualStep, ReleaseActivationForwardGpuMemory
<1>6. /\ Good(config, pass, l, layers'[l], saved[l]) /\ Covered(layers'[l], saved[l])
      /\ layers'[l].state # "not_offloaded"
  BY <1>1, <1>3, <1>4, ReleaseForwardGood
<1> QED  BY <1>3, <1>5, <1>6, ManualHost

\* A reload is into as many free blocks as the layer has buffers.
LEMMA ReloadGood ==
  ASSUME DeviceTyped, NEW l, NEW ly, NEW sv, Good(config, pass, l, ly, sv), Covered(ly, sv),
         ly.state = "offload_finished", NEW ls, NEW sw, Fits(Len(ly.cpu), FreeBlocks(ls, sw)),
         NEW blocks, blocks = Allocate(Len(ly.cpu), FreeBlocks(ls, sw))
  PROVE  /\ Good(config, pass, l, StartReload(ly, blocks, queue), sv)
         /\ Covered(StartReload(ly, blocks, queue), sv)
         /\ StartReload(ly, blocks, queue).state = "reload_started"
<1>1. Len(ly.cpu) = Count /\ Count \in Nat
  <2>1. ly.cpu = Buffers(config, pass, l) /\ Count \in Nat  BY CountFinite DEF Good, Shape
  <2>2. Len(Buffers(config, pass, l)) = Count  BY <2>1 DEF Buffers
  <2> QED  BY <2>1, <2>2
<1>2. \A n \in 1..Count : blocks[n] \in Blocks  BY <1>1, Allocated
<1> QED  BY <1>2, NowIs, StartReloadGood

LEMMA StartReloadLayerHost ==
  ASSUME HInv, DeviceTyped, StartReloadLayer
  PROVE  HInv'
<1>1. PICK l \in Unused :
        /\ layers[l].state = "offload_finished"
        /\ Fits(Len(layers[l].cpu), FreeBlocks(layers, saved))
        /\ layers' = [layers EXCEPT ![l] =
             StartReload(@, Allocate(Len(layers[l].cpu), FreeBlocks(layers, saved)), queue)]
  BY DEF StartReloadLayer
<1>2. pc = "idle" /\ config.mode = "manual"  BY DEF StartReloadLayer
<1>3. /\ l \in Layers /\ Len(saved[l]) = N /\ ~Direct(config, l)
      /\ Good(config, pass, l, layers[l], saved[l]) /\ Covered(layers[l], saved[l])
      /\ DOMAIN layers = Layers
  BY <1>2, ManualIs
<1> DEFINE blocks == Allocate(Len(layers[l].cpu), FreeBlocks(layers, saved))
<1>4. layers'[l] = StartReload(layers[l], blocks, queue)  BY <1>1, <1>3
<1>5. ManualStep(l)
  <2>1. layers' = [layers EXCEPT ![l] = layers'[l]]  BY <1>1, <1>4
  <2> QED  BY <1>2, <2>1 DEF ManualStep, StartReloadLayer
<1>6. /\ Good(config, pass, l, layers'[l], saved[l]) /\ Covered(layers'[l], saved[l])
      /\ layers'[l].state # "not_offloaded"
  BY <1>1, <1>3, <1>4, ReloadGood
<1> QED  BY <1>3, <1>5, <1>6, ManualHost

\* Layers from l down to m.
LEMMA DownIs ==
  ASSUME NEW l \in Nat, NEW m \in 0..l, NEW A, 0..l \subseteq A
  PROVE  /\ Down(l, m) \in Seq(A) /\ Len(Down(l, m)) = l - m + 1 /\ Down(l, m) # <<>>
         /\ DOMAIN Down(l, m) = 1..l - m + 1
         /\ Head(Down(l, m)) = l /\ Down(l, m)[1] = l
         /\ \A i \in 1..l - m + 1 : Down(l, m)[i] = l + 1 - i
         /\ m = l => Tail(Down(l, m)) = <<>>
         /\ m < l => Tail(Down(l, m)) = Down(l - 1, m)
<1> DEFINE n == l - m + 1
           d == Down(l, m)
<1>1. n \in Nat /\ n >= 1 /\ d = [i \in 1..n |-> l + 1 - i]  BY DEF Down
<1>2. \A i \in 1..n : l + 1 - i \in 0..l /\ l + 1 - i \in A  OBVIOUS
<1> HIDE DEF n, d
<1>3. d \in [1..n -> A]  BY <1>1, <1>2
<1>4. d \in Seq(A) /\ Len(d) = n /\ DOMAIN d = 1..n  BY <1>1, <1>3
<1>5. d # <<>> /\ d[1] = l /\ Head(d) = l
  <2>1. d[1] = l  BY <1>1
  <2> QED  BY <1>1, <1>4, <2>1
<1>6. Tail(d) \in Seq(A) /\ Len(Tail(d)) = n - 1 /\ \A i \in 1..n - 1 : Tail(d)[i] = l - i
  <2>1. Tail(d) \in Seq(A) /\ Len(Tail(d)) = n - 1
    <3> DEFINE t == Tail(d)
    <3>1. t \in Seq(A) /\ Len(t) = Len(d) - 1  BY <1>4, <1>5
    <3> HIDE DEF t
    <3>2. Len(t) = n - 1  BY <1>4, <3>1
    <3> QED  BY <3>1, <3>2 DEF t
  <2>2. ASSUME NEW i \in 1..n - 1  PROVE Tail(d)[i] = l - i
    <3>1. Tail(d)[i] = d[i + 1]  BY <1>1, <1>4, <1>5, <2>1
    <3>2. i + 1 \in 1..n  BY <1>1
    <3> QED  BY <1>1, <3>1, <3>2
  <2> QED  BY <2>1, <2>2
<1>7. m = l => Tail(d) = <<>>
  <2> SUFFICES ASSUME m = l  PROVE Tail(d) = <<>>
    OBVIOUS
  <2> DEFINE t == Tail(d)
  <2>1. n - 1 = 0  BY DEF n
  <2>2. t \in Seq(A) /\ Len(t) = 0  BY <1>6, <2>1
  <2> HIDE DEF t
  <2>3. t = <<>>  BY <2>2
  <2> QED  BY <2>3 DEF t
<1>8. m < l => Tail(d) = Down(l - 1, m)
  <2> SUFFICES ASSUME m < l  PROVE Tail(d) = Down(l - 1, m)
    OBVIOUS
  <2>1. n - 1 = (l - 1) - m + 1 /\ n - 1 \in Nat  BY <1>1 DEF n
  <2>2. Down(l - 1, m) = [i \in 1..n - 1 |-> l - i]
    <3>1. \A i \in 1..n - 1 : (l - 1) + 1 - i = l - i  BY <1>1
    <3>2. Down(l - 1, m) = [i \in 1..n - 1 |-> (l - 1) + 1 - i]  BY <2>1 DEF Down
    <3> QED  BY <3>1, <3>2
  <2>3. Tail(d) = [i \in 1..n - 1 |-> Tail(d)[i]]
    <3> DEFINE t == Tail(d)
               x == n - 1
    <3>1. t \in Seq(A) /\ Len(t) = x /\ x \in Nat  BY <1>6, <2>1
    <3> HIDE DEF t, x
    <3>2. t \in [1..x -> A]  BY <3>1
    <3>3. t = [i \in 1..x |-> t[i]]  BY <3>2
    <3> QED  BY <3>3 DEF t, x
  <2> QED  BY <1>6, <2>2, <2>3
<1> QED  BY <1>1, <1>4, <1>5, <1>7, <1>8 DEF n, d

\* What changes no layer, and no tensor that is saved.
LEMMA LayersKept ==
  ASSUME \A l \in Layers : LayerInv(l), config' = config, numOfFwds' = numOfFwds, layers' = layers,
         saved' = saved, pass' = pass,
         \A l \in Layers : Filling(l)' <=> Filling(l), \A l \in Layers : Spent(l)' <=> Spent(l),
         pc = "forward" => k' = k
  PROVE  \A l \in Layers : LayerInv(l)'
<1> SUFFICES ASSUME NEW l \in Layers  PROVE LayerInv(l)'
  OBVIOUS
<1>1. Good(config, pass, l, layers[l], saved[l]) /\ Lengths(l) /\ Ahead(l)  BY DEF LayerInv
<1>2. Good(config, pass, l, layers[l], saved[l])'  BY <1>1
<1>3. Ahead(l)'  BY <1>1 DEF Ahead
<1>4. Filling(l)' <=> Filling(l)  OBVIOUS
<1>5. Spent(l)' <=> Spent(l)  OBVIOUS
<1>6. Filling(l) => k' = k  BY DEF Filling
<1>7. Lengths(l)'  BY <1>1, <1>4, <1>5, <1>6 DEF Lengths
<1> QED  BY <1>2, <1>3, <1>7 DEF LayerInv

\* autograd starts on a backward.
LEMMA StartBackwardHost ==
  ASSUME HInv, StartBackward
  PROVE  HInv'
<1> DEFINE M == NumLayers
<1>1. /\ pc = "idle" /\ agenda' \in Agendas /\ pc' = "hook"
      /\ config' = config /\ numOfFwds' = numOfFwds /\ previousBwd' = previousBwd
      /\ currentLayer' = currentLayer /\ layers' = layers /\ saved' = saved /\ k' = k
      /\ pass' = pass
  BY DEF StartBackward, syncVars
<1>2. /\ M \in Nat \ {0} /\ Layers = 0..M - 1 /\ None \notin Layers /\ previousBwd = None
      /\ \A l \in Layers : LayerInv(l)
      /\ Layers' = Layers /\ NumLayers' = M /\ M' = M
  BY <1>1, ConfigIs DEF HInv, HostTyped, Phase, Layers, NumLayers
<1> HIDE DEF M
<1>3. \A l \in Layers : saved[l] # <<>> => Len(saved[l]) = N
  BY <1>1, <1>2 DEF LayerInv, Lengths, Filling
<1>4. \A l \in Layers : LayerInv(l)'
  <2>1. \A l \in Layers : (Filling(l)' <=> Filling(l)) /\ (Spent(l)' <=> Spent(l))
    BY <1>1, <1>2 DEF Filling, Spent
  <2> QED  BY <1>1, <1>2, <2>1, LayersKept
<1>5. HostTyped'  BY <1>1, <1>2 DEF HInv, HostTyped
<1>6. CASE config.mode = "default"
  <2>1. numOfFwds = M - 1 /\ Unused = Layers  BY <1>1, <1>6 DEF Agendas, ForwardDone, M
  <2>2. PICK m \in 0..M - 1 : agenda' = Down(M - 1, m)
    BY <1>1, <1>2, <1>6, <2>1 DEF Agendas, ForwardDone, M
  <2>3. M - 1 \in Nat /\ 0..M - 1 \subseteq Layers  BY <1>2
  <2>4. /\ agenda' \in Seq(Layers) /\ agenda' # <<>> /\ DOMAIN agenda' = 1..(M - 1) - m + 1
        /\ \A i \in 1..(M - 1) - m + 1 : agenda'[i] = (M - 1) + 1 - i
    BY <2>2, <2>3, DownIs
  <2>5. \A i \in DOMAIN agenda' : agenda'[i] \in Layers /\ Len(saved[agenda'[i]]) = N
    <3>1. \A l \in Layers : Len(saved[l]) = N  BY <1>3, <2>1 DEF Unused
    <3>2. \A i \in DOMAIN agenda' : agenda'[i] \in Layers  BY <1>2, <2>4
    <3> QED  BY <3>1, <3>2
  <2>6. \A i, j \in DOMAIN agenda' : agenda'[i] = agenda'[j] => i = j  BY <1>2, <2>3, <2>4
  <2>7. Phase'  BY <1>1, <1>2, <1>6, <2>4, <2>5, <2>6 DEF Phase
  <2>8. PICK b \in 0..M : Schedule(b)  BY <1>6 DEF HInv, OnSchedule, M
  <2>9. b = M
    <3>1. \A l \in Layers : ~Gone("idle", l, b)
      BY <1>1, <2>1, <2>8 DEF Schedule, ScheduleLayer, Unused
    <3>2. b < M => b \in Layers /\ Gone("idle", b, b)  BY <1>2 DEF Gone
    <3> QED  BY <1>2, <3>1, <3>2
  <2>10. SchedulePhase(M)'
    <3>1. M > 0 /\ ~(M < M)  BY <1>2
    <3> QED  BY <1>1, <1>2, <2>1, <2>2, <3>1 DEF SchedulePhase
  <2>11. ASSUME NEW l \in Layers  PROVE ScheduleLayer(l, M)'
    <3>1. ScheduleLayer(l, M)  BY <2>8, <2>9 DEF Schedule
    <3>2. ~Gone("hook", l, M) /\ l # M  BY <1>2 DEF Gone
    <3>3. StateAt(config, "hook", numOfFwds, l, M) = StateAt(config, "idle", numOfFwds, l, M)
      BY <3>2, StateKept
    <3> QED  BY <1>1, <1>2, <3>1, <3>2, <3>3 DEF ScheduleLayer, Filling
  <2>12. M \in 0..M  BY <1>2
  <2> QED  BY <1>2, <1>4, <1>5, <2>7, <2>10, <2>11, <2>12 DEF HInv, OnSchedule, Schedule
<1>7. CASE config.mode # "default"
  <2>1. PICK l \in Unused : /\ layers[l].state \in {"not_offloaded", "reload_started"}
                            /\ agenda' = <<l>>
    BY <1>1, <1>7 DEF Agendas
  <2>2. l \in Layers /\ Len(saved[l]) = N  BY <1>3 DEF Unused
  <2>3. /\ agenda' \in Seq(Layers) /\ agenda' # <<>> /\ Len(agenda') = 1 /\ DOMAIN agenda' = {1}
        /\ agenda'[1] = l
    BY <2>1, <2>2
  <2>4. Phase'  BY <1>1, <1>2, <2>1, <2>2, <2>3 DEF Phase
  <2> QED  BY <1>1, <1>2, <1>4, <1>5, <1>7, <2>4 DEF HInv, OnSchedule
<1> QED  BY <1>6, <1>7

\* pop_tensor.
LEMMA PopTensorHost ==
  ASSUME HInv, PopTensor
  PROVE  HInv' /\ layers[currentLayer].state \in {"not_offloaded", "reload_started"}
         /\ currentLayer = Head(agenda) /\ currentLayer \in Layers
<1> DEFINE l == currentLayer
           M == NumLayers
<1>1. /\ pc = "unpack" /\ k <= N
      /\ \/ layers[l].state \notin {"not_offloaded", "reload_started"}
         \/ /\ k' = k + 1
            /\ config' = config /\ numOfFwds' = numOfFwds /\ previousBwd' = previousBwd
            /\ currentLayer' = currentLayer /\ layers' = layers /\ saved' = saved /\ pc' = pc
            /\ pass' = pass /\ agenda' = agenda
  BY DEF PopTensor, syncVars, N
<1>2. /\ l = Head(agenda) /\ agenda \in Seq(Layers) /\ agenda # <<>>
      /\ M \in Nat \ {0} /\ Layers = 0..M - 1 /\ None \notin Layers /\ config.modelLayers = M
      /\ config.numLayers \in Nat /\ k \in 1..N + 1 /\ N \in Nat
      /\ config.mode \in {"default", "manual"} /\ None \notin Nat
      /\ \A x \in Layers : LayerInv(x)
  BY <1>1, ConfigIs, CountFinite DEF HInv, HostTyped, Phase
<1>3. l \in Layers /\ agenda[1] = Head(agenda)  BY <1>2
<1> HIDE DEF l, M
<1>4. layers[l].state \in {"not_offloaded", "reload_started"}
  <2>1. CASE config.mode = "default"
    <3>1. PICK b \in 0..M : Schedule(b)  BY <2>1 DEF HInv, OnSchedule, M
    <3>2. b = l /\ numOfFwds = M - 1  BY <1>1, <1>3, <3>1 DEF Schedule, SchedulePhase, l, M
    <3>3. layers[l].state = StateAt(config, "unpack", numOfFwds, l, l)
      BY <1>1, <1>3, <3>1, <3>2 DEF Schedule, ScheduleLayer
    <3>4. config.numLayers < M  BY <2>1, ConfigIs DEF HInv, M
    <3>5. /\ config.modelLayers \in Nat /\ config.numLayers \in Nat
          /\ config.numLayers < config.modelLayers /\ numOfFwds = config.modelLayers - 1
          /\ l \in 0..config.modelLayers - 1
      BY <1>2, <1>3, <3>2, <3>4
    <3>6. StateAt(config, "unpack", numOfFwds, l, l) \in {"not_offloaded", "reload_started"}
      BY <3>5, StateUnpack
    <3> QED  BY <3>3, <3>6
  <2>2. CASE config.mode = "manual"  BY <1>1, <1>2, <1>3, <2>2 DEF HInv, Phase
  <2> QED  BY <1>2, <2>1, <2>2
<1>5. /\ k' = k + 1
      /\ config' = config /\ numOfFwds' = numOfFwds /\ previousBwd' = previousBwd
      /\ currentLayer' = currentLayer /\ layers' = layers /\ saved' = saved /\ pc' = pc
      /\ pass' = pass /\ agenda' = agenda
  BY <1>1, <1>4
<1>6. Layers' = Layers /\ NumLayers' = NumLayers  BY <1>5 DEF Layers, NumLayers
<1>7. HostTyped'
  <2>1. k + 1 \in 1..N + 1 /\ k + 1 \in Nat  BY <1>1, <1>2
  <2> QED  BY <1>5, <1>6, <2>1 DEF HInv, HostTyped
<1>8. Phase'  BY <1>5, <1>6 DEF HInv, Phase
<1>9. OnSchedule'
  BY <1>1, <1>5, <1>6 DEF HInv, OnSchedule, Schedule, SchedulePhase, ScheduleLayer, Filling
<1>10. \A x \in Layers : LayerInv(x)'
  <2>1. \A x \in Layers : (Filling(x)' <=> Filling(x)) /\ (Spent(x)' <=> Spent(x))
    BY <1>5 DEF Filling, Spent
  <2> QED  BY <1>1, <1>2, <1>5, <2>1, LayersKept
<1> QED  BY <1>2, <1>3, <1>4, <1>6, <1>7, <1>8, <1>9, <1>10 DEF HInv, l

LEMMA EmptyGood ==
  ASSUME NEW c, NEW p, NEW l, NEW ly, NEW sv, Good(c, p, l, ly, sv)
  PROVE  Good(c, p, l, ly, <<>>)
<1>1. <<>> \in Seq(Items) /\ Len(<<>>) = 0 /\ N \in Nat  BY CountFinite
<1> QED  BY <1>1 DEF Good, SavedAre, OneBlockEach

\* autograd lets go of what the layer saved.
LEMMA EndLayerHost ==
  ASSUME HInv, EndLayer
  PROVE  HInv'
<1> DEFINE l == currentLayer
           M == NumLayers
<1>1. /\ pc = "unpack" /\ k > N /\ l = Head(agenda) /\ previousBwd = l
      /\ saved' = [saved EXCEPT ![l] = <<>>] /\ agenda' = Tail(agenda)
      /\ pc' = (IF Tail(agenda) = <<>> THEN "callback" ELSE "hook")
      /\ config' = config /\ numOfFwds' = numOfFwds /\ previousBwd' = previousBwd
      /\ currentLayer' = currentLayer /\ layers' = layers /\ k' = k /\ pass' = pass
  BY DEF EndLayer, syncVars, N, HInv, Phase
<1>2. /\ agenda \in Seq(Layers) /\ agenda # <<>>
      /\ M \in Nat \ {0} /\ Layers = 0..M - 1 /\ None \notin Layers /\ None \notin Nat
      /\ DOMAIN saved = Layers /\ \A x \in Layers : LayerInv(x)
      /\ \A i \in DOMAIN agenda : Len(saved[agenda[i]]) = N
      /\ \A i, j \in DOMAIN agenda : agenda[i] = agenda[j] => i = j
      /\ config.mode = "manual" => Len(agenda) = 1
      /\ config.mode \in {"default", "manual"}
  BY <1>1, ConfigIs DEF HInv, HostTyped, Phase
<1> DEFINE n == Len(agenda)
           t == Tail(agenda)
<1>3. /\ n \in Nat /\ n >= 1 /\ DOMAIN agenda = 1..n /\ agenda[1] = l /\ l \in Layers
      /\ t \in Seq(Layers) /\ Len(t) = n - 1 /\ DOMAIN t = 1..n - 1
      /\ \A i \in 1..n - 1 : t[i] = agenda[i + 1]
  <2> DEFINE A == Layers
  <2>1. agenda \in Seq(A) /\ agenda # <<>> /\ l = Head(agenda)  BY <1>1, <1>2
  <2> HIDE DEF A, l
  <2>2. /\ n \in Nat /\ n >= 1 /\ DOMAIN agenda = 1..n /\ agenda[1] = l /\ l \in A
        /\ t \in Seq(A) /\ Len(t) = n - 1 /\ DOMAIN t = 1..n - 1
        /\ \A i \in 1..n - 1 : t[i] = agenda[i + 1]
    BY <2>1
  <2> QED  BY <2>2 DEF A
<1>4. ASSUME NEW i \in 1..n - 1
      PROVE  t[i] \in Layers /\ t[i] # l /\ i + 1 \in DOMAIN agenda /\ t[i] = agenda[i + 1]
  <2>1. i + 1 \in 1..n /\ 1 \in 1..n /\ i + 1 # 1 /\ i \in Nat  BY <1>3
  <2>2. agenda[i + 1] # agenda[1]  BY <1>2, <1>3, <2>1
  <2>3. agenda[i + 1] \in Layers  BY <1>2, <1>3, <2>1
  <2> QED  BY <1>3, <2>1, <2>2, <2>3
<1>5. /\ Layers' = Layers /\ NumLayers' = M /\ M' = M /\ DOMAIN saved' = Layers
      /\ saved'[l] = <<>> /\ \A x \in Layers : x # l => saved'[x] = saved[x]
  BY <1>1, <1>2, <1>3 DEF Layers, NumLayers
<1> HIDE DEF l, M, n, t
<1>6. pc' \in {"hook", "callback"}  BY <1>1
<1>7. HostTyped'  BY <1>1, <1>5 DEF HInv, HostTyped
<1>8. Phase'
  <2>1. CASE t = <<>>
    <3>1. pc' = "callback" /\ agenda' = <<>> /\ previousBwd' \in Layers'
      BY <1>1, <1>3, <1>5, <2>1 DEF t
    <3> QED  BY <3>1 DEF Phase
  <2>2. CASE t # <<>>
    <3>1. pc' = "hook" /\ agenda' = t /\ previousBwd' = l  BY <1>1, <2>2 DEF t
    <3>2. n # 1 /\ config.mode # "manual"
      <4>1. n # 1  BY <1>3, <2>2
      <4> QED  BY <1>2, <4>1 DEF n
    <3>3. \A i \in DOMAIN t : Len(saved'[t[i]]) = N
      <4> SUFFICES ASSUME NEW i \in 1..n - 1  PROVE Len(saved'[t[i]]) = N
        BY <1>3
      <4>1. t[i] \in Layers /\ t[i] # l /\ i + 1 \in DOMAIN agenda /\ t[i] = agenda[i + 1]  BY <1>4
      <4>2. Len(saved[t[i]]) = N  BY <1>2, <4>1
      <4> QED  BY <1>5, <4>1, <4>2
    <3>4. ASSUME NEW i \in DOMAIN t, NEW j \in DOMAIN t, t[i] = t[j]  PROVE i = j
      <4>1. i + 1 = j + 1 /\ i \in Nat /\ j \in Nat
        <5>1. i \in 1..n - 1 /\ j \in 1..n - 1  BY <1>3
        <5>2. i + 1 \in DOMAIN agenda /\ j + 1 \in DOMAIN agenda /\ agenda[i + 1] = agenda[j + 1]
          BY <1>4, <3>4, <5>1
        <5>3. \A x, y \in DOMAIN agenda : agenda[x] = agenda[y] => x = y  BY <1>2
        <5>4. i + 1 = j + 1  BY <5>2, <5>3
        <5> QED  BY <5>1, <5>4
      <4> QED  BY <4>1
    <3>5. l \notin {t[i] : i \in DOMAIN t}  BY <1>3, <1>4
    <3>6. t \in Seq(Layers)  BY <1>3
    <3>7. Seq(Layers)' = Seq(Layers)  BY <1>5
    <3> HIDE DEF t
    <3>8. /\ agenda' \in Seq(Layers)' /\ agenda' # <<>>
          /\ \A i \in DOMAIN agenda' : Len(saved'[agenda'[i]]) = N
          /\ \A i, j \in DOMAIN agenda' : agenda'[i] = agenda'[j] => i = j
          /\ previousBwd' \notin {agenda'[i] : i \in DOMAIN agenda'}
          /\ config'.mode # "manual" /\ pc' = "hook"
      BY <1>1, <2>2, <3>1, <3>2, <3>3, <3>4, <3>5, <3>6, <3>7
    <3> QED  BY <3>8 DEF Phase
  <2> QED  BY <2>1, <2>2
<1>9. OnSchedule'
  <2> SUFFICES ASSUME config.mode = "default"
               PROVE  \E b \in 0..M : SchedulePhase(b)' /\ \A x \in Layers : ScheduleLayer(x, b)'
    BY <1>1, <1>5 DEF OnSchedule, Schedule
  <2>1. PICK b \in 0..M : Schedule(b)  BY DEF HInv, OnSchedule, M
  <2>2. b = l /\ b < M /\ b \in Nat /\ numOfFwds = M - 1
    BY <1>1, <1>2, <2>1 DEF Schedule, SchedulePhase, l, M
  <2>3. PICK m \in 0..b : agenda = Down(b, m)  BY <1>1, <2>1 DEF Schedule, SchedulePhase
  <2>4. t # <<>> => b > 0 /\ m \in 0..b - 1 /\ agenda' = Down(b - 1, m)
    <3>1. 0..b \subseteq Layers  BY <1>2, <2>2
    <3>2. (m = b => t = <<>>) /\ (m < b => t = Down(b - 1, m))  BY <2>2, <2>3, <3>1, DownIs DEF t
    <3>3. m \in Nat /\ m <= b  BY <2>2
    <3>4. t # <<>> => m < b  BY <2>2, <3>2, <3>3
    <3> QED  BY <1>1, <2>2, <3>2, <3>3, <3>4 DEF t
  <2>5. SchedulePhase(b)'
    <3>1. CASE t = <<>>
      <4>1. pc' = "callback"  BY <1>1, <3>1 DEF t
      <4> QED  BY <1>1, <1>5, <2>2, <4>1 DEF SchedulePhase
    <3>2. CASE t # <<>>
      <4>1. pc' = "hook"  BY <1>1, <3>2 DEF t
      <4>2. b # M  BY <1>2, <2>2
      <4> QED  BY <1>1, <1>5, <2>2, <2>4, <3>2, <4>1, <4>2 DEF SchedulePhase
    <3> QED  BY <3>1, <3>2
  <2>6. ASSUME NEW x \in Layers  PROVE ScheduleLayer(x, b)'
    <3>1. ScheduleLayer(x, b)  BY <2>1 DEF Schedule
    <3>2. StateAt(config, pc', numOfFwds, x, b) = StateAt(config, "unpack", numOfFwds, x, b)
      BY <1>6, StateKept
    <3>3. (Gone(pc', x, b) <=> b < x) /\ (Gone("unpack", x, b) <=> b < x)  BY <1>6 DEF Gone
    <3>4. (b < x => x # l) /\ (x < b => x # l)  BY <1>2, <2>2
    <3>5. layers'[x].state = StateAt(config, pc', numOfFwds, x, b)
      BY <1>1, <3>1, <3>2 DEF ScheduleLayer
    <3>6. Gone(pc', x, b) => saved'[x] = <<>>  BY <1>1, <1>5, <3>1, <3>3, <3>4 DEF ScheduleLayer
    <3>7. x < b /\ numOfFwds # None /\ x <= numOfFwds => Len(saved'[x]) = N
      BY <1>1, <1>5, <3>1, <3>4 DEF ScheduleLayer, Filling
    <3> QED  BY <1>1, <3>5, <3>6, <3>7 DEF ScheduleLayer
  <2> QED  BY <2>5, <2>6
<1>10. ASSUME NEW x \in Layers  PROVE LayerInv(x)'
  <2>1. Good(config, pass, x, layers[x], saved[x]) /\ Lengths(x) /\ Ahead(x)  BY <1>2 DEF LayerInv
  <2>2. CASE x # l
    <3>1. Lengths(x)'  BY <1>1, <1>5, <1>6, <2>1, <2>2 DEF Lengths, Filling, Spent
    <3>2. Ahead(x)'  BY <1>1, <1>5, <2>1, <2>2 DEF Ahead
    <3>3. Good(config, pass, x, layers[x], saved[x])'  BY <1>1, <1>5, <2>1, <2>2
    <3> QED  BY <3>1, <3>2, <3>3 DEF LayerInv
  <2>3. CASE x = l
    <3>1. Lengths(x)'  BY <1>1, <1>5, <1>6, <2>3 DEF Lengths, Filling, Spent
    <3>2. Ahead(x)'  BY <1>1, <1>5, <2>1, <2>3 DEF Ahead
    <3>3. Good(config, pass, x, layers[x], saved[x])'  BY <1>1, <1>5, <2>1, <2>3, EmptyGood
    <3> QED  BY <3>1, <3>2, <3>3 DEF LayerInv
  <2> QED  BY <2>2, <2>3
<1> QED  BY <1>5, <1>7, <1>8, <1>9, <1>10 DEF HInv

\* finish_part_of_bwd.
LEMMA FinishPartOfBwdHost ==
  ASSUME HInv, FinishPartOfBwd
  PROVE  HInv'
<1> DEFINE l == previousBwd
           M == NumLayers
<1>1. /\ pc = "callback" /\ layers' = AfterRelease /\ previousBwd' = None /\ pc' = "idle"
      /\ config' = config /\ numOfFwds' = numOfFwds /\ currentLayer' = currentLayer
      /\ saved' = saved /\ k' = k /\ agenda' = agenda /\ pass' = pass
      /\ l \in Layers /\ agenda = <<>>
  BY DEF FinishPartOfBwd, HInv, Phase
<1>2. /\ M \in Nat \ {0} /\ Layers = 0..M - 1 /\ None \notin Layers /\ None \notin Nat
      /\ config.retain \in BOOLEAN /\ \A x \in Layers : LayerInv(x)
  BY ConfigIs DEF HInv
<1>3. /\ Layers' = Layers /\ NumLayers' = M /\ M' = M /\ DOMAIN layers' = Layers
      /\ layers'[l] = ReleaseAll(layers[l])
      /\ \A x \in Layers : x # l => layers'[x] = layers[x]
  BY <1>1 DEF AfterRelease, Layers, NumLayers
<1>4. saved[l] = <<>>  BY <1>1, <1>2 DEF LayerInv, Lengths, Spent
<1> HIDE DEF l, M
<1>5. /\ Good(config, pass, l, layers'[l], saved[l]) /\ Covered(layers'[l], saved[l])
      /\ layers'[l].state = "not_offloaded"
  <2>1. Good(config, pass, l, layers[l], saved[l])  BY <1>1, <1>2 DEF LayerInv
  <2> QED  BY <1>2, <1>3, <1>4, <2>1, ReleaseAllGood
<1>6. HostTyped' /\ Phase'  BY <1>1, <1>3 DEF HInv, HostTyped, Phase
<1>7. OnSchedule'
  <2> SUFFICES ASSUME config.mode = "default"
               PROVE  \E b \in 0..M : SchedulePhase(b)' /\ \A x \in Layers : ScheduleLayer(x, b)'
    BY <1>1, <1>3 DEF OnSchedule, Schedule
  <2>1. PICK b \in 0..M : Schedule(b)  BY DEF HInv, OnSchedule, M
  <2>2. b = l /\ b < M /\ b \in Nat /\ numOfFwds = M - 1
    BY <1>1, <1>2, <2>1 DEF Schedule, SchedulePhase, l, M
  <2>3. SchedulePhase(b)'  BY <1>1, <1>3, <2>2 DEF SchedulePhase
  <2>4. ASSUME NEW x \in Layers  PROVE ScheduleLayer(x, b)'
    <3>1. ScheduleLayer(x, b)  BY <2>1 DEF Schedule
    <3>2. StateAt(config, "idle", numOfFwds, x, b) =
            IF x = b THEN "not_offloaded" ELSE StateAt(config, "callback", numOfFwds, x, b)
      BY StateKept
    <3>3. layers'[x].state = StateAt(config, "idle", numOfFwds, x, b)
      BY <1>1, <1>3, <1>5, <2>2, <3>1, <3>2 DEF ScheduleLayer
    <3>4. Gone("idle", x, b) => saved[x] = <<>>  BY <1>1, <1>4, <2>2, <3>1 DEF ScheduleLayer, Gone
    <3> QED  BY <1>1, <3>1, <3>3, <3>4 DEF ScheduleLayer, Filling
  <2> QED  BY <2>3, <2>4
<1>8. ASSUME NEW x \in Layers  PROVE LayerInv(x)'
  <2>1. Good(config, pass, x, layers[x], saved[x]) /\ Lengths(x) /\ Ahead(x)  BY <1>2 DEF LayerInv
  <2>2. CASE x # l  BY <1>1, <1>2, <1>3, <2>1, <2>2 DEF LayerInv, Lengths, Filling, Spent, Ahead, l
  <2>3. CASE x = l
    <3>1. Lengths(x)' /\ Ahead(x)'
      BY <1>1, <1>2, <1>4, <1>5, <2>3 DEF Lengths, Filling, Spent, Ahead
    <3>2. Good(config, pass, x, layers[x], saved[x])'  BY <1>1, <1>5, <2>3
    <3> QED  BY <3>1, <3>2 DEF LayerInv
  <2> QED  BY <2>2, <2>3
<1> QED  BY <1>3, <1>6, <1>7, <1>8 DEF HInv

\* The layer whose reload bwd_step starts, and where to.
Reloading(r) ==
  /\ config.mode = "default" /\ Offloads(r)
  /\ NumLayers - 1 - config.numLayers + r = Head(agenda)
ReloadInto(r) == Allocate(Len(AfterRelease[r].cpu), FreeBlocks(AfterRelease, saved))

LEMMA BwdStepDoes ==
  ASSUME BwdStep,
         \A r \in Layers : Reloading(r) => AfterRelease[r].state = "offload_finished"
  PROVE  /\ layers' = [r \in Layers |-> IF Reloading(r)
                                        THEN StartReload(AfterRelease[r], ReloadInto(r), queue)
                                        ELSE AfterRelease[r]]
         /\ \A r \in Layers : Reloading(r) =>
              Fits(Len(AfterRelease[r].cpu), FreeBlocks(AfterRelease, saved))
         /\ pc = "hook" /\ pc' = "unpack" /\ k' = 1
         /\ previousBwd' = Head(agenda) /\ currentLayer' = Head(agenda)
         /\ config' = config /\ numOfFwds' = numOfFwds /\ saved' = saved /\ agenda' = agenda
         /\ pass' = pass
<1> DEFINE l == Head(agenda)
           reload == IF config.mode = "default" THEN StartReloadAt(l) ELSE {}
           blocks == [r \in reload |-> Allocate(Len(AfterRelease[r].cpu), FreeBlocks(AfterRelease, saved))]
<1>1. /\ \A r \in Layers : r \in reload <=> Reloading(r)
      /\ reload \subseteq Layers
  BY DEF Reloading, StartReloadAt
<1>2. \A r \in reload : blocks[r] = ReloadInto(r)  BY DEF ReloadInto
<1> HIDE DEF reload, blocks
<1>3. ~ \E r \in reload : AfterRelease[r].state # "offload_finished"  BY <1>1
<1>4. /\ \A r \in reload : Fits(Len(AfterRelease[r].cpu), FreeBlocks(AfterRelease, saved))
      /\ layers' = [r \in Layers |-> IF r \in reload THEN StartReload(AfterRelease[r], blocks[r], queue)
                                     ELSE AfterRelease[r]]
      /\ pc = "hook" /\ pc' = "unpack" /\ k' = 1
      /\ previousBwd' = l /\ currentLayer' = l
      /\ UNCHANGED <<config, numOfFwds, saved, agenda, pass>>
  BY <1>3 DEF BwdStep, reload, blocks
<1>5. layers' = [r \in Layers |-> IF Reloading(r)
                                  THEN StartReload(AfterRelease[r], ReloadInto(r), queue)
                                  ELSE AfterRelease[r]]
  BY <1>1, <1>2, <1>4
<1> QED  BY <1>1, <1>4, <1>5

\* bwd_step.
LEMMA BwdStepHost ==
  ASSUME HInv, DeviceTyped, BwdStep
  PROVE  HInv'
<1> DEFINE l == Head(agenda)
           M == NumLayers
           m == config.numLayers
<1>1. /\ pc = "hook" /\ agenda \in Seq(Layers) /\ agenda # <<>>
      /\ previousBwd \notin {agenda[i] : i \in DOMAIN agenda}
      /\ M \in Nat \ {0} /\ Layers = 0..M - 1 /\ None \notin Layers /\ None \notin Nat
      /\ config.modelLayers = M /\ m \in Nat /\ (config.mode = "default" => m < M)
      /\ config.retain \in BOOLEAN /\ \A x \in Layers : LayerInv(x)
      /\ config.mode = "manual" => layers[agenda[1]].state \in {"not_offloaded", "reload_started"}
      /\ config.mode \in {"default", "manual"}
  BY ConfigIs DEF HInv, Phase, BwdStep
<1>2. l \in Layers /\ agenda[1] = l /\ previousBwd # l /\ agenda[1] = Head(agenda)
  <2> DEFINE A == Layers
  <2>1. agenda \in Seq(A) /\ agenda # <<>>  BY <1>1
  <2> HIDE DEF A
  <2>2. l \in A /\ agenda[1] = l /\ 1 \in DOMAIN agenda  BY <2>1
  <2> QED  BY <1>1, <2>2 DEF A
<1> HIDE DEF l, M, m
<1>3. ASSUME config.mode = "default"
      PROVE  /\ Schedule(l + 1) /\ l + 1 \in 1..M /\ numOfFwds = M - 1
             /\ previousBwd = (IF l + 1 = M THEN None ELSE l + 1)
             /\ \E i \in 0..l : agenda = Down(l, i)
             /\ \A x \in Layers :
                  /\ x < m /\ M - 1 - m + x = l =>
                       StateAt(config, "hook", numOfFwds, x, l + 1) = "offload_finished" /\ x < l + 1
                  /\ StateAt(config, "unpack", numOfFwds, x, l) =
                       IF x < m /\ M - 1 - m + x = l THEN "reload_started"
                       ELSE IF x = l + 1 THEN "not_offloaded"
                       ELSE StateAt(config, "hook", numOfFwds, x, l + 1)
  <2>1. PICK b \in 0..M : Schedule(b)  BY <1>3 DEF HInv, OnSchedule, M
  <2>2. /\ b > 0 /\ numOfFwds = M - 1 /\ previousBwd = (IF b = M THEN None ELSE b)
        /\ \E i \in 0..b - 1 : agenda = Down(b - 1, i)
    BY <1>1, <2>1 DEF Schedule, SchedulePhase, M
  <2>3. b \in 1..M /\ b - 1 \in Nat /\ (b - 1) + 1 = b  BY <1>1, <2>2
  <2>4. l = b - 1
    <3>1. PICK i \in 0..b - 1 : agenda = Down(b - 1, i)  BY <2>2
    <3>2. Head(Down(b - 1, i)) = b - 1  BY <2>3, <3>1, DownIs
    <3> QED  BY <3>1, <3>2 DEF l
  <2>5. l \in Nat /\ l + 1 = b  BY <2>3, <2>4
  <2>6. ASSUME NEW x \in Layers
        PROVE  /\ x < m /\ M - 1 - m + x = b - 1 =>
                    StateAt(config, "hook", numOfFwds, x, b) = "offload_finished" /\ x < b
               /\ StateAt(config, "unpack", numOfFwds, x, b - 1) =
                    IF x < m /\ M - 1 - m + x = b - 1 THEN "reload_started"
                    ELSE IF x = b THEN "not_offloaded"
                    ELSE StateAt(config, "hook", numOfFwds, x, b)
    <3>1. /\ config.modelLayers \in Nat /\ config.numLayers \in Nat
          /\ config.numLayers < config.modelLayers /\ b \in 1..config.modelLayers
          /\ numOfFwds = config.modelLayers - 1 /\ x \in 0..config.modelLayers - 1
          /\ None \notin Nat /\ config.modelLayers = M
      BY <1>1, <1>3, <2>2, <2>3 DEF M, m, NumLayers
    <3>2. /\ x < config.numLayers /\ config.modelLayers - 1 - config.numLayers + x = b - 1 =>
               StateAt(config, "hook", numOfFwds, x, b) = "offload_finished" /\ x < b
          /\ StateAt(config, "unpack", numOfFwds, x, b - 1) =
               IF x < config.numLayers /\ config.modelLayers - 1 - config.numLayers + x = b - 1
               THEN "reload_started"
               ELSE IF x = b THEN "not_offloaded" ELSE StateAt(config, "hook", numOfFwds, x, b)
      BY <3>1, StateBackward
    <3> QED  BY <3>1, <3>2 DEF m
  <2> QED  BY <2>1, <2>2, <2>3, <2>4, <2>5, <2>6
<1>4. \A x \in Layers : AfterRelease[x] = IF x = previousBwd THEN ReleaseAll(layers[x]) ELSE layers[x]
  BY DEF AfterRelease
<1>5. ASSUME NEW x \in Layers
      PROVE  /\ Good(config, pass, x, AfterRelease[x], saved[x]) /\ Covered(AfterRelease[x], saved[x])
             /\ AfterRelease[x].state # "not_offloaded" => Len(saved[x]) = N
             /\ AfterRelease[x].state = (IF x = previousBwd THEN "not_offloaded" ELSE layers[x].state)
             /\ saved[x] = <<>> \/ Len(saved[x]) = N
             /\ x = previousBwd => saved[x] = <<>>
  <2>1. Good(config, pass, x, layers[x], saved[x]) /\ Lengths(x)  BY <1>1 DEF LayerInv
  <2>2. CASE x = previousBwd
    <3>1. saved[x] = <<>>  BY <1>1, <2>1, <2>2 DEF Lengths, Spent
    <3> QED  BY <1>1, <1>4, <2>1, <2>2, <3>1, ReleaseAllGood
  <2>3. CASE x # previousBwd  BY <1>1, <1>4, <2>1, <2>3 DEF Lengths, Filling, Spent
  <2> QED  BY <2>2, <2>3
<1>6. \A x \in Layers : Reloading(x) <=> config.mode = "default" /\ x < m /\ M - 1 - m + x = l
  BY DEF Reloading, Offloads, M, m, l
<1>7. ASSUME NEW x \in Layers, Reloading(x)
      PROVE  AfterRelease[x].state = "offload_finished" /\ x # previousBwd
  <2>1. /\ config.mode = "default" /\ StateAt(config, "hook", numOfFwds, x, l + 1) = "offload_finished"
        /\ x < l + 1
    BY <1>3, <1>6, <1>7
  <2>2. x # previousBwd  BY <1>1, <1>2, <1>3, <2>1
  <2>3. layers[x].state = "offload_finished"  BY <1>1, <1>3, <2>1 DEF Schedule, ScheduleLayer
  <2> QED  BY <1>5, <2>2, <2>3
<1>8. /\ layers' = [r \in Layers |-> IF Reloading(r)
                                     THEN StartReload(AfterRelease[r], ReloadInto(r), queue)
                                     ELSE AfterRelease[r]]
      /\ \A r \in Layers : Reloading(r) =>
           Fits(Len(AfterRelease[r].cpu), FreeBlocks(AfterRelease, saved))
      /\ pc' = "unpack" /\ k' = 1 /\ previousBwd' = l /\ currentLayer' = l
      /\ config' = config /\ numOfFwds' = numOfFwds /\ saved' = saved /\ agenda' = agenda
      /\ pass' = pass
  BY <1>7, BwdStepDoes DEF l
<1>9. Layers' = Layers /\ NumLayers' = M /\ M' = M /\ DOMAIN layers' = Layers
  BY <1>8 DEF Layers, NumLayers, M
<1>10. ASSUME NEW x \in Layers
       PROVE  /\ Good(config, pass, x, layers'[x], saved[x]) /\ Covered(layers'[x], saved[x])
              /\ layers'[x].state # "not_offloaded" => Len(saved[x]) = N
              /\ layers'[x].state = IF Reloading(x) THEN "reload_started" ELSE AfterRelease[x].state
  <2>1. CASE Reloading(x)
    <3>1. layers'[x] = StartReload(AfterRelease[x], ReloadInto(x), queue)  BY <1>8, <2>1
    <3>2. /\ Good(config, pass, x, AfterRelease[x], saved[x]) /\ Covered(AfterRelease[x], saved[x])
          /\ AfterRelease[x].state = "offload_finished" /\ Len(saved[x]) = N
      BY <1>5, <1>7, <2>1
    <3>3. Fits(Len(AfterRelease[x].cpu), FreeBlocks(AfterRelease, saved))  BY <1>8, <2>1
    <3> QED  BY <2>1, <3>1, <3>2, <3>3, ReloadGood DEF ReloadInto
  <2>2. CASE ~Reloading(x)  BY <1>5, <1>8, <2>2
  <2> QED  BY <2>1, <2>2
<1>11. HostTyped'
  <2>1. 1 \in 1..N + 1 /\ 1 \in Nat  BY CountFinite
  <2> QED  BY <1>2, <1>8, <1>9, <2>1 DEF HInv, HostTyped
<1>12. Phase'
  <2>1. config.mode = "manual" => layers'[l].state \in {"not_offloaded", "reload_started"}
    BY <1>1, <1>2, <1>5, <1>6, <1>10
  <2>2. /\ agenda \in Seq(Layers) /\ agenda # <<>>
        /\ \A i \in DOMAIN agenda : Len(saved[agenda[i]]) = N
        /\ \A i, j \in DOMAIN agenda : agenda[i] = agenda[j] => i = j
        /\ config.mode = "manual" => Len(agenda) = 1
    BY <1>1 DEF HInv, Phase
  <2>3. l = Head(agenda) /\ Seq(Layers)' = Seq(Layers)  BY <1>9 DEF l
  <2>4. l' = l  BY <1>8 DEF l
  <2> QED  BY <1>2, <1>8, <2>1, <2>2, <2>3 DEF Phase
<1>13. OnSchedule'
  <2> SUFFICES ASSUME config.mode = "default"
               PROVE  \E b \in 0..M : SchedulePhase(b)' /\ \A x \in Layers : ScheduleLayer(x, b)'
    BY <1>8, <1>9 DEF OnSchedule, Schedule
  <2> DEFINE b == l
  <2>1. l \in 0..M /\ l < M /\ l \in Nat  BY <1>1, <1>2
  <2>2. PICK c \in 0..M : c = l  BY <2>1
  <2>3. SchedulePhase(c)'
    <3>1. \E i \in 0..c : agenda' = Down(c, i)  BY <1>3, <1>8, <2>2
    <3> QED  BY <1>3, <1>8, <1>9, <2>1, <2>2, <3>1 DEF SchedulePhase
  <2>4. ASSUME NEW x \in Layers  PROVE ScheduleLayer(x, c)'
    <3>1. ScheduleLayer(x, l + 1)  BY <1>3 DEF Schedule
    <3>2. layers'[x].state = StateAt(config, "unpack", numOfFwds, x, l)
      <4>1. x = previousBwd <=> x = l + 1  BY <1>1, <1>3
      <4> QED  BY <1>1, <1>3, <1>5, <1>6, <1>10, <3>1, <4>1 DEF ScheduleLayer
    <3>3. Gone("unpack", x, l) => saved[x] = <<>>
      <4>1. Gone("unpack", x, l) => x = l + 1 \/ Gone("hook", x, l + 1)  BY <1>1, <2>1 DEF Gone
      <4>2. x = l + 1 => x = previousBwd  BY <1>1, <1>3
      <4> QED  BY <1>1, <1>5, <3>1, <4>1, <4>2 DEF ScheduleLayer
    <3>4. x < l /\ numOfFwds # None /\ x <= numOfFwds => Len(saved[x]) = N
      <4>1. x < l => x < l + 1  BY <1>1, <2>1
      <4> QED  BY <1>1, <3>1, <4>1 DEF ScheduleLayer, Filling
    <3> QED  BY <1>8, <2>2, <3>2, <3>3, <3>4 DEF ScheduleLayer
  <2> QED  BY <2>3, <2>4
<1>14. ASSUME NEW x \in Layers  PROVE LayerInv(x)'
  <2>1. Good(config, pass, x, layers[x], saved[x])'  BY <1>8, <1>10
  <2>2. Lengths(x)'  BY <1>5, <1>8, <1>10 DEF Lengths, Filling, Spent
  <2>3. Ahead(x)'
    <3>1. Ahead(x)  BY <1>1 DEF LayerInv
    <3>2. numOfFwds = None \/ numOfFwds < x => ~Reloading(x)  BY <1>1, <1>3, <1>6
    <3> QED  BY <1>5, <1>8, <1>10, <3>1, <3>2 DEF Ahead
  <2> QED  BY <2>1, <2>2, <2>3 DEF LayerInv
<1> QED  BY <1>9, <1>11, <1>12, <1>13, <1>14 DEF HInv

-----------------------------------------------------------------------------
(* Events and operations                                                     *)

\* The streams may get longer.
LEMMA EventsLater ==
  ASSUME NEW c, NEW p, NEW l, NEW ly, Typed(c, p, l, ly), NEW m \in Nat, NEW e \in Nat,
         NEW m2 \in Nat, NEW e2 \in Nat, m <= m2, e <= e2, EventsBy(ly, m, e)
  PROVE  EventsBy(ly, m2, e2)
<1> DEFINE f == ly.fwd
           b == ly.bwd
<1>1. f \in Seq(Tensors) /\ b \in Seq(Tensors) /\ ly.finished \in Nat  BY DEF Typed
<1>2. /\ \A i \in DOMAIN f : f[i].ready <= m
      /\ \A i \in DOMAIN b : b[i].ready <= e
      /\ ly.finished <= e
  BY DEF EventsBy
<1> HIDE DEF f, b
<1>3. /\ \A i \in DOMAIN f : f[i] \in Tensors
      /\ \A i \in DOMAIN b : b[i] \in Tensors
  BY <1>1
<1>4. /\ \A i \in DOMAIN f : f[i].ready \in Nat
      /\ \A i \in DOMAIN b : b[i].ready \in Nat
  BY <1>3 DEF Tensors
<1>5. (\A i \in DOMAIN f : f[i].ready <= m2) /\ \A i \in DOMAIN b : b[i].ready <= e2  BY <1>2, <1>4
<1>6. ly.finished <= e2  BY <1>1, <1>2
<1> QED  BY <1>5, <1>6 DEF EventsBy, f, b

LEMMA ReleaseAllEvents ==
  ASSUME NEW ly, NEW m, NEW e, EventsBy(ly, m, e)
  PROVE  EventsBy(ReleaseAll(ly), m, e)
<1>1. /\ ReleaseAll(ly).fwd = <<>> /\ ReleaseAll(ly).bwd = <<>>
      /\ ReleaseAll(ly).finished = ly.finished
  BY DEF ReleaseAll, Fresh
<1>2. DOMAIN <<>> = {}  OBVIOUS
<1> QED  BY <1>1, <1>2 DEF EventsBy

LEMMA ReleaseForwardEvents ==
  ASSUME NEW c, NEW p, NEW l, NEW ly, Typed(c, p, l, ly), NEW m, NEW e, EventsBy(ly, m, e)
  PROVE  EventsBy(ReleaseForward(ly), m, e)
<1>1. /\ ReleaseForward(ly).fwd = <<>> /\ ReleaseForward(ly).bwd = ly.bwd
      /\ ReleaseForward(ly).finished = ly.finished
  BY DEF ReleaseForward, Typed
<1>2. DOMAIN <<>> = {}  OBVIOUS
<1> QED  BY <1>1, <1>2 DEF EventsBy

\* A group without duplicates consists of tensors of the group.
LEMMA DeduplicatedFrom ==
  ASSUME NEW group \in Seq(Tensors), NEW n \in 1..Len(Deduplicated(group)), NEW e,
         \A i \in DOMAIN group : group[i].ready <= e
  PROVE  Deduplicated(group)[n] \in Tensors /\ Deduplicated(group)[n].ready <= e
<1> DEFINE i == FirstOnes(group)[n]
           d == Deduplicated(group)
           T == Tensors
<1>1. i \in 1..Len(group) /\ d[n] = group[i] /\ n \in 1..Len(d)  BY DeduplicatedAre
<1> HIDE DEF i, d, T
<1>2. i \in DOMAIN group /\ group[i] \in T
  <2>1. group \in Seq(T)  BY DEF T
  <2> QED  BY <1>1, <2>1
<1> QED  BY <1>1, <1>2 DEF d, T

LEMMA StartOffloadEvents ==
  ASSUME NEW l, NEW ly, NEW q, ly.fwd \in Seq(Tensors), NEW m, NEW e, EventsBy(ly, m, Now("copy", q)),
         StartOffload(l, ly, q).fwd = Deduplicated(ly.fwd), StartOffload(l, ly, q).bwd = <<>>,
         StartOffload(l, ly, q).finished = e, e \in Nat
  PROVE  EventsBy(StartOffload(l, ly, q), m, e)
<1> DEFINE new == StartOffload(l, ly, q)
           d == Deduplicated(ly.fwd)
           T == Tensors
<1>1. new.fwd = d /\ new.bwd = <<>> /\ new.finished = e /\ DOMAIN <<>> = {}  OBVIOUS
<1>2. \A n \in 1..Len(d) : d[n].ready <= m  BY DeduplicatedFrom DEF EventsBy
<1>3. d \in Seq(T)  BY DeduplicatedAre
<1> HIDE DEF d, new, T
<1>4. DOMAIN d = 1..Len(d)  BY <1>3
<1> QED  BY <1>1, <1>2, <1>4 DEF EventsBy, new

LEMMA StartReloadEvents ==
  ASSUME NEW c, NEW p, NEW l, NEW ly, Typed(c, p, l, ly), NEW blocks, NEW q, Now("copy", q) \in Nat, NEW m,
         EventsBy(ly, m, Now("copy", q))
  PROVE  EventsBy(StartReload(ly, blocks, q), m, Now("copy", q) + 2 * Count)
<1> DEFINE new == StartReload(ly, blocks, q)
           now == Now("copy", q)
           aux == ly.aux
<1>1. /\ new.fwd = ly.fwd /\ new.finished = ly.finished
      /\ DOMAIN new.bwd = DOMAIN aux
      /\ \A i \in DOMAIN aux : new.bwd[i].ready = now + 2 * aux[i]
  BY StartReloadIs
<1>0. aux \in Seq(1..Count) /\ ly.finished \in Nat  BY DEF Typed
<1>2. \A i \in DOMAIN aux : aux[i] \in 1..Count
  <2> DEFINE C == 1..Count
  <2>1. aux \in Seq(C)  BY <1>0
  <2> HIDE DEF aux, C
  <2>2. \A i \in DOMAIN aux : aux[i] \in C  BY <2>1
  <2> QED  BY <2>2 DEF C
<1>3. Count \in Nat /\ now \in Nat  BY CountFinite
<1> HIDE DEF aux, new, now
<1>4. \A i \in DOMAIN new.bwd : new.bwd[i].ready <= now + 2 * Count  BY <1>1, <1>2, <1>3
<1>5. /\ \A i \in DOMAIN ly.fwd : ly.fwd[i].ready <= m
      /\ ly.finished <= now
  BY DEF EventsBy, now
<1>6. new.finished <= now + 2 * Count  BY <1>0, <1>1, <1>3, <1>5
<1> QED  BY <1>1, <1>4, <1>5, <1>6 DEF EventsBy, new, now

\* The operations of an offload wait for events of the group, those of a reload for
\* what is on the main stream.
LEMMA OffloadOpsTyped ==
  ASSUME NEW l \in Nat, NEW ly, ly.fwd \in Seq(Tensors), pass \in Nat, NEW e \in Nat,
         \A i \in DOMAIN ly.fwd : ly.fwd[i].ready <= e
  PROVE  OffloadOps(l, ly) \in Seq(CopyOps(e))
<1> DEFINE d == Deduplicated(ly.fwd)
           m == Len(d)
           w == [n \in DOMAIN d |-> Wait("main", d[n].ready)]
           x == [n \in DOMAIN d |-> [op |-> "offload", block |-> d[n].block, buffer |-> Buffer(l, n)]]
           A == CopyOps(e)
<1>1. d \in Seq(Tensors)  BY DeduplicatedAre
<1>2. m \in Nat /\ DOMAIN d = 1..m  BY <1>1
<1>3. ASSUME NEW n \in 1..m
      PROVE  /\ Wait("main", d[n].ready) \in A
             /\ [op |-> "offload", block |-> d[n].block, buffer |-> Buffer(l, n)] \in A
  <2>1. d[n] \in Tensors /\ d[n].ready <= e  BY <1>3, DeduplicatedFrom
  <2>2. n \in Nat  BY <1>2, <1>3
  <2> HIDE DEF d, m
  <2>3. d[n].block \in Blocks /\ d[n].ready \in 0..e  BY <2>1 DEF Tensors
  <2>4. Buffer(l, n) \in Names  BY <2>2 DEF Buffer, Names
  <2>5. Wait("main", d[n].ready) \in A  BY <2>3 DEF Wait, CopyOps, WaitsFor
  <2>6. [op |-> "offload", block |-> d[n].block, buffer |-> Buffer(l, n)] \in A
    BY <2>3, <2>4 DEF CopyOps
  <2> QED  BY <2>5, <2>6
<1>4. w \in [1..m -> A] /\ x \in [1..m -> A] /\ OffloadOps(l, ly) = InTurn(w, x)
  <2>1. OffloadOps(l, ly) = InTurn(w, x)  BY DEF OffloadOps
  <2> HIDE DEF A, d, m
  <2> QED  BY <1>2, <1>3, <2>1
<1> HIDE DEF d, m, w, x, A
<1>5. w \in Seq(A) /\ x \in Seq(A) /\ Len(w) = m /\ Len(x) = m  BY <1>2, <1>4, SMTT(60)
<1>6. InTurn(w, x) \in Seq(A)  BY <1>5, InTurnIs
<1> QED  BY <1>4, <1>6 DEF A

LEMMA ReloadOpsTyped ==
  ASSUME NEW c, NEW p \in Nat, NEW l \in Nat, NEW ly, ly.cpu = Buffers(c, p, l),
         NEW blocks, \A n \in 1..Count : blocks[n] \in Blocks, Now("main", queue) \in Nat
  PROVE  /\ ReloadOps(ly, blocks, queue) \in Seq(CopyOps(Now("main", queue)))
         /\ Len(ReloadOps(ly, blocks, queue)) = 2 * Count
<1> DEFINE m == Count
           e == Now("main", queue)
           w == [n \in DOMAIN ly.cpu |-> Wait("main", e)]
           x == [n \in DOMAIN ly.cpu |-> [op |-> "reload", block |-> blocks[n], buffer |-> ly.cpu[n]]]
           A == CopyOps(e)
<1>1. m \in Nat /\ DOMAIN ly.cpu = 1..m /\ \A n \in 1..m : ly.cpu[n] \in Names
  <2>1. m \in Nat  BY CountFinite
  <2>2. DOMAIN ly.cpu = 1..m  BY DEF Buffers
  <2>3. ASSUME NEW n \in 1..m  PROVE ly.cpu[n] \in Names
    <3>1. ly.cpu[n] = [layer |-> l, at |-> n, pass |-> IF c.retain THEN 0 ELSE p]  BY DEF Buffers
    <3>2. n \in Nat  BY <2>1
    <3> QED  BY <3>1, <3>2 DEF Names
  <2> QED  BY <2>1, <2>2, <2>3
<1>2. ASSUME NEW n \in 1..m
      PROVE  /\ Wait("main", e) \in A
             /\ [op |-> "reload", block |-> blocks[n], buffer |-> ly.cpu[n]] \in A
  <2>1. e \in 0..e /\ blocks[n] \in Blocks /\ ly.cpu[n] \in Names  BY <1>1
  <2> HIDE DEF e, m
  <2> QED  BY <2>1 DEF Wait, CopyOps, WaitsFor
<1>3. w \in [1..m -> A] /\ x \in [1..m -> A] /\ ReloadOps(ly, blocks, queue) = InTurn(w, x)
  <2>1. ReloadOps(ly, blocks, queue) = InTurn(w, x)  BY DEF ReloadOps
  <2> HIDE DEF A, m, e
  <2> QED  BY <1>1, <1>2, <2>1
<1> HIDE DEF m, w, x, A
<1>4. w \in Seq(A) /\ x \in Seq(A) /\ Len(w) = m /\ Len(x) = m  BY <1>1, <1>3
<1>5. InTurn(w, x) \in Seq(A) /\ Len(InTurn(w, x)) = 2 * m  BY <1>4, InTurnIs
<1> QED  BY <1>3, <1>5 DEF A, m

-----------------------------------------------------------------------------
(* What the host puts on the streams                                         *)

LEMMA PutOnMain ==
  ASSUME DeviceTyped, done' = done, NEW ops \in Seq(MainOps(Now("copy", queue))),
         queue' = Put(queue, "main", ops)
  PROVE  /\ DeviceTyped' /\ Len(ops) \in Nat
         /\ End(queue', done', "main") = Now("main", queue) + Len(ops)
         /\ End(queue', done', "copy") = Now("copy", queue)
BY NowIs, PutMain DEF DeviceTyped

LEMMA PutOnCopy ==
  ASSUME DeviceTyped, done' = done, NEW ops \in Seq(CopyOps(Now("main", queue))),
         queue' = Put(queue, "copy", ops)
  PROVE  /\ DeviceTyped' /\ Len(ops) \in Nat
         /\ End(queue', done', "copy") = Now("copy", queue) + Len(ops)
         /\ End(queue', done', "main") = Now("main", queue)
BY NowIs, PutCopy DEF DeviceTyped

\* What the invariant says of a layer's record.
LEMMA LayerIs ==
  ASSUME IInv, NEW l \in Layers
  PROVE  /\ Typed(config, pass, l, layers[l]) /\ Shape(config, pass, l, layers[l])
         /\ layers[l].fwd \in Seq(Tensors) /\ layers[l].bwd \in Seq(Tensors)
         /\ layers[l].finished \in Nat /\ l \in Nat /\ pass \in Nat
         /\ EventsBy(layers[l], Now("main", queue), Now("copy", queue))
         /\ Now("main", queue) \in Nat /\ Now("copy", queue) \in Nat
<1>1. Good(config, pass, l, layers[l], saved[l]) /\ pass \in Nat /\ l \in Nat
  BY ConfigIs DEF IInv, HInv, LayerInv, HostTyped
<1>2. /\ Typed(config, pass, l, layers[l]) /\ Shape(config, pass, l, layers[l])  BY <1>1 DEF Good
<1>3. /\ layers[l].fwd \in Seq(Tensors) /\ layers[l].bwd \in Seq(Tensors)
      /\ layers[l].finished \in Nat
  BY <1>2 DEF Typed
<1>4. EventsBy(layers[l], Now("main", queue), Now("copy", queue))  BY NowIs DEF IInv, EventsPut
<1>5. Now("main", queue) \in Nat /\ Now("copy", queue) \in Nat  BY NowIs DEF IInv
<1> QED  BY <1>1, <1>2, <1>3, <1>4, <1>5

\* Longer streams, and a change to one layer at most.
LEMMA EventsAfter ==
  ASSUME IInv, Layers' = Layers, NEW m \in Nat, NEW e \in Nat,
         m = End(queue', done', "main"), e = End(queue', done', "copy"),
         Now("main", queue) <= m, Now("copy", queue) <= e,
         \A l \in Layers : layers'[l] = layers[l] \/ EventsBy(layers'[l], m, e)
  PROVE  EventsPut'
<1>1. ASSUME NEW l \in Layers  PROVE EventsBy(layers'[l], m, e)
  <2>1. EventsBy(layers[l], m, e)
    <3>1. /\ Typed(config, pass, l, layers[l])
          /\ EventsBy(layers[l], Now("main", queue), Now("copy", queue))
          /\ Now("main", queue) \in Nat /\ Now("copy", queue) \in Nat
      BY LayerIs
    <3> QED  BY <3>1, EventsLater
  <2> QED  BY <2>1
<1> QED  BY <1>1 DEF EventsPut

\* Nothing is put on the streams and no layer changes.
LEMMA DeviceSame ==
  ASSUME IInv, done' = done, queue' = queue, layers' = layers, config' = config
  PROVE  DeviceTyped' /\ EventsPut'
BY DEF IInv, DeviceTyped, EventsPut, Layers, NumLayers

LEMMA PushDevice ==
  ASSUME IInv, pc = "forward", NEW block, NEW q, Push(numOfFwds, block, q), done' = done,
         QueuesTyped(q, done), Now("main", queue) <= Now("main", q),
         Now("copy", q) = Now("copy", queue), Now("main", q) \in Nat
  PROVE  DeviceTyped' /\ EventsPut'
<1> DEFINE f == numOfFwds
           t == [block |-> block, ready |-> Now("main", q)]
<1>0. f \in Layers /\ DOMAIN layers = Layers  BY DEF IInv, HInv, HostTyped, Phase
<1>1. /\ config' = config
      /\ \/ queue' = queue /\ layers' = layers
         \/ queue' = q /\ layers' = layers
         \/ queue' = q /\ layers' = [layers EXCEPT ![f] = Pushed(layers[f], t)]
  BY DEF Push, Raise, syncVars, Pushed
<1>2. Layers' = Layers  BY <1>1 DEF Layers, NumLayers
<1>3. EventsBy(Pushed(layers[f], t), Now("main", q), Now("copy", q))
  <2> DEFINE g == layers[f].fwd
             now == Now("main", q)
             T == [block : {block} \cup Blocks, ready : Nat]
  <2>1. /\ g \in Seq(Tensors) /\ layers[f].finished <= Now("copy", q)
        /\ \A i \in DOMAIN g : g[i].ready <= now
        /\ \A i \in DOMAIN layers[f].bwd : layers[f].bwd[i].ready <= Now("copy", q)
    <3>1. EventsBy(layers[f], Now("main", q), Now("copy", q))  BY <1>0, LayerIs, EventsLater
    <3> QED  BY <1>0, <3>1, LayerIs DEF EventsBy
  <2>2. /\ Pushed(layers[f], t).fwd = Append(g, t) /\ Pushed(layers[f], t).bwd = layers[f].bwd
        /\ Pushed(layers[f], t).finished = layers[f].finished
    BY <1>0, LayerIs DEF Pushed, Typed
  <2>3. g \in Seq(T) /\ t \in T /\ t.ready <= now
    <3>1. Tensors \subseteq T /\ t \in T /\ t.ready <= now  BY DEF Tensors
    <3> DEFINE A == Tensors
    <3>2. g \in Seq(A) /\ A \subseteq T  BY <2>1, <3>1
    <3> HIDE DEF A, T, g
    <3>3. g \in Seq(T)  BY <3>2
    <3> QED  BY <3>1, <3>3
  <2> HIDE DEF g, T, t, now
  <2>4. \A i \in DOMAIN Append(g, t) : Append(g, t)[i] = t \/ (i \in DOMAIN g /\ Append(g, t)[i] = g[i])
    BY <2>3
  <2>5. \A i \in DOMAIN Append(g, t) : Append(g, t)[i].ready <= now  BY <2>1, <2>3, <2>4
  <2> QED  BY <2>1, <2>2, <2>5 DEF EventsBy, now
<1> HIDE DEF f, t
<1>4. CASE queue' = queue /\ layers' = layers  BY <1>1, <1>4, DeviceSame
<1>5. CASE queue' = q
  <2>1. DeviceTyped'  BY <1>5 DEF DeviceTyped
  <2>2. /\ End(queue', done', "main") = Now("main", q)
        /\ End(queue', done', "copy") = Now("copy", q)
    BY <1>5 DEF End, Now
  <2>3. \A l \in Layers : layers'[l] = layers[l] \/ EventsBy(layers'[l], Now("main", q), Now("copy", q))
    BY <1>0, <1>1, <1>3
  <2>4. Now("copy", queue) \in Nat  BY <1>0, LayerIs
  <2> QED  BY <1>2, <2>1, <2>2, <2>3, <2>4, EventsAfter
<1> QED  BY <1>1, <1>4, <1>5

LEMMA SaveTensorDevice ==
  ASSUME IInv, SaveTensor
  PROVE  DeviceTyped' /\ EventsPut'
<1> DEFINE F == FreeBlocks(layers, saved)
           block == Allocate(1, F)[1]
           ops == <<ComputeOp(block)>>
           q == Put(queue, "main", ops)
<1>1. /\ pc = "forward" /\ k <= N /\ F # {} /\ Push(numOfFwds, block, q) /\ done' = done
  BY DEF SaveTensor, N, ComputeOp, deviceVars
<1>2. block \in Blocks  BY <1>1, OneFits, Allocated
<1>3. ops \in Seq(MainOps(End(queue, done, "copy")))  BY <1>1, <1>2, ComputeOpIs DEF IInv
<1> HIDE DEF block, F, ops
<1>4. /\ QueuesTyped(q, done) /\ End(q, done, "main") = End(queue, done, "main") + Len(ops)
      /\ End(q, done, "copy") = End(queue, done, "copy") /\ Len(ops) \in Nat
      /\ End(queue, done, "main") \in Nat
  BY <1>3, PutMain DEF IInv, DeviceTyped
<1> HIDE DEF q
<1>5. /\ Now("main", q) = End(q, done, "main") /\ Now("copy", q) = End(q, done, "copy")
      /\ Now("main", queue) = End(queue, done, "main")
      /\ Now("copy", queue) = End(queue, done, "copy")
  BY DEF Now, End
<1>6. Now("main", queue) <= Now("main", q) /\ Now("main", q) \in Nat  BY <1>4, <1>5
<1> QED  BY <1>1, <1>4, <1>5, <1>6, PushDevice

LEMMA SaveAgainDevice ==
  ASSUME IInv, SaveAgain
  PROVE  DeviceTyped' /\ EventsPut'
<1>1. PICK block : Push(numOfFwds, block, queue)  BY DEF SaveAgain
<1>2. pc = "forward" /\ done' = done  BY DEF SaveAgain, deviceVars
<1>3. Now("main", queue) \in Nat  BY NowIs DEF IInv
<1> QED  BY <1>1, <1>2, <1>3, PushDevice DEF IInv, DeviceTyped

\* The offload of a layer is put on the copy stream.
LEMMA OffloadPut ==
  ASSUME IInv, NEW l \in Layers, NEW ly, NEW sv, Good(config, pass, l, ly, sv), Covered(ly, sv),
         EventsBy(ly, Now("main", queue), Now("copy", queue)),
         ly.state = "not_offloaded", ~Direct(config, l), Len(sv) = N
  PROVE  /\ OffloadOps(l, ly) \in Seq(CopyOps(Now("main", queue)))
         /\ Len(OffloadOps(l, ly)) = 2 * Count
         /\ EventsBy(StartOffload(l, ly, queue), Now("main", queue), Now("copy", queue) + 2 * Count)
<1>1. /\ ly.fwd \in Seq(Tensors) /\ \A i \in DOMAIN ly.fwd : ly.fwd[i].ready <= Now("main", queue)
      /\ pass \in Nat /\ l \in Nat /\ Now("main", queue) \in Nat /\ Now("copy", queue) \in Nat
  BY LayerIs DEF Good, Typed, EventsBy
<1>2. OffloadOps(l, ly) \in Seq(CopyOps(Now("main", queue)))  BY <1>1, OffloadOpsTyped
<1>3. Len(OffloadOps(l, ly)) = 2 * Count
  <2> DEFINE d == Deduplicated(ly.fwd)
  <2>1. ly.fwd \in Seq(Tensors)  BY <1>1
  <2>2. Len(OffloadOps(l, ly)) = 2 * Len(d)  BY <2>1, OffloadOpsAre
  <2>3. Len(d) = Count  BY <2>1, DeduplicatedAre, GroupCount
  <2> HIDE DEF d
  <2> QED  BY <2>2, <2>3
<1>4. /\ StartOffload(l, ly, queue).fwd = Deduplicated(ly.fwd)
      /\ StartOffload(l, ly, queue).finished = Now("copy", queue) + 2 * Count
      /\ StartOffload(l, ly, queue).bwd = <<>>
  <2>1. /\ Good(config, pass, l, StartOffload(l, ly, queue), sv)
        /\ StartOffload(l, ly, queue).state = "offload_started"
        /\ StartOffload(l, ly, queue).fwd = Deduplicated(ly.fwd)
        /\ StartOffload(l, ly, queue).finished = Now("copy", queue) + 2 * Count
    BY <1>1, StartOffloadGood
  <2> QED  BY <2>1 DEF Good, Shape
<1>5. Now("copy", queue) + 2 * Count \in Nat  BY <1>1, CountFinite
<1> QED  BY <1>1, <1>2, <1>3, <1>4, <1>5, StartOffloadEvents

\* Its memory is given back when the main stream has waited for it.
LEMMA ReleasePut ==
  ASSUME NEW ly, NEW e \in Nat, ly.finished \in Nat, ly.finished <= e
  PROVE  ReleaseOps(ly) \in Seq(MainOps(e))
<1>1. Wait("copy", ly.finished) \in MainOps(e)  BY DEF Wait, MainOps, WaitsFor
<1> DEFINE A == MainOps(e)
           w == Wait("copy", ly.finished)
<1>2. w \in A /\ ReleaseOps(ly) = IF ly.fwd = <<>> THEN <<>> ELSE <<w>>  BY <1>1 DEF ReleaseOps
<1> HIDE DEF A, w
<1>3. ReleaseOps(ly) \in Seq(A)  BY <1>2
<1> QED  BY <1>3 DEF A

\* The reload of a layer into free blocks is put on the copy stream.
LEMMA ReloadPut ==
  ASSUME IInv, NEW l \in Layers, NEW ly, Typed(config, pass, l, ly), Shape(config, pass, l, ly),
         EventsBy(ly, Now("main", queue), Now("copy", queue)), ly.state = "offload_finished",
         NEW ls, NEW sw, Fits(Len(ly.cpu), FreeBlocks(ls, sw)),
         NEW blocks, blocks = Allocate(Len(ly.cpu), FreeBlocks(ls, sw))
  PROVE  /\ ReloadOps(ly, blocks, queue) \in Seq(CopyOps(Now("main", queue)))
         /\ Len(ReloadOps(ly, blocks, queue)) = 2 * Count
         /\ EventsBy(StartReload(ly, blocks, queue), Now("main", queue), Now("copy", queue) + 2 * Count)
<1>1. Len(ly.cpu) = Count /\ Count \in Nat /\ ly.cpu = Buffers(config, pass, l)
  <2>1. ly.cpu = Buffers(config, pass, l) /\ Count \in Nat  BY CountFinite DEF Shape
  <2>2. Len(Buffers(config, pass, l)) = Count  BY <2>1 DEF Buffers
  <2> QED  BY <2>1, <2>2
<1>2. \A n \in 1..Count : blocks[n] \in Blocks  BY <1>1, Allocated
<1>3. pass \in Nat /\ l \in Nat /\ Now("main", queue) \in Nat /\ Now("copy", queue) \in Nat
  BY LayerIs
<1> QED  BY <1>1, <1>2, <1>3, ReloadOpsTyped, StartReloadEvents

LEMMA StartOffloadLayerDevice ==
  ASSUME IInv, StartOffloadLayer
  PROVE  DeviceTyped' /\ EventsPut'
<1>1. PICK l \in Unused :
        /\ layers[l].state = "not_offloaded"
        /\ layers' = [layers EXCEPT ![l] = StartOffload(l, @, queue)]
        /\ queue' = Put(queue, "copy", OffloadOps(l, layers[l]))
  BY DEF StartOffloadLayer
<1>2. pc = "idle" /\ config.mode = "manual" /\ config' = config /\ done' = done
  BY DEF StartOffloadLayer, deviceVars
<1>3. /\ l \in Layers /\ Len(saved[l]) = N /\ ~Direct(config, l) /\ DOMAIN layers = Layers
      /\ Good(config, pass, l, layers[l], saved[l]) /\ Covered(layers[l], saved[l])
  BY <1>1, <1>2, ManualIs DEF IInv
<1> DEFINE ops == OffloadOps(l, layers[l])
           new == StartOffload(l, layers[l], queue)
<1>4. /\ ops \in Seq(CopyOps(Now("main", queue))) /\ Len(ops) = 2 * Count
      /\ EventsBy(new, Now("main", queue), Now("copy", queue) + 2 * Count)
      /\ Now("main", queue) \in Nat /\ Now("copy", queue) \in Nat /\ Count \in Nat
  BY <1>1, <1>3, LayerIs, OffloadPut, CountFinite
<1>5. layers' = [layers EXCEPT ![l] = new] /\ queue' = Put(queue, "copy", ops)  BY <1>1
<1> HIDE DEF ops, new
<1>6. Layers' = Layers /\ \A x \in Layers : layers'[x] = layers[x] \/ layers'[x] = new
  BY <1>2, <1>3, <1>5 DEF Layers, NumLayers
<1>7. /\ DeviceTyped' /\ End(queue', done', "main") = Now("main", queue)
      /\ End(queue', done', "copy") = Now("copy", queue) + 2 * Count
  BY <1>2, <1>4, <1>5, PutOnCopy DEF IInv
<1>8. Now("copy", queue) + 2 * Count \in Nat /\ Now("copy", queue) <= Now("copy", queue) + 2 * Count
  BY <1>4
<1> QED  BY <1>4, <1>6, <1>7, <1>8, EventsAfter

LEMMA ReleaseActivationDevice ==
  ASSUME IInv, ReleaseActivationForwardGpuMemory
  PROVE  DeviceTyped' /\ EventsPut'
<1>1. PICK l \in Unused :
        /\ layers' = [layers EXCEPT ![l] = ReleaseForward(@)]
        /\ queue' = Put(queue, "main", ReleaseOps(layers[l]))
  BY DEF ReleaseActivationForwardGpuMemory
<1>2. config' = config /\ done' = done /\ l \in Layers /\ DOMAIN layers = Layers
  BY <1>1 DEF ReleaseActivationForwardGpuMemory, deviceVars, Unused, IInv, HInv, HostTyped
<1> DEFINE ops == ReleaseOps(layers[l])
           new == ReleaseForward(layers[l])
<1>3. /\ Typed(config, pass, l, layers[l]) /\ layers[l].finished \in Nat
      /\ EventsBy(layers[l], Now("main", queue), Now("copy", queue))
      /\ Now("main", queue) \in Nat /\ Now("copy", queue) \in Nat
  BY <1>2, LayerIs
<1>4. EventsBy(new, Now("main", queue), Now("copy", queue))  BY <1>3, ReleaseForwardEvents
<1>5. ops \in Seq(MainOps(Now("copy", queue)))
  <2>1. layers[l].finished <= Now("copy", queue)  BY <1>3 DEF EventsBy
  <2> QED  BY <1>3, <2>1, ReleasePut
<1>6. layers' = [layers EXCEPT ![l] = new] /\ queue' = Put(queue, "main", ops)  BY <1>1
<1> HIDE DEF ops, new
<1>7. Layers' = Layers /\ \A x \in Layers : layers'[x] = layers[x] \/ layers'[x] = new
  BY <1>2, <1>6 DEF Layers, NumLayers
<1> DEFINE m == Now("main", queue) + Len(ops)
           e == Now("copy", queue)
<1>8. /\ DeviceTyped' /\ End(queue', done', "main") = m /\ Len(ops) \in Nat
      /\ End(queue', done', "copy") = e
  BY <1>2, <1>5, <1>6, PutOnMain DEF IInv
<1>9. m \in Nat /\ Now("main", queue) <= m /\ e \in Nat  BY <1>3, <1>8
<1>10. EventsBy(new, m, e)
  <2>1. new.bwd = layers[l].bwd /\ new.fwd = <<>> /\ new.finished = layers[l].finished
    BY <1>3 DEF new, ReleaseForward, Typed
  <2>2. DOMAIN <<>> = {}  OBVIOUS
  <2> QED  BY <1>4, <2>1, <2>2 DEF EventsBy
<1> HIDE DEF m, e
<1> QED  BY <1>7, <1>8, <1>9, <1>10, EventsAfter DEF e

LEMMA StartReloadLayerDevice ==
  ASSUME IInv, StartReloadLayer
  PROVE  DeviceTyped' /\ EventsPut'
<1>1. PICK l \in Unused :
        /\ layers[l].state = "offload_finished"
        /\ Fits(Len(layers[l].cpu), FreeBlocks(layers, saved))
        /\ layers' = [layers EXCEPT ![l] =
             StartReload(@, Allocate(Len(layers[l].cpu), FreeBlocks(layers, saved)), queue)]
        /\ queue' = Put(queue, "copy",
             ReloadOps(layers[l], Allocate(Len(layers[l].cpu), FreeBlocks(layers, saved)), queue))
  BY DEF StartReloadLayer
<1>2. config' = config /\ done' = done /\ l \in Layers /\ DOMAIN layers = Layers
  BY <1>1 DEF StartReloadLayer, deviceVars, Unused, IInv, HInv, HostTyped
<1> DEFINE blocks == Allocate(Len(layers[l].cpu), FreeBlocks(layers, saved))
           ops == ReloadOps(layers[l], blocks, queue)
           new == StartReload(layers[l], blocks, queue)
<1>3. /\ Typed(config, pass, l, layers[l]) /\ Shape(config, pass, l, layers[l])
      /\ EventsBy(layers[l], Now("main", queue), Now("copy", queue))
      /\ Now("main", queue) \in Nat /\ Now("copy", queue) \in Nat /\ Count \in Nat
  BY <1>2, LayerIs, CountFinite
<1>4. /\ ops \in Seq(CopyOps(Now("main", queue))) /\ Len(ops) = 2 * Count
      /\ EventsBy(new, Now("main", queue), Now("copy", queue) + 2 * Count)
  BY <1>1, <1>2, <1>3, ReloadPut
<1>5. layers' = [layers EXCEPT ![l] = new] /\ queue' = Put(queue, "copy", ops)  BY <1>1
<1> HIDE DEF ops, new, blocks
<1>6. Layers' = Layers /\ \A x \in Layers : layers'[x] = layers[x] \/ layers'[x] = new
  BY <1>2, <1>5 DEF Layers, NumLayers
<1>7. /\ DeviceTyped' /\ End(queue', done', "main") = Now("main", queue)
      /\ End(queue', done', "copy") = Now("copy", queue) + 2 * Count
  BY <1>2, <1>4, <1>5, PutOnCopy DEF IInv
<1>8. Now("copy", queue) + 2 * Count \in Nat /\ Now("copy", queue) <= Now("copy", queue) + 2 * Count
  BY <1>3
<1> QED  BY <1>3, <1>4, <1>6, <1>7, <1>8, EventsAfter

\* A kernel that reads a saved tensor, after the reload if there was one.
Reads(b) == [op |-> "use", block |-> b, pass |-> pass, layer |-> Head(agenda), k |-> k]

LEMMA ReadsTyped ==
  ASSUME NEW b \in Blocks, NEW e \in Nat, NEW at \in 0..e, pass \in Nat, Head(agenda) \in Nat, k \in 1..N
  PROVE  /\ <<Reads(b)>> \in Seq(MainOps(e))
         /\ <<Wait("copy", at), Reads(b)>> \in Seq(MainOps(e))
<1>1. Reads(b) \in MainOps(e) /\ Wait("copy", at) \in MainOps(e)
  BY DEF Reads, Wait, MainOps, WaitsFor
<1> QED  BY <1>1

LEMMA PopTensorDevice ==
  ASSUME IInv, PopTensor
  PROVE  DeviceTyped' /\ EventsPut'
<1> DEFINE l == currentLayer
           ly == layers[l]
           item == saved[l][k]
           c == Now("copy", queue)
           ops == CASE item.kind = "tensor" -> <<Reads(item.at)>>
                    [] item.kind = "index" /\ ly.state = "not_offloaded" -> <<Reads(ly.fwd[item.at].block)>>
                    [] OTHER -> <<Wait("copy", ly.bwd[item.at].ready), Reads(ly.bwd[item.at].block)>>
<1>1. ly.state \in {"not_offloaded", "reload_started"} /\ l = Head(agenda) /\ l \in Layers
  BY PopTensorHost DEF IInv
<1>2. queue' = Put(queue, "main", ops) /\ layers' = layers /\ config' = config /\ done' = done
  BY <1>1 DEF PopTensor, syncVars, deviceVars, Reads
<1>3. /\ Good(config, pass, l, ly, saved[l]) /\ pass \in Nat /\ l \in Nat
      /\ ly.fwd \in Seq(Tensors) /\ ly.bwd \in Seq(Tensors) /\ c \in Nat
      /\ EventsBy(ly, Now("main", queue), c) /\ Now("main", queue) \in Nat
  BY <1>1, LayerIs DEF IInv, HInv, LayerInv
<1>4. k \in 1..N /\ Len(saved[l]) = N
  <2>1. pc = "unpack" /\ k <= N  BY DEF PopTensor, N
  <2>2. /\ agenda \in Seq(Layers) /\ agenda # <<>>
        /\ \A i \in DOMAIN agenda : Len(saved[agenda[i]]) = N
        /\ k \in 1..N + 1
    BY <2>1 DEF IInv, HInv, Phase, HostTyped
  <2> DEFINE A == Layers
  <2>3. agenda \in Seq(A)  BY <2>2
  <2> HIDE DEF A
  <2>4. 1 \in DOMAIN agenda /\ agenda[1] = Head(agenda)  BY <2>2, <2>3
  <2>5. N \in Nat  BY CountFinite
  <2> QED  BY <1>1, <2>1, <2>2, <2>4, <2>5
<1>5. /\ item.kind = "tensor" => item.at \in Blocks
      /\ item.kind # "tensor" => item.at \in Group(ly)
  BY <1>3, <1>4 DEF Good, SavedAre
<1>6. ops \in Seq(MainOps(c))
  <2>1. CASE item.kind = "tensor"
    <3>1. ops = <<Reads(item.at)>> /\ item.at \in Blocks /\ 0 \in 0..c  BY <1>3, <1>5, <2>1
    <3> HIDE DEF ops, item, c
    <3> QED  BY <1>1, <1>3, <1>4, <3>1, ReadsTyped
  <2>2. CASE item.kind # "tensor" /\ ly.state = "not_offloaded"
    <3> DEFINE b == ly.fwd[item.at].block
    <3>1. ops = <<Reads(b)>>
      <4>1. item.kind = "index"
        <5>1. saved[l] \in Seq(Items) /\ k \in 1..Len(saved[l])  BY <1>3, <1>4 DEF Good, SavedAre
        <5>2. item \in Items  BY <5>1
        <5> QED  BY <2>2, <5>2 DEF Items
      <4> QED  BY <2>2, <4>1
    <3>2. b \in Blocks /\ 0 \in 0..c
      <4>1. ly.fwd[item.at] \in Tensors  BY <1>3, <1>5, <2>2 DEF Group
      <4> QED  BY <1>3, <4>1 DEF Tensors
    <3> HIDE DEF ops, b, c
    <3> QED  BY <1>1, <1>3, <1>4, <3>1, <3>2, ReadsTyped
  <2>3. CASE item.kind # "tensor" /\ ly.state # "not_offloaded"
    <3> DEFINE b == ly.bwd[item.at].block
               at == ly.bwd[item.at].ready
    <3>1. ops = <<Wait("copy", at), Reads(b)>>  BY <2>3
    <3>2. item.at \in DOMAIN ly.bwd
      <4>1. item.at \in DOMAIN ly.aux /\ ly.state = "reload_started"  BY <1>1, <1>5, <2>3 DEF Group
      <4>2. Len(ly.bwd) = Len(ly.aux) /\ ly.aux \in Seq(1..Count)
        BY <1>3, <4>1 DEF Good, Shape, Typed
      <4>3. DOMAIN ly.aux = DOMAIN ly.bwd  BY <1>3, <4>2
      <4> QED  BY <4>1, <4>3
    <3>3. b \in Blocks /\ at \in 0..c
      <4>1. ly.bwd[item.at] \in Tensors /\ at <= c  BY <1>3, <3>2 DEF EventsBy
      <4>2. b \in Blocks /\ at \in Nat  BY <4>1 DEF Tensors
      <4>3. c \in Nat /\ at <= c  BY <1>3, <4>1
      <4> HIDE DEF b, at, c
      <4> QED  BY <4>2, <4>3
    <3> HIDE DEF ops, b, at, c
    <3> QED  BY <1>1, <1>3, <1>4, <3>1, <3>3, ReadsTyped
  <2> QED  BY <2>1, <2>2, <2>3
<1> HIDE DEF ops, item
<1> DEFINE m == Now("main", queue) + Len(ops)
<1>7. /\ DeviceTyped' /\ End(queue', done', "main") = m /\ Len(ops) \in Nat
      /\ End(queue', done', "copy") = c
  BY <1>2, <1>6, PutOnMain DEF IInv
<1>8. m \in Nat /\ Now("main", queue) <= m  BY <1>3, <1>7
<1>9. Layers' = Layers  BY <1>2 DEF Layers, NumLayers
<1> HIDE DEF m
<1> QED  BY <1>2, <1>3, <1>7, <1>8, <1>9, EventsAfter DEF c

\* What fwd_step puts on the streams.
StartPuts(a) ==
  \/ a = <<>> /\ \A l \in Layers : ~Starts(l)
  \/ \E l \in Layers : /\ Starts(l) /\ a = OffloadOps(l, AfterFwdStep[l])
                       /\ \A x \in Layers : Starts(x) => x = l
ReleasePuts(b) ==
  \/ b = <<>> /\ \A l \in Layers : ~Releases(l)
  \/ \E l \in Layers : /\ Releases(l) /\ b = ReleaseOps(Started(l))
                       /\ \A x \in Layers : Releases(x) => x = l

LEMMA FwdStepPuts ==
  ASSUME HInv, NEW sv, NEW p, FwdStep(sv, p)
  PROVE  /\ config' = config
         /\ \/ pc' = "raised" /\ layers' = layers /\ queue' = queue
            \/ /\ \A l \in Layers : Starts(l) => AfterFwdStep[l].state = "not_offloaded"
               /\ \A l \in Layers : Releases(l) => Started(l).state = "offload_started"
               /\ layers' = [l \in Layers |-> IF Releases(l) THEN ReleaseForward(Started(l)) ELSE Started(l)]
               /\ \E a, b : /\ queue' = Put(Put(queue, "copy", a), "main", b)
                            /\ StartPuts(a) /\ ReleasePuts(b)
<1> DEFINE n == NextFwd
           start == IF config.mode = "default" THEN {l \in Layers : l + 1 = n /\ Offloads(l)} ELSE {}
           release == IF config.mode = "default" THEN FinishOffloadAt(n) ELSE {}
           started == [l \in Layers |-> IF l \in start THEN StartOffload(l, AfterFwdStep[l], queue)
                                        ELSE AfterFwdStep[l]]
           raise == \/ \E l \in start : AfterFwdStep[l].state # "not_offloaded"
                    \/ \E l \in release : started[l].state # "offload_started"
           a == ForThe(start, LAMBDA l : OffloadOps(l, AfterFwdStep[l]))
           b == ForThe(release, LAMBDA l : ReleaseOps(started[l]))
<1>1. /\ \A l \in Layers : (l \in start <=> Starts(l)) /\ (l \in release <=> Releases(l))
      /\ release \subseteq Layers /\ start \subseteq Layers
  BY DEF Starts, Releases, FinishOffloadAt
<1>2. \A l \in Layers : started[l] = Started(l)  BY <1>1 DEF Started
<1>3. IF raise THEN Raise
      ELSE /\ layers' = [l \in Layers |-> IF l \in release THEN ReleaseForward(started[l]) ELSE started[l]]
           /\ queue' = Put(Put(queue, "copy", a), "main", b) /\ config' = config
  BY DEF FwdStep
<1>4. /\ start = {} => a = <<>>
      /\ start # {} => \E l \in start : a = OffloadOps(l, AfterFwdStep[l])
  BY DEF ForThe
<1>5. /\ release = {} => b = <<>>
      /\ release # {} => \E l \in release : b = ReleaseOps(started[l])
  BY DEF ForThe
<1>6. \A x, y \in Layers : (Starts(x) /\ Starts(y) => x = y) /\ (Releases(x) /\ Releases(y) => x = y)
  <2>1. Layers \subseteq Int /\ NumLayers \in Int /\ config.numLayers \in Int  BY ConfigIs DEF HInv
  <2> QED  BY <2>1 DEF Starts, Releases
<1> HIDE DEF a, b, release, started, start, n
<1>7. CASE raise  BY <1>3, <1>7 DEF Raise, syncVars
<1>8. CASE ~raise
  <2>1. StartPuts(a)
    <3>1. CASE start = {}  BY <1>1, <1>4, <3>1 DEF StartPuts
    <3>2. CASE start # {}
      <4>1. PICK l \in start : a = OffloadOps(l, AfterFwdStep[l])  BY <1>4, <3>2
      <4>2. l \in Layers /\ Starts(l)  BY <1>1
      <4>3. \A x \in Layers : Starts(x) => x = l  BY <1>6, <4>2
      <4> QED  BY <4>1, <4>2, <4>3 DEF StartPuts
    <3> QED  BY <3>1, <3>2
  <2>2. ReleasePuts(b)
    <3>1. CASE release = {}  BY <1>1, <1>5, <3>1 DEF ReleasePuts
    <3>2. CASE release # {}
      <4>1. PICK l \in release : b = ReleaseOps(started[l])  BY <1>5, <3>2
      <4>2. l \in Layers /\ Releases(l)  BY <1>1
      <4>3. \A x \in Layers : Releases(x) => x = l  BY <1>6, <4>2
      <4>4. b = ReleaseOps(Started(l))  BY <1>2, <4>1, <4>2
      <4> QED  BY <4>2, <4>3, <4>4 DEF ReleasePuts
    <3> QED  BY <3>1, <3>2
  <2>3. /\ layers' = [l \in Layers |-> IF Releases(l) THEN ReleaseForward(Started(l)) ELSE Started(l)]
        /\ \A l \in Layers : Starts(l) => AfterFwdStep[l].state = "not_offloaded"
        /\ \A l \in Layers : Releases(l) => Started(l).state = "offload_started"
        /\ queue' = Put(Put(queue, "copy", a), "main", b) /\ config' = config
    BY <1>1, <1>2, <1>3, <1>8
  <2> QED  BY <2>1, <2>2, <2>3
<1> QED  BY <1>7, <1>8

\* fwd_step keeps the events on the streams.
LEMMA FwdStepDevice ==
  ASSUME IInv, NEW sv, NEW p, FwdStep(sv, p), done' = done,
         \A l \in Layers : AfterFwdStep[l] = layers[l] \/ AfterFwdStep[l] = ReleaseAll(layers[l]),
         \A l \in Layers : Starts(l) => /\ AfterFwdStep[l] = layers[l] /\ Len(saved[l]) = N
                                        /\ Covered(layers[l], saved[l])
  PROVE  DeviceTyped' /\ EventsPut'
<1> DEFINE m == Now("main", queue)
           e == Now("copy", queue)
<1>1. /\ config' = config
      /\ \/ layers' = layers /\ queue' = queue
         \/ /\ \A l \in Layers : Starts(l) => AfterFwdStep[l].state = "not_offloaded"
            /\ layers' = [l \in Layers |-> IF Releases(l) THEN ReleaseForward(Started(l)) ELSE Started(l)]
            /\ \E a, b : /\ queue' = Put(Put(queue, "copy", a), "main", b)
                         /\ StartPuts(a) /\ ReleasePuts(b)
  BY FwdStepPuts DEF IInv
<1>2. CASE layers' = layers /\ queue' = queue  BY <1>1, <1>2, DeviceSame
<1>3. ASSUME \A l \in Layers : Starts(l) => AfterFwdStep[l].state = "not_offloaded",
             layers' = [l \in Layers |-> IF Releases(l) THEN ReleaseForward(Started(l)) ELSE Started(l)],
             NEW a, NEW b, queue' = Put(Put(queue, "copy", a), "main", b),
             StartPuts(a), ReleasePuts(b)
      PROVE  DeviceTyped' /\ EventsPut'
  <2>1. m \in Nat /\ e \in Nat /\ Count \in Nat /\ DeviceTyped  BY NowIs, CountFinite DEF IInv
  <2>2. ASSUME NEW l \in Layers
        PROVE  Typed(config, pass, l, AfterFwdStep[l]) /\ EventsBy(AfterFwdStep[l], m, e)
    <3>1. /\ Good(config, pass, l, layers[l], saved[l]) /\ EventsBy(layers[l], m, e)
          /\ config.retain \in BOOLEAN
      BY LayerIs, ConfigIs DEF IInv, HInv, LayerInv
    <3>2. CASE AfterFwdStep[l] = layers[l]  BY <3>1, <3>2 DEF Good
    <3>3. CASE AfterFwdStep[l] = ReleaseAll(layers[l])
      BY <3>1, <3>3, ReleaseAllGood, ReleaseAllEvents DEF Good
    <3> QED  BY <3>2, <3>3
  <2>3. ASSUME NEW l \in Layers, Starts(l)
        PROVE  /\ OffloadOps(l, AfterFwdStep[l]) \in Seq(CopyOps(m))
               /\ Len(OffloadOps(l, AfterFwdStep[l])) = 2 * Count
               /\ EventsBy(Started(l), m, e + 2 * Count)
               /\ Typed(config, pass, l, Started(l))
    <3>1. /\ Good(config, pass, l, AfterFwdStep[l], saved[l]) /\ Covered(AfterFwdStep[l], saved[l])
          /\ AfterFwdStep[l].state = "not_offloaded" /\ Len(saved[l]) = N
      BY <1>3, <2>3 DEF IInv, HInv, LayerInv
    <3>2. ~Direct(config, l)  BY <2>3 DEF Starts, Offloads, Direct
    <3>3. Started(l) = StartOffload(l, AfterFwdStep[l], queue)  BY <2>3 DEF Started
    <3>4. /\ OffloadOps(l, AfterFwdStep[l]) \in Seq(CopyOps(m))
          /\ Len(OffloadOps(l, AfterFwdStep[l])) = 2 * Count
          /\ EventsBy(StartOffload(l, AfterFwdStep[l], queue), m, e + 2 * Count)
      BY <2>2, <3>1, <3>2, OffloadPut
    <3>5. Good(config, pass, l, StartOffload(l, AfterFwdStep[l], queue), saved[l])
      BY <2>1, <3>1, <3>2, StartOffloadGood
    <3> QED  BY <3>3, <3>4, <3>5 DEF Good
  <2>4. a \in Seq(CopyOps(m)) /\ \A l \in Layers : Starts(l) => Len(a) = 2 * Count
    <3>1. CASE a = <<>> /\ \A l \in Layers : ~Starts(l)  BY <3>1
    <3>2. CASE \E l \in Layers : /\ Starts(l) /\ a = OffloadOps(l, AfterFwdStep[l])
                                 /\ \A x \in Layers : Starts(x) => x = l
      BY <2>3, <3>2
    <3> QED  BY <1>3, <3>1, <3>2 DEF StartPuts
  <2> DEFINE Q == Put(queue, "copy", a)
             e2 == e + Len(a)
             m2 == m + Len(b)
  <2>5. QueuesTyped(Q, done) /\ End(Q, done, "copy") = e2 /\ End(Q, done, "main") = m /\ Len(a) \in Nat
    <3>1. a \in Seq(CopyOps(End(queue, done, "main")))  BY <2>1, <2>4, NowIs
    <3> QED  BY <2>1, <3>1, PutCopy, NowIs DEF DeviceTyped
  <2>6. e2 \in Nat /\ e <= e2  BY <2>1, <2>5
  <2>7. ASSUME NEW l \in Layers
        PROVE  EventsBy(Started(l), m, e2) /\ Typed(config, pass, l, Started(l))
    <3>1. CASE Starts(l)  BY <2>3, <2>4, <3>1
    <3>2. CASE ~Starts(l)
      <4>1. Started(l) = AfterFwdStep[l]  BY <3>2 DEF Started
      <4> HIDE DEF m, e, e2
      <4> QED  BY <2>1, <2>2, <2>6, <4>1, EventsLater
    <3> QED  BY <3>1, <3>2
  <2>8. b \in Seq(MainOps(e2))
    <3>1. CASE b = <<>>  BY <3>1
    <3>2. CASE \E l \in Layers : Releases(l) /\ b = ReleaseOps(Started(l))
      <4>1. PICK l \in Layers : b = ReleaseOps(Started(l))  BY <3>2
      <4>2. Started(l).finished \in Nat /\ Started(l).finished <= e2  BY <2>7 DEF Typed, EventsBy
      <4> HIDE DEF e2
      <4> QED  BY <2>6, <4>1, <4>2, ReleasePut
    <3> QED  BY <1>3, <3>1, <3>2 DEF ReleasePuts
  <2> HIDE DEF Q, e2
  <2>9. /\ DeviceTyped' /\ End(queue', done', "main") = m2 /\ End(queue', done', "copy") = e2
        /\ Len(b) \in Nat
    <3>1. queue' = Put(Q, "main", b)  BY <1>3 DEF Q
    <3> QED  BY <2>5, <2>8, <3>1, PutMain DEF DeviceTyped
  <2>10. m2 \in Nat /\ m <= m2  BY <2>1, <2>9
  <2> HIDE DEF m2
  <2>11. Layers' = Layers  BY <1>1 DEF Layers, NumLayers
  <2>12. ASSUME NEW l \in Layers  PROVE EventsBy(layers'[l], m2, e2)
    <3>1. layers'[l] = IF Releases(l) THEN ReleaseForward(Started(l)) ELSE Started(l)  BY <1>3
    <3>2. EventsBy(Started(l), m2, e2)  BY <2>1, <2>6, <2>7, <2>10, EventsLater
    <3> QED  BY <2>7, <3>1, <3>2, ReleaseForwardEvents
  <2> QED  BY <2>6, <2>9, <2>10, <2>11, <2>12, EventsAfter
<1> QED  BY <1>1, <1>2, <1>3

LEMMA NextLayerDevice ==
  ASSUME IInv, NextLayer
  PROVE  DeviceTyped' /\ EventsPut'
<1>1. /\ pc = "idle" /\ numOfFwds \in Layers /\ numOfFwds # NumLayers - 1 /\ FwdStep(saved, pass)
      /\ done' = done /\ None \notin Nat /\ None \notin Layers
      /\ numOfFwds # None /\ Layers = 0..NumLayers - 1 /\ NumLayers \in Nat
  BY ConfigIs DEF NextLayer, ForwardDone, deviceVars, IInv, HInv, HostTyped
<1>2. NextFwd = numOfFwds + 1 /\ NextFwd # 0  BY <1>1 DEF NextFwd
<1>3. AfterFwdStep = layers  BY <1>2 DEF AfterFwdStep
<1>4. ASSUME NEW l \in Layers, Starts(l)
      PROVE  Len(saved[l]) = N /\ Covered(layers[l], saved[l])
  <2>1. l = numOfFwds /\ config.mode = "default" /\ l \in Nat  BY <1>1, <1>2, <1>4 DEF Starts
  <2>2. PICK b \in 0..NumLayers : Schedule(b)  BY <2>1 DEF IInv, HInv, OnSchedule
  <2>3. b = NumLayers /\ l < b  BY <1>1, <2>2 DEF Schedule, SchedulePhase
  <2>4. ScheduleLayer(l, b) /\ Lengths(l)  BY <2>2 DEF Schedule, IInv, HInv, LayerInv
  <2>5. Len(saved[l]) = N  BY <1>1, <2>1, <2>3, <2>4 DEF ScheduleLayer, Filling
  <2> QED  BY <1>1, <2>4, <2>5 DEF Lengths, Spent
<1> QED  BY <1>1, <1>3, <1>4, FwdStepDevice

LEMMA NextForwardDevice ==
  ASSUME IInv, NextForward
  PROVE  DeviceTyped' /\ EventsPut'
<1>1. /\ numOfFwds \in {None, NumLayers - 1} /\ FwdStep([l \in Layers |-> <<>>], pass + 1)
      /\ done' = done
  BY DEF NextForward, ForwardDone, deviceVars
<1>2. NextFwd = 0  BY <1>1 DEF NextFwd
<1>3. AfterFwdStep = [l \in Layers |-> ReleaseAll(layers[l])]  BY <1>2 DEF AfterFwdStep
<1>4. \A l \in Layers : ~Starts(l)
  <2>1. \A l \in Layers : l \in Nat  BY ConfigIs DEF IInv, HInv
  <2> QED  BY <1>2, <2>1 DEF Starts
<1> QED  BY <1>1, <1>3, <1>4, FwdStepDevice

\* What bwd_step puts on the copy stream.
LEMMA BwdStepPuts ==
  ASSUME HInv, BwdStep
  PROVE  /\ config' = config
         /\ \/ pc' = "raised" /\ layers' = layers /\ queue' = queue
            \/ /\ layers' = [r \in Layers |-> IF Reloading(r)
                                              THEN StartReload(AfterRelease[r], ReloadInto(r), queue)
                                              ELSE AfterRelease[r]]
               /\ \A r \in Layers : Reloading(r) =>
                    /\ AfterRelease[r].state = "offload_finished"
                    /\ Fits(Len(AfterRelease[r].cpu), FreeBlocks(AfterRelease, saved))
               /\ \E a : /\ queue' = Put(queue, "copy", a)
                         /\ \/ a = <<>> /\ \A r \in Layers : ~Reloading(r)
                            \/ \E r \in Layers :
                                 /\ Reloading(r) /\ a = ReloadOps(AfterRelease[r], ReloadInto(r), queue)
                                 /\ \A x \in Layers : Reloading(x) => x = r
<1> DEFINE l == Head(agenda)
           reload == IF config.mode = "default" THEN StartReloadAt(l) ELSE {}
           blocks == [r \in reload |-> Allocate(Len(AfterRelease[r].cpu), FreeBlocks(AfterRelease, saved))]
           raise == \E r \in reload : AfterRelease[r].state # "offload_finished"
           a == ForThe(reload, LAMBDA r : ReloadOps(AfterRelease[r], blocks[r], queue))
<1>1. (\A r \in Layers : r \in reload <=> Reloading(r)) /\ reload \subseteq Layers
  BY DEF Reloading, StartReloadAt
<1>2. \A r \in reload : blocks[r] = ReloadInto(r)  BY DEF ReloadInto
<1>3. IF raise THEN Raise
      ELSE /\ \A r \in reload : Fits(Len(AfterRelease[r].cpu), FreeBlocks(AfterRelease, saved))
           /\ layers' = [r \in Layers |->
                IF r \in reload THEN StartReload(AfterRelease[r], blocks[r], queue)
                ELSE AfterRelease[r]]
           /\ queue' = Put(queue, "copy", a) /\ config' = config
  BY DEF BwdStep
<1>4. /\ reload = {} => a = <<>>
      /\ reload # {} => \E r \in reload : a = ReloadOps(AfterRelease[r], blocks[r], queue)
  BY DEF ForThe
<1>5. \A x, y \in Layers : Reloading(x) /\ Reloading(y) => x = y
  <2>1. Layers \subseteq Int /\ NumLayers \in Int /\ config.numLayers \in Int  BY ConfigIs DEF HInv
  <2> QED  BY <2>1 DEF Reloading
<1> HIDE DEF a, blocks, reload, l
<1>6. CASE raise  BY <1>3, <1>6 DEF Raise, syncVars
<1>7. CASE ~raise
  <2>1. \/ a = <<>> /\ \A r \in Layers : ~Reloading(r)
        \/ \E r \in Layers :
             /\ Reloading(r) /\ a = ReloadOps(AfterRelease[r], ReloadInto(r), queue)
             /\ \A x \in Layers : Reloading(x) => x = r
    BY <1>1, <1>2, <1>4, <1>5
  <2>2. /\ layers' = [r \in Layers |-> IF Reloading(r)
                                       THEN StartReload(AfterRelease[r], ReloadInto(r), queue)
                                       ELSE AfterRelease[r]]
        /\ queue' = Put(queue, "copy", a) /\ config' = config
        /\ \A r \in Layers : Reloading(r) =>
             /\ AfterRelease[r].state = "offload_finished"
             /\ Fits(Len(AfterRelease[r].cpu), FreeBlocks(AfterRelease, saved))
    BY <1>1, <1>2, <1>3, <1>7
  <2> QED  BY <2>1, <2>2
<1> QED  BY <1>6, <1>7

\* A release keeps the events.
LEMMA AfterReleaseEvents ==
  ASSUME IInv, NEW r \in Layers
  PROVE  /\ Typed(config, pass, r, AfterRelease[r]) /\ Shape(config, pass, r, AfterRelease[r])
         /\ EventsBy(AfterRelease[r], Now("main", queue), Now("copy", queue))
<1>1. /\ Good(config, pass, r, layers[r], saved[r]) /\ config.retain \in BOOLEAN
      /\ EventsBy(layers[r], Now("main", queue), Now("copy", queue))
  BY LayerIs, ConfigIs DEF IInv, HInv, LayerInv
<1>2. AfterRelease[r] = IF r = previousBwd THEN ReleaseAll(layers[r]) ELSE layers[r]
  BY DEF AfterRelease
<1>3. CASE r = previousBwd
  <2>1. Good(config, pass, r, ReleaseAll(layers[r]), <<>>)  BY <1>1, ReleaseAllGood
  <2>2. EventsBy(ReleaseAll(layers[r]), Now("main", queue), Now("copy", queue))
    BY <1>1, ReleaseAllEvents
  <2> QED  BY <1>2, <1>3, <2>1, <2>2 DEF Good
<1>4. CASE r # previousBwd  BY <1>1, <1>2, <1>4 DEF Good
<1> QED  BY <1>3, <1>4

LEMMA BwdStepDevice ==
  ASSUME IInv, BwdStep
  PROVE  DeviceTyped' /\ EventsPut'
<1> DEFINE m == Now("main", queue)
           e == Now("copy", queue)
<1>0. done' = done  BY DEF BwdStep, deviceVars
<1>1. CASE layers' = layers /\ queue' = queue  BY <1>0, <1>1, BwdStepPuts, DeviceSame DEF IInv
<1>2. CASE ~(layers' = layers /\ queue' = queue)
  <2>1. /\ config' = config
        /\ layers' = [r \in Layers |-> IF Reloading(r)
                                       THEN StartReload(AfterRelease[r], ReloadInto(r), queue)
                                       ELSE AfterRelease[r]]
        /\ \A r \in Layers : Reloading(r) =>
             /\ AfterRelease[r].state = "offload_finished"
             /\ Fits(Len(AfterRelease[r].cpu), FreeBlocks(AfterRelease, saved))
    BY <1>2, BwdStepPuts DEF IInv
  <2>2. PICK a : /\ queue' = Put(queue, "copy", a)
                 /\ \/ a = <<>> /\ \A r \in Layers : ~Reloading(r)
                    \/ \E r \in Layers :
                         /\ Reloading(r) /\ a = ReloadOps(AfterRelease[r], ReloadInto(r), queue)
                         /\ \A x \in Layers : Reloading(x) => x = r
    BY <1>2, BwdStepPuts DEF IInv
  <2>3. ASSUME NEW r \in Layers, Reloading(r)
        PROVE  /\ ReloadOps(AfterRelease[r], ReloadInto(r), queue) \in Seq(CopyOps(m))
               /\ Len(ReloadOps(AfterRelease[r], ReloadInto(r), queue)) = 2 * Count
               /\ EventsBy(StartReload(AfterRelease[r], ReloadInto(r), queue), m, e + 2 * Count)
    <3>1. /\ Typed(config, pass, r, AfterRelease[r]) /\ Shape(config, pass, r, AfterRelease[r])
          /\ EventsBy(AfterRelease[r], m, e)
      BY AfterReleaseEvents
    <3>2. /\ AfterRelease[r].state = "offload_finished"
          /\ Fits(Len(AfterRelease[r].cpu), FreeBlocks(AfterRelease, saved))
          /\ ReloadInto(r) = Allocate(Len(AfterRelease[r].cpu), FreeBlocks(AfterRelease, saved))
      BY <2>1, <2>3 DEF ReloadInto
    <3> QED  BY <3>1, <3>2, ReloadPut
  <2>4. a \in Seq(CopyOps(m)) /\ \A r \in Layers : Reloading(r) => Len(a) = 2 * Count
    <3>1. CASE a = <<>> /\ \A r \in Layers : ~Reloading(r)  BY <3>1
    <3>2. CASE \E r \in Layers : /\ Reloading(r) /\ a = ReloadOps(AfterRelease[r], ReloadInto(r), queue)
                                 /\ \A x \in Layers : Reloading(x) => x = r
      BY <2>3, <3>2
    <3> QED  BY <2>2, <3>1, <3>2
  <2> DEFINE e2 == e + Len(a)
  <2>5. DeviceTyped' /\ End(queue', done', "main") = m /\ End(queue', done', "copy") = e2 /\ Len(a) \in Nat
    BY <1>0, <2>2, <2>4, PutOnCopy DEF IInv
  <2>6. m \in Nat /\ e \in Nat  BY NowIs DEF IInv
  <2>7. e2 \in Nat /\ e <= e2 /\ m <= m  BY <2>5, <2>6
  <2>8. ASSUME NEW r \in Layers  PROVE EventsBy(layers'[r], m, e2)
    <3>1. CASE Reloading(r)  BY <2>1, <2>3, <2>4, <3>1
    <3>2. CASE ~Reloading(r)
      <4>1. layers'[r] = AfterRelease[r] /\ Typed(config, pass, r, AfterRelease[r]) /\ EventsBy(AfterRelease[r], m, e)
        BY <2>1, <3>2, AfterReleaseEvents
      <4> HIDE DEF m, e, e2
      <4> QED  BY <2>6, <2>7, <4>1, EventsLater
    <3> QED  BY <3>1, <3>2
  <2> HIDE DEF e2
  <2>9. Layers' = Layers  BY <2>1 DEF Layers, NumLayers
  <2> QED  BY <2>5, <2>6, <2>7, <2>8, <2>9, EventsAfter
<1> QED  BY <1>1, <1>2

\* The other actions of the host put nothing on a stream.
LEMMA FinishPartOfBwdDevice ==
  ASSUME IInv, FinishPartOfBwd
  PROVE  DeviceTyped' /\ EventsPut'
<1>1. layers' = AfterRelease /\ config' = config /\ queue' = queue /\ done' = done
  BY DEF FinishPartOfBwd, deviceVars
<1>2. Layers' = Layers /\ DeviceTyped'  BY <1>1 DEF Layers, NumLayers, DeviceTyped, IInv
<1>3. /\ End(queue', done', "main") = Now("main", queue)
      /\ End(queue', done', "copy") = Now("copy", queue)
      /\ Now("main", queue) \in Nat /\ Now("copy", queue) \in Nat
  BY <1>1, NowIs DEF IInv
<1>4. \A l \in Layers : EventsBy(layers'[l], Now("main", queue), Now("copy", queue))
  BY <1>1, AfterReleaseEvents
<1> QED  BY <1>2, <1>3, <1>4, EventsAfter

LEMMA QuietDevice ==
  ASSUME IInv, LeaveContext \/ StartBackward \/ EndLayer
  PROVE  DeviceTyped' /\ EventsPut'
<1>1. layers' = layers /\ config' = config /\ queue' = queue /\ done' = done
  BY DEF LeaveContext, StartBackward, EndLayer, syncVars, deviceVars
<1> QED  BY <1>1, DeviceSame

-----------------------------------------------------------------------------
(* The streams                                                               *)

\* The device does not change what the host sees.
LEMMA DeviceHost ==
  ASSUME HInv, UNCHANGED <<syncVars, scriptVars>>
  PROVE  HInv'
<1>1. /\ config' = config /\ numOfFwds' = numOfFwds /\ previousBwd' = previousBwd
      /\ currentLayer' = currentLayer /\ layers' = layers
      /\ saved' = saved /\ pc' = pc /\ k' = k /\ agenda' = agenda /\ pass' = pass
  BY DEF syncVars, scriptVars
<1>2. Layers' = Layers /\ NumLayers' = NumLayers  BY <1>1 DEF Layers, NumLayers
<1>3. HostTyped' /\ Phase'  BY <1>1, <1>2 DEF HInv, HostTyped, Phase
<1>4. OnSchedule'
  BY <1>1, <1>2 DEF HInv, OnSchedule, Schedule, SchedulePhase, ScheduleLayer, Filling
<1>5. \A l \in Layers : LayerInv(l)'
  <2>1. \A l \in Layers : (Filling(l)' <=> Filling(l)) /\ (Spent(l)' <=> Spent(l))
    BY <1>1 DEF Filling, Spent
  <2> QED  BY <1>1, <2>1, LayersKept DEF HInv
<1> QED  BY <1>2, <1>3, <1>4, <1>5 DEF HInv

\* The operation that runs was the first of its stream.
LEMMA RanDevice ==
  ASSUME IInv, NEW s \in Streams, queue[s] # <<>>, Ran(s)
  PROVE  IInv'
<1> DEFINE A == MainOps(End(queue, done, "copy"))
           C == CopyOps(End(queue, done, "main"))
           T == IF s = "main" THEN A ELSE C
<1>1. /\ queue["main"] \in Seq(A) /\ queue["copy"] \in Seq(C) /\ DOMAIN queue = Streams
      /\ done \in [Streams -> Nat] /\ Streams = {"main", "copy"}
  BY DEF IInv, DeviceTyped, QueuesTyped, Streams
<1>2. /\ queue' = [queue EXCEPT ![s] = Tail(@)] /\ done' = [done EXCEPT ![s] = @ + 1]
      /\ UNCHANGED <<syncVars, scriptVars>>
  BY DEF Ran
<1> HIDE DEF A, C
<1>3. /\ Tail(queue[s]) \in Seq(T) /\ Len(Tail(queue[s])) = Len(queue[s]) - 1 /\ Len(queue[s]) \in Nat
      /\ \A t \in Streams : Len(queue[t]) \in Nat
  <2>1. queue[s] \in Seq(T) /\ \A t \in Streams : Len(queue[t]) \in Nat  BY <1>1
  <2> HIDE DEF T
  <2>2. /\ Tail(queue[s]) \in Seq(T) /\ Len(Tail(queue[s])) = Len(queue[s]) - 1
        /\ Len(queue[s]) \in Nat
    BY <2>1
  <2> QED  BY <2>1, <2>2
<1>4. ASSUME NEW t \in Streams  PROVE End(queue', done', t) = End(queue, done, t)
  <2>1. CASE t = s
    <3>1. queue'[s] = Tail(queue[s]) /\ done'[s] = done[s] + 1 /\ done[s] \in Nat  BY <1>1, <1>2
    <3> QED  BY <1>3, <2>1, <3>1 DEF End
  <2>2. CASE t # s
    <3>1. queue'[t] = queue[t] /\ done'[t] = done[t]  BY <1>1, <1>2, <2>2
    <3> QED  BY <3>1 DEF End
  <2> QED  BY <2>1, <2>2
<1>5. DeviceTyped'
  <2>1. queue'["main"] \in Seq(A) /\ queue'["copy"] \in Seq(C)
    <3>1. CASE s = "main"
      <4>1. queue'["main"] = Tail(queue["main"]) /\ queue'["copy"] = queue["copy"]
        BY <1>1, <1>2, <3>1
      <4> QED  BY <1>1, <1>3, <3>1, <4>1
    <3>2. CASE s = "copy"
      <4>1. queue'["copy"] = Tail(queue["copy"]) /\ queue'["main"] = queue["main"]
        BY <1>1, <1>2, <3>2
      <4> QED  BY <1>1, <1>3, <3>2, <4>1
    <3> QED  BY <1>1, <3>1, <3>2
  <2>2. DOMAIN queue' = Streams /\ done' \in [Streams -> Nat]  BY <1>1, <1>2
  <2>3. A = MainOps(End(queue', done', "copy")) /\ C = CopyOps(End(queue', done', "main"))
    BY <1>1, <1>4 DEF A, C
  <2> QED  BY <2>1, <2>2, <2>3 DEF DeviceTyped, QueuesTyped
<1>6. EventsPut'
  <2>1. layers' = layers /\ Layers' = Layers  BY <1>2 DEF syncVars, Layers, NumLayers
  <2> QED  BY <1>1, <1>4, <2>1 DEF EventsPut, IInv
<1>7. HInv'  BY <1>2, DeviceHost DEF IInv
<1> QED  BY <1>5, <1>6, <1>7 DEF IInv

-----------------------------------------------------------------------------
(* The invariant                                                             *)

LEMMA InitIInv ==
  ASSUME Init
  PROVE  IInv
<1>1. HInv  BY InitHost
<1>2. queue = [s \in Streams |-> <<>>] /\ done = [s \in Streams |-> 0]  BY DEF Init
<1>3. DeviceTyped
  <2> DEFINE A == MainOps(End(queue, done, "copy"))
             C == CopyOps(End(queue, done, "main"))
  <2>1. queue["main"] = <<>> /\ queue["copy"] = <<>> /\ DOMAIN queue = Streams  BY <1>2 DEF Streams
  <2> HIDE DEF A, C
  <2>2. queue["main"] \in Seq(A) /\ queue["copy"] \in Seq(C)  BY <2>1
  <2>3. done \in [Streams -> Nat]  BY <1>2
  <2> QED  BY <2>1, <2>2, <2>3 DEF DeviceTyped, QueuesTyped, A, C
<1>4. EventsPut
  <2>1. End(queue, done, "copy") = 0  BY <1>2 DEF End, Streams
  <2>2. ASSUME NEW l \in Layers
        PROVE  layers[l].fwd = <<>> /\ layers[l].bwd = <<>> /\ layers[l].finished = 0
    BY DEF Init, Fresh
  <2>3. DOMAIN <<>> = {}  OBVIOUS
  <2> QED  BY <2>1, <2>2, <2>3 DEF EventsPut, EventsBy
<1> QED  BY <1>1, <1>3, <1>4 DEF IInv

LEMMA NextIInv ==
  ASSUME IInv, [Next]_vars
  PROVE  IInv'
<1> USE DEF IInv
<1>1. CASE NextLayer  BY <1>1, NextLayerHost, NextLayerDevice
<1>2. CASE NextForward  BY <1>2, NextForwardHost, NextForwardDevice
<1>3. CASE SaveTensor  BY <1>3, SaveTensorHost, SaveTensorDevice
<1>4. CASE SaveAgain  BY <1>4, SaveAgainHost, SaveAgainDevice
<1>5. CASE LeaveContext  BY <1>5, LeaveContextHost, QuietDevice
<1>6. CASE StartOffloadLayer  BY <1>6, StartOffloadLayerHost, StartOffloadLayerDevice
<1>7. CASE ReleaseActivationForwardGpuMemory
  BY <1>7, ReleaseActivationHost, ReleaseActivationDevice
<1>8. CASE StartReloadLayer  BY <1>8, StartReloadLayerHost, StartReloadLayerDevice
<1>9. CASE StartBackward  BY <1>9, StartBackwardHost, QuietDevice
<1>10. CASE BwdStep  BY <1>10, BwdStepHost, BwdStepDevice
<1>11. CASE PopTensor  BY <1>11, PopTensorHost, PopTensorDevice
<1>12. CASE EndLayer  BY <1>12, EndLayerHost, QuietDevice
<1>13. CASE FinishPartOfBwd  BY <1>13, FinishPartOfBwdHost, FinishPartOfBwdDevice
<1>14. CASE Main \/ Copy
  <2>1. \E s \in Streams : queue[s] # <<>> /\ Ran(s)
    BY <1>14 DEF Main, Copy, StreamWait, Compute, Use, CopyToHost, CopyToGpu, Next1, Streams
  <2> QED  BY <2>1, RanDevice
<1>15. CASE UNCHANGED vars
  <2>1. /\ UNCHANGED <<syncVars, scriptVars>>
        /\ layers' = layers /\ config' = config /\ queue' = queue /\ done' = done
    BY <1>15 DEF vars, syncVars, deviceVars
  <2> QED  BY <2>1, DeviceHost, DeviceSame
<1> QED  BY <1>1, <1>2, <1>3, <1>4, <1>5, <1>6, <1>7, <1>8, <1>9, <1>10, <1>11, <1>12, <1>13,
            <1>14, <1>15 DEF Next, Host

\* The inductive invariant holds in every run.
LEMMA Invariant == Spec => []IInv
<1>1. Init => IInv  BY InitIInv
<1>2. IInv /\ [Next]_vars => IInv'  BY NextIInv
<1> QED  BY <1>1, <1>2, PTL DEF Spec

-----------------------------------------------------------------------------
(* Theorems                                                                  *)

\* No hook of the default schedule, and no call of a legal manual one, raises: each
\* finds the layers it moves in the states that _validate_state asks for.
THEOREM NoHookRaises == Spec => []NoRaise
<1>1. IInv => NoRaise  BY DEF IInv, HInv, HostTyped, NoRaise
<1> QED  BY <1>1, Invariant, PTL

\* The indices of a layer are no more than what it saves.
LEMMA GroupBound ==
  ASSUME IInv, NEW l \in Layers, NEW j \in DOMAIN saved[l], IsIndex(l, j)
  PROVE  At(l, j) \in 1..N
<1> DEFINE ly == layers[l]
           sv == saved[l]
           G == Group(ly)
           g == IF ly.state = "not_offloaded" THEN Len(ly.fwd) ELSE Len(ly.aux)
<1>1. Good(config, pass, l, ly, sv) /\ Lengths(l) /\ N \in Nat
  BY CountFinite DEF IInv, HInv, LayerInv
<1>2. sv \in Seq(Items) /\ Len(sv) <= N /\ ly.fwd \in Seq(Tensors) /\ ly.aux \in Seq(1..Count)
  BY <1>1 DEF Good, SavedAre, Typed
<1>3. G = 1..g /\ g \in Nat  BY <1>2 DEF Group
<1>4. Len(sv) \in Nat /\ DOMAIN sv = 1..Len(sv) /\ j \in 1..Len(sv) /\ sv # <<>>  BY <1>2
<1>5. At(l, j) \in G
  <2>1. sv[j].kind = "index" /\ j \in 1..Len(sv)  BY <1>4 DEF IsIndex
  <2>2. IF Direct(config, l) \/ Saves[j] \in Kept THEN sv[j].kind = "tensor" /\ sv[j].at \in Blocks
        ELSE sv[j].kind = "index" /\ sv[j].at \in G
    BY <1>1, <2>1 DEF Good, SavedAre
  <2> QED  BY <2>1, <2>2 DEF At
<1>6. \A i \in G : \E x \in 1..Len(sv) : sv[x].at = i  BY <1>1, <1>4 DEF Lengths, Covered
<1> HIDE DEF G, g, sv
<1> DEFINE f == [i \in 1..g |-> CHOOSE x \in 1..Len(sv) : sv[x].at = i]
<1>7. f \in Injection(1..g, 1..Len(sv))
  <2>1. \A i \in 1..g : f[i] \in 1..Len(sv) /\ sv[f[i]].at = i  BY <1>3, <1>6
  <2>2. f \in [1..g -> 1..Len(sv)]  BY <2>1
  <2> HIDE DEF f
  <2>3. \A i, x \in 1..g : f[i] = f[x] => i = x  BY <2>1
  <2> QED  BY <2>2, <2>3 DEF Injection, IsInjective
<1>8. g <= Len(sv)
  <2>1. /\ IsFiniteSet(1..g) /\ Cardinality(1..g) = g
        /\ IsFiniteSet(1..Len(sv)) /\ Cardinality(1..Len(sv)) = Len(sv)
    <3> DEFINE z == Len(sv)
    <3>1. z \in Nat /\ g \in Nat  BY <1>3, <1>4
    <3> HIDE DEF z
    <3>2. /\ IsFiniteSet(1..g) /\ Cardinality(1..g) = IF 1 > g THEN 0 ELSE g - 1 + 1
          /\ IsFiniteSet(1..z) /\ Cardinality(1..z) = IF 1 > z THEN 0 ELSE z - 1 + 1
      BY <3>1, FS_Interval
    <3> QED  BY <3>1, <3>2 DEF z
  <2> HIDE DEF f
  <2>2. Cardinality(1..g) <= Cardinality(1..Len(sv))  BY <1>7, <2>1, FS_Injection
  <2> QED  BY <2>1, <2>2
<1>9. Len(sv) <= N  BY <1>2 DEF sv
<1> QED  BY <1>1, <1>3, <1>4, <1>5, <1>8, <1>9

\* The tensors of the two groups of a layer, and those autograd holds for it, are in
\* memory that exists.
LEMMA HeldAre ==
  ASSUME IInv, NEW l \in Layers
  PROVE  HeldBy(layers, saved, l) \subseteq Blocks
<1> DEFINE f == layers[l].fwd
           b == layers[l].bwd
           sv == saved[l]
           T == Tensors
<1>1. /\ Good(config, pass, l, layers[l], sv) /\ f \in Seq(T) /\ b \in Seq(T)
  BY LayerIs DEF IInv, HInv, LayerInv
<1>2. ASSUME NEW i \in {x \in DOMAIN sv : sv[x].kind = "tensor"}  PROVE sv[i].at \in Blocks
  <2>1. sv \in Seq(Items) /\ sv[i].kind = "tensor" /\ i \in DOMAIN sv  BY <1>1 DEF Good, SavedAre
  <2>2. i \in 1..Len(sv)  BY <2>1
  <2> QED  BY <1>1, <2>1, <2>2 DEF Good, SavedAre
<1> HIDE DEF f, b, T
<1>3. (\A i \in DOMAIN f : f[i] \in T) /\ \A i \in DOMAIN b : b[i] \in T  BY <1>1
<1>4. (\A i \in DOMAIN f : f[i].block \in Blocks) /\ \A i \in DOMAIN b : b[i].block \in Blocks
  BY <1>3 DEF T, Tensors
<1> QED  BY <1>2, <1>4 DEF HeldBy, GroupBlocks, f, b

\* A stream never waits for an event beyond what is on the other one.
LEMMA WaitsAre ==
  ASSUME IInv, NEW s \in Streams, NEW i \in DOMAIN queue[s], queue[s][i].op = "wait"
  PROVE  queue[s][i].at <= Now(queue[s][i].stream, queue)
<1> DEFINE m == End(queue, done, "main")
           e == End(queue, done, "copy")
           A == MainOps(e)
           C == CopyOps(m)
<1>1. queue["main"] \in Seq(A) /\ queue["copy"] \in Seq(C) /\ s \in {"main", "copy"}
  BY DEF IInv, DeviceTyped, QueuesTyped, Streams
<1>2. m = Now("main", queue) /\ e = Now("copy", queue) /\ m \in Nat /\ e \in Nat  BY NowIs DEF IInv
<1> HIDE DEF m, e, A, C
<1>3. s = "main" => queue[s][i] \in A  BY <1>1
<1>4. s = "copy" => queue[s][i] \in C  BY <1>1
<1>5. CASE s = "main"
  <2>1. queue[s][i].stream = "copy" /\ queue[s][i].at \in 0..e
    BY <1>3, <1>5 DEF A, MainOps, WaitsFor
  <2> QED  BY <1>2, <2>1
<1>6. CASE s = "copy"
  <2>1. queue[s][i].stream = "main" /\ queue[s][i].at \in 0..m
    BY <1>4, <1>6 DEF C, CopyOps, WaitsFor
  <2> QED  BY <1>2, <2>1
<1> QED  BY <1>1, <1>5, <1>6

\* Every layer is in one of its four states; groups, saved items and events lie within
\* memory, what the layer saves, and what is on the streams.
THEOREM OffloadTypes == Spec => []TypeOK
<1>1. ASSUME IInv  PROVE TypeOK
  <2>1. /\ numOfFwds \in Layers \cup {None} /\ {previousBwd, currentLayer} \subseteq Layers \cup {None}
        /\ pc \in {"idle", "forward", "hook", "unpack", "callback", "raised"}
    BY <1>1 DEF IInv, HInv, HostTyped
  <2>2. ASSUME NEW l \in Layers
        PROVE  /\ layers[l].state \in {"not_offloaded", "offload_started", "offload_finished",
                                       "reload_started"}
               /\ HeldBy(layers, saved, l) \subseteq Blocks
               /\ \A i \in DOMAIN saved[l] : saved[l][i].kind = "index" =>
                    saved[l][i].at \in 1..Len(Saves)
    <3>1. layers[l].state \in States
      <4>1. Typed(config, pass, l, layers[l])  BY <1>1, LayerIs
      <4> QED  BY <4>1 DEF Typed
    <3>2. \A i \in DOMAIN saved[l] : IsIndex(l, i) => At(l, i) \in 1..N  BY <1>1, GroupBound
    <3> QED  BY <1>1, <3>1, <3>2, HeldAre DEF States, IsIndex, At, N
  <2>3. \A s \in Streams : \A i \in DOMAIN queue[s] :
          queue[s][i].op = "wait" => queue[s][i].at <= Now(queue[s][i].stream, queue)
    BY <1>1, WaitsAre
  <2> QED  BY <2>1, <2>2, <2>3 DEF TypeOK
<1> QED  BY <1>1, Invariant, PTL

\* A layer that has saved nothing holds nothing, once its memory is released.
LEMMA NothingHeld ==
  ASSUME IInv, NEW l \in Layers, saved[l] = <<>>, ~Spent(l)
  PROVE  layers[l].fwd = <<>> /\ layers[l].bwd = <<>>
<1> DEFINE ly == layers[l]
           f == ly.fwd
           b == ly.bwd
           x == ly.aux
<1>1. /\ Good(config, pass, l, ly, <<>>) /\ Lengths(l)
      /\ f \in Seq(Tensors) /\ b \in Seq(Tensors) /\ x \in Seq(1..Count)
  BY LayerIs DEF IInv, HInv, LayerInv, Typed
<1>2. Group(ly) = {}  BY <1>1 DEF Lengths, Covered
<1>3. ly.state \in States  BY LayerIs DEF Typed
<1> HIDE DEF ly, f, b, x
<1>4. CASE ly.state = "not_offloaded"
  <2>1. DOMAIN f = {} /\ b = <<>>  BY <1>1, <1>2, <1>4 DEF Group, Good, Shape, f, b
  <2>2. f = <<>>  BY <1>1, <2>1
  <2> QED  BY <2>1, <2>2 DEF f, b, ly
<1>5. CASE ly.state = "offload_started"
  <2>1. N = 0
    <3>1. Len(<<>>) = N  BY <1>5, <1>1 DEF Lengths, ly
    <3> QED  BY <3>1
  <2>2. Count = 0
    <3>1. Offloadable = {}  BY <2>1 DEF Offloadable
    <3> QED  BY <3>1, FS_EmptySet DEF Count
  <2>3. Len(f) = 0 /\ b = <<>>  BY <1>1, <1>5, <2>2 DEF Good, Shape, f, b
  <2>4. f = <<>>  BY <1>1, <2>3
  <2> QED  BY <2>3, <2>4 DEF f, b, ly
<1>6. CASE ly.state = "offload_finished"  BY <1>1, <1>6 DEF Good, Shape, ly
<1>7. CASE ly.state = "reload_started"
  <2>1. DOMAIN x = {} /\ f = <<>> /\ Len(b) = Len(x)
    BY <1>1, <1>2, <1>7 DEF Group, Good, Shape, f, b, x
  <2> DEFINE C == 1..Count
  <2>2. x \in Seq(C)  BY <1>1
  <2> HIDE DEF C
  <2>3. Len(x) = 0  BY <2>1, <2>2
  <2>4. b = <<>>  BY <1>1, <2>1, <2>3
  <2> QED  BY <2>1, <2>4 DEF f, b, ly
<1> QED  BY <1>3, <1>4, <1>5, <1>6, <1>7 DEF States

\* Between the passes, when every layer has had its backward, none holds GPU memory.
THEOREM MemoryGivenBack == Spec => []NothingKept
<1>1. ASSUME IInv, pc = "idle", Unused = {}, NEW l \in Layers
      PROVE  HeldBy(layers, saved, l) = {}
  <2>1. saved[l] = <<>>  BY <1>1 DEF Unused
  <2>2. layers[l].fwd = <<>> /\ layers[l].bwd = <<>>  BY <1>1, <2>1, NothingHeld DEF Spent
  <2>3. DOMAIN <<>> = {}  OBVIOUS
  <2> QED  BY <2>1, <2>2, <2>3 DEF HeldBy, GroupBlocks
<1>2. IInv => NothingKept  BY <1>1 DEF NothingKept
<1> QED  BY <1>2, Invariant, PTL

\* The layers that may have activations on the GPU when the default schedule has come
\* to layer x.
Window(x) == x - (NumLayers - config.numLayers) + 1..x

LEMMA OnGpuIs ==
  ASSUME IInv, config.mode = "default", NEW l \in Layers, OnGpu(l)
  PROVE  /\ saved[l] # <<>> \/ Spent(l)
         /\ ~(l < config.numLayers) \/ layers[l].state # "offload_finished"
<1>1. Good(config, pass, l, layers[l], saved[l])  BY DEF IInv, HInv, LayerInv
<1>2. ASSUME saved[l] = <<>>, ~Spent(l)  PROVE FALSE
  <2>1. layers[l].fwd = <<>> /\ layers[l].bwd = <<>>  BY <1>2, NothingHeld
  <2>2. DOMAIN <<>> = {}  OBVIOUS
  <2> QED  BY <1>2, <2>1, <2>2 DEF OnGpu
<1>3. ASSUME l < config.numLayers, layers[l].state = "offload_finished"  PROVE FALSE
  <2>1. layers[l].fwd = <<>> /\ layers[l].bwd = <<>> /\ ~Direct(config, l)
    BY <1>1, <1>3 DEF Good, Shape
  <2>2. PICK i \in DOMAIN saved[l] : saved[l][i].kind = "tensor" /\ Saves[i] \notin Kept
    BY <2>1 DEF OnGpu
  <2>3. i \in 1..Len(saved[l])
    <3>1. saved[l] \in Seq(Items)  BY <1>1 DEF Good, SavedAre
    <3> QED  BY <2>2, <3>1
  <2> QED  BY <1>1, <2>1, <2>2, <2>3 DEF Good, SavedAre
<1> QED  BY <1>2, <1>3

LEMMA OnGpuWithin ==
  ASSUME IInv, config.mode = "default", NEW b \in 0..NumLayers, Schedule(b),
         NEW x, x = IF b = NumLayers THEN numOfFwds ELSE b, NEW l \in Layers, OnGpu(l)
  PROVE  x \in Int /\ l \in Window(x)
<1> DEFINE M == NumLayers
           m == config.numLayers
           f == numOfFwds
<1>1. /\ M \in Nat \ {0} /\ m \in Nat /\ m < M /\ Layers = 0..M - 1 /\ config.modelLayers = M
      /\ None \notin Nat /\ f \in Layers \cup {None} /\ l \in 0..M - 1 /\ b \in 0..M
      /\ b < M => f = M - 1
  BY ConfigIs DEF IInv, HInv, HostTyped, Schedule, SchedulePhase
<1>2. saved[l] # <<>> \/ Spent(l)  BY OnGpuIs
<1>3. l < m => layers[l].state # "offload_finished"  BY OnGpuIs
<1>4. /\ layers[l].state = StateAt(config, pc, f, l, b)
      /\ Gone(pc, l, b) => saved[l] = <<>>
      /\ Ahead(l)
  BY DEF Schedule, ScheduleLayer, IInv, HInv, LayerInv
<1>5. Spent(l) => l = b
  <2>1. Spent(l) => l # None  BY <1>1
  <2> QED  BY <2>1 DEF Spent, Schedule, SchedulePhase
<1> HIDE DEF M, m, f
<1>6. CASE b = M
  <2>1. f \in Nat /\ l <= f /\ f <= M - 1 /\ f # None
    <3>1. saved[l] # <<>>  BY <1>1, <1>2, <1>5, <1>6
    <3>2. f # None /\ ~(f < l)  BY <1>4, <3>1 DEF Ahead, f
    <3> QED  BY <1>1, <3>2
  <2>2. l > f - (M - m)
    <3>1. CASE l < m
      <4>1. ~Gone(pc, l, b) /\ ~(b + m + 1 <= M + l)  BY <1>1, <1>6, <3>1 DEF Gone
      <4>2. CASE f <= l  BY <1>1, <2>1, <4>2
      <4>3. CASE ~(f <= l)
        <5>1. layers[l].state = IF f + m < M + l THEN "offload_started" ELSE "offload_finished"
          BY <1>1, <1>4, <2>1, <3>1, <4>1, <4>3 DEF StateAt, m
        <5>2. f + m < M + l  BY <1>3, <3>1, <5>1
        <5> QED  BY <1>1, <2>1, <5>2
      <4> QED  BY <4>2, <4>3
    <3>2. CASE ~(l < m)  BY <1>1, <2>1, <3>2
    <3> QED  BY <3>1, <3>2
  <2>3. x = f  BY <1>6 DEF M, f
  <2> QED  BY <1>1, <2>1, <2>2, <2>3 DEF Window, M, m
<1>7. CASE b # M
  <2>1. b \in Nat /\ b < M /\ f = M - 1 /\ f \in Nat /\ f # None /\ x = b  BY <1>1, <1>7 DEF M
  <2>2. ~Gone(pc, l, b)  BY <1>1, <1>2, <1>4, <1>5, <2>1 DEF Gone, Spent
  <2>3. l <= b  BY <1>1, <2>1, <2>2 DEF Gone
  <2>4. l > b - (M - m)
    <3>1. CASE l < m
      <4>1. layers[l].state = IF b + m + 1 <= M + l THEN "reload_started"
                              ELSE IF f + m < M + l THEN "offload_started" ELSE "offload_finished"
        BY <1>1, <1>4, <2>1, <2>2, <3>1 DEF StateAt, m
      <4>2. ~(f + m < M + l)  BY <1>1, <2>1, <3>1
      <4>3. b + m + 1 <= M + l  BY <1>3, <3>1, <4>1, <4>2
      <4> QED  BY <1>1, <2>1, <4>3
    <3>2. CASE ~(l < m)  BY <1>1, <2>1, <3>2
    <3> QED  BY <3>1, <3>2
  <2> QED  BY <1>1, <2>1, <2>3, <2>4 DEF Window, M, m
<1> QED  BY <1>6, <1>7

\* The promise of the default schedule: no more than num_layers - num_offloaded_layers
\* layers have activations on the GPU, other than those too small to offload.
THEOREM PeakMemoryKept == Spec => []PeakMemory
<1>1. ASSUME IInv, config.mode = "default"
      PROVE  Cardinality({l \in Layers : OnGpu(l)}) <= NumLayers - config.numLayers
  <2> DEFINE S == {l \in Layers : OnGpu(l)}
             w == NumLayers - config.numLayers
  <2>1. PICK b \in 0..NumLayers : Schedule(b)  BY <1>1 DEF IInv, HInv, OnSchedule
  <2>2. w \in Nat  BY <1>1, ConfigIs DEF IInv, HInv
  <2> DEFINE x == IF b = NumLayers THEN numOfFwds ELSE b
  <2>3. \A l \in S : x \in Int /\ l \in Window(x)  BY <1>1, <2>1, OnGpuWithin
  <2> HIDE DEF S, x
  <2>4. CASE S = {}
    <3> HIDE DEF w
    <3>1. Cardinality(S) = 0  BY <2>4, FS_EmptySet
    <3>2. Cardinality(S) <= w  BY <2>2, <3>1
    <3> QED  BY <3>2 DEF S, w
  <2>5. CASE S # {}
    <3>1. x \in Int /\ S \in SUBSET Window(x)  BY <2>3, <2>5
    <3>2. Window(x) = x - w + 1..x  BY DEF Window
    <3> HIDE DEF w
    <3>3. IsFiniteSet(Window(x)) /\ Cardinality(Window(x)) <= w
      <4>1. x - w + 1 \in Int  BY <2>2, <3>1
      <4>2. /\ IsFiniteSet(x - w + 1..x)
            /\ Cardinality(x - w + 1..x) = IF x - w + 1 > x THEN 0 ELSE x - (x - w + 1) + 1
        BY <3>1, <4>1, FS_Interval
      <4> QED  BY <2>2, <3>1, <3>2, <4>2
    <3>4. Cardinality(S) <= Cardinality(Window(x)) /\ IsFiniteSet(S)  BY <3>1, <3>3, FS_Subset
    <3>5. Cardinality(S) \in Nat /\ Cardinality(Window(x)) \in Nat
      BY <3>3, <3>4, FS_CardinalityType
    <3>6. Cardinality(S) <= w  BY <2>2, <3>3, <3>4, <3>5
    <3> QED  BY <3>6 DEF S, w
  <2> QED  BY <2>4, <2>5
<1>2. IInv => PeakMemory  BY <1>1 DEF PeakMemory
<1> QED  BY <1>2, Invariant, PTL

-----------------------------------------------------------------------------
(* What is queued.  X is a device; the operations of a stream have           *)
(* consecutive positions.                                                    *)

Dev == [q |-> queue, d |-> done, g |-> gpu, p |-> pinned]

Stop(X, s) == End(X.q, X.d, s)
Pend(X, s) == X.d[s] + 1..Stop(X, s)
OpAt(X, s, p) == X.q[s][p - X.d[s]]

\* Before position y of stream t, the stream waits for position x of the other one.
Waits(X, t, y, x) ==
  \E w \in Pend(X, t) : w < y /\ OpAt(X, t, w).op = "wait" /\ OpAt(X, t, w).at >= x
\* Position x of stream s runs before position y of stream t.
Before(X, s, x, t, y) == IF s = t THEN x < y ELSE Waits(X, t, y, x)
\* Whatever the host puts on the main stream now comes after position x of the other.
Waited(X, x) == Waits(X, "main", Stop(X, "main") + 1, x)

\* What is still to be written to a block, on each stream, and to a pinned buffer.
Writes(X, b, s) ==
  {w \in Pend(X, s) : OpAt(X, s, w).op \in {"compute", "reload"} /\ OpAt(X, s, w).block = b}
Fills(X, f) ==
  {o \in Pend(X, "copy") : OpAt(X, "copy", o).op = "offload" /\ OpAt(X, "copy", o).buffer = f}

\* A read of block b at position y of stream t gets v: it is there now ...
GetsNow(X, b, t, y, v) ==
  X.g[b] = v /\ \A s \in Streams : \A w \in Writes(X, b, s) : Before(X, t, y, s, w)
\* ... or the last write before it puts it there, a kernel ...
LastWrite(X, b, s, x, t, y) ==
  /\ Before(X, s, x, t, y)
  /\ \A r \in Streams : \A w \in Writes(X, b, r) :
       (r = s /\ w = x) \/ Before(X, r, w, s, x) \/ Before(X, t, y, r, w)
GetsComputed(X, b, t, y, v) ==
  \E m \in Writes(X, b, "main") :
    OpAt(X, "main", m).value = v /\ LastWrite(X, b, "main", m, t, y)

\* ... or a copy from a buffer.  A buffer holds v at position y of the copy stream: now,
\* or after the last copy to it, whose own source no later kernel can overwrite, since
\* the main stream waits for it or its block is still one of H and it ends by e.
Gives(X, f, y, v, H, e) ==
  \/ f \in DOMAIN X.p /\ X.p[f] = v /\ \A o \in Fills(X, f) : o > y
  \/ \E o \in Fills(X, f) :
       LET b == OpAt(X, "copy", o).block IN
       /\ o < y /\ \A x \in Fills(X, f) : x <= o \/ x > y
       /\ GetsNow(X, b, "copy", o, v) \/ GetsComputed(X, b, "copy", o, v)
       /\ Waited(X, o) \/ (b \in H /\ o <= e)
GetsReloaded(X, b, t, y, v) ==
  \E c \in Writes(X, b, "copy") :
    Gives(X, OpAt(X, "copy", c).buffer, c, v, {}, 0) /\ LastWrite(X, b, "copy", c, t, y)

Gets(X, b, t, y, v) ==
  GetsNow(X, b, t, y, v) \/ GetsComputed(X, b, t, y, v) \/ GetsReloaded(X, b, t, y, v)

\* Block b holds v for good once its stream is past position r.
HoldsNow(X, b, v) == X.g[b] = v /\ \A s \in Streams : Writes(X, b, s) = {}
FinalWrite(X, b, s, x) ==
  \A t \in Streams : \A w \in Writes(X, b, t) : (t = s /\ w = x) \/ Before(X, t, w, s, x)
OnMain(X, b, r, v) ==
  \/ HoldsNow(X, b, v)
  \/ \E m \in Writes(X, b, "main") :
       m <= r /\ OpAt(X, "main", m).value = v /\ FinalWrite(X, b, "main", m)
OnCopy(X, b, r, v) ==
  \/ HoldsNow(X, b, v)
  \/ \E c \in Writes(X, b, "copy") :
       /\ c <= r /\ Gives(X, OpAt(X, "copy", c).buffer, c, v, {}, 0)
       /\ FinalWrite(X, b, "copy", c)

-----------------------------------------------------------------------------
(* The invariant *)

\* A kernel that is to read a block gets what the forward computed.
UsesRight(X) ==
  \A u \in Pend(X, "main") :
    LET x == OpAt(X, "main", u) IN
    x.op = "use" => Gets(X, x.block, "main", u, Value(x.pass, x.layer, Saves[x.k]))

\* Whatever stands for a saved tensor stands for v.
SavedRight(X, ly, item, v) ==
  LET end == Stop(X, "copy") + 1 IN
  /\ item.kind = "tensor" => OnMain(X, item.at, Stop(X, "main"), v)
  /\ item.kind = "index" =>
       /\ ly.state = "not_offloaded" =>
            OnMain(X, ly.fwd[item.at].block, ly.fwd[item.at].ready, v)
       /\ ly.state = "offload_started" =>
            Gives(X, ly.cpu[ly.aux[item.at]], end, v, GroupBlocks(ly.fwd), ly.finished)
       /\ ly.state = "offload_finished" => Gives(X, ly.cpu[ly.aux[item.at]], end, v, {}, 0)
       /\ ly.state = "reload_started" =>
            OnCopy(X, ly.bwd[item.at].block, ly.bwd[item.at].ready, v)
LayerRight(X, p, l, ly, sv) ==
  \A j \in 1..Len(sv) : SavedRight(X, ly, sv[j], Value(p, l, Saves[j]))

\* Some tensor of the layer, saved at n or later, still keeps the block of a reload at c.
Keeps(X, ly, sv, n, c) ==
  /\ ly.state = "reload_started"
  /\ \E j \in n..Len(sv) : /\ sv[j].kind = "index" /\ ly.bwd[sv[j].at].ready >= c
                           /\ ly.bwd[sv[j].at].block = OpAt(X, "copy", c).block
Popped(l) == IF pc = "unpack" /\ currentLayer = l THEN k ELSE 1

\* A block that is reloaded is not given to a kernel before the copy has ended.
ReloadsKept ==
  \A c \in Pend(Dev, "copy") : OpAt(Dev, "copy", c).op = "reload" =>
    Waited(Dev, c) \/ \E l \in Layers : Keeps(Dev, layers[l], saved[l], Popped(l), c)

\* Every pinned buffer of a layer is that of some tensor.
AllNamed(ly) ==
  ly.state # "not_offloaded" => \A n \in 1..Count : \E i \in DOMAIN ly.aux : ly.aux[i] = n

\* A backward under the default schedule comes down to the first layer, so that no
\* reload is under way when a forward begins.
Whole ==
  config.mode = "default" =>
    /\ pc \in {"hook", "unpack"} => agenda[Len(agenda)] = 0
    /\ pc = "callback" => previousBwd = 0
    /\ pc \in {"idle", "forward"} => \A l \in Layers : layers[l].state # "reload_started"

DInv ==
  /\ DOMAIN gpu = Blocks /\ Faithful /\ Whole
  /\ UsesRight(Dev) /\ ReloadsKept
  /\ \A l \in Layers : AllNamed(layers[l]) /\ LayerRight(Dev, pass, l, layers[l], saved[l])

-----------------------------------------------------------------------------
(* Positions                                                                 *)

Other(s) == IF s = "main" THEN "copy" ELSE "main"
Kinds(s) == IF s = "main" THEN {"wait", "compute", "use"} ELSE {"wait", "offload", "reload"}

\* Positions are numbers, and the operations at them are of their stream.
LEMMA Positions ==
  ASSUME NEW X, QueuesTyped(X.q, X.d), NEW s \in Streams
  PROVE  /\ Stop(X, s) \in Nat /\ Other(s) \in Streams /\ Other(s) # s
         /\ \A p \in Pend(X, s) :
              /\ p \in Nat /\ p <= Stop(X, s) /\ p > X.d[s] /\ p - X.d[s] \in 1..Len(X.q[s])
              /\ OpAt(X, s, p).op \in Kinds(s)
              /\ OpAt(X, s, p).op # "wait" => OpAt(X, s, p).block \in Blocks
              /\ OpAt(X, s, p).op = "wait" =>
                   OpAt(X, s, p).stream = Other(s) /\ OpAt(X, s, p).at \in 0..Stop(X, Other(s))
<1> DEFINE e == Stop(X, Other(s))
           A == IF s = "main" THEN MainOps(e) ELSE CopyOps(e)
<1>1. Other(s) \in Streams /\ Other(s) # s  BY DEF Other, Streams
<1>2. X.q[s] \in Seq(A) /\ X.d[s] \in Nat  BY DEF QueuesTyped, Other, Stop, Streams
<1>3. \A x \in A : /\ x.op \in Kinds(s) /\ (x.op # "wait" => x.block \in Blocks)
                   /\ x.op = "wait" => x.stream = Other(s) /\ x.at \in 0..e
  <2> HIDE DEF e
  <2>1. CASE s = "main"  BY <2>1 DEF MainOps, WaitsFor, Kinds, Other
  <2>2. CASE s = "copy"  BY <2>2 DEF CopyOps, WaitsFor, Kinds, Other
  <2> QED  BY <2>1, <2>2 DEF Streams
<1> HIDE DEF A, e
<1>4. Len(X.q[s]) \in Nat /\ \A i \in 1..Len(X.q[s]) : X.q[s][i] \in A  BY <1>2
<1>5. Stop(X, s) \in Nat /\ Stop(X, s) = X.d[s] + Len(X.q[s])  BY <1>2, <1>4 DEF Stop, End
<1>6. ASSUME NEW p \in Pend(X, s)
      PROVE  /\ p \in Nat /\ p <= Stop(X, s) /\ p > X.d[s] /\ p - X.d[s] \in 1..Len(X.q[s])
             /\ OpAt(X, s, p) \in A
  <2>1. p \in Nat /\ p <= Stop(X, s) /\ p > X.d[s] /\ p - X.d[s] \in 1..Len(X.q[s])
    BY <1>2, <1>4, <1>5 DEF Pend
  <2> QED  BY <1>4, <2>1 DEF OpAt
<1> QED  BY <1>1, <1>3, <1>5, <1>6 DEF e

\* What a kind of operation is about.
LEMMA WritesAre ==
  ASSUME NEW X, QueuesTyped(X.q, X.d)
  PROVE  /\ \A s \in Streams : \A b : \A w \in Writes(X, b, s) :
              /\ w \in Pend(X, s) /\ w \in Nat /\ w <= Stop(X, s) /\ b \in Blocks
              /\ OpAt(X, s, w).block = b /\ OpAt(X, s, w).op = IF s = "main" THEN "compute" ELSE "reload"
         /\ \A f : \A o \in Fills(X, f) :
              /\ o \in Pend(X, "copy") /\ o \in Nat /\ o <= Stop(X, "copy")
              /\ OpAt(X, "copy", o).block \in Blocks
<1>1. ASSUME NEW s \in Streams, NEW b, NEW w \in Writes(X, b, s)
      PROVE  /\ w \in Pend(X, s) /\ w \in Nat /\ w <= Stop(X, s) /\ b \in Blocks
             /\ OpAt(X, s, w).block = b /\ OpAt(X, s, w).op = IF s = "main" THEN "compute" ELSE "reload"
  <2>1. /\ w \in Pend(X, s) /\ OpAt(X, s, w).op \in {"compute", "reload"}
        /\ OpAt(X, s, w).block = b
    BY DEF Writes
  <2>2. /\ w \in Nat /\ w <= Stop(X, s) /\ OpAt(X, s, w).op \in Kinds(s)
        /\ OpAt(X, s, w).op # "wait" => OpAt(X, s, w).block \in Blocks
    BY <2>1, Positions
  <2> QED  BY <2>1, <2>2 DEF Kinds, Streams
<1>2. ASSUME NEW f, NEW o \in Fills(X, f)
      PROVE  /\ o \in Pend(X, "copy") /\ o \in Nat /\ o <= Stop(X, "copy")
             /\ OpAt(X, "copy", o).block \in Blocks
  <2>1. o \in Pend(X, "copy") /\ OpAt(X, "copy", o).op = "offload" /\ "copy" \in Streams
    BY DEF Fills, Streams
  <2> QED  BY <2>1, Positions
<1> QED  BY <1>1, <1>2

-----------------------------------------------------------------------------
(* What the host adds                                                        *)

\* Y is X with more operations on the streams.  New writes go to blocks of F, and the
\* copies among them come after all that is on the main stream.
Grows(X, Y, F) ==
  /\ QueuesTyped(X.q, X.d) /\ QueuesTyped(Y.q, Y.d) /\ Y.g = X.g /\ Y.p = X.p
  /\ \A s \in Streams :
       /\ Stop(X, s) <= Stop(Y, s)
       /\ \A p \in Pend(X, s) : p \in Pend(Y, s) /\ OpAt(Y, s, p) = OpAt(X, s, p)
       /\ \A p \in Pend(Y, s) : p \in Pend(X, s) \/ p > Stop(X, s)
       /\ \A p \in Pend(Y, s) : p > Stop(X, s) /\ OpAt(Y, s, p).op \in {"compute", "reload"} =>
            /\ OpAt(Y, s, p).block \in F
            /\ s = "copy" => \A u \in Pend(X, "main") : Waits(Y, "copy", p, u)

\* Old operations stay, in their order; the others come later.
LEMMA GrowsOld ==
  ASSUME NEW X, NEW Y, NEW F, Grows(X, Y, F), NEW s \in Streams
  PROVE  /\ Stop(X, s) \in Nat /\ Stop(Y, s) \in Nat /\ Stop(X, s) <= Stop(Y, s)
         /\ \A p \in Pend(X, s) :
              p \in Pend(Y, s) /\ p \in Nat /\ p <= Stop(X, s) /\ OpAt(Y, s, p) = OpAt(X, s, p)
         /\ \A p \in Pend(Y, s) : p \in Nat /\ p <= Stop(Y, s) /\ (p \in Pend(X, s) \/ p > Stop(X, s))
<1>1. QueuesTyped(X.q, X.d) /\ QueuesTyped(Y.q, Y.d)  BY DEF Grows
<1>2. /\ Stop(X, s) \in Nat /\ Stop(Y, s) \in Nat /\ \A p \in Pend(Y, s) : p \in Nat /\ p <= Stop(Y, s)
      /\ \A p \in Pend(X, s) : p \in Nat /\ p <= Stop(X, s)
  BY <1>1, Positions
<1>3. /\ Stop(X, s) <= Stop(Y, s)
      /\ \A p \in Pend(X, s) : p \in Pend(Y, s) /\ OpAt(Y, s, p) = OpAt(X, s, p)
      /\ \A p \in Pend(Y, s) : p \in Pend(X, s) \/ p > Stop(X, s)
  BY DEF Grows
<1> QED  BY <1>2, <1>3

LEMMA GrowsBefore ==
  ASSUME NEW X, NEW Y, NEW F, Grows(X, Y, F), NEW s \in Streams, NEW x, NEW t \in Streams, NEW y,
         Before(X, s, x, t, y)
  PROVE  Before(Y, s, x, t, y)
<1>1. ASSUME Waits(X, t, y, x)  PROVE Waits(Y, t, y, x)  BY <1>1, GrowsOld DEF Waits
<1> QED  BY <1>1 DEF Before

LEMMA GrowsWaited ==
  ASSUME NEW X, NEW Y, NEW F, Grows(X, Y, F), NEW x, Waited(X, x)
  PROVE  /\ Waited(Y, x)
         /\ \A y \in Nat : y > Stop(X, "main") => Waits(Y, "main", y, x)
<1>1. "main" \in Streams  BY DEF Streams
<1>2. PICK w \in Pend(X, "main") : OpAt(X, "main", w).op = "wait" /\ OpAt(X, "main", w).at >= x
  BY DEF Waited, Waits
<1>3. /\ w \in Pend(Y, "main") /\ w \in Nat /\ w <= Stop(X, "main") /\ OpAt(Y, "main", w) = OpAt(X, "main", w)
      /\ Stop(X, "main") \in Nat /\ Stop(Y, "main") \in Nat /\ Stop(X, "main") <= Stop(Y, "main")
  BY <1>1, <1>2, GrowsOld
<1>4. ASSUME NEW y \in Nat, y > Stop(X, "main")  PROVE Waits(Y, "main", y, x)
  BY <1>2, <1>3, <1>4 DEF Waits
<1>5. Stop(Y, "main") + 1 \in Nat /\ Stop(Y, "main") + 1 > Stop(X, "main")  BY <1>3
<1> QED  BY <1>4, <1>5 DEF Waited

\* A write is an old one, or a later one to a block of F.
LEMMA GrowsWrites ==
  ASSUME NEW X, NEW Y, NEW F, Grows(X, Y, F), NEW b, NEW s \in Streams
  PROVE  /\ Writes(X, b, s) \subseteq Writes(Y, b, s)
         /\ \A w \in Writes(Y, b, s) :
              \/ w \in Writes(X, b, s)
              \/ /\ w \in Nat /\ w > Stop(X, s) /\ b \in F
                 /\ s = "copy" => \A u \in Pend(X, "main") : Waits(Y, "copy", w, u)
         /\ b \notin F => Writes(Y, b, s) = Writes(X, b, s)
<1>1. Writes(X, b, s) \subseteq Writes(Y, b, s)  BY GrowsOld DEF Writes
<1>2. ASSUME NEW w \in Writes(Y, b, s), w \notin Writes(X, b, s)
      PROVE  /\ w \in Nat /\ w > Stop(X, s) /\ b \in F
             /\ s = "copy" => \A u \in Pend(X, "main") : Waits(Y, "copy", w, u)
  <2>1. /\ w \in Pend(Y, s) /\ OpAt(Y, s, w).op \in {"compute", "reload"}
        /\ OpAt(Y, s, w).block = b
    BY DEF Writes
  <2>2. w \in Nat /\ w > Stop(X, s)  BY <1>2, <2>1, GrowsOld DEF Writes
  <2> QED  BY <2>1, <2>2 DEF Grows
<1> QED  BY <1>1, <1>2

\* A read at position y of stream t comes before all that may be put on the streams.
Safe(X, b, t, y, F) ==
  y \in Pend(X, t) /\ (t = "main" \/ Waited(X, y) \/ b \notin F)

LEMMA SafeBefore ==
  ASSUME NEW X, NEW Y, NEW F, Grows(X, Y, F), NEW b, NEW t \in Streams, NEW y, Safe(X, b, t, y, F),
         NEW s \in Streams, NEW w \in Writes(Y, b, s)
  PROVE  w \in Writes(X, b, s) \/ Before(Y, t, y, s, w)
<1> SUFFICES ASSUME w \notin Writes(X, b, s)  PROVE Before(Y, t, y, s, w)
  OBVIOUS
<1>1. /\ w \in Nat /\ w > Stop(X, s) /\ b \in F
      /\ s = "copy" => \A u \in Pend(X, "main") : Waits(Y, "copy", w, u)
  BY GrowsWrites
<1>2. y \in Pend(X, t) /\ y \in Nat /\ y <= Stop(X, t) /\ Stop(X, t) \in Nat  BY GrowsOld DEF Safe
<1>3. CASE s = t
  <2>1. y < w  BY <1>1, <1>2, <1>3
  <2> QED  BY <1>3, <2>1 DEF Before
<1>4. CASE s # t /\ t = "main"  BY <1>1, <1>2, <1>4 DEF Before, Streams
<1>5. CASE s # t /\ t = "copy"
  <2>1. Waited(X, y) /\ s = "main"  BY <1>1, <1>5 DEF Safe, Streams
  <2>2. Waits(Y, "main", w, y)  BY <1>1, <2>1, GrowsWaited
  <2> QED  BY <1>5, <2>1, <2>2 DEF Before
<1> QED  BY <1>3, <1>4, <1>5 DEF Streams

\* So it gets what it got.
LEMMA GrowsNow ==
  ASSUME NEW X, NEW Y, NEW F, Grows(X, Y, F), NEW b, NEW t \in Streams, NEW y, NEW v,
         Safe(X, b, t, y, F), GetsNow(X, b, t, y, v)
  PROVE  GetsNow(Y, b, t, y, v)
<1>1. Y.g[b] = v  BY DEF GetsNow, Grows
<1>2. ASSUME NEW s \in Streams, NEW w \in Writes(Y, b, s)  PROVE Before(Y, t, y, s, w)
  <2>1. w \in Writes(X, b, s) => Before(X, t, y, s, w)  BY DEF GetsNow
  <2> QED  BY <2>1, SafeBefore, GrowsBefore
<1> QED  BY <1>1, <1>2 DEF GetsNow

LEMMA GrowsLast ==
  ASSUME NEW X, NEW Y, NEW F, Grows(X, Y, F), NEW b, NEW t \in Streams, NEW y,
         Safe(X, b, t, y, F), NEW s \in Streams, NEW x, LastWrite(X, b, s, x, t, y)
  PROVE  LastWrite(Y, b, s, x, t, y)
<1>1. Before(Y, s, x, t, y)  BY GrowsBefore DEF LastWrite
<1>2. ASSUME NEW r \in Streams, NEW w \in Writes(Y, b, r)
      PROVE  (r = s /\ w = x) \/ Before(Y, r, w, s, x) \/ Before(Y, t, y, r, w)
  <2>1. w \in Writes(X, b, r) => \/ r = s /\ w = x
                                 \/ Before(X, r, w, s, x) \/ Before(X, t, y, r, w)
    BY DEF LastWrite
  <2> QED  BY <2>1, SafeBefore, GrowsBefore
<1> QED  BY <1>1, <1>2 DEF LastWrite

LEMMA GrowsComputed ==
  ASSUME NEW X, NEW Y, NEW F, Grows(X, Y, F), NEW b, NEW t \in Streams, NEW y, NEW v,
         Safe(X, b, t, y, F), GetsComputed(X, b, t, y, v)
  PROVE  GetsComputed(Y, b, t, y, v)
<1>1. "main" \in Streams  BY DEF Streams
<1>2. PICK m \in Writes(X, b, "main") :
        OpAt(X, "main", m).value = v /\ LastWrite(X, b, "main", m, t, y)
  BY DEF GetsComputed
<1>3. m \in Pend(X, "main")  BY <1>2 DEF Writes
<1>4. m \in Writes(Y, b, "main") /\ OpAt(Y, "main", m) = OpAt(X, "main", m)
  BY <1>1, <1>2, <1>3, GrowsWrites, GrowsOld
<1>5. LastWrite(Y, b, "main", m, t, y)  BY <1>1, <1>2, GrowsLast
<1> QED  BY <1>2, <1>4, <1>5 DEF GetsComputed

\* A buffer gives what it gave, at the same position or one after all copies so far.
LEMMA GrowsGives ==
  ASSUME NEW X, NEW Y, NEW F, Grows(X, Y, F), NEW f, NEW y \in Nat, NEW z \in Nat, NEW v, NEW H, NEW e,
         \A b \in H : b \notin F, Gives(X, f, y, v, H, e),
         z = y \/ (y > Stop(X, "copy") /\ z >= y),
         \A o \in Fills(Y, f) : o \in Fills(X, f) \/ o > z
  PROVE  Gives(Y, f, z, v, H, e)
<1>1. "copy" \in Streams /\ QueuesTyped(X.q, X.d)  BY DEF Streams, Grows
<1>2. \A o \in Fills(X, f) : o \in Pend(X, "copy") /\ o \in Nat /\ o <= Stop(X, "copy")
  BY <1>1, WritesAre
<1>3. Stop(X, "copy") \in Nat /\ z >= y  BY <1>1, GrowsOld
<1>4. ASSUME NEW o \in Fills(X, f), o > y  PROVE o > z  BY <1>2, <1>3, <1>4
<1>5. CASE f \in DOMAIN X.p /\ X.p[f] = v /\ \A o \in Fills(X, f) : o > y
  <2>1. f \in DOMAIN Y.p /\ Y.p[f] = v  BY <1>5 DEF Grows
  <2>2. \A o \in Fills(Y, f) : o > z  BY <1>4, <1>5
  <2> QED  BY <2>1, <2>2 DEF Gives
<1>6. ASSUME NEW o \in Fills(X, f), o < y, \A x \in Fills(X, f) : x <= o \/ x > y,
             \/ GetsNow(X, OpAt(X, "copy", o).block, "copy", o, v)
             \/ GetsComputed(X, OpAt(X, "copy", o).block, "copy", o, v),
             Waited(X, o) \/ (OpAt(X, "copy", o).block \in H /\ o <= e)
      PROVE  Gives(Y, f, z, v, H, e)
  <2> DEFINE b == OpAt(X, "copy", o).block
  <2>1. o \in Pend(X, "copy") /\ o \in Nat /\ OpAt(Y, "copy", o) = OpAt(X, "copy", o)
    BY <1>1, <1>2, GrowsOld
  <2>2. o \in Fills(Y, f)  BY <1>1, <2>1, GrowsOld DEF Fills
  <2>3. o < z /\ \A x \in Fills(Y, f) : x <= o \/ x > z  BY <1>3, <1>4, <1>6, <2>1
  <2>4. Safe(X, b, "copy", o, F)  BY <1>6, <2>1 DEF Safe
  <2>5. GetsNow(Y, b, "copy", o, v) \/ GetsComputed(Y, b, "copy", o, v)
    BY <1>1, <1>6, <2>4, GrowsNow, GrowsComputed
  <2>6. Waited(Y, o) \/ (b \in H /\ o <= e)  BY <1>6, GrowsWaited
  <2> QED  BY <2>1, <2>2, <2>3, <2>5, <2>6 DEF Gives
<1> QED  BY <1>5, <1>6 DEF Gives

\* A reload that is queued copies what it would have copied.
LEMMA GrowsReload ==
  ASSUME NEW X, NEW Y, NEW F, Grows(X, Y, F), NEW b, NEW c \in Writes(X, b, "copy"), NEW v,
         Gives(X, OpAt(X, "copy", c).buffer, c, v, {}, 0)
  PROVE  /\ c \in Writes(Y, b, "copy") /\ Gives(Y, OpAt(Y, "copy", c).buffer, c, v, {}, 0)
         /\ OpAt(Y, "copy", c) = OpAt(X, "copy", c)
<1>1. "copy" \in Streams  BY DEF Streams
<1>2. c \in Pend(X, "copy")  BY DEF Writes
<1>3. /\ c \in Nat /\ c <= Stop(X, "copy") /\ Stop(X, "copy") \in Nat
      /\ OpAt(Y, "copy", c) = OpAt(X, "copy", c)
  BY <1>1, <1>2, GrowsOld
<1> DEFINE f == OpAt(X, "copy", c).buffer
<1>4. ASSUME NEW o \in Fills(Y, f), o \notin Fills(X, f)  PROVE o > c
  <2>1. o \in Pend(Y, "copy") /\ o \notin Pend(X, "copy")  BY <1>1, <1>4, GrowsOld DEF Fills
  <2> QED  BY <1>1, <1>3, <2>1, GrowsOld
<1>5. c \in Writes(Y, b, "copy")  BY <1>1, GrowsWrites
<1>6. Gives(Y, f, c, v, {}, 0)
  <2>1. \A x \in {} : x \notin F  OBVIOUS
  <2>2. Gives(X, f, c, v, {}, 0)  OBVIOUS
  <2> HIDE DEF f
  <2> QED  BY <1>3, <1>4, <2>1, <2>2, GrowsGives
<1> QED  BY <1>3, <1>5, <1>6

LEMMA GrowsGets ==
  ASSUME NEW X, NEW Y, NEW F, Grows(X, Y, F), NEW b, NEW u \in Pend(X, "main"), NEW v,
         Gets(X, b, "main", u, v)
  PROVE  Gets(Y, b, "main", u, v)
<1>1. "main" \in Streams /\ "copy" \in Streams /\ Safe(X, b, "main", u, F)  BY DEF Streams, Safe
<1>2. CASE GetsNow(X, b, "main", u, v)  BY <1>1, <1>2, GrowsNow DEF Gets
<1>3. CASE GetsComputed(X, b, "main", u, v)  BY <1>1, <1>3, GrowsComputed DEF Gets
<1>4. CASE GetsReloaded(X, b, "main", u, v)
  <2>1. PICK c \in Writes(X, b, "copy") :
          Gives(X, OpAt(X, "copy", c).buffer, c, v, {}, 0) /\ LastWrite(X, b, "copy", c, "main", u)
    BY <1>4 DEF GetsReloaded
  <2>2. /\ c \in Writes(Y, b, "copy") /\ Gives(Y, OpAt(Y, "copy", c).buffer, c, v, {}, 0)
        /\ LastWrite(Y, b, "copy", c, "main", u)
    BY <1>1, <2>1, GrowsReload, GrowsLast
  <2> QED  BY <2>2 DEF Gets, GetsReloaded
<1> QED  BY <1>2, <1>3, <1>4 DEF Gets

\* A block that is held keeps what it holds.
LEMMA GrowsFinal ==
  ASSUME NEW X, NEW Y, NEW F, Grows(X, Y, F), NEW b, b \notin F, NEW s \in Streams, NEW x,
         FinalWrite(X, b, s, x)
  PROVE  FinalWrite(Y, b, s, x)
<1>1. ASSUME NEW t \in Streams, NEW w \in Writes(Y, b, t)
      PROVE  (t = s /\ w = x) \/ Before(Y, t, w, s, x)
  <2>1. w \in Writes(X, b, t)  BY GrowsWrites
  <2> QED  BY <2>1, GrowsBefore DEF FinalWrite
<1> QED  BY <1>1 DEF FinalWrite

LEMMA GrowsHolds ==
  ASSUME NEW X, NEW Y, NEW F, Grows(X, Y, F), NEW b, b \notin F, NEW r, NEW v
  PROVE  /\ OnMain(X, b, r, v) => OnMain(Y, b, r, v)
         /\ OnCopy(X, b, r, v) => OnCopy(Y, b, r, v)
<1>1. "main" \in Streams /\ "copy" \in Streams  BY DEF Streams
<1>2. ASSUME HoldsNow(X, b, v)  PROVE HoldsNow(Y, b, v)  BY <1>2, GrowsWrites DEF HoldsNow, Grows
<1>3. ASSUME NEW m \in Writes(X, b, "main"), m <= r, OpAt(X, "main", m).value = v,
             FinalWrite(X, b, "main", m)
      PROVE  OnMain(Y, b, r, v)
  <2>1. m \in Pend(X, "main")  BY DEF Writes
  <2>2. m \in Writes(Y, b, "main") /\ OpAt(Y, "main", m) = OpAt(X, "main", m)
    BY <1>1, <2>1, GrowsWrites, GrowsOld
  <2>3. FinalWrite(Y, b, "main", m)  BY <1>1, <1>3, GrowsFinal
  <2> QED  BY <1>3, <2>2, <2>3 DEF OnMain
<1>4. ASSUME NEW c \in Writes(X, b, "copy"), c <= r,
             Gives(X, OpAt(X, "copy", c).buffer, c, v, {}, 0), FinalWrite(X, b, "copy", c)
      PROVE  OnCopy(Y, b, r, v)
  <2>1. c \in Writes(Y, b, "copy") /\ Gives(Y, OpAt(Y, "copy", c).buffer, c, v, {}, 0)
    BY <1>4, GrowsReload
  <2>2. FinalWrite(Y, b, "copy", c)  BY <1>1, <1>4, GrowsFinal
  <2> QED  BY <1>4, <2>1, <2>2 DEF OnCopy
<1>5. OnMain(X, b, r, v) => OnMain(Y, b, r, v)  BY <1>2, <1>3 DEF OnMain
<1>6. OnCopy(X, b, r, v) => OnCopy(Y, b, r, v)  BY <1>2, <1>4 DEF OnCopy
<1> QED  BY <1>5, <1>6

\* A later event of the main stream is as good.
LEMMA OnMainLater ==
  ASSUME NEW X, QueuesTyped(X.q, X.d), NEW b, NEW r \in Nat, NEW z \in Nat, r <= z, NEW v,
         OnMain(X, b, r, v)
  PROVE  OnMain(X, b, z, v)
<1>1. "main" \in Streams  BY DEF Streams
<1>2. \A m \in Writes(X, b, "main") : m \in Nat  BY <1>1, WritesAre
<1>3. \A m \in Writes(X, b, "main") : m <= r => m <= z  BY <1>2
<1> QED  BY <1>3 DEF OnMain

-----------------------------------------------------------------------------
(* Reads put on the streams                                                  *)

\* A kernel that reads a block of a tensor not offloaded, or of one offloaded.
LEMMA ReadHeld ==
  ASSUME NEW X, QueuesTyped(X.q, X.d), NEW b, NEW r \in Nat, NEW v, NEW u \in Nat, r < u,
         OnMain(X, b, r, v)
  PROVE  Gets(X, b, "main", u, v)
<1>1. "main" \in Streams  BY DEF Streams
<1>2. CASE HoldsNow(X, b, v)  BY <1>2 DEF HoldsNow, Gets, GetsNow
<1>3. ASSUME NEW m \in Writes(X, b, "main"), m <= r, OpAt(X, "main", m).value = v,
             FinalWrite(X, b, "main", m)
      PROVE  Gets(X, b, "main", u, v)
  <2>1. m \in Nat  BY <1>1, WritesAre
  <2>2. Before(X, "main", m, "main", u)  BY <1>3, <2>1 DEF Before
  <2>3. LastWrite(X, b, "main", m, "main", u)  BY <1>3, <2>2 DEF FinalWrite, LastWrite
  <2> QED  BY <1>3, <2>3 DEF Gets, GetsComputed
<1> QED  BY <1>2, <1>3 DEF OnMain

LEMMA ReadReloaded ==
  ASSUME NEW X, QueuesTyped(X.q, X.d), NEW b, NEW r \in Nat, NEW v, NEW u,
         Waits(X, "main", u, r), OnCopy(X, b, r, v)
  PROVE  Gets(X, b, "main", u, v)
<1>1. "copy" \in Streams /\ "main" \in Streams  BY DEF Streams
<1>2. CASE HoldsNow(X, b, v)  BY <1>2 DEF HoldsNow, Gets, GetsNow
<1>3. ASSUME NEW c \in Writes(X, b, "copy"), c <= r,
             Gives(X, OpAt(X, "copy", c).buffer, c, v, {}, 0), FinalWrite(X, b, "copy", c)
      PROVE  Gets(X, b, "main", u, v)
  <2>1. c \in Nat  BY <1>1, WritesAre
  <2>2. Waits(X, "main", u, c)
    <3>1. PICK w \in Pend(X, "main") : w < u /\ OpAt(X, "main", w).op = "wait" /\ OpAt(X, "main", w).at >= r
      BY DEF Waits
    <3>2. OpAt(X, "main", w).at \in Nat  BY <1>1, <3>1, Positions
    <3>3. OpAt(X, "main", w).at >= c  BY <1>3, <2>1, <3>1, <3>2
    <3> QED  BY <3>1, <3>3 DEF Waits
  <2>3. LastWrite(X, b, "copy", c, "main", u)  BY <1>3, <2>2 DEF FinalWrite, LastWrite, Before
  <2> QED  BY <1>3, <2>3 DEF Gets, GetsReloaded
<1> QED  BY <1>2, <1>3 DEF OnCopy

\* A copy to the host that waits for the event of its tensor.
LEMMA ReadOffloaded ==
  ASSUME NEW X, QueuesTyped(X.q, X.d), NEW b, NEW r \in Nat, NEW v, NEW o,
         Waits(X, "copy", o, r), OnMain(X, b, r, v)
  PROVE  GetsNow(X, b, "copy", o, v) \/ GetsComputed(X, b, "copy", o, v)
<1>1. "copy" \in Streams /\ "main" \in Streams  BY DEF Streams
<1>2. CASE HoldsNow(X, b, v)  BY <1>2 DEF HoldsNow, GetsNow
<1>3. ASSUME NEW m \in Writes(X, b, "main"), m <= r, OpAt(X, "main", m).value = v,
             FinalWrite(X, b, "main", m)
      PROVE  GetsComputed(X, b, "copy", o, v)
  <2>1. m \in Nat  BY <1>1, WritesAre
  <2>2. Waits(X, "copy", o, m)
    <3>1. PICK w \in Pend(X, "copy") : w < o /\ OpAt(X, "copy", w).op = "wait" /\ OpAt(X, "copy", w).at >= r
      BY DEF Waits
    <3>2. OpAt(X, "copy", w).at \in Nat  BY <1>1, <3>1, Positions
    <3>3. OpAt(X, "copy", w).at >= m  BY <1>3, <2>1, <3>1, <3>2
    <3> QED  BY <3>1, <3>3 DEF Waits
  <2>3. LastWrite(X, b, "main", m, "copy", o)  BY <1>3, <2>2 DEF FinalWrite, LastWrite, Before
  <2> QED  BY <1>3, <2>3 DEF GetsComputed
<1> QED  BY <1>2, <1>3 DEF OnMain

-----------------------------------------------------------------------------
(* What the streams do                                                       *)

First(X, s) == X.d[s] + 1

\* Y is X after the first operation of stream s has run.
Runs(X, s, Y) ==
  /\ QueuesTyped(X.q, X.d) /\ QueuesTyped(Y.q, Y.d) /\ X.q[s] # <<>>
  /\ Y.q = [X.q EXCEPT ![s] = Tail(@)] /\ Y.d = [X.d EXCEPT ![s] = @ + 1]
  /\ LET x == OpAt(X, s, First(X, s)) IN
     /\ x.op = "wait" => X.d[x.stream] >= x.at
     /\ \A b \in Blocks : Y.g[b] = IF x.op = "compute" /\ x.block = b THEN x.value
                                   ELSE IF x.op = "reload" /\ x.block = b THEN X.p[x.buffer]
                                   ELSE X.g[b]
     /\ \A f : IF x.op = "offload" /\ x.buffer = f THEN f \in DOMAIN Y.p /\ Y.p[f] = X.g[x.block]
               ELSE f \in DOMAIN X.p => f \in DOMAIN Y.p /\ Y.p[f] = X.p[f]

\* That one operation is no longer to come, all others are.
LEMMA RunsStop ==
  ASSUME NEW X, NEW Y, NEW s \in Streams, Runs(X, s, Y)
  PROVE  /\ Y.d[s] = First(X, s) /\ First(X, s) \in Nat /\ First(X, s) \in Pend(X, s)
         /\ Pend(X, s) = First(X, s)..Stop(X, s) /\ Pend(Y, s) = First(X, s) + 1..Stop(X, s)
         /\ \A p \in Pend(Y, s) : OpAt(Y, s, p) = OpAt(X, s, p)
         /\ \A t \in Streams :
              /\ Stop(Y, t) = Stop(X, t) /\ Stop(X, t) \in Nat
              /\ t # s => /\ Pend(Y, t) = Pend(X, t)
                         /\ \A p \in Pend(X, t) : OpAt(Y, t, p) = OpAt(X, t, p)
<1> DEFINE h == X.d[s] + 1
<1>1. /\ QueuesTyped(X.q, X.d) /\ X.q[s] # <<>> /\ DOMAIN X.q = Streams /\ DOMAIN Y.q = Streams
      /\ X.d \in [Streams -> Nat] /\ X.d[s] \in Nat
      /\ Y.q[s] = Tail(X.q[s]) /\ Y.d[s] = h
      /\ \A r \in Streams : r # s => Y.q[r] = X.q[r] /\ Y.d[r] = X.d[r]
  BY DEF Runs, QueuesTyped
<1>2. \E A : X.q[s] \in Seq(A)  BY <1>1 DEF QueuesTyped, Streams
<1>3. /\ Len(X.q[s]) \in Nat \ {0} /\ Len(Tail(X.q[s])) = Len(X.q[s]) - 1
      /\ \A i \in 1..Len(X.q[s]) - 1 : Tail(X.q[s])[i] = X.q[s][i + 1]
  BY <1>1, <1>2
<1>4. h \in Nat /\ Stop(X, s) = X.d[s] + Len(X.q[s]) /\ Stop(X, s) \in Nat /\ h \in Pend(X, s)
  BY <1>1, <1>3 DEF Stop, End, Pend
<1>5. Stop(Y, s) = Stop(X, s)
  <2>1. Stop(Y, s) = (X.d[s] + 1) + (Len(X.q[s]) - 1)  BY <1>1, <1>3 DEF Stop, End
  <2>2. Len(X.q[s]) \in Int /\ X.d[s] \in Int  BY <1>1, <1>3
  <2> HIDE DEF h
  <2> QED  BY <1>4, <2>1, <2>2
<1>6. Pend(Y, s) = h + 1..Stop(X, s) /\ Pend(X, s) = h..Stop(X, s)  BY <1>1, <1>5 DEF Pend
<1>7. ASSUME NEW p \in Pend(Y, s)  PROVE OpAt(Y, s, p) = OpAt(X, s, p)
  <2> DEFINE d == X.d[s]
             n == Len(X.q[s])
  <2>1. p \in h + 1..Stop(X, s) /\ Stop(X, s) = d + n /\ h = d + 1 /\ n \in Nat /\ d \in Nat
    BY <1>1, <1>3, <1>4, <1>6
  <2> HIDE DEF d, n, h
  <2>2. p \in Nat /\ p - h \in 1..n - 1 /\ (p - h) + 1 = p - d  BY <2>1
  <2>3. Tail(X.q[s])[p - h] = X.q[s][(p - h) + 1]  BY <1>3, <2>2 DEF n
  <2>4. OpAt(Y, s, p) = Y.q[s][p - Y.d[s]] /\ OpAt(X, s, p) = X.q[s][p - d]  BY DEF OpAt, d
  <2> QED  BY <1>1, <2>2, <2>3, <2>4
<1>8. ASSUME NEW t \in Streams, t # s
      PROVE  /\ Stop(Y, t) = Stop(X, t) /\ Pend(Y, t) = Pend(X, t)
             /\ \A p \in Pend(X, t) : OpAt(Y, t, p) = OpAt(X, t, p)
  BY <1>1, <1>8 DEF Stop, End, Pend, OpAt
<1>9. \A t \in Streams : Stop(X, t) \in Nat  BY <1>1, Positions
<1>10. First(X, s) = h  BY DEF First
<1> HIDE DEF h
<1> QED  BY <1>1, <1>4, <1>5, <1>6, <1>7, <1>8, <1>9, <1>10

\* They are what they were.
LEMMA RunsOp ==
  ASSUME NEW X, NEW Y, NEW s \in Streams, Runs(X, s, Y), NEW t \in Streams, NEW p \in Pend(Y, t)
  PROVE  OpAt(Y, t, p) = OpAt(X, t, p)
<1>1. CASE t = s  BY <1>1, RunsStop
<1>2. CASE t # s
  <2>1. DOMAIN X.q = Streams /\ Y.q[t] = X.q[t] /\ DOMAIN X.d = Streams /\ Y.d[t] = X.d[t]
    BY <1>2 DEF Runs, QueuesTyped
  <2> QED  BY <2>1 DEF OpAt
<1> QED  BY <1>1, <1>2

LEMMA RunsPend ==
  ASSUME NEW X, NEW Y, NEW s \in Streams, Runs(X, s, Y), NEW t \in Streams
  PROVE  /\ Stop(Y, t) = Stop(X, t) /\ Stop(X, t) \in Nat
         /\ First(X, s) \in Pend(X, s) /\ First(X, s) \in Nat
         /\ \A p \in Pend(Y, t) :
              /\ p \in Pend(X, t) /\ p \in Nat /\ p <= Stop(X, t) /\ OpAt(Y, t, p) = OpAt(X, t, p)
              /\ t = s => p > First(X, s)
         /\ \A p \in Pend(X, t) : p \in Pend(Y, t) \/ (t = s /\ p = First(X, s))
<1>1. /\ Stop(Y, t) = Stop(X, t) /\ Stop(X, t) \in Nat
      /\ First(X, s) \in Pend(X, s) /\ First(X, s) \in Nat
  BY RunsStop
<1>2. \A p \in Pend(X, t) : p \in Nat /\ p <= Stop(X, t)  BY Positions DEF Runs
<1>3. CASE t = s
  <2>1. /\ Pend(X, s) = First(X, s)..Stop(X, s) /\ Pend(Y, s) = First(X, s) + 1..Stop(X, s)
        /\ First(X, s) \in Nat /\ Stop(X, s) \in Nat
    BY RunsStop
  <2>2. \A p \in Pend(Y, t) : OpAt(Y, t, p) = OpAt(X, t, p)  BY RunsOp
  <2>3. /\ \A p \in Pend(Y, s) : p \in Pend(X, s) /\ p > First(X, s)
        /\ \A p \in Pend(X, s) : p \in Pend(Y, s) \/ p = First(X, s)
    BY <2>1
  <2> QED  BY <1>1, <1>2, <1>3, <2>2, <2>3
<1>4. CASE t # s
  <2>1. Pend(Y, t) = Pend(X, t)  BY <1>4, RunsStop
  <2>2. \A p \in Pend(Y, t) : OpAt(Y, t, p) = OpAt(X, t, p)  BY RunsOp
  <2> QED  BY <1>1, <1>2, <1>4, <2>1, <2>2
<1> QED  BY <1>3, <1>4

\* The order of what is left stays, and nothing that is left comes before what runs.
LEMMA RunsBefore ==
  ASSUME NEW X, NEW Y, NEW s \in Streams, Runs(X, s, Y), NEW t \in Streams, NEW y,
         NEW r \in Streams, NEW x \in Pend(Y, r)
  PROVE  /\ Before(X, r, x, t, y) => Before(Y, r, x, t, y)
         /\ ~Before(X, r, x, s, First(X, s))
<1> DEFINE h == First(X, s)
           a == OpAt(X, s, h)
<1>1. /\ h \in Pend(X, s) /\ h \in Nat /\ x \in Pend(X, r) /\ x \in Nat
      /\ r = s => x > h
  BY RunsPend
<1>2. QueuesTyped(X.q, X.d) /\ QueuesTyped(Y.q, Y.d) /\ (a.op = "wait" => X.d[a.stream] >= a.at)
  BY DEF Runs
<1>3. /\ a.op = "wait" => a.stream = Other(s) /\ a.at \in 0..Stop(X, Other(s))
      /\ Other(s) \in Streams /\ Other(s) # s
  BY <1>1, <1>2, Positions
<1> HIDE DEF a
<1>4. ASSUME a.op = "wait", r # s  PROVE ~(a.at >= x)
  <2>1. r = Other(s)  BY <1>4 DEF Other, Streams
  <2>2. x > X.d[r] /\ X.d[r] \in Nat /\ X.d[r] >= a.at /\ a.at \in Nat
    <3>1. x > X.d[r]  BY <1>1, <1>2, Positions
    <3>2. X.d[r] \in Nat  BY <1>2 DEF QueuesTyped
    <3>3. X.d[r] >= a.at /\ a.at \in Nat  BY <1>2, <1>3, <1>4, <2>1, Positions
    <3> QED  BY <3>1, <3>2, <3>3
  <2> QED  BY <1>1, <2>2
<1>5. ASSUME r # t, Waits(X, t, y, x)  PROVE Waits(Y, t, y, x)
  <2>1. PICK w \in Pend(X, t) : w < y /\ OpAt(X, t, w).op = "wait" /\ OpAt(X, t, w).at >= x
    BY <1>5 DEF Waits
  <2>2. ~(t = s /\ w = h)  BY <1>4, <1>5, <2>1 DEF a
  <2>3. w \in Pend(Y, t)  BY <2>2, RunsPend
  <2>4. OpAt(Y, t, w) = OpAt(X, t, w)  BY <2>3, RunsOp
  <2> QED  BY <2>1, <2>3, <2>4 DEF Waits
<1>6. ~Waits(X, s, h, x)
  <2>1. \A w \in Pend(X, s) : w \in Nat /\ w >= h
    <3>1. Pend(X, s) = h..Stop(X, s) /\ h \in Nat /\ Stop(X, s) \in Nat  BY RunsStop
    <3> QED  BY <3>1
  <2> QED  BY <1>1, <2>1 DEF Waits
<1>7. ~Before(X, r, x, s, h)  BY <1>1, <1>6 DEF Before
<1> QED  BY <1>5, <1>7 DEF Before

LEMMA RunsWrites ==
  ASSUME NEW X, NEW Y, NEW s \in Streams, Runs(X, s, Y), NEW b
  PROVE  /\ \A t \in Streams :
              /\ \A w \in Writes(Y, b, t) : w \in Writes(X, b, t) /\ w \in Pend(Y, t)
              /\ \A w \in Writes(X, b, t) : w \in Writes(Y, b, t) \/ (t = s /\ w = First(X, s))
         /\ \A o \in Fills(Y, b) : o \in Fills(X, b) /\ o \in Pend(Y, "copy")
         /\ \A o \in Fills(X, b) : o \in Fills(Y, b) \/ (s = "copy" /\ o = First(X, s))
<1>1. "copy" \in Streams  BY DEF Streams
<1>2. ASSUME NEW t \in Streams, NEW w \in Writes(Y, b, t)
      PROVE  w \in Writes(X, b, t) /\ w \in Pend(Y, t)
  <2>1. w \in Pend(Y, t) /\ OpAt(Y, t, w).op \in {"compute", "reload"} /\ OpAt(Y, t, w).block = b
    BY DEF Writes
  <2>2. w \in Pend(X, t) /\ OpAt(Y, t, w) = OpAt(X, t, w)  BY <2>1, RunsPend, RunsOp
  <2> QED  BY <2>1, <2>2 DEF Writes
<1>3. ASSUME NEW t \in Streams, NEW w \in Writes(X, b, t), ~(t = s /\ w = First(X, s))
      PROVE  w \in Writes(Y, b, t)
  <2>1. w \in Pend(X, t) /\ OpAt(X, t, w).op \in {"compute", "reload"} /\ OpAt(X, t, w).block = b
    BY DEF Writes
  <2>2. w \in Pend(Y, t)  BY <1>3, <2>1, RunsPend
  <2>3. OpAt(Y, t, w) = OpAt(X, t, w)  BY <2>2, RunsOp
  <2> QED  BY <2>1, <2>2, <2>3 DEF Writes
<1>4. ASSUME NEW o \in Fills(Y, b)  PROVE o \in Fills(X, b) /\ o \in Pend(Y, "copy")
  <2>1. o \in Pend(Y, "copy") /\ OpAt(Y, "copy", o).op = "offload" /\ OpAt(Y, "copy", o).buffer = b
    BY DEF Fills
  <2>2. o \in Pend(X, "copy")  BY <1>1, <2>1, RunsPend
  <2>3. OpAt(Y, "copy", o) = OpAt(X, "copy", o)  BY <1>1, <2>1, RunsOp
  <2> QED  BY <2>1, <2>2, <2>3 DEF Fills
<1>5. ASSUME NEW o \in Fills(X, b), ~(s = "copy" /\ o = First(X, s))
      PROVE  o \in Fills(Y, b)
  <2>1. o \in Pend(X, "copy") /\ OpAt(X, "copy", o).op = "offload" /\ OpAt(X, "copy", o).buffer = b
    BY DEF Fills
  <2>2. o \in Pend(Y, "copy")  BY <1>1, <1>5, <2>1, RunsPend
  <2>3. OpAt(Y, "copy", o) = OpAt(X, "copy", o)  BY <1>1, <2>2, RunsOp
  <2> QED  BY <2>1, <2>2, <2>3 DEF Fills
<1> QED  BY <1>2, <1>3, <1>4, <1>5

\* Only the operation that runs changes a block.
LEMMA RunsBlock ==
  ASSUME NEW X, NEW Y, NEW s \in Streams, Runs(X, s, Y), NEW b \in Blocks
  PROVE  /\ First(X, s) \notin Writes(X, b, s) => Y.g[b] = X.g[b]
         /\ First(X, s) \in Writes(X, b, s) =>
              Y.g[b] = IF s = "main" THEN OpAt(X, s, First(X, s)).value
                       ELSE X.p[OpAt(X, s, First(X, s)).buffer]
<1> DEFINE h == First(X, s)
           a == OpAt(X, s, h)
<1>1. QueuesTyped(X.q, X.d) /\ h \in Pend(X, s)  BY RunsPend DEF Runs
<1>2. Y.g[b] = IF a.op = "compute" /\ a.block = b THEN a.value
               ELSE IF a.op = "reload" /\ a.block = b THEN X.p[a.buffer] ELSE X.g[b]
  BY DEF Runs
<1>3. h \in Writes(X, b, s) <=> a.op \in {"compute", "reload"} /\ a.block = b  BY <1>1 DEF Writes
<1>4. a.op \in Kinds(s)  BY <1>1, Positions
<1> HIDE DEF h, a
<1>5. CASE s = "main"  BY <1>2, <1>3, <1>4, <1>5 DEF Kinds, h, a
<1>6. CASE s = "copy"  BY <1>2, <1>3, <1>4, <1>6 DEF Kinds, h, a
<1> QED  BY <1>5, <1>6 DEF Streams, h, a

LEMMA RunsBuffer ==
  ASSUME NEW X, NEW Y, NEW s \in Streams, Runs(X, s, Y), NEW f
  PROVE  IF s = "copy" /\ First(X, s) \in Fills(X, f)
         THEN f \in DOMAIN Y.p /\ Y.p[f] = X.g[OpAt(X, s, First(X, s)).block]
         ELSE f \in DOMAIN X.p => f \in DOMAIN Y.p /\ Y.p[f] = X.p[f]
<1> DEFINE h == First(X, s)
           a == OpAt(X, s, h)
<1>1. QueuesTyped(X.q, X.d) /\ h \in Pend(X, s)
  <2>1. h \in Pend(X, s)  BY RunsPend
  <2> QED  BY <2>1 DEF Runs
<1>2. IF a.op = "offload" /\ a.buffer = f THEN f \in DOMAIN Y.p /\ Y.p[f] = X.g[a.block]
      ELSE f \in DOMAIN X.p => f \in DOMAIN Y.p /\ Y.p[f] = X.p[f]
  BY DEF Runs
<1>3. s = "copy" => (h \in Fills(X, f) <=> a.op = "offload" /\ a.buffer = f)  BY <1>1 DEF Fills
<1>4. a.op \in Kinds(s)  BY <1>1, Positions
<1> HIDE DEF h, a
<1>5. CASE s = "main"  BY <1>2, <1>4, <1>5 DEF Kinds
<1>6. CASE s = "copy"  BY <1>2, <1>3, <1>6 DEF h, a
<1> QED  BY <1>5, <1>6 DEF Streams, h

\* A read that is still to come gets what it was going to get: from the block, once the
\* write it was waiting for has run.
LEMMA RunsNow ==
  ASSUME NEW X, NEW Y, NEW s \in Streams, Runs(X, s, Y), NEW b \in Blocks, NEW t \in Streams,
         NEW y \in Pend(Y, t), NEW v, GetsNow(X, b, t, y, v)
  PROVE  GetsNow(Y, b, t, y, v)
<1>1. First(X, s) \notin Writes(X, b, s)  BY RunsBefore DEF GetsNow
<1>2. Y.g[b] = v  BY <1>1, RunsBlock DEF GetsNow
<1>3. ASSUME NEW r \in Streams, NEW w \in Writes(Y, b, r)  PROVE Before(Y, t, y, r, w)
  <2>1. Before(X, t, y, r, w)  BY <1>3, RunsWrites DEF GetsNow
  <2> QED  BY <2>1, RunsBefore
<1> QED  BY <1>2, <1>3 DEF GetsNow

LEMMA RunsLast ==
  ASSUME NEW X, NEW Y, NEW s \in Streams, Runs(X, s, Y), NEW b \in Blocks, NEW t \in Streams,
         NEW y \in Pend(Y, t), NEW r \in Streams, NEW x, LastWrite(X, b, r, x, t, y)
  PROVE  /\ x \in Pend(Y, r) => LastWrite(Y, b, r, x, t, y)
         /\ r = s /\ x = First(X, s) =>
              \A q \in Streams : \A w \in Writes(Y, b, q) : Before(Y, t, y, q, w)
<1>1. ASSUME NEW q \in Streams, NEW w \in Writes(Y, b, q)
      PROVE  /\ (q = r /\ w = x) \/ Before(X, q, w, r, x) \/ Before(X, t, y, q, w)
             /\ Before(X, t, y, q, w) => Before(Y, t, y, q, w)
             /\ Before(X, q, w, r, x) => Before(Y, q, w, r, x)
  <2>1. w \in Writes(X, b, q) /\ w \in Pend(Y, q)  BY <1>1, RunsWrites
  <2> QED  BY <2>1, RunsBefore DEF LastWrite
<1>2. ASSUME x \in Pend(Y, r)  PROVE LastWrite(Y, b, r, x, t, y)
  <2>1. Before(Y, r, x, t, y)  BY <1>2, RunsBefore DEF LastWrite
  <2> QED  BY <1>1, <2>1 DEF LastWrite
<1>3. ASSUME r = s, x = First(X, s), NEW q \in Streams, NEW w \in Writes(Y, b, q)
      PROVE  Before(Y, t, y, q, w)
  <2>1. w \in Pend(Y, q) /\ ~(q = r /\ w = x) /\ ~Before(X, q, w, r, x)
    <3>1. w \in Pend(Y, q)  BY <1>3, RunsWrites
    <3>2. q = s => w > First(X, s) /\ w \in Nat /\ First(X, s) \in Nat  BY <3>1, RunsPend
    <3>3. ~(q = r /\ w = x)  BY <1>3, <3>2
    <3> QED  BY <1>3, <3>1, <3>3, RunsBefore
  <2> QED  BY <1>1, <1>3, <2>1, RunsBefore
<1> QED  BY <1>2, <1>3

LEMMA RunsComputed ==
  ASSUME NEW X, NEW Y, NEW s \in Streams, Runs(X, s, Y), NEW b \in Blocks, NEW t \in Streams,
         NEW y \in Pend(Y, t), NEW v, GetsComputed(X, b, t, y, v)
  PROVE  GetsNow(Y, b, t, y, v) \/ GetsComputed(Y, b, t, y, v)
<1>1. PICK m \in Writes(X, b, "main") :
        OpAt(X, "main", m).value = v /\ LastWrite(X, b, "main", m, t, y)
  BY DEF GetsComputed
<1>2. "main" \in Streams  BY DEF Streams
<1>3. CASE m \in Writes(Y, b, "main")
  <2>1. m \in Pend(Y, "main") /\ OpAt(Y, "main", m) = OpAt(X, "main", m)
    BY <1>2, <1>3, RunsPend DEF Writes
  <2>2. LastWrite(Y, b, "main", m, t, y)  BY <1>1, <1>2, <2>1, RunsLast
  <2> QED  BY <1>1, <1>3, <2>1, <2>2 DEF GetsComputed
<1>4. CASE s = "main" /\ m = First(X, s)
  <2>1. Y.g[b] = v  BY <1>1, <1>4, RunsBlock
  <2>2. \A q \in Streams : \A w \in Writes(Y, b, q) : Before(Y, t, y, q, w)  BY <1>1, <1>4, RunsLast
  <2> QED  BY <2>1, <2>2 DEF GetsNow
<1> QED  BY <1>1, <1>2, <1>3, <1>4, RunsWrites

\* The main stream still waits for what is still to run.
LEMMA RunsWaited ==
  ASSUME NEW X, NEW Y, NEW s \in Streams, Runs(X, s, Y), NEW x \in Pend(Y, "copy"), Waited(X, x)
  PROVE  Waited(Y, x)
<1>1. "main" \in Streams /\ "copy" \in Streams /\ "main" # "copy"  BY DEF Streams
<1> DEFINE y == Stop(X, "main") + 1
<1>2. Stop(Y, "main") + 1 = y  BY <1>1, RunsPend
<1>3. Before(X, "copy", x, "main", y)  BY <1>1 DEF Waited, Before
<1> HIDE DEF y
<1>4. Before(Y, "copy", x, "main", y)  BY <1>1, <1>3, RunsBefore
<1> QED  BY <1>1, <1>2, <1>4 DEF Waited, Before

\* A buffer holds at a position still to come what it was going to hold there.
LEMMA RunsGives ==
  ASSUME NEW X, NEW Y, NEW s \in Streams, Runs(X, s, Y), NEW f, NEW y \in Nat, NEW v, NEW H, NEW e,
         s = "copy" => y > First(X, s), Gives(X, f, y, v, H, e)
  PROVE  Gives(Y, f, y, v, H, e)
<1>1. /\ "main" \in Streams /\ "copy" \in Streams /\ "main" # "copy"
      /\ QueuesTyped(X.q, X.d) /\ First(X, s) \in Nat
  <2>1. First(X, s) \in Nat  BY RunsStop
  <2> QED  BY <2>1 DEF Streams, Runs
<1>2. /\ \A o \in Fills(Y, f) : o \in Fills(X, f) /\ o \in Pend(Y, "copy")
      /\ \A o \in Fills(X, f) : o \in Fills(Y, f) \/ (s = "copy" /\ o = First(X, s))
  BY RunsWrites
<1>3. \A o \in Fills(X, f) : o \in Nat /\ OpAt(X, "copy", o).block \in Blocks  BY <1>1, WritesAre
<1>4. CASE f \in DOMAIN X.p /\ X.p[f] = v /\ \A o \in Fills(X, f) : o > y
  <2>1. ~(s = "copy" /\ First(X, s) \in Fills(X, f))  BY <1>1, <1>4
  <2>2. f \in DOMAIN Y.p /\ Y.p[f] = v  BY <1>4, <2>1, RunsBuffer
  <2>3. \A o \in Fills(Y, f) : o > y  BY <1>2, <1>4
  <2> QED  BY <2>2, <2>3 DEF Gives
<1>5. ASSUME NEW o \in Fills(X, f), o < y, \A x \in Fills(X, f) : x <= o \/ x > y,
             \/ GetsNow(X, OpAt(X, "copy", o).block, "copy", o, v)
             \/ GetsComputed(X, OpAt(X, "copy", o).block, "copy", o, v),
             Waited(X, o) \/ (OpAt(X, "copy", o).block \in H /\ o <= e)
      PROVE  Gives(Y, f, y, v, H, e)
  <2> DEFINE b == OpAt(X, "copy", o).block
  <2>1. b \in Blocks  BY <1>3
  <2>2. CASE o \in Fills(Y, f)
    <3>1. o \in Pend(Y, "copy")  BY <1>2, <2>2
    <3>2. OpAt(Y, "copy", o) = OpAt(X, "copy", o)  BY <1>1, <3>1, RunsOp
    <3> HIDE DEF b
    <3>3. GetsNow(X, b, "copy", o, v) \/ GetsComputed(X, b, "copy", o, v)  BY <1>5 DEF b
    <3>4. GetsNow(Y, b, "copy", o, v) \/ GetsComputed(Y, b, "copy", o, v)
      BY <1>1, <2>1, <3>1, <3>3, RunsNow, RunsComputed
    <3>5. Waited(Y, o) \/ (b \in H /\ o <= e)  BY <1>5, <3>1, RunsWaited DEF b
    <3>6. \A x \in Fills(Y, f) : x <= o \/ x > y  BY <1>2, <1>5
    <3> QED  BY <1>5, <2>2, <3>2, <3>4, <3>5, <3>6 DEF Gives, b
  <2>3. CASE s = "copy" /\ o = First(X, s)
    <3>1. X.g[b] = v
      <4>1. CASE GetsNow(X, b, "copy", o, v)  BY <4>1 DEF GetsNow
      <4>2. CASE GetsComputed(X, b, "copy", o, v)
        <5>1. PICK m \in Writes(X, b, "main") : LastWrite(X, b, "main", m, "copy", o)
          BY <4>2 DEF GetsComputed
        <5>2. m \in Writes(Y, b, "main") /\ m \in Pend(Y, "main")
          <6>1. "main" # s  BY <1>1, <2>3
          <6> QED  BY <1>1, <5>1, <6>1, RunsWrites
        <5>3. ~Before(X, "main", m, s, First(X, s))  BY <1>1, <5>2, RunsBefore
        <5> QED  BY <2>3, <5>1, <5>3 DEF LastWrite
      <4> QED  BY <1>5, <4>1, <4>2
    <3>2. f \in DOMAIN Y.p /\ Y.p[f] = X.g[b]  BY <2>3, RunsBuffer
    <3>3. \A x \in Fills(Y, f) : x > y
      <4>1. ASSUME NEW x \in Fills(Y, f)  PROVE ~(x <= o)
        <5>1. x \in Pend(Y, "copy")  BY <1>2
        <5>2. x > First(X, s) /\ x \in Nat  BY <1>1, <2>3, <5>1, RunsPend
        <5> QED  BY <1>1, <2>3, <5>2
      <4> QED  BY <1>2, <1>5, <4>1
    <3> QED  BY <3>1, <3>2, <3>3 DEF Gives
  <2> QED  BY <1>2, <2>2, <2>3
<1> QED  BY <1>4, <1>5 DEF Gives

\* A reload that is still to come copies what it was going to; one that runs has copied it.
LEMMA RunsReload ==
  ASSUME NEW X, NEW Y, NEW s \in Streams, Runs(X, s, Y), NEW b \in Blocks,
         NEW c \in Writes(X, b, "copy"), NEW v, Gives(X, OpAt(X, "copy", c).buffer, c, v, {}, 0)
  PROVE  /\ c \in Pend(Y, "copy") =>
              /\ c \in Writes(Y, b, "copy")
              /\ Gives(Y, OpAt(Y, "copy", c).buffer, c, v, {}, 0)
         /\ c \in Pend(Y, "copy") \/ (s = "copy" /\ c = First(X, s))
<1>1. /\ "main" \in Streams /\ "copy" \in Streams /\ "main" # "copy"
      /\ QueuesTyped(X.q, X.d) /\ First(X, s) \in Nat
  <2>1. First(X, s) \in Nat  BY RunsStop
  <2> QED  BY <2>1 DEF Streams, Runs
<1>2. c \in Pend(X, "copy") /\ c \in Nat  BY <1>1, WritesAre
<1>3. c \in Pend(Y, "copy") \/ (s = "copy" /\ c = First(X, s))  BY <1>1, <1>2, RunsPend
<1> DEFINE f == OpAt(X, "copy", c).buffer
<1>4. ASSUME c \in Pend(Y, "copy")
      PROVE  c \in Writes(Y, b, "copy") /\ Gives(Y, OpAt(Y, "copy", c).buffer, c, v, {}, 0)
  <2>1. OpAt(Y, "copy", c) = OpAt(X, "copy", c)  BY <1>1, <1>4, RunsOp
  <2>2. s = "copy" => c > First(X, s)  BY <1>1, <1>4, RunsPend
  <2>3. Gives(X, f, c, v, {}, 0)  OBVIOUS
  <2>4. Gives(Y, f, c, v, {}, 0)
    <3> HIDE DEF f
    <3> QED  BY <1>2, <2>2, <2>3, RunsGives
  <2>5. c \in Writes(Y, b, "copy")  BY <1>4, <2>1 DEF Writes
  <2> QED  BY <2>1, <2>4, <2>5
<1> QED  BY <1>3, <1>4

LEMMA RunsReloaded ==
  ASSUME NEW X, NEW Y, Runs(X, "copy", Y), NEW b \in Blocks, NEW v,
         First(X, "copy") \in Writes(X, b, "copy"),
         Gives(X, OpAt(X, "copy", First(X, "copy")).buffer, First(X, "copy"), v, {}, 0)
  PROVE  Y.g[b] = v
<1> DEFINE c == First(X, "copy")
           f == OpAt(X, "copy", c).buffer
<1>1. "copy" \in Streams /\ "copy" # "main" /\ QueuesTyped(X.q, X.d)  BY DEF Streams, Runs
<1>2. c \in Nat /\ Pend(X, "copy") = c..Stop(X, "copy") /\ Stop(X, "copy") \in Nat
  BY <1>1, RunsStop
<1>3. Y.g[b] = X.p[f]  BY <1>1, RunsBlock
<1>4. \A o \in Fills(X, f) : o \in Nat /\ o >= c
  <2> HIDE DEF c, f
  <2>1. \A o \in Fills(X, f) : o \in Pend(X, "copy") /\ o \in Nat  BY <1>1, WritesAre
  <2> QED  BY <1>2, <2>1
<1>5. Gives(X, f, c, v, {}, 0)  OBVIOUS
<1> HIDE DEF c, f
<1>6. ~ \E o \in Fills(X, f) : o < c  BY <1>2, <1>4
<1> QED  BY <1>3, <1>5, <1>6 DEF Gives

LEMMA RunsGets ==
  ASSUME NEW X, NEW Y, NEW s \in Streams, Runs(X, s, Y), NEW b \in Blocks, NEW t \in Streams,
         NEW y \in Pend(Y, t), NEW v, Gets(X, b, t, y, v)
  PROVE  Gets(Y, b, t, y, v)
<1>1. "main" \in Streams /\ "copy" \in Streams  BY DEF Streams
<1>2. CASE GetsNow(X, b, t, y, v)  BY <1>2, RunsNow DEF Gets
<1>3. CASE GetsComputed(X, b, t, y, v)  BY <1>3, RunsComputed DEF Gets
<1>4. CASE GetsReloaded(X, b, t, y, v)
  <2>1. PICK c \in Writes(X, b, "copy") :
          Gives(X, OpAt(X, "copy", c).buffer, c, v, {}, 0) /\ LastWrite(X, b, "copy", c, t, y)
    BY <1>4 DEF GetsReloaded
  <2>2. CASE c \in Pend(Y, "copy")
    <3>1. c \in Writes(Y, b, "copy") /\ Gives(Y, OpAt(Y, "copy", c).buffer, c, v, {}, 0)
      BY <2>1, <2>2, RunsReload
    <3>2. LastWrite(Y, b, "copy", c, t, y)  BY <1>1, <2>1, <2>2, RunsLast
    <3> QED  BY <3>1, <3>2 DEF Gets, GetsReloaded
  <2>3. CASE s = "copy" /\ c = First(X, s)
    <3>1. Y.g[b] = v  BY <2>1, <2>3, RunsReloaded
    <3>2. \A q \in Streams : \A w \in Writes(Y, b, q) : Before(Y, t, y, q, w)
      BY <2>1, <2>3, RunsLast
    <3> QED  BY <3>1, <3>2 DEF Gets, GetsNow
  <2> QED  BY <2>1, <2>2, <2>3, RunsReload
<1> QED  BY <1>2, <1>3, <1>4 DEF Gets

\* The last write to a block stays the last one, and when it has run none is left.
LEMMA RunsFinal ==
  ASSUME NEW X, NEW Y, NEW s \in Streams, Runs(X, s, Y), NEW b, NEW r \in Streams, NEW x,
         FinalWrite(X, b, r, x)
  PROVE  /\ x \in Pend(Y, r) => FinalWrite(Y, b, r, x)
         /\ r = s /\ x = First(X, s) => \A t \in Streams : Writes(Y, b, t) = {}
<1>1. ASSUME NEW t \in Streams, NEW w \in Writes(Y, b, t)
      PROVE  w \in Pend(Y, t) /\ ((t = r /\ w = x) \/ Before(X, t, w, r, x))
  BY <1>1, RunsWrites DEF FinalWrite
<1>2. ASSUME x \in Pend(Y, r)  PROVE FinalWrite(Y, b, r, x)
  <2>1. ASSUME NEW t \in Streams, NEW w \in Writes(Y, b, t), Before(X, t, w, r, x)
        PROVE  Before(Y, t, w, r, x)
    BY <1>1, <2>1, RunsBefore
  <2> QED  BY <1>1, <2>1 DEF FinalWrite
<1>3. ASSUME r = s, x = First(X, s), NEW t \in Streams, NEW w \in Writes(Y, b, t)  PROVE FALSE
  <2>1. w \in Pend(Y, t)  BY <1>1
  <2>2. ~(t = r /\ w = x)
    <3>1. t = s => w > First(X, s) /\ w \in Nat /\ First(X, s) \in Nat  BY <2>1, RunsPend
    <3> QED  BY <1>3, <3>1
  <2>3. ~Before(X, t, w, r, x)  BY <1>3, <2>1, RunsBefore
  <2> QED  BY <1>1, <2>2, <2>3
<1> QED  BY <1>2, <1>3

LEMMA RunsHolds ==
  ASSUME NEW X, NEW Y, NEW s \in Streams, Runs(X, s, Y), NEW b \in Blocks, NEW r, NEW v
  PROVE  /\ OnMain(X, b, r, v) => OnMain(Y, b, r, v)
         /\ OnCopy(X, b, r, v) => OnCopy(Y, b, r, v)
<1>1. "main" \in Streams /\ "copy" \in Streams  BY DEF Streams
<1>2. ASSUME HoldsNow(X, b, v)  PROVE HoldsNow(Y, b, v)
  <2>1. First(X, s) \notin Writes(X, b, s)  BY <1>2 DEF HoldsNow
  <2>2. Y.g[b] = v  BY <1>2, <2>1, RunsBlock DEF HoldsNow
  <2>3. \A t \in Streams : Writes(Y, b, t) = {}  BY <1>2, RunsWrites DEF HoldsNow
  <2> QED  BY <2>2, <2>3 DEF HoldsNow
<1>3. ASSUME NEW m \in Writes(X, b, "main"), m <= r, OpAt(X, "main", m).value = v,
             FinalWrite(X, b, "main", m)
      PROVE  OnMain(Y, b, r, v)
  <2>1. CASE m \in Writes(Y, b, "main")
    <3>1. m \in Pend(Y, "main")  BY <2>1 DEF Writes
    <3>2. OpAt(Y, "main", m) = OpAt(X, "main", m)  BY <1>1, <3>1, RunsOp
    <3>3. FinalWrite(Y, b, "main", m)  BY <1>1, <1>3, <3>1, RunsFinal
    <3> QED  BY <1>3, <2>1, <3>2, <3>3 DEF OnMain
  <2>2. CASE s = "main" /\ m = First(X, s)
    <3>1. Y.g[b] = v  BY <1>3, <2>2, RunsBlock
    <3>2. \A t \in Streams : Writes(Y, b, t) = {}  BY <1>3, <2>2, RunsFinal
    <3> QED  BY <3>1, <3>2 DEF OnMain, HoldsNow
  <2> QED  BY <1>1, <2>1, <2>2, RunsWrites
<1>4. ASSUME NEW c \in Writes(X, b, "copy"), c <= r,
             Gives(X, OpAt(X, "copy", c).buffer, c, v, {}, 0), FinalWrite(X, b, "copy", c)
      PROVE  OnCopy(Y, b, r, v)
  <2>1. CASE c \in Pend(Y, "copy")
    <3>1. c \in Writes(Y, b, "copy") /\ Gives(Y, OpAt(Y, "copy", c).buffer, c, v, {}, 0)
      BY <1>4, <2>1, RunsReload
    <3>2. FinalWrite(Y, b, "copy", c)  BY <1>1, <1>4, <2>1, RunsFinal
    <3> QED  BY <1>4, <3>1, <3>2 DEF OnCopy
  <2>2. CASE s = "copy" /\ c = First(X, s)
    <3>1. Y.g[b] = v  BY <1>4, <2>2, RunsReloaded
    <3>2. \A t \in Streams : Writes(Y, b, t) = {}  BY <1>4, <2>2, RunsFinal
    <3> QED  BY <3>1, <3>2 DEF OnCopy, HoldsNow
  <2> QED  BY <1>4, <2>1, <2>2, RunsReload
<1>5. OnMain(X, b, r, v) => OnMain(Y, b, r, v)  BY <1>2, <1>3 DEF OnMain
<1>6. OnCopy(X, b, r, v) => OnCopy(Y, b, r, v)  BY <1>2, <1>4 DEF OnCopy
<1> QED  BY <1>5, <1>6

\* What the first operation reads is there.
LEMMA RunsReads ==
  ASSUME NEW X, NEW Y, NEW s \in Streams, Runs(X, s, Y), NEW b, NEW v, Gets(X, b, s, First(X, s), v)
  PROVE  X.g[b] = v
<1>1. "main" \in Streams /\ "copy" \in Streams  BY DEF Streams
<1>2. First(X, s) \in Nat  BY RunsStop
<1>3. ASSUME NEW r \in Streams, NEW x \in Writes(X, b, r)  PROVE ~Before(X, r, x, s, First(X, s))
  <2>1. x \in Pend(X, r)  BY DEF Writes
  <2>2. CASE r = s /\ x = First(X, s)  BY <1>2, <2>2 DEF Before
  <2>3. CASE x \in Pend(Y, r)  BY <2>3, RunsBefore
  <2> QED  BY <2>1, <2>2, <2>3, RunsPend
<1>4. ~GetsComputed(X, b, s, First(X, s), v) /\ ~GetsReloaded(X, b, s, First(X, s), v)
  BY <1>1, <1>3 DEF GetsComputed, GetsReloaded, LastWrite
<1> QED  BY <1>4 DEF Gets, GetsNow

\* Each step of a stream is such a step.
HostSame == UNCHANGED <<syncVars, scriptVars>>

LEMMA RanIs ==
  ASSUME NEW s \in Streams, DeviceTyped, queue[s] # <<>>, Ran(s)
  PROVE  /\ queue' = [queue EXCEPT ![s] = Tail(@)] /\ done' = [done EXCEPT ![s] = @ + 1]
         /\ OpAt(Dev, s, First(Dev, s)) = Head(queue[s]) /\ HostSame
<1>1. done[s] \in Nat /\ \E A : queue[s] \in Seq(A)  BY DEF DeviceTyped, QueuesTyped, Streams
<1>2. done[s] + 1 - done[s] = 1  BY <1>1
<1>3. OpAt(Dev, s, First(Dev, s)) = queue[s][1]
  <2>1. Dev.q = queue /\ Dev.d = done  BY DEF Dev
  <2>2. First(Dev, s) = Dev.d[s] + 1 /\ Dev.d[s] \in Nat  BY <1>1, <2>1 DEF First
  <2> HIDE DEF First
  <2>3. First(Dev, s) - Dev.d[s] = 1  BY <2>2
  <2> QED  BY <2>1, <2>3 DEF OpAt
<1> QED  BY <1>1, <1>3 DEF Ran, HostSame

LEMMA StreamRuns ==
  ASSUME DeviceTyped, DeviceTyped', DOMAIN gpu = Blocks, Main \/ Copy
  PROVE  /\ \E s \in Streams : Runs(Dev, s, Dev')
         /\ HostSame /\ DOMAIN gpu' = Blocks
<1>1. "main" \in Streams /\ "copy" \in Streams  BY DEF Streams
<1>2. ASSUME NEW s \in Streams, queue[s] # <<>>, Ran(s), DOMAIN gpu' = Blocks,
             LET x == Head(queue[s]) IN
             /\ x.op = "wait" => done[x.stream] >= x.at
             /\ \A b \in Blocks : gpu'[b] = IF x.op = "compute" /\ x.block = b THEN x.value
                                            ELSE IF x.op = "reload" /\ x.block = b THEN pinned[x.buffer]
                                            ELSE gpu[b]
             /\ \A f : IF x.op = "offload" /\ x.buffer = f
                       THEN f \in DOMAIN pinned' /\ pinned'[f] = gpu[x.block]
                       ELSE f \in DOMAIN pinned => f \in DOMAIN pinned' /\ pinned'[f] = pinned[f]
      PROVE  /\ \E r \in Streams : Runs(Dev, r, Dev')
             /\ HostSame /\ DOMAIN gpu' = Blocks
  <2>1. /\ queue' = [queue EXCEPT ![s] = Tail(@)] /\ done' = [done EXCEPT ![s] = @ + 1]
        /\ OpAt(Dev, s, First(Dev, s)) = Head(queue[s]) /\ HostSame
    BY <1>2, RanIs
  <2> DEFINE y == Dev'
             x == Head(queue[s])
  <2>2. y.q = queue' /\ y.d = done' /\ y.g = gpu' /\ y.p = pinned'  BY DEF Dev
  <2>3. QueuesTyped(Dev.q, Dev.d) /\ QueuesTyped(y.q, y.d)  BY <2>2 DEF DeviceTyped, Dev
  <2>4. Dev.q = queue /\ Dev.d = done /\ Dev.g = gpu /\ Dev.p = pinned  BY DEF Dev
  <2>5. OpAt(Dev, s, First(Dev, s)) = x  BY <2>1
  <2>6. /\ x.op = "wait" => done[x.stream] >= x.at
        /\ \A b \in Blocks : gpu'[b] = IF x.op = "compute" /\ x.block = b THEN x.value
                                       ELSE IF x.op = "reload" /\ x.block = b THEN pinned[x.buffer]
                                       ELSE gpu[b]
        /\ \A f : IF x.op = "offload" /\ x.buffer = f
                  THEN f \in DOMAIN pinned' /\ pinned'[f] = gpu[x.block]
                  ELSE f \in DOMAIN pinned => f \in DOMAIN pinned' /\ pinned'[f] = pinned[f]
    BY <1>2
  <2> HIDE DEF y, x
  <2>7. Runs(Dev, s, y)  BY <1>2, <2>1, <2>2, <2>3, <2>4, <2>5, <2>6 DEF Runs
  <2> QED  BY <1>2, <2>1, <2>7 DEF y
<1>3. ASSUME NEW s \in Streams, StreamWait(s)
      PROVE  \E r \in Streams : Runs(Dev, r, Dev') /\ HostSame /\ DOMAIN gpu' = Blocks
  <2>1. /\ queue[s] # <<>> /\ Ran(s) /\ gpu' = gpu /\ pinned' = pinned /\ Head(queue[s]).op = "wait"
        /\ done[Head(queue[s]).stream] >= Head(queue[s]).at
    BY <1>3 DEF StreamWait, Next1
  <2> QED  BY <1>2, <2>1
<1>4. ASSUME Compute  PROVE \E r \in Streams : Runs(Dev, r, Dev') /\ HostSame /\ DOMAIN gpu' = Blocks
  <2>1. /\ queue["main"] # <<>> /\ Ran("main") /\ pinned' = pinned /\ Head(queue["main"]).op = "compute"
        /\ gpu' = [gpu EXCEPT ![Head(queue["main"]).block] = Head(queue["main"]).value]
    BY <1>4 DEF Compute, Next1
  <2> QED  BY <1>1, <1>2, <2>1
<1>5. ASSUME Use  PROVE \E r \in Streams : Runs(Dev, r, Dev') /\ HostSame /\ DOMAIN gpu' = Blocks
  <2>1. /\ queue["main"] # <<>> /\ Ran("main") /\ pinned' = pinned /\ gpu' = gpu
        /\ Head(queue["main"]).op = "use"
    BY <1>5 DEF Use, Next1
  <2> QED  BY <1>1, <1>2, <2>1
<1>6. ASSUME CopyToHost  PROVE \E r \in Streams : Runs(Dev, r, Dev') /\ HostSame /\ DOMAIN gpu' = Blocks
  <2>1. /\ queue["copy"] # <<>> /\ Ran("copy") /\ gpu' = gpu /\ Head(queue["copy"]).op = "offload"
        /\ pinned' = [b \in DOMAIN pinned \cup {Head(queue["copy"]).buffer} |->
                        IF b = Head(queue["copy"]).buffer THEN gpu[Head(queue["copy"]).block]
                        ELSE pinned[b]]
    BY <1>6 DEF CopyToHost, Next1
  <2> QED  BY <1>1, <1>2, <2>1
<1>7. ASSUME CopyToGpu  PROVE \E r \in Streams : Runs(Dev, r, Dev') /\ HostSame /\ DOMAIN gpu' = Blocks
  <2>1. /\ queue["copy"] # <<>> /\ Ran("copy") /\ pinned' = pinned /\ Head(queue["copy"]).op = "reload"
        /\ gpu' = [gpu EXCEPT ![Head(queue["copy"]).block] = pinned[Head(queue["copy"]).buffer]]
    BY <1>7 DEF CopyToGpu, Next1
  <2> QED  BY <1>1, <1>2, <2>1
<1> QED  BY <1>1, <1>3, <1>4, <1>5, <1>6, <1>7 DEF Main, Copy

\* What a kernel of a backward reads is what the forward computed.
LEMMA StreamReads ==
  ASSUME DeviceTyped, DeviceTyped', DOMAIN gpu = Blocks, Main \/ Copy, UsesRight(Dev), Faithful
  PROVE  Faithful'
<1>1. CASE UNCHANGED used  BY <1>1 DEF Faithful
<1>2. CASE Use
  <2> DEFINE u == Head(queue["main"])
  <2>0. "main" \in Streams /\ "copy" \in Streams /\ "main" # "copy"  BY DEF Streams
  <2>1. /\ queue["main"] # <<>> /\ Ran("main") /\ u.op = "use"
        /\ used' = used \cup {[pass |-> u.pass, layer |-> u.layer, k |-> u.k, value |-> gpu[u.block]]}
    BY <1>2 DEF Use, Next1
  <2>2. PICK s \in Streams : Runs(Dev, s, Dev')  BY StreamRuns
  <2>3. s = "main"
    <3>1. queue'["copy"] = queue["copy"] /\ done'["copy"] = done["copy"] /\ done["copy"] \in Nat
      <4>1. DOMAIN queue = Streams /\ done \in [Streams -> Nat]  BY DEF DeviceTyped, QueuesTyped
      <4> QED  BY <2>0, <2>1, <4>1 DEF Ran
    <3>2. done' = [done EXCEPT ![s] = @ + 1] /\ done \in [Streams -> Nat]
      BY <2>2 DEF Runs, Dev, DeviceTyped, QueuesTyped
    <3>3. ASSUME s = "copy"  PROVE FALSE  BY <3>1, <3>2, <3>3, <2>0
    <3> QED  BY <3>3 DEF Streams
  <2>4. OpAt(Dev, "main", First(Dev, "main")) = u  BY <2>0, <2>1, RanIs
  <2>5. First(Dev, "main") \in Pend(Dev, "main")  BY <2>0, <2>2, <2>3, RunsStop
  <2>6. Gets(Dev, u.block, "main", First(Dev, "main"), Value(u.pass, u.layer, Saves[u.k]))
    BY <2>1, <2>4, <2>5 DEF UsesRight
  <2>7. gpu[u.block] = Value(u.pass, u.layer, Saves[u.k])
    <3>1. Dev.g[u.block] = Value(u.pass, u.layer, Saves[u.k])  BY <2>0, <2>2, <2>3, <2>6, RunsReads
    <3> QED  BY <3>1 DEF Dev
  <2>8. \A x \in used' : x \in used \/ (x.pass = u.pass /\ x.layer = u.layer /\ x.k = u.k /\ x.value = gpu[u.block])
    BY <2>1
  <2> HIDE DEF u
  <2> QED  BY <2>7, <2>8 DEF Faithful
<1> QED  BY <1>1, <1>2 DEF Main, Copy, StreamWait, Compute, CopyToHost, CopyToGpu

-----------------------------------------------------------------------------
(* The streams keep the invariant                                            *)

LEMMA DevIs ==
  /\ Dev.q = queue /\ Dev.d = done /\ Dev.g = gpu /\ Dev.p = pinned
  /\ DeviceTyped <=> QueuesTyped(Dev.q, Dev.d)
BY DEF Dev, DeviceTyped

\* The blocks that stand for a saved tensor exist.
ItemIn(ly, item) ==
  /\ item.kind = "tensor" => item.at \in Blocks
  /\ item.kind = "index" =>
       /\ ly.state = "not_offloaded" => ly.fwd[item.at].block \in Blocks
       /\ ly.state # "not_offloaded" => item.at \in DOMAIN ly.aux /\ ly.aux[item.at] \in 1..Count
       /\ ly.state = "reload_started" => ly.bwd[item.at].block \in Blocks

LEMMA ItemsIn ==
  ASSUME NEW c, NEW p, NEW l, NEW ly, NEW sv, Good(c, p, l, ly, sv), NEW j \in 1..Len(sv)
  PROVE  ItemIn(ly, sv[j])
<1>1. /\ ly.fwd \in Seq(Tensors) /\ ly.bwd \in Seq(Tensors) /\ ly.aux \in Seq(1..Count)
      /\ ly.state = "reload_started" => Len(ly.bwd) = Len(ly.aux)
  BY DEF Good, Typed, Shape
<1>2. \/ sv[j].kind = "tensor" /\ sv[j].at \in Blocks
      \/ sv[j].kind = "index" /\ sv[j].at \in Group(ly)
  BY DEF Good, SavedAre
<1>3. \A x \in Tensors : x.block \in Blocks  BY DEF Tensors
<1>4. CASE sv[j].kind = "tensor" /\ sv[j].at \in Blocks  BY <1>4 DEF ItemIn
<1>5. CASE sv[j].kind = "index" /\ sv[j].at \in Group(ly)
  <2>1. CASE ly.state = "not_offloaded"
    <3>1. sv[j].at \in DOMAIN ly.fwd  BY <1>5, <2>1 DEF Group
    <3>2. ly.fwd[sv[j].at] \in Tensors  BY <1>1, <3>1
    <3> QED  BY <1>3, <1>5, <2>1, <3>2 DEF ItemIn
  <2>2. CASE ly.state # "not_offloaded"
    <3>1. sv[j].at \in DOMAIN ly.aux  BY <1>5, <2>2 DEF Group
    <3>2. ly.aux[sv[j].at] \in 1..Count
      <4> DEFINE S == 1..Count
      <4>1. ly.aux \in Seq(S)  BY <1>1
      <4> HIDE DEF S
      <4>2. ly.aux[sv[j].at] \in S  BY <3>1, <4>1
      <4> QED  BY <4>2 DEF S
    <3>3. ly.state = "reload_started" => ly.bwd[sv[j].at] \in Tensors  BY <1>1, <3>1
    <3> QED  BY <1>3, <1>5, <2>2, <3>1, <3>2, <3>3 DEF ItemIn
  <2> QED  BY <2>1, <2>2
<1> QED  BY <1>2, <1>4, <1>5

LEMMA RunsSaved ==
  ASSUME NEW X, NEW Y, NEW s \in Streams, Runs(X, s, Y), NEW ly, NEW item, NEW v,
         ItemIn(ly, item), SavedRight(X, ly, item, v)
  PROVE  SavedRight(Y, ly, item, v)
<1>1. "main" \in Streams /\ "copy" \in Streams  BY DEF Streams
<1> DEFINE end == Stop(X, "copy") + 1
<1>2. /\ Stop(Y, "main") = Stop(X, "main") /\ Stop(Y, "copy") + 1 = end
      /\ Stop(X, "copy") \in Nat /\ end \in Nat
  <2>1. /\ Stop(Y, "main") = Stop(X, "main") /\ Stop(Y, "copy") = Stop(X, "copy")
        /\ Stop(X, "copy") \in Nat
    <3>1. ASSUME NEW t \in Streams  PROVE Stop(Y, t) = Stop(X, t) /\ Stop(X, t) \in Nat  BY RunsPend
    <3> QED  BY <1>1, <3>1
  <2> QED  BY <2>1
<1>3. s = "copy" => end > First(X, s)
  <2>1. First(X, s) \in Pend(X, s) /\ QueuesTyped(X.q, X.d)
    <3>1. First(X, s) \in Pend(X, s)  BY RunsStop
    <3> QED  BY <3>1 DEF Runs
  <2>2. First(X, s) <= Stop(X, s) /\ First(X, s) \in Nat  BY <2>1, Positions
  <2> QED  BY <1>2, <2>2
<1> HIDE DEF end
<1>4. item.kind = "tensor" => OnMain(Y, item.at, Stop(Y, "main"), v)
  BY <1>2, RunsHolds DEF SavedRight, ItemIn
<1>5. ASSUME item.kind = "index"
      PROVE  /\ ly.state = "not_offloaded" =>
                  OnMain(Y, ly.fwd[item.at].block, ly.fwd[item.at].ready, v)
             /\ ly.state = "offload_started" =>
                  Gives(Y, ly.cpu[ly.aux[item.at]], end, v, GroupBlocks(ly.fwd), ly.finished)
             /\ ly.state = "offload_finished" => Gives(Y, ly.cpu[ly.aux[item.at]], end, v, {}, 0)
             /\ ly.state = "reload_started" =>
                  OnCopy(Y, ly.bwd[item.at].block, ly.bwd[item.at].ready, v)
  <2>1. ly.state = "not_offloaded" => OnMain(Y, ly.fwd[item.at].block, ly.fwd[item.at].ready, v)
    BY <1>5, RunsHolds DEF SavedRight, ItemIn
  <2>2. ly.state = "reload_started" => OnCopy(Y, ly.bwd[item.at].block, ly.bwd[item.at].ready, v)
    BY <1>5, RunsHolds DEF SavedRight, ItemIn
  <2>3. ASSUME ly.state = "offload_started"
        PROVE  Gives(Y, ly.cpu[ly.aux[item.at]], end, v, GroupBlocks(ly.fwd), ly.finished)
    <3> DEFINE f == ly.cpu[ly.aux[item.at]]
               H == GroupBlocks(ly.fwd)
               e == ly.finished
    <3>1. Gives(X, f, end, v, H, e)  BY <1>5, <2>3 DEF SavedRight, end
    <3> HIDE DEF f, H, e
    <3>2. Gives(Y, f, end, v, H, e)  BY <1>2, <1>3, <3>1, RunsGives
    <3> QED  BY <3>2 DEF f, H, e
  <2>4. ASSUME ly.state = "offload_finished"  PROVE Gives(Y, ly.cpu[ly.aux[item.at]], end, v, {}, 0)
    <3>1. Gives(X, ly.cpu[ly.aux[item.at]], end, v, {}, 0)  BY <1>5, <2>4 DEF SavedRight, end
    <3> QED  BY <1>2, <1>3, <3>1, RunsGives
  <2> QED  BY <2>1, <2>2, <2>3, <2>4
<1> QED  BY <1>2, <1>4, <1>5 DEF SavedRight

LEMMA RunsUses ==
  ASSUME NEW X, NEW Y, NEW s \in Streams, Runs(X, s, Y), UsesRight(X)
  PROVE  UsesRight(Y)
<1>1. "main" \in Streams  BY DEF Streams
<1>2. ASSUME NEW u \in Pend(Y, "main"), OpAt(Y, "main", u).op = "use"
      PROVE  LET x == OpAt(Y, "main", u) IN
             Gets(Y, x.block, "main", u, Value(x.pass, x.layer, Saves[x.k]))
  <2> DEFINE x == OpAt(X, "main", u)
  <2>1. OpAt(Y, "main", u) = x  BY <1>1, RunsOp
  <2>2. u \in Pend(X, "main") /\ QueuesTyped(X.q, X.d)  BY <1>1, RunsPend DEF Runs
  <2>3. Gets(X, x.block, "main", u, Value(x.pass, x.layer, Saves[x.k]))
    BY <1>2, <2>1, <2>2 DEF UsesRight
  <2>4. x.block \in Blocks
    <3>1. x.op # "wait"  BY <1>2, <2>1
    <3> QED  BY <1>1, <2>2, <3>1, Positions
  <2> HIDE DEF x
  <2>5. Gets(Y, x.block, "main", u, Value(x.pass, x.layer, Saves[x.k]))
    BY <1>1, <2>3, <2>4, RunsGets
  <2> QED  BY <2>1, <2>5
<1> QED  BY <1>2 DEF UsesRight

LEMMA StreamKept ==
  ASSUME IInv, IInv', DInv, Main \/ Copy
  PROVE  DInv'
<1>1. "main" \in Streams /\ "copy" \in Streams  BY DEF Streams
<1>2. DeviceTyped /\ DeviceTyped' /\ DOMAIN gpu = Blocks /\ Faithful /\ UsesRight(Dev)
  BY DEF IInv, DInv
<1>3. HostSame /\ DOMAIN gpu' = Blocks /\ Faithful'  BY <1>2, StreamRuns, StreamReads
<1>4. PICK s \in Streams : Runs(Dev, s, Dev')  BY <1>2, StreamRuns
<1>5. /\ config' = config /\ layers' = layers /\ saved' = saved /\ pass' = pass /\ pc' = pc /\ k' = k
      /\ agenda' = agenda /\ previousBwd' = previousBwd /\ currentLayer' = currentLayer
      /\ Layers' = Layers
  BY <1>3 DEF HostSame, syncVars, scriptVars, Layers, NumLayers
<1>6. UsesRight(Dev')  BY <1>2, <1>4, RunsUses
<1>7. Whole'  BY <1>5 DEF DInv, Whole
<1>8. ReloadsKept'
  <2>1. ASSUME NEW c \in Pend(Dev', "copy"), OpAt(Dev', "copy", c).op = "reload"
        PROVE  Waited(Dev', c) \/ \E l \in Layers : Keeps(Dev', layers[l], saved[l], Popped(l), c)
    <3>1. OpAt(Dev', "copy", c) = OpAt(Dev, "copy", c)  BY <1>1, <1>4, RunsOp
    <3>2. c \in Pend(Dev, "copy")  BY <1>1, <1>4, RunsPend
    <3>3. Waited(Dev, c) \/ \E l \in Layers : Keeps(Dev, layers[l], saved[l], Popped(l), c)
      BY <2>1, <3>1, <3>2 DEF DInv, ReloadsKept
    <3>4. Waited(Dev, c) => Waited(Dev', c)  BY <1>4, RunsWaited
    <3>5. \A l \in Layers : Keeps(Dev, layers[l], saved[l], Popped(l), c) =>
                              Keeps(Dev', layers[l], saved[l], Popped(l), c)
      BY <3>1 DEF Keeps
    <3> QED  BY <3>3, <3>4, <3>5
  <2>2. \A l \in Layers : Popped(l)' = Popped(l)  BY <1>5 DEF Popped
  <2> QED  BY <1>5, <2>1, <2>2 DEF ReloadsKept
<1>9. ASSUME NEW l \in Layers
      PROVE  AllNamed(layers[l]) /\ LayerRight(Dev', pass, l, layers[l], saved[l])
  <2>1. Good(config, pass, l, layers[l], saved[l])  BY DEF IInv, HInv, LayerInv
  <2>2. AllNamed(layers[l]) /\ LayerRight(Dev, pass, l, layers[l], saved[l])  BY DEF DInv
  <2>3. ASSUME NEW j \in 1..Len(saved[l])
        PROVE  SavedRight(Dev', layers[l], saved[l][j], Value(pass, l, Saves[j]))
    <3>1. ItemIn(layers[l], saved[l][j])  BY <2>1, ItemsIn
    <3>2. SavedRight(Dev, layers[l], saved[l][j], Value(pass, l, Saves[j]))  BY <2>2 DEF LayerRight
    <3> QED  BY <1>4, <3>1, <3>2, RunsSaved
  <2> QED  BY <2>2, <2>3 DEF LayerRight
<1>10. \A l \in Layers' : AllNamed(layers[l]') /\ LayerRight(Dev', pass', l, layers[l]', saved[l]')
  BY <1>5, <1>9
<1> QED  BY <1>3, <1>6, <1>7, <1>8, <1>10 DEF DInv

-----------------------------------------------------------------------------
(* What the host puts on the streams                                         *)

\* Y is X with operations M more on the main and C more on the copy stream.
More(X, Y, M, C) ==
  /\ QueuesTyped(X.q, X.d) /\ QueuesTyped(Y.q, Y.d) /\ Y.d = X.d /\ Y.g = X.g /\ Y.p = X.p
  /\ Y.q["main"] = X.q["main"] \o M /\ Y.q["copy"] = X.q["copy"] \o C
  /\ \E A : M \in Seq(A)
  /\ \E A : C \in Seq(A)

Extended(X, Y, s, ops) ==
  /\ QueuesTyped(X.q, X.d) /\ QueuesTyped(Y.q, Y.d) /\ Y.d = X.d
  /\ Y.q[s] = X.q[s] \o ops /\ \E A : ops \in Seq(A)

LEMMA ExtendIs ==
  ASSUME NEW X, NEW Y, NEW ops, NEW s \in Streams, Extended(X, Y, s, ops)
  PROVE  /\ Stop(X, s) \in Nat /\ Len(ops) \in Nat /\ Stop(Y, s) = Stop(X, s) + Len(ops)
         /\ \A p \in Pend(X, s) : p \in Pend(Y, s) /\ OpAt(Y, s, p) = OpAt(X, s, p)
         /\ \A p \in Pend(Y, s) : p \in Pend(X, s) \/ p > Stop(X, s)
         /\ \A p \in Pend(Y, s) : p > Stop(X, s) =>
              p - Stop(X, s) \in 1..Len(ops) /\ OpAt(Y, s, p) = ops[p - Stop(X, s)]
         /\ \A i \in 1..Len(ops) :
              Stop(X, s) + i \in Pend(Y, s) /\ OpAt(Y, s, Stop(X, s) + i) = ops[i]
<1> DEFINE d == X.d[s]
           n == Len(X.q[s])
           m == Len(ops)
           e == Stop(X, s)
<1>0. /\ QueuesTyped(X.q, X.d) /\ Y.d = X.d /\ Y.q[s] = X.q[s] \o ops
      /\ \E A : ops \in Seq(A)
  BY DEF Extended
<1>1. d \in Nat /\ Y.d[s] = d /\ \E A : X.q[s] \in Seq(A)  BY <1>0 DEF QueuesTyped, Streams
<1>2. n \in Nat /\ m \in Nat  BY <1>0, <1>1
<1>3. /\ Len(Y.q[s]) = n + m
      /\ \A i \in 1..n : Y.q[s][i] = X.q[s][i]
      /\ \A i \in 1..m : Y.q[s][n + i] = ops[i]
  <2>1. PICK A : X.q[s] \in Seq(A)  BY <1>1
  <2>2. PICK B : ops \in Seq(B)  BY <1>0
  <2> DEFINE C == A \cup B
  <2>3. X.q[s] \in Seq(C) /\ ops \in Seq(C)  BY <2>1, <2>2
  <2> HIDE DEF C
  <2> QED  BY <1>0, <2>3
<1>4. Stop(Y, s) = d + (n + m) /\ e = d + n  BY <1>1, <1>3 DEF Stop, End
<1>5. Pend(X, s) = d + 1..e /\ Pend(Y, s) = d + 1..d + (n + m)  BY <1>1, <1>4 DEF Pend
<1>6. \A p : OpAt(X, s, p) = X.q[s][p - d] /\ OpAt(Y, s, p) = Y.q[s][p - d]  BY <1>1 DEF OpAt
<1> HIDE DEF d, n, m, e
<1>7. e \in Nat /\ d + (n + m) = e + m  BY <1>1, <1>2, <1>4
<1>8. /\ \A p \in Pend(X, s) : p \in Pend(Y, s)
      /\ \A p \in Pend(Y, s) : p \in Pend(X, s) \/ p > e
  BY <1>1, <1>2, <1>4, <1>5
<1>9. ASSUME NEW p \in Pend(X, s)  PROVE OpAt(Y, s, p) = OpAt(X, s, p)
  <2>1. p - d \in 1..n  BY <1>1, <1>2, <1>4, <1>5
  <2> QED  BY <1>3, <1>6, <2>1
<1>10. ASSUME NEW p \in Pend(Y, s), p > e
       PROVE  p - e \in 1..m /\ OpAt(Y, s, p) = ops[p - e]
  <2>1. p \in d + 1..d + (n + m) /\ p > e /\ e = d + n /\ d \in Nat  BY <1>1, <1>4, <1>5, <1>10
  <2>2. p - e \in 1..m /\ p - d = n + (p - e)  BY <1>2, <2>1
  <2>3. OpAt(Y, s, p) = Y.q[s][n + (p - e)]  BY <1>6, <2>2
  <2> QED  BY <1>3, <2>2, <2>3
<1>11. ASSUME NEW i \in 1..m  PROVE e + i \in Pend(Y, s) /\ OpAt(Y, s, e + i) = ops[i]
  <2> DEFINE z == e + i
  <2>1. z \in Pend(Y, s)  BY <1>1, <1>2, <1>4, <1>5
  <2>2. z - d = n + i  BY <1>1, <1>2, <1>4
  <2> HIDE DEF z
  <2>3. OpAt(Y, s, z) = Y.q[s][n + i]  BY <1>6, <2>2
  <2> QED  BY <1>3, <2>1, <2>3 DEF z
<1> QED  BY <1>2, <1>4, <1>7, <1>8, <1>9, <1>10, <1>11 DEF e, m

New(M, C, s) == IF s = "main" THEN M ELSE C

LEMMA MoreIs ==
  ASSUME NEW X, NEW Y, NEW M, NEW C, More(X, Y, M, C), NEW s \in Streams
  PROVE  /\ Stop(X, s) \in Nat /\ Len(New(M, C, s)) \in Nat
         /\ Stop(Y, s) = Stop(X, s) + Len(New(M, C, s)) /\ Stop(X, s) <= Stop(Y, s)
         /\ \A p \in Pend(X, s) : p \in Pend(Y, s) /\ OpAt(Y, s, p) = OpAt(X, s, p)
         /\ \A p \in Pend(Y, s) : p \in Pend(X, s) \/ p > Stop(X, s)
         /\ \A p \in Pend(Y, s) : p > Stop(X, s) =>
              /\ p - Stop(X, s) \in 1..Len(New(M, C, s))
              /\ OpAt(Y, s, p) = New(M, C, s)[p - Stop(X, s)]
         /\ \A i \in 1..Len(New(M, C, s)) :
              /\ Stop(X, s) + i \in Pend(Y, s)
              /\ OpAt(Y, s, Stop(X, s) + i) = New(M, C, s)[i]
<1> DEFINE ops == New(M, C, s)
<1>1. Y.q[s] = X.q[s] \o ops /\ \E A : ops \in Seq(A)  BY DEF More, New, Streams
<1>2. Extended(X, Y, s, ops)  BY <1>1 DEF More, Extended
<1> HIDE DEF ops
<1>3. /\ Stop(X, s) \in Nat /\ Len(ops) \in Nat /\ Stop(Y, s) = Stop(X, s) + Len(ops)
      /\ \A p \in Pend(X, s) : p \in Pend(Y, s) /\ OpAt(Y, s, p) = OpAt(X, s, p)
      /\ \A p \in Pend(Y, s) : p \in Pend(X, s) \/ p > Stop(X, s)
      /\ \A p \in Pend(Y, s) : p > Stop(X, s) =>
              p - Stop(X, s) \in 1..Len(ops) /\ OpAt(Y, s, p) = ops[p - Stop(X, s)]
      /\ \A i \in 1..Len(ops) :
              Stop(X, s) + i \in Pend(Y, s) /\ OpAt(Y, s, Stop(X, s) + i) = ops[i]
  BY <1>2, ExtendIs
<1>4. Stop(X, s) <= Stop(Y, s)  BY <1>3
<1> QED  BY <1>3, <1>4 DEF ops

\* The copies to the GPU come after all that is on the main stream.
AfterMain(C, e) ==
  \A i \in 1..Len(C) : C[i].op = "reload" =>
    \E h \in 1..Len(C) : h < i /\ C[h].op = "wait" /\ C[h].at >= e

LEMMA MoreGrows ==
  ASSUME NEW X, NEW Y, NEW M, NEW C, More(X, Y, M, C), NEW F,
         \A i \in 1..Len(M) : M[i].op = "compute" => M[i].block \in F,
         \A i \in 1..Len(C) : C[i].op = "reload" => C[i].block \in F,
         AfterMain(C, Stop(X, "main"))
  PROVE  Grows(X, Y, F)
<1>1. "main" \in Streams /\ "copy" \in Streams /\ "main" # "copy"  BY DEF Streams
<1>2. /\ QueuesTyped(X.q, X.d) /\ QueuesTyped(Y.q, Y.d) /\ Y.g = X.g /\ Y.p = X.p  BY DEF More
<1>3. \A s \in Streams :
        /\ Stop(X, s) <= Stop(Y, s)
        /\ \A p \in Pend(X, s) : p \in Pend(Y, s) /\ OpAt(Y, s, p) = OpAt(X, s, p)
        /\ \A p \in Pend(Y, s) : p \in Pend(X, s) \/ p > Stop(X, s)
  BY MoreIs
<1>4. ASSUME NEW s \in Streams, NEW p \in Pend(Y, s), p > Stop(X, s),
             OpAt(Y, s, p).op \in {"compute", "reload"}
      PROVE  /\ OpAt(Y, s, p).block \in F
             /\ s = "copy" => \A u \in Pend(X, "main") : Waits(Y, "copy", p, u)
  <2>1. OpAt(Y, s, p).op \in Kinds(s)  BY <1>2, Positions
  <2>2. CASE s = "main"
    <3> DEFINE i == p - Stop(X, "main")
    <3>1. i \in 1..Len(M) /\ OpAt(Y, "main", p) = M[i]  BY <1>1, <1>4, <2>2, MoreIs DEF New
    <3>2. OpAt(Y, s, p).op = "compute"  BY <1>4, <2>1, <2>2 DEF Kinds
    <3> HIDE DEF i
    <3>3. OpAt(Y, "main", p).block \in F  BY <2>2, <3>1, <3>2
    <3> QED  BY <1>1, <2>2, <3>3
  <2>3. CASE s = "copy"
    <3> DEFINE e == Stop(X, "copy")
               i == p - e
    <3>1. i \in 1..Len(C) /\ OpAt(Y, "copy", p) = C[i] /\ e \in Nat /\ p \in Nat
      <4>1. p \in Nat  BY <1>2, <2>3, Positions
      <4>2. i \in 1..Len(C) /\ OpAt(Y, "copy", p) = C[i]  BY <1>1, <1>4, <2>3, MoreIs DEF New
      <4>3. e \in Nat  BY <1>1, MoreIs
      <4> QED  BY <4>1, <4>2, <4>3
    <3>2. OpAt(Y, s, p).op = "reload"  BY <1>4, <2>1, <2>3 DEF Kinds
    <3>3. e + i = p  BY <3>1
    <3> HIDE DEF i, e
    <3>4. C[i].op = "reload" /\ OpAt(Y, "copy", p).block \in F  BY <2>3, <3>1, <3>2
    <3>5. PICK h \in 1..Len(C) : h < i /\ C[h].op = "wait" /\ C[h].at >= Stop(X, "main")
      BY <3>1, <3>4 DEF AfterMain
    <3>6. e + h \in Pend(Y, "copy") /\ OpAt(Y, "copy", e + h) = C[h]  BY <1>1, MoreIs DEF New, e
    <3>7. e + h < p  BY <3>1, <3>3, <3>5
    <3>8. ASSUME NEW u \in Pend(X, "main")  PROVE C[h].at >= u
      <4>1. u \in Nat /\ u <= Stop(X, "main") /\ Stop(X, "main") \in Nat  BY <1>1, <1>2, Positions
      <4>2. OpAt(Y, "copy", e + h).at \in 0..Stop(Y, Other("copy")) /\ Stop(Y, Other("copy")) \in Nat
        <5>1. OpAt(Y, "copy", e + h).at \in 0..Stop(Y, Other("copy"))
          BY <1>1, <1>2, <3>5, <3>6, Positions
        <5>2. Other("copy") = "main"  BY DEF Other
        <5>3. Stop(Y, "main") \in Nat  BY <1>1, <1>2, Positions
        <5> QED  BY <5>1, <5>2, <5>3
      <4> QED  BY <3>5, <3>6, <4>1, <4>2
    <3>9. \A u \in Pend(X, "main") : Waits(Y, "copy", p, u)  BY <3>5, <3>6, <3>7, <3>8 DEF Waits
    <3> QED  BY <2>3, <3>4, <3>9
  <2> QED  BY <2>2, <2>3 DEF Streams
<1> QED  BY <1>2, <1>3, <1>4 DEF Grows

\* No copy to a buffer of the layer is added.
NoFills(X, Y, ly) == \A n \in 1..Count : Fills(Y, ly.cpu[n]) \subseteq Fills(X, ly.cpu[n])

\* What stands for a tensor goes on to stand for it.
LEMMA SavedGrows ==
  ASSUME NEW X, NEW Y, NEW F, Grows(X, Y, F), NEW ly, NEW item, NEW v,
         ItemIn(ly, item), SavedRight(X, ly, item, v),
         ly.state # "not_offloaded" => NoFills(X, Y, ly),
         item.kind = "tensor" => item.at \notin F,
         item.kind = "index" /\ ly.state = "not_offloaded" => ly.fwd[item.at].block \notin F,
         item.kind = "index" /\ ly.state = "reload_started" => ly.bwd[item.at].block \notin F,
         \A b \in GroupBlocks(ly.fwd) : b \notin F
  PROVE  SavedRight(Y, ly, item, v)
<1>1. "main" \in Streams /\ "copy" \in Streams /\ QueuesTyped(Y.q, Y.d)  BY DEF Streams, Grows
<1> DEFINE end == Stop(X, "copy") + 1
           end2 == Stop(Y, "copy") + 1
<1>2. /\ Stop(X, "main") \in Nat /\ Stop(Y, "main") \in Nat /\ Stop(X, "main") <= Stop(Y, "main")
      /\ end \in Nat /\ end2 \in Nat /\ end > Stop(X, "copy") /\ end2 >= end
  <2>1. \A s \in Streams : Stop(X, s) \in Nat /\ Stop(Y, s) \in Nat /\ Stop(X, s) <= Stop(Y, s)
    BY GrowsOld
  <2> QED  BY <1>1, <2>1
<1> HIDE DEF end, end2
<1>3. ASSUME item.kind = "tensor"  PROVE OnMain(Y, item.at, Stop(Y, "main"), v)
  <2>1. OnMain(X, item.at, Stop(X, "main"), v)  BY <1>3 DEF SavedRight
  <2>2. OnMain(Y, item.at, Stop(X, "main"), v)  BY <1>3, <2>1, GrowsHolds
  <2> QED  BY <1>1, <1>2, <2>2, OnMainLater
<1>4. ASSUME item.kind = "index", ly.state = "not_offloaded"
      PROVE  OnMain(Y, ly.fwd[item.at].block, ly.fwd[item.at].ready, v)
  <2>1. OnMain(X, ly.fwd[item.at].block, ly.fwd[item.at].ready, v)  BY <1>4 DEF SavedRight
  <2> QED  BY <1>4, <2>1, GrowsHolds
<1>5. ASSUME item.kind = "index", ly.state = "reload_started"
      PROVE  OnCopy(Y, ly.bwd[item.at].block, ly.bwd[item.at].ready, v)
  <2>1. OnCopy(X, ly.bwd[item.at].block, ly.bwd[item.at].ready, v)  BY <1>5 DEF SavedRight
  <2> QED  BY <1>5, <2>1, GrowsHolds
<1>6. ASSUME NEW H, NEW e, \A b \in H : b \notin F, item.kind = "index", ly.state # "not_offloaded",
             Gives(X, ly.cpu[ly.aux[item.at]], end, v, H, e)
      PROVE  Gives(Y, ly.cpu[ly.aux[item.at]], end2, v, H, e)
  <2> DEFINE f == ly.cpu[ly.aux[item.at]]
  <2>1. \A o \in Fills(Y, f) : o \in Fills(X, f)
    <3>1. ly.aux[item.at] \in 1..Count  BY <1>6 DEF ItemIn
    <3> QED  BY <1>6, <3>1 DEF NoFills
  <2>2. Gives(X, f, end, v, H, e)  BY <1>6
  <2> HIDE DEF f
  <2>3. Gives(Y, f, end2, v, H, e)  BY <1>2, <1>6, <2>1, <2>2, GrowsGives
  <2> QED  BY <2>3 DEF f
<1>7. ASSUME item.kind = "index", ly.state = "offload_started"
      PROVE  Gives(Y, ly.cpu[ly.aux[item.at]], end2, v, GroupBlocks(ly.fwd), ly.finished)
  <2>1. Gives(X, ly.cpu[ly.aux[item.at]], end, v, GroupBlocks(ly.fwd), ly.finished)
    BY <1>7 DEF SavedRight, end
  <2> QED  BY <1>6, <1>7, <2>1
<1>8. ASSUME item.kind = "index", ly.state = "offload_finished"
      PROVE  Gives(Y, ly.cpu[ly.aux[item.at]], end2, v, {}, 0)
  <2>1. Gives(X, ly.cpu[ly.aux[item.at]], end, v, {}, 0)  BY <1>8 DEF SavedRight, end
  <2> QED  BY <1>6, <1>8, <2>1
<1> QED  BY <1>3, <1>4, <1>5, <1>7, <1>8 DEF SavedRight, end2

\* The blocks a layer with saved tensors sv refers to.
Held(ly, sv) ==
  GroupBlocks(ly.fwd) \cup GroupBlocks(ly.bwd)
    \cup {sv[i].at : i \in {j \in DOMAIN sv : sv[j].kind = "tensor"}}

LEMMA HeldIs ==
  ASSUME NEW c, NEW p, NEW l, NEW ly, NEW sv, Good(c, p, l, ly, sv), NEW j \in 1..Len(sv)
  PROVE  /\ sv[j].kind = "tensor" => sv[j].at \in Held(ly, sv)
         /\ sv[j].kind = "index" /\ ly.state = "not_offloaded" => ly.fwd[sv[j].at].block \in Held(ly, sv)
         /\ sv[j].kind = "index" /\ ly.state = "reload_started" => ly.bwd[sv[j].at].block \in Held(ly, sv)
<1>1. /\ ly.fwd \in Seq(Tensors) /\ ly.bwd \in Seq(Tensors) /\ ly.aux \in Seq(1..Count)
      /\ ly.state = "reload_started" => Len(ly.bwd) = Len(ly.aux)
      /\ sv \in Seq(Items)
  BY DEF Good, Typed, Shape, SavedAre
<1>2. sv[j].kind = "index" => sv[j].at \in Group(ly)  BY DEF Good, SavedAre
<1>3. DOMAIN sv = 1..Len(sv)  BY <1>1
<1>4. sv[j].kind = "tensor" => sv[j].at \in Held(ly, sv)  BY <1>3 DEF Held
<1>5. sv[j].kind = "index" /\ ly.state = "not_offloaded" => ly.fwd[sv[j].at].block \in Held(ly, sv)
  BY <1>2 DEF Held, GroupBlocks, Group
<1>6. ly.state = "reload_started" => DOMAIN ly.bwd = DOMAIN ly.aux  BY <1>1
<1>7. sv[j].kind = "index" /\ ly.state = "reload_started" => ly.bwd[sv[j].at].block \in Held(ly, sv)
  BY <1>2, <1>6 DEF Held, GroupBlocks, Group
<1> QED  BY <1>4, <1>5, <1>7

\* A layer that nothing is done to.
LEMMA LayerGrows ==
  ASSUME NEW X, NEW Y, NEW F, Grows(X, Y, F), NEW c, NEW p, NEW l, NEW ly, NEW sv,
         Good(c, p, l, ly, sv), LayerRight(X, p, l, ly, sv),
         ly.state # "not_offloaded" => NoFills(X, Y, ly),
         \A b \in Held(ly, sv) : b \notin F
  PROVE  LayerRight(Y, p, l, ly, sv)
<1>1. \A b \in GroupBlocks(ly.fwd) : b \notin F  BY DEF Held
<1>2. ASSUME NEW j \in 1..Len(sv)  PROVE SavedRight(Y, ly, sv[j], Value(p, l, Saves[j]))
  <2> DEFINE item == sv[j]
             v == Value(p, l, Saves[j])
  <2>1. ItemIn(ly, item)  BY ItemsIn
  <2>2. /\ item.kind = "tensor" => item.at \in Held(ly, sv)
        /\ item.kind = "index" /\ ly.state = "not_offloaded" => ly.fwd[item.at].block \in Held(ly, sv)
        /\ item.kind = "index" /\ ly.state = "reload_started" => ly.bwd[item.at].block \in Held(ly, sv)
    BY HeldIs
  <2>3. SavedRight(X, ly, item, v)  BY DEF LayerRight
  <2> HIDE DEF item, v
  <2>4. SavedRight(Y, ly, item, v)  BY <1>1, <2>1, <2>2, <2>3, SavedGrows
  <2> QED  BY <2>4 DEF item, v
<1> QED  BY <1>2 DEF LayerRight

\* Kernels on the stream, and those put there.
LEMMA UsesGrow ==
  ASSUME NEW X, NEW Y, NEW F, Grows(X, Y, F), UsesRight(X),
         \A u \in Pend(Y, "main") : u > Stop(X, "main") /\ OpAt(Y, "main", u).op = "use" =>
           LET x == OpAt(Y, "main", u) IN
           Gets(Y, x.block, "main", u, Value(x.pass, x.layer, Saves[x.k]))
  PROVE  UsesRight(Y)
<1>1. "main" \in Streams  BY DEF Streams
<1>2. ASSUME NEW u \in Pend(Y, "main"), OpAt(Y, "main", u).op = "use", u \in Pend(X, "main")
      PROVE  LET x == OpAt(Y, "main", u) IN
             Gets(Y, x.block, "main", u, Value(x.pass, x.layer, Saves[x.k]))
  <2> DEFINE x == OpAt(X, "main", u)
  <2>1. OpAt(Y, "main", u) = x  BY <1>1, <1>2, GrowsOld
  <2>2. Gets(X, x.block, "main", u, Value(x.pass, x.layer, Saves[x.k]))  BY <1>2, <2>1 DEF UsesRight
  <2> HIDE DEF x
  <2>3. Gets(Y, x.block, "main", u, Value(x.pass, x.layer, Saves[x.k]))  BY <1>2, <2>2, GrowsGets
  <2> QED  BY <2>1, <2>3
<1>3. \A u \in Pend(Y, "main") : u \in Pend(X, "main") \/ u > Stop(X, "main")  BY <1>1, GrowsOld
<1> QED  BY <1>2, <1>3 DEF UsesRight

\* A queued reload whose block was kept is kept, or waited for.
LEMMA KeptGrows ==
  ASSUME NEW X, NEW Y, NEW F, Grows(X, Y, F), NEW c \in Pend(X, "copy")
  PROVE  /\ Waited(X, c) => Waited(Y, c)
         /\ \A ly, sv, n : Keeps(X, ly, sv, n, c) => Keeps(Y, ly, sv, n, c)
<1>1. "copy" \in Streams  BY DEF Streams
<1>2. OpAt(Y, "copy", c) = OpAt(X, "copy", c)  BY <1>1, GrowsOld
<1> QED  BY <1>2, GrowsWaited DEF Keeps

\* A kernel's result stands in a block that no queued reload writes after it.
LEMMA NewComputed ==
  ASSUME NEW X, NEW Y, NEW op, More(X, Y, <<op>>, <<>>), op.op = "compute",
         Grows(X, Y, {op.block}), \A c \in Writes(X, op.block, "copy") : Waited(X, c)
  PROVE  OnMain(Y, op.block, Stop(Y, "main"), op.value)
<1> DEFINE b == op.block
           m == Stop(X, "main") + 1
<1>1. "main" \in Streams /\ "copy" \in Streams /\ "main" # "copy"  BY DEF Streams
<1>2. /\ Stop(X, "main") \in Nat /\ Stop(Y, "main") = m
      /\ m \in Pend(Y, "main") /\ OpAt(Y, "main", m) = op
  <2> DEFINE M == <<op>>
             C == <<>>
  <2>1. Len(M) = 1 /\ M[1] = op /\ 1 \in 1..1  OBVIOUS
  <2>2. More(X, Y, M, C)  OBVIOUS
  <2> HIDE DEF M, C
  <2>3. New(M, C, "main") = M  BY DEF New
  <2>4. /\ Stop(X, "main") \in Nat /\ Stop(Y, "main") = Stop(X, "main") + Len(M)
        /\ \A i \in 1..Len(M) : /\ Stop(X, "main") + i \in Pend(Y, "main")
                                /\ OpAt(Y, "main", Stop(X, "main") + i) = M[i]
    BY <1>1, <2>2, <2>3, MoreIs
  <2> QED  BY <2>1, <2>4
<1>3. m \in Nat /\ m > Stop(X, "main")  BY <1>2
<1> HIDE DEF m
<1>4. m \in Writes(Y, b, "main")  BY <1>2 DEF Writes
<1>5. Stop(Y, "copy") = Stop(X, "copy") /\ Stop(X, "copy") \in Nat
  <2>1. New(<<op>>, <<>>, "copy") = <<>> /\ Len(<<>>) = 0  BY DEF New
  <2>2. Stop(Y, "copy") = Stop(X, "copy") + 0 /\ Stop(X, "copy") \in Nat  BY <1>1, <2>1, MoreIs
  <2> QED  BY <2>2
<1>6. QueuesTyped(Y.q, Y.d)  BY DEF Grows
<1>7. ASSUME NEW w \in Writes(Y, b, "main"), w # m  PROVE Before(Y, "main", w, "main", m)
  <2>1. w \in Nat /\ w <= m  BY <1>1, <1>2, <1>6, WritesAre
  <2> QED  BY <1>3, <1>7, <2>1 DEF Before
<1>8. ASSUME NEW w \in Writes(Y, b, "copy")  PROVE Before(Y, "copy", w, "main", m)
  <2>1. w \in Nat /\ w <= Stop(X, "copy")  BY <1>1, <1>5, <1>6, WritesAre
  <2>2. w \in Writes(X, b, "copy")  BY <1>1, <1>5, <2>1, GrowsWrites
  <2>3. Waits(Y, "main", m, w)  BY <1>3, <2>2, GrowsWaited
  <2> QED  BY <1>1, <2>3 DEF Before
<1>9. FinalWrite(Y, b, "main", m)  BY <1>7, <1>8 DEF FinalWrite, Streams
<1>10. m <= Stop(Y, "main")  BY <1>2, <1>3
<1> QED  BY <1>2, <1>4, <1>9, <1>10 DEF OnMain

LEMMA Halves ==
  ASSUME NEW c \in Nat, NEW i \in 1..2 * c
  PROVE  \E m \in 1..c : i = 2 * m - 1 \/ i = 2 * m
<1> DEFINE h == i \div 2
           r == i % 2
<1>1. h \in Int /\ r \in 0..1 /\ i = 2 * h + r  OBVIOUS
<1> HIDE DEF h, r
<1>2. CASE r = 0
  <2>1. h \in 1..c /\ i = 2 * h  BY <1>1, <1>2
  <2> QED  BY <2>1
<1>3. CASE r = 1
  <2> DEFINE m == h + 1
  <2>1. m \in 1..c /\ i = 2 * m - 1  BY <1>1, <1>3
  <2> HIDE DEF m
  <2> QED  BY <2>1
<1> QED  BY <1>1, <1>2, <1>3

\* The copies of one layer to pinned memory: operation 2n of the copy stream waits for
\* tensor n and copies it.
OffloadsAre(C, group, names) ==
  /\ Len(C) = 2 * Count /\ group \in Seq(Tensors) /\ Len(group) = Count
  /\ \A n \in 1..Count :
       /\ C[2 * n - 1].op = "wait" /\ C[2 * n - 1].at = group[n].ready
       /\ C[2 * n].op = "offload" /\ C[2 * n].block = group[n].block /\ C[2 * n].buffer = names[n]

LEMMA OffloadGives ==
  ASSUME NEW X, NEW Y, NEW C, More(X, Y, <<>>, C), Grows(X, Y, {}), NEW group, NEW names,
         OffloadsAre(C, group, names), \A n, m \in 1..Count : names[n] = names[m] => n = m,
         NEW n \in 1..Count, NEW v, OnMain(X, group[n].block, group[n].ready, v)
  PROVE  Gives(Y, names[n], Stop(Y, "copy") + 1, v, GroupBlocks(group), Stop(X, "copy") + 2 * Count)
<1> DEFINE e == Stop(X, "copy")
           o == e + 2 * n
           w == e + (2 * n - 1)
           b == group[n].block
           f == names[n]
<1>1. "main" \in Streams /\ "copy" \in Streams /\ "main" # "copy"  BY DEF Streams
<1>2. Count \in Nat /\ n \in Nat /\ 1 <= n /\ n <= Count  BY CountFinite
<1>3. QueuesTyped(Y.q, Y.d) /\ QueuesTyped(X.q, X.d)  BY DEF Grows
<1>4. /\ e \in Nat /\ Stop(Y, "copy") = e + 2 * Count
      /\ \A i \in 1..2 * Count : e + i \in Pend(Y, "copy") /\ OpAt(Y, "copy", e + i) = C[i]
      /\ \A p \in Pend(Y, "copy") : p \in Pend(X, "copy") \/ p > e
      /\ \A p \in Pend(Y, "copy") : p > e => p - e \in 1..2 * Count /\ OpAt(Y, "copy", p) = C[p - e]
  <2>1. New(<<>>, C, "copy") = C /\ Len(C) = 2 * Count  BY DEF New, OffloadsAre
  <2> QED  BY <1>1, <2>1, MoreIs
<1>5. 2 * n \in 1..2 * Count /\ 2 * n - 1 \in 1..2 * Count  BY <1>2
<1>6. /\ o \in Pend(Y, "copy") /\ OpAt(Y, "copy", o) = C[2 * n]
      /\ w \in Pend(Y, "copy") /\ OpAt(Y, "copy", w) = C[2 * n - 1]
  BY <1>4, <1>5
<1>7. /\ o \in Nat /\ w < o /\ o <= e + 2 * Count /\ e < o  BY <1>2, <1>4
<1>8. /\ C[2 * n - 1].op = "wait" /\ C[2 * n - 1].at = group[n].ready
      /\ C[2 * n].op = "offload" /\ C[2 * n].block = b /\ C[2 * n].buffer = f
      /\ group[n] \in Tensors
  <2>1. group \in Seq(Tensors) /\ Len(group) = Count  BY DEF OffloadsAre
  <2> QED  BY <2>1 DEF OffloadsAre
<1>9. group[n].ready \in Nat /\ b \in Blocks  BY <1>8 DEF Tensors
<1>10. ASSUME NEW x \in Fills(Y, f)  PROVE x <= o
  <2>1. x \in Pend(Y, "copy") /\ OpAt(Y, "copy", x).op = "offload" /\ OpAt(Y, "copy", x).buffer = f
    BY DEF Fills
  <2>2. CASE x \in Pend(X, "copy")
    <3>1. x \in Nat /\ x <= e  BY <1>1, <1>3, <2>2, Positions
    <3> QED  BY <1>4, <1>7, <3>1
  <2>3. CASE x > e
    <3> DEFINE i == x - e
    <3>1. i \in 1..2 * Count /\ OpAt(Y, "copy", x) = C[i] /\ x \in Nat
      BY <1>1, <1>3, <1>4, <2>1, <2>3, Positions
    <3>2. x = e + i  BY <1>4, <3>1
    <3> HIDE DEF i
    <3>3. PICK m \in 1..Count : i = 2 * m - 1 \/ i = 2 * m  BY <1>2, <3>1, Halves
    <3>4. C[2 * m - 1].op = "wait" /\ C[2 * m].buffer = names[m]  BY DEF OffloadsAre
    <3>5. i = 2 * m /\ names[m] = f  BY <2>1, <3>1, <3>3, <3>4
    <3>6. m = n  BY <3>5
    <3> QED  BY <1>4, <3>2, <3>5, <3>6
  <2> QED  BY <1>4, <2>1, <2>2, <2>3
<1>11. OnMain(Y, b, group[n].ready, v)
  <2>1. b \notin {}  OBVIOUS
  <2> HIDE DEF b
  <2>2. OnMain(X, b, group[n].ready, v)  BY DEF b
  <2> QED  BY <2>1, <2>2, GrowsHolds
<1> HIDE DEF o, w, e, b, f
<1>12. Waits(Y, "copy", o, group[n].ready)  BY <1>6, <1>7, <1>8, <1>9 DEF Waits
<1>13. GetsNow(Y, b, "copy", o, v) \/ GetsComputed(Y, b, "copy", o, v)
  BY <1>3, <1>9, <1>11, <1>12, ReadOffloaded
<1>14. b \in GroupBlocks(group)
  <2>1. group \in Seq(Tensors) /\ Len(group) = Count  BY DEF OffloadsAre
  <2>2. n \in DOMAIN group  BY <2>1
  <2> QED  BY <2>2 DEF GroupBlocks, b
<1>15. o \in Fills(Y, f)  BY <1>6, <1>8 DEF Fills
<1>16. o < Stop(Y, "copy") + 1  BY <1>2, <1>4, <1>7
<1>17. Gives(Y, f, Stop(Y, "copy") + 1, v, GroupBlocks(group), e + 2 * Count)
  BY <1>6, <1>7, <1>8, <1>10, <1>13, <1>14, <1>15, <1>16 DEF Gives
<1> QED  BY <1>17 DEF e, f

LEMMA ItemKinds ==
  ASSUME NEW c, NEW p, NEW l, NEW ly, NEW sv, Good(c, p, l, ly, sv), NEW j \in 1..Len(sv)
  PROVE  sv[j].kind = "tensor" \/ sv[j].kind = "index"
BY DEF Good, SavedAre

\* Buffers that the added copies do not go to.
LEMMA NoFillsMore ==
  ASSUME NEW X, NEW Y, NEW M, NEW C, More(X, Y, M, C), NEW ly,
         \A i \in 1..Len(C) : C[i].op = "offload" => \A n \in 1..Count : C[i].buffer # ly.cpu[n]
  PROVE  NoFills(X, Y, ly)
<1>1. "copy" \in Streams /\ New(M, C, "copy") = C  BY DEF Streams, New
<1>2. ASSUME NEW n \in 1..Count, NEW o \in Fills(Y, ly.cpu[n])  PROVE o \in Fills(X, ly.cpu[n])
  <2> DEFINE f == ly.cpu[n]
  <2>1. o \in Pend(Y, "copy") /\ OpAt(Y, "copy", o).op = "offload" /\ OpAt(Y, "copy", o).buffer = f
    BY DEF Fills
  <2>2. CASE o \in Pend(X, "copy")
    <3>1. OpAt(Y, "copy", o) = OpAt(X, "copy", o)  BY <1>1, <2>2, MoreIs
    <3> QED  BY <2>1, <2>2, <3>1 DEF Fills
  <2>3. CASE o > Stop(X, "copy")
    <3>1. o - Stop(X, "copy") \in 1..Len(C) /\ OpAt(Y, "copy", o) = C[o - Stop(X, "copy")]
      BY <1>1, <2>1, <2>3, MoreIs
    <3> DEFINE i == o - Stop(X, "copy")
    <3>2. i \in 1..Len(C) /\ OpAt(Y, "copy", o) = C[i]  BY <3>1
    <3> HIDE DEF i
    <3> QED  BY <2>1, <3>2
  <2> QED  BY <1>1, <2>1, <2>2, <2>3, MoreIs
<1> QED  BY <1>2 DEF NoFills

\* The operations of start_offload.
LEMMA OffloadOpsIn ==
  ASSUME NEW l, NEW ly, NEW sv, Good(config, pass, l, ly, sv), Covered(ly, sv),
         ly.state = "not_offloaded", ~Direct(config, l), Len(sv) = N
  PROVE  /\ OffloadsAre(OffloadOps(l, ly), Deduplicated(ly.fwd), Buffers(config, pass, l))
         /\ \A n, m \in 1..Count :
              Buffers(config, pass, l)[n] = Buffers(config, pass, l)[m] => n = m
         /\ \A i \in 1..Len(OffloadOps(l, ly)) :
              /\ OffloadOps(l, ly)[i].op \in {"wait", "offload"}
              /\ OffloadOps(l, ly)[i].op = "offload" => OffloadOps(l, ly)[i].buffer.layer = l
<1> DEFINE G == Deduplicated(ly.fwd)
           C == OffloadOps(l, ly)
           names == Buffers(config, pass, l)
<1>1. ly.fwd \in Seq(Tensors)  BY DEF Good, Typed
<1>2. G \in Seq(Tensors) /\ Len(G) = Count /\ Count \in Nat
  BY <1>1, DeduplicatedAre, GroupCount, CountFinite
<1>3. /\ Len(C) = 2 * Len(G)
      /\ \A n \in 1..Len(G) :
           /\ C[2 * n - 1] = Wait("main", G[n].ready)
           /\ C[2 * n] = [op |-> "offload", block |-> G[n].block, buffer |-> Buffer(l, n)]
  BY <1>1, OffloadOpsAre
<1>4. \A n \in 1..Count : names[n] = Buffer(l, n)  BY DEF Buffers, Buffer
<1> HIDE DEF G, C, names
<1>5. ASSUME NEW n \in 1..Count
      PROVE  /\ C[2 * n - 1].op = "wait" /\ C[2 * n - 1].at = G[n].ready
             /\ C[2 * n].op = "offload" /\ C[2 * n].block = G[n].block /\ C[2 * n].buffer = names[n]
             /\ C[2 * n].buffer.layer = l
  <2>1. C[2 * n - 1] = Wait("main", G[n].ready)  BY <1>2, <1>3
  <2>2. C[2 * n] = [op |-> "offload", block |-> G[n].block, buffer |-> Buffer(l, n)]  BY <1>2, <1>3
  <2>3. Buffer(l, n).layer = l  BY DEF Buffer
  <2> QED  BY <1>4, <2>1, <2>2, <2>3 DEF Wait
<1>6. OffloadsAre(C, G, names)  BY <1>2, <1>3, <1>5 DEF OffloadsAre
<1>7. \A n, m \in 1..Count : names[n] = names[m] => n = m
  <2>1. ASSUME NEW n \in 1..Count  PROVE names[n].at = n
    <3>1. Buffer(l, n).at = n  BY DEF Buffer
    <3> QED  BY <1>4, <3>1
  <2> QED  BY <2>1
<1>8. ASSUME NEW i \in 1..Len(C)
      PROVE  C[i].op \in {"wait", "offload"} /\ (C[i].op = "offload" => C[i].buffer.layer = l)
  <2>1. PICK n \in 1..Count : i = 2 * n - 1 \/ i = 2 * n
    <3>1. i \in 1..2 * Count  BY <1>2, <1>3
    <3> QED  BY <1>2, <3>1, Halves
  <2>2. C[2 * n - 1].op = "wait" /\ C[2 * n].op = "offload" /\ C[2 * n].buffer.layer = l  BY <1>5
  <2> QED  BY <2>1, <2>2
<1> QED  BY <1>6, <1>7, <1>8 DEF G, C, names

\* Each member of the deduplicated group is named by some tensor.
LEMMA IdsNamed ==
  ASSUME NEW group \in Seq(Tensors), NEW n \in 1..Len(Deduplicated(group))
  PROVE  \E i \in 1..Len(group) : OriginalIds(group)[i] = n
<1> DEFINE G == Deduplicated(group)
           ids == OriginalIds(group)
           i == FirstOnes(group)[n]
<1>1. i \in 1..Len(group) /\ G[n] = group[i]  BY DeduplicatedAre
<1>2. ids \in Seq(1..Len(G)) /\ Len(ids) = Len(group) /\ G[ids[i]].block = group[i].block
  BY <1>1, DeduplicatedAre
<1>3. ids[i] \in 1..Len(G)
  <2> DEFINE S == 1..Len(G)
  <2>1. ids \in Seq(S) /\ i \in 1..Len(ids)  BY <1>1, <1>2
  <2> HIDE DEF S, ids, i
  <2>2. ids[i] \in S  BY <2>1
  <2> QED  BY <2>2 DEF S
<1>4. \A a, b \in 1..Len(G) : G[a].block = G[b].block => a = b  BY DeduplicatedAre
<1>5. ids[i] = n
  <2> HIDE DEF G, ids, i
  <2>1. n \in 1..Len(G)  BY DEF G
  <2> QED  BY <1>1, <1>2, <1>3, <1>4, <2>1
<1> QED  BY <1>1, <1>5

LEMMA OffloadRight ==
  ASSUME NEW X, NEW Y, NEW l, NEW ly, More(X, Y, <<>>, OffloadOps(l, ly)),
         NEW sv, Good(config, pass, l, ly, sv), Covered(ly, sv),
         ly.state = "not_offloaded", ~Direct(config, l), Len(sv) = N,
         Now("copy", queue) = Stop(X, "copy"), LayerRight(X, pass, l, ly, sv)
  PROVE  /\ Grows(X, Y, {}) /\ AllNamed(StartOffload(l, ly, queue))
         /\ LayerRight(Y, pass, l, StartOffload(l, ly, queue), sv)
<1> DEFINE G == Deduplicated(ly.fwd)
           C == OffloadOps(l, ly)
           names == Buffers(config, pass, l)
           ids == OriginalIds(ly.fwd)
           z == StartOffload(l, ly, queue)
<1>1. ly.fwd \in Seq(Tensors) /\ sv \in Seq(Items)  BY DEF Good, Typed, SavedAre
<1>2. /\ OffloadsAre(C, G, names) /\ \A n, m \in 1..Count : names[n] = names[m] => n = m
      /\ \A i \in 1..Len(C) : C[i].op \in {"wait", "offload"}
  BY OffloadOpsIn
<1>3. Stop(X, "copy") \in Nat /\ Count \in Nat
  <2>1. "copy" \in Streams /\ QueuesTyped(X.q, X.d)  BY DEF More, Streams
  <2> QED  BY <2>1, Positions, CountFinite
<1>4. /\ z.state = "offload_started" /\ z.fwd = G /\ z.aux = ids /\ z.cpu = names
      /\ z.finished = Stop(X, "copy") + 2 * Count
  BY <1>3, StartOffloadGood
<1>5. Len(G) = Count /\ \A i \in 1..Len(ly.fwd) : G[ids[i]].block = ly.fwd[i].block
  BY <1>1, GroupCount, DeduplicatedAre
<1>6. ids \in Seq(1..Count) /\ Len(ids) = Len(ly.fwd)  BY <1>1, <1>5, DeduplicatedAre
<1>7. \A n \in 1..Count : FirstOnes(ly.fwd)[n] \in 1..Len(ly.fwd) /\ G[n] = ly.fwd[FirstOnes(ly.fwd)[n]]
  BY <1>1, <1>5, DeduplicatedAre
<1>8. AllNamed(z)
  <2>1. \A n \in 1..Count : \E i \in 1..Len(ly.fwd) : ids[i] = n  BY <1>1, <1>5, IdsNamed
  <2>2. DOMAIN ids = 1..Len(ly.fwd)  BY <1>6
  <2> HIDE DEF z, ids
  <2> QED  BY <1>4, <2>1, <2>2 DEF AllNamed
<1> HIDE DEF G, C, names, ids, z
<1>9. More(X, Y, <<>>, C)  BY DEF C
<1>10. Grows(X, Y, {})
  <2>1. \A i \in 1..Len(<<>>) : <<>>[i].op = "compute" => <<>>[i].block \in {}  OBVIOUS
  <2>2. \A i \in 1..Len(C) : C[i].op # "reload"  BY <1>2
  <2>3. AfterMain(C, Stop(X, "main"))  BY <2>2 DEF AfterMain
  <2> QED  BY <1>9, <2>1, <2>2, <2>3, MoreGrows
<1>11. ASSUME NEW j \in 1..Len(sv)  PROVE SavedRight(Y, z, sv[j], Value(pass, l, Saves[j]))
  <2> DEFINE v == Value(pass, l, Saves[j])
             item == sv[j]
  <2>1. SavedRight(X, ly, item, v) /\ ItemIn(ly, item)  BY ItemsIn DEF LayerRight
  <2>2. SavedRight(Y, ly, item, v)
    <3> HIDE DEF v, item
    <3> QED  BY <1>10, <2>1, SavedGrows
  <2>3. CASE item.kind = "tensor"
    <3> HIDE DEF v, item
    <3>1. SavedRight(Y, z, item, v)  BY <2>2, <2>3 DEF SavedRight
    <3> QED  BY <3>1 DEF item, v
  <2>4. CASE item.kind = "index"
    <3> DEFINE i == item.at
               n == ids[i]
    <3>1. i \in Group(ly) /\ Group(ly) = 1..Len(ly.fwd)  BY <1>1, <2>4 DEF Good, SavedAre, Group
    <3>2. n \in 1..Count /\ G[n].block = ly.fwd[i].block
      <4> DEFINE S == 1..Count
      <4>1. ids \in Seq(S) /\ i \in 1..Len(ids)  BY <1>6, <3>1
      <4> HIDE DEF S
      <4>2. ids[i] \in S  BY <4>1
      <4> QED  BY <1>5, <3>1, <4>2 DEF S
    <3> DEFINE i0 == FirstOnes(ly.fwd)[n]
    <3>3. i0 \in Group(ly) /\ G[n] = ly.fwd[i0]  BY <1>7, <3>1, <3>2
    <3>4. PICK j0 \in 1..Len(sv) : sv[j0].kind = "index" /\ sv[j0].at = i0  BY <3>3 DEF Covered
    <3>5. Saves[j0] = Saves[j]
      <4>1. OneBlockEach(ly, sv) /\ ly.state = "not_offloaded"  BY DEF Good
      <4>2. ly.fwd[sv[j0].at].block = ly.fwd[sv[j].at].block /\ sv[j].kind = "index"
        BY <2>4, <3>2, <3>3, <3>4
      <4> HIDE DEF item, i0, n, i
      <4> QED  BY <3>4, <4>1, <4>2 DEF OneBlockEach
    <3>6. SavedRight(X, ly, sv[j0], Value(pass, l, Saves[j0]))  BY DEF LayerRight
    <3>7. OnMain(X, G[n].block, G[n].ready, v)
      <4>1. OnMain(X, ly.fwd[i0].block, ly.fwd[i0].ready, Value(pass, l, Saves[j0]))
        BY <3>4, <3>6 DEF SavedRight
      <4> QED  BY <3>3, <3>5, <4>1
    <3> HIDE DEF v, n
    <3>8. Gives(Y, names[n], Stop(Y, "copy") + 1, v, GroupBlocks(G), Stop(X, "copy") + 2 * Count)
      BY <1>2, <1>9, <1>10, <3>2, <3>7, OffloadGives
    <3>9. Gives(Y, z.cpu[z.aux[item.at]], Stop(Y, "copy") + 1, v, GroupBlocks(z.fwd), z.finished)
      BY <1>4, <3>8 DEF n
    <3> QED  BY <1>4, <2>4, <3>9 DEF SavedRight, v
  <2> QED  BY <2>3, <2>4, ItemKinds DEF v
<1> QED  BY <1>8, <1>10, <1>11 DEF LayerRight, z

\* release_activation_forward_gpu_memory: the main stream waits for all copies, so that
\* no later kernel can overwrite what they read.
LEMMA ReleaseRight ==
  ASSUME NEW X, NEW Y, NEW ly, More(X, Y, ReleaseOps(ly), <<>>),
         NEW c, NEW p, NEW l, NEW sv, Good(c, p, l, ly, sv), ly.state = "offload_started",
         LayerRight(X, p, l, ly, sv)
  PROVE  /\ Grows(X, Y, {}) /\ LayerRight(Y, p, l, ReleaseForward(ly), sv)
         /\ ReleaseForward(ly).aux = ly.aux /\ ReleaseForward(ly).state = "offload_finished"
<1> DEFINE M == ReleaseOps(ly)
           z == ReleaseForward(ly)
           e == ly.finished
<1>1. e \in Nat /\ "main" \in Streams /\ "copy" \in Streams /\ ly.fwd \in Seq(Tensors)
  BY DEF Good, Typed, Streams
<1>2. z.state = "offload_finished" /\ z.cpu = ly.cpu /\ z.aux = ly.aux
  <2> DEFINE A == Seq(Tensors)
             B == {<<>>, Buffers(c, p, l)}
             E == Seq(1..Count)
  <2>1. ly \in [state : States, fwd : A, cpu : B, bwd : A, aux : E, finished : Nat]
    BY DEF Good, Typed
  <2>2. z = [ly EXCEPT !.state = "offload_finished", !.fwd = <<>>]  BY DEF ReleaseForward
  <2> HIDE DEF A, B, E, z
  <2> QED  BY <2>1, <2>2
<1>3. /\ \A i \in 1..Len(M) : M[i].op = "wait"
      /\ ly.fwd # <<>> => Len(M) = 1 /\ M[1].op = "wait" /\ M[1].at = e
  <2>1. CASE ly.fwd = <<>>
    <3>1. M = <<>>  BY <2>1 DEF ReleaseOps
    <3> QED  BY <2>1, <3>1
  <2>2. CASE ly.fwd # <<>>
    <3>1. M = <<Wait("copy", e)>>  BY <2>2 DEF ReleaseOps
    <3>2. Wait("copy", e).op = "wait" /\ Wait("copy", e).at = e  BY DEF Wait
    <3> HIDE DEF M, e
    <3> QED  BY <3>1, <3>2
  <2> QED  BY <2>1, <2>2
<1>4. More(X, Y, M, <<>>)  OBVIOUS
<1> HIDE DEF M, z
<1>5. Grows(X, Y, {})
  <2>1. AfterMain(<<>>, Stop(X, "main"))  BY DEF AfterMain
  <2>2. \A i \in 1..Len(<<>>) : <<>>[i].op = "reload" => <<>>[i].block \in {}  OBVIOUS
  <2>3. \A i \in 1..Len(M) : M[i].op # "compute"  BY <1>3
  <2> QED  BY <1>4, <2>1, <2>2, <2>3, MoreGrows
<1>6. LayerRight(Y, p, l, ly, sv)
  <2>1. \A i \in 1..Len(<<>>) : <<>>[i].op = "offload" => \A n \in 1..Count : <<>>[i].buffer # ly.cpu[n]
    OBVIOUS
  <2>2. NoFills(X, Y, ly)  BY <1>4, <2>1, NoFillsMore
  <2> QED  BY <1>5, <2>2, LayerGrows
<1>7. ASSUME ly.fwd # <<>>, NEW o \in Nat, o <= e  PROVE Waited(Y, o)
  <2> DEFINE w == Stop(X, "main") + 1
  <2>1. /\ Stop(X, "main") \in Nat /\ Stop(Y, "main") = w /\ w \in Pend(Y, "main")
        /\ OpAt(Y, "main", w) = M[1]
    <3> DEFINE C == <<>>
    <3>1. Len(M) = 1 /\ 1 \in 1..1  BY <1>3, <1>7
    <3>2. More(X, Y, M, C)  BY <1>4
    <3> HIDE DEF C
    <3>3. New(M, C, "main") = M  BY DEF New
    <3>4. /\ Stop(X, "main") \in Nat /\ Stop(Y, "main") = Stop(X, "main") + Len(M)
          /\ \A i \in 1..Len(M) : /\ Stop(X, "main") + i \in Pend(Y, "main")
                                  /\ OpAt(Y, "main", Stop(X, "main") + i) = M[i]
      BY <1>1, <3>2, <3>3, MoreIs
    <3> QED  BY <3>1, <3>4
  <2>2. w < Stop(Y, "main") + 1  BY <2>1
  <2> HIDE DEF w
  <2> QED  BY <1>1, <1>3, <1>7, <2>1, <2>2 DEF Waited, Waits
<1>8. ASSUME NEW f, NEW y, NEW v, Gives(Y, f, y, v, GroupBlocks(ly.fwd), e)
      PROVE  Gives(Y, f, y, v, {}, 0)
  <2>1. ASSUME NEW o \in Fills(Y, f), OpAt(Y, "copy", o).block \in GroupBlocks(ly.fwd), o <= e
        PROVE  Waited(Y, o)
    <3>1. ly.fwd # <<>>  BY <2>1 DEF GroupBlocks
    <3>2. o \in Nat  BY <1>4, WritesAre DEF More
    <3> QED  BY <1>7, <2>1, <3>1, <3>2
  <2> QED  BY <1>8, <2>1 DEF Gives
<1>9. ASSUME NEW j \in 1..Len(sv)  PROVE SavedRight(Y, z, sv[j], Value(p, l, Saves[j]))
  <2> DEFINE v == Value(p, l, Saves[j])
             item == sv[j]
  <2>1. SavedRight(Y, ly, item, v)  BY <1>6 DEF LayerRight
  <2> HIDE DEF v, item
  <2>2. item.kind = "index" =>
          Gives(Y, ly.cpu[ly.aux[item.at]], Stop(Y, "copy") + 1, v, GroupBlocks(ly.fwd), e)
    BY <2>1 DEF SavedRight
  <2>3. item.kind = "index" => Gives(Y, z.cpu[z.aux[item.at]], Stop(Y, "copy") + 1, v, {}, 0)
    BY <1>2, <1>8, <2>2
  <2>4. SavedRight(Y, z, item, v)  BY <1>2, <2>1, <2>3 DEF SavedRight
  <2> QED  BY <2>4 DEF v, item
<1> QED  BY <1>2, <1>5, <1>9 DEF LayerRight, z

\* The operations of start_reload: operation 2n of the copy stream reads buffer n, and
\* comes after all that is on the main stream.
ReloadsAre(C, blocks, names, e) ==
  /\ Len(C) = 2 * Count
  /\ \A n \in 1..Count :
       /\ C[2 * n - 1].op = "wait" /\ C[2 * n - 1].at = e
       /\ C[2 * n].op = "reload" /\ C[2 * n].block = blocks[n] /\ C[2 * n].buffer = names[n]

LEMMA ReloadOpsIn ==
  ASSUME NEW c, NEW p, NEW l, NEW ly, ly.cpu = Buffers(c, p, l), NEW blocks
  PROVE  /\ ReloadsAre(ReloadOps(ly, blocks, queue), blocks, ly.cpu, Now("main", queue))
         /\ \E A : ReloadOps(ly, blocks, queue) \in Seq(A)
<1> DEFINE m == Count
           e == Now("main", queue)
           w == [n \in DOMAIN ly.cpu |-> Wait("main", e)]
           x == [n \in DOMAIN ly.cpu |-> [op |-> "reload", block |-> blocks[n], buffer |-> ly.cpu[n]]]
           C == ReloadOps(ly, blocks, queue)
           A == {w[n] : n \in DOMAIN ly.cpu} \cup {x[n] : n \in DOMAIN ly.cpu}
<1>1. m \in Nat /\ DOMAIN ly.cpu = 1..m
  <2>1. m \in Nat  BY CountFinite
  <2>2. DOMAIN ly.cpu = 1..m  BY DEF Buffers
  <2> QED  BY <2>1, <2>2
<1>2. C = InTurn(w, x)  BY DEF ReloadOps
<1>3. \A n \in 1..m : /\ w[n] = Wait("main", e) /\ w[n] \in A /\ x[n] \in A
                      /\ x[n] = [op |-> "reload", block |-> blocks[n], buffer |-> ly.cpu[n]]
  BY <1>1
<1>4. DOMAIN w = 1..m /\ DOMAIN x = 1..m /\ w = [n \in 1..m |-> w[n]] /\ x = [n \in 1..m |-> x[n]]
  BY <1>1
<1> HIDE DEF A, w, x, m, e, C
<1>5. w \in Seq(A) /\ x \in Seq(A) /\ Len(w) = m /\ Len(x) = m
  <2>1. w \in [1..m -> A] /\ x \in [1..m -> A]  BY <1>3, <1>4
  <2> QED  BY <1>1, <1>4, <2>1
<1>6. /\ C \in Seq(A) /\ Len(C) = 2 * m
      /\ \A n \in 1..m : C[2 * n - 1] = w[n] /\ C[2 * n] = x[n]
  <2>1. Len(w) = Len(x)  BY <1>5
  <2>2. /\ InTurn(w, x) \in Seq(A) /\ Len(InTurn(w, x)) = 2 * Len(x)
        /\ \A n \in 1..Len(x) : InTurn(w, x)[2 * n - 1] = w[n] /\ InTurn(w, x)[2 * n] = x[n]
    BY <1>5, <2>1, InTurnIs
  <2> QED  BY <1>2, <1>5, <2>2
<1>7. ASSUME NEW n \in 1..m
      PROVE  /\ C[2 * n - 1].op = "wait" /\ C[2 * n - 1].at = e
             /\ C[2 * n].op = "reload" /\ C[2 * n].block = blocks[n] /\ C[2 * n].buffer = ly.cpu[n]
  <2>1. C[2 * n - 1] = Wait("main", e)  BY <1>3, <1>6
  <2>2. C[2 * n] = [op |-> "reload", block |-> blocks[n], buffer |-> ly.cpu[n]]  BY <1>3, <1>6
  <2> QED  BY <2>1, <2>2 DEF Wait
<1> QED  BY <1>6, <1>7 DEF ReloadsAre, C, m, e

\* Operation i is a wait or the reload of block j.
TurnOf(C, blocks, i, j) ==
  \/ i = 2 * j - 1 /\ C[i].op = "wait"
  \/ i = 2 * j /\ C[i].op = "reload" /\ C[i].block = blocks[j]

\* The blocks that are reloaded into.
Targets(blocks) == {blocks[i] : i \in 1..Count}

\* The blocks reloaded into are the only ones that are written.
LEMMA ReloadGrows ==
  ASSUME NEW X, NEW Y, NEW C, More(X, Y, <<>>, C), NEW blocks, NEW names,
         ReloadsAre(C, blocks, names, Stop(X, "main"))
  PROVE  /\ Grows(X, Y, Targets(blocks))
         /\ \A i \in 1..2 * Count :
              \E j \in 1..Count : TurnOf(C, blocks, i, j)
<1> DEFINE m == Stop(X, "main")
           F == Targets(blocks)
<1>1. "main" \in Streams  BY DEF Streams
<1>2. Count \in Nat  BY CountFinite
<1>3. QueuesTyped(Y.q, Y.d) /\ QueuesTyped(X.q, X.d)  BY DEF More
<1>9. m \in Nat  BY <1>1, <1>3, Positions
<1>10. ASSUME NEW i \in 1..2 * Count
       PROVE  \E j \in 1..Count : TurnOf(C, blocks, i, j)
  <2>1. PICK j \in 1..Count : i = 2 * j - 1 \/ i = 2 * j  BY <1>2, Halves
  <2>2. C[2 * j - 1].op = "wait" /\ C[2 * j].op = "reload" /\ C[2 * j].block = blocks[j]
    BY DEF ReloadsAre
  <2> QED  BY <2>1, <2>2 DEF TurnOf
<1>11. Grows(X, Y, F)
  <2>1. \A i \in 1..Len(<<>>) : <<>>[i].op = "compute" => <<>>[i].block \in F  OBVIOUS
  <2>2. Len(C) = 2 * Count  BY DEF ReloadsAre
  <2>3. \A i \in 1..Len(C) : C[i].op = "reload" => C[i].block \in F
    BY <1>10, <2>2 DEF TurnOf, Targets
  <2>4. AfterMain(C, m)
    <3>1. ASSUME NEW i \in 1..Len(C), C[i].op = "reload"
          PROVE  \E h \in 1..Len(C) : h < i /\ C[h].op = "wait" /\ C[h].at >= m
      <4>1. PICK j \in 1..Count : i = 2 * j  BY <1>10, <2>2, <3>1 DEF TurnOf
      <4>2. C[2 * j - 1].op = "wait" /\ C[2 * j - 1].at = m  BY DEF ReloadsAre
      <4>3. 2 * j - 1 \in 1..Len(C) /\ 2 * j - 1 < i  BY <1>2, <2>2, <4>1
      <4>4. C[2 * j - 1].at >= m  BY <1>9, <4>2
      <4> QED  BY <4>2, <4>3, <4>4
    <3> QED  BY <3>1 DEF AfterMain
  <2> HIDE DEF F
  <2> QED  BY <2>1, <2>3, <2>4, MoreGrows
<1> QED  BY <1>10, <1>11 DEF F

\* What is reloaded is what was offloaded.
LEMMA ReloadHolds ==
  ASSUME NEW X, NEW Y, NEW C, More(X, Y, <<>>, C), NEW blocks, NEW names,
         ReloadsAre(C, blocks, names, Stop(X, "main")),
         \A n \in 1..Count : blocks[n] \in Blocks,
         \A n, m \in 1..Count : blocks[n] = blocks[m] => n = m,
         NEW n \in 1..Count, NEW v, Gives(X, names[n], Stop(X, "copy") + 1, v, {}, 0)
  PROVE  /\ Grows(X, Y, Targets(blocks))
         /\ OnCopy(Y, blocks[n], Stop(X, "copy") + 2 * n, v)
<1> DEFINE e == Stop(X, "copy")
           m == Stop(X, "main")
           o == e + 2 * n
           w == e + (2 * n - 1)
           b == blocks[n]
           f == names[n]
           F == Targets(blocks)
<1>1. "main" \in Streams /\ "copy" \in Streams /\ "main" # "copy"  BY DEF Streams
<1>2. Count \in Nat /\ n \in Nat /\ 1 <= n /\ n <= Count  BY CountFinite
<1>3. QueuesTyped(Y.q, Y.d) /\ QueuesTyped(X.q, X.d)  BY DEF More
<1>4. /\ e \in Nat /\ Stop(Y, "copy") = e + 2 * Count
      /\ \A i \in 1..2 * Count : e + i \in Pend(Y, "copy") /\ OpAt(Y, "copy", e + i) = C[i]
      /\ \A p \in Pend(Y, "copy") : p \in Pend(X, "copy") \/ p > e
      /\ \A p \in Pend(Y, "copy") : p > e => p - e \in 1..2 * Count /\ OpAt(Y, "copy", p) = C[p - e]
  <2>1. New(<<>>, C, "copy") = C /\ Len(C) = 2 * Count  BY DEF New, ReloadsAre
  <2> QED  BY <1>1, <2>1, MoreIs
<1>5. 2 * n \in 1..2 * Count /\ 2 * n - 1 \in 1..2 * Count  BY <1>2
<1>6. /\ o \in Pend(Y, "copy") /\ OpAt(Y, "copy", o) = C[2 * n]
      /\ w \in Pend(Y, "copy") /\ OpAt(Y, "copy", w) = C[2 * n - 1]
  BY <1>4, <1>5
<1>7. o \in Nat /\ w < o /\ o <= e + 2 * Count /\ e < o /\ o >= e + 1 /\ e + 1 \in Nat /\ e + 1 > e
  BY <1>2, <1>4
<1>8. /\ C[2 * n - 1].op = "wait" /\ C[2 * n - 1].at = m
      /\ C[2 * n].op = "reload" /\ C[2 * n].block = b /\ C[2 * n].buffer = f
  BY DEF ReloadsAre
<1>9. m \in Nat /\ b \in Blocks  BY <1>1, <1>3, Positions
<1>10. /\ Grows(X, Y, F)
       /\ \A i \in 1..2 * Count :
              \E j \in 1..Count : TurnOf(C, blocks, i, j)
  BY ReloadGrows
<1>11. Grows(X, Y, F)  BY <1>10
<1> HIDE DEF o, w, e, b, f, m, F
<1>12. o \in Writes(Y, b, "copy")  BY <1>6, <1>8 DEF Writes
<1>13. ASSUME NEW x \in Writes(Y, b, "copy"), x # o  PROVE Before(Y, "copy", x, "copy", o)
  <2>1. x \in Pend(Y, "copy") /\ OpAt(Y, "copy", x).op = "reload" /\ OpAt(Y, "copy", x).block = b /\ x \in Nat
    BY <1>1, <1>3, WritesAre
  <2>2. CASE x \in Pend(X, "copy")
    <3>1. x \in Nat /\ x <= e  BY <1>1, <1>3, <2>2, Positions DEF e
    <3>2. x < o  BY <1>4, <1>7, <3>1
    <3> QED  BY <3>2 DEF Before
  <2>3. CASE x > e
    <3> DEFINE i == x - e
    <3>1. i \in 1..2 * Count /\ OpAt(Y, "copy", x) = C[i] /\ x = e + i  BY <1>4, <2>1, <2>3
    <3> HIDE DEF i
    <3>2. PICK j \in 1..Count : i = 2 * j /\ C[i].block = blocks[j]  BY <1>10, <2>1, <3>1 DEF TurnOf
    <3>3. j = n  BY <2>1, <3>1, <3>2 DEF b
    <3> QED  BY <1>13, <3>1, <3>2, <3>3 DEF o
  <2> QED  BY <1>4, <2>1, <2>2, <2>3
<1>14. ASSUME NEW x \in Writes(Y, b, "main")  PROVE Before(Y, "main", x, "copy", o)
  <2>1. x \in Nat /\ x <= m
    <3>1. x \in Nat /\ x <= Stop(Y, "main")  BY <1>1, <1>3, WritesAre
    <3>2. Stop(Y, "main") = m
      <4>1. New(<<>>, C, "main") = <<>> /\ Len(<<>>) = 0  BY DEF New
      <4>2. Stop(Y, "main") = m + 0  BY <1>1, <4>1, MoreIs DEF m
      <4> QED  BY <1>9, <4>2
    <3> QED  BY <3>1, <3>2
  <2>2. OpAt(Y, "copy", w).op = "wait" /\ OpAt(Y, "copy", w).at >= x  BY <1>6, <1>8, <1>9, <2>1
  <2> QED  BY <1>1, <1>6, <1>7, <2>2 DEF Before, Waits
<1>15. FinalWrite(Y, b, "copy", o)  BY <1>13, <1>14 DEF FinalWrite, Streams
<1>16. Gives(Y, OpAt(Y, "copy", o).buffer, o, v, {}, 0)
  <2>1. \A i \in 1..Len(C) : C[i].op # "offload"
    <3>1. Len(C) = 2 * Count  BY DEF ReloadsAre
    <3> QED  BY <1>10, <3>1 DEF TurnOf
  <2>2. Fills(Y, f) \subseteq Fills(X, f)
    <3> DEFINE ly == [cpu |-> [i \in 1..Count |-> f]]
    <3>1. ly.cpu[n] = f  OBVIOUS
    <3> HIDE DEF ly
    <3>2. NoFills(X, Y, ly)  BY <2>1, NoFillsMore
    <3> QED  BY <3>1, <3>2 DEF NoFills
  <2>3. Gives(X, f, e + 1, v, {}, 0)  BY DEF f, e
  <2>4. Gives(Y, f, o, v, {}, 0)
    <3>1. \A x \in {} : x \notin F  OBVIOUS
    <3>2. e + 1 > Stop(X, "copy")  BY <1>7 DEF e
    <3> QED  BY <1>7, <1>11, <2>2, <2>3, <3>1, <3>2, GrowsGives
  <2> QED  BY <1>6, <1>8, <2>4
<1>17. o <= o  BY <1>7
<1>18. OnCopy(Y, b, o, v)  BY <1>12, <1>15, <1>16, <1>17 DEF OnCopy
<1> QED  BY <1>11, <1>18 DEF b, o, e, F

LEMMA ReloadRight ==
  ASSUME NEW X, NEW Y, NEW ly, NEW blocks, More(X, Y, <<>>, ReloadOps(ly, blocks, queue)),
         NEW c, NEW p, NEW l, NEW sv, Good(c, p, l, ly, sv), Covered(ly, sv),
         ly.state = "offload_finished", AllNamed(ly), LayerRight(X, p, l, ly, sv),
         Now("copy", queue) = Stop(X, "copy"), Now("main", queue) = Stop(X, "main"),
         \A n \in 1..Count : blocks[n] \in Blocks,
         \A n, m \in 1..Count : blocks[n] = blocks[m] => n = m,
         \A n \in 1..Count : blocks[n] \notin Held(ly, sv)
  PROVE  /\ Grows(X, Y, Targets(blocks))
         /\ AllNamed(StartReload(ly, blocks, queue))
         /\ LayerRight(Y, p, l, StartReload(ly, blocks, queue), sv)
         /\ \A r \in Pend(Y, "copy") : r > Stop(X, "copy") /\ OpAt(Y, "copy", r).op = "reload" =>
              Keeps(Y, StartReload(ly, blocks, queue), sv, 1, r)
<1> DEFINE e == Stop(X, "copy")
           m == Stop(X, "main")
           C == ReloadOps(ly, blocks, queue)
           names == ly.cpu
           aux == ly.aux
           F == Targets(blocks)
           z == StartReload(ly, blocks, queue)
           bwd == [i \in DOMAIN aux |-> [block |-> blocks[aux[i]], ready |-> e + 2 * aux[i]]]
<1>1. "main" \in Streams /\ "copy" \in Streams  BY DEF Streams
<1>2. /\ Typed(c, p, l, ly) /\ ly.fwd = <<>> /\ ly.bwd = <<>> /\ ly.cpu = Buffers(c, p, l)
      /\ ly.aux \in Seq(1..Count) /\ sv \in Seq(Items)
  BY DEF Good, Typed, Shape, SavedAre
<1>3. ReloadsAre(C, blocks, names, m)  BY <1>2, ReloadOpsIn
<1>4. z.state = "reload_started" /\ z.aux = aux /\ z.bwd = bwd
  <2> DEFINE zz == [state |-> "reload_started", fwd |-> ly.fwd, cpu |-> ly.cpu,
            bwd |-> [i \in DOMAIN ly.aux |->
                       [block |-> blocks[ly.aux[i]], ready |-> Now("copy", queue) + 2 * ly.aux[i]]],
            aux |-> ly.aux, finished |-> ly.finished]
  <2>1. z = zz  BY <1>2, StartReloadIs
  <2>2. zz.state = "reload_started" /\ zz.aux = aux /\ zz.bwd = bwd  OBVIOUS
  <2> HIDE DEF z, zz, bwd, aux
  <2> QED  BY <2>1, <2>2
<1>5. \A i \in DOMAIN aux : /\ aux[i] \in 1..Count /\ bwd[i].block = blocks[aux[i]]
                            /\ bwd[i].ready = e + 2 * aux[i]
  <2> DEFINE S == 1..Count
  <2>1. ly.aux \in Seq(S)  BY <1>2
  <2> HIDE DEF S
  <2>2. \A i \in DOMAIN ly.aux : ly.aux[i] \in S  BY <2>1
  <2> QED  BY <2>2 DEF S
<1>6. More(X, Y, <<>>, C)  OBVIOUS
<1> HIDE DEF C, z, bwd, aux, names
<1>7. /\ Grows(X, Y, F)
      /\ \A i \in 1..2 * Count :
           \E j \in 1..Count : TurnOf(C, blocks, i, j)
  <2>1. Grows(X, Y, F)  BY <1>3, <1>6, ReloadGrows
  <2>2. \A i \in 1..2 * Count : \E j \in 1..Count : TurnOf(C, blocks, i, j)
    BY <1>3, <1>6, ReloadGrows
  <2> QED  BY <2>1, <2>2
<1>8. AllNamed(z)  BY <1>4 DEF AllNamed, aux
<1>9. ASSUME NEW j \in 1..Len(sv)  PROVE SavedRight(Y, z, sv[j], Value(p, l, Saves[j]))
  <2> DEFINE v == Value(p, l, Saves[j])
             item == sv[j]
  <2>1. SavedRight(X, ly, item, v) /\ ItemIn(ly, item)  BY ItemsIn DEF LayerRight
  <2>2. CASE item.kind = "tensor"
    <3>1. item.at \notin F
      <4>1. item.at \in Held(ly, sv)  BY <2>2, HeldIs
      <4> QED  BY <4>1 DEF Targets
    <3> HIDE DEF v, item, F
    <3>2. OnMain(X, item.at, m, v)  BY <2>1, <2>2 DEF SavedRight
    <3>3. OnMain(Y, item.at, m, v)  BY <1>7, <3>1, <3>2, GrowsHolds
    <3>4. m \in Nat /\ Stop(Y, "main") \in Nat /\ m <= Stop(Y, "main")
      BY <1>1, <1>7, GrowsOld DEF F
    <3>41. QueuesTyped(Y.q, Y.d)  BY <1>6 DEF More
    <3>5. OnMain(Y, item.at, Stop(Y, "main"), v)  BY <3>3, <3>4, <3>41, OnMainLater
    <3>6. SavedRight(Y, z, item, v)  BY <2>2, <3>5 DEF SavedRight
    <3> QED  BY <3>6 DEF v, item
  <2>3. CASE item.kind = "index"
    <3> DEFINE n == aux[item.at]
    <3>1. item.at \in DOMAIN aux /\ n \in 1..Count  BY <2>1, <2>3 DEF ItemIn, aux
    <3>2. Gives(X, names[n], e + 1, v, {}, 0)  BY <2>1, <2>3 DEF SavedRight, names, aux
    <3> HIDE DEF v, n, F, e, m
    <3>3. OnCopy(Y, blocks[n], e + 2 * n, v)  BY <1>3, <1>6, <3>1, <3>2, ReloadHolds DEF e, m
    <3>4. z.bwd[item.at].block = blocks[n] /\ z.bwd[item.at].ready = e + 2 * n
      BY <1>4, <1>5, <3>1 DEF n
    <3>5. SavedRight(Y, z, item, v)
      <4>1. OnCopy(Y, z.bwd[item.at].block, z.bwd[item.at].ready, v)  BY <3>3, <3>4
      <4> HIDE DEF item
      <4> QED  BY <1>4, <2>3, <4>1 DEF SavedRight
    <3> QED  BY <3>5 DEF v
  <2> QED  BY <2>2, <2>3, ItemKinds
<1>10. ASSUME NEW r \in Pend(Y, "copy"), r > e, OpAt(Y, "copy", r).op = "reload"
       PROVE  Keeps(Y, z, sv, 1, r)
  <2> DEFINE i == r - e
  <2>1. r \in Nat /\ e \in Nat
    <3>1. QueuesTyped(Y.q, Y.d) /\ QueuesTyped(X.q, X.d)  BY DEF More
    <3> QED  BY <1>1, <3>1, Positions
  <2>2. i \in 1..2 * Count /\ OpAt(Y, "copy", r) = C[i]
    <3>1. New(<<>>, C, "copy") = C /\ Len(C) = 2 * Count  BY <1>3 DEF New, ReloadsAre
    <3> QED  BY <1>1, <1>6, <1>10, <3>1, MoreIs
  <2>3. r = e + i  BY <2>1
  <2> HIDE DEF i
  <2>4. PICK n \in 1..Count : i = 2 * n /\ C[i].block = blocks[n]  BY <1>7, <1>10, <2>2 DEF TurnOf
  <2>5. PICK x \in DOMAIN aux : aux[x] = n  BY DEF AllNamed, aux
  <2>6. PICK j \in 1..Len(sv) : sv[j].kind = "index" /\ sv[j].at = x
    <3>1. x \in Group(ly)  BY <2>5 DEF Group, aux
    <3> QED  BY <3>1 DEF Covered
  <2>7. z.bwd[sv[j].at].block = blocks[n] /\ z.bwd[sv[j].at].ready = r
    BY <1>4, <1>5, <2>3, <2>4, <2>5, <2>6
  <2>8. r >= r  BY <2>1
  <2> QED  BY <1>4, <2>2, <2>4, <2>6, <2>7, <2>8 DEF Keeps
<1> QED  BY <1>7, <1>8, <1>9, <1>10 DEF LayerRight, z

-----------------------------------------------------------------------------
(* The steps of the host                                                     *)

\* Operations put on one stream.
LEMMA PutsMore ==
  ASSUME NEW X, NEW Y, NEW ops, QueuesTyped(X.q, X.d), QueuesTyped(Y.q, Y.d),
         Y.d = X.d, Y.g = X.g, Y.p = X.p, \E A : ops \in Seq(A)
  PROVE  /\ Y.q = Put(X.q, "main", ops) => More(X, Y, ops, <<>>)
         /\ Y.q = Put(X.q, "copy", ops) => More(X, Y, <<>>, ops)
<1>1. /\ DOMAIN X.q = Streams /\ \E A : X.q["main"] \in Seq(A)
      /\ \E A : X.q["copy"] \in Seq(A)
  BY DEF QueuesTyped
<1>2. X.q["main"] \o <<>> = X.q["main"] /\ X.q["copy"] \o <<>> = X.q["copy"]  BY <1>1
<1>3. \E A : <<>> \in Seq(A)
  <2>1. <<>> \in Seq({})  OBVIOUS
  <2> QED  BY <2>1
<1>4. ASSUME Y.q = Put(X.q, "main", ops)  PROVE More(X, Y, ops, <<>>)
  <2>1. Y.q["main"] = X.q["main"] \o ops /\ Y.q["copy"] = X.q["copy"]
    BY <1>1, <1>4 DEF Put, Streams
  <2> QED  BY <1>2, <1>3, <2>1 DEF More
<1>5. ASSUME Y.q = Put(X.q, "copy", ops)  PROVE More(X, Y, <<>>, ops)
  <2>1. Y.q["copy"] = X.q["copy"] \o ops /\ Y.q["main"] = X.q["main"]
    BY <1>1, <1>5 DEF Put, Streams
  <2> QED  BY <1>2, <1>3, <2>1 DEF More
<1> QED  BY <1>4, <1>5

LEMMA DevNow ==
  ASSUME IInv
  PROVE  /\ QueuesTyped(Dev.q, Dev.d)
         /\ Now("main", queue) = Stop(Dev, "main") /\ Now("copy", queue) = Stop(Dev, "copy")
         /\ Stop(Dev, "main") \in Nat /\ Stop(Dev, "copy") \in Nat
BY NowIs, DevIs DEF IInv, Stop

LEMMA NothingGrows ==
  ASSUME NEW X, QueuesTyped(X.q, X.d)
  PROVE  Grows(X, X, {}) /\ \A ly : NoFills(X, X, ly)
<1>1. \A s \in Streams : Stop(X, s) \in Nat /\ \A p \in Pend(X, s) : p \in Nat /\ p <= Stop(X, s)
  BY Positions
<1>2. \A s \in Streams : \A p \in Pend(X, s) : ~(p > Stop(X, s))  BY <1>1
<1>3. Grows(X, X, {})  BY <1>1, <1>2 DEF Grows
<1> QED  BY <1>3 DEF NoFills

\* What is left to show of a step of the host.
LEMMA HostKept ==
  ASSUME NEW F, DInv, Grows(Dev, Dev', F), used' = used, Layers' = Layers, Whole',
         \A u \in Pend(Dev', "main") : u > Stop(Dev, "main") /\ OpAt(Dev', "main", u).op = "use" =>
           LET x == OpAt(Dev', "main", u) IN
           Gets(Dev', x.block, "main", u, Value(x.pass, x.layer, Saves[x.k])),
         \A l \in Layers : AllNamed(layers'[l]) /\ LayerRight(Dev', pass', l, layers'[l], saved'[l]),
         \A l \in Layers : \A c \in Pend(Dev, "copy") : Keeps(Dev, layers[l], saved[l], Popped(l), c) =>
           Waited(Dev', c) \/ Keeps(Dev', layers'[l], saved'[l], Popped(l)', c),
         \A c \in Pend(Dev', "copy") : c > Stop(Dev, "copy") /\ OpAt(Dev', "copy", c).op = "reload" =>
           \E l \in Layers : Keeps(Dev', layers'[l], saved'[l], Popped(l)', c)
  PROVE  DInv'
<1>1. "main" \in Streams /\ "copy" \in Streams  BY DEF Streams
<1>2. DOMAIN gpu' = Blocks
  <2>1. gpu' = gpu  BY DEF Grows, Dev
  <2> QED  BY <2>1 DEF DInv
<1>3. Faithful'  BY DEF DInv, Faithful
<1>4. UsesRight(Dev')
  <2>1. UsesRight(Dev)  BY DEF DInv
  <2> QED  BY <2>1, UsesGrow
<1>5. ReloadsKept'
  <2>1. ASSUME NEW c \in Pend(Dev', "copy"), OpAt(Dev', "copy", c).op = "reload"
        PROVE  Waited(Dev', c) \/ \E l \in Layers : Keeps(Dev', layers'[l], saved'[l], Popped(l)', c)
    <3>1. CASE c \in Pend(Dev, "copy")
      <4>1. OpAt(Dev, "copy", c).op = "reload"  BY <1>1, <2>1, <3>1, GrowsOld
      <4>2. Waited(Dev, c) \/ \E l \in Layers : Keeps(Dev, layers[l], saved[l], Popped(l), c)
        BY <3>1, <4>1 DEF DInv, ReloadsKept
      <4>3. Waited(Dev, c) => Waited(Dev', c)  BY GrowsWaited
      <4> QED  BY <3>1, <4>2, <4>3
    <3>2. CASE c > Stop(Dev, "copy")  BY <2>1, <3>2
    <3> QED  BY <1>1, <3>1, <3>2, GrowsOld
  <2> QED  BY <2>1 DEF ReloadsKept
<1> QED  BY <1>2, <1>3, <1>4, <1>5 DEF DInv

\* Nothing is put on the streams.
LEMMA QuietKept ==
  ASSUME IInv, DInv, queue' = queue, deviceVars' = deviceVars, Layers' = Layers, Whole',
         \A l \in Layers : AllNamed(layers'[l]) /\ LayerRight(Dev, pass', l, layers'[l], saved'[l]),
         \A l \in Layers : \A c \in Pend(Dev, "copy") : Keeps(Dev, layers[l], saved[l], Popped(l), c) =>
           Keeps(Dev, layers'[l], saved'[l], Popped(l)', c)
  PROVE  DInv'
<1>1. Dev' = Dev /\ used' = used  BY DEF Dev, deviceVars
<1>2. QueuesTyped(Dev.q, Dev.d) /\ "main" \in Streams /\ "copy" \in Streams  BY DevNow DEF Streams
<1>3. Grows(Dev, Dev', {})  BY <1>1, <1>2, NothingGrows
<1>4. \A s \in Streams : \A u \in Pend(Dev', s) : ~(u > Stop(Dev, s))
  <2>1. \A s \in Streams : Stop(Dev, s) \in Nat /\ \A u \in Pend(Dev, s) : u \in Nat /\ u <= Stop(Dev, s)
    BY <1>2, Positions
  <2> QED  BY <1>1, <2>1
<1>5. \A l \in Layers : AllNamed(layers'[l]) /\ LayerRight(Dev', pass', l, layers'[l], saved'[l])
  BY <1>1
<1>6. \A l \in Layers : \A c \in Pend(Dev, "copy") : Keeps(Dev, layers[l], saved[l], Popped(l), c) =>
           Waited(Dev', c) \/ Keeps(Dev', layers'[l], saved'[l], Popped(l)', c)
  BY <1>1
<1> QED  BY <1>1, <1>2, <1>3, <1>4, <1>5, <1>6, HostKept

\* What the invariant says of one layer.
LEMMA LayerHas ==
  ASSUME IInv, DInv, NEW l \in Layers
  PROVE  /\ Good(config, pass, l, layers[l], saved[l]) /\ Lengths(l) /\ Ahead(l)
         /\ AllNamed(layers[l]) /\ LayerRight(Dev, pass, l, layers[l], saved[l])
         /\ Popped(l) \in Nat /\ (pc # "unpack" => Popped(l) = 1)
<1>1. LayerInv(l) /\ k \in Nat  BY DEF IInv, HInv, HostTyped
<1>2. Popped(l) \in Nat /\ (pc # "unpack" => Popped(l) = 1)  BY <1>1 DEF Popped
<1> QED  BY <1>1, <1>2 DEF LayerInv, DInv

\* No hook has raised.
LEMMA NotRaised ==
  ASSUME IInv'
  PROVE  pc' # "raised"
BY DEF IInv, HInv, HostTyped

\* Leaving the context, and the beginning of a backward.
LEMMA LeaveContextKept ==
  ASSUME IInv, DInv, LeaveContext
  PROVE  DInv'
<1>1. /\ pc = "forward" /\ pc' = "idle" /\ config' = config /\ layers' = layers /\ saved' = saved
      /\ pass' = pass /\ queue' = queue /\ deviceVars' = deviceVars
  BY DEF LeaveContext, syncVars, deviceVars
<1>2. Layers' = Layers  BY <1>1 DEF Layers, NumLayers
<1>3. Whole'  BY <1>1, <1>2 DEF DInv, Whole
<1>4. \A l \in Layers : Popped(l)' = 1 /\ Popped(l) = 1  BY <1>1 DEF Popped
<1>5. \A l \in Layers : AllNamed(layers'[l]) /\ LayerRight(Dev, pass', l, layers'[l], saved'[l])
  BY <1>1, LayerHas
<1> QED  BY <1>1, <1>2, <1>3, <1>4, <1>5, QuietKept

LEMMA StartBackwardKept ==
  ASSUME StopEarly = FALSE, IInv, DInv, StartBackward
  PROVE  DInv'
<1>1. /\ pc = "idle" /\ pc' = "hook" /\ config' = config /\ layers' = layers /\ saved' = saved
      /\ pass' = pass /\ queue' = queue /\ deviceVars' = deviceVars /\ agenda' \in Agendas
  BY DEF StartBackward, syncVars, deviceVars
<1>2. Layers' = Layers  BY <1>1 DEF Layers, NumLayers
<1>3. Whole'
  <2> SUFFICES ASSUME config.mode = "default"  PROVE agenda'[Len(agenda')] = 0
    BY <1>1 DEF Whole
  <2>1. NumLayers \in Nat \ {0}  BY ConfigIs DEF IInv, HInv
  <2> DEFINE n == NumLayers - 1
  <2>2. agenda' = Down(n, 0)  BY <1>1 DEF Agendas
  <2>3. n \in Nat /\ 0 \in 0..n  BY <2>1
  <2> HIDE DEF n
  <2>4. /\ Len(Down(n, 0)) = n - 0 + 1
        /\ \A i \in 1..n - 0 + 1 : Down(n, 0)[i] = n + 1 - i
    <3> DEFINE A == 0..n
    <3>1. 0..n \subseteq A  OBVIOUS
    <3> HIDE DEF A
    <3> QED  BY <2>3, <3>1, DownIs
  <2>5. n + 1 \in 1..n - 0 + 1 /\ n - 0 + 1 = n + 1 /\ n + 1 - (n + 1) = 0  BY <2>3
  <2>6. Len(agenda') = n + 1  BY <2>2, <2>4, <2>5
  <2> QED  BY <2>2, <2>4, <2>5, <2>6
<1>4. \A l \in Layers : Popped(l)' = 1 /\ Popped(l) = 1  BY <1>1 DEF Popped
<1>5. \A l \in Layers : AllNamed(layers'[l]) /\ LayerRight(Dev, pass', l, layers'[l], saved'[l])
  BY <1>1, LayerHas
<1> QED  BY <1>1, <1>2, <1>3, <1>4, <1>5, QuietKept

\* A layer whose tensors are all read no longer keeps a block.
LEMMA EndLayerKept ==
  ASSUME IInv, DInv, EndLayer
  PROVE  DInv'
<1> DEFINE l == currentLayer
           n == Len(agenda)
<1>1. /\ pc = "unpack" /\ k > N /\ l = Head(agenda) /\ previousBwd = l
      /\ saved' = [saved EXCEPT ![l] = <<>>] /\ agenda' = Tail(agenda)
      /\ pc' = (IF Tail(agenda) = <<>> THEN "callback" ELSE "hook")
      /\ config' = config /\ layers' = layers /\ pass' = pass /\ previousBwd' = previousBwd
      /\ queue' = queue /\ deviceVars' = deviceVars
  BY DEF EndLayer, syncVars, deviceVars, N, IInv, HInv, Phase
<1>2. Layers' = Layers /\ DOMAIN saved = Layers
  BY <1>1 DEF Layers, NumLayers, IInv, HInv, HostTyped
<1>3. /\ n \in Nat /\ n >= 1 /\ agenda[1] = l /\ l \in Layers /\ Len(agenda') = n - 1
      /\ n # 1 => Tail(agenda) # <<>> /\ agenda'[n - 1] = agenda[n]
      /\ n = 1 => Tail(agenda) = <<>>
  <2> DEFINE A == Layers
             t == Tail(agenda)
  <2>1. agenda \in Seq(A) /\ agenda # <<>> /\ l = Head(agenda)  BY <1>1 DEF IInv, HInv, Phase
  <2> HIDE DEF A, l
  <2>2. /\ n \in Nat /\ n >= 1 /\ agenda[1] = l /\ l \in A /\ Len(t) = n - 1 /\ t \in Seq(A)
        /\ \A i \in 1..n - 1 : t[i] = agenda[i + 1]
    BY <2>1
  <2> HIDE DEF n
  <2>3. n # 1 => n - 1 \in 1..n - 1 /\ (n - 1) + 1 = n  BY <2>2
  <2>4. (n = 1 => t = <<>>) /\ (n # 1 => t # <<>>)
    <3> HIDE DEF t
    <3> QED  BY <2>2
  <2>5. n # 1 => t[n - 1] = agenda[n]  BY <2>2, <2>3
  <2> QED  BY <1>1, <2>2, <2>4, <2>5 DEF A
<1> HIDE DEF l, n
<1>4. \A x \in Layers : saved'[x] = IF x = l THEN <<>> ELSE saved[x]  BY <1>1, <1>2
<1>5. Whole'
  <2> SUFFICES ASSUME config.mode = "default"
               PROVE  /\ pc' = "hook" => agenda'[Len(agenda')] = 0
                      /\ pc' = "callback" => previousBwd' = 0
    BY <1>1 DEF Whole
  <2>1. agenda[n] = 0  BY <1>1 DEF DInv, Whole, n
  <2>2. pc' = "hook" => n # 1  BY <1>1, <1>3
  <2>3. pc' = "callback" => n = 1  BY <1>1, <1>3
  <2> QED  BY <1>1, <1>3, <2>1, <2>2, <2>3
<1>6. ASSUME NEW x \in Layers
      PROVE  AllNamed(layers'[x]) /\ LayerRight(Dev, pass', x, layers'[x], saved'[x])
  <2>1. AllNamed(layers[x]) /\ LayerRight(Dev, pass, x, layers[x], saved[x])  BY LayerHas
  <2>2. LayerRight(Dev, pass, x, layers[x], <<>>)  BY DEF LayerRight
  <2> QED  BY <1>1, <1>4, <2>1, <2>2
<1>7. ASSUME NEW x \in Layers, NEW c \in Pend(Dev, "copy"), Keeps(Dev, layers[x], saved[x], Popped(x), c)
      PROVE  Keeps(Dev, layers'[x], saved'[x], Popped(x)', c)
  <2>1. CASE x = l
    <3>1. Popped(x) = k /\ Len(saved[x]) <= N
      <4>1. Good(config, pass, x, layers[x], saved[x])  BY LayerHas
      <4> QED  BY <1>1, <2>1, <4>1 DEF Popped, l, Good, SavedAre
    <3>2. \E j \in k..Len(saved[x]) : TRUE  BY <1>7, <3>1 DEF Keeps
    <3>3. Len(saved[x]) \in Nat /\ N \in Nat /\ k \in Nat
      <4>1. saved[x] \in Seq(Items)  BY LayerHas DEF Good, SavedAre
      <4> QED  BY <4>1, CountFinite DEF IInv, HInv, HostTyped
    <3> QED  BY <1>1, <3>1, <3>2, <3>3
  <2>2. CASE x # l
    <3>1. Popped(x) = 1 /\ Popped(x)' = 1  BY <1>1, <2>2 DEF Popped, l
    <3> QED  BY <1>1, <1>4, <1>7, <2>2, <3>1
  <2> QED  BY <2>1, <2>2
<1> QED  BY <1>1, <1>2, <1>5, <1>6, <1>7, QuietKept

\* The layer that was left last is released.
LEMMA FinishPartOfBwdKept ==
  ASSUME IInv, IInv', DInv, FinishPartOfBwd
  PROVE  DInv'
<1> DEFINE l == previousBwd
<1>1. /\ pc = "callback" /\ layers' = AfterRelease /\ pc' = "idle"
      /\ config' = config /\ saved' = saved /\ pass' = pass /\ l \in Layers
      /\ queue' = queue /\ deviceVars' = deviceVars
  BY DEF FinishPartOfBwd, deviceVars, IInv, HInv, Phase
<1>2. Layers' = Layers  BY <1>1 DEF Layers, NumLayers
<1>3. \A x \in Layers : layers'[x] = IF x = l THEN ReleaseAll(layers[x]) ELSE layers[x]
  BY <1>1 DEF AfterRelease
<1> HIDE DEF l
<1>4. saved[l] = <<>> /\ layers'[l].state = "not_offloaded"
  <2>1. Lengths(l) /\ Good(config, pass, l, layers[l], saved[l]) /\ config.retain \in BOOLEAN
    BY <1>1, LayerHas, ConfigIs DEF IInv, HInv
  <2>2. Spent(l)  BY <1>1 DEF Spent, l
  <2>3. ReleaseAll(layers[l]).state = "not_offloaded"  BY <2>1, ReleaseAllGood
  <2> QED  BY <1>1, <1>3, <2>1, <2>2, <2>3 DEF Lengths
<1>5. Whole'
  <2> SUFFICES ASSUME config.mode = "default", NEW x \in Layers
               PROVE  layers'[x].state # "reload_started"
    BY <1>1, <1>2 DEF Whole
  <2>1. l = 0  BY <1>1 DEF DInv, Whole, l
  <2>2. CASE x = l  BY <1>4, <2>2
  <2>3. CASE x # l
    <3>1. PICK b \in 0..NumLayers : Schedule(b)  BY DEF IInv, HInv, OnSchedule
    <3>2. b = 0  BY <1>1, <2>1, <3>1 DEF Schedule, SchedulePhase, l
    <3>3. 0 < x  BY <2>1, <2>3, ConfigIs DEF IInv, HInv
    <3>4. Gone(pc, x, b)  BY <3>2, <3>3 DEF Gone
    <3>5. layers[x].state = "not_offloaded"  BY <3>1, <3>4 DEF Schedule, ScheduleLayer, StateAt
    <3> QED  BY <1>3, <2>3, <3>5
  <2> QED  BY <2>2, <2>3
<1>6. ASSUME NEW x \in Layers
      PROVE  AllNamed(layers'[x]) /\ LayerRight(Dev, pass', x, layers'[x], saved'[x])
  <2>1. AllNamed(layers[x]) /\ LayerRight(Dev, pass, x, layers[x], saved[x])  BY LayerHas
  <2>2. LayerRight(Dev, pass, x, layers'[x], <<>>)  BY DEF LayerRight
  <2>3. x = l => AllNamed(layers'[x])  BY <1>4 DEF AllNamed
  <2> QED  BY <1>1, <1>3, <1>4, <2>1, <2>2, <2>3
<1>7. ASSUME NEW x \in Layers, NEW c \in Pend(Dev, "copy"), Keeps(Dev, layers[x], saved[x], Popped(x), c)
      PROVE  Keeps(Dev, layers'[x], saved'[x], Popped(x)', c)
  <2>1. Popped(x) = 1 /\ Popped(x)' = 1  BY <1>1 DEF Popped
  <2>2. x # l  BY <1>4, <1>7, <2>1 DEF Keeps
  <2> QED  BY <1>1, <1>3, <1>7, <2>1, <2>2
<1> QED  BY <1>1, <1>2, <1>5, <1>6, <1>7, QuietKept

-----------------------------------------------------------------------------
(* What is put on the streams for one layer leaves the others as they are    *)

Right(X, l, ly, sv) ==
  Good(config, pass, l, ly, sv) /\ AllNamed(ly) /\ LayerRight(X, pass, l, ly, sv)

LEMMA RightGrows ==
  ASSUME NEW X, NEW Y, NEW F, Grows(X, Y, F), NEW l, NEW ly, NEW sv, Right(X, l, ly, sv),
         ly.state # "not_offloaded" => NoFills(X, Y, ly),
         \A b \in Held(ly, sv) : b \notin F
  PROVE  Right(Y, l, ly, sv)
<1>1. Good(config, pass, l, ly, sv) /\ AllNamed(ly) /\ LayerRight(X, pass, l, ly, sv)  BY DEF Right
<1>2. LayerRight(Y, pass, l, ly, sv)  BY <1>1, LayerGrows
<1> QED  BY <1>1, <1>2 DEF Right

\* The buffers of a layer are its own.
LEMMA BuffersOf ==
  ASSUME NEW l, NEW ly, NEW sv, Good(config, pass, l, ly, sv), ly.state # "not_offloaded",
         NEW n \in 1..Count
  PROVE  ly.cpu[n].layer = l
<1>1. ly.cpu = Buffers(config, pass, l)  BY DEF Good, Shape
<1>2. Buffers(config, pass, l)[n].layer = l  BY DEF Buffers
<1> QED  BY <1>1, <1>2

LEMMA OffloadStage ==
  ASSUME NEW X, NEW Y, NEW ls, NEW sv, NEW l0 \in Layers,
         More(X, Y, <<>>, OffloadOps(l0, ls[l0])), Now("copy", queue) = Stop(X, "copy"),
         \A l \in Layers : Right(X, l, ls[l], sv[l]),
         Covered(ls[l0], sv[l0]), ls[l0].state = "not_offloaded", ~Direct(config, l0),
         Len(sv[l0]) = N
  PROVE  /\ Grows(X, Y, {}) /\ Right(Y, l0, StartOffload(l0, ls[l0], queue), sv[l0])
         /\ \A l \in Layers : l # l0 => Right(Y, l, ls[l], sv[l])
<1> DEFINE C == OffloadOps(l0, ls[l0])
           z == StartOffload(l0, ls[l0], queue)
           ly == ls[l0]
           s == sv[l0]
<1>1. Good(config, pass, l0, ly, s) /\ LayerRight(X, pass, l0, ly, s)  BY DEF Right
<1>2. \A i \in 1..Len(C) : C[i].op = "offload" => C[i].buffer.layer = l0  BY <1>1, OffloadOpsIn
<1>3. Now("copy", queue) \in Nat
  <2>1. "copy" \in Streams /\ QueuesTyped(X.q, X.d)  BY DEF More, Streams
  <2> QED  BY <2>1, Positions
<1>4. Good(config, pass, l0, z, s)  BY <1>1, <1>3, StartOffloadGood
<1>5. More(X, Y, <<>>, C)  OBVIOUS
<1>6. Grows(X, Y, {}) /\ AllNamed(z) /\ LayerRight(Y, pass, l0, z, s)
  <2> HIDE DEF ly, s
  <2>1. More(X, Y, <<>>, OffloadOps(l0, ly))  BY DEF ly
  <2>2. /\ Covered(ly, s) /\ ly.state = "not_offloaded" /\ Len(s) = N  BY DEF ly, s
  <2>3. /\ Grows(X, Y, {}) /\ AllNamed(StartOffload(l0, ly, queue))
        /\ LayerRight(Y, pass, l0, StartOffload(l0, ly, queue), s)
    BY <1>1, <2>1, <2>2, OffloadRight
  <2> QED  BY <2>3 DEF ly
<1>7. Right(Y, l0, z, s)  BY <1>4, <1>6 DEF Right
<1> HIDE DEF C, z
<1>8. ASSUME NEW l \in Layers, l # l0  PROVE Right(Y, l, ls[l], sv[l])
  <2> DEFINE x == ls[l]
             t == sv[l]
  <2>1. Right(X, l, x, t)  OBVIOUS
  <2> HIDE DEF x, t
  <2>2. x.state # "not_offloaded" => \A n \in 1..Count : x.cpu[n].layer = l
    BY <2>1, BuffersOf DEF Right
  <2>3. ASSUME x.state # "not_offloaded"  PROVE NoFills(X, Y, x)
    <3>1. \A i \in 1..Len(C) : C[i].op = "offload" => \A n \in 1..Count : C[i].buffer # x.cpu[n]
      BY <1>2, <1>8, <2>2, <2>3
    <3> QED  BY <1>5, <3>1, NoFillsMore
  <2>4. Right(Y, l, x, t)  BY <1>6, <2>1, <2>3, RightGrows
  <2> QED  BY <2>4 DEF x, t
<1> QED  BY <1>6, <1>7, <1>8 DEF z

LEMMA ReleaseStage ==
  ASSUME NEW X, NEW Y, NEW ls, NEW sv, NEW l0 \in Layers,
         More(X, Y, ReleaseOps(ls[l0]), <<>>),
         \A l \in Layers : Right(X, l, ls[l], sv[l]),
         Covered(ls[l0], sv[l0]), ls[l0].state = "offload_started"
  PROVE  /\ Grows(X, Y, {}) /\ Right(Y, l0, ReleaseForward(ls[l0]), sv[l0])
         /\ \A l \in Layers : l # l0 => Right(Y, l, ls[l], sv[l])
<1> DEFINE M == ReleaseOps(ls[l0])
           ly == ls[l0]
           s == sv[l0]
           z == ReleaseForward(ly)
<1>1. Good(config, pass, l0, ly, s) /\ LayerRight(X, pass, l0, ly, s) /\ AllNamed(ly)  BY DEF Right
<1>2. More(X, Y, M, <<>>) /\ More(X, Y, ReleaseOps(ly), <<>>)  OBVIOUS
<1>3. Good(config, pass, l0, z, s) /\ ly.state = "offload_started"  BY <1>1, ReleaseForwardGood
<1> HIDE DEF M, ly
<1>4. /\ Grows(X, Y, {}) /\ LayerRight(Y, pass, l0, z, s) /\ z.aux = ly.aux
      /\ z.state = "offload_finished"
  BY <1>1, <1>2, <1>3, ReleaseRight
<1>5. AllNamed(z)  BY <1>1, <1>3, <1>4 DEF AllNamed
<1>6. Right(Y, l0, z, s)  BY <1>3, <1>4, <1>5 DEF Right
<1> HIDE DEF z
<1>7. ASSUME NEW l \in Layers  PROVE Right(Y, l, ls[l], sv[l])
  <2> DEFINE x == ls[l]
             t == sv[l]
  <2>1. Right(X, l, x, t)  OBVIOUS
  <2> HIDE DEF x, t
  <2>2. NoFills(X, Y, x)
    <3>1. \A i \in 1..Len(<<>>) : <<>>[i].op = "offload" => \A n \in 1..Count : <<>>[i].buffer # x.cpu[n]
      OBVIOUS
    <3> QED  BY <1>2, <3>1, NoFillsMore
  <2>3. Right(Y, l, x, t)  BY <1>4, <2>1, <2>2, RightGrows
  <2> QED  BY <2>3 DEF x, t
<1> QED  BY <1>4, <1>6, <1>7 DEF z, ly

\* The blocks are free ones, one for each tensor of the layer.
Free(ly, blocks, ls, sv) ==
  /\ Fits(Len(ly.cpu), FreeBlocks(ls, sv))
  /\ blocks = Allocate(Len(ly.cpu), FreeBlocks(ls, sv))

LEMMA ReloadStage ==
  ASSUME NEW X, NEW Y, NEW ls, NEW sv, NEW blocks, NEW l0 \in Layers,
         More(X, Y, <<>>, ReloadOps(ls[l0], blocks, queue)),
         Now("copy", queue) = Stop(X, "copy"), Now("main", queue) = Stop(X, "main"),
         \A l \in Layers : Right(X, l, ls[l], sv[l]),
         Covered(ls[l0], sv[l0]), ls[l0].state = "offload_finished", Free(ls[l0], blocks, ls, sv)
  PROVE  /\ Grows(X, Y, Targets(blocks))
         /\ Right(Y, l0, StartReload(ls[l0], blocks, queue), sv[l0])
         /\ \A l \in Layers : l # l0 => Right(Y, l, ls[l], sv[l])
         /\ \A r \in Pend(Y, "copy") : r > Stop(X, "copy") /\ OpAt(Y, "copy", r).op = "reload" =>
              Keeps(Y, StartReload(ls[l0], blocks, queue), sv[l0], 1, r)
<1> DEFINE ly == ls[l0]
           s == sv[l0]
           C == ReloadOps(ly, blocks, queue)
           z == StartReload(ly, blocks, queue)
           F == Targets(blocks)
<1>1. Good(config, pass, l0, ly, s) /\ LayerRight(X, pass, l0, ly, s) /\ AllNamed(ly)  BY DEF Right
<1>2. ly.cpu = Buffers(config, pass, l0) /\ Len(ly.cpu) = Count /\ Count \in Nat
  <2>1. ly.cpu = Buffers(config, pass, l0)  BY <1>1 DEF Good, Shape
  <2>2. Count \in Nat /\ Len(Buffers(config, pass, l0)) = Count  BY CountFinite DEF Buffers
  <2> QED  BY <2>1, <2>2
<1>3. /\ \A n \in 1..Count :
           blocks[n] \in Blocks /\ \A l \in Layers : blocks[n] \notin HeldBy(ls, sv, l)
      /\ \A n, m \in 1..Count : blocks[n] = blocks[m] => n = m
  <2> DEFINE c == Count
  <2>1. Fits(c, FreeBlocks(ls, sv)) /\ blocks = Allocate(c, FreeBlocks(ls, sv)) /\ c \in Nat
    BY <1>2 DEF Free
  <2> HIDE DEF c
  <2>2. /\ \A i \in 1..c :
              /\ Allocate(c, FreeBlocks(ls, sv))[i] \in Blocks
              /\ \A l \in Layers : Allocate(c, FreeBlocks(ls, sv))[i] \notin HeldBy(ls, sv, l)
        /\ \A i, j \in 1..c :
              Allocate(c, FreeBlocks(ls, sv))[i] = Allocate(c, FreeBlocks(ls, sv))[j] => i = j
    BY <2>1, Allocated
  <2>3. /\ \A n \in 1..c :
             blocks[n] \in Blocks /\ \A l \in Layers : blocks[n] \notin HeldBy(ls, sv, l)
        /\ \A n, m \in 1..c : blocks[n] = blocks[m] => n = m
    BY <2>1, <2>2
  <2> QED  BY <2>3 DEF c
<1>4. \A l \in Layers : \A n \in 1..Count : blocks[n] \notin Held(ls[l], sv[l])
  BY <1>3 DEF Held, HeldBy
<1>5. \A n \in 1..Count : blocks[n] \in Blocks /\ blocks[n] \notin Held(ly, s)  BY <1>3, <1>4
<1>6. /\ More(X, Y, <<>>, C) /\ Covered(ly, s) /\ ly.state = "offload_finished"  OBVIOUS
<1>7. Now("copy", queue) \in Nat
  <2>1. "copy" \in Streams /\ QueuesTyped(X.q, X.d)  BY DEF More, Streams
  <2> QED  BY <2>1, Positions
<1> HIDE DEF ly, s
<1>8. Good(config, pass, l0, z, s)  BY <1>1, <1>5, <1>6, <1>7, StartReloadGood
<1>9. /\ Grows(X, Y, F) /\ AllNamed(z) /\ LayerRight(Y, pass, l0, z, s)
      /\ \A r \in Pend(Y, "copy") : r > Stop(X, "copy") /\ OpAt(Y, "copy", r).op = "reload" =>
           Keeps(Y, z, s, 1, r)
  <2>1. More(X, Y, <<>>, ReloadOps(ly, blocks, queue))  BY <1>6
  <2>2. /\ \A n \in 1..Count : blocks[n] \in Blocks
        /\ \A n \in 1..Count : blocks[n] \notin Held(ly, s)
    BY <1>5
  <2>3. /\ AllNamed(StartReload(ly, blocks, queue))
        /\ LayerRight(Y, pass, l0, StartReload(ly, blocks, queue), s)
        /\ \A r \in Pend(Y, "copy") : r > Stop(X, "copy") /\ OpAt(Y, "copy", r).op = "reload" =>
             Keeps(Y, StartReload(ly, blocks, queue), s, 1, r)
    BY <1>1, <1>3, <1>6, <2>1, <2>2, ReloadRight
  <2>4. Grows(X, Y, F)  BY <1>1, <1>3, <1>6, <2>1, <2>2, ReloadRight
  <2> QED  BY <2>3, <2>4
<1>10. Right(Y, l0, z, s)  BY <1>8, <1>9 DEF Right
<1>11. ReloadsAre(C, blocks, ly.cpu, Now("main", queue))  BY <1>2, ReloadOpsIn
<1>12. \A i \in 1..Len(C) : C[i].op # "offload"
  <2>1. Len(C) = 2 * Count  BY <1>11 DEF ReloadsAre
  <2>2. ASSUME NEW i \in 1..2 * Count  PROVE C[i].op # "offload"
    <3>1. PICK n \in 1..Count : i = 2 * n - 1 \/ i = 2 * n  BY <1>2, Halves
    <3> HIDE DEF C
    <3>2. C[2 * n - 1].op = "wait" /\ C[2 * n].op = "reload"  BY <1>11 DEF ReloadsAre
    <3> QED  BY <3>1, <3>2
  <2> QED  BY <2>1, <2>2
<1> HIDE DEF z, C
<1>13. ASSUME NEW l \in Layers, l # l0  PROVE Right(Y, l, ls[l], sv[l])
  <2> DEFINE x == ls[l]
             t == sv[l]
  <2>1. Right(X, l, x, t)  OBVIOUS
  <2>2. \A b \in Held(x, t) : b \notin F  BY <1>4 DEF Targets
  <2> HIDE DEF x, t
  <2>3. NoFills(X, Y, x)  BY <1>6, <1>12, NoFillsMore
  <2>4. Right(Y, l, x, t)  BY <1>9, <2>1, <2>2, <2>3, RightGrows
  <2> QED  BY <2>4 DEF x, t
<1> QED  BY <1>9, <1>10, <1>13 DEF z, ly, s

\* No kernel and no copy to the GPU is added, unless one of the operations is.
LEMMA NoneAdded ==
  ASSUME NEW X, NEW Y, NEW M, NEW C, More(X, Y, M, C)
  PROVE  /\ (\A i \in 1..Len(M) : M[i].op # "use") =>
              \A u \in Pend(Y, "main") : u > Stop(X, "main") => OpAt(Y, "main", u).op # "use"
         /\ (\A i \in 1..Len(C) : C[i].op # "reload") =>
              \A c \in Pend(Y, "copy") : c > Stop(X, "copy") => OpAt(Y, "copy", c).op # "reload"
<1>1. "main" \in Streams /\ "copy" \in Streams /\ New(M, C, "main") = M /\ New(M, C, "copy") = C
  BY DEF Streams, New
<1>2. \A u \in Pend(Y, "main") : u > Stop(X, "main") =>
        u - Stop(X, "main") \in 1..Len(M) /\ OpAt(Y, "main", u) = M[u - Stop(X, "main")]
  BY <1>1, MoreIs
<1>3. \A c \in Pend(Y, "copy") : c > Stop(X, "copy") =>
        c - Stop(X, "copy") \in 1..Len(C) /\ OpAt(Y, "copy", c) = C[c - Stop(X, "copy")]
  BY <1>1, MoreIs
<1> QED  BY <1>2, <1>3

\* A step that puts copies and waits on the streams, and is not within a backward.
LEMMA StageKept ==
  ASSUME NEW F, IInv, DInv, Grows(Dev, Dev', F), used' = used, config' = config, pass' = pass,
         saved' = saved, Whole', \A l \in Layers : Popped(l) = 1 /\ Popped(l)' = 1,
         \A u \in Pend(Dev', "main") : u > Stop(Dev, "main") => OpAt(Dev', "main", u).op # "use",
         \A l \in Layers : AllNamed(layers'[l]) /\ LayerRight(Dev', pass, l, layers'[l], saved[l]),
         \A l \in Layers :
           layers'[l] = layers[l] \/ layers[l].state # "reload_started" \/ saved[l] = <<>>,
         \A c \in Pend(Dev', "copy") : c > Stop(Dev, "copy") /\ OpAt(Dev', "copy", c).op = "reload" =>
           \E l \in Layers : Keeps(Dev', layers'[l], saved[l], 1, c)
  PROVE  DInv'
<1>1. Layers' = Layers  BY DEF Layers, NumLayers
<1>2. ASSUME NEW l \in Layers, NEW c \in Pend(Dev, "copy"), Keeps(Dev, layers[l], saved[l], Popped(l), c)
      PROVE  Keeps(Dev', layers'[l], saved'[l], Popped(l)', c)
  <2>1. Keeps(Dev, layers[l], saved[l], 1, c)  BY <1>2
  <2>2. saved[l] # <<>> /\ layers[l].state = "reload_started"
    <3>1. layers[l].state = "reload_started" /\ \E j \in 1..Len(saved[l]) : TRUE  BY <2>1 DEF Keeps
    <3>2. Len(<<>>) = 0  OBVIOUS
    <3> QED  BY <3>1, <3>2
  <2>3. layers'[l] = layers[l]  BY <2>2
  <2>4. Keeps(Dev', layers[l], saved[l], 1, c)  BY <2>1, KeptGrows
  <2> QED  BY <2>3, <2>4
<1>3. \A u \in Pend(Dev', "main") : u > Stop(Dev, "main") /\ OpAt(Dev', "main", u).op = "use" =>
        LET x == OpAt(Dev', "main", u) IN
        Gets(Dev', x.block, "main", u, Value(x.pass, x.layer, Saves[x.k]))
  OBVIOUS
<1>4. \A c \in Pend(Dev', "copy") : c > Stop(Dev, "copy") /\ OpAt(Dev', "copy", c).op = "reload" =>
        \E l \in Layers : Keeps(Dev', layers'[l], saved'[l], Popped(l)', c)
  OBVIOUS
<1>5. \A l \in Layers : AllNamed(layers'[l]) /\ LayerRight(Dev', pass', l, layers'[l], saved'[l])
  OBVIOUS
<1> QED  BY <1>1, <1>2, <1>3, <1>4, <1>5, HostKept

LEMMA RightNow ==
  ASSUME IInv, DInv, NEW l \in Layers
  PROVE  Right(Dev, l, layers[l], saved[l])
BY LayerHas DEF Right

\* The device before and after a step that puts operations on one stream.
LEMMA DevPut ==
  ASSUME IInv, IInv', done' = done, gpu' = gpu, pinned' = pinned, NEW ops, \E A : ops \in Seq(A)
  PROVE  /\ queue' = Put(queue, "main", ops) => More(Dev, Dev', ops, <<>>)
         /\ queue' = Put(queue, "copy", ops) => More(Dev, Dev', <<>>, ops)
<1> DEFINE X == Dev
           Y == Dev'
<1>1. QueuesTyped(X.q, X.d)  BY DevIs DEF IInv
<1>2. QueuesTyped(Y.q, Y.d)
  <2>1. DeviceTyped'  BY DEF IInv
  <2> QED  BY <2>1 DEF DeviceTyped, Dev
<1>3. Y.d = X.d /\ Y.g = X.g /\ Y.p = X.p /\ X.q = queue /\ Y.q = queue'  BY DEF Dev
<1> HIDE DEF X, Y
<1>4. /\ Y.q = Put(X.q, "main", ops) => More(X, Y, ops, <<>>)
      /\ Y.q = Put(X.q, "copy", ops) => More(X, Y, <<>>, ops)
  BY <1>1, <1>2, <1>3, PutsMore
<1> QED  BY <1>3, <1>4 DEF X, Y

\* The steps of the manual schedule.
LEMMA ManualFrame ==
  ASSUME IInv, pc = "idle", config.mode = "manual",
         UNCHANGED <<config, numOfFwds, previousBwd, currentLayer, scriptVars, deviceVars>>
  PROVE  /\ config' = config /\ pass' = pass /\ saved' = saved /\ pc' = pc /\ used' = used
         /\ done' = done /\ gpu' = gpu /\ pinned' = pinned /\ Whole'
         /\ \A l \in Layers : Popped(l) = 1 /\ Popped(l)' = 1
<1>1. /\ config' = config /\ pass' = pass /\ saved' = saved /\ pc' = pc /\ used' = used
      /\ done' = done /\ gpu' = gpu /\ pinned' = pinned
  BY DEF scriptVars, deviceVars
<1>2. Whole'  BY <1>1 DEF Whole
<1> QED  BY <1>1, <1>2 DEF Popped

LEMMA StartOffloadLayerKept ==
  ASSUME IInv, IInv', DInv, StartOffloadLayer
  PROVE  DInv'
<1>1. PICK l \in Unused :
        /\ layers[l].state = "not_offloaded"
        /\ layers' = [layers EXCEPT ![l] = StartOffload(l, @, queue)]
        /\ queue' = Put(queue, "copy", OffloadOps(l, layers[l]))
  BY DEF StartOffloadLayer
<1>2. /\ pc = "idle" /\ config.mode = "manual"
      /\ UNCHANGED <<config, numOfFwds, previousBwd, currentLayer, scriptVars, deviceVars>>
  BY DEF StartOffloadLayer
<1>3. /\ config' = config /\ pass' = pass /\ saved' = saved /\ used' = used
      /\ done' = done /\ gpu' = gpu /\ pinned' = pinned /\ Whole'
      /\ \A x \in Layers : Popped(x) = 1 /\ Popped(x)' = 1
  BY <1>2, ManualFrame
<1>4. /\ l \in Layers /\ Len(saved[l]) = N /\ ~Direct(config, l)
      /\ Good(config, pass, l, layers[l], saved[l]) /\ Covered(layers[l], saved[l])
      /\ DOMAIN layers = Layers
  BY <1>2, ManualIs DEF IInv
<1> DEFINE C == OffloadOps(l, layers[l])
<1>5. \E A : C \in Seq(A)
  <2>1. EventsBy(layers[l], Now("main", queue), Now("copy", queue))  BY <1>4, LayerIs
  <2>2. C \in Seq(CopyOps(Now("main", queue)))  BY <1>1, <1>4, <2>1, OffloadPut
  <2> QED  BY <2>2
<1>6. More(Dev, Dev', <<>>, C)
  <2> HIDE DEF C
  <2>1. queue' = Put(queue, "copy", C)  BY <1>1 DEF C
  <2> QED  BY <1>3, <1>5, <2>1, DevPut
<1>7. /\ Grows(Dev, Dev', {}) /\ Right(Dev', l, StartOffload(l, layers[l], queue), saved[l])
      /\ \A x \in Layers : x # l => Right(Dev', x, layers[x], saved[x])
  BY <1>1, <1>4, <1>6, RightNow, DevNow, OffloadStage
<1>8. \A x \in Layers : layers'[x] = IF x = l THEN StartOffload(l, layers[l], queue) ELSE layers[x]
  BY <1>1, <1>4
<1>9. \A x \in Layers : AllNamed(layers'[x]) /\ LayerRight(Dev', pass, x, layers'[x], saved[x])
  BY <1>7, <1>8 DEF Right
<1>10. \A i \in 1..Len(C) : C[i].op # "reload"  BY <1>1, <1>4, OffloadOpsIn
<1> HIDE DEF C
<1>11. /\ \A u \in Pend(Dev', "main") : u > Stop(Dev, "main") => OpAt(Dev', "main", u).op # "use"
       /\ \A c \in Pend(Dev', "copy") : c > Stop(Dev, "copy") => OpAt(Dev', "copy", c).op # "reload"
  <2>1. \A i \in 1..Len(<<>>) : <<>>[i].op # "use"  OBVIOUS
  <2> QED  BY <1>6, <1>10, <2>1, NoneAdded
<1>12. \A x \in Layers :
         layers'[x] = layers[x] \/ layers[x].state # "reload_started" \/ saved[x] = <<>>
  BY <1>1, <1>8
<1> QED  BY <1>3, <1>7, <1>9, <1>11, <1>12, StageKept

LEMMA ReleaseActivationKept ==
  ASSUME IInv, IInv', DInv, ReleaseActivationForwardGpuMemory
  PROVE  DInv'
<1>1. PICK l \in Unused :
        /\ layers[l].state = "offload_started"
        /\ layers' = [layers EXCEPT ![l] = ReleaseForward(@)]
        /\ queue' = Put(queue, "main", ReleaseOps(layers[l]))
  BY DEF ReleaseActivationForwardGpuMemory
<1>2. /\ pc = "idle" /\ config.mode = "manual"
      /\ UNCHANGED <<config, numOfFwds, previousBwd, currentLayer, scriptVars, deviceVars>>
  BY DEF ReleaseActivationForwardGpuMemory
<1>3. /\ config' = config /\ pass' = pass /\ saved' = saved /\ used' = used
      /\ done' = done /\ gpu' = gpu /\ pinned' = pinned /\ Whole'
      /\ \A x \in Layers : Popped(x) = 1 /\ Popped(x)' = 1
  BY <1>2, ManualFrame
<1>4. l \in Layers /\ Covered(layers[l], saved[l]) /\ DOMAIN layers = Layers
  BY <1>2, ManualIs DEF IInv
<1> DEFINE M == ReleaseOps(layers[l])
<1>5. \E A : M \in Seq(A)
  <2>1. /\ layers[l].finished \in Nat /\ layers[l].finished <= Now("copy", queue)
        /\ Now("copy", queue) \in Nat
    BY <1>4, LayerIs DEF EventsBy
  <2>2. M \in Seq(MainOps(Now("copy", queue)))  BY <2>1, ReleasePut
  <2> QED  BY <2>2
<1>6. More(Dev, Dev', M, <<>>)
  <2> HIDE DEF M
  <2>1. queue' = Put(queue, "main", M)  BY <1>1 DEF M
  <2> QED  BY <1>3, <1>5, <2>1, DevPut
<1>7. /\ Grows(Dev, Dev', {}) /\ Right(Dev', l, ReleaseForward(layers[l]), saved[l])
      /\ \A x \in Layers : x # l => Right(Dev', x, layers[x], saved[x])
  BY <1>1, <1>4, <1>6, RightNow, ReleaseStage
<1>8. \A x \in Layers : layers'[x] = IF x = l THEN ReleaseForward(layers[l]) ELSE layers[x]
  BY <1>1, <1>4
<1>9. \A x \in Layers : AllNamed(layers'[x]) /\ LayerRight(Dev', pass, x, layers'[x], saved[x])
  BY <1>7, <1>8 DEF Right
<1>10. \A i \in 1..Len(M) : M[i].op # "use"
  <2>1. M = <<>> \/ M = <<Wait("copy", layers[l].finished)>>  BY DEF ReleaseOps
  <2>2. Wait("copy", layers[l].finished).op = "wait"  BY DEF Wait
  <2> HIDE DEF M
  <2> QED  BY <2>1, <2>2
<1> HIDE DEF M
<1>11. /\ \A u \in Pend(Dev', "main") : u > Stop(Dev, "main") => OpAt(Dev', "main", u).op # "use"
       /\ \A c \in Pend(Dev', "copy") : c > Stop(Dev, "copy") => OpAt(Dev', "copy", c).op # "reload"
  <2>1. \A i \in 1..Len(<<>>) : <<>>[i].op # "reload"  OBVIOUS
  <2> QED  BY <1>6, <1>10, <2>1, NoneAdded
<1>12. \A x \in Layers :
         layers'[x] = layers[x] \/ layers[x].state # "reload_started" \/ saved[x] = <<>>
  BY <1>1, <1>8
<1> QED  BY <1>3, <1>7, <1>9, <1>11, <1>12, StageKept

LEMMA StartReloadLayerKept ==
  ASSUME IInv, IInv', DInv, StartReloadLayer
  PROVE  DInv'
<1>1. PICK l \in Unused :
        /\ layers[l].state = "offload_finished"
        /\ Fits(Len(layers[l].cpu), FreeBlocks(layers, saved))
        /\ LET blocks == Allocate(Len(layers[l].cpu), FreeBlocks(layers, saved))
           IN /\ layers' = [layers EXCEPT ![l] = StartReload(@, blocks, queue)]
              /\ queue' = Put(queue, "copy", ReloadOps(layers[l], blocks, queue))
  BY DEF StartReloadLayer
<1>2. /\ pc = "idle" /\ config.mode = "manual"
      /\ UNCHANGED <<config, numOfFwds, previousBwd, currentLayer, scriptVars, deviceVars>>
  BY DEF StartReloadLayer
<1>3. /\ config' = config /\ pass' = pass /\ saved' = saved /\ used' = used
      /\ done' = done /\ gpu' = gpu /\ pinned' = pinned /\ Whole'
      /\ \A x \in Layers : Popped(x) = 1 /\ Popped(x)' = 1
  BY <1>2, ManualFrame
<1>4. /\ l \in Layers /\ Good(config, pass, l, layers[l], saved[l]) /\ Covered(layers[l], saved[l])
      /\ DOMAIN layers = Layers
  BY <1>2, ManualIs DEF IInv
<1> DEFINE blocks == Allocate(Len(layers[l].cpu), FreeBlocks(layers, saved))
           C == ReloadOps(layers[l], blocks, queue)
           F == Targets(blocks)
<1>5. \E A : C \in Seq(A)
  <2>1. layers[l].cpu = Buffers(config, pass, l)  BY <1>1, <1>4 DEF Good, Shape
  <2> HIDE DEF blocks
  <2> QED  BY <2>1, ReloadOpsIn
<1>6. More(Dev, Dev', <<>>, C)
  <2> HIDE DEF C
  <2>1. queue' = Put(queue, "copy", C)  BY <1>1 DEF C
  <2> QED  BY <1>3, <1>5, <2>1, DevPut
<1>7. /\ Grows(Dev, Dev', F) /\ Right(Dev', l, StartReload(layers[l], blocks, queue), saved[l])
      /\ \A x \in Layers : x # l => Right(Dev', x, layers[x], saved[x])
      /\ \A r \in Pend(Dev', "copy") : r > Stop(Dev, "copy") /\ OpAt(Dev', "copy", r).op = "reload" =>
           Keeps(Dev', StartReload(layers[l], blocks, queue), saved[l], 1, r)
  <2> DEFINE X == Dev
             Y == Dev'
  <2>1. /\ More(X, Y, <<>>, ReloadOps(layers[l], blocks, queue))
        /\ Now("copy", queue) = Stop(X, "copy") /\ Now("main", queue) = Stop(X, "main")
        /\ \A x \in Layers : Right(X, x, layers[x], saved[x])
    BY <1>6, RightNow, DevNow
  <2>2. layers[l].state = "offload_finished" /\ Free(layers[l], blocks, layers, saved)
    BY <1>1 DEF Free
  <2> HIDE DEF X, Y, blocks
  <2>3. /\ Grows(X, Y, F) /\ Right(Y, l, StartReload(layers[l], blocks, queue), saved[l])
        /\ \A x \in Layers : x # l => Right(Y, x, layers[x], saved[x])
        /\ \A r \in Pend(Y, "copy") : r > Stop(X, "copy") /\ OpAt(Y, "copy", r).op = "reload" =>
             Keeps(Y, StartReload(layers[l], blocks, queue), saved[l], 1, r)
    BY <1>4, <2>1, <2>2, ReloadStage
  <2> QED  BY <2>3 DEF X, Y
<1>8. \A x \in Layers : layers'[x] = IF x = l THEN StartReload(layers[l], blocks, queue) ELSE layers[x]
  BY <1>1, <1>4
<1> HIDE DEF C, F, blocks
<1>9. \A x \in Layers : AllNamed(layers'[x]) /\ LayerRight(Dev', pass, x, layers'[x], saved[x])
  BY <1>7, <1>8 DEF Right
<1>10. \A u \in Pend(Dev', "main") : u > Stop(Dev, "main") => OpAt(Dev', "main", u).op # "use"
  <2>1. \A i \in 1..Len(<<>>) : <<>>[i].op # "use"  OBVIOUS
  <2> QED  BY <1>6, <2>1, NoneAdded
<1>11. \A x \in Layers :
         layers'[x] = layers[x] \/ layers[x].state # "reload_started" \/ saved[x] = <<>>
  BY <1>1, <1>8
<1>12. \A c \in Pend(Dev', "copy") : c > Stop(Dev, "copy") /\ OpAt(Dev', "copy", c).op = "reload" =>
         \E x \in Layers : Keeps(Dev', layers'[x], saved[x], 1, c)
  BY <1>4, <1>7, <1>8
<1> QED  BY <1>3, <1>7, <1>9, <1>10, <1>11, <1>12, StageKept

\* Nothing is put on the streams.
LEMMA NothingPut ==
  ASSUME NEW X, NEW Y, More(X, Y, <<>>, <<>>)
  PROVE  /\ Grows(X, Y, {})
         /\ \A l, ly, sv : Right(X, l, ly, sv) => Right(Y, l, ly, sv)
         /\ \A u \in Pend(Y, "main") : u > Stop(X, "main") => OpAt(Y, "main", u).op # "use"
         /\ \A c \in Pend(Y, "copy") : c > Stop(X, "copy") => OpAt(Y, "copy", c).op # "reload"
<1> DEFINE Z == <<>>
<1>1. More(X, Y, Z, Z) /\ Len(Z) = 0  OBVIOUS
<1> HIDE DEF Z
<1>2. /\ \A i \in 1..Len(Z) : Z[i].op # "compute" /\ Z[i].op # "reload" /\ Z[i].op # "use"
      /\ \A i \in 1..Len(Z) : Z[i].op # "offload"
  BY <1>1
<1>3. Grows(X, Y, {})
  <2>1. AfterMain(Z, Stop(X, "main"))  BY <1>2 DEF AfterMain
  <2> QED  BY <1>1, <1>2, <2>1, MoreGrows
<1>4. ASSUME NEW l, NEW ly, NEW sv, Right(X, l, ly, sv)  PROVE Right(Y, l, ly, sv)
  <2>1. NoFills(X, Y, ly)  BY <1>1, <1>2, NoFillsMore
  <2> QED  BY <1>3, <1>4, <2>1, RightGrows
<1>5. /\ \A u \in Pend(Y, "main") : u > Stop(X, "main") => OpAt(Y, "main", u).op # "use"
      /\ \A c \in Pend(Y, "copy") : c > Stop(X, "copy") => OpAt(Y, "copy", c).op # "reload"
  BY <1>1, <1>2, NoneAdded
<1> QED  BY <1>3, <1>4, <1>5

\* What bwd_step releases stands for nothing any more.
LEMMA ReleasedRight ==
  ASSUME IInv, DInv, pc \in {"hook", "callback"}, NEW l \in Layers
  PROVE  /\ Right(Dev, l, AfterRelease[l], saved[l])
         /\ l = previousBwd => saved[l] = <<>> /\ AfterRelease[l].state = "not_offloaded"
         /\ l # previousBwd => AfterRelease[l] = layers[l] /\ Covered(layers[l], saved[l])
<1>1. Right(Dev, l, layers[l], saved[l]) /\ Lengths(l) /\ Good(config, pass, l, layers[l], saved[l])
  BY LayerHas, RightNow
<1>2. AfterRelease[l] = IF l = previousBwd THEN ReleaseAll(layers[l]) ELSE layers[l]
  BY DEF AfterRelease
<1>3. CASE l = previousBwd
  <2>1. saved[l] = <<>>  BY <1>1, <1>3 DEF Lengths, Spent
  <2>2. config.retain \in BOOLEAN  BY ConfigIs DEF IInv, HInv
  <2>3. Good(config, pass, l, AfterRelease[l], saved[l]) /\ AfterRelease[l].state = "not_offloaded"
    BY <1>1, <1>2, <1>3, <2>1, <2>2, ReleaseAllGood
  <2>4. Right(Dev, l, AfterRelease[l], saved[l])  BY <2>1, <2>3 DEF Right, AllNamed, LayerRight
  <2> QED  BY <1>3, <2>1, <2>3, <2>4
<1>4. CASE l # previousBwd  BY <1>1, <1>2, <1>4 DEF Lengths, Spent
<1> QED  BY <1>3, <1>4

\* bwd_step.
LEMMA BwdStepKept ==
  ASSUME IInv, IInv', DInv, BwdStep
  PROVE  DInv'
<1>0. pc' # "raised" /\ HInv  BY NotRaised DEF IInv
<1>1. /\ config' = config
      /\ layers' = [r \in Layers |-> IF Reloading(r)
                                     THEN StartReload(AfterRelease[r], ReloadInto(r), queue)
                                     ELSE AfterRelease[r]]
      /\ \A r \in Layers : Reloading(r) =>
           /\ AfterRelease[r].state = "offload_finished"
           /\ Fits(Len(AfterRelease[r].cpu), FreeBlocks(AfterRelease, saved))
      /\ \E a : /\ queue' = Put(queue, "copy", a)
                /\ \/ a = <<>> /\ \A r \in Layers : ~Reloading(r)
                   \/ \E r \in Layers :
                        /\ Reloading(r) /\ a = ReloadOps(AfterRelease[r], ReloadInto(r), queue)
                        /\ \A x \in Layers : Reloading(x) => x = r
  BY <1>0, BwdStepPuts
<1>2. /\ pc = "hook" /\ pc' = "unpack" /\ k' = 1 /\ saved' = saved /\ agenda' = agenda /\ pass' = pass
  BY <1>1, BwdStepDoes
<1>3. done' = done /\ gpu' = gpu /\ pinned' = pinned /\ used' = used  BY DEF BwdStep, deviceVars
<1>4. \A l \in Layers : Popped(l) = 1 /\ Popped(l)' = 1  BY <1>2 DEF Popped
<1>5. Whole'  BY <1>1, <1>2 DEF DInv, Whole
<1>6. \A l \in Layers : /\ Right(Dev, l, AfterRelease[l], saved[l])
                        /\ l = previousBwd => saved[l] = <<>> /\ AfterRelease[l].state = "not_offloaded"
                        /\ l # previousBwd => AfterRelease[l] = layers[l] /\ Covered(layers[l], saved[l])
  BY <1>2, ReleasedRight
<1>7. \A l \in Layers :
        layers'[l] = layers[l] \/ layers[l].state # "reload_started" \/ saved[l] = <<>>
  <2>1. ASSUME NEW l \in Layers, Reloading(l), l # previousBwd
        PROVE  layers[l].state # "reload_started"
    BY <1>1, <1>6, <2>1
  <2>2. ASSUME NEW l \in Layers, ~Reloading(l), l # previousBwd
        PROVE  layers'[l] = layers[l]
    BY <1>1, <1>6, <2>2
  <2> QED  BY <1>6, <2>1, <2>2
<1>8. CASE queue' = Put(queue, "copy", <<>>) /\ \A r \in Layers : ~Reloading(r)
  <2>1. \E A : <<>> \in Seq(A)
    <3>1. <<>> \in Seq({})  OBVIOUS
    <3> QED  BY <3>1
  <2>2. More(Dev, Dev', <<>>, <<>>)  BY <1>3, <1>8, <2>1, DevPut
  <2>3. /\ Grows(Dev, Dev', {})
        /\ \A l, ly, sv : Right(Dev, l, ly, sv) => Right(Dev', l, ly, sv)
        /\ \A u \in Pend(Dev', "main") : u > Stop(Dev, "main") => OpAt(Dev', "main", u).op # "use"
        /\ \A c \in Pend(Dev', "copy") : c > Stop(Dev, "copy") => OpAt(Dev', "copy", c).op # "reload"
    BY <2>2, NothingPut
  <2>4. \A l \in Layers : layers'[l] = AfterRelease[l]  BY <1>1, <1>8
  <2>5. \A l \in Layers : AllNamed(layers'[l]) /\ LayerRight(Dev', pass, l, layers'[l], saved[l])
    BY <1>6, <2>3, <2>4 DEF Right
  <2> QED  BY <1>1, <1>2, <1>3, <1>4, <1>5, <1>7, <2>3, <2>5, StageKept
<1>9. ASSUME NEW r \in Layers, Reloading(r), \A x \in Layers : Reloading(x) => x = r,
             queue' = Put(queue, "copy", ReloadOps(AfterRelease[r], ReloadInto(r), queue))
      PROVE  DInv'
  <2> DEFINE ls == AfterRelease
             blocks == ReloadInto(r)
             C == ReloadOps(ls[r], blocks, queue)
             F == Targets(blocks)
             X == Dev
             Y == Dev'
  <2>1. /\ ls[r].state = "offload_finished" /\ Free(ls[r], blocks, ls, saved)
        /\ r # previousBwd /\ Covered(ls[r], saved[r]) /\ Good(config, pass, r, ls[r], saved[r])
    BY <1>1, <1>6, <1>9 DEF Free, ReloadInto, Right
  <2>2. \E A : C \in Seq(A)
    <3>1. ls[r].cpu = Buffers(config, pass, r)  BY <2>1 DEF Good, Shape
    <3> HIDE DEF ls, blocks
    <3> QED  BY <3>1, ReloadOpsIn
  <2>3. More(X, Y, <<>>, C)
    <3> HIDE DEF C
    <3>1. queue' = Put(queue, "copy", C)  BY <1>9 DEF C
    <3> QED  BY <1>3, <2>2, <3>1, DevPut
  <2>4. /\ Now("copy", queue) = Stop(X, "copy") /\ Now("main", queue) = Stop(X, "main")
        /\ \A x \in Layers : Right(X, x, ls[x], saved[x])
    BY <1>6, DevNow
  <2>5. /\ Grows(X, Y, F) /\ Right(Y, r, StartReload(ls[r], blocks, queue), saved[r])
        /\ \A x \in Layers : x # r => Right(Y, x, ls[x], saved[x])
        /\ \A c \in Pend(Y, "copy") : c > Stop(X, "copy") /\ OpAt(Y, "copy", c).op = "reload" =>
             Keeps(Y, StartReload(ls[r], blocks, queue), saved[r], 1, c)
    <3> HIDE DEF X, Y, ls, blocks
    <3> QED  BY <1>9, <2>1, <2>3, <2>4, ReloadStage
  <2>6. \A x \in Layers : layers'[x] = IF x = r THEN StartReload(ls[r], blocks, queue) ELSE ls[x]
    BY <1>1, <1>9
  <2> HIDE DEF C, F, ls, blocks
  <2>7. \A x \in Layers : AllNamed(layers'[x]) /\ LayerRight(Dev', pass, x, layers'[x], saved[x])
    BY <2>5, <2>6 DEF Right
  <2>8. \A u \in Pend(Dev', "main") : u > Stop(Dev, "main") => OpAt(Dev', "main", u).op # "use"
    <3>1. \A i \in 1..Len(<<>>) : <<>>[i].op # "use"  OBVIOUS
    <3> QED  BY <2>3, <3>1, NoneAdded
  <2>9. \A c \in Pend(Dev', "copy") : c > Stop(Dev, "copy") /\ OpAt(Dev', "copy", c).op = "reload" =>
          \E x \in Layers : Keeps(Dev', layers'[x], saved[x], 1, c)
    BY <1>9, <2>5, <2>6
  <2> QED  BY <1>1, <1>2, <1>3, <1>4, <1>5, <1>7, <2>5, <2>7, <2>8, <2>9, StageKept
<1> QED  BY <1>1, <1>8, <1>9

\* The first layer of a forward: nothing is saved, and nothing reloaded.
LEMMA NextForwardKept ==
  ASSUME IInv, IInv', DInv, NextForward
  PROVE  DInv'
<1> DEFINE sv == [l \in Layers |-> <<>>]
           Z == <<>>
<1>1. /\ pc = "idle" /\ numOfFwds \in {None, NumLayers - 1} /\ FwdStep(sv, pass + 1)
      /\ Unused = {} \/ config.mode = "default"
      /\ deviceVars' = deviceVars /\ done' = done /\ config.retain \in BOOLEAN
  BY ConfigIs DEF NextForward, ForwardDone, deviceVars, IInv, HInv
<1>2. NextFwd = 0  BY <1>1 DEF NextFwd
<1>3. AfterFwdStep = [l \in Layers |-> ReleaseAll(layers[l])]  BY <1>2 DEF AfterFwdStep
<1>4. \A l \in Layers : ~Starts(l) /\ ~Releases(l) /\ Started(l) = ReleaseAll(layers[l])
  <2>1. \A l \in Layers : l \in Nat /\ (config.mode = "default" => NumLayers - config.numLayers + l # 0)
    BY ConfigIs DEF IInv, HInv
  <2> QED  BY <1>2, <1>3, <2>1 DEF Starts, Releases, Started
<1>5. /\ layers' = [l \in Layers |-> IF Releases(l) THEN ReleaseForward(Started(l)) ELSE Started(l)]
      /\ saved' = sv /\ pc' = "forward" /\ config' = config
  BY <1>1, <1>4, FwdStepDoes
<1>6. /\ Layers' = Layers
      /\ \A l \in Layers : layers'[l] = ReleaseAll(layers[l]) /\ saved'[l] = <<>>
  BY <1>4, <1>5 DEF Layers, NumLayers
<1>7. \A l \in Layers : layers'[l].state = "not_offloaded"
  <2> SUFFICES ASSUME NEW l \in Layers  PROVE ReleaseAll(layers[l]).state = "not_offloaded"
    BY <1>6
  <2>1. Good(config, pass, l, layers[l], saved[l])  BY LayerHas
  <2>2. Good(config, pass, l, ReleaseAll(layers[l]), <<>>) /\ ReleaseAll(layers[l]).state = "not_offloaded"
    BY <1>1, <2>1, ReleaseAllGood
  <2> QED  BY <2>2
<1>8. More(Dev, Dev', <<>>, <<>>)
  <2> HIDE DEF sv
  <2>1. HInv /\ pc' # "raised"  BY <1>5 DEF IInv
  <2>2. \E a, b : /\ queue' = Put(Put(queue, "copy", a), "main", b)
                  /\ StartPuts(a) /\ ReleasePuts(b)
    BY <1>1, <2>1, FwdStepPuts
  <2>3. PICK a, b : queue' = Put(Put(queue, "copy", a), "main", b) /\ StartPuts(a) /\ ReleasePuts(b)
    BY <2>2
  <2>4. a = Z /\ b = Z  BY <1>4, <2>3 DEF StartPuts, ReleasePuts
  <2>5. DOMAIN queue = Streams /\ QueuesTyped(queue, done) /\ QueuesTyped(queue', done')
    <3>1. DeviceTyped /\ DeviceTyped'  BY DEF IInv
    <3> QED  BY <3>1 DEF DeviceTyped, QueuesTyped
  <2>6. \E A : Z \in Seq(A)
    <3>1. Z \in Seq({})  OBVIOUS
    <3> QED  BY <3>1
  <2> HIDE DEF Z
  <2>7. queue'["main"] = queue["main"] \o Z /\ queue'["copy"] = queue["copy"] \o Z
    BY <2>3, <2>4, <2>5 DEF Put, Streams
  <2>8. gpu' = gpu /\ pinned' = pinned  BY <1>1 DEF deviceVars
  <2>9. More(Dev, Dev', Z, Z)  BY <1>1, <2>5, <2>6, <2>7, <2>8 DEF More, Dev
  <2> QED  BY <2>9 DEF Z
<1>9. Whole'  BY <1>5, <1>6, <1>7 DEF Whole
<1>10. \A l \in Layers : AllNamed(layers'[l]) /\ LayerRight(Dev', pass', l, layers'[l], saved'[l])
  BY <1>6, <1>7 DEF AllNamed, LayerRight
<1>11. \A l \in Layers : \A c \in Pend(Dev, "copy") : ~Keeps(Dev, layers[l], saved[l], Popped(l), c)
  <2> SUFFICES ASSUME NEW l \in Layers, NEW c, Keeps(Dev, layers[l], saved[l], Popped(l), c)
               PROVE  FALSE
    OBVIOUS
  <2>1. Popped(l) = 1  BY <1>1 DEF Popped
  <2>2. layers[l].state = "reload_started" /\ saved[l] # <<>>  BY <2>1 DEF Keeps
  <2>3. config.mode = "default"  BY <1>1, <2>2 DEF Unused
  <2> QED  BY <1>1, <2>2, <2>3 DEF DInv, Whole
<1>12. /\ Grows(Dev, Dev', {})
       /\ \A u \in Pend(Dev', "main") : u > Stop(Dev, "main") => OpAt(Dev', "main", u).op # "use"
       /\ \A c \in Pend(Dev', "copy") : c > Stop(Dev, "copy") => OpAt(Dev', "copy", c).op # "reload"
  BY <1>8, NothingPut
<1>13. used' = used  BY <1>1 DEF deviceVars
<1> QED  BY <1>6, <1>9, <1>10, <1>11, <1>12, <1>13, HostKept

\* The next layer of a forward: a layer is offloaded, and one is given back.
Mid(a) == [q |-> Put(queue, "copy", a), d |-> done, g |-> gpu, p |-> pinned]

LEMMA MidMore ==
  ASSUME IInv, IInv', NEW a, NEW b, a \in Seq(CopyOps(Now("main", queue))), \E A : b \in Seq(A),
         queue' = Put(Put(queue, "copy", a), "main", b), done' = done, gpu' = gpu, pinned' = pinned
  PROVE  /\ More(Dev, Mid(a), <<>>, a) /\ More(Mid(a), Dev', b, <<>>) /\ More(Dev, Dev', b, a)
<1> DEFINE X == Dev
           Y == Mid(a)
           Z == Dev'
<1>1. QueuesTyped(queue, done) /\ QueuesTyped(queue', done')
  <2>1. DeviceTyped /\ DeviceTyped'  BY DEF IInv
  <2> QED  BY <2>1 DEF DeviceTyped
<1>2. QueuesTyped(Put(queue, "copy", a), done)
  <2>1. Now("main", queue) = End(queue, done, "main")  BY NowIs DEF IInv
  <2> QED  BY <1>1, <2>1, PutCopy
<1>3. /\ X.q = queue /\ X.d = done /\ X.g = gpu /\ X.p = pinned
      /\ Y.q = Put(queue, "copy", a) /\ Y.d = done /\ Y.g = gpu /\ Y.p = pinned
      /\ Z.q = queue' /\ Z.d = done /\ Z.g = gpu /\ Z.p = pinned
  BY DEF Dev, Mid
<1> HIDE DEF X, Y, Z
<1>4. \E A : a \in Seq(A)  OBVIOUS
<1>5. More(X, Y, <<>>, a)  BY <1>1, <1>2, <1>3, <1>4, PutsMore
<1>6. More(Y, Z, b, <<>>)
  <2>1. QueuesTyped(Z.q, Z.d)  BY <1>1, <1>3
  <2>2. Z.q = Put(Y.q, "main", b)  BY <1>3
  <2> QED  BY <1>2, <1>3, <2>1, <2>2, PutsMore
<1>7. More(X, Z, b, a)
  <2>1. DOMAIN queue = Streams  BY <1>1 DEF QueuesTyped
  <2>2. queue'["main"] = queue["main"] \o b /\ queue'["copy"] = queue["copy"] \o a
    BY <2>1 DEF Put, Streams
  <2> QED  BY <1>1, <1>3, <1>4, <2>2 DEF More
<1> QED  BY <1>5, <1>6, <1>7 DEF X, Y, Z

\* One layer of those of the schedule.
LEMMA NextLayerKept ==
  ASSUME IInv, IInv', DInv, NextLayer
  PROVE  DInv'
<1>1. /\ pc = "idle" /\ numOfFwds \in Layers /\ numOfFwds # NumLayers - 1 /\ FwdStep(saved, pass)
      /\ done' = done /\ gpu' = gpu /\ pinned' = pinned /\ used' = used
      /\ None \notin Nat /\ None \notin Layers
      /\ numOfFwds # None /\ Layers = 0..NumLayers - 1 /\ NumLayers \in Nat
  BY ConfigIs DEF NextLayer, ForwardDone, deviceVars, IInv, HInv, HostTyped
<1>2. NextFwd = numOfFwds + 1 /\ NextFwd # 0  BY <1>1 DEF NextFwd
<1>3. AfterFwdStep = layers  BY <1>2 DEF AfterFwdStep
<1>4. /\ config' = config
      /\ \A l \in Layers : Starts(l) => layers[l].state = "not_offloaded"
      /\ \A l \in Layers : Releases(l) => Started(l).state = "offload_started"
      /\ layers' = [l \in Layers |-> IF Releases(l) THEN ReleaseForward(Started(l)) ELSE Started(l)]
      /\ \E a, b : /\ queue' = Put(Put(queue, "copy", a), "main", b)
                   /\ StartPuts(a) /\ ReleasePuts(b)
  <2>1. HInv /\ pc' # "raised"  BY NotRaised DEF IInv
  <2> QED  BY <1>1, <1>3, <2>1, FwdStepPuts
<1>5. saved' = saved /\ pass' = pass /\ pc' = "forward" /\ k' = 1  BY <1>1, <1>3, <1>4, FwdStepDoes
<1>6. ASSUME NEW l \in Layers, Starts(l)
      PROVE  Len(saved[l]) = N /\ ~Direct(config, l)
  <2>1. l = numOfFwds /\ config.mode = "default" /\ l \in Nat  BY <1>1, <1>2, <1>6 DEF Starts
  <2>2. PICK b \in 0..NumLayers : Schedule(b)  BY <2>1 DEF IInv, HInv, OnSchedule
  <2>3. b = NumLayers /\ l < b  BY <1>1, <2>2 DEF Schedule, SchedulePhase
  <2>4. ScheduleLayer(l, b)  BY <2>2 DEF Schedule
  <2>5. Len(saved[l]) = N  BY <1>1, <2>1, <2>3, <2>4 DEF ScheduleLayer, Filling
  <2>6. ~Direct(config, l)  BY <1>6 DEF Starts, Offloads, Direct
  <2> QED  BY <2>5, <2>6
<1>7. ASSUME NEW l \in Layers
      PROVE  /\ Right(Dev, l, layers[l], saved[l]) /\ Covered(layers[l], saved[l])
             /\ Good(config, pass, l, layers[l], saved[l])
  BY <1>1, LayerHas, RightNow DEF Lengths, Spent
<1>8. PICK a, b : queue' = Put(Put(queue, "copy", a), "main", b) /\ StartPuts(a) /\ ReleasePuts(b)
  BY <1>4
<1>9. ASSUME NEW l \in Layers, Starts(l)
      PROVE  /\ OffloadOps(l, layers[l]) \in Seq(CopyOps(Now("main", queue)))
             /\ Started(l) = StartOffload(l, layers[l], queue)
             /\ Covered(Started(l), saved[l])
  <2>1. EventsBy(layers[l], Now("main", queue), Now("copy", queue)) /\ Now("copy", queue) \in Nat
    BY LayerIs
  <2>2. OffloadOps(l, layers[l]) \in Seq(CopyOps(Now("main", queue)))
    BY <1>4, <1>6, <1>7, <1>9, <2>1, OffloadPut
  <2>3. Started(l) = StartOffload(l, layers[l], queue)  BY <1>3, <1>9 DEF Started
  <2>4. Covered(StartOffload(l, layers[l], queue), saved[l])
    BY <1>4, <1>6, <1>7, <1>9, <2>1, StartOffloadGood
  <2> QED  BY <2>2, <2>3, <2>4
<1>10. \A l \in Layers : ~Starts(l) => Started(l) = layers[l]  BY <1>3 DEF Started
<1>11. \A l \in Layers : Covered(Started(l), saved[l])  BY <1>7, <1>9, <1>10
<1>12. a \in Seq(CopyOps(Now("main", queue))) /\ \A i \in 1..Len(a) : a[i].op # "reload"
  <2>1. CASE a = <<>>  BY <2>1
  <2>2. ASSUME NEW l \in Layers, Starts(l), a = OffloadOps(l, layers[l])
        PROVE  a \in Seq(CopyOps(Now("main", queue))) /\ \A i \in 1..Len(a) : a[i].op # "reload"
    <3>1. a \in Seq(CopyOps(Now("main", queue)))  BY <1>9, <2>2
    <3>2. \A i \in 1..Len(OffloadOps(l, layers[l])) : OffloadOps(l, layers[l])[i].op \in {"wait", "offload"}
      BY <1>4, <1>6, <1>7, <2>2, OffloadOpsIn
    <3> QED  BY <2>2, <3>1, <3>2
  <2> QED  BY <1>3, <1>8, <2>1, <2>2 DEF StartPuts
<1>13. (\E A : b \in Seq(A)) /\ \A i \in 1..Len(b) : b[i].op = "wait"
  <2>1. CASE b = <<>>
    <3>1. b \in Seq({})  BY <2>1
    <3> QED  BY <2>1, <3>1
  <2>2. ASSUME NEW l \in Layers, b = ReleaseOps(Started(l)), b # <<>>
        PROVE  (\E A : b \in Seq(A)) /\ \A i \in 1..Len(b) : b[i].op = "wait"
    <3> DEFINE w == Wait("copy", Started(l).finished)
    <3>1. b = <<w>>  BY <2>2 DEF ReleaseOps
    <3>2. w.op = "wait"  BY DEF Wait
    <3> HIDE DEF w
    <3>3. b \in Seq({w})  BY <3>1
    <3>4. Len(b) = 1 /\ b[1] = w  BY <3>1
    <3>5. \A i \in 1..Len(b) : b[i].op = "wait"  BY <3>2, <3>4
    <3> QED  BY <3>3, <3>5
  <2> QED  BY <1>8, <2>1, <2>2 DEF ReleasePuts
<1> DEFINE X == Dev
           Y == Mid(a)
           Z == Dev'
<1>14. More(X, Y, <<>>, a) /\ More(Y, Z, b, <<>>) /\ More(X, Z, b, a)
  BY <1>1, <1>8, <1>12, <1>13, MidMore
<1>15. Now("copy", queue) = Stop(X, "copy")  BY DevNow
<1>16. \A l \in Layers : Right(X, l, layers[l], saved[l])  BY <1>7
<1> HIDE DEF X, Y, Z
<1>17. ASSUME NEW l \in Layers  PROVE Right(Y, l, Started(l), saved[l])
  <2>1. CASE a = <<>> /\ \A x \in Layers : ~Starts(x)
    <3>1. More(X, Y, <<>>, <<>>)  BY <1>14, <2>1
    <3> QED  BY <1>10, <1>16, <2>1, <3>1, NothingPut
  <2>2. ASSUME NEW r \in Layers, Starts(r), a = OffloadOps(r, layers[r]),
               \A x \in Layers : Starts(x) => x = r
        PROVE  Right(Y, l, Started(l), saved[l])
    <3>1. More(X, Y, <<>>, OffloadOps(r, layers[r]))  BY <1>14, <2>2
    <3>2. /\ Covered(layers[r], saved[r]) /\ layers[r].state = "not_offloaded" /\ ~Direct(config, r)
          /\ Len(saved[r]) = N
      BY <1>4, <1>6, <1>7, <2>2
    <3>3. /\ Right(Y, r, StartOffload(r, layers[r], queue), saved[r])
          /\ \A x \in Layers : x # r => Right(Y, x, layers[x], saved[x])
      BY <1>15, <1>16, <3>1, <3>2, OffloadStage
    <3> QED  BY <1>9, <1>10, <2>2, <3>3
  <2> QED  BY <1>3, <1>8, <2>1, <2>2 DEF StartPuts
<1>18. \A l \in Layers : layers'[l] = IF Releases(l) THEN ReleaseForward(Started(l)) ELSE Started(l)
  BY <1>4
<1>19. ASSUME NEW l \in Layers  PROVE Right(Z, l, layers'[l], saved[l])
  <2>1. CASE b = <<>> /\ \A x \in Layers : ~Releases(x)
    <3>1. More(Y, Z, <<>>, <<>>)  BY <1>14, <2>1
    <3> QED  BY <1>17, <1>18, <2>1, <3>1, NothingPut
  <2>2. ASSUME NEW r \in Layers, Releases(r), b = ReleaseOps(Started(r)),
               \A x \in Layers : Releases(x) => x = r
        PROVE  Right(Z, l, layers'[l], saved[l])
    <3> DEFINE ls == [x \in Layers |-> Started(x)]
    <3>1. \A x \in Layers : ls[x] = Started(x)  OBVIOUS
    <3> HIDE DEF ls
    <3>2. More(Y, Z, ReleaseOps(ls[r]), <<>>)  BY <1>14, <2>2, <3>1
    <3>3. Covered(ls[r], saved[r]) /\ ls[r].state = "offload_started"  BY <1>4, <1>11, <2>2, <3>1
    <3>4. \A x \in Layers : Right(Y, x, ls[x], saved[x])  BY <1>17, <3>1
    <3>5. /\ Right(Z, r, ReleaseForward(ls[r]), saved[r])
          /\ \A x \in Layers : x # r => Right(Z, x, ls[x], saved[x])
      BY <3>2, <3>3, <3>4, ReleaseStage
    <3> QED  BY <1>18, <2>2, <3>1, <3>5
  <2> QED  BY <1>8, <2>1, <2>2 DEF ReleasePuts
<1>20. Grows(X, Z, {})
  <2>1. AfterMain(a, Stop(X, "main"))  BY <1>12 DEF AfterMain
  <2>2. \A i \in 1..Len(b) : b[i].op # "compute"  BY <1>13
  <2> QED  BY <1>12, <1>14, <2>1, <2>2, MoreGrows
<1>21. /\ \A u \in Pend(Z, "main") : u > Stop(X, "main") => OpAt(Z, "main", u).op # "use"
       /\ \A c \in Pend(Z, "copy") : c > Stop(X, "copy") => OpAt(Z, "copy", c).op # "reload"
  <2>1. \A i \in 1..Len(b) : b[i].op # "use"  BY <1>13
  <2> QED  BY <1>12, <1>14, <2>1, NoneAdded
<1>22. \A l \in Layers : AllNamed(layers'[l]) /\ LayerRight(Z, pass, l, layers'[l], saved[l])
  BY <1>19 DEF Right
<1>23. ASSUME NEW l \in Layers
       PROVE  /\ layers'[l] = layers[l] \/ layers[l].state # "reload_started" \/ saved[l] = <<>>
              /\ layers'[l].state = "reload_started" => layers[l].state = "reload_started"
  <2>1. CASE Releases(l)
    <3>1. layers'[l].state = "offload_finished"
      <4>1. Good(config, pass, l, Started(l), saved[l])  BY <1>17 DEF Right
      <4> QED  BY <1>4, <1>11, <1>18, <2>1, <4>1, ReleaseForwardGood
    <3>2. CASE Starts(l)  BY <1>4, <3>1, <3>2
    <3>3. CASE ~Starts(l)
      <4>1. layers[l].state = "offload_started"  BY <1>4, <1>10, <2>1, <3>3
      <4> QED  BY <3>1, <4>1
    <3> QED  BY <3>2, <3>3
  <2>2. CASE ~Releases(l) /\ Starts(l)
    <3>1. Started(l).state = "offload_started"
      <4>1. Now("copy", queue) \in Nat  BY LayerIs
      <4> QED  BY <1>4, <1>6, <1>7, <1>9, <2>2, <4>1, StartOffloadGood
    <3> QED  BY <1>4, <1>18, <2>2, <3>1
  <2>3. CASE ~Releases(l) /\ ~Starts(l)  BY <1>10, <1>18, <2>3
  <2> QED  BY <2>1, <2>2, <2>3
<1>24. Whole'
  <2>1. Layers' = Layers  BY <1>4 DEF Layers, NumLayers
  <2> QED  BY <1>1, <1>4, <1>5, <1>23, <2>1 DEF DInv, Whole
<1>25. \A l \in Layers : Popped(l) = 1 /\ Popped(l)' = 1  BY <1>1, <1>5 DEF Popped
<1> QED  BY <1>1, <1>4, <1>5, <1>20, <1>21, <1>22, <1>23, <1>24, <1>25, StageKept DEF X, Z

\* push_tensor returns the tensor itself, or an index into the group it adds it to.
LEMMA PushIs ==
  ASSUME HInv, pc = "forward", k <= N, NEW block, NEW q, Push(numOfFwds, block, q), pc' # "raised"
  PROVE  /\ pc' = "forward" /\ queue' = q /\ config' = config /\ pass' = pass
         /\ numOfFwds \in Layers /\ layers[numOfFwds].state = "not_offloaded"
         /\ Good(config, pass, numOfFwds, layers[numOfFwds], saved[numOfFwds])
         /\ Len(saved[numOfFwds]) + 1 = k
         /\ \A l \in Layers : l # numOfFwds => layers'[l] = layers[l] /\ saved'[l] = saved[l]
         /\ \/ /\ layers'[numOfFwds] = layers[numOfFwds]
               /\ saved'[numOfFwds] = Append(saved[numOfFwds], [kind |-> "tensor", at |-> block])
            \/ /\ layers'[numOfFwds] =
                    Pushed(layers[numOfFwds], [block |-> block, ready |-> Now("main", q)])
               /\ saved'[numOfFwds] = Append(saved[numOfFwds], Index(layers[numOfFwds]))
<1> DEFINE f == numOfFwds
<1>1. /\ f \in Layers /\ k \in 1..N /\ Len(saved[f]) = k - 1 /\ layers[f].state = "not_offloaded"
      /\ Good(config, pass, f, layers[f], saved[f]) /\ N \in Nat
  BY FillingIs, CountFinite
<1>2. DOMAIN layers = Layers /\ DOMAIN saved = Layers  BY DEF HInv, HostTyped
<1> HIDE DEF f
<1>3. /\ pc' = "forward" /\ queue' = q /\ config' = config /\ pass' = pass
      /\ \/ /\ saved' = [saved EXCEPT ![f] = Append(@, [kind |-> "tensor", at |-> block])]
            /\ layers' = layers
         \/ /\ saved' = [saved EXCEPT ![f] = Append(@, [kind |-> "index", at |-> Len(layers[f].fwd) + 1])]
            /\ layers' = [layers EXCEPT ![f].fwd = Append(@, [block |-> block, ready |-> Now("main", q)])]
  BY <1>1 DEF Push, Raise, syncVars, f
<1>4. Len(saved[f]) + 1 = k  BY <1>1
<1>5. CASE /\ saved' = [saved EXCEPT ![f] = Append(@, [kind |-> "tensor", at |-> block])]
           /\ layers' = layers
  BY <1>1, <1>2, <1>3, <1>4, <1>5 DEF f
<1>6. CASE /\ saved' = [saved EXCEPT ![f] = Append(@, [kind |-> "index", at |-> Len(layers[f].fwd) + 1])]
           /\ layers' = [layers EXCEPT ![f].fwd = Append(@, [block |-> block, ready |-> Now("main", q)])]
  BY <1>1, <1>2, <1>3, <1>4, <1>6 DEF Pushed, Index, f
<1> QED  BY <1>3, <1>5, <1>6

\* Either stands for the tensor.
LEMMA PushRight ==
  ASSUME NEW X, NEW c, NEW p, NEW l, NEW ly, NEW sv, Good(c, p, l, ly, sv),
         ly.state = "not_offloaded", LayerRight(X, p, l, ly, sv), NEW block, NEW at, at = Stop(X, "main"),
         OnMain(X, block, at, Value(p, l, Saves[Len(sv) + 1]))
  PROVE  /\ LayerRight(X, p, l, ly, Append(sv, [kind |-> "tensor", at |-> block]))
         /\ LayerRight(X, p, l, Pushed(ly, [block |-> block, ready |-> at]), Append(sv, Index(ly)))
<1> DEFINE n == Len(sv) + 1
           v == Value(p, l, Saves[n])
           t == [block |-> block, ready |-> at]
           x == [kind |-> "tensor", at |-> block]
           y == Index(ly)
           new == Pushed(ly, t)
<1>1. sv \in Seq(Items) /\ ly.fwd \in Seq(Tensors) /\ Len(sv) \in Nat /\ Len(ly.fwd) \in Nat
  <2>1. sv \in Seq(Items) /\ ly.fwd \in Seq(Tensors)  BY DEF Good, SavedAre, Typed
  <2> QED  BY <2>1
<1>2. ASSUME NEW z
      PROVE  /\ Len(Append(sv, z)) = n /\ Append(sv, z)[n] = z
             /\ \A j \in 1..n : j # n => j \in 1..Len(sv) /\ Append(sv, z)[j] = sv[j]
  BY <1>1
<1>3. /\ new.state = "not_offloaded" /\ new.fwd = Append(ly.fwd, t)  BY DEF Pushed, Good, Typed
<1>4. /\ Append(ly.fwd, t)[Len(ly.fwd) + 1] = t
      /\ \A i \in DOMAIN ly.fwd : Append(ly.fwd, t)[i] = ly.fwd[i]
  BY <1>1
<1>5. SavedRight(X, ly, x, v)
  <2>1. x.kind = "tensor" /\ x.at = block /\ OnMain(X, block, Stop(X, "main"), v)  OBVIOUS
  <2> HIDE DEF x, v
  <2> QED  BY <2>1 DEF SavedRight
<1>6. SavedRight(X, new, y, v)
  <2>1. y.kind = "index" /\ new.fwd[y.at] = t  BY <1>3, <1>4 DEF Index
  <2>2. OnMain(X, new.fwd[y.at].block, new.fwd[y.at].ready, v)  BY <2>1
  <2> HIDE DEF new, y, v
  <2> QED  BY <1>3, <2>1, <2>2 DEF SavedRight
<1>7. ASSUME NEW j \in 1..Len(sv), NEW w, SavedRight(X, ly, sv[j], w)
      PROVE  SavedRight(X, new, sv[j], w)
  <2>1. sv[j].kind = "index" => sv[j].at \in DOMAIN ly.fwd  BY DEF Good, SavedAre, Group
  <2>2. sv[j].kind = "index" => new.fwd[sv[j].at] = ly.fwd[sv[j].at]  BY <1>3, <1>4, <2>1
  <2> HIDE DEF new
  <2> QED  BY <1>3, <1>7, <2>2 DEF SavedRight
<1> HIDE DEF x, y, v, t, new
<1>8. LayerRight(X, p, l, ly, Append(sv, x))
  <2>1. ASSUME NEW j \in 1..n  PROVE SavedRight(X, ly, Append(sv, x)[j], Value(p, l, Saves[j]))
    BY <1>2, <1>5, <2>1 DEF LayerRight, v
  <2> QED  BY <1>2, <2>1 DEF LayerRight
<1>9. LayerRight(X, p, l, new, Append(sv, y))
  <2>1. ASSUME NEW j \in 1..n  PROVE SavedRight(X, new, Append(sv, y)[j], Value(p, l, Saves[j]))
    BY <1>2, <1>6, <1>7, <2>1 DEF LayerRight, v
  <2> QED  BY <1>2, <2>1 DEF LayerRight
<1> QED  BY <1>8, <1>9 DEF x, y, t, new

\* push_tensor of a block that holds the tensor once the main stream is where it is now.
LEMMA PushKept ==
  ASSUME IInv, IInv', DInv, pc = "forward", k <= N, NEW block, NEW q, Push(numOfFwds, block, q),
         used' = used, NEW F, Grows(Dev, Dev', F), Now("main", q) = Stop(Dev', "main"),
         \A u \in Pend(Dev', "main") : u > Stop(Dev, "main") => OpAt(Dev', "main", u).op # "use",
         \A c \in Pend(Dev', "copy") : c > Stop(Dev, "copy") => OpAt(Dev', "copy", c).op # "reload",
         \A l \in Layers : LayerRight(Dev', pass, l, layers[l], saved[l]),
         OnMain(Dev', block, Stop(Dev', "main"), Value(pass, numOfFwds, Saves[k]))
  PROVE  DInv'
<1> DEFINE f == numOfFwds
           t == [block |-> block, ready |-> Now("main", q)]
           x == [kind |-> "tensor", at |-> block]
<1>1. HInv /\ pc' # "raised"  BY NotRaised DEF IInv
<1>2. /\ pc' = "forward" /\ config' = config /\ pass' = pass
      /\ f \in Layers /\ layers[f].state = "not_offloaded"
      /\ Good(config, pass, f, layers[f], saved[f]) /\ Len(saved[f]) + 1 = k
      /\ \A l \in Layers : l # f => layers'[l] = layers[l] /\ saved'[l] = saved[l]
      /\ \/ layers'[f] = layers[f] /\ saved'[f] = Append(saved[f], x)
         \/ layers'[f] = Pushed(layers[f], t) /\ saved'[f] = Append(saved[f], Index(layers[f]))
  BY <1>1, PushIs
<1>3. /\ LayerRight(Dev', pass, f, layers[f], Append(saved[f], x))
      /\ LayerRight(Dev', pass, f, Pushed(layers[f], t), Append(saved[f], Index(layers[f])))
  <2> DEFINE Y == Dev'
  <2>1. /\ LayerRight(Y, pass, f, layers[f], saved[f]) /\ Now("main", q) = Stop(Y, "main")
        /\ OnMain(Y, block, Now("main", q), Value(pass, f, Saves[Len(saved[f]) + 1]))
    BY <1>2
  <2> HIDE DEF Y, f
  <2>2. /\ LayerRight(Y, pass, f, layers[f], Append(saved[f], x))
        /\ LayerRight(Y, pass, f, Pushed(layers[f], t), Append(saved[f], Index(layers[f])))
    BY <1>2, <2>1, PushRight
  <2> QED  BY <2>2 DEF Y
<1>4. layers'[f].state = "not_offloaded"
  <2>1. Pushed(layers[f], t).state = "not_offloaded"  BY <1>2 DEF Pushed, Good, Typed
  <2> QED  BY <1>2, <2>1
<1> HIDE DEF f, t, x
<1>5. ASSUME NEW l \in Layers
      PROVE  /\ AllNamed(layers'[l]) /\ LayerRight(Dev', pass, l, layers'[l], saved'[l])
             /\ layers'[l].state = layers[l].state
  <2>1. CASE l = f
    <3>1. LayerRight(Dev', pass, l, layers'[l], saved'[l])  BY <1>2, <1>3, <2>1
    <3> QED  BY <1>2, <1>4, <2>1, <3>1 DEF AllNamed
  <2>2. CASE l # f
    <3>1. AllNamed(layers[l])  BY DEF DInv
    <3> QED  BY <1>2, <2>2, <3>1
  <2> QED  BY <2>1, <2>2
<1>6. Layers' = Layers  BY <1>2 DEF Layers, NumLayers
<1>7. Whole'  BY <1>2, <1>5, <1>6 DEF DInv, Whole
<1>8. ASSUME NEW l \in Layers, NEW c \in Pend(Dev, "copy"), Keeps(Dev, layers[l], saved[l], Popped(l), c)
      PROVE  Keeps(Dev', layers'[l], saved'[l], Popped(l)', c)
  <2>1. layers[l].state = "reload_started"  BY <1>8 DEF Keeps
  <2>2. layers'[l] = layers[l] /\ saved'[l] = saved[l]  BY <1>2, <2>1
  <2>3. Popped(l)' = Popped(l)  BY <1>2 DEF Popped
  <2>4. Keeps(Dev', layers[l], saved[l], Popped(l), c)  BY <1>8, KeptGrows
  <2> QED  BY <2>2, <2>3, <2>4
<1>9. \A l \in Layers : AllNamed(layers'[l]) /\ LayerRight(Dev', pass', l, layers'[l], saved'[l])
  BY <1>2, <1>5
<1>10. \A u \in Pend(Dev', "main") : u > Stop(Dev, "main") /\ OpAt(Dev', "main", u).op = "use" =>
         LET o == OpAt(Dev', "main", u) IN
         Gets(Dev', o.block, "main", u, Value(o.pass, o.layer, Saves[o.k]))
  OBVIOUS
<1>11. \A c \in Pend(Dev', "copy") : c > Stop(Dev, "copy") /\ OpAt(Dev', "copy", c).op = "reload" =>
         \E l \in Layers : Keeps(Dev', layers'[l], saved'[l], Popped(l)', c)
  OBVIOUS
<1> QED  BY <1>6, <1>7, <1>8, <1>9, <1>10, <1>11, HostKept

\* A reload that is queued is not into a free block, unless the main stream waits for it.
LEMMA FreeWaited ==
  ASSUME IInv, DInv, NEW block, \A l \in Layers : block \notin Held(layers[l], saved[l]),
         NEW c \in Writes(Dev, block, "copy")
  PROVE  Waited(Dev, c)
<1>1. c \in Pend(Dev, "copy") /\ OpAt(Dev, "copy", c).block = block /\ OpAt(Dev, "copy", c).op = "reload"
  <2>1. QueuesTyped(Dev.q, Dev.d) /\ "copy" \in Streams  BY DevNow DEF Streams
  <2> DEFINE X == Dev
  <2> HIDE DEF X
  <2>2. QueuesTyped(X.q, X.d) /\ c \in Writes(X, block, "copy")  BY <2>1 DEF X
  <2>3. c \in Pend(X, "copy") /\ OpAt(X, "copy", c).block = block /\ OpAt(X, "copy", c).op = "reload"
    BY <2>1, <2>2, WritesAre
  <2> QED  BY <2>3 DEF X
<1>2. SUFFICES ASSUME NEW l \in Layers, Keeps(Dev, layers[l], saved[l], Popped(l), c)  PROVE FALSE
  BY <1>1 DEF DInv, ReloadsKept
<1>3. PICK j \in Popped(l)..Len(saved[l]) :
        /\ saved[l][j].kind = "index"
        /\ layers[l].bwd[saved[l][j].at].block = block
  BY <1>1, <1>2 DEF Keeps
<1>4. layers[l].state = "reload_started"  BY <1>2 DEF Keeps
<1>5. j \in 1..Len(saved[l])
  <2>1. Popped(l) \in Nat /\ Popped(l) >= 1
    <3>1. pc = "unpack" => k \in 1..N + 1 /\ N \in Nat  BY CountFinite DEF IInv, HInv, HostTyped
    <3> QED  BY <3>1 DEF Popped
  <2>2. Len(saved[l]) \in Nat
    <3>1. saved[l] \in Seq(Items)  BY LayerHas DEF Good, SavedAre
    <3> QED  BY <3>1
  <2> QED  BY <1>3, <2>1, <2>2
<1>6. Good(config, pass, l, layers[l], saved[l])  BY LayerHas
<1> QED  BY <1>3, <1>4, <1>5, <1>6, HeldIs

\* A kernel computes a tensor, and it is saved.
LEMMA SaveTensorKept ==
  ASSUME IInv, IInv', DInv, SaveTensor
  PROVE  DInv'
<1> DEFINE fr == FreeBlocks(layers, saved)
           block == Allocate(1, fr)[1]
           op == ComputeOp(block)
           q == Put(queue, "main", <<op>>)
           C == <<>>
           X == Dev
           Y == Dev'
           v == Value(pass, numOfFwds, Saves[k])
<1>1. /\ pc = "forward" /\ k <= N /\ fr # {} /\ Push(numOfFwds, block, q)
      /\ done' = done /\ gpu' = gpu /\ pinned' = pinned /\ used' = used
  BY DEF SaveTensor, N, ComputeOp, deviceVars
<1>2. block \in Blocks /\ \A l \in Layers : block \notin HeldBy(layers, saved, l)
  BY <1>1, OneFits, Allocated
<1>3. \A l \in Layers : block \notin Held(layers[l], saved[l])  BY <1>2 DEF HeldBy, Held
<1> HIDE DEF fr, block
<1>4. op.op = "compute" /\ op.block = block /\ op.value = v  BY DEF ComputeOp
<1> HIDE DEF op, v
<1>5. queue' = q
  <2>1. HInv /\ pc' # "raised"  BY NotRaised DEF IInv
  <2> HIDE DEF q
  <2> QED  BY <1>1, <2>1, PushIs
<1>6. More(X, Y, <<op>>, C)
  <2> DEFINE ops == <<op>>
  <2>1. \E A : ops \in Seq(A)
    <3>1. ops \in Seq({op})  OBVIOUS
    <3> QED  BY <3>1
  <2>2. queue' = Put(queue, "main", ops)  BY <1>5
  <2> HIDE DEF ops
  <2>3. More(X, Y, ops, <<>>)  BY <1>1, <2>1, <2>2, DevPut
  <2> QED  BY <2>3 DEF ops
<1>7. Now("main", q) = Stop(Y, "main")
  <2>1. Y.q = q /\ Y.d = done  BY <1>1, <1>5 DEF Dev
  <2> HIDE DEF Y, q
  <2> QED  BY <2>1 DEF Stop, End, Now
<1>8. \A c \in Writes(X, block, "copy") : Waited(X, c)  BY <1>3, FreeWaited
<1>9. \A l \in Layers : Right(X, l, layers[l], saved[l])  BY RightNow
<1> HIDE DEF X, Y, q
<1>10. Len(C) = 0 /\ Len(<<op>>) = 1 /\ <<op>>[1] = op  OBVIOUS
<1>11. Grows(X, Y, {block})
  <2> DEFINE ops == <<op>>
  <2>1. Len(ops) = 1 /\ ops[1] = op /\ More(X, Y, ops, C) /\ Len(C) = 0  BY <1>6, <1>10
  <2> HIDE DEF ops, C
  <2>2. /\ \A i \in 1..Len(ops) : ops[i].op = "compute" => ops[i].block \in {block}
        /\ \A i \in 1..Len(C) : C[i].op = "reload" => C[i].block \in {block}
        /\ AfterMain(C, Stop(X, "main"))
    BY <1>4, <2>1 DEF AfterMain
  <2> QED  BY <2>1, <2>2, MoreGrows
<1>12. OnMain(Y, block, Stop(Y, "main"), v)
  <2>1. OnMain(Y, op.block, Stop(Y, "main"), op.value)  BY <1>4, <1>6, <1>8, <1>11, NewComputed
  <2> QED  BY <1>4, <2>1
<1>13. ASSUME NEW l \in Layers  PROVE LayerRight(Y, pass, l, layers[l], saved[l])
  <2> DEFINE ly == layers[l]
             sv == saved[l]
  <2>1. Right(X, l, ly, sv) /\ \A b \in Held(ly, sv) : b \notin {block}  BY <1>3, <1>9
  <2> HIDE DEF ly, sv
  <2>2. NoFills(X, Y, ly)  BY <1>6, <1>10, NoFillsMore
  <2>3. Right(Y, l, ly, sv)  BY <1>11, <2>1, <2>2, RightGrows
  <2> QED  BY <2>3 DEF Right, ly, sv
<1>14. /\ \A u \in Pend(Y, "main") : u > Stop(X, "main") => OpAt(Y, "main", u).op # "use"
       /\ \A c \in Pend(Y, "copy") : c > Stop(X, "copy") => OpAt(Y, "copy", c).op # "reload"
  <2> DEFINE ops == <<op>>
  <2>1. Len(ops) = 1 /\ ops[1] = op /\ More(X, Y, ops, C) /\ Len(C) = 0  BY <1>6, <1>10
  <2> HIDE DEF ops, C
  <2>2. (\A i \in 1..Len(ops) : ops[i].op # "use") /\ \A i \in 1..Len(C) : C[i].op # "reload"
    BY <1>4, <2>1
  <2> QED  BY <2>1, <2>2, NoneAdded
<1>15. /\ Grows(Dev, Dev', {block}) /\ Now("main", q) = Stop(Dev', "main")
       /\ \A u \in Pend(Dev', "main") : u > Stop(Dev, "main") => OpAt(Dev', "main", u).op # "use"
       /\ \A c \in Pend(Dev', "copy") : c > Stop(Dev, "copy") => OpAt(Dev', "copy", c).op # "reload"
       /\ \A l \in Layers : LayerRight(Dev', pass, l, layers[l], saved[l])
       /\ OnMain(Dev', block, Stop(Dev', "main"), Value(pass, numOfFwds, Saves[k]))
  BY <1>7, <1>11, <1>12, <1>13, <1>14 DEF X, Y, v
<1> QED  BY <1>1, <1>15, PushKept

\* A tensor saved before is saved again: its block holds it.
LEMMA SaveAgainKept ==
  ASSUME IInv, IInv', DInv, SaveAgain
  PROVE  DInv'
<1> DEFINE f == numOfFwds
           j == CHOOSE i \in Earlier : TRUE
           block == IF saved[f][j].kind = "tensor" THEN saved[f][j].at
                    ELSE layers[f].fwd[saved[f][j].at].block
           v == Value(pass, f, Saves[k])
<1>1. /\ pc = "forward" /\ k <= N /\ j \in Earlier /\ Push(f, block, queue)
      /\ done' = done /\ gpu' = gpu /\ pinned' = pinned /\ used' = used
  BY DEF SaveAgain, N, deviceVars
<1> HIDE DEF j
<1>2. j \in 1..k - 1 /\ Saves[j] = Saves[k]  BY <1>1 DEF Earlier
<1>3. /\ f \in Layers /\ Good(config, pass, f, layers[f], saved[f]) /\ j \in 1..Len(saved[f])
      /\ layers[f].state = "not_offloaded"
  BY <1>1, <1>2, FillingIs DEF IInv
<1>4. SavedRight(Dev, layers[f], saved[f][j], v)
  <2>1. LayerRight(Dev, pass, f, layers[f], saved[f])  BY <1>3, LayerHas
  <2> QED  BY <1>2, <1>3, <2>1 DEF LayerRight
<1>5. saved[f][j].kind = "tensor" \/ saved[f][j].kind = "index"  BY <1>3, ItemKinds
<1>6. OnMain(Dev, block, Stop(Dev, "main"), v)
  <2>1. CASE saved[f][j].kind = "tensor"  BY <1>4, <2>1 DEF SavedRight
  <2>2. CASE saved[f][j].kind = "index"
    <3> DEFINE t == layers[f].fwd[saved[f][j].at]
    <3>1. block = t.block /\ OnMain(Dev, t.block, t.ready, v)  BY <1>3, <1>4, <2>2 DEF SavedRight
    <3>2. saved[f][j].at \in DOMAIN layers[f].fwd  BY <1>3, <2>2 DEF Good, SavedAre, Group
    <3>3. t \in Tensors /\ t.ready <= Now("main", queue)
      <4>1. layers[f].fwd \in Seq(Tensors) /\ EventsBy(layers[f], Now("main", queue), Now("copy", queue))
        BY <1>3, LayerIs
      <4> QED  BY <3>2, <4>1 DEF EventsBy
    <3>4. t.ready \in Nat  BY <3>3 DEF Tensors
    <3> HIDE DEF t, block, v
    <3>5. /\ QueuesTyped(Dev.q, Dev.d) /\ Now("main", queue) = Stop(Dev, "main")
          /\ Stop(Dev, "main") \in Nat
      BY DevNow
    <3> DEFINE X == Dev
    <3>6. /\ QueuesTyped(X.q, X.d) /\ Stop(X, "main") \in Nat /\ t.ready <= Stop(X, "main")
          /\ OnMain(X, t.block, t.ready, v)
      BY <3>1, <3>3, <3>5
    <3> HIDE DEF X
    <3>7. OnMain(X, t.block, Stop(X, "main"), v)  BY <3>4, <3>6, OnMainLater
    <3> QED  BY <3>1, <3>7 DEF X
  <2> QED  BY <1>5, <2>1, <2>2
<1> HIDE DEF block
<1>7. queue' = queue
  <2>1. HInv /\ pc' # "raised"  BY NotRaised DEF IInv
  <2> QED  BY <1>1, <2>1, PushIs
<1>8. Dev' = Dev  BY <1>1, <1>7 DEF Dev
<1>9. QueuesTyped(Dev.q, Dev.d) /\ Now("main", queue) = Stop(Dev, "main")  BY DevNow
<1> DEFINE X == Dev
<1>10. QueuesTyped(X.q, X.d)  BY <1>9
<1> HIDE DEF X
<1>11. /\ Grows(X, X, {})
       /\ \A u \in Pend(X, "main") : ~(u > Stop(X, "main"))
       /\ \A c \in Pend(X, "copy") : ~(c > Stop(X, "copy"))
  <2>1. "main" \in Streams /\ "copy" \in Streams  BY DEF Streams
  <2>2. \A s \in Streams : Stop(X, s) \in Nat /\ \A p \in Pend(X, s) : p \in Nat /\ p <= Stop(X, s)
    BY <1>10, Positions
  <2> QED  BY <1>10, <2>1, <2>2, NothingGrows
<1>12. /\ Grows(Dev, Dev', {}) /\ Now("main", queue) = Stop(Dev', "main")
       /\ \A u \in Pend(Dev', "main") : u > Stop(Dev, "main") => OpAt(Dev', "main", u).op # "use"
       /\ \A c \in Pend(Dev', "copy") : c > Stop(Dev, "copy") => OpAt(Dev', "copy", c).op # "reload"
       /\ \A l \in Layers : LayerRight(Dev', pass, l, layers[l], saved[l])
       /\ OnMain(Dev', block, Stop(Dev', "main"), Value(pass, numOfFwds, Saves[k]))
  BY <1>6, <1>8, <1>9, <1>11, LayerHas DEF X
<1> QED  BY <1>1, <1>12, PushKept

\* pop_tensor: a kernel is to read block b, which is the tensor.
LEMMA PopKept ==
  ASSUME IInv, DInv, pc = "unpack", k \in Nat, currentLayer = Head(agenda),
         config' = config, pass' = pass, layers' = layers, saved' = saved, pc' = pc, agenda' = agenda,
         currentLayer' = currentLayer, previousBwd' = previousBwd, k' = k + 1, used' = used,
         NEW ops, NEW b, More(Dev, Dev', ops, <<>>), ops[Len(ops)] = Reads(b),
         \A i \in 1..Len(ops) : i # Len(ops) => ops[i].op = "wait",
         Gets(Dev', b, "main", Stop(Dev', "main"), Value(pass, currentLayer, Saves[k])),
         \A c \in Pend(Dev, "copy") : Keeps(Dev, layers[currentLayer], saved[currentLayer], k, c) =>
           Waited(Dev', c) \/ Keeps(Dev, layers[currentLayer], saved[currentLayer], k + 1, c)
  PROVE  DInv'
<1> DEFINE X == Dev
           Y == Dev'
           C == <<>>
           n == Len(ops)
           use == Reads(b)
<1>1. use.op = "use" /\ use.block = b /\ use.pass = pass /\ use.layer = currentLayer /\ use.k = k
  BY DEF Reads
<1>2. More(X, Y, ops, C) /\ Len(C) = 0  OBVIOUS
<1>3. \A l \in Layers : Right(X, l, layers[l], saved[l])  BY RightNow
<1>4. Gets(Y, b, "main", Stop(Y, "main"), Value(pass, currentLayer, Saves[k]))  OBVIOUS
<1> HIDE DEF X, Y, C, use
<1>5. "main" \in Streams /\ "copy" \in Streams  BY DEF Streams
<1>6. /\ Stop(X, "main") \in Nat /\ n \in Nat /\ Stop(Y, "main") = Stop(X, "main") + n
      /\ \A p \in Pend(Y, "main") : p > Stop(X, "main") =>
           p - Stop(X, "main") \in 1..n /\ OpAt(Y, "main", p) = ops[p - Stop(X, "main")]
      /\ \A p \in Pend(Y, "main") : p \in Nat /\ p <= Stop(Y, "main")
  <2>1. QueuesTyped(Y.q, Y.d)  BY <1>2 DEF More
  <2>2. \A p \in Pend(Y, "main") : p \in Nat /\ p <= Stop(Y, "main")  BY <1>5, <2>1, Positions
  <2>3. New(ops, C, "main") = ops  BY DEF New
  <2> DEFINE m == New(ops, C, "main")
  <2>4. /\ Stop(X, "main") \in Nat /\ Len(m) \in Nat /\ Stop(Y, "main") = Stop(X, "main") + Len(m)
        /\ \A p \in Pend(Y, "main") : p > Stop(X, "main") =>
             p - Stop(X, "main") \in 1..Len(m) /\ OpAt(Y, "main", p) = m[p - Stop(X, "main")]
    BY <1>2, <1>5, MoreIs
  <2>5. m = ops  BY <2>3
  <2> HIDE DEF m
  <2> QED  BY <2>2, <2>4, <2>5
<1>7. ASSUME NEW u \in Pend(Y, "main"), u > Stop(X, "main"), OpAt(Y, "main", u).op = "use"
      PROVE  u = Stop(Y, "main") /\ OpAt(Y, "main", u) = use
  <2>1. u - Stop(X, "main") \in 1..n /\ OpAt(Y, "main", u) = ops[u - Stop(X, "main")] /\ u \in Nat
    BY <1>6, <1>7
  <2>2. u - Stop(X, "main") = n  BY <1>7, <2>1
  <2>3. ops[n] = use  BY DEF use
  <2> HIDE DEF n
  <2> QED  BY <1>6, <2>1, <2>2, <2>3
<1>8. Grows(X, Y, {})
  <2>1. ASSUME NEW i \in 1..n  PROVE ops[i].op # "compute"
    <3>1. ops[n] = use  BY DEF use
    <3> QED  BY <1>1, <2>1, <3>1
  <2>2. AfterMain(C, Stop(X, "main"))  BY <1>2 DEF AfterMain
  <2>3. \A i \in 1..Len(C) : C[i].op = "reload" => C[i].block \in {}  BY <1>2
  <2> QED  BY <1>2, <2>1, <2>2, <2>3, MoreGrows
<1>9. ASSUME NEW l \in Layers  PROVE AllNamed(layers[l]) /\ LayerRight(Y, pass, l, layers[l], saved[l])
  <2> DEFINE ly == layers[l]
             sv == saved[l]
  <2>1. Right(X, l, ly, sv) /\ \A h \in Held(ly, sv) : h \notin {}  BY <1>3
  <2> HIDE DEF ly, sv
  <2>2. NoFills(X, Y, ly)  BY <1>2, NoFillsMore
  <2>3. Right(Y, l, ly, sv)  BY <1>8, <2>1, <2>2, RightGrows
  <2> QED  BY <2>3 DEF Right, ly, sv
<1>10. ASSUME NEW u \in Pend(Y, "main"), u > Stop(X, "main"), OpAt(Y, "main", u).op = "use"
       PROVE  Gets(Y, OpAt(Y, "main", u).block, "main", u,
                   Value(OpAt(Y, "main", u).pass, OpAt(Y, "main", u).layer, Saves[OpAt(Y, "main", u).k]))
  BY <1>1, <1>4, <1>7, <1>10
<1>11. \A c \in Pend(Y, "copy") : ~(c > Stop(X, "copy"))
  <2>1. New(ops, C, "copy") = C  BY DEF New
  <2>2. \A p \in Pend(Y, "copy") : p > Stop(X, "copy") => p - Stop(X, "copy") \in 1..Len(C)
    BY <1>2, <1>5, <2>1, MoreIs
  <2> QED  BY <1>2, <2>2
<1>12. ASSUME NEW l \in Layers, NEW c \in Pend(X, "copy"), Keeps(X, layers[l], saved[l], Popped(l), c)
       PROVE  Waited(Y, c) \/ Keeps(Y, layers[l], saved[l], Popped(l)', c)
  <2>1. CASE l # currentLayer
    <3>1. Popped(l)' = Popped(l)  BY <2>1 DEF Popped
    <3> QED  BY <1>8, <1>12, <3>1, KeptGrows
  <2>2. CASE l = currentLayer
    <3>1. Popped(l) = k /\ Popped(l)' = k + 1  BY <2>2 DEF Popped
    <3>2. Waited(Y, c) \/ Keeps(X, layers[l], saved[l], k + 1, c)  BY <1>12, <2>2, <3>1 DEF X, Y
    <3> QED  BY <1>8, <3>1, <3>2, KeptGrows
  <2> QED  BY <2>1, <2>2
<1>13. Layers' = Layers  BY DEF Layers, NumLayers
<1>14. Whole'  BY <1>13 DEF DInv, Whole
<1>15. /\ Grows(Dev, Dev', {})
       /\ \A u \in Pend(Dev', "main") : u > Stop(Dev, "main") /\ OpAt(Dev', "main", u).op = "use" =>
            LET x == OpAt(Dev', "main", u) IN
            Gets(Dev', x.block, "main", u, Value(x.pass, x.layer, Saves[x.k]))
       /\ \A c \in Pend(Dev', "copy") : ~(c > Stop(Dev, "copy"))
       /\ \A l \in Layers : AllNamed(layers'[l]) /\ LayerRight(Dev', pass', l, layers'[l], saved'[l])
       /\ \A l \in Layers : \A c \in Pend(Dev, "copy") : Keeps(Dev, layers[l], saved[l], Popped(l), c) =>
            Waited(Dev', c) \/ Keeps(Dev', layers'[l], saved'[l], Popped(l)', c)
  BY <1>8, <1>9, <1>10, <1>11, <1>12 DEF X, Y
<1> QED  BY <1>13, <1>14, <1>15, HostKept

\* The tensor that pop_tensor is asked for.
LEMMA PopIs ==
  ASSUME IInv, PopTensor
  PROVE  /\ pc = "unpack" /\ k \in 1..N /\ currentLayer \in Layers /\ currentLayer = Head(agenda)
         /\ layers[currentLayer].state \in {"not_offloaded", "reload_started"}
         /\ Len(saved[currentLayer]) = N
         /\ config' = config /\ pass' = pass /\ layers' = layers /\ saved' = saved /\ pc' = pc
         /\ agenda' = agenda /\ currentLayer' = currentLayer /\ previousBwd' = previousBwd
         /\ k' = k + 1 /\ done' = done /\ gpu' = gpu /\ pinned' = pinned /\ used' = used
<1> DEFINE l == currentLayer
           A == Layers
<1>1. l \in Layers /\ l = Head(agenda) /\ layers[l].state \in {"not_offloaded", "reload_started"}
  BY PopTensorHost DEF IInv
<1>2. /\ config' = config /\ pass' = pass /\ layers' = layers /\ saved' = saved /\ pc' = pc
      /\ agenda' = agenda /\ currentLayer' = currentLayer /\ previousBwd' = previousBwd
      /\ k' = k + 1 /\ done' = done /\ gpu' = gpu /\ pinned' = pinned /\ used' = used
  BY <1>1 DEF PopTensor, syncVars, deviceVars
<1>3. pc = "unpack" /\ k <= N  BY DEF PopTensor, N
<1>4. /\ agenda \in Seq(A) /\ agenda # <<>> /\ k \in 1..N + 1
      /\ \A i \in DOMAIN agenda : Len(saved[agenda[i]]) = N
  BY <1>3 DEF IInv, HInv, Phase, HostTyped
<1> HIDE DEF A
<1>5. 1 \in DOMAIN agenda /\ agenda[1] = Head(agenda)  BY <1>4
<1>6. N \in Nat  BY CountFinite
<1> QED  BY <1>1, <1>2, <1>3, <1>4, <1>5, <1>6

\* A tensor that was not offloaded, or not to be: it is in its block.
LEMMA PopHeldKept ==
  ASSUME IInv, IInv', DInv, PopTensor, NEW b, NEW r \in Nat,
         queue' = Put(queue, "main", <<Reads(b)>>), r <= Stop(Dev, "main"),
         OnMain(Dev, b, r, Value(pass, currentLayer, Saves[k])),
         saved[currentLayer][k].kind = "tensor" \/ layers[currentLayer].state = "not_offloaded"
  PROVE  DInv'
<1> DEFINE l == currentLayer
           v == Value(pass, l, Saves[k])
           use == Reads(b)
           ops == <<use>>
           C == <<>>
           X == Dev
           Y == Dev'
<1>1. /\ pc = "unpack" /\ k \in 1..N /\ l \in Layers /\ l = Head(agenda) /\ Len(saved[l]) = N
      /\ config' = config /\ pass' = pass /\ layers' = layers /\ saved' = saved /\ pc' = pc
      /\ agenda' = agenda /\ currentLayer' = currentLayer /\ previousBwd' = previousBwd
      /\ k' = k + 1 /\ done' = done /\ gpu' = gpu /\ pinned' = pinned /\ used' = used /\ N \in Nat
  BY PopIs, CountFinite
<1>2. use.op = "use"  BY DEF Reads
<1> HIDE DEF use
<1>3. Len(ops) = 1 /\ ops[1] = use /\ ops \in Seq({use}) /\ Len(C) = 0  OBVIOUS
<1>4. queue' = Put(queue, "main", ops)  BY DEF use
<1> HIDE DEF ops
<1>5. More(X, Y, ops, C)
  <2>1. \E A : ops \in Seq(A)  BY <1>3
  <2> QED  BY <1>1, <1>4, <2>1, DevPut
<1>6. OnMain(X, b, r, v) /\ r <= Stop(X, "main")  OBVIOUS
<1> HIDE DEF X, Y, C, v
<1>7. Grows(X, Y, {})
  <2>1. \A i \in 1..Len(ops) : ops[i].op # "compute"  BY <1>2, <1>3
  <2>2. AfterMain(C, Stop(X, "main"))  BY <1>3 DEF AfterMain
  <2>3. \A i \in 1..Len(C) : C[i].op = "reload" => C[i].block \in {}  BY <1>3
  <2> QED  BY <1>5, <2>1, <2>2, <2>3, MoreGrows
<1>8. Stop(X, "main") \in Nat /\ Stop(Y, "main") = Stop(X, "main") + 1
  <2> DEFINE m == New(ops, C, "main")
  <2>1. "main" \in Streams  BY DEF Streams
  <2>2. Stop(X, "main") \in Nat /\ Stop(Y, "main") = Stop(X, "main") + Len(m)  BY <1>5, <2>1, MoreIs
  <2>3. m = ops  BY DEF New
  <2> HIDE DEF m
  <2> QED  BY <1>3, <2>2, <2>3
<1>9. Gets(Y, b, "main", Stop(Y, "main"), v)
  <2>1. OnMain(Y, b, r, v)  BY <1>6, <1>7, GrowsHolds
  <2>2. QueuesTyped(Y.q, Y.d)  BY <1>5 DEF More
  <2>3. r < Stop(Y, "main") /\ Stop(Y, "main") \in Nat  BY <1>6, <1>8
  <2> QED  BY <2>1, <2>2, <2>3, ReadHeld
<1>10. ASSUME NEW c \in Pend(X, "copy"), Keeps(X, layers[l], saved[l], k, c)
       PROVE  Keeps(X, layers[l], saved[l], k + 1, c)
  <2>1. layers[l].state = "reload_started"  BY <1>10 DEF Keeps
  <2>2. saved[l][k].kind # "index"  BY <2>1
  <2>3. PICK j \in k..Len(saved[l]) :
          /\ saved[l][j].kind = "index" /\ layers[l].bwd[saved[l][j].at].ready >= c
          /\ layers[l].bwd[saved[l][j].at].block = OpAt(X, "copy", c).block
    BY <1>10 DEF Keeps
  <2>4. j # k  BY <2>2, <2>3
  <2>5. j \in k + 1..Len(saved[l])
    <3>1. k \in 1..N /\ Len(saved[l]) = N /\ N \in Nat  BY <1>1
    <3> HIDE DEF l
    <3> QED  BY <2>3, <2>4, <3>1
  <2> QED  BY <2>1, <2>3, <2>5 DEF Keeps
<1>11. /\ More(Dev, Dev', ops, <<>>) /\ ops[Len(ops)] = Reads(b)
       /\ \A i \in 1..Len(ops) : i # Len(ops) => ops[i].op = "wait"
       /\ Gets(Dev', b, "main", Stop(Dev', "main"), Value(pass, currentLayer, Saves[k]))
       /\ \A c \in Pend(Dev, "copy") : Keeps(Dev, layers[currentLayer], saved[currentLayer], k, c) =>
            Waited(Dev', c) \/ Keeps(Dev, layers[currentLayer], saved[currentLayer], k + 1, c)
  BY <1>3, <1>5, <1>9, <1>10 DEF X, Y, C, v, use
<1>12. k \in Nat  BY <1>1
<1> HIDE DEF l
<1> QED  BY <1>1, <1>11, <1>12, PopKept DEF l

\* A tensor that was reloaded: the kernel waits for its copy.
LEMMA PopReloadedKept ==
  ASSUME IInv, IInv', DInv, PopTensor, NEW b, NEW r \in Nat,
         queue' = Put(queue, "main", <<Wait("copy", r), Reads(b)>>),
         OnCopy(Dev, b, r, Value(pass, currentLayer, Saves[k])),
         saved[currentLayer][k].kind = "index" =>
           layers[currentLayer].bwd[saved[currentLayer][k].at].ready = r
  PROVE  DInv'
<1> DEFINE l == currentLayer
           v == Value(pass, l, Saves[k])
           use == Reads(b)
           wait == Wait("copy", r)
           ops == <<wait, use>>
           C == <<>>
           X == Dev
           Y == Dev'
<1>1. /\ pc = "unpack" /\ k \in 1..N /\ l \in Layers /\ l = Head(agenda) /\ Len(saved[l]) = N
      /\ config' = config /\ pass' = pass /\ layers' = layers /\ saved' = saved /\ pc' = pc
      /\ agenda' = agenda /\ currentLayer' = currentLayer /\ previousBwd' = previousBwd
      /\ k' = k + 1 /\ done' = done /\ gpu' = gpu /\ pinned' = pinned /\ used' = used /\ N \in Nat
  BY PopIs, CountFinite
<1>2. use.op = "use" /\ wait.op = "wait" /\ wait.at = r  BY DEF Reads, Wait
<1> HIDE DEF use, wait
<1>3. Len(ops) = 2 /\ ops[1] = wait /\ ops[2] = use /\ ops \in Seq({wait, use}) /\ Len(C) = 0
  OBVIOUS
<1>4. queue' = Put(queue, "main", ops)  BY DEF use, wait
<1> HIDE DEF ops
<1>5. More(X, Y, ops, C)
  <2>1. \E A : ops \in Seq(A)  BY <1>3
  <2> QED  BY <1>1, <1>4, <2>1, DevPut
<1>6. OnCopy(X, b, r, v)  OBVIOUS
<1> HIDE DEF X, Y, C, v
<1>7. Grows(X, Y, {})
  <2>1. \A i \in 1..Len(ops) : ops[i].op # "compute"  BY <1>2, <1>3
  <2>2. AfterMain(C, Stop(X, "main"))  BY <1>3 DEF AfterMain
  <2>3. \A i \in 1..Len(C) : C[i].op = "reload" => C[i].block \in {}  BY <1>3
  <2> QED  BY <1>5, <2>1, <2>2, <2>3, MoreGrows
<1>8. /\ Stop(X, "main") \in Nat /\ Stop(Y, "main") = Stop(X, "main") + 2
      /\ Stop(X, "main") + 1 \in Pend(Y, "main") /\ OpAt(Y, "main", Stop(X, "main") + 1) = wait
  <2> DEFINE m == New(ops, C, "main")
  <2>1. "main" \in Streams  BY DEF Streams
  <2>2. /\ Stop(X, "main") \in Nat /\ Stop(Y, "main") = Stop(X, "main") + Len(m)
        /\ \A i \in 1..Len(m) : Stop(X, "main") + i \in Pend(Y, "main")
                                /\ OpAt(Y, "main", Stop(X, "main") + i) = m[i]
    BY <1>5, <2>1, MoreIs
  <2>3. m = ops  BY DEF New
  <2> HIDE DEF m
  <2>4. 1 \in 1..Len(m) /\ m[1] = wait /\ Len(m) = 2  BY <1>3, <2>3, SMTT(60)
  <2> QED  BY <2>2, <2>4
<1>9. ASSUME NEW c, c <= r
      PROVE  Waits(Y, "main", Stop(Y, "main"), c) /\ Waited(Y, c)
  <2> DEFINE w == Stop(X, "main") + 1
  <2>1. /\ w \in Pend(Y, "main") /\ OpAt(Y, "main", w).op = "wait" /\ OpAt(Y, "main", w).at >= c
        /\ w < Stop(Y, "main") /\ w < Stop(Y, "main") + 1
    BY <1>2, <1>8, <1>9
  <2> HIDE DEF w
  <2> QED  BY <2>1 DEF Waits, Waited
<1>10. Gets(Y, b, "main", Stop(Y, "main"), v)
  <2>1. OnCopy(Y, b, r, v)  BY <1>6, <1>7, GrowsHolds
  <2>2. QueuesTyped(Y.q, Y.d)  BY <1>5 DEF More
  <2>3. Waits(Y, "main", Stop(Y, "main"), r)  BY <1>9
  <2> QED  BY <2>1, <2>2, <2>3, ReadReloaded
<1>11. ASSUME NEW c \in Pend(X, "copy"), Keeps(X, layers[l], saved[l], k, c)
       PROVE  Waited(Y, c) \/ Keeps(X, layers[l], saved[l], k + 1, c)
  <2>1. layers[l].state = "reload_started"  BY <1>11 DEF Keeps
  <2>2. PICK j \in k..Len(saved[l]) :
          /\ saved[l][j].kind = "index" /\ layers[l].bwd[saved[l][j].at].ready >= c
          /\ layers[l].bwd[saved[l][j].at].block = OpAt(X, "copy", c).block
    BY <1>11 DEF Keeps
  <2>3. CASE j = k
    <3>1. QueuesTyped(X.q, X.d) /\ "copy" \in Streams  BY <1>5 DEF More, Streams
    <3>2. c \in Nat  BY <3>1, Positions
    <3>3. c <= r  BY <2>2, <2>3, <3>2
    <3> QED  BY <1>9, <3>3
  <2>4. CASE j # k
    <3>1. j \in k + 1..Len(saved[l])
      <4>1. k \in 1..N /\ Len(saved[l]) = N /\ N \in Nat  BY <1>1
      <4> HIDE DEF l
      <4> QED  BY <2>2, <2>4, <4>1
    <3> QED  BY <2>1, <2>2, <3>1 DEF Keeps
  <2> QED  BY <2>3, <2>4
<1>12. /\ More(Dev, Dev', ops, <<>>) /\ ops[Len(ops)] = Reads(b)
       /\ \A i \in 1..Len(ops) : i # Len(ops) => ops[i].op = "wait"
       /\ Gets(Dev', b, "main", Stop(Dev', "main"), Value(pass, currentLayer, Saves[k]))
       /\ \A c \in Pend(Dev, "copy") : Keeps(Dev, layers[currentLayer], saved[currentLayer], k, c) =>
            Waited(Dev', c) \/ Keeps(Dev, layers[currentLayer], saved[currentLayer], k + 1, c)
  <2>1. \A i \in 1..Len(ops) : i # Len(ops) => ops[i].op = "wait"  BY <1>2, <1>3
  <2>2. ops[Len(ops)] = Reads(b)  BY <1>3 DEF use
  <2> QED  BY <1>5, <1>10, <1>11, <2>1, <2>2 DEF X, Y, C, v
<1>13. k \in Nat  BY <1>1
<1> HIDE DEF l
<1> QED  BY <1>1, <1>12, <1>13, PopKept DEF l

\* pop_tensor.
LEMMA PopTensorKept ==
  ASSUME IInv, IInv', DInv, PopTensor
  PROVE  DInv'
<1> DEFINE l == currentLayer
           ly == layers[l]
           item == saved[l][k]
           v == Value(pass, l, Saves[k])
<1>1. /\ k \in 1..N /\ l \in Layers /\ l = Head(agenda) /\ Len(saved[l]) = N
      /\ ly.state \in {"not_offloaded", "reload_started"}
  BY PopIs
<1>2. /\ Good(config, pass, l, ly, saved[l]) /\ LayerRight(Dev, pass, l, ly, saved[l])
      /\ EventsBy(ly, Now("main", queue), Now("copy", queue))
      /\ ly.fwd \in Seq(Tensors) /\ ly.bwd \in Seq(Tensors)
  BY <1>1, LayerHas, LayerIs
<1>3. item.kind = "tensor" \/ item.kind = "index"  BY <1>1, <1>2, ItemKinds
<1>4. SavedRight(Dev, ly, item, v)  BY <1>1, <1>2 DEF LayerRight
<1>5. item.kind = "index" => item.at \in Group(ly)  BY <1>1, <1>2 DEF Good, SavedAre
<1>6. Now("main", queue) = Stop(Dev, "main") /\ Stop(Dev, "main") \in Nat  BY DevNow
<1>7. CASE item.kind = "tensor"
  <2>1. queue' = Put(queue, "main", <<Reads(item.at)>>)  BY <1>1, <1>7 DEF PopTensor, Reads
  <2>2. OnMain(Dev, item.at, Stop(Dev, "main"), v)  BY <1>4, <1>7 DEF SavedRight
  <2> QED  BY <1>6, <1>7, <2>1, <2>2, PopHeldKept
<1>8. CASE item.kind = "index" /\ ly.state = "not_offloaded"
  <2> DEFINE t == ly.fwd[item.at]
  <2>1. queue' = Put(queue, "main", <<Reads(t.block)>>)  BY <1>1, <1>8 DEF PopTensor, Reads
  <2>2. OnMain(Dev, t.block, t.ready, v)  BY <1>4, <1>8 DEF SavedRight
  <2>3. t.ready \in Nat /\ t.ready <= Stop(Dev, "main")
    <3>1. item.at \in DOMAIN ly.fwd  BY <1>5, <1>8 DEF Group
    <3>2. t \in Tensors /\ t.ready <= Now("main", queue)  BY <1>2, <3>1 DEF EventsBy
    <3> QED  BY <1>6, <3>2 DEF Tensors
  <2> QED  BY <1>8, <2>1, <2>2, <2>3, PopHeldKept
<1>9. CASE item.kind = "index" /\ ly.state = "reload_started"
  <2> DEFINE t == ly.bwd[item.at]
  <2>1. queue' = Put(queue, "main", <<Wait("copy", t.ready), Reads(t.block)>>)
    BY <1>1, <1>9 DEF PopTensor, Reads
  <2>2. OnCopy(Dev, t.block, t.ready, v)  BY <1>4, <1>9 DEF SavedRight
  <2>3. t.ready \in Nat
    <3>1. item.at \in DOMAIN ly.aux  BY <1>5, <1>9 DEF Group
    <3>2. Len(ly.bwd) = Len(ly.aux) /\ ly.aux \in Seq(1..Count)
      BY <1>2, <1>9 DEF Good, Shape, Typed
    <3>3. item.at \in DOMAIN ly.bwd  BY <1>2, <3>1, <3>2
    <3>4. t \in Tensors  BY <1>2, <3>3
    <3> QED  BY <3>4 DEF Tensors
  <2> QED  BY <2>1, <2>2, <2>3, PopReloadedKept
<1> QED  BY <1>1, <1>3, <1>7, <1>8, <1>9

-----------------------------------------------------------------------------
(* Every step keeps the invariant                                            *)

LEMMA InitDInv ==
  ASSUME Init
  PROVE  DInv
<1>1. /\ queue["main"] = <<>> /\ queue["copy"] = <<>> /\ done["main"] = 0 /\ done["copy"] = 0
      /\ pc = "idle" /\ used = {} /\ DOMAIN gpu = Blocks
      /\ \A l \in Layers : layers[l].state = "not_offloaded" /\ saved[l] = <<>>
  BY DEF Init, Streams, Fresh
<1>2. Pend(Dev, "main") = {} /\ Pend(Dev, "copy") = {}
  <2>1. \A s \in {"main", "copy"} : Len(Dev.q[s]) = 0 /\ Dev.d[s] = 0  BY <1>1 DEF Dev
  <2> DEFINE X == Dev
  <2> HIDE DEF X
  <2>2. \A s \in {"main", "copy"} : Len(X.q[s]) = 0 /\ X.d[s] = 0  BY <2>1 DEF X
  <2>3. Pend(X, "main") = {} /\ Pend(X, "copy") = {}  BY <2>2 DEF Pend, Stop, End
  <2> QED  BY <2>3 DEF X
<1>3. Faithful /\ Whole  BY <1>1 DEF Faithful, Whole
<1>4. UsesRight(Dev) /\ ReloadsKept  BY <1>2 DEF UsesRight, ReloadsKept
<1>5. ASSUME NEW l \in Layers
      PROVE  AllNamed(layers[l]) /\ LayerRight(Dev, pass, l, layers[l], saved[l])
  <2>1. AllNamed(layers[l])  BY <1>1 DEF AllNamed
  <2>2. Len(saved[l]) = 0  BY <1>1
  <2>3. LayerRight(Dev, pass, l, layers[l], saved[l])  BY <2>2 DEF LayerRight
  <2> QED  BY <2>1, <2>3
<1> QED  BY <1>1, <1>3, <1>4, <1>5 DEF DInv

LEMMA StutterKept ==
  ASSUME IInv, DInv, UNCHANGED vars
  PROVE  DInv'
<1>1. /\ config' = config /\ pass' = pass /\ layers' = layers /\ saved' = saved /\ pc' = pc /\ k' = k
      /\ agenda' = agenda /\ currentLayer' = currentLayer /\ previousBwd' = previousBwd
      /\ queue' = queue /\ deviceVars' = deviceVars
  BY DEF vars, syncVars, scriptVars
<1>2. Layers' = Layers /\ \A l \in Layers : Popped(l)' = Popped(l)
  BY <1>1 DEF Layers, NumLayers, Popped
<1>3. Whole'  BY <1>1, <1>2 DEF DInv, Whole
<1>4. \A l \in Layers : AllNamed(layers'[l]) /\ LayerRight(Dev, pass', l, layers'[l], saved'[l])
  BY <1>1 DEF DInv
<1>5. \A l \in Layers : \A c \in Pend(Dev, "copy") : Keeps(Dev, layers[l], saved[l], Popped(l), c) =>
        Keeps(Dev, layers'[l], saved'[l], Popped(l)', c)
  BY <1>1, <1>2
<1> QED  BY <1>1, <1>2, <1>3, <1>4, <1>5, QuietKept

LEMMA NextDInv ==
  ASSUME StopEarly = FALSE, IInv, IInv', DInv, [Next]_vars
  PROVE  DInv'
<1>1. CASE UNCHANGED vars  BY <1>1, StutterKept
<1>2. CASE Main \/ Copy  BY <1>2, StreamKept
<1>3. CASE NextLayer  BY <1>3, NextLayerKept
<1>4. CASE NextForward  BY <1>4, NextForwardKept
<1>5. CASE SaveTensor  BY <1>5, SaveTensorKept
<1>6. CASE SaveAgain  BY <1>6, SaveAgainKept
<1>7. CASE LeaveContext  BY <1>7, LeaveContextKept
<1>8. CASE StartOffloadLayer  BY <1>8, StartOffloadLayerKept
<1>9. CASE ReleaseActivationForwardGpuMemory  BY <1>9, ReleaseActivationKept
<1>10. CASE StartReloadLayer  BY <1>10, StartReloadLayerKept
<1>11. CASE StartBackward  BY <1>11, StartBackwardKept
<1>12. CASE BwdStep  BY <1>12, BwdStepKept
<1>13. CASE PopTensor  BY <1>13, PopTensorKept
<1>14. CASE EndLayer  BY <1>14, EndLayerKept
<1>15. CASE FinishPartOfBwd  BY <1>15, FinishPartOfBwdKept
<1> QED  BY <1>1, <1>2, <1>3, <1>4, <1>5, <1>6, <1>7, <1>8, <1>9, <1>10, <1>11, <1>12, <1>13, <1>14,
         <1>15 DEF Next, Host

-----------------------------------------------------------------------------
(* The theorem                                                               *)

\* Every kernel of a backward reads the values that the forward of the same pass and
\* layer computed (push_tensor, start_offload, release_activation_forward_gpu_memory,
\* start_reload, pop_tensor), for every schedule and however far the streams lag behind
\* the host, if a backward that begins comes down to its first layer: release_all_memory
\* does not wait for a reload of a layer that was skipped.
THEOREM BackwardReadsForward ==
  ASSUME StopEarly = FALSE
  PROVE  Spec => []Faithful
<1>1. Init => DInv  BY InitDInv
<1>2. IInv /\ IInv' /\ DInv /\ [Next]_vars => DInv'  BY NextDInv
<1>3. DInv => Faithful  BY DEF DInv
<1> QED  BY <1>1, <1>2, <1>3, Invariant, PTL DEF Spec
=============================================================================
