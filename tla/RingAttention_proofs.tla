------------------------ MODULE RingAttention_proofs ------------------------
(***************************************************************************)
(* Proofs about attention over a ring of ranks, for every number of ranks, *)
(* causal or not, in every order of the streams and the transfers: the     *)
(* forward, the gradients of the queries at every precision, and those of  *)
(* the keys in f16.                                                        *)
(***************************************************************************)
EXTENDS RingAttention, FiniteSetTheorems, TLAPS

\* Slices by step: of the keys in the forward and in the backward, and the ranks whose
\* queries have contributed to a gradient on its way.
Fwd(r, i) == (r - i) % CpSize
Bwd(r, i) == (r + 1 + i) % CpSize
Giver(r, i) == (r + i) % CpSize

\* What queries a and keys b meet in some slices.
KeysFrom(a, slices) == {b \in KeysOf(a) : \E s \in slices, g \in Halves : b = Chunk(s, g)}
QueriesFrom(b, slices) == {a \in QueriesOf(b) : \E q \in slices, h \in Halves : a = Chunk(q, h)}

-----------------------------------------------------------------------------
(* Exchanges *)

Passes == {"forward", "backward"}
PassOf(r) == IF Back(r, "forward") THEN "forward" ELSE "backward"

\* Exchanges of a pass, and those a rank has posted.
Exchanges(pass) == IF pass = "backward" /\ precision = "f16" THEN CpSize ELSE CpSize - 1
Posted(r, pass) ==
  IF pass = "forward" THEN posted[r]
  ELSE IF Back(r, "forward") THEN 0
  ELSE IF Back(r, "post") \/ back[r].step = Exchanges(pass) THEN back[r].step
  ELSE back[r].step + 1

Parts(pass, e) ==
  IF pass = "forward" \/ precision # "f16" THEN {"kv"}
  ELSE (IF e = CpSize - 1 THEN {} ELSE {"kv"}) \cup (IF e = 0 THEN {} ELSE {"dkv"})
SendOp(pass, e) == P2P("send", pass, IF pass = "forward" THEN e ELSE e % 2, Parts(pass, e))
RecvOp(pass, e) == P2P("recv", pass, IF pass = "forward" THEN e + 1 ELSE (e + 1) % 2, Parts(pass, e))

\* What may be left of the exchange of s and v.
Left(s, v) == {<<>>, <<{s}>>, <<{v}>>, <<{s}, {v}>>, <<{v}, {s}>>, <<{s, v}>>}

Has(q, kind, pass) == \E k \in DOMAIN q : \E op \in q[k] : op.kind = kind /\ op.pass = pass
Sending(r, pass) == Has(comm[r], "send", pass)
Receiving(r, pass) == Has(comm[r], "recv", pass)
Sent(r, pass) == Posted(r, pass) - (IF Sending(r, pass) THEN 1 ELSE 0)
Received(r, pass) == Posted(r, pass) - (IF Receiving(r, pass) THEN 1 ELSE 0)

Config ==
  causal \in BOOLEAN /\ batchComm \in BOOLEAN /\ precision \in {"f16", "delayed", "current"}

\* A rank has at most its last exchange in flight.
InFlight == DOMAIN comm = Ranks /\ \A r \in Ranks :
  \/ comm[r] = <<>>
  \/ /\ Back(r, "forward") /\ posted[r] > 0
     /\ comm[r] \in Left(SendOp("forward", posted[r] - 1), RecvOp("forward", posted[r] - 1))
  \/ /\ Back(r, "attend") \/ Back(r, "reduce")
     /\ back[r].step < Exchanges("backward")
     /\ comm[r] \in Left(SendOp("backward", back[r].step), RecvOp("backward", back[r].step))
  \/ /\ Back(r, "attend") \/ Back(r, "reduce")
     /\ back[r].step = Exchanges("backward") /\ comm[r] = <<{A2A}>>

\* Each transfer is the end of the same exchange on both sides.
Balanced == \A r \in Ranks, p \in Passes : Sent(r, p) = Received(SendDst(r, p), p)

-----------------------------------------------------------------------------
(* The forward *)

Started(r, s) == at[r][s].op # "start" /\ at[r][s].step < CpSize

\* The streams take turns, and each starts a step when its keys have come.
TurnOf(r) ==
  /\ \E s \in Streams : at[r][s].step = corrected[r] /\ at[r][1 - s].step = corrected[r] + 1
  /\ \A s \in Streams : Started(r, s) => at[r][s].step <= Received(r, "forward")
  /\ \/ corrected[r] = CpSize
     \/ \E s \in Streams : Started(r, s) /\ at[r][s].step = CpSize - 1
     => posted[r] = CpSize - 1 /\ (Back(r, "forward") => comm[r] = <<>>)
  /\ ~Back(r, "forward") => corrected[r] = CpSize
Turns == \A r \in Ranks : TurnOf(r)

KeysInPlace == \A r \in Ranks, j \in Steps :
  j <= Received(r, "forward") => kv[r][j] = Fwd(r, j)

PartsExact == \A r \in Ranks, i \in Steps :
  i < corrected[r] \/ (\E s \in Streams : at[r][s].step = i /\ at[r][s].op = "correct") =>
    part[r][i] = KeysMet(ForwardSection(r, i), Fwd(r, i))

FwdSlices(r, i) == {Fwd(r, j) : j \in 0..i}
FwdSum(r, i) == [h \in Halves |-> KeysFrom(Chunk(r, h), FwdSlices(r, i))]

LseExact == \A r \in Ranks :
  lse[r] = IF corrected[r] = 0 THEN Unset ELSE FwdSum(r, corrected[r] - 1)

OutExact == \A r \in Ranks :
  ~Back(r, "forward") => out[r] = [h \in Halves |-> KeysOf(Chunk(r, h))]

-----------------------------------------------------------------------------
(* The backward *)

Working(r) == back[r].op \in {"post", "attend", "reduce"}
Posting(r) == back[r].op \in {"attend", "reduce"}
Attended(r) ==
  CASE back[r].op \in {"forward", "post", "attend"} -> back[r].step
    [] back[r].op \in {"reduce", "sum", "done"} -> back[r].step + 1

Steady == \A r \in Ranks :
  /\ Back(r, "forward") => back[r].step = 0
  /\ Back(r, "sum") \/ Back(r, "done") => back[r].step = CpSize - 1

\* The keys of the step, and of the next one once they have come.
SlicesInPlace == \A r \in Ranks :
  LET i == back[r].step IN
  /\ Working(r) => buf[r][i % 2].kv = Bwd(r, i)
  /\ Posting(r) /\ i < CpSize - 1 /\ Received(r, "backward") > i =>
       buf[r][(i + 1) % 2].kv = Bwd(r, i + 1)

BwdSlices(r, i) == {Bwd(r, j) : j \in 0..i}
\* dq after step i: a causal half 0 meets nothing before slice 0.
DqSum(r, i) ==
  [h \in Halves |-> IF causal /\ h = 0 /\ i < CpSize - r - 1 THEN {Uninit}
                    ELSE KeysFrom(Chunk(r, h), BwdSlices(r, i))]

DqExact == \A r \in Ranks :
  IF precision = "delayed"
  THEN \A j \in 0..Attended(r) - 1 :
         dq[r][Bwd(r, j)] = KeysMet(BackwardSection(r, j), Bwd(r, j))
  ELSE dq[r][0] = IF Attended(r) = 0 THEN Unset ELSE DqSum(r, Attended(r) - 1)

Givers(r, i) == {Giver(r, j) : j \in 0..i}
\* The gradient of a slice after step i of rank r: the last half of all meets only the
\* last queries, which are those of the same slice.
DkvSum(r, i) ==
  [g \in Halves |-> IF causal /\ g = 1 /\ Bwd(r, i) = 0 /\ i < CpSize - 1 THEN {Uninit}
                    ELSE QueriesFrom(Chunk(Bwd(r, i), g), Givers(r, i))]

TileExact == \A r \in Ranks :
  Back(r, "reduce") => tile[r] = QueriesMet(BackwardSection(r, back[r].step), r)

DkvExact == precision = "f16" => \A r \in Ranks :
  LET i == back[r].step IN
  /\ i = 0 => buf[r][1].dkv = Unset
  /\ Working(r) /\ i > 0 => buf[r][i % 2].dkv = DkvSum(r, i - 1)
  /\ Posting(r) /\ i > 0 /\ Received(r, "backward") > i =>
       buf[r][(i + 1) % 2].dkv = DkvSum(Giver(r, 1), i - 1)
  /\ Back(r, "sum") => buf[r][CpSize % 2].dkv = DkvSum(r, CpSize - 1)

GradExact == \A r \in Ranks : Back(r, "done") =>
  /\ grad[r].dq = [h \in Halves |-> KeysOf(Chunk(r, h))]
  /\ precision = "f16" => grad[r].dkv = [h \in Halves |-> QueriesOf(Chunk(r, h))]

RInv ==
  /\ TypeOK /\ Config /\ InFlight /\ Balanced
  /\ Turns /\ KeysInPlace /\ PartsExact /\ LseExact /\ OutExact
  /\ Steady /\ SlicesInPlace /\ DqExact /\ TileExact /\ DkvExact /\ GradExact
-----------------------------------------------------------------------------
(* Minimal sets, for induction over data *)

\* Of some subsets of a finite set, one contains no other.
LEMMA SmallestSubset ==
  ASSUME NEW S, IsFiniteSet(S), NEW U \in SUBSET (SUBSET S), U # {}
  PROVE  \E s \in U : \A t \in U : ~(t \subseteq s /\ t # s)
<1>1. FiniteSubsetsOf(S) = SUBSET S
  BY FS_FiniteSubsetsOfFinite
<1>2. PICK s \in U : \A t \in U : <<t, s>> \notin StrictSubsetOrdering(S)
  BY <1>1, FS_StrictSubsetOrderingWellFounded, WFMin
<1>3. \A t \in U : ~(t \subseteq s /\ t # s)
  BY <1>2 DEF StrictSubsetOrdering
<1> QED  BY <1>3

\* Some numbers have a least one.
LEMMA LeastNatural ==
  ASSUME NEW T \in SUBSET Nat, T # {}
  PROVE  \E x \in T : \A y \in T : x <= y
<1>1. PICK n \in T : TRUE
  OBVIOUS
<1> DEFINE U == {0..k : k \in {i \in T : i <= n}}
<1>2. U \in SUBSET (SUBSET (0..n)) /\ U # {}
  <2>1. \A k \in T : k <= n => 0..k \subseteq 0..n
    OBVIOUS
  <2>2. 0..n \in U
    BY <1>1
  <2> QED  BY <2>1, <2>2
<1>3. PICK s \in U : \A t \in U : ~(t \subseteq s /\ t # s)
  <2> DEFINE S == 0..n
  <2>1. IsFiniteSet(S) /\ U \in SUBSET (SUBSET S) /\ U # {}
    BY <1>2, FS_Interval
  <2> HIDE DEF U, S
  <2> QED  BY <2>1, SmallestSubset
<1>4. PICK x \in T : x <= n /\ s = 0..x
  BY <1>3
<1>5. \A y \in T : x <= y
  <2> SUFFICES ASSUME NEW y \in T, y < x  PROVE FALSE
    OBVIOUS
  <2>1. 0..y \in U /\ 0..y \subseteq 0..x /\ x \in 0..x /\ x \notin 0..y
    BY <1>4
  <2> QED  BY <1>3, <1>4, <2>1
<1> QED  BY <1>5

-----------------------------------------------------------------------------
(* The ring *)

LEMMA Modulo ==
  ASSUME NEW x \in Int
  PROVE  /\ x \in 0..CpSize - 1 => x % CpSize = x
         /\ x \in CpSize..2 * CpSize - 1 => x % CpSize = x - CpSize
         /\ x \in -CpSize..-1 => x % CpSize = x + CpSize
<1> CpSize \in Nat \ {0, 1}
  BY RingAssumption
<1> QED  OBVIOUS

LEMMA FwdIs ==
  ASSUME NEW r \in Ranks, NEW i \in Steps
  PROVE  /\ Fwd(r, i) \in Ranks
         /\ Fwd(r, i) = IF i <= r THEN r - i ELSE r - i + CpSize
<1>1. /\ CpSize \in Nat \ {0, 1} /\ r - i \in Int
      /\ r - i \in 0..CpSize - 1 \/ r - i \in -CpSize..-1
  BY RingAssumption DEF Ranks, Steps
<1> QED  BY <1>1, Modulo DEF Fwd, Ranks, Steps

LEMMA BwdIs ==
  ASSUME NEW r \in Ranks, NEW i \in Steps
  PROVE  /\ Bwd(r, i) \in Ranks
         /\ Bwd(r, i) = IF r + 1 + i < CpSize THEN r + 1 + i ELSE r + 1 + i - CpSize
<1>1. /\ CpSize \in Nat \ {0, 1} /\ r + 1 + i \in Int
      /\ r + 1 + i \in 0..CpSize - 1 \/ r + 1 + i \in CpSize..2 * CpSize - 1
  BY RingAssumption DEF Ranks, Steps
<1> QED  BY <1>1, Modulo DEF Bwd, Ranks, Steps

LEMMA GiverIs ==
  ASSUME NEW r \in Ranks, NEW i \in Steps
  PROVE  /\ Giver(r, i) \in Ranks
         /\ Giver(r, i) = IF r + i < CpSize THEN r + i ELSE r + i - CpSize
<1>1. /\ CpSize \in Nat \ {0, 1} /\ r + i \in Int
      /\ r + i \in 0..CpSize - 1 \/ r + i \in CpSize..2 * CpSize - 1
  BY RingAssumption DEF Ranks, Steps
<1> QED  BY <1>1, Modulo DEF Giver, Ranks, Steps

LEMMA DestinationIs ==
  ASSUME NEW r \in Ranks
  PROVE  /\ SendDst(r, "forward") = IF r = CpSize - 1 THEN 0 ELSE r + 1
         /\ SendDst(r, "backward") = IF r = 0 THEN CpSize - 1 ELSE r - 1
         /\ \A p \in Passes : SendDst(r, p) \in Ranks /\ SendDst(r, p) # r
<1>1. CpSize \in Nat \ {0, 1} /\ r \in 0..CpSize - 1
  BY RingAssumption DEF Ranks
<1>2. SendDst(r, "forward") = IF r = CpSize - 1 THEN 0 ELSE r + 1
  BY <1>1, Modulo DEF SendDst
<1>3. SendDst(r, "backward") = IF r = 0 THEN CpSize - 1 ELSE r - 1
  BY <1>1, Modulo DEF SendDst
<1> QED  BY <1>1, <1>2, <1>3 DEF Passes, Ranks

\* Nobody else sends to the same rank, and everybody is sent to.
LEMMA DestinationsDiffer ==
  ASSUME NEW r \in Ranks, NEW q \in Ranks, NEW p \in Passes,
         SendDst(r, p) = SendDst(q, p)
  PROVE  r = q
<1>1. CpSize \in Nat \ {0, 1} /\ r \in 0..CpSize - 1 /\ q \in 0..CpSize - 1
  BY RingAssumption DEF Ranks
<1> QED  BY <1>1, DestinationIs DEF Passes

\* What is sent is what the receiver expects of that exchange.
LEMMA NextStep ==
  ASSUME NEW r \in Ranks, NEW i \in 0..CpSize - 2
  PROVE  /\ i \in Steps /\ i + 1 \in Steps
         /\ Fwd(SendDst(r, "forward"), i + 1) = Fwd(r, i)
         /\ Bwd(SendDst(r, "backward"), i + 1) = Bwd(r, i)
<1>1. CpSize \in Nat \ {0, 1} /\ r \in 0..CpSize - 1 /\ i \in Steps /\ i + 1 \in Steps
  BY RingAssumption DEF Ranks, Steps
<1> DEFINE f == SendDst(r, "forward")
           b == SendDst(r, "backward")
<1>2. /\ f \in Ranks /\ f = IF r = CpSize - 1 THEN 0 ELSE r + 1
      /\ b \in Ranks /\ b = IF r = 0 THEN CpSize - 1 ELSE r - 1
  BY DestinationIs DEF Passes
<1> HIDE DEF f, b
<1>3. Fwd(f, i + 1) = Fwd(r, i)
  <2>1. /\ Fwd(f, i + 1) = IF i + 1 <= f THEN f - (i + 1) ELSE f - (i + 1) + CpSize
        /\ Fwd(r, i) = IF i <= r THEN r - i ELSE r - i + CpSize
    BY <1>1, <1>2, FwdIs
  <2> QED  BY <1>1, <1>2, <2>1
<1>4. Bwd(b, i + 1) = Bwd(r, i)
  <2>1. /\ Bwd(b, i + 1) = IF b + 1 + (i + 1) < CpSize THEN b + 1 + (i + 1)
                            ELSE b + 1 + (i + 1) - CpSize
        /\ Bwd(r, i) = IF r + 1 + i < CpSize THEN r + 1 + i ELSE r + 1 + i - CpSize
    BY <1>1, <1>2, BwdIs
  <2> QED  BY <1>1, <1>2, <2>1
<1> QED  BY <1>1, <1>3, <1>4 DEF f, b

LEMMA SendersGiver ==
  ASSUME NEW r \in Ranks
  PROVE  Giver(SendDst(r, "backward"), 1) = r
<1>1. CpSize \in Nat \ {0, 1} /\ r \in 0..CpSize - 1 /\ 1 \in Steps
  BY RingAssumption DEF Ranks, Steps
<1> QED  BY <1>1, GiverIs, DestinationIs DEF Passes

-----------------------------------------------------------------------------
(* Slices met so far *)

LEMMA FwdSlicesStep ==
  ASSUME NEW r \in Ranks
  PROVE  /\ FwdSlices(r, 0) = {Fwd(r, 0)} /\ Fwd(r, 0) = r
         /\ \A i \in Steps : FwdSlices(r, i) \subseteq Ranks
         /\ \A i \in Steps \ {0} :
              /\ FwdSlices(r, i) = FwdSlices(r, i - 1) \cup {Fwd(r, i)}
              /\ Fwd(r, i) \notin FwdSlices(r, i - 1)
         /\ FwdSlices(r, CpSize - 1) = Ranks
<1> CpSize \in Nat \ {0, 1} /\ r \in 0..CpSize - 1
  BY RingAssumption DEF Ranks
<1>1. /\ 0 \in Steps /\ 0..0 = {0} /\ CpSize - 1 \in Steps
      /\ \A i \in Steps : i \in Nat /\ 0..i \subseteq Steps
      /\ \A i \in Steps \ {0} :
           i - 1 \in Steps /\ 0..i = (0..i - 1) \cup {i} /\ i \notin 0..i - 1
  BY DEF Steps
<1>2. FwdSlices(r, 0) = {Fwd(r, 0)} /\ Fwd(r, 0) = r
  BY <1>1, FwdIs DEF FwdSlices
<1>3. ASSUME NEW i \in Steps  PROVE FwdSlices(r, i) \subseteq Ranks
  BY <1>1, FwdIs DEF FwdSlices
<1>4. ASSUME NEW i \in Steps \ {0}
      PROVE  /\ FwdSlices(r, i) = FwdSlices(r, i - 1) \cup {Fwd(r, i)}
             /\ Fwd(r, i) \notin FwdSlices(r, i - 1)
  <2>1. \A j \in 0..i - 1 : j \in Steps /\ Fwd(r, j) # Fwd(r, i)
    BY <1>1, FwdIs DEF Steps
  <2> QED  BY <1>1, <2>1 DEF FwdSlices
<1>5. Ranks \subseteq FwdSlices(r, CpSize - 1)
  <2> SUFFICES ASSUME NEW s \in Ranks  PROVE \E j \in 0..CpSize - 1 : s = Fwd(r, j)
    BY DEF FwdSlices
  <2> DEFINE j == IF s <= r THEN r - s ELSE r - s + CpSize
  <2>1. j \in Steps /\ j \in 0..CpSize - 1
    BY DEF Ranks, Steps
  <2>2. s = Fwd(r, j)
    BY <2>1, FwdIs DEF Ranks
  <2> QED  BY <2>1, <2>2
<1> QED  BY <1>1, <1>2, <1>3, <1>4, <1>5

LEMMA BwdSlicesStep ==
  ASSUME NEW r \in Ranks
  PROVE  /\ BwdSlices(r, 0) = {Bwd(r, 0)}
         /\ \A i \in Steps : BwdSlices(r, i) \subseteq Ranks
         /\ \A i \in Steps \ {0} :
              /\ BwdSlices(r, i) = BwdSlices(r, i - 1) \cup {Bwd(r, i)}
              /\ Bwd(r, i) \notin BwdSlices(r, i - 1)
         /\ BwdSlices(r, CpSize - 1) = Ranks
<1> CpSize \in Nat \ {0, 1} /\ r \in 0..CpSize - 1
  BY RingAssumption DEF Ranks
<1>1. /\ 0 \in Steps /\ 0..0 = {0} /\ CpSize - 1 \in Steps
      /\ \A i \in Steps : i \in Nat /\ 0..i \subseteq Steps
      /\ \A i \in Steps \ {0} :
           i - 1 \in Steps /\ 0..i = (0..i - 1) \cup {i} /\ i \notin 0..i - 1
  BY DEF Steps
<1>2. BwdSlices(r, 0) = {Bwd(r, 0)}
  BY <1>1 DEF BwdSlices
<1>3. ASSUME NEW i \in Steps  PROVE BwdSlices(r, i) \subseteq Ranks
  BY <1>1, BwdIs DEF BwdSlices
<1>4. ASSUME NEW i \in Steps \ {0}
      PROVE  /\ BwdSlices(r, i) = BwdSlices(r, i - 1) \cup {Bwd(r, i)}
             /\ Bwd(r, i) \notin BwdSlices(r, i - 1)
  <2>1. \A j \in 0..i - 1 : j \in Steps /\ Bwd(r, j) # Bwd(r, i)
    BY <1>1, BwdIs DEF Steps
  <2> QED  BY <1>1, <2>1 DEF BwdSlices
<1>5. Ranks \subseteq BwdSlices(r, CpSize - 1)
  <2> SUFFICES ASSUME NEW s \in Ranks  PROVE \E j \in 0..CpSize - 1 : s = Bwd(r, j)
    BY DEF BwdSlices
  <2> DEFINE j == IF s > r THEN s - r - 1 ELSE s - r - 1 + CpSize
  <2>1. j \in Steps /\ j \in 0..CpSize - 1
    BY DEF Ranks, Steps
  <2>2. s = Bwd(r, j)
    BY <2>1, BwdIs DEF Ranks
  <2> QED  BY <2>1, <2>2
<1> QED  BY <1>1, <1>2, <1>3, <1>4, <1>5

LEMMA GiversStep ==
  ASSUME NEW r \in Ranks
  PROVE  /\ Givers(r, 0) = {r}
         /\ \A i \in Steps : Givers(r, i) \subseteq Ranks
         /\ \A i \in Steps \ {0} :
              /\ Givers(r, i) = Givers(Giver(r, 1), i - 1) \cup {r}
              /\ r \notin Givers(Giver(r, 1), i - 1)
              /\ Bwd(Giver(r, 1), i - 1) = Bwd(r, i)
         /\ Givers(r, CpSize - 1) = Ranks
<1> CpSize \in Nat \ {0, 1} /\ r \in 0..CpSize - 1
  BY RingAssumption DEF Ranks
<1> DEFINE n == Giver(r, 1)
<1>1. /\ 0 \in Steps /\ 1 \in Steps /\ 0..0 = {0} /\ CpSize - 1 \in Steps
      /\ \A i \in Steps : i \in Nat /\ 0..i \subseteq Steps
      /\ \A i \in Steps \ {0} :
           /\ i - 1 \in Steps
           /\ \A j \in 0..i : j = 0 \/ j - 1 \in 0..i - 1
           /\ \A j \in 0..i - 1 : j + 1 \in 0..i
  BY DEF Steps
<1>2. Givers(r, 0) = {r}
  <2>1. Giver(r, 0) = r
    BY <1>1, GiverIs
  <2> QED  BY <1>1, <2>1 DEF Givers
<1>3. ASSUME NEW i \in Steps  PROVE Givers(r, i) \subseteq Ranks
  BY <1>1, GiverIs DEF Givers
<1>4. ASSUME NEW i \in Steps \ {0}
      PROVE  /\ Givers(r, i) = Givers(n, i - 1) \cup {r}
             /\ r \notin Givers(n, i - 1)
             /\ Bwd(n, i - 1) = Bwd(r, i)
  <2>1. n \in Ranks /\ n \in 0..CpSize - 1 /\ n = IF r + 1 < CpSize THEN r + 1 ELSE 0
    <3>1. n \in Ranks /\ n = IF r + 1 < CpSize THEN r + 1 ELSE r + 1 - CpSize
      BY <1>1, GiverIs
    <3> HIDE DEF n
    <3> QED  BY <3>1 DEF Ranks
  <2> HIDE DEF n
  <2>2. \A j \in 0..i - 1 : /\ j \in Steps /\ j + 1 \in Steps
                            /\ Giver(n, j) = Giver(r, j + 1) /\ Giver(n, j) # r
    BY <1>1, <2>1, GiverIs DEF Steps
  <2>3. Giver(r, 0) = r
    BY <1>1, GiverIs
  <2>4. \A j \in 0..i : j = 0 \/ (j - 1 \in 0..i - 1 /\ Giver(r, j) = Giver(n, j - 1))
    BY <1>1, <2>2
  <2>5. 0 \in 0..i
    BY <1>1
  <2>6. Givers(r, i) = Givers(n, i - 1) \cup {r}
    BY <1>1, <2>2, <2>3, <2>4, <2>5 DEF Givers
  <2>7. r \notin Givers(n, i - 1)
    BY <2>2 DEF Givers
  <2>8. Bwd(n, i - 1) = Bwd(r, i)
    BY <1>1, <2>1, BwdIs DEF Steps
  <2> QED  BY <2>6, <2>7, <2>8
<1>5. Ranks \subseteq Givers(r, CpSize - 1)
  <2> SUFFICES ASSUME NEW q \in Ranks  PROVE \E j \in 0..CpSize - 1 : q = Giver(r, j)
    BY DEF Givers
  <2> DEFINE j == IF q >= r THEN q - r ELSE q - r + CpSize
  <2>1. j \in Steps /\ j \in 0..CpSize - 1
    BY DEF Ranks, Steps
  <2>2. q = Giver(r, j)
    BY <2>1, GiverIs DEF Ranks
  <2> QED  BY <2>1, <2>2
<1> QED  BY <1>1, <1>2, <1>3, <1>4, <1>5

-----------------------------------------------------------------------------
(* What meets what *)

\* The tile of queries q and keys s, as both passes find it from the step.
Section(q, s) ==
  IF ~causal THEN "all"
  ELSE IF s = q THEN "diagonal"
  ELSE IF s < q THEN "lower-triangle"
  ELSE "upper-triangle"

LEMMA SectionOfStep ==
  ASSUME NEW r \in Ranks, NEW i \in Steps
  PROVE  /\ ForwardSection(r, i) = Section(r, Fwd(r, i))
         /\ BackwardSection(r, i) = Section(r, Bwd(r, i))
<1>1. CpSize \in Nat \ {0, 1} /\ r \in 0..CpSize - 1 /\ i \in 0..CpSize - 1
  BY RingAssumption DEF Ranks, Steps
<1>2. ForwardSection(r, i) = Section(r, Fwd(r, i))
  BY <1>1, FwdIs DEF ForwardSection, Section
<1>3. BackwardSection(r, i) = Section(r, Bwd(r, i))
  BY <1>1, BwdIs DEF BackwardSection, Section
<1> QED  BY <1>2, <1>3

LEMMA ChunksDiffer ==
  ASSUME NEW q \in Ranks, NEW s \in Ranks, NEW h \in Halves, NEW g \in Halves
  PROVE  /\ Chunk(q, h) \in Chunks
         /\ Chunk(q, h) = Chunk(s, g) <=> q = s /\ h = g
<1>1. CpSize \in Nat \ {0, 1} /\ q \in 0..CpSize - 1 /\ s \in 0..CpSize - 1
  BY RingAssumption DEF Ranks
<1> QED  BY <1>1 DEF Chunk, Chunks, Halves

\* A pair of halves is in the section of a tile when the queries see the keys.
LEMMA PairsOfTile ==
  ASSUME causal \in BOOLEAN, NEW q \in Ranks, NEW s \in Ranks, NEW h \in Halves, NEW g \in Halves
  PROVE  <<h, g>> \in Pairs(Section(q, s)) <=> Chunk(s, g) \in KeysOf(Chunk(q, h))
<1>1. CpSize \in Nat \ {0, 1} /\ q \in 0..CpSize - 1 /\ s \in 0..CpSize - 1
  BY RingAssumption DEF Ranks
<1>2. Chunk(s, g) \in KeysOf(Chunk(q, h)) <=> (causal => Chunk(s, g) <= Chunk(q, h))
  BY ChunksDiffer DEF KeysOf
<1>3. CASE ~causal
  <2>1. Pairs(Section(q, s)) = Halves \X Halves
    BY <1>3 DEF Section, Pairs
  <2> QED  BY <1>2, <1>3, <2>1
<1>4. CASE causal /\ s = q
  <2>1. Pairs(Section(q, s)) = {p \in Halves \X Halves : p[2] <= p[1]}
    BY <1>4 DEF Section, Pairs
  <2>2. <<h, g>> \in Pairs(Section(q, s)) <=> g <= h
    BY <2>1
  <2> QED  BY <1>1, <1>2, <1>4, <2>2 DEF Chunk, Halves
<1>5. CASE causal /\ s < q
  <2>1. Pairs(Section(q, s)) = Halves \X {0}
    BY <1>1, <1>5 DEF Section, Pairs
  <2>2. <<h, g>> \in Pairs(Section(q, s)) <=> g = 0
    BY <2>1
  <2> QED  BY <1>1, <1>2, <1>5, <2>2 DEF Chunk, Halves
<1>6. CASE causal /\ q < s
  <2>1. Pairs(Section(q, s)) = {1} \X Halves
    BY <1>1, <1>6 DEF Section, Pairs
  <2>2. <<h, g>> \in Pairs(Section(q, s)) <=> h = 1
    BY <2>1
  <2> QED  BY <1>1, <1>2, <1>6, <2>2 DEF Chunk, Halves
<1> QED  BY <1>1, <1>3, <1>4, <1>5, <1>6

LEMMA TileMeets ==
  ASSUME causal \in BOOLEAN, NEW q \in Ranks, NEW s \in Ranks
  PROVE  /\ KeysMet(Section(q, s), s) = [h \in Halves |-> KeysFrom(Chunk(q, h), {s})]
         /\ QueriesMet(Section(q, s), q) = [g \in Halves |-> QueriesFrom(Chunk(s, g), {q})]
<1>1. \A hs : /\ ChunksOf(s, hs) = {Chunk(s, g) : g \in hs}
              /\ ChunksOf(q, hs) = {Chunk(q, h) : h \in hs}
  BY RingAssumption DEF ChunksOf, Ranks, Uninit
<1>2. ASSUME NEW h \in Halves
      PROVE  ChunksOf(s, {g \in Halves : <<h, g>> \in Pairs(Section(q, s))})
               = KeysFrom(Chunk(q, h), {s})
  <2>1. \A g \in Halves :
          <<h, g>> \in Pairs(Section(q, s)) <=> Chunk(s, g) \in KeysOf(Chunk(q, h))
    BY PairsOfTile
  <2>2. ChunksOf(s, {g \in Halves : <<h, g>> \in Pairs(Section(q, s))})
          = {Chunk(s, g) : g \in {f \in Halves : Chunk(s, f) \in KeysOf(Chunk(q, h))}}
    BY <1>1, <2>1
  <2>3. \A b : b \in KeysFrom(Chunk(q, h), {s}) <=>
               b \in KeysOf(Chunk(q, h)) /\ \E g \in Halves : b = Chunk(s, g)
    BY DEF KeysFrom, KeysOf
  <2> QED  BY <2>2, <2>3
<1>3. ASSUME NEW g \in Halves
      PROVE  ChunksOf(q, {h \in Halves : <<h, g>> \in Pairs(Section(q, s))})
               = QueriesFrom(Chunk(s, g), {q})
  <2>1. \A h \in Halves :
          <<h, g>> \in Pairs(Section(q, s)) <=> Chunk(q, h) \in QueriesOf(Chunk(s, g))
    BY PairsOfTile, ChunksDiffer DEF QueriesOf
  <2>2. ChunksOf(q, {h \in Halves : <<h, g>> \in Pairs(Section(q, s))})
          = {Chunk(q, h) : h \in {f \in Halves : Chunk(q, f) \in QueriesOf(Chunk(s, g))}}
    BY <1>1, <2>1
  <2>3. \A a : a \in QueriesFrom(Chunk(s, g), {q}) <=>
               a \in QueriesOf(Chunk(s, g)) /\ \E h \in Halves : a = Chunk(q, h)
    BY DEF QueriesFrom, QueriesOf
  <2> QED  BY <2>2, <2>3
<1> QED  BY <1>2, <1>3 DEF KeysMet, QueriesMet

LEMMA KeysTogether ==
  ASSUME NEW a, NEW S \in SUBSET Ranks, NEW T \in SUBSET Ranks, S \cap T = {}
  PROVE  Plus(KeysFrom(a, S), KeysFrom(a, T)) = KeysFrom(a, S \cup T)
<1>1. KeysFrom(a, S) \cap KeysFrom(a, T) = {}
  BY ChunksDiffer DEF KeysFrom
<1> QED  BY <1>1 DEF Plus, KeysFrom

LEMMA QueriesTogether ==
  ASSUME NEW b, NEW S \in SUBSET Ranks, NEW T \in SUBSET Ranks, S \cap T = {}
  PROVE  Plus(QueriesFrom(b, S), QueriesFrom(b, T)) = QueriesFrom(b, S \cup T)
<1>1. QueriesFrom(b, S) \cap QueriesFrom(b, T) = {}
  BY ChunksDiffer DEF QueriesFrom
<1> QED  BY <1>1 DEF Plus, QueriesFrom

LEMMA AllMet ==
  ASSUME NEW a
  PROVE  KeysFrom(a, Ranks) = KeysOf(a) /\ QueriesFrom(a, Ranks) = QueriesOf(a)
<1>1. ASSUME NEW b \in Chunks  PROVE \E s \in Ranks, g \in Halves : b = Chunk(s, g)
  <2>1. CpSize \in Nat \ {0, 1} /\ b \in 0..2 * CpSize - 1
    BY RingAssumption DEF Chunks
  <2>2. CASE b < CpSize
    <3>1. b \in Ranks /\ b = Chunk(b, 0)
      BY <2>1, <2>2 DEF Ranks, Chunk
    <3> QED  BY <3>1 DEF Halves
  <2>3. CASE b >= CpSize
    <3>1. 2 * CpSize - 1 - b \in Ranks /\ b = Chunk(2 * CpSize - 1 - b, 1)
      BY <2>1, <2>3 DEF Ranks, Chunk
    <3> QED  BY <3>1 DEF Halves
  <2> QED  BY <2>1, <2>2, <2>3
<1> QED  BY <1>1 DEF KeysFrom, QueriesFrom, KeysOf, QueriesOf

\* Half 0 of the queries sees no keys of later slices, half 1 of the keys is seen by no
\* queries of later slices.
LEMMA NothingMet ==
  ASSUME causal, NEW q \in Ranks, NEW S \in SUBSET Ranks
  PROVE  /\ (\A s \in S : s > q) => KeysFrom(Chunk(q, 0), S) = {}
         /\ (\A p \in S : p > q) => QueriesFrom(Chunk(q, 1), S) = {}
<1> CpSize \in Nat \ {0, 1} /\ q \in 0..CpSize - 1
  BY RingAssumption DEF Ranks
<1>1. ASSUME \A s \in S : s > q  PROVE KeysFrom(Chunk(q, 0), S) = {}
  <2>1. \A s \in S, g \in Halves : s \in 0..CpSize - 1 /\ Chunk(s, g) > Chunk(q, 0)
    BY <1>1 DEF Chunk, Halves, Ranks
  <2>2. \A b \in KeysOf(Chunk(q, 0)) : b <= Chunk(q, 0) /\ b \in Int
    BY DEF KeysOf, Chunks
  <2> QED  BY <2>1, <2>2 DEF KeysFrom, Chunk, Ranks, Halves
<1>2. ASSUME \A p \in S : p > q  PROVE QueriesFrom(Chunk(q, 1), S) = {}
  <2>1. \A p \in S, h \in Halves : p \in 0..CpSize - 1 /\ Chunk(p, h) < Chunk(q, 1)
    BY <1>2 DEF Chunk, Halves, Ranks
  <2>2. \A a \in QueriesOf(Chunk(q, 1)) : Chunk(q, 1) <= a /\ a \in Int
    BY DEF QueriesOf, KeysOf, Chunks
  <2> QED  BY <2>1, <2>2 DEF QueriesFrom, Chunk, Ranks, Halves
<1> QED  BY <1>1, <1>2

LEMMA SumStep ==
  ASSUME NEW a, NEW S \in SUBSET Ranks, NEW s \in Ranks, s \notin S
  PROVE  /\ Plus(KeysFrom(a, S), KeysFrom(a, {s})) = KeysFrom(a, S \cup {s})
         /\ Plus(QueriesFrom(a, S), QueriesFrom(a, {s})) = QueriesFrom(a, S \cup {s})
<1>1. {s} \in SUBSET Ranks /\ S \cap {s} = {}
  OBVIOUS
<1> QED  BY <1>1, KeysTogether, QueriesTogether

-----------------------------------------------------------------------------
(* Merging the steps *)

LEMMA PerHalves ==
  ASSUME NEW a, NEW b
  PROVE  /\ PerHalf(<<a, b>>) = [h \in Halves |-> IF h = 0 THEN a ELSE b]
         /\ PerHalf(Copy) = [h \in Halves |-> "copy"]
         /\ PerHalf(Add) = [h \in Halves |-> "add"]
  BY DEF PerHalf, Copy, Add, Halves

\* The forward: after each step, the keys of the slices up to it.
LEMMA MergeStep ==
  ASSUME causal \in BOOLEAN, NEW r \in Ranks, NEW i \in Steps
  PROVE  Correct(IF i = 0 THEN Unset ELSE FwdSum(r, i - 1),
                 KeysMet(ForwardSection(r, i), Fwd(r, i)), MergeRule(r, i)) = FwdSum(r, i)
<1> DEFINE s == Fwd(r, i)
           x == IF i = 0 THEN Unset ELSE FwdSum(r, i - 1)
           y == KeysMet(ForwardSection(r, i), s)
<1>1. /\ CpSize \in Nat \ {0, 1} /\ r \in 0..CpSize - 1 /\ i \in 0..CpSize - 1
      /\ s \in Ranks /\ s = IF i <= r THEN r - i ELSE r - i + CpSize
  BY RingAssumption, FwdIs DEF Ranks, Steps
<1>2. y = [h \in Halves |-> KeysFrom(Chunk(r, h), {s})]
  BY <1>1, SectionOfStep, TileMeets
<1> HIDE DEF s, x, y
<1>3. CASE i = 0
  <2>1. MergeRule(r, i) = [h \in Halves |-> "copy"]
    BY <1>3, PerHalves DEF MergeRule
  <2>2. FwdSlices(r, i) = {s}
    BY <1>3, FwdSlicesStep DEF s
  <2> QED  BY <1>2, <2>1, <2>2 DEF Correct, FwdSum, s, x, y
<1>4. CASE i # 0
  <2>1. x = [h \in Halves |-> KeysFrom(Chunk(r, h), FwdSlices(r, i - 1))]
    BY <1>4 DEF x, FwdSum
  <2>2. /\ FwdSlices(r, i) = FwdSlices(r, i - 1) \cup {s} /\ s \notin FwdSlices(r, i - 1)
        /\ FwdSlices(r, i - 1) \subseteq Ranks
    BY <1>1, <1>4, FwdSlicesStep DEF s, Steps
  <2>3. \A h \in Halves : Plus(x[h], y[h]) = KeysFrom(Chunk(r, h), FwdSlices(r, i))
    BY <1>1, <1>2, <2>1, <2>2, SumStep
  <2>4. CASE i <= r \/ ~causal
    <3>1. MergeRule(r, i) = [h \in Halves |-> "add"]
      BY <1>4, <2>4, PerHalves DEF MergeRule
    <3> QED  BY <2>3, <3>1 DEF Correct, FwdSum, s, x, y
  <2>5. CASE i > r /\ causal
    <3>1. MergeRule(r, i) = [h \in Halves |-> IF h = 0 THEN "none" ELSE "add"]
      BY <1>1, <1>4, <2>5, PerHalves DEF MergeRule
    <3>2. KeysFrom(Chunk(r, 0), {s}) = {}
      BY <1>1, <2>5, NothingMet
    <3>3. KeysFrom(Chunk(r, 0), FwdSlices(r, i)) = x[0]
      BY <2>1, <2>2, <3>2 DEF KeysFrom, Halves
    <3> QED  BY <2>3, <3>1, <3>3 DEF Correct, FwdSum, s, x, y, Halves
  <2> QED  BY <1>1, <2>4, <2>5
<1> QED  BY <1>3, <1>4

LEMMA FwdSumAll ==
  ASSUME NEW r \in Ranks
  PROVE  FwdSum(r, CpSize - 1) = [h \in Halves |-> KeysOf(Chunk(r, h))]
  BY FwdSlicesStep, AllMet DEF FwdSum

\* The recursion of the output correction has one solution.
LEMMA MergedExact ==
  ASSUME causal \in BOOLEAN, NEW r \in Ranks,
         \A i \in Steps : part[r][i] = KeysMet(ForwardSection(r, i), Fwd(r, i))
  PROVE  Merged(r) = [h \in Halves |-> KeysOf(Chunk(r, h))]
<1> DEFINE Rec(g) == g = [i \in Steps |-> Correct(IF i = 0 THEN Unset ELSE g[i - 1],
                                                  part[r][i], MergeRule(r, i))]
           want == [i \in Steps |-> FwdSum(r, i)]
<1>1. /\ CpSize \in Nat \ {0, 1} /\ CpSize - 1 \in Steps /\ Steps \subseteq Nat
      /\ \A i \in Steps : i # 0 => i - 1 \in Steps
  BY RingAssumption DEF Steps
<1>2. \A i \in Steps : Correct(IF i = 0 THEN Unset ELSE FwdSum(r, i - 1),
                               part[r][i], MergeRule(r, i)) = FwdSum(r, i)
  BY MergeStep
<1>3. Rec(want)
  BY <1>1, <1>2
<1>4. ASSUME NEW g, Rec(g)  PROVE g = want
  <2>1. \A i \in Steps : g[i] = Correct(IF i = 0 THEN Unset ELSE g[i - 1],
                                        part[r][i], MergeRule(r, i))
    BY <1>4
  <2> DEFINE T == {i \in Steps : g[i] # FwdSum(r, i)}
  <2>2. T = {}
    <3> SUFFICES ASSUME T # {}  PROVE FALSE
      OBVIOUS
    <3>1. PICK i \in T : \A j \in T : i <= j
      <4>1. T \in SUBSET Nat
        BY <1>1
      <4> HIDE DEF T
      <4> QED  BY <4>1, LeastNatural
    <3>2. i # 0 => g[i - 1] = FwdSum(r, i - 1)
      <4>1. i \in Steps /\ (i # 0 => i - 1 \in Steps /\ ~(i <= i - 1))
        BY <1>1
      <4> QED  BY <3>1, <4>1
    <3>3. g[i] = FwdSum(r, i)
      BY <1>2, <2>1, <3>2
    <3> QED  BY <3>3
  <2>3. g = [i \in Steps |-> g[i]]
    BY <1>4
  <2> QED  BY <2>2, <2>3
<1>5. Merged(r) = (CHOOSE g : Rec(g))[CpSize - 1]
  BY DEF Merged
<1> HIDE DEF Rec
<1>6. (CHOOSE g : Rec(g)) = want
  BY <1>3, <1>4
<1> QED  BY <1>1, <1>5, <1>6, FwdSumAll

\* The backward: the gradient of the queries after each step.
LEMMA DqStep ==
  ASSUME Config, precision # "delayed", NEW r \in Ranks, NEW i \in Steps
  PROVE  Correct(IF i = 0 THEN Unset ELSE DqSum(r, i - 1),
                 KeysMet(BackwardSection(r, i), Bwd(r, i)), DqRule(r, i)) = DqSum(r, i)
<1> DEFINE s == Bwd(r, i)
           x == IF i = 0 THEN Unset ELSE DqSum(r, i - 1)
           y == KeysMet(BackwardSection(r, i), s)
           before == BwdSlices(r, i - 1)
           after == BwdSlices(r, i)
<1>1. /\ CpSize \in Nat \ {0, 1} /\ r \in 0..CpSize - 1 /\ i \in 0..CpSize - 1
      /\ s \in Ranks /\ causal \in BOOLEAN
  BY RingAssumption, BwdIs DEF Ranks, Steps, Config
<1>2. y = [h \in Halves |-> KeysFrom(Chunk(r, h), {s})]
  BY <1>1, SectionOfStep, TileMeets
<1>3. i # 0 => /\ after = before \cup {s} /\ s \notin before /\ before \subseteq Ranks
               /\ \A h \in Halves : Plus(KeysFrom(Chunk(r, h), before), y[h]) = KeysFrom(Chunk(r, h), after)
  <2> SUFFICES ASSUME i # 0
               PROVE  /\ after = before \cup {s} /\ s \notin before /\ before \subseteq Ranks
                      /\ \A h \in Halves : Plus(KeysFrom(Chunk(r, h), before), y[h]) = KeysFrom(Chunk(r, h), after)
    OBVIOUS
  <2>1. after = before \cup {s} /\ s \notin before /\ before \subseteq Ranks
    BY <1>1, BwdSlicesStep DEF Steps
  <2> HIDE DEF s, y, before, after
  <2> QED  BY <1>1, <1>2, <2>1, SumStep
<1>4. i = 0 => after = {s}
  BY BwdSlicesStep
<1>5. causal /\ i < CpSize - r => KeysFrom(Chunk(r, 0), before) = {}
  <2> SUFFICES ASSUME causal, i < CpSize - r  PROVE KeysFrom(Chunk(r, 0), before) = {}
    OBVIOUS
  <2>1. \A j \in 0..i - 1 : j \in Steps /\ Bwd(r, j) > r /\ Bwd(r, j) \in Ranks
    BY <1>1, BwdIs DEF Steps
  <2>2. before \in SUBSET Ranks /\ \A p \in before : p > r
    BY <2>1 DEF BwdSlices
  <2> HIDE DEF before
  <2> QED  BY <2>2, NothingMet
<1>6. /\ i # 0 => x = [h \in Halves |-> IF causal /\ h = 0 /\ i - 1 < CpSize - r - 1 THEN {Uninit}
                                        ELSE KeysFrom(Chunk(r, h), before)]
      /\ i = 0 => x = [h \in Halves |-> {Uninit}]
      /\ DqSum(r, i) = [h \in Halves |-> IF causal /\ h = 0 /\ i < CpSize - r - 1 THEN {Uninit}
                                         ELSE KeysFrom(Chunk(r, h), after)]
  BY DEF DqSum, Unset
<1> HIDE DEF s, x, y, before, after
<1>7. CASE ~causal
  <2>1. DqRule(r, i) = [h \in Halves |-> IF i = 0 THEN "copy" ELSE "add"]
    BY <1>7, PerHalves DEF DqRule
  <2> QED  BY <1>2, <1>3, <1>4, <1>6, <1>7, <2>1 DEF Correct, s, x, y
<1>8. CASE causal /\ i > CpSize - r - 1
  <2>1. i # 0 /\ ~(i - 1 < CpSize - r - 1) /\ ~(i < CpSize - r - 1)
    BY <1>1, <1>8
  <2>2. DqRule(r, i) = PerHalf(Add)
    BY <1>8 DEF DqRule
  <2>3. DqRule(r, i) = [h \in Halves |-> "add"]
    BY <2>2, PerHalves
  <2> QED  BY <1>3, <1>6, <1>8, <2>1, <2>3 DEF Correct, s, x, y
<1>9. CASE causal /\ i = CpSize - r - 1 /\ i = 0
  <2>1. r = CpSize - 1 /\ ~(i < CpSize - r - 1) /\ ~(i > CpSize - r - 1)
    BY <1>1, <1>9
  <2>2. DqRule(r, i) = PerHalf(Copy)
    BY <1>9, <2>1 DEF DqRule
  <2>3. DqRule(r, i) = [h \in Halves |-> "copy"]
    BY <2>2, PerHalves
  <2> QED  BY <1>2, <1>4, <1>6, <1>9, <2>1, <2>3, ZenonT(60) DEF Correct, s, x, y
<1>10. CASE causal /\ i = CpSize - r - 1 /\ i # 0
  <2>1. DqRule(r, i) = [h \in Halves |-> IF h = 0 THEN "copy" ELSE "add"]
    BY <1>1, <1>10, PerHalves DEF DqRule
  <2>2. KeysFrom(Chunk(r, 0), after) = y[0]
    <3>1. KeysFrom(Chunk(r, 0), before) = {}
      BY <1>1, <1>5, <1>10
    <3> QED  BY <1>2, <1>3, <1>10, <3>1 DEF KeysFrom, Halves
  <2> QED  BY <1>1, <1>3, <1>6, <1>10, <2>1, <2>2 DEF Correct, s, x, y, Halves
<1>11. CASE causal /\ i < CpSize - r - 1
  <2>1. DqRule(r, i) = [h \in Halves |-> IF h = 0 THEN "none" ELSE IF i = 0 THEN "copy" ELSE "add"]
    BY <1>1, <1>11, PerHalves DEF DqRule
  <2>2. i - 1 < CpSize - r - 1
    BY <1>1, <1>11
  <2> QED  BY <1>2, <1>3, <1>4, <1>6, <1>11, <2>1, <2>2 DEF Correct, s, x, y, Halves
<1>12. i = CpSize - r - 1 \/ i < CpSize - r - 1 \/ i > CpSize - r - 1
  BY <1>1
<1> QED  BY <1>7, <1>8, <1>9, <1>10, <1>11, <1>12

\* The gradient of a slice, as it passes rank r.
LEMMA DkvStep ==
  ASSUME Config, precision = "f16", NEW r \in Ranks, NEW i \in Steps
  PROVE  Correct(IF i = 0 THEN Unset ELSE DkvSum(Giver(r, 1), i - 1),
                 QueriesMet(BackwardSection(r, i), r), DkvRule(r, i)) = DkvSum(r, i)
<1> DEFINE s == Bwd(r, i)
           x == IF i = 0 THEN Unset ELSE DkvSum(Giver(r, 1), i - 1)
           y == QueriesMet(BackwardSection(r, i), r)
           before == Givers(Giver(r, 1), i - 1)
           after == Givers(r, i)
<1>1. /\ CpSize \in Nat \ {0, 1} /\ r \in 0..CpSize - 1 /\ i \in 0..CpSize - 1
      /\ s \in Ranks /\ s = IF r + 1 + i < CpSize THEN r + 1 + i ELSE r + 1 + i - CpSize
      /\ causal \in BOOLEAN
  BY RingAssumption, BwdIs DEF Ranks, Steps, Config
<1>2. y = [g \in Halves |-> QueriesFrom(Chunk(s, g), {r})]
  BY <1>1, SectionOfStep, TileMeets
<1>3. i # 0 => /\ after = before \cup {r} /\ r \notin before /\ before \subseteq Ranks
               /\ Bwd(Giver(r, 1), i - 1) = s
  <2>1. i # 0 => i - 1 \in Steps /\ i \in Steps \ {0}
    BY <1>1 DEF Steps
  <2>2. Giver(r, 1) \in Ranks
    BY <1>1, GiverIs DEF Steps
  <2> QED  BY <2>1, <2>2, GiversStep
<1>4. i = 0 => after = {r}
  BY GiversStep
<1>5. i # 0 => \A g \in Halves :
        Plus(QueriesFrom(Chunk(s, g), before), y[g]) = QueriesFrom(Chunk(s, g), after)
  <2> HIDE DEF s, y, before, after
  <2> QED  BY <1>1, <1>2, <1>3, SumStep
<1>6. /\ i # 0 => x = [g \in Halves |-> IF causal /\ g = 1 /\ s = 0 THEN {Uninit}
                                        ELSE QueriesFrom(Chunk(s, g), before)]
      /\ i = 0 => x = [g \in Halves |-> {Uninit}]
      /\ DkvSum(r, i) = [g \in Halves |-> IF causal /\ g = 1 /\ s = 0 /\ i < CpSize - 1 THEN {Uninit}
                                          ELSE QueriesFrom(Chunk(s, g), after)]
  <2>1. i - 1 < CpSize - 1
    BY <1>1
  <2>2. i # 0 => x = [g \in Halves |-> IF causal /\ g = 1 /\ s = 0 THEN {Uninit}
                                       ELSE QueriesFrom(Chunk(s, g), before)]
    <3> SUFFICES ASSUME i # 0
                 PROVE  DkvSum(Giver(r, 1), i - 1) =
                          [g \in Halves |-> IF causal /\ g = 1 /\ s = 0 THEN {Uninit}
                                            ELSE QueriesFrom(Chunk(s, g), before)]
      OBVIOUS
    <3>1. Bwd(Giver(r, 1), i - 1) = s
      BY <1>3
    <3> HIDE DEF s
    <3> QED  BY <2>1, <3>1 DEF DkvSum
  <2> QED  BY <2>2 DEF DkvSum, Unset
<1> HIDE DEF s, x, y, before, after
<1>7. CASE ~causal
  <2>1. DkvRule(r, i) = PerHalf(IF i = 0 THEN Copy ELSE Add)
    BY <1>7 DEF DkvRule
  <2>2. DkvRule(r, i) = [g \in Halves |-> IF i = 0 THEN "copy" ELSE "add"]
    BY <2>1, PerHalves
  <2> QED  BY <1>2, <1>4, <1>5, <1>6, <1>7, <2>2, SMTT(60) DEF Correct, s, x, y
<1>8. CASE causal /\ i = CpSize - 1 /\ r # 0
  <2>1. s = r /\ i # 0 /\ ~(i < CpSize - 1)
    BY <1>1, <1>8
  <2>2. DkvRule(r, i) = PerHalf(Add)
    BY <1>8 DEF DkvRule
  <2>3. DkvRule(r, i) = [g \in Halves |-> "add"]
    BY <2>2, PerHalves
  <2> QED  BY <1>5, <1>6, <1>8, <2>1, <2>3 DEF Correct, s, x, y
<1>9. CASE causal /\ i = CpSize - 1 /\ r = 0
  <2>1. s = 0 /\ i # 0 /\ ~(i < CpSize - 1)
    BY <1>1, <1>9
  <2>2. DkvRule(r, i) = PerHalf(<<"add", "copy">>)
    BY <1>9 DEF DkvRule
  <2>3. DkvRule(r, i) = [g \in Halves |-> IF g = 0 THEN "add" ELSE "copy"]
    BY <2>2, PerHalves
  <2>4. QueriesFrom(Chunk(0, 1), before) = {}
    <3>1. before \in SUBSET Ranks /\ \A p \in before : p > 0
      BY <1>3, <1>9, <2>1 DEF Ranks
    <3> QED  BY <1>1, <1>9, <3>1, NothingMet
  <2>5. QueriesFrom(Chunk(s, 1), after) = y[1]
    BY <1>2, <1>3, <1>9, <2>1, <2>4 DEF QueriesFrom, Halves
  <2> QED  BY <1>5, <1>6, <1>9, <2>1, <2>3, <2>5 DEF Correct, s, x, y, Halves
<1>10. CASE causal /\ i < CpSize - 1 /\ i >= CpSize - r - 1
  <2>1. s < r /\ i # CpSize - 1 /\ (i = 0 => s = 0 /\ r = CpSize - 1)
    BY <1>1, <1>10
  <2>2. DkvRule(r, i) = PerHalf(IF i = 0 THEN <<"copy", "none">> ELSE <<"add", "none">>)
    BY <1>10, <2>1 DEF DkvRule
  <2>3. DkvRule(r, i) = [g \in Halves |-> IF g = 1 THEN "none" ELSE IF i = 0 THEN "copy" ELSE "add"]
    BY <2>2, PerHalves DEF Halves
  <2>4. i # 0 => QueriesFrom(Chunk(s, 1), after) = QueriesFrom(Chunk(s, 1), before)
    <3>1. QueriesFrom(Chunk(s, 1), {r}) = {}
      BY <1>1, <1>10, <2>1, NothingMet
    <3> QED  BY <1>3, <3>1 DEF QueriesFrom
  <2> QED  BY <1>2, <1>4, <1>5, <1>6, <1>10, <2>1, <2>3, <2>4 DEF Correct, s, x, y, Halves
<1>11. CASE causal /\ i < CpSize - r - 1
  <2>1. s > r /\ s # 0 /\ i # CpSize - 1 /\ ~(i >= CpSize - r - 1)
    BY <1>1, <1>11
  <2>2. DkvRule(r, i) = PerHalf(IF i > 0 THEN Add ELSE Copy)
    BY <1>11, <2>1 DEF DkvRule
  <2>3. DkvRule(r, i) = [g \in Halves |-> IF i = 0 THEN "copy" ELSE "add"]
    <3>1. i > 0 <=> i # 0
      BY <1>1
    <3> QED  BY <2>2, <3>1, PerHalves
  <2> QED  BY <1>2, <1>4, <1>5, <1>6, <1>11, <2>1, <2>3 DEF Correct, s, x, y
<1>12. \/ i = CpSize - 1 \/ i < CpSize - r - 1
       \/ i < CpSize - 1 /\ i >= CpSize - r - 1
  BY <1>1
<1> QED  BY <1>1, <1>7, <1>8, <1>9, <1>10, <1>11, <1>12

LEMMA DqSumAll ==
  ASSUME NEW r \in Ranks
  PROVE  /\ DqSum(r, CpSize - 1) = [h \in Halves |-> KeysOf(Chunk(r, h))]
         /\ DkvSum(r, CpSize - 1) = [g \in Halves |-> QueriesOf(Chunk(r, g))]
<1>1. /\ CpSize \in Nat \ {0, 1} /\ r \in 0..CpSize - 1 /\ CpSize - 1 \in Steps
      /\ ~(CpSize - 1 < CpSize - r - 1) /\ ~(CpSize - 1 < CpSize - 1)
  BY RingAssumption DEF Ranks, Steps
<1>2. Bwd(r, CpSize - 1) = r
  BY <1>1, BwdIs
<1> QED  BY <1>1, <1>2, BwdSlicesStep, GiversStep, AllMet DEF DqSum, DkvSum

\* A sum in any order holds what each slot holds, and the mark if two of them meet.
InSlots(f, S, h) == UNION {f[s][h] : s \in S}
SlotsMeet(f, S, h) == \E s, t \in S : s # t /\ f[s][h] \cap f[t][h] # {}
SumOver(f, S, h) == InSlots(f, S, h) \cup (IF SlotsMeet(f, S, h) THEN {Twice} ELSE {})

LEMMA SlotSumIs ==
  ASSUME NEW f, DOMAIN f = Ranks
  PROVE  SlotSum(f) = [h \in Halves |-> SumOver(f, Ranks, h)]
<1> SUFFICES ASSUME NEW h \in Halves
             PROVE  FoldFunction(LAMBDA t, acc : Plus(t[h], acc), {}, f) = SumOver(f, Ranks, h)
  BY DEF SlotSum
<1> DEFINE some(S) == CHOOSE x \in S : TRUE
           Rec(g) == g = [S \in SUBSET Ranks |->
                            IF S = {} THEN {} ELSE Plus(f[some(S)][h], g[S \ {some(S)}])]
           want == [S \in SUBSET Ranks |-> SumOver(f, S, h)]
<1>1. FoldFunction(LAMBDA t, acc : Plus(t[h], acc), {}, f) = (CHOOSE g : Rec(g))[Ranks]
  BY DEF FoldFunction, FoldFunctionOnSet, MapThenFoldSet
<1>2. SumOver(f, {}, h) = {}
  BY DEF SumOver, InSlots, SlotsMeet
<1>3. ASSUME NEW S \in SUBSET Ranks, S # {}
      PROVE  /\ some(S) \in S /\ S \ {some(S)} \in SUBSET Ranks
             /\ Plus(f[some(S)][h], SumOver(f, S \ {some(S)}, h)) = SumOver(f, S, h)
  <2>1. some(S) \in S
    BY <1>3
  <2> DEFINE s == some(S)
             T == S \ {s}
  <2>2. s \in S /\ T \in SUBSET Ranks /\ S = T \cup {s} /\ s \notin T
    BY <2>1
  <2> HIDE DEF s, T
  <2>3. InSlots(f, S, h) = f[s][h] \cup InSlots(f, T, h)
    BY <2>2 DEF InSlots
  <2>4. SlotsMeet(f, S, h) <=> SlotsMeet(f, T, h) \/ f[s][h] \cap InSlots(f, T, h) # {}
    <3>1. SlotsMeet(f, S, h) => SlotsMeet(f, T, h) \/ f[s][h] \cap InSlots(f, T, h) # {}
      BY <2>2 DEF SlotsMeet, InSlots
    <3>2. SlotsMeet(f, T, h) => SlotsMeet(f, S, h)
      BY <2>2 DEF SlotsMeet
    <3>3. f[s][h] \cap InSlots(f, T, h) # {} => SlotsMeet(f, S, h)
      BY <2>2 DEF SlotsMeet, InSlots
    <3> QED  BY <3>1, <3>2, <3>3
  <2>5. Plus(f[s][h], SumOver(f, T, h)) = SumOver(f, S, h)
    BY <2>3, <2>4 DEF Plus, SumOver
  <2> QED  BY <2>1, <2>2, <2>5 DEF s, T
<1> HIDE DEF some
<1>4. Rec(want)
  BY <1>2, <1>3
<1>5. ASSUME NEW g, Rec(g)  PROVE g = want
  <2>1. \A S \in SUBSET Ranks :
          g[S] = IF S = {} THEN {} ELSE Plus(f[some(S)][h], g[S \ {some(S)}])
    BY <1>5
  <2> DEFINE U == {S \in SUBSET Ranks : g[S] # SumOver(f, S, h)}
  <2>2. U = {}
    <3> SUFFICES ASSUME U # {}  PROVE FALSE
      OBVIOUS
    <3>1. PICK S \in U : \A t \in U : ~(t \subseteq S /\ t # S)
      <4>1. U \in SUBSET (SUBSET Ranks)
        OBVIOUS
      <4>2. IsFiniteSet(Ranks)
        BY RingAssumption, FS_Interval DEF Ranks
      <4> HIDE DEF U
      <4> QED  BY <4>1, <4>2, SmallestSubset
    <3>2. S # {} => g[S \ {some(S)}] = SumOver(f, S \ {some(S)}, h)
      <4> SUFFICES ASSUME S # {}  PROVE g[S \ {some(S)}] = SumOver(f, S \ {some(S)}, h)
        OBVIOUS
      <4>1. some(S) \in S /\ S \ {some(S)} \in SUBSET Ranks
        BY <1>3
      <4> QED  BY <3>1, <4>1
    <3>3. g[S] = SumOver(f, S, h)
      BY <1>2, <1>3, <2>1, <3>2
    <3> QED  BY <3>3
  <2>3. g = [S \in SUBSET Ranks |-> g[S]]
    BY <1>5
  <2> QED  BY <2>2, <2>3
<1> HIDE DEF Rec
<1>6. (CHOOSE g : Rec(g)) = want
  BY <1>4, <1>5
<1> QED  BY <1>1, <1>6

\* Delayed scaling adds up slots that hold one slice each.
LEMMA SlotsExact ==
  ASSUME NEW f, DOMAIN f = Ranks, NEW r \in Ranks, NEW h \in Halves,
         \A s \in Ranks : f[s][h] = KeysFrom(Chunk(r, h), {s})
  PROVE  SumOver(f, Ranks, h) = KeysOf(Chunk(r, h))
<1>1. InSlots(f, Ranks, h) = KeysFrom(Chunk(r, h), Ranks)
  BY DEF KeysFrom, InSlots
<1>2. \A s, t \in Ranks : s # t => KeysFrom(Chunk(r, h), {s}) \cap KeysFrom(Chunk(r, h), {t}) = {}
  BY ChunksDiffer DEF KeysFrom
<1>3. ~SlotsMeet(f, Ranks, h)
  BY <1>2 DEF SlotsMeet
<1> QED  BY <1>1, <1>3, AllMet DEF SumOver

LEMMA SlotSumTyped ==
  ASSUME NEW f \in [Ranks -> Tensors]
  PROVE  SlotSum(f) \in Tensors
BY SlotSumIs DEF Tensors, SumOver, InSlots

-----------------------------------------------------------------------------
(* Exchanges                                                                  *)

\* A send and a receive of a pass.
LEMMA OpsAre ==
  ASSUME NEW p \in Passes, NEW e \in 0..Exchanges(p) - 1
  PROVE  /\ SendOp(p, e) \in P2POps /\ RecvOp(p, e) \in P2POps
         /\ SendOp(p, e).kind = "send" /\ RecvOp(p, e).kind = "recv"
         /\ SendOp(p, e).pass = p /\ RecvOp(p, e).pass = p
         /\ SendOp(p, e).parts = Parts(p, e) /\ RecvOp(p, e).parts = Parts(p, e)
<1>1. e \in Nat /\ e < Exchanges(p) /\ Exchanges(p) \in {CpSize - 1, CpSize}
  BY RingAssumption DEF Exchanges
<1>2. Parts(p, e) \in SUBSET {"kv", "dkv"}
  BY DEF Parts
<1>3. /\ (IF p = "forward" THEN e ELSE e % 2) \in Steps
      /\ (IF p = "forward" THEN e + 1 ELSE (e + 1) % 2) \in Steps
  BY <1>1, RingAssumption DEF Steps, Exchanges
<1> QED
  BY <1>2, <1>3 DEF SendOp, RecvOp, P2P, P2POps, Passes

LEMMA ShortSequences ==
  ASSUME NEW A, NEW a \in A, NEW b \in A
  PROVE  /\ <<>> \in Seq(A) /\ <<a>> \in Seq(A) /\ <<a, b>> \in Seq(A)
         /\ Len(<<>>) = 0 /\ Len(<<a>>) = 1 /\ Len(<<a, b>>) = 2
         /\ Head(<<a>>) = a /\ Tail(<<a>>) = <<>> /\ Head(<<a, b>>) = a /\ Tail(<<a, b>>) = <<b>>
         /\ <<a>> # <<>> /\ <<a, b>> # <<>> /\ <<a>> \o <<>> = <<a>>
OBVIOUS

LEMMA LeftOps ==
  ASSUME NEW s \in P2POps, NEW v \in P2POps, s.kind = "send", v.kind = "recv", s.pass = v.pass,
         NEW q \in Left(s, v)
  PROVE  /\ q \in Seq((SUBSET P2POps) \ {{}}) /\ Len(q) <= 2
         /\ q # <<>> => Head(q) # {} /\ Head(q) \subseteq {s, v}
         /\ s # v
         /\ \A kind, pass : Has(q, kind, pass) => pass = s.pass /\ kind \in {"send", "recv"}
<1>1. s # v
  OBVIOUS
<1>2. /\ {s} \in (SUBSET P2POps) \ {{}} /\ {v} \in (SUBSET P2POps) \ {{}}
      /\ {s, v} \in (SUBSET P2POps) \ {{}}
  OBVIOUS
<1>3. /\ q \in Seq((SUBSET P2POps) \ {{}}) /\ Len(q) <= 2
      /\ q # <<>> => Head(q) \in {{s}, {v}, {s, v}}
  <2> DEFINE A == (SUBSET P2POps) \ {{}}
  <2> HIDE DEF A
  <2>1. {s} \in A /\ {v} \in A /\ {s, v} \in A
    BY <1>2 DEF A
  <2>2. \A a \in A, b \in A :
          /\ <<>> \in Seq(A) /\ <<a>> \in Seq(A) /\ <<a, b>> \in Seq(A)
          /\ Len(<<>>) = 0 /\ Len(<<a>>) = 1 /\ Len(<<a, b>>) = 2
          /\ Head(<<a>>) = a /\ Head(<<a, b>>) = a
    BY ShortSequences
  <2>3. PICK a \in A, b \in A : q \in {<<>>, <<a>>, <<a, b>>} /\ a \in {{s}, {v}, {s, v}}
    BY <2>1 DEF Left
  <2>4. q \in Seq(A) /\ Len(q) <= 2 /\ (q # <<>> => Head(q) \in {{s}, {v}, {s, v}})
    <3>1. CASE q = <<>>
      BY <2>2, <3>1
    <3>2. CASE q = <<a>>
      BY <2>2, <2>3, <3>2
    <3>3. CASE q = <<a, b>>
      BY <2>2, <2>3, <3>3
    <3> QED  BY <2>3, <3>1, <3>2, <3>3
  <2> QED  BY <2>4 DEF A
<1>4. q # <<>> => Head(q) # {} /\ Head(q) \subseteq {s, v}
  BY <1>3
<1>5. \A k \in DOMAIN q : q[k] \subseteq {s, v}
  BY DEF Left
<1> QED
  BY <1>1, <1>3, <1>4, <1>5 DEF Has

LEMMA LeftHas ==
  ASSUME NEW s \in P2POps, NEW v \in P2POps, s.kind = "send", v.kind = "recv", s.pass = v.pass
  PROVE  /\ \A kind, pass : ~Has(<<>>, kind, pass)
         /\ Has(<<{s}>>, "send", s.pass) /\ ~Has(<<{s}>>, "recv", s.pass)
         /\ Has(<<{v}>>, "recv", s.pass) /\ ~Has(<<{v}>>, "send", s.pass)
         /\ Has(<<{s}, {v}>>, "send", s.pass) /\ Has(<<{s}, {v}>>, "recv", s.pass)
         /\ Has(<<{v}, {s}>>, "send", s.pass) /\ Has(<<{v}, {s}>>, "recv", s.pass)
         /\ Has(<<{s, v}>>, "send", s.pass) /\ Has(<<{s, v}>>, "recv", s.pass)
<1>1. \A kind, pass : ~Has(<<>>, kind, pass)
  BY DEF Has
<1>2. Has(<<{s}>>, "send", s.pass) /\ ~Has(<<{s}>>, "recv", s.pass)
  <2>1. 1 \in DOMAIN <<{s}>> /\ <<{s}>>[1] = {s} /\ DOMAIN <<{s}>> = {1}
    OBVIOUS
  <2> QED  BY <2>1 DEF Has
<1>3. Has(<<{v}>>, "recv", s.pass) /\ ~Has(<<{v}>>, "send", s.pass)
  <2>1. 1 \in DOMAIN <<{v}>> /\ <<{v}>>[1] = {v} /\ DOMAIN <<{v}>> = {1}
    OBVIOUS
  <2> QED  BY <2>1 DEF Has
<1>4. Has(<<{s}, {v}>>, "send", s.pass) /\ Has(<<{s}, {v}>>, "recv", s.pass)
  <2>1. /\ 1 \in DOMAIN <<{s}, {v}>> /\ 2 \in DOMAIN <<{s}, {v}>>
        /\ <<{s}, {v}>>[1] = {s} /\ <<{s}, {v}>>[2] = {v}
    OBVIOUS
  <2> QED  BY <2>1 DEF Has
<1>5. Has(<<{v}, {s}>>, "send", s.pass) /\ Has(<<{v}, {s}>>, "recv", s.pass)
  <2>1. /\ 1 \in DOMAIN <<{v}, {s}>> /\ 2 \in DOMAIN <<{v}, {s}>>
        /\ <<{v}, {s}>>[1] = {v} /\ <<{v}, {s}>>[2] = {s}
    OBVIOUS
  <2> QED  BY <2>1 DEF Has
<1>6. Has(<<{s, v}>>, "send", s.pass) /\ Has(<<{s, v}>>, "recv", s.pass)
  <2>1. 1 \in DOMAIN <<{s, v}>> /\ <<{s, v}>>[1] = {s, v}
    OBVIOUS
  <2> QED  BY <2>1 DEF Has
<1> QED
  BY <1>1, <1>2, <1>3, <1>4, <1>5, <1>6

\* A transfer takes the send or the receive out of what is left.
LEMMA LeftWithout ==
  ASSUME NEW s \in P2POps, NEW v \in P2POps, s.kind = "send", v.kind = "recv", s.pass = v.pass,
         NEW q \in Left(s, v), q # <<>>, NEW op \in Head(q)
  PROVE  /\ op \in {s, v} /\ Has(q, op.kind, s.pass)
         /\ Without(q, op) \in Left(s, v)
         /\ ~Has(Without(q, op), op.kind, s.pass)
         /\ \A kind \in {"send", "recv"} \ {op.kind} :
              Has(Without(q, op), kind, s.pass) <=> Has(q, kind, s.pass)
<1>0. /\ s # v /\ {s, v} \ {s} = {v} /\ {s, v} \ {v} = {s}
      /\ {s} # {v} /\ {s, v} # {s} /\ {s, v} # {v}
  OBVIOUS
<1>1. \A a, b : /\ Head(<<a>>) = a /\ Tail(<<a>>) = <<>> /\ <<a>> \o <<>> = <<a>>
                /\ Head(<<a, b>>) = a /\ Tail(<<a, b>>) = <<b>>
  <2> TAKE a, b
  <2> QED  BY ShortSequences, a \in {a, b}, b \in {a, b}
<1>2. /\ <<>> \in Left(s, v) /\ <<{s}>> \in Left(s, v) /\ <<{v}>> \in Left(s, v)
  BY DEF Left
<1>3. ASSUME op = s
      PROVE  /\ Without(q, s) \in Left(s, v) /\ Has(q, "send", s.pass)
             /\ ~Has(Without(q, s), "send", s.pass)
             /\ Has(Without(q, s), "recv", s.pass) <=> Has(q, "recv", s.pass)
  <2>1. q \in {<<{s}>>, <<{s}, {v}>>, <<{s, v}>>}
    BY <1>0, <1>1, <1>3 DEF Left
  <2>2. CASE q = <<{s}>>
    <3>1. Without(q, s) = <<>>
      BY <1>1, <2>2 DEF Without
    <3>2. /\ \A kind, pass : ~Has(<<>>, kind, pass)
          /\ Has(<<{s}>>, "send", s.pass) /\ ~Has(<<{s}>>, "recv", s.pass)
      BY LeftHas
    <3> QED  BY <1>2, <2>2, <3>1, <3>2
  <2>3. CASE q = <<{s}, {v}>>
    <3>1. Without(q, s) = <<{v}>>
      BY <1>1, <2>3 DEF Without
    <3> QED  BY <1>2, <2>3, <3>1, LeftHas
  <2>4. CASE q = <<{s, v}>>
    <3>1. Without(q, s) = <<{v}>>
      BY <1>0, <1>1, <2>4 DEF Without
    <3> QED  BY <1>2, <2>4, <3>1, LeftHas
  <2> QED  BY <2>1, <2>2, <2>3, <2>4
<1>4. ASSUME op = v
      PROVE  /\ Without(q, v) \in Left(s, v) /\ Has(q, "recv", s.pass)
             /\ ~Has(Without(q, v), "recv", s.pass)
             /\ Has(Without(q, v), "send", s.pass) <=> Has(q, "send", s.pass)
  <2>1. q \in {<<{v}>>, <<{v}, {s}>>, <<{s, v}>>}
    BY <1>0, <1>1, <1>4 DEF Left
  <2>2. CASE q = <<{v}>>
    <3>1. Without(q, v) = <<>>
      BY <1>1, <2>2 DEF Without
    <3> QED  BY <1>2, <2>2, <3>1, LeftHas, ZenonT(60)
  <2>3. CASE q = <<{v}, {s}>>
    <3>1. Without(q, v) = <<{s}>>
      BY <1>1, <2>3 DEF Without
    <3> QED  BY <1>2, <2>3, <3>1, LeftHas
  <2>4. CASE q = <<{s, v}>>
    <3>1. Without(q, v) = <<{s}>>
      BY <1>0, <1>1, <2>4 DEF Without
    <3> QED  BY <1>2, <2>4, <3>1, LeftHas
  <2> QED  BY <2>1, <2>2, <2>3, <2>4
<1>5. op \in {s, v}
  BY LeftOps
<1> QED
  BY <1>3, <1>4, <1>5

\* What an exchange starts, whatever the parity of the rank.
LEMMA ExchangeLeft ==
  ASSUME NEW r, NEW p \in Passes, NEW e \in 0..Exchanges(p) - 1
  PROVE  LET s == SendOp(p, e)
             v == RecvOp(p, e)
         IN <<>> \o Exchange(r, p, s.at, v.at, Parts(p, e))
              \in {<<{s}, {v}>>, <<{v}, {s}>>, <<{s, v}>>}
<1> DEFINE s == SendOp(p, e)
           v == RecvOp(p, e)
<1>1. s = P2P("send", p, s.at, Parts(p, e)) /\ v = P2P("recv", p, v.at, Parts(p, e))
  BY DEF SendOp, RecvOp, P2P
<1>2. Exchange(r, p, s.at, v.at, Parts(p, e)) \in {<<{s}, {v}>>, <<{v}, {s}>>, <<{s, v}>>}
  BY <1>1 DEF Exchange
<1>3. \A q \in {<<{s}, {v}>>, <<{v}, {s}>>, <<{s, v}>>} : <<>> \o q = q
  OBVIOUS
<1> QED
  BY <1>2, <1>3

LEMMA NothingFlies ==
  \A kind \in {"send", "recv"}, pass \in Passes : ~Has(<<>>, kind, pass) /\ ~Has(<<{A2A}>>, kind, pass)
<1>1. DOMAIN <<{A2A}>> = {1} /\ <<{A2A}>>[1] = {A2A} /\ A2A.kind = "all_to_all"
  BY DEF A2A, P2P
<1> QED
  BY <1>1 DEF Has

LEMMA PostedIs ==
  ASSUME TypeOK, Config, Steady, NEW r \in Ranks, NEW p \in Passes
  PROVE  /\ Posted(r, p) \in Nat /\ Posted(r, p) <= Exchanges(p)
         /\ Exchanges(p) \in {CpSize - 1, CpSize}
         /\ Sent(r, p) \in {Posted(r, p), Posted(r, p) - 1}
         /\ Received(r, p) \in {Posted(r, p), Posted(r, p) - 1}
<1>1. Exchanges(p) \in {CpSize - 1, CpSize} /\ CpSize \in Nat
  BY RingAssumption DEF Exchanges
<1>2. /\ posted[r] \in 0..CpSize - 1 /\ back[r].step \in 0..CpSize - 1
      /\ back[r].op \in {"forward", "post", "attend", "reduce", "sum", "done"}
  BY DEF TypeOK, Steps
<1>3. Posted(r, p) \in Nat /\ Posted(r, p) <= Exchanges(p)
  BY <1>1, <1>2 DEF Posted, Exchanges, Passes
<1> QED
  BY <1>1, <1>3 DEF Sent, Received

\* What a rank has in flight is left of the last exchange it posted.
LEMMA Flying ==
  ASSUME TypeOK, Config, Steady, InFlight, NEW r \in Ranks, comm[r] # <<>>, comm[r] # <<{A2A}>>
  PROVE  LET p == PassOf(r)
             e == Posted(r, p) - 1
         IN /\ p \in Passes /\ e \in 0..Exchanges(p) - 1
            /\ comm[r] \in Left(SendOp(p, e), RecvOp(p, e))
<1>1. /\ posted[r] \in 0..CpSize - 1 /\ back[r].step \in 0..CpSize - 1
      /\ back[r].op \in {"forward", "post", "attend", "reduce", "sum", "done"}
      /\ CpSize \in Nat
  BY RingAssumption DEF TypeOK, Steps
<1>2. CASE Back(r, "forward")
  <2>1. /\ posted[r] > 0
        /\ comm[r] \in Left(SendOp("forward", posted[r] - 1), RecvOp("forward", posted[r] - 1))
    BY <1>2 DEF InFlight, Back
  <2>2. PassOf(r) = "forward" /\ Posted(r, "forward") = posted[r]
        /\ Exchanges("forward") = CpSize - 1
    BY <1>2 DEF PassOf, Posted, Exchanges
  <2> QED  BY <1>1, <2>1, <2>2 DEF Passes
<1>3. CASE ~Back(r, "forward")
  <2>1. /\ Back(r, "attend") \/ Back(r, "reduce")
        /\ back[r].step < Exchanges("backward")
        /\ comm[r] \in Left(SendOp("backward", back[r].step), RecvOp("backward", back[r].step))
    BY <1>3 DEF InFlight
  <2>2. PassOf(r) = "backward" /\ Posted(r, "backward") = back[r].step + 1
        /\ Exchanges("backward") \in {CpSize - 1, CpSize}
    BY <1>3, <2>1, <1>1 DEF PassOf, Posted, Exchanges, Back
  <2>3. Posted(r, "backward") - 1 = back[r].step
    BY <2>2, <1>1
  <2> QED  BY <1>1, <2>1, <2>2, <2>3 DEF Passes
<1> QED
  BY <1>2, <1>3

\* What a rank sends or receives first is of its last exchange.
LEMMA FirstInFlight ==
  ASSUME TypeOK, Config, Steady, InFlight, NEW r \in Ranks,
         NEW op \in Current(r), op.kind \in {"send", "recv"}
  PROVE  LET p == PassOf(r)
             e == Posted(r, p) - 1
         IN /\ p \in Passes /\ e \in 0..Exchanges(p) - 1 /\ op.pass = p
            /\ comm[r] \in Left(SendOp(p, e), RecvOp(p, e)) /\ comm[r] # <<>>
            /\ op \in Head(comm[r])
            /\ op = IF op.kind = "send" THEN SendOp(p, e) ELSE RecvOp(p, e)
            /\ Has(comm[r], op.kind, p)
<1> DEFINE p == PassOf(r)
           e == Posted(r, p) - 1
           s == SendOp(p, e)
           v == RecvOp(p, e)
<1>1. comm[r] # <<>> /\ op \in Head(comm[r])
  BY DEF Current
<1>2. comm[r] # <<{A2A}>>
  <2>1. Head(<<{A2A}>>) = {A2A} /\ A2A.kind = "all_to_all"
    BY DEF A2A, P2P
  <2> QED  BY <1>1, <2>1
<1>3. p \in Passes /\ e \in 0..Exchanges(p) - 1 /\ comm[r] \in Left(s, v)
  BY <1>1, <1>2, Flying
<1>4. /\ s \in P2POps /\ v \in P2POps /\ s.kind = "send" /\ v.kind = "recv"
      /\ s.pass = p /\ v.pass = p
  BY <1>3, OpsAre
<1> HIDE DEF p, e, s, v
<1>5. op \in {s, v} /\ Has(comm[r], op.kind, p)
  BY <1>1, <1>3, <1>4, LeftWithout
<1> QED
  BY <1>1, <1>3, <1>4, <1>5 DEF p, e, s, v

\* A transfer joins the two ends of one exchange.
LEMMA SameExchange ==
  ASSUME TypeOK, Config, Steady, InFlight, Balanced, NEW r \in Ranks,
         NEW send \in Current(r), send.kind = "send",
         NEW recv \in Current(SendDst(r, send.pass)), recv.kind = "recv", recv.pass = send.pass
  PROVE  LET p == send.pass
             d == SendDst(r, p)
             e == Posted(r, p) - 1
         IN /\ p \in Passes /\ d \in Ranks /\ d # r
            /\ PassOf(r) = p /\ PassOf(d) = p
            /\ Posted(d, p) = Posted(r, p) /\ e \in 0..Exchanges(p) - 1
            /\ send = SendOp(p, e) /\ recv = RecvOp(p, e)
            /\ comm[r] \in Left(send, recv) /\ send \in Head(comm[r]) /\ comm[r] # <<>>
            /\ comm[d] \in Left(send, recv) /\ recv \in Head(comm[d]) /\ comm[d] # <<>>
            /\ Sending(r, p) /\ Receiving(d, p)
<1> DEFINE p == send.pass
           d == SendDst(r, p)
           e == Posted(r, p) - 1
<1>1. /\ p \in Passes /\ PassOf(r) = p /\ e \in 0..Exchanges(p) - 1
      /\ comm[r] \in Left(SendOp(p, e), RecvOp(p, e)) /\ comm[r] # <<>>
      /\ send \in Head(comm[r]) /\ send = SendOp(p, e) /\ Has(comm[r], "send", p)
  BY FirstInFlight
<1>2. d \in Ranks /\ d # r
  BY <1>1, DestinationIs
<1>3. /\ PassOf(d) = p
      /\ comm[d] \in Left(SendOp(p, Posted(d, p) - 1), RecvOp(p, Posted(d, p) - 1))
      /\ comm[d] # <<>> /\ recv \in Head(comm[d]) /\ recv = RecvOp(p, Posted(d, p) - 1)
      /\ Has(comm[d], "recv", p)
  BY <1>2, FirstInFlight
<1>4. Sent(r, p) = Posted(r, p) - 1 /\ Received(d, p) = Posted(d, p) - 1
  BY <1>1, <1>3 DEF Sent, Received, Sending, Receiving
<1>5. Sent(r, p) = Received(d, p)
  BY <1>1 DEF Balanced
<1>6. Posted(r, p) \in Nat /\ Posted(d, p) \in Nat
  BY <1>1, <1>2, PostedIs
<1>7. Posted(d, p) = Posted(r, p)
  BY <1>4, <1>5, <1>6
<1> QED
  BY <1>1, <1>2, <1>3, <1>7 DEF Sending, Receiving

-----------------------------------------------------------------------------
(* What a step leaves alone                                                   *)

LEMMA SameConfig ==
  ASSUME UNCHANGED config
  PROVE  /\ Config => Config'
         /\ \A a : KeysOf(a)' = KeysOf(a) /\ QueriesOf(a)' = QueriesOf(a)
         /\ \A r, i : /\ ForwardSection(r, i)' = ForwardSection(r, i)
                      /\ BackwardSection(r, i)' = BackwardSection(r, i)
         /\ \A r, i : /\ FwdSum(r, i)' = FwdSum(r, i) /\ DqSum(r, i)' = DqSum(r, i)
                      /\ DkvSum(r, i)' = DkvSum(r, i)
         /\ \A p : Exchanges(p)' = Exchanges(p)
         /\ \A p, e : SendOp(p, e)' = SendOp(p, e) /\ RecvOp(p, e)' = RecvOp(p, e)
<1>1. causal' = causal /\ batchComm' = batchComm /\ precision' = precision
  BY DEF config
<1>2. \A a : KeysOf(a)' = KeysOf(a) /\ QueriesOf(a)' = QueriesOf(a)
  BY <1>1 DEF KeysOf, QueriesOf
<1>3. /\ \A a, S : KeysFrom(a, S)' = KeysFrom(a, S)
      /\ \A a, S : QueriesFrom(a, S)' = QueriesFrom(a, S)
  BY <1>2 DEF KeysFrom, QueriesFrom
<1>4. \A r, i : FwdSum(r, i)' = FwdSum(r, i)
  BY <1>3 DEF FwdSum, FwdSlices, Fwd, Chunk
<1>5. \A r, i : DqSum(r, i)' = DqSum(r, i)
  BY <1>1, <1>3 DEF DqSum, BwdSlices, Bwd, Chunk
<1>6. \A r, i : DkvSum(r, i)' = DkvSum(r, i)
  BY <1>1, <1>3 DEF DkvSum, Givers, Giver, Bwd, Chunk
<1>7. \A r, i : /\ ForwardSection(r, i)' = ForwardSection(r, i)
                /\ BackwardSection(r, i)' = BackwardSection(r, i)
  BY <1>1 DEF ForwardSection, BackwardSection
<1>8. \A p : Exchanges(p)' = Exchanges(p)
  BY <1>1 DEF Exchanges
<1>9. \A p, e : Parts(p, e)' = Parts(p, e)
  BY <1>1 DEF Parts
<1>10. \A p, e : SendOp(p, e)' = SendOp(p, e) /\ RecvOp(p, e)' = RecvOp(p, e)
  BY <1>9 DEF SendOp, RecvOp, P2P
<1>11. Config => Config'
  BY <1>1 DEF Config
<1> QED
  BY <1>2, <1>4, <1>5, <1>6, <1>7, <1>8, <1>10, <1>11

LEMMA ForwardFrame ==
  ASSUME PartsExact, LseExact, OutExact, UNCHANGED <<config, at, part, corrected, lse, out>>,
         \A r \in Ranks : Back(r, "forward")' <=> Back(r, "forward")
  PROVE  PartsExact' /\ LseExact' /\ OutExact'
<1>1. PartsExact'
  BY SameConfig DEF PartsExact
<1>2. LseExact'
  BY SameConfig DEF LseExact
<1>3. OutExact'
  BY SameConfig DEF OutExact
<1> QED
  BY <1>1, <1>2, <1>3

LEMMA BackwardFrame ==
  ASSUME Config, Steady, DqExact, TileExact, GradExact, UNCHANGED <<config, back, dq, tile, grad>>
  PROVE  Steady' /\ DqExact' /\ TileExact' /\ GradExact'
<1>1. Steady'
  BY DEF Steady, Back
<1>2. DqExact'
  BY SameConfig DEF DqExact, Attended, config
<1>3. TileExact'
  BY SameConfig DEF TileExact, Back
<1>4. GradExact'
  BY SameConfig DEF GradExact, Back, config
<1> QED
  BY <1>1, <1>2, <1>3, <1>4

LEMMA BuffersFrame ==
  ASSUME SlicesInPlace, DkvExact, UNCHANGED <<config, back, buf>>,
         \A r \in Ranks, p \in Passes : Received(r, p)' = Received(r, p)
  PROVE  SlicesInPlace' /\ DkvExact'
<1>1. \A r \in Ranks : Received(r, "backward")' = Received(r, "backward")
  BY DEF Passes
<1>2. SlicesInPlace'
  BY <1>1 DEF SlicesInPlace, Working, Posting
<1>3. DkvExact'
  BY <1>1, SameConfig DEF DkvExact, Working, Posting, Back, config
<1> QED
  BY <1>2, <1>3

LEMMA ExchangesFrame ==
  ASSUME Balanced, KeysInPlace, UNCHANGED kv,
         \A r \in Ranks, p \in Passes :
           Sent(r, p)' = Sent(r, p) /\ Received(r, p)' = Received(r, p)
  PROVE  Balanced' /\ KeysInPlace'
<1>1. Balanced'
  BY DestinationIs DEF Balanced
<1>2. KeysInPlace'
  BY DEF KeysInPlace, Passes
<1> QED
  BY <1>1, <1>2

-----------------------------------------------------------------------------
(* Transfers                                                                  *)

\* A transfer ends a send of one rank and the same receive of the other.
LEMMA TransferEffect ==
  ASSUME TypeOK, Config, Steady, InFlight, Balanced, NEW r \in Ranks,
         NEW send \in Current(r), send.kind = "send",
         NEW recv \in Current(SendDst(r, send.pass)), recv.kind = "recv", recv.pass = send.pass,
         UNCHANGED config, UNCHANGED posted, UNCHANGED back,
         comm'[r] = Without(comm[r], send),
         comm'[SendDst(r, send.pass)] = Without(comm[SendDst(r, send.pass)], recv),
         \A q \in Ranks \ {r, SendDst(r, send.pass)} : comm'[q] = comm[q]
  PROVE  LET d == SendDst(r, send.pass)
         IN /\ comm'[r] \in Left(send, recv) /\ comm'[d] \in Left(send, recv)
            /\ \A q \in Ranks, p \in Passes :
                 /\ Posted(q, p)' = Posted(q, p)
                 /\ Sent(q, p)' = Sent(q, p) + (IF q = r /\ p = send.pass THEN 1 ELSE 0)
                 /\ Received(q, p)' =
                      Received(q, p) + (IF q = d /\ p = send.pass THEN 1 ELSE 0)
<1> DEFINE d == SendDst(r, send.pass)
           e == Posted(r, send.pass) - 1
<1>1. /\ send.pass \in Passes /\ d \in Ranks /\ d # r /\ e \in 0..Exchanges(send.pass) - 1
      /\ send = SendOp(send.pass, e) /\ recv = RecvOp(send.pass, e)
      /\ comm[r] \in Left(send, recv) /\ send \in Head(comm[r]) /\ comm[r] # <<>>
      /\ comm[d] \in Left(send, recv) /\ recv \in Head(comm[d]) /\ comm[d] # <<>>
      /\ Sending(r, send.pass) /\ Receiving(d, send.pass)
  BY SameExchange
<1>2. send \in P2POps /\ recv \in P2POps
  BY <1>1, OpsAre
<1>4. /\ comm'[r] = Without(comm[r], send) /\ comm'[d] = Without(comm[d], recv)
      /\ \A q \in Ranks \ {r, d} : comm'[q] = comm[q]
  OBVIOUS
<1> HIDE DEF d, e
<1>5. /\ comm'[r] \in Left(send, recv) /\ ~Has(comm'[r], "send", send.pass)
      /\ Has(comm'[r], "recv", send.pass) <=> Has(comm[r], "recv", send.pass)
  BY <1>1, <1>2, <1>4, LeftWithout
<1>6. /\ comm'[d] \in Left(send, recv) /\ ~Has(comm'[d], "recv", send.pass)
      /\ Has(comm'[d], "send", send.pass) <=> Has(comm[d], "send", send.pass)
  BY <1>1, <1>2, <1>4, LeftWithout
<1>7. ASSUME NEW q \in {r, d}, NEW kind, NEW p \in Passes, p # send.pass
      PROVE  ~Has(comm[q], kind, p) /\ ~Has(comm'[q], kind, p)
  <2>1. comm[q] \in Left(send, recv) /\ comm'[q] \in Left(send, recv)
    BY <1>1, <1>5, <1>6, <1>7
  <2>2. send.kind = "send" /\ recv.kind = "recv" /\ send.pass = recv.pass
    OBVIOUS
  <2> QED  BY <1>2, <1>7, <2>1, <2>2, LeftOps
<1>8. ASSUME NEW q \in Ranks, NEW p \in Passes
      PROVE  /\ Sending(q, p)' <=> Sending(q, p) /\ ~(q = r /\ p = send.pass)
             /\ Receiving(q, p)' <=> Receiving(q, p) /\ ~(q = d /\ p = send.pass)
  <2>1. CASE q \notin {r, d}
    BY <1>4, <2>1 DEF Sending, Receiving
  <2>2. CASE q \in {r, d} /\ p # send.pass
    BY <1>7, <2>2 DEF Sending, Receiving
  <2>3. CASE q = r /\ p = send.pass
    BY <1>1, <1>5, <2>3 DEF Sending, Receiving
  <2>4. CASE q = d /\ p = send.pass
    BY <1>1, <1>6, <2>4 DEF Sending, Receiving
  <2> QED  BY <2>1, <2>2, <2>3, <2>4
<1>9. ASSUME NEW q \in Ranks, NEW p \in Passes
      PROVE  Posted(q, p)' = Posted(q, p)
  BY SameConfig DEF Posted, Back
<1>10. ASSUME NEW q \in Ranks, NEW p \in Passes
       PROVE  /\ Sent(q, p)' = Sent(q, p) + (IF q = r /\ p = send.pass THEN 1 ELSE 0)
              /\ Received(q, p)' = Received(q, p) + (IF q = d /\ p = send.pass THEN 1 ELSE 0)
  <2>1. Posted(q, p) \in Nat
    BY PostedIs
  <2> QED  BY <1>1, <1>8, <1>9, <2>1 DEF Sent, Received
<1> QED
  BY <1>4, <1>5, <1>6, <1>9, <1>10 DEF d

LEMMA TransferStep ==
  ASSUME RInv, NEW r \in Ranks, Transfer(r)
  PROVE  RInv'
<1>1. PICK send \in Current(r) : send.kind = "send" /\
        LET d == SendDst(r, send.pass)
        IN \E recv \in {op \in Current(d) : op.kind = "recv" /\ op.pass = send.pass
                                              /\ op.parts = send.parts} :
             /\ comm' = [comm EXCEPT ![r] = Without(@, send), ![d] = Without(@, recv)]
             /\ kv' = IF send.pass = "forward"
                      THEN [kv EXCEPT ![d][recv.at] = kv[r][send.at]] ELSE kv
             /\ buf' = IF send.pass = "backward"
                       THEN [buf EXCEPT ![d][recv.at] =
                               [p \in {"kv", "dkv"} |->
                                  IF p \in send.parts THEN buf[r][send.at][p] ELSE @[p]]]
                       ELSE buf
             /\ UNCHANGED <<config, at, posted, part, corrected, lse, out,
                            back, tile, dq, dkv, sendBuf, grad>>
  BY DEF Transfer
<1> DEFINE p == send.pass
           d == SendDst(r, p)
           e == Posted(r, p) - 1
<1>2. PICK recv \in Current(d) :
        /\ recv.kind = "recv" /\ recv.pass = p
        /\ comm' = [comm EXCEPT ![r] = Without(@, send), ![d] = Without(@, recv)]
        /\ kv' = IF p = "forward" THEN [kv EXCEPT ![d][recv.at] = kv[r][send.at]] ELSE kv
        /\ buf' = IF p = "backward"
                  THEN [buf EXCEPT ![d][recv.at] =
                          [x \in {"kv", "dkv"} |->
                             IF x \in send.parts THEN buf[r][send.at][x] ELSE @[x]]]
                  ELSE buf
        /\ UNCHANGED <<config, at, posted, part, corrected, lse, out,
                       back, tile, dq, dkv, sendBuf, grad>>
  BY <1>1
<1>3. /\ p \in Passes /\ d \in Ranks /\ d # r /\ PassOf(r) = p /\ PassOf(d) = p
      /\ Posted(d, p) = Posted(r, p) /\ e \in 0..Exchanges(p) - 1
      /\ send = SendOp(p, e) /\ recv = RecvOp(p, e)
      /\ comm[r] \in Left(send, recv) /\ comm[r] # <<>>
      /\ comm[d] \in Left(send, recv) /\ comm[d] # <<>>
      /\ Sending(r, p) /\ Receiving(d, p)
  BY <1>1, <1>2, SameExchange DEF RInv
<1>4. /\ comm'[r] \in Left(send, recv) /\ comm'[d] \in Left(send, recv)
      /\ \A q \in Ranks \ {r, d} : comm'[q] = comm[q]
      /\ \A q \in Ranks, x \in Passes :
           /\ Posted(q, x)' = Posted(q, x)
           /\ Sent(q, x)' = Sent(q, x) + (IF q = r /\ x = p THEN 1 ELSE 0)
           /\ Received(q, x)' = Received(q, x) + (IF q = d /\ x = p THEN 1 ELSE 0)
  <2>1. UNCHANGED config /\ UNCHANGED posted /\ UNCHANGED back
    BY <1>2
  <2>2. comm' = [comm EXCEPT ![r] = Without(@, send), ![d] = Without(@, recv)]
    BY <1>2
  <2>3. send \in Current(r) /\ send.kind = "send"
    BY <1>1
  <2>4. recv \in Current(d) /\ recv.kind = "recv" /\ recv.pass = send.pass
    BY <1>2
  <2>5. TypeOK /\ Config /\ Steady /\ InFlight /\ Balanced /\ DOMAIN comm = Ranks
    BY DEF RInv, InFlight
  <2>6. /\ comm'[r] = Without(comm[r], send) /\ comm'[d] = Without(comm[d], recv)
        /\ \A q \in Ranks \ {r, d} : comm'[q] = comm[q]
    <3> HIDE DEF d, e
    <3> QED  BY <1>3, <2>2, <2>5
  <2> HIDE DEF e
  <2> QED  BY <2>1, <2>3, <2>4, <2>5, <2>6, TransferEffect
<1>5. /\ send \in P2POps /\ recv \in P2POps /\ send.kind = "send" /\ recv.kind = "recv"
      /\ send.pass = recv.pass /\ send.parts = Parts(p, e)
      /\ p = "forward" => send.at = e /\ recv.at = e + 1
      /\ p = "backward" => send.at = e % 2 /\ recv.at = (e + 1) % 2
  <2>1. /\ SendOp(p, e).at = IF p = "forward" THEN e ELSE e % 2
        /\ RecvOp(p, e).at = IF p = "forward" THEN e + 1 ELSE (e + 1) % 2
    BY DEF SendOp, RecvOp, P2P
  <2> HIDE DEF e
  <2> QED  BY <1>3, <2>1, OpsAre DEF Passes
<1>6. /\ Exchanges("forward") = CpSize - 1 /\ Exchanges("backward") \in {CpSize - 1, CpSize}
      /\ CpSize \in Nat
  BY RingAssumption DEF Exchanges
<1>7. UNCHANGED <<config, at, posted, part, corrected, lse, out,
                  back, tile, dq, dkv, sendBuf, grad>>
  BY <1>2
<1>8. p = "forward" => /\ Back(r, "forward") /\ Back(d, "forward")
                       /\ e = posted[r] - 1 /\ e = posted[d] - 1 /\ buf' = buf
                       /\ kv' = [kv EXCEPT ![d][e + 1] = kv[r][e]]
  BY <1>2, <1>3, <1>5 DEF PassOf, Posted
<1>9. p = "backward" => /\ Posting(r) /\ Posting(d) /\ kv' = kv
                        /\ e = back[r].step /\ e = back[d].step
                        /\ buf' = [buf EXCEPT ![d][(e + 1) % 2] =
                                     [x \in {"kv", "dkv"} |->
                                        IF x \in Parts(p, e) THEN buf[r][e % 2][x] ELSE @[x]]]
  <2> SUFFICES ASSUME p = "backward"  PROVE  /\ Posting(r) /\ Posting(d) /\ kv' = kv
                        /\ e = back[r].step /\ e = back[d].step
                        /\ buf' = [buf EXCEPT ![d][(e + 1) % 2] =
                                     [x \in {"kv", "dkv"} |->
                                        IF x \in Parts(p, e) THEN buf[r][e % 2][x] ELSE @[x]]]
    OBVIOUS
  <2>1. /\ comm[r] # <<{A2A}>> /\ comm[d] # <<{A2A}>>
    BY <1>3, NothingFlies DEF Sending, Receiving, Passes
  <2>2. \A q \in {r, d} :
          (Back(q, "attend") \/ Back(q, "reduce")) /\ back[q].step < Exchanges("backward")
    BY <1>3, <2>1 DEF RInv, InFlight, PassOf
  <2>3. \A q \in {r, d} : Posted(q, "backward") = back[q].step + 1 /\ back[q].step \in Nat
    BY <1>3, <2>2, <1>6 DEF RInv, TypeOK, Posted, Back, Steps
  <2>4. Posting(r) /\ Posting(d) /\ e = back[r].step /\ e = back[d].step
    BY <1>3, <2>2, <2>3 DEF Posting, Back
  <2>5. kv' = kv /\ recv.at = (e + 1) % 2 /\ send.at = e % 2 /\ send.parts = Parts(p, e)
    BY <1>2, <1>5
  <2>6. buf' = [buf EXCEPT ![d][(e + 1) % 2] =
                  [x \in {"kv", "dkv"} |->
                     IF x \in Parts(p, e) THEN buf[r][e % 2][x] ELSE @[x]]]
    BY <1>2, <2>5
  <2> QED  BY <2>4, <2>5, <2>6
<1>10. TypeOK'
  <2>1. \A q \in Ranks : comm'[q] \in Seq((SUBSET P2POps) \ {{}}) /\ Len(comm'[q]) <= 2
    <3>1. \A q \in {r, d} : comm'[q] \in Left(send, recv)
      BY <1>4
    <3> QED  BY <1>3, <1>4, <1>5, <3>1, LeftOps DEF RInv, TypeOK
  <2>2. kv' \in [Ranks -> [Steps -> Ranks \cup {Uninit}]]
    <3>1. CASE p = "forward"
      <4>1. e \in Steps /\ e + 1 \in Steps
        BY <1>3, <1>6, <3>1 DEF Steps
      <4>2. kv \in [Ranks -> [Steps -> Ranks \cup {Uninit}]] /\ d \in Ranks
        BY <1>3 DEF RInv, TypeOK
      <4>3. kv' = [kv EXCEPT ![d][e + 1] = kv[r][e]]
        BY <1>8, <3>1
      <4> HIDE DEF e, d
      <4>4. kv[r][e] \in Ranks \cup {Uninit}
        BY <4>1, <4>2
      <4> QED  BY <4>1, <4>2, <4>3, <4>4
    <3>2. CASE p # "forward"
      BY <1>2, <3>2 DEF RInv, TypeOK
    <3> QED  BY <3>1, <3>2
  <2>3. buf' \in [Ranks -> [{0, 1} -> [kv : Ranks \cup {Uninit}, dkv : Tensors]]]
    <3>1. CASE p = "backward"
      <4>1. e % 2 \in {0, 1} /\ (e + 1) % 2 \in {0, 1}
        BY <1>3, <1>6
      <4> DEFINE b == buf[d][(e + 1) % 2]
                 c == buf[r][e % 2]
                 new == [x \in {"kv", "dkv"} |-> IF x \in Parts(p, e) THEN c[x] ELSE b[x]]
      <4>2. /\ b \in [kv : Ranks \cup {Uninit}, dkv : Tensors]
            /\ c \in [kv : Ranks \cup {Uninit}, dkv : Tensors]
        BY <1>3, <4>1 DEF RInv, TypeOK
      <4> HIDE DEF b, c
      <4>3. new \in [kv : Ranks \cup {Uninit}, dkv : Tensors]
        BY <4>2
      <4>4. buf' = [buf EXCEPT ![d][(e + 1) % 2] = new]
        BY <1>9, <3>1 DEF b, c
      <4> HIDE DEF new, e
      <4> QED  BY <1>3, <4>1, <4>3, <4>4 DEF RInv, TypeOK
    <3>2. CASE p # "backward"
      BY <1>2, <3>2 DEF RInv, TypeOK
    <3> QED  BY <3>1, <3>2
  <2> QED  BY <1>7, <2>1, <2>2, <2>3 DEF RInv, TypeOK
<1>11. Config'
  BY <1>7, SameConfig DEF RInv
<1>12. InFlight'
  <2> SUFFICES ASSUME NEW q \in Ranks
               PROVE  \/ comm'[q] = <<>>
                      \/ /\ Back(q, "forward")' /\ posted'[q] > 0
                         /\ comm'[q] \in Left(SendOp("forward", posted[q] - 1)',
                                              RecvOp("forward", posted[q] - 1)')
                      \/ /\ Back(q, "attend")' \/ Back(q, "reduce")'
                         /\ back'[q].step < Exchanges("backward")'
                         /\ comm'[q] \in Left(SendOp("backward", back[q].step)',
                                              RecvOp("backward", back[q].step)')
                      \/ /\ Back(q, "attend")' \/ Back(q, "reduce")'
                         /\ back'[q].step = Exchanges("backward")' /\ comm'[q] = <<{A2A}>>
    <3>1. DOMAIN comm' = Ranks
      BY <1>2 DEF RInv, InFlight
    <3> QED  BY <3>1 DEF InFlight, A2A, P2P, Left
  <2>1. CASE q \notin {r, d}
    BY <1>4, <1>7, <2>1, SameConfig DEF RInv, InFlight, Back
  <2>2. CASE q \in {r, d} /\ p = "forward"
    <3>1. Back(q, "forward") /\ posted[q] = e + 1 /\ e >= 0
      BY <1>3, <1>6, <1>8, <2>2, SMTT(60) DEF RInv, TypeOK, Steps
    <3>2. comm'[q] \in Left(SendOp("forward", posted[q] - 1), RecvOp("forward", posted[q] - 1))
      <4>1. posted[q] - 1 = e /\ comm'[q] \in Left(send, recv)
        BY <1>4, <1>8, <2>2
      <4> QED  BY <1>3, <2>2, <4>1
    <3>3. posted'[q] > 0
      BY <1>3, <1>6, <1>7, <3>1
    <3> QED  BY <1>7, <3>1, <3>2, <3>3, SameConfig DEF Back
  <2>3. CASE q \in {r, d} /\ p = "backward"
    BY <1>3, <1>4, <1>6, <1>7, <1>9, <2>3, SameConfig DEF Back, Posting
  <2> QED  BY <1>3, <2>1, <2>2, <2>3 DEF Passes
<1>13. \A q \in Ranks, x \in Passes : Received(q, x) \in Int /\ Sent(q, x) \in Int
  BY PostedIs DEF RInv
<1>14. Balanced'
  <2> SUFFICES ASSUME NEW q \in Ranks, NEW x \in Passes
               PROVE  Sent(q, x)' = Received(SendDst(q, x), x)'
    BY DEF Balanced, SendDst
  <2>1. SendDst(q, x) \in Ranks
    BY DestinationIs
  <2>2. x = p => (SendDst(q, x) = d <=> q = r)
    BY <1>3, DestinationsDiffer
  <2>3. Sent(q, x) = Received(SendDst(q, x), x)
    BY DEF RInv, Balanced
  <2> QED  BY <1>4, <2>1, <2>2, <2>3
<1>15. Turns'
  <2>1. \A q \in Ranks : Received(q, "forward")' >= Received(q, "forward")
    BY <1>4, <1>13 DEF Passes
  <2>2. \A q \in Ranks : comm[q] = <<>> => comm'[q] = <<>>
    BY <1>3, <1>4
  <2>3. at \in [Ranks -> [Streams -> [step : 0..CpSize + 1, op : {"start", "attend", "correct"}]]]
    BY DEF RInv, TypeOK
  <2> SUFFICES ASSUME NEW q \in Ranks
               PROVE  /\ \A s \in Streams : Started(q, s) => at[q][s].step <= Received(q, "forward")'
                      /\ comm[q] = <<>> => comm'[q] = <<>>
    BY <1>7, <2>2 DEF RInv, Turns, TurnOf, Started, Back
  <2>4. \A s \in Streams : at[q][s].step \in Int /\ Received(q, "forward") \in Int
                           /\ Received(q, "forward")' \in Int
    <3>1. \A s \in Streams : at[q][s].step \in 0..CpSize + 1
      BY <2>3
    <3> QED  BY <1>4, <1>6, <1>13, <3>1 DEF Passes
  <2>5. \A s \in Streams : Started(q, s) => at[q][s].step <= Received(q, "forward")
    BY DEF RInv, Turns, TurnOf
  <2> QED  BY <2>1, <2>2, <2>4, <2>5
<1>16. KeysInPlace'
  <2> SUFFICES ASSUME NEW q \in Ranks, NEW j \in Steps, j <= Received(q, "forward")'
               PROVE  kv'[q][j] = Fwd(q, j)
    BY DEF KeysInPlace, Fwd
  <2>1. CASE ~(q = d /\ p = "forward")
    <3>1. kv'[q] = kv[q] /\ Received(q, "forward")' = Received(q, "forward")
      <4>1. kv'[q] = kv[q]
        <5> DEFINE n == kv[r][e]
        <5>1. p = "forward" => kv' = [kv EXCEPT ![d][e + 1] = n]
          BY <1>8
        <5>2. p # "forward" => kv' = kv
          BY <1>2
        <5> HIDE DEF n, e, d
        <5> QED  BY <2>1, <5>1, <5>2 DEF RInv, TypeOK
      <4>2. Received(q, "forward")' = Received(q, "forward")
        BY <1>4, <1>13, <2>1 DEF Passes
      <4> QED  BY <4>1, <4>2
    <3> QED  BY <3>1 DEF RInv, KeysInPlace
  <2>2. CASE q = d /\ p = "forward"
    <3>1. Received(q, "forward") = e /\ Received(q, "forward")' = e + 1
      BY <1>3, <1>4, <1>13, <2>2 DEF Received
    <3>2. e \in 0..CpSize - 2 /\ e \in Steps /\ e + 1 \in Steps
      BY <1>3, <1>6, <2>2 DEF Steps
    <3>3. CASE j = e + 1
      <4>1. Received(r, "forward") >= e
        BY <1>3, <2>2, PostedIs DEF RInv
      <4>2. kv[r][e] = Fwd(r, e)
        BY <3>2, <4>1 DEF RInv, KeysInPlace
      <4>3. kv'[q][j] = kv[r][e]
        BY <1>3, <1>8, <2>2, <3>2, <3>3 DEF RInv, TypeOK
      <4>4. Fwd(d, e + 1) = Fwd(r, e)
        BY <3>2, <2>2, NextStep
      <4> QED  BY <2>2, <3>3, <4>2, <4>3, <4>4
    <3>4. CASE j # e + 1
      <4>1. j <= e
        BY <3>1, <3>2, <3>4 DEF Steps
      <4>2. kv'[q][j] = kv[q][j]
        BY <1>3, <1>8, <2>2, <3>2, <3>4 DEF RInv, TypeOK
      <4> QED  BY <3>1, <4>1, <4>2 DEF RInv, KeysInPlace
    <3> QED  BY <3>3, <3>4
  <2> QED  BY <2>1, <2>2
<1>17. PartsExact' /\ LseExact' /\ OutExact'
  BY <1>7, ForwardFrame DEF RInv, Back
<1>18. Steady' /\ DqExact' /\ TileExact' /\ GradExact'
  BY <1>7, BackwardFrame DEF RInv
<1>19. ASSUME p = "forward"  PROVE  SlicesInPlace' /\ DkvExact'
  <2>1. \A q \in Ranks : Received(q, "backward")' = Received(q, "backward")
    BY <1>4, <1>13, <1>19 DEF Passes
  <2>2. UNCHANGED <<causal, batchComm, precision, back, buf>>
    BY <1>7, <1>8, <1>19 DEF config
  <2>3. SlicesInPlace'
    BY <2>1, <2>2 DEF RInv, SlicesInPlace, Working, Posting
  <2>4. DkvExact'
    BY <2>1, <2>2, SameConfig DEF RInv, DkvExact, Working, Posting, Back, config
  <2> QED  BY <2>3, <2>4
<1>20. ASSUME p = "backward"
       PROVE  /\ e \in Nat /\ e \in Steps /\ e = back[r].step /\ e = back[d].step
              /\ (e + 1) % 2 \in {0, 1} /\ e % 2 \in {0, 1} /\ (e + 1) % 2 # e % 2
              /\ \A q \in Ranks \ {d} : /\ buf'[q] = buf[q]
                                        /\ Received(q, "backward")' = Received(q, "backward")
              /\ buf'[d][e % 2] = buf[d][e % 2]
              /\ "kv" \in Parts(p, e) => buf'[d][(e + 1) % 2].kv = buf[r][e % 2].kv
              /\ buf'[d][(e + 1) % 2].dkv = IF "dkv" \in Parts(p, e) THEN buf[r][e % 2].dkv
                                            ELSE buf[d][(e + 1) % 2].dkv
  <2>1. e \in Nat /\ e \in Steps /\ e = back[r].step /\ e = back[d].step
    BY <1>3, <1>6, <1>9, <1>20 DEF Steps
  <2>2. (e + 1) % 2 \in {0, 1} /\ e % 2 \in {0, 1} /\ (e + 1) % 2 # e % 2
    BY <2>1
  <2>3. \A q \in Ranks \ {d} : Received(q, "backward")' = Received(q, "backward")
    BY <1>4, <1>13 DEF Passes
  <2> HIDE DEF e
  <2>4. buf' = [buf EXCEPT ![d][(e + 1) % 2] =
                  [x \in {"kv", "dkv"} |->
                     IF x \in Parts(p, e) THEN buf[r][e % 2][x] ELSE @[x]]]
    BY <1>9, <1>20
  <2>5. DOMAIN buf = Ranks /\ \A q \in Ranks : DOMAIN buf[q] = {0, 1}
    BY DEF RInv, TypeOK
  <2>6. /\ \A q \in Ranks \ {d} : buf'[q] = buf[q]
        /\ buf'[d][e % 2] = buf[d][e % 2]
        /\ buf'[d][(e + 1) % 2] = [x \in {"kv", "dkv"} |->
             IF x \in Parts(p, e) THEN buf[r][e % 2][x] ELSE buf[d][(e + 1) % 2][x]]
    BY <1>3, <2>2, <2>4, <2>5
  <2> QED  BY <2>1, <2>2, <2>3, <2>6
<1>21. ASSUME p = "backward"  PROVE  SlicesInPlace'
  <2> SUFFICES ASSUME NEW q \in Ranks
               PROVE  /\ Working(q) => buf'[q][back[q].step % 2].kv = Bwd(q, back[q].step)
                      /\ Posting(q) /\ back[q].step < CpSize - 1
                           /\ Received(q, "backward")' > back[q].step =>
                         buf'[q][(back[q].step + 1) % 2].kv = Bwd(q, back[q].step + 1)
    BY <1>7 DEF SlicesInPlace, Working, Posting, Bwd
  <2>1. CASE q # d
    BY <1>20, <1>21, <2>1 DEF RInv, SlicesInPlace
  <2>2. CASE q = d
    <3>1. Working(d) /\ Working(r)
      BY <1>9, <1>21 DEF Working, Posting
    <3>2. buf[r][e % 2].kv = Bwd(r, e) /\ buf[d][e % 2].kv = Bwd(d, e)
      BY <1>3, <1>20, <1>21, <3>1 DEF RInv, SlicesInPlace
    <3>3. e < CpSize - 1 => "kv" \in Parts(p, e) /\ Bwd(d, e + 1) = Bwd(r, e)
      <4>1. e < CpSize - 1 => e \in 0..CpSize - 2
        BY <1>6, <1>20, <1>21
      <4> HIDE DEF e
      <4> QED  BY <1>6, <1>20, <1>21, <4>1, NextStep DEF Parts
    <3> QED  BY <1>20, <1>21, <2>2, <3>2, <3>3
  <2> QED  BY <2>1, <2>2
<1>22. ASSUME p = "backward"  PROVE  DkvExact'
  <2> SUFFICES ASSUME precision = "f16", NEW q \in Ranks
               PROVE  LET i == back[q].step IN
                      /\ i = 0 => buf'[q][1].dkv = Unset
                      /\ Working(q) /\ i > 0 => buf'[q][i % 2].dkv = DkvSum(q, i - 1)
                      /\ Posting(q) /\ i > 0 /\ Received(q, "backward")' > i =>
                           buf'[q][(i + 1) % 2].dkv = DkvSum(Giver(q, 1), i - 1)
                      /\ Back(q, "sum") => buf'[q][CpSize % 2].dkv = DkvSum(q, CpSize - 1)
    BY <1>7, SameConfig DEF DkvExact, Working, Posting, Back, config
  <2>0. /\ back[q].step = 0 => buf[q][1].dkv = Unset
        /\ Working(q) /\ back[q].step > 0 =>
             buf[q][back[q].step % 2].dkv = DkvSum(q, back[q].step - 1)
        /\ Posting(q) /\ back[q].step > 0 /\ Received(q, "backward") > back[q].step =>
             buf[q][(back[q].step + 1) % 2].dkv = DkvSum(Giver(q, 1), back[q].step - 1)
        /\ Back(q, "sum") => buf[q][CpSize % 2].dkv = DkvSum(q, CpSize - 1)
    BY DEF RInv, DkvExact
  <2>1. CASE q # d
    BY <1>20, <1>22, <2>0, <2>1
  <2>2. CASE q = d
    <3>1. Working(d) /\ Working(r) /\ ~Back(d, "sum")
      BY <1>9, <1>22 DEF Working, Posting, Back
    <3>2. ("dkv" \in Parts(p, e)) <=> e > 0
      <4> HIDE DEF e
      <4> QED  BY <1>20, <1>22 DEF Parts
    <3>3. e > 0 => buf[r][e % 2].dkv = DkvSum(r, e - 1)
      BY <1>3, <1>20, <1>22, <3>1 DEF RInv, DkvExact
    <3>4. Giver(d, 1) = r
      BY <1>22, SendersGiver
    <3>5. e = 0 => (e + 1) % 2 = 1
      OBVIOUS
    <3> HIDE DEF e
    <3> QED  BY <1>20, <1>22, <2>0, <2>2, <3>1, <3>2, <3>3, <3>4, <3>5
  <2> QED  BY <2>1, <2>2
<1> QED
  BY <1>3, <1>10, <1>11, <1>12, <1>14, <1>15, <1>16, <1>17, <1>18, <1>19, <1>21, <1>22
     DEF RInv, Passes

LEMMA CorrectTyped ==
  ASSUME NEW x \in Tensors, NEW y \in Tensors, NEW how,
         \A h \in Halves : how[h] \in {"copy", "add", "none"}
  PROVE  Correct(x, y, how) \in Tensors
<1>1. ASSUME NEW h \in Halves
      PROVE  (CASE how[h] = "copy" -> y[h] [] how[h] = "add" -> Plus(x[h], y[h])
                [] how[h] = "none" -> x[h]) \in SUBSET (Chunks \cup {Twice, Uninit})
  BY DEF Tensors, Plus
<1> QED
  BY <1>1 DEF Correct, Tensors

LEMMA RulesTyped ==
  ASSUME Config, NEW r, NEW i, NEW h \in Halves
  PROVE  /\ MergeRule(r, i)[h] \in {"copy", "add", "none"}
         /\ DqRule(r, i)[h] \in {"copy", "add", "none"}
         /\ DkvRule(r, i)[h] \in {"copy", "add", "none"}
<1>1. ASSUME NEW a \in {"copy", "add", "none"}, NEW b \in {"copy", "add", "none"}
      PROVE  PerHalf(<<a, b>>)[h] \in {"copy", "add", "none"}
  <2>1. PerHalf(<<a, b>>) = [x \in Halves |-> IF x = 0 THEN a ELSE b]
    BY PerHalves
  <2> QED  BY <2>1
<1>2. PerHalf(Copy)[h] \in {"copy", "add", "none"} /\ PerHalf(Add)[h] \in {"copy", "add", "none"}
  BY PerHalves
<1>3. MergeRule(r, i)[h] \in {"copy", "add", "none"}
  BY <1>1, <1>2 DEF MergeRule
<1>4. DqRule(r, i)[h] \in {"copy", "add", "none"}
  BY <1>1, <1>2 DEF DqRule, Config
<1>5. DkvRule(r, i)[h] \in {"copy", "add", "none"}
  BY <1>1, <1>2 DEF DkvRule, Config
<1> QED
  BY <1>3, <1>4, <1>5

LEMMA TilesTyped ==
  ASSUME NEW section, NEW slice \in Ranks \cup {Uninit}
  PROVE  /\ KeysMet(section, slice) \in Tensors
         /\ slice \in Ranks => QueriesMet(section, slice) \in Tensors
<1>1. ASSUME NEW hs \in SUBSET Halves
      PROVE  ChunksOf(slice, hs) \in SUBSET (Chunks \cup {Twice, Uninit})
  BY ChunksDiffer DEF ChunksOf
<1> QED
  BY <1>1 DEF KeysMet, QueriesMet, Tensors

LEMMA SumsTyped ==
  ASSUME NEW r \in Ranks, NEW i \in Steps
  PROVE  FwdSum(r, i) \in Tensors /\ [h \in Halves |-> KeysOf(Chunk(r, h))] \in Tensors
<1>1. \A a, S : KeysFrom(a, S) \in SUBSET (Chunks \cup {Twice, Uninit})
  BY DEF KeysFrom, KeysOf
<1>2. \A a : KeysOf(a) \in SUBSET (Chunks \cup {Twice, Uninit})
  BY DEF KeysOf
<1> QED
  BY <1>1, <1>2 DEF FwdSum, Tensors

\* A rank whose exchange is the all-to-all has nothing else in flight.
LEMMA AllToAllAlone ==
  ASSUME TypeOK, Config, Steady, InFlight, NEW r \in Ranks, Current(r) = {A2A}
  PROVE  comm[r] = <<{A2A}>>
<1>1. comm[r] # <<>> /\ Head(comm[r]) = {A2A} /\ A2A.kind = "all_to_all"
  BY DEF Current, A2A, P2P
<1> SUFFICES ASSUME comm[r] # <<{A2A}>>  PROVE FALSE
  OBVIOUS
<1> DEFINE p == PassOf(r)
           e == Posted(r, p) - 1
<1>2. p \in Passes /\ e \in 0..Exchanges(p) - 1 /\ comm[r] \in Left(SendOp(p, e), RecvOp(p, e))
  BY <1>1, Flying
<1> HIDE DEF p, e
<1>3. /\ SendOp(p, e) \in P2POps /\ RecvOp(p, e) \in P2POps
      /\ SendOp(p, e).kind = "send" /\ RecvOp(p, e).kind = "recv"
      /\ SendOp(p, e).pass = RecvOp(p, e).pass
  BY <1>2, OpsAre
<1>4. Head(comm[r]) \subseteq {SendOp(p, e), RecvOp(p, e)}
  BY <1>1, <1>2, <1>3, LeftOps
<1> QED
  BY <1>1, <1>3, <1>4

LEMMA AllToAllStep ==
  ASSUME RInv, AllToAll
  PROVE  RInv'
<1>1. \A r \in Ranks : comm[r] = <<{A2A}>>
  BY AllToAllAlone DEF AllToAll, RInv
<1>2. comm' = [r \in Ranks |-> <<>>]
  <2>1. Tail(<<{A2A}>>) = <<>>
    BY ShortSequences, {A2A} \in {{A2A}}
  <2> QED  BY <1>1, <2>1 DEF AllToAll
<1>3. UNCHANGED <<config, forwardVars, back, buf, tile, dq, dkv, grad>>
  BY DEF AllToAll
<1>4. ASSUME NEW r \in Ranks, NEW p \in Passes
      PROVE  /\ Posted(r, p)' = Posted(r, p)
             /\ Sent(r, p)' = Sent(r, p) /\ Received(r, p)' = Received(r, p)
  <2>1. Posted(r, p)' = Posted(r, p)
    BY <1>3, SameConfig DEF Posted, Back, forwardVars
  <2>2. ~Sending(r, p) /\ ~Receiving(r, p)
    BY <1>1, NothingFlies DEF Sending, Receiving, Passes
  <2>3. ~Sending(r, p)' /\ ~Receiving(r, p)'
    BY <1>2, NothingFlies DEF Sending, Receiving, Passes
  <2> QED  BY <2>1, <2>2, <2>3 DEF Sent, Received
<1>5. TypeOK'
  <2>1. sendBuf' \in [Ranks -> [Ranks -> Tensors]]
    BY DEF AllToAll, RInv, TypeOK
  <2>2. \A r \in Ranks : comm'[r] \in Seq((SUBSET P2POps) \ {{}}) /\ Len(comm'[r]) <= 2
    BY <1>2
  <2> QED  BY <1>3, <2>1, <2>2 DEF RInv, TypeOK, forwardVars
<1>6. Config' /\ InFlight'
  BY <1>2, <1>3, SameConfig DEF RInv, InFlight
<1>7. Balanced' /\ KeysInPlace'
  BY <1>3, <1>4, ExchangesFrame DEF RInv, forwardVars
<1>8. Turns'
  <2>1. \A r \in Ranks : Received(r, "forward")' = Received(r, "forward") /\ comm'[r] = <<>>
    BY <1>2, <1>4 DEF Passes
  <2> QED  BY <1>3, <2>1 DEF RInv, Turns, TurnOf, Started, Back, forwardVars
<1>9. PartsExact' /\ LseExact' /\ OutExact'
  BY <1>3, ForwardFrame DEF RInv, Back, forwardVars
<1>10. Steady' /\ DqExact' /\ TileExact' /\ GradExact'
  BY <1>3, BackwardFrame DEF RInv
<1>11. SlicesInPlace' /\ DkvExact'
  BY <1>3, <1>4, BuffersFrame DEF RInv
<1> QED
  BY <1>5, <1>6, <1>7, <1>8, <1>9, <1>10, <1>11 DEF RInv

-----------------------------------------------------------------------------
(* The steps of the forward                                                   *)

\* Where the streams are, in the words of RInv.
LEMMA StreamsAre ==
  ASSUME RInv, NEW r \in Ranks
  PROVE  /\ CpSize \in Nat \ {0, 1} /\ corrected[r] \in 0..CpSize /\ posted[r] \in 0..CpSize - 1
         /\ \A s \in Streams : /\ at[r][s].step \in 0..CpSize + 1 /\ 1 - s \in Streams
                               /\ at[r][s].op \in {"start", "attend", "correct"}
         /\ \/ at[r][0].step = corrected[r] /\ at[r][1].step = corrected[r] + 1
            \/ at[r][1].step = corrected[r] /\ at[r][0].step = corrected[r] + 1
         /\ Received(r, "forward") \in {posted[r], posted[r] - 1}
<1>1. CpSize \in Nat \ {0, 1} /\ corrected[r] \in 0..CpSize /\ posted[r] \in 0..CpSize - 1
  BY RingAssumption DEF RInv, TypeOK, Steps
<1>2. \A s \in Streams : /\ at[r][s].step \in 0..CpSize + 1 /\ 1 - s \in Streams
                         /\ at[r][s].op \in {"start", "attend", "correct"}
  BY DEF RInv, TypeOK, Streams
<1>3. PICK s \in Streams : at[r][s].step = corrected[r] /\ at[r][1 - s].step = corrected[r] + 1
  BY DEF RInv, Turns, TurnOf
<1>4. \/ s = 0 /\ 1 - s = 1
      \/ s = 1 /\ 1 - s = 0
  BY <1>3 DEF Streams
<1>5. Posted(r, "forward") = posted[r]
  BY DEF Posted
<1> QED
  BY <1>1, <1>2, <1>3, <1>4, <1>5, PostedIs DEF RInv, Passes

LEMMA AtTyped ==
  ASSUME TypeOK, NEW r \in Ranks, NEW s \in Streams, NEW op \in {"start", "attend", "correct"},
         NEW i \in 0..CpSize + 1
  PROVE  /\ [at EXCEPT ![r][s].op = op]
              \in [Ranks -> [Streams -> [step : 0..CpSize + 1, op : {"start", "attend", "correct"}]]]
         /\ [at EXCEPT ![r][s] = [step |-> i, op |-> op]]
              \in [Ranks -> [Streams -> [step : 0..CpSize + 1, op : {"start", "attend", "correct"}]]]
<1> DEFINE R == [step : 0..CpSize + 1, op : {"start", "attend", "correct"}]
           old == at[r][s]
           new == [old EXCEPT !.op = op]
           next == [step |-> i, op |-> op]
<1>1. at \in [Ranks -> [Streams -> R]]
  BY DEF TypeOK
<1>2. old \in R
  BY <1>1
<1> HIDE DEF old
<1>3. new \in R /\ next \in R
  BY <1>2
<1>4. [at EXCEPT ![r][s].op = op] = [at EXCEPT ![r][s] = new]
  BY DEF old
<1> HIDE DEF R, new, next
<1>5. [at EXCEPT ![r][s] = new] \in [Ranks -> [Streams -> R]]
  BY <1>1, <1>3
<1>6. [at EXCEPT ![r][s] = next] \in [Ranks -> [Streams -> R]]
  BY <1>1, <1>3
<1> QED
  BY <1>4, <1>5, <1>6 DEF R, next

LEMMA StartStepStep ==
  ASSUME RInv, NEW r \in Ranks, NEW s \in Streams, StartStep(r, s)
  PROVE  RInv'
<1> DEFINE i == at[r][s].step
<1>1. /\ at[r][s].op = "start" /\ i < CpSize /\ posted[r] = i /\ comm[r] = <<>>
      /\ IF i < CpSize - 1
         THEN /\ comm' = [comm EXCEPT ![r] = @ \o Exchange(r, "forward", i, i + 1, {"kv"})]
              /\ posted' = [posted EXCEPT ![r] = @ + 1]
         ELSE UNCHANGED <<comm, posted>>
      /\ at' = [at EXCEPT ![r][s].op = "attend"]
      /\ UNCHANGED <<config, kv, part, corrected, lse, out, backwardVars>>
  BY DEF StartStep, Stream, Advance
<1>2. /\ CpSize \in Nat \ {0, 1} /\ corrected[r] \in 0..CpSize /\ i \in 0..CpSize - 1
      /\ \A x \in Streams : at[r][x].step \in 0..CpSize + 1
      /\ \/ at[r][0].step = corrected[r] /\ at[r][1].step = corrected[r] + 1
         \/ at[r][1].step = corrected[r] /\ at[r][0].step = corrected[r] + 1
  BY <1>1, StreamsAre
<1>3. UNCHANGED <<back, buf, tile, dq, dkv, sendBuf, grad>>
  BY <1>1 DEF backwardVars
<1>4. corrected[r] < CpSize /\ Back(r, "forward")
  <2>1. corrected[r] <= i
    BY <1>2 DEF Streams
  <2> QED  BY <1>1, <1>2, <2>1 DEF RInv, Turns, TurnOf
<1>5. /\ \A q \in Ranks \ {r} : comm'[q] = comm[q] /\ posted'[q] = posted[q] /\ at'[q] = at[q]
      /\ \A x \in Streams : /\ at'[r][x].step = at[r][x].step
                            /\ at'[r][x].op = IF x = s THEN "attend" ELSE at[r][x].op
      /\ posted'[r] = IF i < CpSize - 1 THEN i + 1 ELSE i
      /\ DOMAIN comm' = Ranks
  <2>1. DOMAIN comm = Ranks
    BY DEF RInv, InFlight
  <2>2. /\ at \in [Ranks -> [Streams -> [step : 0..CpSize + 1,
                                         op : {"start", "attend", "correct"}]]]
        /\ posted \in [Ranks -> Steps]
    BY DEF RInv, TypeOK
  <2>3. /\ \A q \in Ranks \ {r} : at'[q] = at[q]
        /\ \A x \in Streams : /\ at'[r][x].step = at[r][x].step
                              /\ at'[r][x].op = IF x = s THEN "attend" ELSE at[r][x].op
    BY <1>1, <2>2
  <2>4. /\ \A q \in Ranks \ {r} : comm'[q] = comm[q] /\ posted'[q] = posted[q]
        /\ posted'[r] = (IF i < CpSize - 1 THEN i + 1 ELSE i) /\ DOMAIN comm' = Ranks
    <3> HIDE DEF i
    <3> QED  BY <1>1, <2>1, <2>2
  <2> QED  BY <2>3, <2>4
<1>6. i < CpSize - 1 =>
        LET a == SendOp("forward", i)
            b == RecvOp("forward", i)
        IN /\ comm'[r] \in {<<{a}, {b}>>, <<{b}, {a}>>, <<{a, b}>>} /\ comm'[r] \in Left(a, b)
           /\ a \in P2POps /\ b \in P2POps /\ a.kind = "send" /\ b.kind = "recv"
           /\ a.pass = "forward" /\ b.pass = "forward"
  <2> SUFFICES ASSUME i < CpSize - 1
               PROVE  LET a == SendOp("forward", i)
                          b == RecvOp("forward", i)
                      IN /\ comm'[r] \in {<<{a}, {b}>>, <<{b}, {a}>>, <<{a, b}>>}
                         /\ a \in P2POps /\ b \in P2POps /\ a.kind = "send" /\ b.kind = "recv"
                         /\ a.pass = "forward" /\ b.pass = "forward"
    BY DEF Left
  <2>1. comm'[r] = <<>> \o Exchange(r, "forward", i, i + 1, {"kv"})
    <3>1. comm' = [comm EXCEPT ![r] = @ \o Exchange(r, "forward", i, i + 1, {"kv"})]
      BY <1>1
    <3> HIDE DEF i
    <3> QED  BY <1>1, <3>1 DEF RInv, InFlight
  <2>2. i \in 0..Exchanges("forward") - 1
    <3> HIDE DEF i
    <3> QED  BY <1>2 DEF Exchanges
  <2> HIDE DEF i
  <2>3. /\ SendOp("forward", i).at = i /\ RecvOp("forward", i).at = i + 1
        /\ Parts("forward", i) = {"kv"}
    BY DEF SendOp, RecvOp, P2P, Parts
  <2>4. LET a == SendOp("forward", i)
            b == RecvOp("forward", i)
        IN <<>> \o Exchange(r, "forward", a.at, b.at, Parts("forward", i))
             \in {<<{a}, {b}>>, <<{b}, {a}>>, <<{a, b}>>}
    BY <2>2, ExchangeLeft DEF Passes
  <2> QED  BY <2>1, <2>2, <2>3, <2>4, OpsAre DEF Passes
<1>7. ASSUME NEW q \in Ranks, NEW p \in Passes
      PROVE  Sent(q, p)' = Sent(q, p) /\ Received(q, p)' = Received(q, p)
  <2>1. CASE q # r
    BY <1>1, <1>3, <1>5, <2>1, SameConfig
       DEF Sent, Received, Sending, Receiving, Posted, Back
  <2>2. CASE q = r
    <3>1. Sent(r, p) = Posted(r, p) /\ Received(r, p) = Posted(r, p)
      BY <1>1, NothingFlies, PostedIs DEF RInv, Sent, Received, Sending, Receiving
    <3>2. /\ Posted(r, p) = IF p = "forward" THEN i ELSE 0
          /\ Posted(r, p)' = IF p = "forward" THEN posted'[r] ELSE 0
      BY <1>1, <1>3, <1>4 DEF Posted, Back
    <3>3. CASE i < CpSize - 1
      <4>1. /\ Sending(r, p)' <=> p = "forward"
            /\ Receiving(r, p)' <=> p = "forward"
        <5> DEFINE a == SendOp("forward", i)
                   b == RecvOp("forward", i)
        <5>1. /\ comm'[r] \in {<<{a}, {b}>>, <<{b}, {a}>>, <<{a, b}>>} /\ comm'[r] \in Left(a, b)
              /\ a \in P2POps /\ b \in P2POps /\ a.kind = "send" /\ b.kind = "recv"
              /\ a.pass = "forward" /\ b.pass = "forward"
          BY <1>6, <3>3
        <5> HIDE DEF a, b
        <5>2. Has(comm'[r], "send", "forward") /\ Has(comm'[r], "recv", "forward")
          BY <5>1, LeftHas
        <5>3. p # "forward" => ~Has(comm'[r], "send", p) /\ ~Has(comm'[r], "recv", p)
          BY <5>1, LeftOps
        <5> QED  BY <5>2, <5>3 DEF Sending, Receiving
      <4> HIDE DEF i
      <4> QED  BY <1>2, <1>5, <2>2, <3>1, <3>2, <3>3, <4>1 DEF Sent, Received
    <3>4. CASE ~(i < CpSize - 1)
      <4>1. comm'[r] = <<>>
        BY <1>1, <3>4
      <4>2. ~Sending(r, p)' /\ ~Receiving(r, p)'
        BY <4>1, NothingFlies DEF Sending, Receiving, Passes
      <4> HIDE DEF i
      <4> QED  BY <1>2, <1>5, <2>2, <3>1, <3>2, <3>4, <4>2 DEF Sent, Received
    <3> QED  BY <3>3, <3>4
  <2> QED  BY <2>1, <2>2
<1>8. TypeOK'
  <2>1. posted' \in [Ranks -> Steps]
    <3> HIDE DEF i
    <3>1. i < CpSize - 1 => i + 1 \in Steps
      BY <1>2 DEF Steps
    <3> QED  BY <1>1, <3>1 DEF RInv, TypeOK
  <2>2. at' \in [Ranks -> [Streams -> [step : 0..CpSize + 1, op : {"start", "attend", "correct"}]]]
    BY <1>1, <1>2, AtTyped DEF RInv
  <2>3. \A q \in Ranks : comm'[q] \in Seq((SUBSET P2POps) \ {{}}) /\ Len(comm'[q]) <= 2
    <3>1. i < CpSize - 1 => comm'[r] \in Seq((SUBSET P2POps) \ {{}}) /\ Len(comm'[r]) <= 2
      BY <1>6, LeftOps
    <3>2. ~(i < CpSize - 1) => comm' = comm
      BY <1>1
    <3> QED  BY <1>5, <3>1, <3>2 DEF RInv, TypeOK
  <2> QED  BY <1>1, <1>3, <2>1, <2>2, <2>3 DEF RInv, TypeOK
<1>9. Config' /\ InFlight'
  <2>1. Config'
    BY <1>1, SameConfig DEF RInv
  <2>2. ASSUME NEW q \in Ranks
        PROVE  \/ comm'[q] = <<>>
               \/ /\ Back(q, "forward") /\ posted'[q] > 0
                  /\ comm'[q] \in Left(SendOp("forward", posted'[q] - 1),
                                       RecvOp("forward", posted'[q] - 1))
               \/ /\ Back(q, "attend") \/ Back(q, "reduce")
                  /\ back[q].step < Exchanges("backward")
                  /\ comm'[q] \in Left(SendOp("backward", back[q].step),
                                       RecvOp("backward", back[q].step))
               \/ /\ Back(q, "attend") \/ Back(q, "reduce")
                  /\ back[q].step = Exchanges("backward") /\ comm'[q] = <<{A2A}>>
    <3>1. CASE q # r
      BY <1>5, <3>1 DEF RInv, InFlight
    <3>2. CASE q = r /\ i < CpSize - 1
      <4>1. posted'[r] = i + 1 /\ i + 1 > 0 /\ posted'[r] - 1 = i
        <5> HIDE DEF i
        <5> QED  BY <1>2, <1>5, <3>2
      <4> QED  BY <1>4, <1>6, <3>2, <4>1
    <3>3. CASE q = r /\ ~(i < CpSize - 1)
      BY <1>1, <3>3
    <3> QED  BY <3>1, <3>2, <3>3
  <2>3. /\ \A q \in Ranks : \A op : Back(q, op)' = Back(q, op)
        /\ \A n : /\ SendOp("forward", n)' = SendOp("forward", n)
                  /\ RecvOp("forward", n)' = RecvOp("forward", n)
                  /\ SendOp("backward", n)' = SendOp("backward", n)
                  /\ RecvOp("backward", n)' = RecvOp("backward", n)
        /\ Exchanges("backward")' = Exchanges("backward") /\ back' = back /\ A2A' = A2A
    BY <1>1, <1>3, SameConfig DEF Back, A2A, P2P
  <2> QED  BY <1>5, <2>1, <2>2, <2>3 DEF InFlight, Left
<1>10. Balanced' /\ KeysInPlace'
  BY <1>1, <1>7, ExchangesFrame DEF RInv
<1>11. Turns'
  <2>1. ASSUME NEW q \in Ranks, q # r
        PROVE  /\ Received(q, "forward")' = Received(q, "forward") /\ comm'[q] = comm[q]
               /\ posted'[q] = posted[q] /\ at'[q] = at[q] /\ corrected'[q] = corrected[q]
               /\ Back(q, "forward")' = Back(q, "forward")
    BY <1>1, <1>3, <1>5, <1>7, <2>1 DEF Passes, Back
  <2>2. /\ corrected' = corrected /\ Back(r, "forward")'
        /\ Received(r, "forward")' = Received(r, "forward") /\ Received(r, "forward") = i
    <3>1. Received(r, "forward") = i
      BY <1>1, <1>2, NothingFlies DEF Received, Receiving, Posted, Passes
    <3> QED  BY <1>1, <1>3, <1>4, <1>7, <3>1 DEF Passes, Back
  <2>3. ASSUME NEW x \in Streams
        PROVE  Started(r, x)' => at[r][x].step <= Received(r, "forward")
    <3>1. CASE x = s
      BY <1>2, <2>2, <3>1
    <3>2. CASE x # s
      BY <1>5, <2>2, <3>2 DEF RInv, Turns, TurnOf, Started
    <3> QED  BY <3>1, <3>2
  <2>4. ASSUME NEW x \in Streams, Started(r, x)', at[r][x].step = CpSize - 1
        PROVE  posted'[r] = CpSize - 1 /\ comm'[r] = <<>>
    <3>1. i = CpSize - 1
      <4>1. CASE x = s
        BY <2>4, <4>1
      <4>2. CASE x # s
        <5>1. Started(r, x)
          BY <1>5, <2>4, <4>2 DEF Started
        <5>2. posted[r] = CpSize - 1
          BY <2>4, <5>1 DEF RInv, Turns, TurnOf
        <5> QED  BY <1>1, <5>2
      <4> QED  BY <4>1, <4>2
    <3> HIDE DEF i
    <3> QED  BY <1>1, <1>2, <1>5, <3>1
  <2>5. ASSUME NEW q \in Ranks, q # r
        PROVE  TurnOf(q)'
    BY <2>1, <2>5 DEF RInv, Turns, TurnOf, Started
  <2>6. TurnOf(r)'
    <3>1. (\E x \in Streams : at[r][x].step = corrected[r] /\ at[r][1 - x].step = corrected[r] + 1)'
      <4>1. \E x \in Streams : at[r][x].step = corrected[r] /\ at[r][1 - x].step = corrected[r] + 1
        BY DEF RInv, Turns, TurnOf
      <4>2. \A x \in Streams : 1 - x \in Streams
        BY DEF Streams
      <4> QED  BY <1>5, <2>2, <4>1, <4>2
    <3>2. (\A x \in Streams : Started(r, x) => at[r][x].step <= Received(r, "forward"))'
      BY <1>5, <2>2, <2>3
    <3>3. corrected'[r] # CpSize
      BY <1>2, <1>4, <2>2
    <3>4. (\E x \in Streams : Started(r, x) /\ at[r][x].step = CpSize - 1)'
            => posted'[r] = CpSize - 1 /\ comm'[r] = <<>>
      BY <1>5, <2>4
    <3> QED  BY <2>2, <3>1, <3>2, <3>3, <3>4 DEF TurnOf
  <2> QED  BY <2>5, <2>6 DEF Turns
<1>12. PartsExact' /\ LseExact' /\ OutExact'
  <2>1. PartsExact'
    <3> SUFFICES ASSUME NEW q \in Ranks, NEW j \in Steps,
                        j < corrected[q] \/ (\E x \in Streams :
                          at'[q][x].step = j /\ at'[q][x].op = "correct")
                 PROVE  part[q][j] = KeysMet(ForwardSection(q, j), Fwd(q, j))
      BY <1>1, SameConfig DEF PartsExact
    <3>1. (\E x \in Streams : at'[q][x].step = j /\ at'[q][x].op = "correct") =>
            \E x \in Streams : at[q][x].step = j /\ at[q][x].op = "correct"
      BY <1>5
    <3> QED  BY <3>1 DEF RInv, PartsExact
  <2>2. LseExact' /\ OutExact'
    BY <1>1, <1>3, SameConfig DEF RInv, LseExact, OutExact, Back
  <2> QED  BY <2>1, <2>2
<1>13. Steady' /\ DqExact' /\ TileExact' /\ GradExact'
  BY <1>1, <1>3, BackwardFrame DEF RInv
<1>14. SlicesInPlace' /\ DkvExact'
  BY <1>1, <1>3, <1>7, BuffersFrame DEF RInv
<1> QED
  BY <1>8, <1>9, <1>10, <1>11, <1>12, <1>13, <1>14 DEF RInv

LEMMA AttendStep ==
  ASSUME RInv, NEW r \in Ranks, NEW s \in Streams, Attend(r, s)
  PROVE  RInv'
<1> DEFINE i == at[r][s].step
           new == KeysMet(ForwardSection(r, i), kv[r][i])
<1>1. /\ at[r][s].op = "attend" /\ i < CpSize
      /\ part' = [part EXCEPT ![r][i] = new]
      /\ at' = [at EXCEPT ![r][s].op = "correct"]
      /\ UNCHANGED <<config, posted, kv, corrected, lse, out, backwardVars, comm>>
  BY DEF Attend, Stream, Advance
<1>2. UNCHANGED <<back, buf, tile, dq, dkv, sendBuf, grad>>
  BY <1>1 DEF backwardVars
<1>3. CpSize \in Nat \ {0, 1} /\ i \in Steps
  BY <1>1, StreamsAre DEF Steps
<1>4. new = KeysMet(ForwardSection(r, i), Fwd(r, i)) /\ new \in Tensors
  <2>1. Started(r, s)
    BY <1>1 DEF Started
  <2>2. kv[r][i] = Fwd(r, i)
    BY <1>3, <2>1 DEF RInv, Turns, TurnOf, KeysInPlace
  <2> QED  BY <1>3, <2>2, FwdIs, TilesTyped
<1>5. /\ \A q \in Ranks \ {r} : at'[q] = at[q] /\ part'[q] = part[q]
      /\ \A x \in Streams : /\ at'[r][x].step = at[r][x].step
                            /\ at'[r][x].op = IF x = s THEN "correct" ELSE at[r][x].op
      /\ \A j \in Steps : part'[r][j] = IF j = i THEN new ELSE part[r][j]
  <2>1. at \in [Ranks -> [Streams -> [step : 0..CpSize + 1,
                                      op : {"start", "attend", "correct"}]]]
    BY DEF RInv, TypeOK
  <2>2. /\ \A q \in Ranks \ {r} : at'[q] = at[q]
        /\ \A x \in Streams : /\ at'[r][x].step = at[r][x].step
                              /\ at'[r][x].op = IF x = s THEN "correct" ELSE at[r][x].op
    BY <1>1, <2>1
  <2>3. /\ \A q \in Ranks \ {r} : part'[q] = part[q]
        /\ \A j \in Steps : part'[r][j] = IF j = i THEN new ELSE part[r][j]
    <3> HIDE DEF new, i
    <3> QED  BY <1>1, <1>3 DEF RInv, TypeOK
  <2> QED  BY <2>2, <2>3
<1>6. TypeOK'
  <2>1. at' \in [Ranks -> [Streams -> [step : 0..CpSize + 1, op : {"start", "attend", "correct"}]]]
    <3>1. i \in 0..CpSize + 1
      BY StreamsAre
    <3> HIDE DEF i
    <3> QED  BY <1>1, <3>1, AtTyped DEF RInv
  <2>2. part' \in [Ranks -> [Steps -> Tensors]]
    <3> HIDE DEF new, i
    <3> QED  BY <1>1, <1>3, <1>4 DEF RInv, TypeOK
  <2> QED  BY <1>1, <1>2, <2>1, <2>2 DEF RInv, TypeOK
<1>7. ASSUME NEW q \in Ranks, NEW p \in Passes
      PROVE  Sent(q, p)' = Sent(q, p) /\ Received(q, p)' = Received(q, p)
  BY <1>1, <1>2, SameConfig DEF Sent, Received, Sending, Receiving, Posted, Back
<1>8. Config' /\ InFlight'
  BY <1>1, <1>2, SameConfig DEF RInv, InFlight, Back
<1>9. Balanced' /\ KeysInPlace'
  BY <1>1, <1>7, ExchangesFrame DEF RInv
<1>10. Turns'
  <2> SUFFICES ASSUME NEW q \in Ranks  PROVE TurnOf(q)'
    BY DEF Turns
  <2>1. /\ Received(q, "forward")' = Received(q, "forward") /\ comm' = comm
        /\ posted' = posted /\ corrected' = corrected /\ Back(q, "forward")' = Back(q, "forward")
        /\ \A x \in Streams : 1 - x \in Streams
    BY <1>1, <1>2, <1>7 DEF Passes, Back, Streams
  <2>2. ASSUME NEW x \in Streams
        PROVE  /\ at'[q][x].step = at[q][x].step
               /\ Started(q, x)' <=> Started(q, x)
    BY <1>1, <1>5 DEF Started
  <2>3. TurnOf(q)
    BY DEF RInv, Turns
  <2> QED  BY <2>1, <2>2, <2>3 DEF TurnOf
<1>11. PartsExact' /\ LseExact' /\ OutExact'
  <2>1. PartsExact'
    <3> SUFFICES ASSUME NEW q \in Ranks, NEW j \in Steps,
                        j < corrected[q] \/ (\E x \in Streams :
                          at'[q][x].step = j /\ at'[q][x].op = "correct")
                 PROVE  part'[q][j] = KeysMet(ForwardSection(q, j), Fwd(q, j))
      BY <1>1, SameConfig DEF PartsExact
    <3>1. CASE q = r /\ j = i
      BY <1>4, <1>5, <3>1
    <3>2. CASE ~(q = r /\ j = i)
      <4>1. part'[q][j] = part[q][j]
        BY <1>5, <3>2
      <4>2. (\E x \in Streams : at'[q][x].step = j /\ at'[q][x].op = "correct") =>
              \E x \in Streams : at[q][x].step = j /\ at[q][x].op = "correct"
        BY <1>5, <3>2
      <4> QED  BY <4>1, <4>2 DEF RInv, PartsExact
    <3> QED  BY <3>1, <3>2
  <2>2. LseExact' /\ OutExact'
    BY <1>1, <1>2, SameConfig DEF RInv, LseExact, OutExact, Back
  <2> QED  BY <2>1, <2>2
<1>12. Steady' /\ DqExact' /\ TileExact' /\ GradExact'
  BY <1>1, <1>2, BackwardFrame DEF RInv
<1>13. SlicesInPlace' /\ DkvExact'
  BY <1>1, <1>2, <1>7, BuffersFrame DEF RInv
<1> QED
  BY <1>6, <1>8, <1>9, <1>10, <1>11, <1>12, <1>13 DEF RInv

LEMMA CorrectLseStep ==
  ASSUME RInv, NEW r \in Ranks, NEW s \in Streams, CorrectLse(r, s)
  PROVE  RInv'
<1> DEFINE i == at[r][s].step
           new == Correct(lse[r], part[r][i], MergeRule(r, i))
<1>1. /\ at[r][s].op = "correct" /\ i < CpSize /\ corrected[r] >= i
      /\ lse' = [lse EXCEPT ![r] = new]
      /\ corrected' = [corrected EXCEPT ![r] = i + 1]
      /\ at' = [at EXCEPT ![r][s] = [step |-> i + 2, op |-> "start"]]
      /\ UNCHANGED <<config, posted, kv, part, out, backwardVars, comm>>
  BY DEF CorrectLse, Stream, LastCorrected
<1>2. UNCHANGED <<back, buf, tile, dq, dkv, sendBuf, grad>>
  BY <1>1 DEF backwardVars
<1>3. /\ CpSize \in Nat \ {0, 1} /\ i \in 0..CpSize - 1 /\ i \in Steps
      /\ corrected[r] = i /\ at[r][1 - s].step = i + 1 /\ Streams = {s, 1 - s} /\ s # 1 - s
      /\ i + 2 \in 0..CpSize + 1 /\ i + 1 \in 0..CpSize /\ i + 1 # i + 2
  BY <1>1, StreamsAre DEF Steps, Streams
<1>4. Back(r, "forward")
  BY <1>1, <1>3 DEF RInv, Turns, TurnOf
<1>5. new = FwdSum(r, i) /\ new \in Tensors
  <2>1. part[r][i] = KeysMet(ForwardSection(r, i), Fwd(r, i))
    BY <1>1, <1>3 DEF RInv, PartsExact
  <2>2. lse[r] = IF i = 0 THEN Unset ELSE FwdSum(r, i - 1)
    BY <1>3 DEF RInv, LseExact
  <2>3. new = FwdSum(r, i)
    BY <1>3, <2>1, <2>2, MergeStep DEF RInv, Config
  <2> QED  BY <1>3, <2>3, SumsTyped
<1>6. /\ \A q \in Ranks \ {r} : at'[q] = at[q] /\ lse'[q] = lse[q] /\ corrected'[q] = corrected[q]
      /\ at'[r][s].step = i + 2 /\ at'[r][s].op = "start" /\ at'[r][1 - s] = at[r][1 - s]
      /\ corrected'[r] = i + 1 /\ lse'[r] = new
  <2> HIDE DEF i, new
  <2> QED  BY <1>1, <1>3 DEF RInv, TypeOK
<1>7. TypeOK'
  <2>1. at' \in [Ranks -> [Streams -> [step : 0..CpSize + 1, op : {"start", "attend", "correct"}]]]
    <3> HIDE DEF i
    <3> QED  BY <1>1, <1>3, AtTyped DEF RInv
  <2>2. lse' \in [Ranks -> Tensors] /\ corrected' \in [Ranks -> 0..CpSize]
    <3> HIDE DEF i, new
    <3> QED  BY <1>1, <1>3, <1>5 DEF RInv, TypeOK
  <2> QED  BY <1>1, <1>2, <2>1, <2>2 DEF RInv, TypeOK
<1>8. ASSUME NEW q \in Ranks, NEW p \in Passes
      PROVE  Sent(q, p)' = Sent(q, p) /\ Received(q, p)' = Received(q, p)
  BY <1>1, <1>2, SameConfig DEF Sent, Received, Sending, Receiving, Posted, Back
<1>9. Config' /\ InFlight'
  BY <1>1, <1>2, SameConfig DEF RInv, InFlight, Back
<1>10. Balanced' /\ KeysInPlace'
  BY <1>1, <1>8, ExchangesFrame DEF RInv
<1>11. Turns'
  <2>1. ASSUME NEW q \in Ranks
        PROVE  /\ Received(q, "forward")' = Received(q, "forward") /\ comm' = comm
               /\ posted' = posted /\ Back(q, "forward")' = Back(q, "forward")
    BY <1>1, <1>2, <1>8 DEF Passes, Back
  <2>2. ASSUME NEW q \in Ranks, q # r  PROVE TurnOf(q)'
    BY <1>6, <2>1, <2>2 DEF RInv, Turns, TurnOf, Started
  <2>3. TurnOf(r)'
    <3>1. ~Started(r, s)' /\ (Started(r, 1 - s)' <=> Started(r, 1 - s))
      BY <1>6 DEF Started
    <3>2. (\E x \in Streams : at[r][x].step = corrected[r] /\ at[r][1 - x].step = corrected[r] + 1)'
      <4>1. /\ at'[r][1 - s].step = i + 1 /\ corrected'[r] = i + 1 /\ 1 - s \in Streams
            /\ at'[r][s].step = i + 2
        BY <1>3, <1>6
      <4>2. 1 - (1 - s) = s
        BY DEF Streams
      <4>3. (i + 1) + 1 = i + 2
        BY <1>3
      <4> HIDE DEF i
      <4> QED  BY <4>1, <4>2, <4>3
    <3>3. (\A x \in Streams : Started(r, x) => at[r][x].step <= Received(r, "forward"))'
      BY <1>3, <1>6, <2>1, <3>1 DEF RInv, Turns, TurnOf
    <3>4. (\/ corrected[r] = CpSize
           \/ \E x \in Streams : Started(r, x) /\ at[r][x].step = CpSize - 1)'
            => posted'[r] = CpSize - 1 /\ (Back(r, "forward")' => comm'[r] = <<>>)
      <4>1. corrected'[r] = CpSize => Started(r, s) /\ at[r][s].step = CpSize - 1
        BY <1>1, <1>3, <1>6 DEF Started
      <4>2. ASSUME NEW x \in Streams, Started(r, x)', at'[r][x].step = CpSize - 1
            PROVE  Started(r, x) /\ at[r][x].step = CpSize - 1
        BY <1>3, <1>6, <3>1, <4>2
      <4> QED  BY <2>1, <4>1, <4>2 DEF RInv, Turns, TurnOf
    <3>5. (~Back(r, "forward") => corrected[r] = CpSize)'
      BY <1>4, <2>1
    <3> QED  BY <3>2, <3>3, <3>4, <3>5 DEF TurnOf
  <2> QED  BY <2>2, <2>3 DEF Turns
<1>12. PartsExact' /\ LseExact' /\ OutExact'
  <2>1. PartsExact'
    <3> SUFFICES ASSUME NEW q \in Ranks, NEW j \in Steps,
                        j < corrected'[q] \/ (\E x \in Streams :
                          at'[q][x].step = j /\ at'[q][x].op = "correct")
                 PROVE  part[q][j] = KeysMet(ForwardSection(q, j), Fwd(q, j))
      BY <1>1, SameConfig DEF PartsExact
    <3>1. CASE q # r
      BY <1>6, <3>1 DEF RInv, PartsExact
    <3>2. CASE q = r
      <4>1. j < i + 1 => j < corrected[r] \/ (at[r][s].step = j /\ at[r][s].op = "correct")
        BY <1>1, <1>3 DEF Steps
      <4>2. (\E x \in Streams : at'[r][x].step = j /\ at'[r][x].op = "correct") =>
              \E x \in Streams : at[r][x].step = j /\ at[r][x].op = "correct"
        BY <1>3, <1>6
      <4> QED  BY <1>6, <3>2, <4>1, <4>2 DEF RInv, PartsExact
    <3> QED  BY <3>1, <3>2
  <2>2. LseExact'
    <3> SUFFICES ASSUME NEW q \in Ranks
                 PROVE  lse'[q] = IF corrected'[q] = 0 THEN Unset ELSE FwdSum(q, corrected'[q] - 1)
      BY <1>1, SameConfig DEF LseExact
    <3>1. CASE q # r
      BY <1>6, <3>1 DEF RInv, LseExact
    <3>2. CASE q = r
      <4>1. corrected'[r] # 0 /\ corrected'[r] - 1 = i
        BY <1>3, <1>6
      <4> QED  BY <1>5, <1>6, <3>2, <4>1
    <3> QED  BY <3>1, <3>2
  <2>3. OutExact'
    BY <1>1, <1>2, SameConfig DEF RInv, OutExact, Back
  <2> QED  BY <2>1, <2>2, <2>3
<1>13. Steady' /\ DqExact' /\ TileExact' /\ GradExact'
  BY <1>1, <1>2, BackwardFrame DEF RInv
<1>14. SlicesInPlace' /\ DkvExact'
  BY <1>1, <1>2, <1>8, BuffersFrame DEF RInv
<1> QED
  BY <1>7, <1>9, <1>10, <1>11, <1>12, <1>13, <1>14 DEF RInv

LEMMA BufTyped ==
  ASSUME TypeOK, NEW r \in Ranks, NEW b \in {0, 1}
  PROVE  /\ \A c \in Ranks \cup {Uninit} : [buf EXCEPT ![r][b].kv = c]
              \in [Ranks -> [{0, 1} -> [kv : Ranks \cup {Uninit}, dkv : Tensors]]]
         /\ \A t \in Tensors : [buf EXCEPT ![r][b].dkv = t]
              \in [Ranks -> [{0, 1} -> [kv : Ranks \cup {Uninit}, dkv : Tensors]]]
<1> DEFINE R == [kv : Ranks \cup {Uninit}, dkv : Tensors]
           old == buf[r][b]
<1>1. buf \in [Ranks -> [{0, 1} -> R]]
  BY DEF TypeOK
<1>2. old \in R
  BY <1>1
<1> HIDE DEF old
<1>3. /\ \A c \in Ranks \cup {Uninit} : [old EXCEPT !.kv = c] \in R
      /\ \A t \in Tensors : [old EXCEPT !.dkv = t] \in R
  BY <1>2
<1>4. /\ \A c : [buf EXCEPT ![r][b].kv = c] = [buf EXCEPT ![r][b] = [old EXCEPT !.kv = c]]
      /\ \A t : [buf EXCEPT ![r][b].dkv = t] = [buf EXCEPT ![r][b] = [old EXCEPT !.dkv = t]]
  BY DEF old
<1> HIDE DEF R
<1>5. \A n \in R : [buf EXCEPT ![r][b] = n] \in [Ranks -> [{0, 1} -> R]]
  BY <1>1
<1>6. \A c \in Ranks \cup {Uninit} : [buf EXCEPT ![r][b].kv = c] \in [Ranks -> [{0, 1} -> R]]
  BY <1>3, <1>4, <1>5
<1>7. \A t \in Tensors : [buf EXCEPT ![r][b].dkv = t] \in [Ranks -> [{0, 1} -> R]]
  BY <1>3, <1>4, <1>5
<1> QED
  BY <1>6, <1>7 DEF R

LEMMA CombineStep ==
  ASSUME RInv, NEW r \in Ranks, Combine(r)
  PROVE  RInv'
<1>1. /\ Back(r, "forward") /\ \A s \in Streams : at[r][s].step >= CpSize
      /\ out' = [out EXCEPT ![r] = Merged(r)]
      /\ back' = [back EXCEPT ![r].op = "post"]
      /\ buf' = [buf EXCEPT ![r][0].kv = kv[r][CpSize - 1]]
      /\ UNCHANGED <<config, at, posted, kv, part, corrected, lse,
                     tile, dq, dkv, sendBuf, grad, comm>>
  BY DEF Combine, StreamDone, Back
<1>2. /\ CpSize \in Nat \ {0, 1} /\ corrected[r] = CpSize /\ posted[r] = CpSize - 1
      /\ comm[r] = <<>> /\ CpSize - 1 \in Steps /\ back[r].step = 0
  <2>1. CpSize \in Nat \ {0, 1} /\ corrected[r] = CpSize
    BY <1>1, StreamsAre DEF Streams
  <2>2. posted[r] = CpSize - 1 /\ comm[r] = <<>>
    BY <1>1, <2>1 DEF RInv, Turns, TurnOf
  <2> QED  BY <1>1, <2>1, <2>2 DEF RInv, Steady, Steps
<1>3. Merged(r) = [h \in Halves |-> KeysOf(Chunk(r, h))] /\ Merged(r) \in Tensors
  <2>1. \A i \in Steps : part[r][i] = KeysMet(ForwardSection(r, i), Fwd(r, i))
    BY <1>2 DEF RInv, PartsExact, Steps
  <2>2. Merged(r) = [h \in Halves |-> KeysOf(Chunk(r, h))]
    BY <2>1, MergedExact DEF RInv, Config
  <2> QED  BY <1>2, <2>2, SumsTyped
<1>4. kv[r][CpSize - 1] = Bwd(r, 0) /\ kv[r][CpSize - 1] \in Ranks
  <2>1. Received(r, "forward") = CpSize - 1
    BY <1>2, NothingFlies DEF Received, Receiving, Posted, Passes
  <2>2. kv[r][CpSize - 1] = Fwd(r, CpSize - 1)
    BY <1>2, <2>1 DEF RInv, KeysInPlace
  <2>3. Fwd(r, CpSize - 1) = Bwd(r, 0)
    <3>1. r \in 0..CpSize - 1 /\ 0 \in Steps
      BY <1>2 DEF Ranks, Steps
    <3> QED  BY <1>2, <3>1, FwdIs, BwdIs
  <2> QED  BY <1>2, <2>2, <2>3, FwdIs
<1>5. /\ \A q \in Ranks \ {r} : back'[q] = back[q] /\ buf'[q] = buf[q] /\ out'[q] = out[q]
      /\ back'[r].op = "post" /\ back'[r].step = 0 /\ out'[r] = Merged(r)
      /\ buf'[r][0].kv = Bwd(r, 0) /\ \A b \in {0, 1} : buf'[r][b].dkv = buf[r][b].dkv
  <2>1. /\ back \in [Ranks -> [step : Steps,
                               op : {"forward", "post", "attend", "reduce", "sum", "done"}]]
        /\ buf \in [Ranks -> [{0, 1} -> [kv : Ranks \cup {Uninit}, dkv : Tensors]]]
        /\ out \in [Ranks -> Tensors]
    BY DEF RInv, TypeOK
  <2>2. \A q \in Ranks \ {r} : back'[q] = back[q] /\ buf'[q] = buf[q] /\ out'[q] = out[q]
    BY <1>1, <2>1
  <2>3. back'[r].op = "post" /\ back'[r].step = 0 /\ out'[r] = Merged(r)
    BY <1>1, <1>2, <2>1
  <2>4. buf'[r][0].kv = Bwd(r, 0) /\ \A b \in {0, 1} : buf'[r][b].dkv = buf[r][b].dkv
    <3>1. buf'[r] = [buf[r] EXCEPT ![0].kv = kv[r][CpSize - 1]]
      BY <1>1, <2>1
    <3> QED  BY <1>4, <2>1, <3>1
  <2> QED  BY <2>2, <2>3, <2>4
<1>6. TypeOK'
  <2>1. back' \in [Ranks -> [step : Steps,
                             op : {"forward", "post", "attend", "reduce", "sum", "done"}]]
    BY <1>1 DEF RInv, TypeOK
  <2>2. buf' \in [Ranks -> [{0, 1} -> [kv : Ranks \cup {Uninit}, dkv : Tensors]]]
    <3> DEFINE c == kv[r][CpSize - 1]
    <3>1. buf' = [buf EXCEPT ![r][0].kv = c] /\ c \in Ranks \cup {Uninit}
      BY <1>1, <1>4
    <3> HIDE DEF c
    <3> QED  BY <3>1, BufTyped DEF RInv
  <2>3. out' \in [Ranks -> Tensors]
    BY <1>1, <1>3 DEF RInv, TypeOK
  <2> QED  BY <1>1, <2>1, <2>2, <2>3 DEF RInv, TypeOK
<1>7. ASSUME NEW q \in Ranks, NEW p \in Passes
      PROVE  Sent(q, p)' = Sent(q, p) /\ Received(q, p)' = Received(q, p)
  <2>1. Posted(q, p)' = Posted(q, p)
    <3>1. CASE q # r
      BY <1>1, <1>5, <3>1, SameConfig DEF Posted, Back
    <3>2. CASE q = r
      BY <1>1, <1>5, <3>2 DEF Posted, Back
    <3> QED  BY <3>1, <3>2
  <2> QED  BY <1>1, <2>1 DEF Sent, Received, Sending, Receiving
<1>8. Config' /\ InFlight'
  <2>1. \A q \in Ranks \ {r} : /\ back'[q] = back[q]
                               /\ \A op : Back(q, op)' = Back(q, op)
    BY <1>5 DEF Back
  <2> QED  BY <1>1, <1>2, <2>1, SameConfig DEF RInv, InFlight
<1>9. Balanced' /\ KeysInPlace'
  BY <1>1, <1>7, ExchangesFrame DEF RInv
<1>10. Turns'
  <2> SUFFICES ASSUME NEW q \in Ranks  PROVE TurnOf(q)'
    BY DEF Turns
  <2>1. /\ Received(q, "forward")' = Received(q, "forward")
        /\ UNCHANGED <<comm, posted, at, corrected>>
        /\ Back(q, "forward")' => Back(q, "forward")
        /\ ~Back(q, "forward")' => ~Back(q, "forward") \/ corrected[q] = CpSize
    BY <1>1, <1>2, <1>5, <1>7 DEF Passes, Back
  <2>2. TurnOf(q)
    BY DEF RInv, Turns
  <2> QED  BY <2>1, <2>2 DEF TurnOf, Started
<1>11. PartsExact' /\ LseExact' /\ OutExact'
  <2>1. PartsExact' /\ LseExact'
    BY <1>1, SameConfig DEF RInv, PartsExact, LseExact
  <2>2. OutExact'
    <3> SUFFICES ASSUME NEW q \in Ranks, ~Back(q, "forward")'
                 PROVE  out'[q] = [h \in Halves |-> KeysOf(Chunk(q, h))]
      BY <1>1, SameConfig DEF OutExact
    <3>1. CASE q = r
      BY <1>3, <1>5, <3>1
    <3>2. CASE q # r
      BY <1>5, <3>2 DEF RInv, OutExact, Back
    <3> QED  BY <3>1, <3>2
  <2> QED  BY <2>1, <2>2
<1>12. Steady' /\ DqExact' /\ TileExact' /\ GradExact'
  <2>1. Steady'
    BY <1>5 DEF RInv, Steady, Back
  <2>2. \A q \in Ranks : Attended(q)' = Attended(q)
    BY <1>1, <1>2, <1>5, ZenonT(60) DEF Attended, Back
  <2>3. DqExact'
    BY <1>1, <2>2, SameConfig DEF RInv, DqExact, config
  <2>4. TileExact' /\ GradExact'
    BY <1>1, <1>5, SameConfig DEF RInv, TileExact, GradExact, Back, config
  <2> QED  BY <2>1, <2>3, <2>4
<1>13. \A q \in Ranks : Received(q, "backward")' = Received(q, "backward")
  BY <1>7 DEF Passes
<1>14. SlicesInPlace'
  <2> SUFFICES ASSUME NEW q \in Ranks
               PROVE  LET i == back'[q].step IN
                      /\ Working(q)' => buf'[q][i % 2].kv = Bwd(q, i)
                      /\ Posting(q)' /\ i < CpSize - 1 /\ Received(q, "backward")' > i =>
                           buf'[q][(i + 1) % 2].kv = Bwd(q, i + 1)
    BY DEF SlicesInPlace, Bwd
  <2>1. CASE q # r
    BY <1>5, <1>13, <2>1 DEF RInv, SlicesInPlace, Working, Posting
  <2>2. CASE q = r
    <3>1. 0 % 2 = 0
      OBVIOUS
    <3> QED  BY <1>5, <2>2, <3>1 DEF Posting
  <2> QED  BY <2>1, <2>2
<1>15. DkvExact'
  <2> SUFFICES ASSUME precision = "f16", NEW q \in Ranks
               PROVE  LET i == back'[q].step IN
                      /\ i = 0 => buf'[q][1].dkv = Unset
                      /\ Working(q)' /\ i > 0 => buf'[q][i % 2].dkv = DkvSum(q, i - 1)
                      /\ Posting(q)' /\ i > 0 /\ Received(q, "backward")' > i =>
                           buf'[q][(i + 1) % 2].dkv = DkvSum(Giver(q, 1), i - 1)
                      /\ Back(q, "sum")' => buf'[q][CpSize % 2].dkv = DkvSum(q, CpSize - 1)
    BY <1>1, SameConfig DEF DkvExact, Giver, config
  <2>1. CASE q # r
    BY <1>5, <1>13, <2>1 DEF RInv, DkvExact, Working, Posting, Back
  <2>2. CASE q = r
    BY <1>2, <1>5, <2>2 DEF RInv, DkvExact, Back
  <2> QED  BY <2>1, <2>2
<1> QED
  BY <1>6, <1>8, <1>9, <1>10, <1>11, <1>12, <1>14, <1>15 DEF RInv

-----------------------------------------------------------------------------
(* The steps of the backward                                                  *)

LEMMA BackwardIs ==
  ASSUME RInv, NEW r \in Ranks
  PROVE  /\ CpSize \in Nat \ {0, 1} /\ back[r].step \in 0..CpSize - 1 /\ back[r].step \in Steps
         /\ back[r].step % 2 \in {0, 1} /\ (back[r].step + 1) % 2 \in {0, 1}
         /\ back[r].step % 2 # (back[r].step + 1) % 2
         /\ Exchanges("backward") = IF precision = "f16" THEN CpSize ELSE CpSize - 1
         /\ precision \in {"f16", "delayed", "current"}
<1>1. CpSize \in Nat \ {0, 1} /\ back[r].step \in 0..CpSize - 1
  BY RingAssumption DEF RInv, TypeOK, Steps
<1> QED
  BY <1>1 DEF Steps, Exchanges, RInv, Config

LEMMA BackTyped ==
  ASSUME TypeOK, NEW r \in Ranks, NEW i \in Steps,
         NEW op \in {"forward", "post", "attend", "reduce", "sum", "done"}
  PROVE  /\ [back EXCEPT ![r].op = op]
              \in [Ranks -> [step : Steps,
                             op : {"forward", "post", "attend", "reduce", "sum", "done"}]]
         /\ [back EXCEPT ![r] = [step |-> i, op |-> op]]
              \in [Ranks -> [step : Steps,
                             op : {"forward", "post", "attend", "reduce", "sum", "done"}]]
         /\ [back EXCEPT ![r].op = op][r].op = op
         /\ [back EXCEPT ![r].op = op][r].step = back[r].step
         /\ \A q \in Ranks \ {r} : [back EXCEPT ![r].op = op][q] = back[q]
<1> DEFINE R == [step : Steps, op : {"forward", "post", "attend", "reduce", "sum", "done"}]
           old == back[r]
           new == [old EXCEPT !.op = op]
           next == [step |-> i, op |-> op]
<1>1. back \in [Ranks -> R] /\ old \in R
  BY DEF TypeOK
<1>2. [back EXCEPT ![r].op = op] = [back EXCEPT ![r] = new]
  OBVIOUS
<1> HIDE DEF old
<1>3. new \in R /\ next \in R /\ new.op = op /\ new.step = old.step
  BY <1>1
<1> HIDE DEF R, new, next
<1>4. /\ [back EXCEPT ![r] = new] \in [Ranks -> R] /\ [back EXCEPT ![r] = next] \in [Ranks -> R]
      /\ [back EXCEPT ![r] = new][r] = new
      /\ \A q \in Ranks \ {r} : [back EXCEPT ![r] = new][q] = back[q]
  BY <1>1, <1>3
<1>5. [back EXCEPT ![r].op = op] \in [Ranks -> R]
  BY <1>2, <1>4
<1>6. /\ [back EXCEPT ![r].op = op][r] = new
      /\ \A q \in Ranks \ {r} : [back EXCEPT ![r].op = op][q] = back[q]
  BY <1>2, <1>4
<1> QED
  BY <1>3, <1>4, <1>5, <1>6 DEF R, next, old

LEMMA PostExchangeStep ==
  ASSUME RInv, NEW r \in Ranks, PostExchange(r)
  PROVE  RInv'
<1> DEFINE i == back[r].step
           last == precision # "f16" /\ i = CpSize - 1
<1>1. /\ back[r].op = "post" /\ back' = [back EXCEPT ![r].op = "attend"]
      /\ comm' = [comm EXCEPT ![r] = @ \o
                   IF last THEN <<{A2A}>>
                   ELSE Exchange(r, "backward", i % 2, (i + 1) % 2, Parts("backward", i))]
      /\ UNCHANGED <<config, forwardVars, buf, tile, dq, dkv, sendBuf, grad>>
  BY DEF PostExchange, Back, BackTo, Parts
<1>2. UNCHANGED <<at, posted, kv, part, corrected, lse, out>>
  BY <1>1 DEF forwardVars
<1>3. /\ CpSize \in Nat \ {0, 1} /\ i \in 0..CpSize - 1 /\ i \in Steps
      /\ i % 2 \in {0, 1} /\ (i + 1) % 2 \in {0, 1}
      /\ Exchanges("backward") = IF precision = "f16" THEN CpSize ELSE CpSize - 1
      /\ last <=> i = Exchanges("backward")
      /\ ~last => i \in 0..Exchanges("backward") - 1
  <2>1. /\ CpSize \in Nat \ {0, 1} /\ i \in 0..CpSize - 1 /\ i \in Steps
        /\ i % 2 \in {0, 1} /\ (i + 1) % 2 \in {0, 1}
        /\ Exchanges("backward") = IF precision = "f16" THEN CpSize ELSE CpSize - 1
    BY BackwardIs
  <2> HIDE DEF i
  <2> QED  BY <2>1
<1>4. comm[r] = <<>>
  BY <1>1 DEF RInv, InFlight, Back
<1>5. /\ \A q \in Ranks \ {r} : back'[q] = back[q] /\ comm'[q] = comm[q]
      /\ back'[r].op = "attend" /\ back'[r].step = i /\ DOMAIN comm' = Ranks
      /\ comm'[r] = <<>> \o IF last THEN <<{A2A}>>
                   ELSE Exchange(r, "backward", i % 2, (i + 1) % 2, Parts("backward", i))
  <2>1. /\ \A q \in Ranks \ {r} : back'[q] = back[q]
        /\ back'[r].op = "attend" /\ back'[r].step = i
    BY <1>1, <1>3, BackTyped DEF RInv
  <2>2. DOMAIN comm = Ranks
    BY DEF RInv, InFlight
  <2> DEFINE n == IF last THEN <<{A2A}>>
                  ELSE Exchange(r, "backward", i % 2, (i + 1) % 2, Parts("backward", i))
  <2>3. comm' = [comm EXCEPT ![r] = @ \o n]
    BY <1>1
  <2> HIDE DEF n
  <2>4. /\ \A q \in Ranks \ {r} : comm'[q] = comm[q]
        /\ comm'[r] = <<>> \o n /\ DOMAIN comm' = Ranks
    BY <1>4, <2>2, <2>3
  <2> QED  BY <2>1, <2>4 DEF n
<1>6. last => comm'[r] = <<{A2A}>>
  <2>1. <<>> \o <<{A2A}>> = <<{A2A}>>
    OBVIOUS
  <2> QED  BY <1>5, <2>1
<1>7. ~last => LET a == SendOp("backward", i)
                   b == RecvOp("backward", i)
               IN /\ comm'[r] \in {<<{a}, {b}>>, <<{b}, {a}>>, <<{a, b}>>} /\ comm'[r] \in Left(a, b)
                  /\ a \in P2POps /\ b \in P2POps /\ a.kind = "send" /\ b.kind = "recv"
                  /\ a.pass = "backward" /\ b.pass = "backward"
  <2> SUFFICES ASSUME ~last
               PROVE  LET a == SendOp("backward", i)
                          b == RecvOp("backward", i)
                      IN /\ comm'[r] \in {<<{a}, {b}>>, <<{b}, {a}>>, <<{a, b}>>}
                         /\ a \in P2POps /\ b \in P2POps /\ a.kind = "send" /\ b.kind = "recv"
                         /\ a.pass = "backward" /\ b.pass = "backward"
    BY DEF Left
  <2>1. comm'[r] = <<>> \o Exchange(r, "backward", i % 2, (i + 1) % 2, Parts("backward", i))
    BY <1>5
  <2>2. i \in 0..Exchanges("backward") - 1
    BY <1>3
  <2> HIDE DEF i, last
  <2>3. SendOp("backward", i).at = i % 2 /\ RecvOp("backward", i).at = (i + 1) % 2
    BY DEF SendOp, RecvOp, P2P
  <2>4. LET a == SendOp("backward", i)
            b == RecvOp("backward", i)
        IN <<>> \o Exchange(r, "backward", a.at, b.at, Parts("backward", i))
             \in {<<{a}, {b}>>, <<{b}, {a}>>, <<{a, b}>>}
    BY <2>2, ExchangeLeft DEF Passes
  <2> QED  BY <2>1, <2>2, <2>3, <2>4, OpsAre DEF Passes
<1>8. Posted(r, "backward") = i /\ Received(r, "backward") = i
  <2>1. Posted(r, "backward") = i
    BY <1>1 DEF Posted, Back
  <2> QED  BY <1>3, <1>4, <2>1, NothingFlies DEF Received, Receiving, Passes
<1>9. ASSUME NEW q \in Ranks, NEW p \in Passes
      PROVE  Sent(q, p)' = Sent(q, p) /\ Received(q, p)' = Received(q, p)
  <2>1. CASE q # r
    BY <1>1, <1>2, <1>5, <2>1, SameConfig, SMTT(60)
       DEF Sent, Received, Sending, Receiving, Posted, Back
  <2>2. CASE q = r
    <3>1. Sent(r, p) = Posted(r, p) /\ Received(r, p) = Posted(r, p)
      BY <1>4, NothingFlies, PostedIs DEF RInv, Sent, Received, Sending, Receiving
    <3>2. Exchanges("backward")' = Exchanges("backward")
      BY <1>1, SameConfig
    <3>3. Posted(r, p)' = IF p = "backward" /\ ~last THEN i + 1 ELSE Posted(r, p)
      <4>1. p = "forward" => Posted(r, p) = posted[r] /\ Posted(r, p)' = posted[r]
        BY <1>2 DEF Posted
      <4>2. p = "backward" => Posted(r, p)' = IF i = Exchanges("backward") THEN i ELSE i + 1
        BY <1>5, <3>2 DEF Posted, Back
      <4> QED  BY <1>3, <1>8, <4>1, <4>2 DEF Passes
    <3>4. CASE last
      <4>1. ~Sending(r, p)' /\ ~Receiving(r, p)'
        BY <1>6, <3>4, NothingFlies DEF Sending, Receiving, Passes
      <4> QED  BY <2>2, <3>1, <3>3, <3>4, <4>1, PostedIs DEF RInv, Sent, Received
    <3>5. CASE ~last
      <4>1. /\ Sending(r, p)' <=> p = "backward"
            /\ Receiving(r, p)' <=> p = "backward"
        <5> DEFINE a == SendOp("backward", i)
                   b == RecvOp("backward", i)
        <5>1. /\ comm'[r] \in {<<{a}, {b}>>, <<{b}, {a}>>, <<{a, b}>>} /\ comm'[r] \in Left(a, b)
              /\ a \in P2POps /\ b \in P2POps /\ a.kind = "send" /\ b.kind = "recv"
              /\ a.pass = "backward" /\ b.pass = "backward"
          BY <1>7, <3>5
        <5> HIDE DEF a, b
        <5>2. Has(comm'[r], "send", "backward") /\ Has(comm'[r], "recv", "backward")
          BY <5>1, LeftHas
        <5>3. p # "backward" => ~Has(comm'[r], "send", p) /\ ~Has(comm'[r], "recv", p)
          BY <5>1, LeftOps
        <5> QED  BY <5>2, <5>3 DEF Sending, Receiving
      <4>2. Posted(r, p) \in Nat
        BY PostedIs DEF RInv
      <4> HIDE DEF i, last
      <4> QED  BY <1>3, <1>8, <2>2, <3>1, <3>3, <3>5, <4>1, <4>2 DEF Sent, Received
    <3> QED  BY <3>4, <3>5
  <2> QED  BY <2>1, <2>2
<1>10. TypeOK'
  <2>1. back' \in [Ranks -> [step : Steps,
                             op : {"forward", "post", "attend", "reduce", "sum", "done"}]]
    <3>1. TypeOK /\ back' = [back EXCEPT ![r].op = "attend"] /\ i \in Steps
      BY <1>1, <1>3 DEF RInv
    <3> HIDE DEF i
    <3> QED  BY <3>1, BackTyped
  <2>2. \A q \in Ranks : comm'[q] \in Seq((SUBSET P2POps) \ {{}}) /\ Len(comm'[q]) <= 2
    <3>1. ~last => comm'[r] \in Seq((SUBSET P2POps) \ {{}}) /\ Len(comm'[r]) <= 2
      BY <1>7, LeftOps
    <3>2. last => comm'[r] \in Seq((SUBSET P2POps) \ {{}}) /\ Len(comm'[r]) <= 2
      <4>1. {A2A} \in (SUBSET P2POps) \ {{}}
        <5>1. 0 \in Steps
          BY <1>3 DEF Steps
        <5>2. A2A \in P2POps
          BY <5>1 DEF A2A, P2P, P2POps
        <5> QED  BY <5>2
      <4>2. <<{A2A}>> \in Seq((SUBSET P2POps) \ {{}}) /\ Len(<<{A2A}>>) = 1
        <5> DEFINE A == (SUBSET P2POps) \ {{}}
                   a == {A2A}
        <5>1. a \in A
          BY <4>1
        <5> HIDE DEF A, a
        <5>2. <<a>> \in Seq(A) /\ Len(<<a>>) = 1
          BY <5>1, ShortSequences
        <5> QED  BY <5>2 DEF A, a
      <4>3. 1 <= 2
        OBVIOUS
      <4> HIDE DEF last
      <4> QED  BY <1>6, <4>2, <4>3, Zenon
    <3> QED  BY <1>5, <3>1, <3>2 DEF RInv, TypeOK
  <2> QED  BY <1>1, <1>2, <2>1, <2>2 DEF RInv, TypeOK
<1>11. Config' /\ InFlight'
  <2>1. Config'
    BY <1>1, SameConfig DEF RInv
  <2>2. /\ \A n : /\ SendOp("forward", n)' = SendOp("forward", n)
                  /\ RecvOp("forward", n)' = RecvOp("forward", n)
                  /\ SendOp("backward", n)' = SendOp("backward", n)
                  /\ RecvOp("backward", n)' = RecvOp("backward", n)
        /\ Exchanges("backward")' = Exchanges("backward") /\ posted' = posted
    BY <1>1, <1>2, SameConfig
  <2>3. ASSUME NEW q \in Ranks
        PROVE  \/ comm'[q] = <<>>
               \/ /\ back'[q].op = "forward" /\ posted[q] > 0
                  /\ comm'[q] \in Left(SendOp("forward", posted[q] - 1),
                                       RecvOp("forward", posted[q] - 1))
               \/ /\ back'[q].op = "attend" \/ back'[q].op = "reduce"
                  /\ back'[q].step < Exchanges("backward")
                  /\ comm'[q] \in Left(SendOp("backward", back'[q].step),
                                       RecvOp("backward", back'[q].step))
               \/ /\ back'[q].op = "attend" \/ back'[q].op = "reduce"
                  /\ back'[q].step = Exchanges("backward") /\ comm'[q] = <<{A2A}>>
    <3>1. CASE q # r
      BY <1>5, <3>1 DEF RInv, InFlight, Back
    <3>2. CASE q = r /\ ~last
      <4>1. i < Exchanges("backward")
        <5> HIDE DEF i, last
        <5> QED  BY <1>3, <3>2
      <4> QED  BY <1>5, <1>7, <3>2, <4>1
    <3>3. CASE q = r /\ last
      BY <1>3, <1>5, <1>6, <3>3
    <3> QED  BY <3>1, <3>2, <3>3
  <2>4. A2A' = A2A
    BY DEF A2A, P2P
  <2> QED  BY <1>5, <2>1, <2>2, <2>3, <2>4 DEF InFlight, Back, Left
<1>12. Balanced' /\ KeysInPlace'
  BY <1>2, <1>9, ExchangesFrame DEF RInv
<1>13. \A q \in Ranks : Back(q, "forward")' <=> Back(q, "forward")
  BY <1>1, <1>5 DEF Back
<1>14. Turns'
  <2> SUFFICES ASSUME NEW q \in Ranks  PROVE TurnOf(q)'
    BY DEF Turns
  <2>1. /\ Received(q, "forward")' = Received(q, "forward")
        /\ UNCHANGED <<posted, at, corrected>>
        /\ Back(q, "forward")' <=> Back(q, "forward")
        /\ Back(q, "forward") => comm'[q] = comm[q]
    BY <1>1, <1>2, <1>5, <1>9, <1>13 DEF Passes, Back
  <2>2. TurnOf(q)
    BY DEF RInv, Turns
  <2> QED  BY <2>1, <2>2 DEF TurnOf, Started
<1>15. PartsExact' /\ LseExact' /\ OutExact'
  BY <1>1, <1>2, <1>13, ForwardFrame DEF RInv
<1>16. Steady' /\ DqExact' /\ TileExact' /\ GradExact'
  <2>1. Steady'
    BY <1>5 DEF RInv, Steady, Back
  <2>2. \A q \in Ranks : Attended(q)' = Attended(q)
    <3> SUFFICES ASSUME NEW q \in Ranks  PROVE Attended(q)' = Attended(q)
      OBVIOUS
    <3>1. CASE q # r
      BY <1>5, <3>1 DEF Attended
    <3>2. CASE q = r
      BY <1>1, <1>5, <3>2 DEF Attended
    <3> QED  BY <3>1, <3>2
  <2>3. DqExact'
    BY <1>1, <2>2, SameConfig DEF RInv, DqExact, config
  <2>4. TileExact' /\ GradExact'
    <3>1. ASSUME NEW q \in Ranks, NEW op \in {"reduce", "done"}, Back(q, op)'
          PROVE  Back(q, op) /\ back'[q] = back[q]
      BY <1>5, <3>1 DEF Back
    <3>2. TileExact'
      BY <1>1, <3>1, SameConfig DEF RInv, TileExact
    <3>3. GradExact'
      BY <1>1, <3>1, SameConfig DEF RInv, GradExact, config
    <3> QED  BY <3>2, <3>3
  <2> QED  BY <2>1, <2>3, <2>4
<1>17. \A q \in Ranks : Received(q, "backward")' = Received(q, "backward")
  BY <1>9 DEF Passes
<1>18. SlicesInPlace'
  <2> SUFFICES ASSUME NEW q \in Ranks
               PROVE  LET n == back'[q].step IN
                      /\ Working(q)' => buf'[q][n % 2].kv = Bwd(q, n)
                      /\ Posting(q)' /\ n < CpSize - 1 /\ Received(q, "backward")' > n =>
                           buf'[q][(n + 1) % 2].kv = Bwd(q, n + 1)
    BY DEF SlicesInPlace, Bwd
  <2>1. CASE q # r
    BY <1>1, <1>5, <1>17, <2>1, ZenonT(60) DEF RInv, SlicesInPlace, Working, Posting
  <2>2. CASE q = r
    <3>1. Working(r) /\ buf[r][i % 2].kv = Bwd(r, i)
      BY <1>1 DEF RInv, SlicesInPlace, Working
    <3>2. ~(Received(r, "backward")' > back'[r].step)
      BY <1>3, <1>5, <1>8, <1>17
    <3> QED  BY <1>1, <1>5, <2>2, <3>1, <3>2
  <2> QED  BY <2>1, <2>2
<1>19. DkvExact'
  <2> SUFFICES ASSUME precision = "f16", NEW q \in Ranks
               PROVE  LET n == back'[q].step IN
                      /\ n = 0 => buf'[q][1].dkv = Unset
                      /\ Working(q)' /\ n > 0 => buf'[q][n % 2].dkv = DkvSum(q, n - 1)
                      /\ Posting(q)' /\ n > 0 /\ Received(q, "backward")' > n =>
                           buf'[q][(n + 1) % 2].dkv = DkvSum(Giver(q, 1), n - 1)
                      /\ Back(q, "sum")' => buf'[q][CpSize % 2].dkv = DkvSum(q, CpSize - 1)
    BY <1>1, SameConfig DEF DkvExact, Giver, config
  <2>1. CASE q # r
    BY <1>1, <1>5, <1>17, <2>1, SMTT(60) DEF RInv, DkvExact, Working, Posting, Back
  <2>2. CASE q = r
    <3>1. Working(r) /\ i = 0 => buf[r][1].dkv = Unset
      BY <1>1 DEF RInv, DkvExact, Working
    <3>2. i > 0 => buf[r][i % 2].dkv = DkvSum(r, i - 1)
      BY <1>1 DEF RInv, DkvExact, Working
    <3>3. ~(Received(r, "backward")' > back'[r].step) /\ ~Back(r, "sum")'
      BY <1>3, <1>5, <1>8, <1>17 DEF Back
    <3>4. Working(r)
      BY <1>1 DEF Working
    <3> QED  BY <1>1, <1>5, <2>2, <3>1, <3>2, <3>3, <3>4
  <2> QED  BY <2>1, <2>2
<1> QED
  BY <1>10, <1>11, <1>12, <1>14, <1>15, <1>16, <1>18, <1>19 DEF RInv

\* Delayed scaling's slot of a step is that of its slice.
LEMMA SlotIs ==
  ASSUME NEW r \in Ranks, NEW i \in Steps
  PROVE  /\ Slot(r, i) = IF precision = "delayed" THEN Bwd(r, i) ELSE 0
         /\ Slot(r, i) \in Ranks
         /\ \A j \in Steps : j # i => Bwd(r, j) # Bwd(r, i)
<1>1. CpSize \in Nat \ {0, 1} /\ r \in 0..CpSize - 1 /\ i \in 0..CpSize - 1 /\ 0 \in Ranks
  BY RingAssumption DEF Ranks, Steps
<1>2. r + i + 1 = r + 1 + i
  BY <1>1
<1>3. ASSUME NEW j \in Steps, j # i  PROVE Bwd(r, j) # Bwd(r, i)
  <2>1. j \in 0..CpSize - 1
    BY DEF Steps
  <2>2. /\ Bwd(r, i) = IF r + 1 + i < CpSize THEN r + 1 + i ELSE r + 1 + i - CpSize
        /\ Bwd(r, j) = IF r + 1 + j < CpSize THEN r + 1 + j ELSE r + 1 + j - CpSize
    BY BwdIs
  <2> QED  BY <1>1, <1>3, <2>1, <2>2
<1> QED
  BY <1>1, <1>2, <1>3, BwdIs DEF Slot, Bwd

\* Nothing of the forward or of the exchanges changes.
LEMMA BackwardOnly ==
  ASSUME RInv, UNCHANGED config, UNCHANGED forwardVars, UNCHANGED comm, NEW r \in Ranks,
         ~Back(r, "forward"), ~Back(r, "forward")',
         \A q \in Ranks \ {r} : back'[q] = back[q],
         \/ comm[r] = <<>>
         \/ /\ Posting(r) /\ Posting(r)' /\ back'[r].step = back[r].step,
         Posted(r, "backward")' = Posted(r, "backward")
  PROVE  /\ Config' /\ InFlight' /\ Balanced' /\ KeysInPlace' /\ Turns'
         /\ PartsExact' /\ LseExact' /\ OutExact'
         /\ \A q \in Ranks, p \in Passes : Received(q, p)' = Received(q, p)
<1>1. UNCHANGED <<at, posted, kv, part, corrected, lse, out>>
  BY DEF forwardVars
<1>2. \A q \in Ranks \ {r} : \A op : Back(q, op)' <=> Back(q, op)
  BY DEF Back
<1>3. \A q \in Ranks : Back(q, "forward")' <=> Back(q, "forward")
  BY <1>2
<1>4. ASSUME NEW q \in Ranks, NEW p \in Passes
      PROVE  Sent(q, p)' = Sent(q, p) /\ Received(q, p)' = Received(q, p)
  <2>1. Posted(q, p)' = Posted(q, p)
    <3>1. CASE q # r
      BY <1>1, <1>2, <3>1, SameConfig DEF Posted
    <3>2. CASE q = r /\ p = "forward"
      BY <1>1, <3>2 DEF Posted
    <3>3. CASE q = r /\ p = "backward"
      BY <3>3
    <3> QED  BY <3>1, <3>2, <3>3 DEF Passes
  <2> QED  BY <2>1 DEF Sent, Received, Sending, Receiving
<1>5. Config' /\ InFlight'
  <2>1. /\ \A n : /\ SendOp("forward", n)' = SendOp("forward", n)
                  /\ RecvOp("forward", n)' = RecvOp("forward", n)
                  /\ SendOp("backward", n)' = SendOp("backward", n)
                  /\ RecvOp("backward", n)' = RecvOp("backward", n)
        /\ Exchanges("backward")' = Exchanges("backward") /\ posted' = posted
    BY <1>1, SameConfig
  <2>2. ASSUME NEW q \in Ranks
        PROVE  \/ comm[q] = <<>>
               \/ /\ Back(q, "forward")' /\ posted[q] > 0
                  /\ comm[q] \in Left(SendOp("forward", posted[q] - 1),
                                      RecvOp("forward", posted[q] - 1))
               \/ /\ Back(q, "attend")' \/ Back(q, "reduce")'
                  /\ back'[q].step < Exchanges("backward")
                  /\ comm[q] \in Left(SendOp("backward", back'[q].step),
                                      RecvOp("backward", back'[q].step))
               \/ /\ Back(q, "attend")' \/ Back(q, "reduce")'
                  /\ back'[q].step = Exchanges("backward") /\ comm[q] = <<{A2A}>>
    <3>1. CASE q # r
      BY <1>2, <3>1 DEF RInv, InFlight
    <3>2. CASE q = r
      BY <3>2 DEF RInv, InFlight, Posting, Back
    <3> QED  BY <3>1, <3>2
  <2>3. A2A' = A2A /\ DOMAIN comm' = Ranks
    BY DEF A2A, P2P, RInv, InFlight
  <2> QED  BY <2>1, <2>2, <2>3, SameConfig DEF RInv, InFlight, Left
<1>6. Balanced' /\ KeysInPlace'
  BY <1>1, <1>4, ExchangesFrame DEF RInv
<1>7. Turns'
  <2> SUFFICES ASSUME NEW q \in Ranks  PROVE TurnOf(q)'
    BY DEF Turns
  <2>1. TurnOf(q) /\ Received(q, "forward")' = Received(q, "forward")
    BY <1>4 DEF RInv, Turns, Passes
  <2> QED  BY <1>1, <1>3, <2>1 DEF TurnOf, Started
<1>8. PartsExact' /\ LseExact' /\ OutExact'
  BY <1>1, <1>3, ForwardFrame DEF RInv
<1> QED
  BY <1>4, <1>5, <1>6, <1>7, <1>8

LEMMA AttendBackwardStep ==
  ASSUME RInv, NEW r \in Ranks, AttendBackward(r)
  PROVE  RInv'
<1> DEFINE i == back[r].step
           section == BackwardSection(r, i)
           slot == Slot(r, i)
           new == Correct(dq[r][slot], KeysMet(section, buf[r][i % 2].kv), DqRule(r, i))
           met == QueriesMet(section, r)
<1>1. /\ back[r].op = "attend" /\ back' = [back EXCEPT ![r].op = "reduce"]
      /\ dq' = [dq EXCEPT ![r][slot] = new] /\ tile' = [tile EXCEPT ![r] = met]
      /\ UNCHANGED <<config, forwardVars, buf, dkv, sendBuf, grad, comm>>
  BY DEF AttendBackward, Back, BackTo
<1>2. /\ CpSize \in Nat \ {0, 1} /\ i \in 0..CpSize - 1 /\ i \in Steps
      /\ precision \in {"f16", "delayed", "current"} /\ slot \in Ranks
  BY BackwardIs, SlotIs
<1>3. TypeOK /\ Config /\ back' = [back EXCEPT ![r].op = "reduce"]
  BY <1>1 DEF RInv
<1>4. /\ \A q \in Ranks \ {r} : back'[q] = back[q]
      /\ back'[r].op = "reduce" /\ back'[r].step = i
      /\ back' \in [Ranks -> [step : Steps,
                              op : {"forward", "post", "attend", "reduce", "sum", "done"}]]
  <2>1. /\ \A q \in Ranks \ {r} : back'[q] = back[q]
        /\ back'[r].op = "reduce" /\ back'[r].step = i
    BY <1>2, <1>3, BackTyped
  <2>2. back' \in [Ranks -> [step : Steps,
                             op : {"forward", "post", "attend", "reduce", "sum", "done"}]]
    <3> HIDE DEF i
    <3> QED  BY <1>2, <1>3, BackTyped
  <2> QED  BY <2>1, <2>2
<1>5. buf[r][i % 2].kv = Bwd(r, i)
  BY <1>1 DEF RInv, SlicesInPlace, Working
<1>6. new = Correct(dq[r][slot], KeysMet(section, Bwd(r, i)), DqRule(r, i)) /\ new \in Tensors
  <2>1. KeysMet(section, Bwd(r, i)) \in Tensors
    BY <1>2, BwdIs, TilesTyped
  <2>2. dq[r][slot] \in Tensors
    BY <1>2, <1>3 DEF TypeOK
  <2>3. \A h \in Halves : DqRule(r, i)[h] \in {"copy", "add", "none"}
    BY <1>3, RulesTyped
  <2> HIDE DEF slot, section
  <2> QED  BY <1>5, <2>1, <2>2, <2>3, CorrectTyped
<1>7. /\ \A q \in Ranks \ {r} : dq'[q] = dq[q] /\ tile'[q] = tile[q]
      /\ \A s \in Ranks : dq'[r][s] = IF s = slot THEN new ELSE dq[r][s]
      /\ tile'[r] = met
  <2> HIDE DEF new, met, slot
  <2> QED  BY <1>1, <1>2, <1>3 DEF TypeOK
<1>8. TypeOK'
  <2>1. met \in Tensors
    BY TilesTyped
  <2>2. dq' \in [Ranks -> [Ranks -> Tensors]] /\ tile' \in [Ranks -> Tensors]
    <3> HIDE DEF new, met, slot
    <3> QED  BY <1>1, <1>2, <1>3, <1>6, <2>1 DEF TypeOK
  <2> QED  BY <1>1, <1>3, <1>4, <2>2 DEF TypeOK, forwardVars
<1>9. /\ Config' /\ InFlight' /\ Balanced' /\ KeysInPlace' /\ Turns'
      /\ PartsExact' /\ LseExact' /\ OutExact'
      /\ \A q \in Ranks, p \in Passes : Received(q, p)' = Received(q, p)
  <2>1. UNCHANGED config /\ UNCHANGED forwardVars /\ UNCHANGED comm
    BY <1>1
  <2>2. ~Back(r, "forward") /\ ~Back(r, "forward")'
    BY <1>1, <1>4 DEF Back
  <2>3. Posting(r) /\ Posting(r)' /\ back'[r].step = back[r].step
    BY <1>1, <1>4 DEF Posting
  <2>4. Posted(r, "backward")' = Posted(r, "backward")
    BY <1>1, <1>4, <2>1, SameConfig DEF Posted, Back
  <2> QED  BY <1>4, <2>1, <2>2, <2>3, <2>4, BackwardOnly
<1>10. Steady'
  BY <1>4 DEF RInv, Steady, Back
<1>11. DqExact'
  <2> SUFFICES ASSUME NEW q \in Ranks
               PROVE  IF precision = "delayed"
                      THEN \A j \in 0..Attended(q)' - 1 :
                             dq'[q][Bwd(q, j)] = KeysMet(BackwardSection(q, j), Bwd(q, j))
                      ELSE dq'[q][0] = IF Attended(q)' = 0 THEN Unset ELSE DqSum(q, Attended(q)' - 1)
    BY <1>1, SameConfig DEF DqExact, Bwd, config
  <2>1. CASE q # r
    <3>1. Attended(q)' = Attended(q) /\ dq'[q] = dq[q]
      BY <1>4, <1>7, <2>1 DEF Attended
    <3> QED  BY <3>1 DEF RInv, DqExact
  <2>2. CASE q = r
    <3>1. Attended(r) = i /\ Attended(r)' = i + 1 /\ (i + 1) - 1 = i
      BY <1>1, <1>2, <1>4 DEF Attended
    <3>2. CASE precision = "delayed"
      <4>1. new = KeysMet(section, Bwd(r, i))
        <5>1. DqRule(r, i) = PerHalf(Copy)
          BY <3>2 DEF DqRule
        <5>2. DqRule(r, i) = [h \in Halves |-> "copy"]
          BY <5>1, PerHalves
        <5> QED  BY <1>6, <5>2 DEF Correct, KeysMet
      <4>2. slot = Bwd(r, i)
        BY <1>2, <3>2, SlotIs
      <4>3. ASSUME NEW j \in 0..i
            PROVE  dq'[r][Bwd(r, j)] = KeysMet(BackwardSection(r, j), Bwd(r, j))
        <5>1. j \in Steps
          <6> HIDE DEF i
          <6> QED  BY <1>2 DEF Steps
        <5>2. Bwd(r, j) \in Ranks
          BY <5>1, BwdIs
        <5>3. CASE j = i
          BY <1>7, <4>1, <4>2, <5>2, <5>3
        <5>4. CASE j # i
          <6>1. Bwd(r, j) # slot
            BY <1>2, <4>2, <5>1, <5>4, SlotIs
          <6>2. j \in 0..Attended(r) - 1
            <7> HIDE DEF i
            <7> QED  BY <1>2, <3>1, <5>4
          <6> QED  BY <1>7, <3>2, <5>2, <6>1, <6>2 DEF RInv, DqExact
        <5> QED  BY <5>3, <5>4
      <4> QED  BY <2>2, <3>1, <3>2, <4>3
    <3>3. CASE precision # "delayed"
      <4>1. slot = 0
        BY <1>2, <3>3, SlotIs
      <4>2. dq[r][0] = IF i = 0 THEN Unset ELSE DqSum(r, i - 1)
        BY <3>1, <3>3 DEF RInv, DqExact
      <4>3. new = DqSum(r, i)
        BY <1>2, <1>3, <1>6, <3>3, <4>1, <4>2, DqStep
      <4>4. dq'[r][0] = DqSum(r, i)
        BY <1>2, <1>7, <4>1, <4>3
      <4>5. Attended(r)' # 0
        BY <1>2, <3>1
      <4> QED  BY <2>2, <3>1, <3>3, <4>4, <4>5
    <3> QED  BY <3>2, <3>3
  <2> QED  BY <2>1, <2>2
<1>12. TileExact'
  <2> SUFFICES ASSUME NEW q \in Ranks, Back(q, "reduce")'
               PROVE  tile'[q] = QueriesMet(BackwardSection(q, back'[q].step), q)
    BY <1>1, SameConfig DEF TileExact
  <2>1. CASE q # r
    BY <1>4, <1>7, <2>1 DEF RInv, TileExact, Back
  <2>2. CASE q = r
    BY <1>4, <1>7, <2>2
  <2> QED  BY <2>1, <2>2
<1>13. GradExact'
  <2>1. ASSUME NEW q \in Ranks, Back(q, "done")'  PROVE Back(q, "done")
    BY <1>4, <2>1 DEF Back
  <2> QED  BY <1>1, <2>1, SameConfig DEF RInv, GradExact, config
<1>14. SlicesInPlace' /\ DkvExact'
  <2>1. \A q \in Ranks : /\ Working(q)' <=> Working(q)
                         /\ Posting(q)' <=> Posting(q)
                         /\ Back(q, "sum")' <=> Back(q, "sum")
                         /\ back'[q].step = back[q].step
                         /\ Received(q, "backward")' = Received(q, "backward")
    <3> SUFFICES ASSUME NEW q \in Ranks
                 PROVE  /\ Working(q)' <=> Working(q)
                        /\ Posting(q)' <=> Posting(q)
                        /\ Back(q, "sum")' <=> Back(q, "sum")
                        /\ back'[q].step = back[q].step
      BY <1>9 DEF Passes
    <3>1. CASE q # r
      BY <1>4, <3>1 DEF Working, Posting, Back
    <3>2. CASE q = r
      BY <1>1, <1>4, <3>2 DEF Working, Posting, Back
    <3> QED  BY <3>1, <3>2
  <2>2. SlicesInPlace'
    BY <1>1, <2>1 DEF RInv, SlicesInPlace
  <2>3. DkvExact'
    BY <1>1, <2>1, SameConfig DEF RInv, DkvExact, config
  <2> QED  BY <2>2, <2>3
<1> QED
  BY <1>8, <1>9, <1>10, <1>11, <1>12, <1>13, <1>14 DEF RInv

LEMMA ReduceDkvStep ==
  ASSUME RInv, NEW r \in Ranks, ReduceDkv(r)
  PROVE  RInv'
<1> DEFINE i == back[r].step
           b == (i + 1) % 2
           slot == Slot(r, i)
           old == IF precision = "f16" THEN buf[r][b].dkv ELSE dkv[r][slot]
           after == Correct(old, tile[r], DkvRule(r, i))
           next == IF i < CpSize - 1 THEN [step |-> i + 1, op |-> "post"]
                   ELSE [step |-> i, op |-> "sum"]
<1>1. /\ back[r].op = "reduce" /\ comm[r] = <<>>
      /\ IF precision = "f16"
         THEN buf' = [buf EXCEPT ![r][b].dkv = after] /\ UNCHANGED dkv
         ELSE dkv' = [dkv EXCEPT ![r][slot] = after] /\ UNCHANGED buf
      /\ back' = [back EXCEPT ![r] = next]
      /\ UNCHANGED <<config, forwardVars, tile, dq, sendBuf, grad, comm>>
  BY DEF ReduceDkv, Back, DkvReceived
<1>2. /\ CpSize \in Nat \ {0, 1} /\ i \in 0..CpSize - 1 /\ i \in Steps
      /\ i % 2 \in {0, 1} /\ b \in {0, 1} /\ i % 2 # b
      /\ Exchanges("backward") = IF precision = "f16" THEN CpSize ELSE CpSize - 1
      /\ precision \in {"f16", "delayed", "current"} /\ slot \in Ranks
  BY BackwardIs, SlotIs
<1>3. TypeOK /\ Config
  BY DEF RInv
<1>4. /\ \A q \in Ranks \ {r} : back'[q] = back[q]
      /\ i < CpSize - 1 => back'[r].op = "post" /\ back'[r].step = i + 1 /\ i + 1 \in Steps
      /\ ~(i < CpSize - 1) => back'[r].op = "sum" /\ back'[r].step = i /\ i = CpSize - 1
      /\ back' \in [Ranks -> [step : Steps,
                              op : {"forward", "post", "attend", "reduce", "sum", "done"}]]
  <2> HIDE DEF i
  <2>1. /\ i < CpSize - 1 => i + 1 \in Steps
        /\ ~(i < CpSize - 1) => i = CpSize - 1
    BY <1>2 DEF Steps
  <2>2. next \in [step : Steps, op : {"forward", "post", "attend", "reduce", "sum", "done"}]
    BY <1>2, <2>1
  <2>3. /\ i < CpSize - 1 => next.op = "post" /\ next.step = i + 1
        /\ ~(i < CpSize - 1) => next.op = "sum" /\ next.step = i
    OBVIOUS
  <2> HIDE DEF next
  <2>4. /\ \A q \in Ranks \ {r} : back'[q] = back[q]
        /\ back'[r] = next
        /\ back' \in [Ranks -> [step : Steps,
                                op : {"forward", "post", "attend", "reduce", "sum", "done"}]]
    BY <1>1, <1>3, <2>2 DEF TypeOK
  <2> QED  BY <2>1, <2>3, <2>4
<1>5. /\ Posted(r, "backward") = IF i = Exchanges("backward") THEN i ELSE i + 1
      /\ Received(r, "backward") = Posted(r, "backward")
  <2>1. Posted(r, "backward") = IF i = Exchanges("backward") THEN i ELSE i + 1
    BY <1>1 DEF Posted, Back
  <2>2. ~Receiving(r, "backward")
    BY <1>1, NothingFlies DEF Receiving, Passes
  <2>3. Posted(r, "backward") \in Int
    BY <1>2, <2>1
  <2> QED  BY <2>1, <2>2, <2>3 DEF Received
<1>6. precision = "f16" => after = DkvSum(r, i)
  <2> SUFFICES ASSUME precision = "f16"  PROVE after = DkvSum(r, i)
    OBVIOUS
  <2>1. Received(r, "backward") > i /\ Posting(r)
    BY <1>1, <1>2, <1>5 DEF Posting
  <2>2. /\ i = 0 => buf[r][1].dkv = Unset
        /\ i > 0 => buf[r][b].dkv = DkvSum(Giver(r, 1), i - 1)
    BY <2>1 DEF RInv, DkvExact
  <2>3. i = 0 => b = 1
    OBVIOUS
  <2>4. old = IF i = 0 THEN Unset ELSE DkvSum(Giver(r, 1), i - 1)
    BY <1>2, <2>2, <2>3
  <2>5. tile[r] = QueriesMet(BackwardSection(r, i), r)
    BY <1>1 DEF RInv, TileExact, Back
  <2> QED  BY <1>2, <1>3, <2>4, <2>5, DkvStep
<1>7. after \in Tensors
  <2>1. old \in Tensors /\ tile[r] \in Tensors
    <3>1. buf[r][b].dkv \in Tensors
      BY <1>2, <1>3 DEF TypeOK
    <3> HIDE DEF slot, b
    <3> QED  BY <1>2, <1>3, <3>1 DEF TypeOK
  <2>2. \A h \in Halves : DkvRule(r, i)[h] \in {"copy", "add", "none"}
    BY <1>3, RulesTyped
  <2> HIDE DEF old
  <2> QED  BY <2>1, <2>2, CorrectTyped
<1> DEFINE B == [Ranks -> [{0, 1} -> [kv : Ranks \cup {Uninit}, dkv : Tensors]]]
<1>8. /\ buf' \in B /\ dkv' \in [Ranks -> [Ranks -> Tensors]]
      /\ \A q \in Ranks \ {r} : buf'[q] = buf[q]
      /\ \A c \in {0, 1} : buf'[r][c].kv = buf[r][c].kv
      /\ precision = "f16" => buf'[r][b].dkv = after
  <2>1. CASE precision = "f16"
    <3>1. buf' = [buf EXCEPT ![r][b].dkv = after] /\ dkv' = dkv
      BY <1>1, <2>1
    <3>2. buf' \in B
      <4> HIDE DEF after, b
      <4> QED  BY <1>2, <1>3, <1>7, <3>1, BufTyped
    <3>3. /\ \A q \in Ranks \ {r} : buf'[q] = buf[q]
          /\ \A c \in {0, 1} : buf'[r][c].kv = buf[r][c].kv
          /\ buf'[r][b].dkv = after
      <4>1. buf \in B
        BY <1>3 DEF TypeOK
      <4> HIDE DEF after, b
      <4> QED  BY <1>2, <3>1, <4>1
    <3> QED  BY <1>3, <3>1, <3>2, <3>3 DEF TypeOK
  <2>2. CASE precision # "f16"
    <3>1. dkv' = [dkv EXCEPT ![r][slot] = after] /\ buf' = buf
      BY <1>1, <2>2
    <3>2. dkv' \in [Ranks -> [Ranks -> Tensors]]
      <4> HIDE DEF after, slot
      <4> QED  BY <1>2, <1>3, <1>7, <3>1 DEF TypeOK
    <3> QED  BY <1>3, <2>2, <3>1, <3>2 DEF TypeOK
  <2> QED  BY <2>1, <2>2
<1> HIDE DEF after, old, B
<1>9. TypeOK'
  BY <1>1, <1>3, <1>4, <1>8 DEF TypeOK, forwardVars, B
<1>10. /\ Config' /\ InFlight' /\ Balanced' /\ KeysInPlace' /\ Turns'
       /\ PartsExact' /\ LseExact' /\ OutExact'
       /\ \A q \in Ranks, p \in Passes : Received(q, p)' = Received(q, p)
  <2>1. UNCHANGED config /\ UNCHANGED forwardVars /\ UNCHANGED comm
    BY <1>1
  <2>2. ~Back(r, "forward") /\ ~Back(r, "forward")'
    BY <1>1, <1>4 DEF Back
  <2>3. Posted(r, "backward")' = Posted(r, "backward")
    <3>1. Exchanges("backward")' = Exchanges("backward")
      BY <2>1, SameConfig
    <3>2. CASE i < CpSize - 1
      <4>1. Posted(r, "backward")' = i + 1
        BY <1>4, <3>2 DEF Posted, Back
      <4>2. i # Exchanges("backward")
        <5> HIDE DEF i
        <5> QED  BY <1>2, <3>2
      <4> QED  BY <1>5, <4>1, <4>2
    <3>3. CASE ~(i < CpSize - 1)
      <4>1. Posted(r, "backward")' = IF i = Exchanges("backward") THEN i ELSE i + 1
        BY <1>4, <3>1, <3>3 DEF Posted, Back
      <4> QED  BY <1>5, <4>1
    <3> QED  BY <3>2, <3>3
  <2> QED  BY <1>1, <1>4, <2>1, <2>2, <2>3, BackwardOnly
<1>11. \A q \in Ranks : Received(q, "backward")' = Received(q, "backward")
  BY <1>10 DEF Passes
<1>12. Steady'
  BY <1>4 DEF RInv, Steady, Back
<1>13. \A q \in Ranks : Attended(q)' = Attended(q)
  <2> SUFFICES ASSUME NEW q \in Ranks  PROVE Attended(q)' = Attended(q)
    OBVIOUS
  <2>1. CASE q # r
    BY <1>4, <2>1 DEF Attended
  <2>2. CASE q = r
    <3>1. Attended(r) = i + 1
      BY <1>1 DEF Attended
    <3>2. Attended(r)' = i + 1
      BY <1>4 DEF Attended
    <3> QED  BY <2>2, <3>1, <3>2
  <2> QED  BY <2>1, <2>2
<1>14. DqExact'
  BY <1>1, <1>13, SameConfig DEF RInv, DqExact, config
<1>15. TileExact' /\ GradExact'
  <2>1. ASSUME NEW q \in Ranks, NEW op \in {"reduce", "done"}, Back(q, op)'
        PROVE  Back(q, op) /\ back'[q] = back[q]
    BY <1>4, <2>1 DEF Back
  <2>2. TileExact'
    BY <1>1, <2>1, SameConfig DEF RInv, TileExact
  <2>3. GradExact'
    BY <1>1, <2>1, SameConfig DEF RInv, GradExact, config
  <2> QED  BY <2>2, <2>3
<1>16. SlicesInPlace'
  <2> SUFFICES ASSUME NEW q \in Ranks
               PROVE  LET n == back'[q].step IN
                      /\ Working(q)' => buf'[q][n % 2].kv = Bwd(q, n)
                      /\ Posting(q)' /\ n < CpSize - 1 /\ Received(q, "backward")' > n =>
                           buf'[q][(n + 1) % 2].kv = Bwd(q, n + 1)
    BY DEF SlicesInPlace, Bwd
  <2>1. CASE q # r
    BY <1>4, <1>8, <1>11, <2>1 DEF RInv, SlicesInPlace, Working, Posting
  <2>2. CASE q = r /\ i < CpSize - 1
    <3>1. Received(r, "backward") > i
      <4> HIDE DEF i
      <4> QED  BY <1>2, <1>5, <2>2
    <3>2. buf[r][b].kv = Bwd(r, i + 1)
      BY <1>1, <2>2, <3>1 DEF RInv, SlicesInPlace, Posting
    <3>3. back'[r].step % 2 = b /\ back'[r].step = i + 1 /\ ~Posting(r)'
      BY <1>4, <2>2 DEF Posting
    <3> QED  BY <1>2, <1>8, <2>2, <3>2, <3>3
  <2>3. CASE q = r /\ ~(i < CpSize - 1)
    BY <1>4, <2>3 DEF Working, Posting
  <2> QED  BY <2>1, <2>2, <2>3
<1>17. DkvExact'
  <2>0. UNCHANGED config
    BY <1>1
  <2> SUFFICES ASSUME precision = "f16", NEW q \in Ranks
               PROVE  LET n == back'[q].step IN
                      /\ n = 0 => buf'[q][1].dkv = Unset
                      /\ Working(q)' /\ n > 0 => buf'[q][n % 2].dkv = DkvSum(q, n - 1)
                      /\ Posting(q)' /\ n > 0 /\ Received(q, "backward")' > n =>
                           buf'[q][(n + 1) % 2].dkv = DkvSum(Giver(q, 1), n - 1)
                      /\ Back(q, "sum")' => buf'[q][CpSize % 2].dkv = DkvSum(q, CpSize - 1)
    BY <2>0, SameConfig DEF DkvExact, Giver, config
  <2>1. CASE q # r
    BY <1>4, <1>8, <1>11, <2>1 DEF RInv, DkvExact, Working, Posting, Back
  <2>2. CASE q = r /\ i < CpSize - 1
    <3>1. /\ back'[r].step = i + 1 /\ i + 1 # 0 /\ (i + 1) - 1 = i /\ back'[r].step % 2 = b
          /\ ~Posting(r)' /\ ~Back(r, "sum")'
      BY <1>2, <1>4, <2>2 DEF Posting, Back
    <3> HIDE DEF i, b
    <3> QED  BY <1>6, <1>8, <2>2, <3>1
  <2>3. CASE q = r /\ ~(i < CpSize - 1)
    <3>1. back'[r].step = i /\ i = CpSize - 1 /\ i # 0 /\ ~Working(r)' /\ ~Posting(r)'
      BY <1>2, <1>4, <2>3 DEF Working, Posting
    <3>2. b = CpSize % 2
      <4>1. i + 1 = CpSize
        BY <1>2, <3>1
      <4> QED  BY <4>1
    <3> HIDE DEF i, b
    <3> QED  BY <1>6, <1>8, <2>3, <3>1, <3>2
  <2> QED  BY <2>1, <2>2, <2>3
<1> QED
  BY <1>9, <1>10, <1>12, <1>14, <1>15, <1>16, <1>17 DEF RInv

LEMMA SumUpStep ==
  ASSUME RInv, NEW r \in Ranks, SumUp(r)
  PROVE  RInv'
<1> DEFINE new == CASE precision = "f16" ->
                         [dq |-> dq[r][0], dkv |-> buf[r][CpSize % 2].dkv]
                    [] precision = "delayed" ->
                         [dq |-> SlotSum(dq[r]), dkv |-> SlotSum(dkv[r])]
                    [] precision = "current" -> [dq |-> dq[r][0], dkv |-> dkv[r][0]]
           i == back[r].step
<1>1. /\ back[r].op = "sum" /\ back' = [back EXCEPT ![r].op = "done"]
      /\ grad' = [grad EXCEPT ![r] = new]
      /\ UNCHANGED <<config, forwardVars, buf, tile, dq, dkv, sendBuf, comm>>
  BY DEF SumUp, Back, BackTo
<1>2. /\ CpSize \in Nat \ {0, 1} /\ i = CpSize - 1 /\ i \in Steps /\ 0 \in Ranks
      /\ precision \in {"f16", "delayed", "current"} /\ CpSize % 2 \in {0, 1}
  BY <1>1, BackwardIs DEF RInv, Steady, Back, Ranks
<1>3. TypeOK /\ Config /\ back' = [back EXCEPT ![r].op = "done"] /\ back[r].step \in Steps
  BY <1>1, <1>2 DEF RInv
<1>4. /\ \A q \in Ranks \ {r} : back'[q] = back[q]
      /\ back'[r].op = "done" /\ back'[r].step = i
      /\ back' \in [Ranks -> [step : Steps,
                              op : {"forward", "post", "attend", "reduce", "sum", "done"}]]
  <2>1. /\ \A q \in Ranks \ {r} : back'[q] = back[q]
        /\ back'[r].op = "done" /\ back'[r].step = i
    BY <1>3, BackTyped
  <2>2. back' \in [Ranks -> [step : Steps,
                             op : {"forward", "post", "attend", "reduce", "sum", "done"}]]
    BY <1>3, BackTyped
  <2> QED  BY <2>1, <2>2
<1>5. comm[r] = <<>>
  BY <1>1 DEF RInv, InFlight, Back
<1>6. Attended(r) = CpSize /\ CpSize - 1 \in Steps
  BY <1>1, <1>2 DEF Attended
<1>7. new \in [dq : Tensors, dkv : Tensors]
  <2>1. /\ dq[r] \in [Ranks -> Tensors] /\ dkv[r] \in [Ranks -> Tensors]
        /\ buf[r][CpSize % 2].dkv \in Tensors
    BY <1>2, <1>3 DEF TypeOK
  <2>2. SlotSum(dq[r]) \in Tensors /\ SlotSum(dkv[r]) \in Tensors
    BY <2>1, SlotSumTyped
  <2> QED  BY <1>2, <2>1, <2>2
<1>8. new.dq = [h \in Halves |-> KeysOf(Chunk(r, h))]
  <2>1. CASE precision = "delayed"
    <3>1. ASSUME NEW s \in Ranks
          PROVE  dq[r][s] = [h \in Halves |-> KeysFrom(Chunk(r, h), {s})]
      <4>1. PICK j \in 0..CpSize - 1 : s = Bwd(r, j)
        BY BwdSlicesStep DEF BwdSlices
      <4>2. dq[r][Bwd(r, j)] = KeysMet(BackwardSection(r, j), Bwd(r, j))
        BY <1>6, <2>1 DEF RInv, DqExact
      <4>3. BackwardSection(r, j) = Section(r, s)
        BY <4>1, SectionOfStep DEF Steps
      <4> QED  BY <1>3, <4>1, <4>2, <4>3, TileMeets DEF Config
    <3>2. DOMAIN dq[r] = Ranks
      BY <1>3 DEF TypeOK
    <3>3. SlotSum(dq[r]) = [h \in Halves |-> KeysOf(Chunk(r, h))]
      <4> DEFINE f == dq[r]
      <4>1. DOMAIN f = Ranks
        BY <3>2
      <4>2. SlotSum(f) = [h \in Halves |-> SumOver(f, Ranks, h)]
        <5> HIDE DEF f
        <5> QED  BY <4>1, SlotSumIs
      <4>3. \A h \in Halves : SumOver(f, Ranks, h) = KeysOf(Chunk(r, h))
        <5>1. \A s \in Ranks, h \in Halves : f[s][h] = KeysFrom(Chunk(r, h), {s})
          BY <3>1
        <5> HIDE DEF f
        <5>2. r \in Ranks
          OBVIOUS
        <5>3. ASSUME NEW h \in Halves  PROVE \A s \in Ranks : f[s][h] = KeysFrom(Chunk(r, h), {s})
          BY <5>1
        <5>4. ASSUME NEW h \in Halves  PROVE SumOver(f, Ranks, h) = KeysOf(Chunk(r, h))
          BY <4>1, <5>2, <5>3, SlotsExact
        <5> QED  BY <5>4
      <4> QED  BY <4>2, <4>3
    <3> QED  BY <2>1, <3>3
  <2>2. CASE precision # "delayed"
    <3>1. dq[r][0] = DqSum(r, CpSize - 1)
      BY <1>2, <1>6, <2>2 DEF RInv, DqExact
    <3>2. dq[r][0] = [h \in Halves |-> KeysOf(Chunk(r, h))]
      BY <3>1, DqSumAll
    <3> QED  BY <1>2, <2>2, <3>2
  <2> QED  BY <2>1, <2>2
<1>9. precision = "f16" => new.dkv = [h \in Halves |-> QueriesOf(Chunk(r, h))]
  <2> SUFFICES ASSUME precision = "f16"
               PROVE  new.dkv = [h \in Halves |-> QueriesOf(Chunk(r, h))]
    OBVIOUS
  <2>1. buf[r][CpSize % 2].dkv = DkvSum(r, CpSize - 1)
    BY <1>1 DEF RInv, DkvExact, Back
  <2> QED  BY <2>1, DqSumAll
<1> HIDE DEF new
<1>10. /\ grad' \in [Ranks -> [dq : Tensors, dkv : Tensors]] /\ grad'[r] = new
       /\ \A q \in Ranks \ {r} : grad'[q] = grad[q]
  BY <1>1, <1>3, <1>7 DEF TypeOK
<1>11. TypeOK'
  BY <1>1, <1>3, <1>4, <1>10 DEF TypeOK, forwardVars
<1>12. /\ Config' /\ InFlight' /\ Balanced' /\ KeysInPlace' /\ Turns'
       /\ PartsExact' /\ LseExact' /\ OutExact'
       /\ \A q \in Ranks, p \in Passes : Received(q, p)' = Received(q, p)
  <2>1. UNCHANGED config /\ UNCHANGED forwardVars /\ UNCHANGED comm
    BY <1>1
  <2>2. ~Back(r, "forward") /\ ~Back(r, "forward")'
    BY <1>1, <1>4 DEF Back
  <2>3. Posted(r, "backward")' = Posted(r, "backward")
    BY <1>1, <1>4, <2>1, SameConfig DEF Posted, Back
  <2> QED  BY <1>4, <1>5, <2>1, <2>2, <2>3, BackwardOnly
<1>13. Steady'
  BY <1>2, <1>4 DEF RInv, Steady, Back
<1>14. \A q \in Ranks : Attended(q)' = Attended(q)
  <2> SUFFICES ASSUME NEW q \in Ranks  PROVE Attended(q)' = Attended(q)
    OBVIOUS
  <2>1. CASE q # r
    BY <1>4, <2>1 DEF Attended
  <2>2. CASE q = r
    BY <1>1, <1>4, <2>2 DEF Attended
  <2> QED  BY <2>1, <2>2
<1>15. DqExact'
  BY <1>1, <1>14, SameConfig DEF RInv, DqExact, config
<1>16. TileExact'
  <2>1. ASSUME NEW q \in Ranks, Back(q, "reduce")'  PROVE Back(q, "reduce") /\ back'[q] = back[q]
    BY <1>4, <2>1 DEF Back
  <2> QED  BY <1>1, <2>1, SameConfig DEF RInv, TileExact
<1>17. GradExact'
  <2> SUFFICES ASSUME NEW q \in Ranks, Back(q, "done")'
               PROVE  /\ grad'[q].dq = [h \in Halves |-> KeysOf(Chunk(q, h))]
                      /\ precision = "f16" =>
                           grad'[q].dkv = [h \in Halves |-> QueriesOf(Chunk(q, h))]
    BY <1>1, SameConfig DEF GradExact, config
  <2>1. CASE q = r
    BY <1>8, <1>9, <1>10, <2>1
  <2>2. CASE q # r
    BY <1>4, <1>10, <2>2, ZenonT(60) DEF RInv, GradExact, Back
  <2> QED  BY <2>1, <2>2
<1>18. SlicesInPlace' /\ DkvExact'
  <2>1. ASSUME NEW q \in Ranks
        PROVE  /\ Working(q)' <=> Working(q)
               /\ Posting(q)' <=> Posting(q)
               /\ Back(q, "sum")' => Back(q, "sum")
               /\ back'[q].step = back[q].step
               /\ Received(q, "backward")' = Received(q, "backward")
    <3>1. CASE q # r
      BY <1>4, <1>12, <3>1 DEF Working, Posting, Back, Passes
    <3>2. CASE q = r
      BY <1>1, <1>4, <1>12, <3>2 DEF Working, Posting, Back, Passes
    <3> QED  BY <3>1, <3>2
  <2>2. SlicesInPlace'
    BY <1>1, <2>1 DEF RInv, SlicesInPlace
  <2>3. DkvExact'
    BY <1>1, <2>1, SameConfig DEF RInv, DkvExact, config
  <2> QED  BY <2>2, <2>3
<1> QED
  BY <1>11, <1>12, <1>13, <1>15, <1>16, <1>17, <1>18 DEF RInv

-----------------------------------------------------------------------------
(* Every reachable state                                                      *)

LEMMA InitInv ==
  ASSUME Init  PROVE RInv
<1>1. CpSize \in Nat \ {0, 1} /\ 0 \in Ranks /\ 0 \in Steps /\ 0 \in 0..CpSize
      /\ {0, 1} \subseteq 0..CpSize + 1
  BY RingAssumption DEF Ranks, Steps
<1>2. Config
  BY RingAssumption DEF Init, Config
<1>3. Unset \in Tensors /\ Zero \in Tensors
  BY DEF Unset, Zero, Tensors
<1>4. /\ \A r \in Ranks : comm[r] = <<>> /\ posted[r] = 0 /\ corrected[r] = 0
                          /\ Back(r, "forward") /\ back[r].step = 0
      /\ DOMAIN comm = Ranks
  BY DEF Init, Back
<1>5. \A r \in Ranks, s \in Streams : at[r][s].step = s /\ at[r][s].op = "start"
  BY DEF Init
<1>6. TypeOK
  <2>1. at \in [Ranks -> [Streams -> [step : 0..CpSize + 1, op : {"start", "attend", "correct"}]]]
    BY <1>1 DEF Init, Streams
  <2>2. posted \in [Ranks -> Steps] /\ corrected \in [Ranks -> 0..CpSize]
    BY <1>1 DEF Init
  <2>3. kv \in [Ranks -> [Steps -> Ranks \cup {Uninit}]]
    BY DEF Init
  <2>4. /\ part \in [Ranks -> [Steps -> Tensors]]
        /\ lse \in [Ranks -> Tensors] /\ out \in [Ranks -> Tensors]
    BY <1>3 DEF Init
  <2>5. back \in [Ranks -> [step : Steps,
                            op : {"forward", "post", "attend", "reduce", "sum", "done"}]]
    BY <1>1 DEF Init
  <2>6. /\ buf \in [Ranks -> [{0, 1} -> [kv : Ranks \cup {Uninit}, dkv : Tensors]]]
        /\ tile \in [Ranks -> Tensors] /\ dq \in [Ranks -> [Ranks -> Tensors]]
        /\ sendBuf \in [Ranks -> [Ranks -> Tensors]]
        /\ grad \in [Ranks -> [dq : Tensors, dkv : Tensors]]
    BY <1>3 DEF Init
  <2>7. dkv \in [Ranks -> [Ranks -> Tensors]]
    BY <1>3 DEF Init
  <2>8. \A r \in Ranks : comm[r] \in Seq((SUBSET P2POps) \ {{}}) /\ Len(comm[r]) <= 2
    <3> DEFINE A == (SUBSET P2POps) \ {{}}
    <3> HIDE DEF A
    <3>1. <<>> \in Seq(A) /\ Len(<<>>) <= 2
      OBVIOUS
    <3>2. \A r \in Ranks : comm[r] \in Seq(A) /\ Len(comm[r]) <= 2
      BY <1>4, <3>1
    <3> QED  BY <3>2 DEF A
  <2> QED  BY <2>1, <2>2, <2>3, <2>4, <2>5, <2>6, <2>7, <2>8 DEF TypeOK
<1>7. \A r \in Ranks, p \in Passes :
        Posted(r, p) = 0 /\ Sent(r, p) = 0 /\ Received(r, p) = 0
  <2> SUFFICES ASSUME NEW r \in Ranks, NEW p \in Passes
               PROVE  Posted(r, p) = 0 /\ Sent(r, p) = 0 /\ Received(r, p) = 0
    OBVIOUS
  <2>1. Posted(r, p) = 0
    BY <1>4 DEF Posted
  <2>2. ~Sending(r, p) /\ ~Receiving(r, p)
    BY <1>4, NothingFlies DEF Sending, Receiving, Passes
  <2>3. Sent(r, p) = 0 - 0 /\ Received(r, p) = 0 - 0
    BY <2>1, <2>2 DEF Sent, Received
  <2> QED  BY <2>1, <2>3
<1>8. InFlight
  BY <1>4 DEF InFlight
<1>9. Balanced
  BY <1>7, DestinationIs DEF Balanced
<1>10. Turns
  <2> SUFFICES ASSUME NEW r \in Ranks  PROVE TurnOf(r)
    BY DEF Turns
  <2>1. 0 \in Streams /\ 1 - 0 = 1 /\ 1 \in Streams
    BY DEF Streams
  <2>2. \A s \in Streams : ~Started(r, s)
    BY <1>5 DEF Started
  <2> QED  BY <1>1, <1>4, <1>5, <2>1, <2>2 DEF TurnOf
<1>11. KeysInPlace
  <2> SUFFICES ASSUME NEW r \in Ranks, NEW j \in Steps, j <= Received(r, "forward")
               PROVE  kv[r][j] = Fwd(r, j)
    BY DEF KeysInPlace
  <2>1. j = 0
    BY <1>1, <1>7 DEF Steps, Passes
  <2>2. kv[r][0] = r
    BY <1>1 DEF Init
  <2> QED  BY <2>1, <2>2, FwdSlicesStep
<1>12. PartsExact /\ LseExact /\ OutExact
  <2>1. PartsExact
    <3> SUFFICES ASSUME NEW r \in Ranks, NEW j \in Steps,
                        j < corrected[r] \/ (\E s \in Streams :
                          at[r][s].step = j /\ at[r][s].op = "correct")
                 PROVE  FALSE
      BY DEF PartsExact
    <3> QED  BY <1>1, <1>4, <1>5 DEF Steps
  <2>2. LseExact /\ OutExact
    BY <1>4 DEF LseExact, OutExact, Init
  <2> QED  BY <2>1, <2>2
<1>13. \A r \in Ranks : Attended(r) = 0 /\ ~Working(r) /\ ~Posting(r)
  BY <1>4 DEF Attended, Working, Posting, Back
<1>14. Steady /\ SlicesInPlace /\ TileExact /\ GradExact
  BY <1>4, <1>13 DEF Steady, SlicesInPlace, TileExact, GradExact, Back
<1>15. DqExact
  <2>1. \A r \in Ranks : dq[r][0] = Unset
    BY <1>1 DEF Init
  <2> QED  BY <1>13, <2>1 DEF DqExact
<1>16. DkvExact
  <2>1. \A r \in Ranks : buf[r][1].dkv = Unset
    BY DEF Init
  <2> QED  BY <1>4, <1>13, <2>1 DEF DkvExact, Back
<1> QED
  BY <1>2, <1>6, <1>8, <1>9, <1>10, <1>11, <1>12, <1>14, <1>15, <1>16 DEF RInv

LEMMA StutterStep ==
  ASSUME RInv, UNCHANGED vars  PROVE RInv'
<1>1. /\ UNCHANGED config /\ UNCHANGED comm
      /\ UNCHANGED <<at, posted, kv, part, corrected, lse, out>>
      /\ UNCHANGED <<back, buf, tile, dq, dkv, sendBuf, grad>>
  BY DEF vars, forwardVars, backwardVars
<1>2. ASSUME NEW r \in Ranks, NEW p \in Passes
      PROVE  Sent(r, p)' = Sent(r, p) /\ Received(r, p)' = Received(r, p)
  BY <1>1, SameConfig DEF Sent, Received, Sending, Receiving, Posted, Back
<1>3. TypeOK'
  BY <1>1 DEF RInv, TypeOK
<1>4. Config' /\ InFlight'
  BY <1>1, SameConfig DEF RInv, InFlight, Back
<1>5. Balanced' /\ KeysInPlace'
  BY <1>1, <1>2, ExchangesFrame DEF RInv
<1>6. Turns'
  <2> SUFFICES ASSUME NEW r \in Ranks  PROVE TurnOf(r)'
    BY DEF Turns
  <2>1. TurnOf(r) /\ Received(r, "forward")' = Received(r, "forward")
    BY <1>2 DEF RInv, Turns, Passes
  <2> QED  BY <1>1, <2>1 DEF TurnOf, Started, Back
<1>7. PartsExact' /\ LseExact' /\ OutExact'
  BY <1>1, ForwardFrame DEF RInv, Back
<1>8. Steady' /\ DqExact' /\ TileExact' /\ GradExact'
  BY <1>1, BackwardFrame DEF RInv
<1>9. SlicesInPlace' /\ DkvExact'
  BY <1>1, <1>2, BuffersFrame DEF RInv
<1> QED
  BY <1>3, <1>4, <1>5, <1>6, <1>7, <1>8, <1>9 DEF RInv

LEMMA RingInvariant == Spec => []RInv
<1>1. Init => RInv
  BY InitInv
<1>2. RInv /\ [Next]_vars => RInv'
  <2> SUFFICES ASSUME RInv, [Next]_vars  PROVE RInv'
    OBVIOUS
  <2>1. CASE AllToAll
    BY <2>1, AllToAllStep
  <2>2. CASE \E r \in Ranks : Transfer(r)
    BY <2>2, TransferStep
  <2>3. ASSUME NEW r \in Ranks, NEW s \in Streams,
               StartStep(r, s) \/ Attend(r, s) \/ CorrectLse(r, s)
        PROVE  RInv'
    BY <2>3, StartStepStep, AttendStep, CorrectLseStep
  <2>4. ASSUME NEW r \in Ranks,
               Combine(r) \/ PostExchange(r) \/ AttendBackward(r) \/ ReduceDkv(r) \/ SumUp(r)
        PROVE  RInv'
    BY <2>4, CombineStep, PostExchangeStep, AttendBackwardStep, ReduceDkvStep, SumUpStep
  <2>5. CASE UNCHANGED vars
    BY <2>5, StutterStep
  <2> QED
    BY <2>1, <2>2, <2>3, <2>4, <2>5 DEF Next, Communicate, Compute
<1> QED
  BY <1>1, <1>2, PTL DEF Spec

\* Types, for every number of ranks; a rank never has more than one exchange in flight.
THEOREM RingTypes == Spec => []TypeOK
<1>1. RInv => TypeOK
  BY DEF RInv
<1> QED
  BY <1>1, RingInvariant, PTL

\* For every number of ranks, the forward returns the output and the softmax statistics
\* of exactly the keys each query attends to, each once, in every order of the streams
\* and of the transfers.
THEOREM ForwardExact == Spec => []AttentionExact
<1>1. RInv => AttentionExact
  <2> SUFFICES ASSUME RInv, NEW r \in Ranks, NEW h \in Halves, ~Back(r, "forward")
               PROVE  out[r][h] = KeysOf(Chunk(r, h)) /\ lse[r][h] = KeysOf(Chunk(r, h))
    BY DEF AttentionExact
  <2>1. out[r] = [x \in Halves |-> KeysOf(Chunk(r, x))]
    BY DEF RInv, OutExact
  <2>2. corrected[r] = CpSize /\ CpSize # 0
    BY RingAssumption DEF RInv, Turns, TurnOf
  <2>3. lse[r] = [x \in Halves |-> KeysOf(Chunk(r, x))]
    BY <2>2, FwdSumAll DEF RInv, LseExact
  <2> QED  BY <2>1, <2>3
<1> QED
  BY <1>1, RingInvariant, PTL

\* For every number of ranks and every precision, the gradient of a rank's queries gathers
\* every key chunk they attended to, once.
THEOREM QueryGradientsExact == Spec => []QueryGradients
<1>1. RInv => QueryGradients
  BY DEF RInv, GradExact, QueryGradients
<1> QED
  BY <1>1, RingInvariant, PTL

\* For every number of ranks, in f16 the gradient that travels the whole ring comes back to
\* the owner of its keys with the part of every query chunk that attended to them, once.
THEOREM KeyGradientsExact == Spec => []KeyGradients
<1>1. RInv => KeyGradients
  BY DEF RInv, GradExact, KeyGradients
<1> QED
  BY <1>1, RingInvariant, PTL
=============================================================================
