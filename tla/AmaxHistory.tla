----------------------------- MODULE AmaxHistory -----------------------------
(***************************************************************************)
(* The amax history and scale of one delayed-scaling tensor, and the       *)
(* update that runs at the end of an autocast region or of a backward      *)
(* pass: the fused kernel of common/recipe/delayed_scaling.cu and the      *)
(* unfused Python path of pytorch/quantization.py.                         *)
(*                                                                         *)
(* Abstraction.  An amax is the maximum over the values of the tensors it  *)
(* was taken from, and all the code does with it is to take maxima, to     *)
(* test it for 0 and for finiteness and to divide by it.  We represent it  *)
(* by the SET of observations it is the maximum of: the maximum of two     *)
(* amaxes is the union, 0 is the empty set, and an amax is infinite when   *)
(* it contains an observation of Overflow.  A scale is represented by the  *)
(* amax it was computed from; {} is the initial scale, 1.0.                *)
(***************************************************************************)
EXTENDS Naturals

CONSTANTS
  HistoryLen,  \* recipe.amax_history_len, at least 1
  MostRecent,  \* TRUE: amax_compute_algo = "most_recent"; FALSE: "max"
  Fused,       \* TRUE: fused CUDA kernel; FALSE: NVTE_UNFUSED_FP8_UPDATE=1
  Obs,         \* the amax observations (of nonzero tensors)
  Overflow     \* the observations with an Inf or NaN amax

Rows == 1..HistoryLen
Amax == SUBSET Obs

\* scale and amax_history of a DelayedScalingRecipeState, one column of each.
\* Row 1 (amax_history[0]) is the slot the quantization kernels write.
Tensor == [hist : [Rows -> Amax], scale : Amax]

FreshTensor == [hist |-> [i \in Rows |-> {}], scale |-> {}]

\* A quantization kernel takes the maximum into row 0 (atomicMaxFloat).
Record(t, o) == [t EXCEPT !.hist[1] = @ \cup {o}]

\* Mutant: row 0 is zeroed before the roll, so the newest amax is lost.
BugZeroFirst(h) ==
  [i \in Rows |-> IF i = 1 \/ i = HistoryLen THEN {} ELSE h[i + 1]]

\* torch.roll(amax_history, -1, 0) and zeroing of row 0.
UpdateAmaxHistory(h) ==
  [i \in Rows |-> IF i = 1 THEN {}
                  ELSE IF i = HistoryLen THEN h[1] ELSE h[i + 1]]

\* The amax the scale is computed from, taken BEFORE the roll.
AmaxOf(h) == IF MostRecent THEN h[1] ELSE UNION {h[i] : i \in Rows}

\* Zero or non-finite amax: keep the previous scale.
ScalingFactor(amax, scale) ==
  IF amax # {} /\ amax \cap Overflow = {} THEN amax ELSE scale

\* The fused kernel leaves a tensor alone whose current amax is 0; the Python
\* path rolls every history, so that a row without an amax enters it.
AmaxAndScaleUpdate(t) ==
  IF Fused /\ t.hist[1] = {}
  THEN t
  ELSE [hist  |-> UpdateAmaxHistory(t.hist),
        scale |-> ScalingFactor(AmaxOf(t.hist), t.scale)]
=============================================================================
