------------------------------ MODULE AmaxWindow ------------------------------
(***************************************************************************)
(* What delayed scaling promises for a set of tensors, whatever happens in *)
(* the program: every tensor has a sliding window of its most recent       *)
(* amaxes, newest first, and a scale.  Observations accumulate in the      *)
(* current amax; an update of a tensor recomputes the scale from the       *)
(* window that includes it, and ages the window by exactly one.  Nothing   *)
(* else ever changes a scale, and no amax is lost before it has aged out   *)
(* ("record amax history of amax_history_len steps",                       *)
(* common/recipe/__init__.py:176).  The two update paths differ in what is *)
(* a step of the history: one in which the tensor has a fresh amax         *)
(* (fused), or any reduction it takes part in (unfused).                   *)
(***************************************************************************)
EXTENDS Naturals

CONSTANTS Tensors, Window (* at least 1 *), MostRecent, Obs, Overflow,
          IdleAges  \* does a tensor age without a fresh amax, too?

VARIABLES
  current,   \* the amax observed since the last update
  past,      \* the amaxes of the Window - 1 updates before, newest first
  scale

wvars == <<current, past, scale>>

Ages == 1..Window - 1

Init ==
  /\ current = [t \in Tensors |-> {}]
  /\ past = [t \in Tensors |-> [i \in Ages |-> {}]]
  /\ scale = [t \in Tensors |-> {}]

WindowMax(t) ==
  IF MostRecent THEN current[t]
  ELSE current[t] \cup UNION {past[t][i] : i \in Ages}

Observe(t) ==
  \E o \in Obs :
    /\ current' = [current EXCEPT ![t] = @ \cup {o}]
    /\ UNCHANGED <<past, scale>>

Aged(t) == [i \in Ages |-> IF i = 1 THEN current[t] ELSE past[t][i - 1]]

\* One reduction updates any set of tensors, those with a fresh amax only
\* unless idle ones age.  A window with no amax, or one that overflowed, says
\* nothing of the scale.
Update ==
  \E S \in SUBSET {t \in Tensors : IdleAges \/ current[t] # {}} :
    /\ current' = [t \in Tensors |-> IF t \in S THEN {} ELSE current[t]]
    /\ past' = [t \in Tensors |-> IF t \in S THEN Aged(t) ELSE past[t]]
    /\ scale' = [t \in Tensors |->
         IF t \in S /\ WindowMax(t) # {} /\ WindowMax(t) \cap Overflow = {}
         THEN WindowMax(t) ELSE scale[t]]

Next == (\E t \in Tensors : Observe(t)) \/ Update

Spec == Init /\ [][Next]_wvars
=============================================================================
