---------------------------- MODULE MCCpuOffload -----------------------------
(***************************************************************************)
(* CpuOffload for TLC: the arguments of get_cpu_offload_context, and the   *)
(* tensors a layer saves.                                                  *)
(***************************************************************************)
EXTENDS CpuOffload

\* Tensor 1 is saved twice; tensor 2 is one that _check_if_offload may refuse.
MCSaves == <<1, 2, 1, 3>>

\* A default schedule for two passes.
Default(n, m, r) ==
  [mode |-> "default", modelLayers |-> n, numLayers |-> m, retain |-> r, passes |-> 2]

\* A manual one: num_layers is ignored.
Manual(n, p, r) ==
  [mode |-> "manual", modelLayers |-> n, numLayers |-> 1, retain |-> r, passes |-> p]

MCConfigs ==
  {Default(n, m, r) : n \in {3}, m \in {1, 2}, r \in BOOLEAN}
    \cup {Default(4, 2, FALSE), Manual(2, 1, FALSE), Manual(1, 2, TRUE)}
=============================================================================
