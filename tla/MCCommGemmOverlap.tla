-------------------------- MODULE MCCommGemmOverlap --------------------------
(***************************************************************************)
(* CommGemmOverlap for TLC: group sizes, streams and sequences of calls as *)
(* in the layers of a transformer, where a reduce-scatter, or the gather   *)
(* of the next layer, follows every all-gather.                            *)
(***************************************************************************)
EXTENDS CommGemmOverlap

Config(tp, streams, useCE, sms, calls) ==
  [tp |-> tp, streams |-> streams, useCE |-> useCE, sms |-> sms, calls |-> calls]

Layer == <<"all_gather", "reduce_scatter">>
Backward == <<"all_gather", "external", "reduce_scatter">>

MCConfigs ==
  {Config(2, 2, FALSE, 1, Layer \o Layer), Config(2, 1, TRUE, 1, Layer \o Layer),
   Config(2, 1, TRUE, 1, Backward),
   Config(3, 2, FALSE, 1, Layer),
   Config(4, 2, FALSE, 1, <<"aggregate">>)}

\* Send kernels of two blocks: because num_sm says so, or in the external gather.
MultiBlock == {Config(2, 2, FALSE, 2, Layer), Config(2, 2, FALSE, 1, Backward)}
=============================================================================
