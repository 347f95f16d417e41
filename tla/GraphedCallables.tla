-------------------------- MODULE GraphedCallables --------------------------
(***************************************************************************)
(* Callables captured as CUDA graphs along a pipeline schedule             *)
(* (make_graphed_callables with _order in graph.py).  A graph reads and    *)
(* writes at fixed addresses: static inputs and grad outputs, which        *)
(* microbatches may share, and memory of one pool, which goes to later     *)
(* captures as soon as nothing refers to it.  Only the order of the        *)
(* replays keeps a value from being overwritten before it is read.         *)
(*                                                                         *)
(* The allocator is the worst one: what a tensor of the pool contains is   *)
(* lost whenever a graph is replayed that was captured while no one held   *)
(* that tensor.  A value is the microbatch it belongs to.                  *)
(***************************************************************************)
EXTENDS Integers, Sequences, FiniteSets, SequencesExt

CONSTANTS
  Configs,   \* records: order, layers (_num_layers_per_chunk), shape of each chunk's
             \* tensors, reuse (_reuse_graph_input_output_buffers), delay (of wgrad)
  Iterations \* training iterations replayed (bound)

Passes == {"fwd", "bwd", "dw"}
Pass(p, k) == [pass |-> p, chunk |-> k]

ChunksOf(c) == DOMAIN c.layers
\* How often pass p comes from one position to another.
Occurrences(order, p, from, to) == Cardinality({x \in from..to : order[x] = p})
MicrobatchesOf(c) == Occurrences(c.order, Pass("fwd", 1), 1, Len(c.order))

ASSUME IterationsAssumption == Iterations \in Nat \ {0}
\* As many forwards and as many backwards of every chunk, each backward after its forward,
\* a wgrad after some backward of its chunk; with delayed wgrads, one layer to a chunk.
ASSUME ConfigsAssumption == \A c \in Configs :
  /\ c.layers \in Seq(Nat \ {0}) /\ DOMAIN c.shape = DOMAIN c.layers
  /\ c.order \in Seq([pass : Passes, chunk : ChunksOf(c)]) /\ c.order # <<>>
  /\ \A k \in ChunksOf(c) : \A p \in {"fwd", "bwd"} :
       Occurrences(c.order, Pass(p, k), 1, Len(c.order)) = MicrobatchesOf(c)
  /\ \A x \in DOMAIN c.order : \A k \in ChunksOf(c) :
       LET before(p) == Occurrences(c.order, Pass(p, k), 1, x - 1)
       IN /\ c.order[x] = Pass("bwd", k) => before("bwd") < before("fwd")
          /\ c.order[x] = Pass("dw", k) => before("bwd") > 0
  /\ c.reuse \in BOOLEAN /\ c.delay \in BOOLEAN
  /\ c.delay => \A k \in ChunksOf(c) : c.layers[k] = 1

\* per_callable_fwd_idx and per_callable_bwd_idx: chunk, microbatch and layer.
CallablesOf(c) ==
  UNION {{<<k, m, l>> : m \in 0..MicrobatchesOf(c) - 1, l \in 1..c.layers[k]} : k \in ChunksOf(c)}
Tensors(c) == {"out", "saved", "gin"} \X CallablesOf(c)

-----------------------------------------------------------------------------
(* Which static inputs each callable gets.                                    *)

\* A forward takes the inputs of samples of the same shape whose backwards are over, one
\* for each layer as long as there are some.
TakeSamples(c, s, k) ==
  LET m == s.fwdIdx[k]
      free == s.consumed[c.shape[k]]
      n == IF Len(free) < c.layers[k] THEN Len(free) ELSE c.layers[k]
  IN [s EXCEPT !.queue[k] = Append(@, m),
               !.consumed[c.shape[k]] = SubSeq(free, n + 1, Len(free)),
               !.fwdIdx[k] = m + 1,
               !.sample = [i \in CallablesOf(c) |->
                             IF i[1] = k /\ i[2] = m /\ i[3] <= n THEN s.sample[free[i[3]]]
                             ELSE s.sample[i]]]

\* The samples of a microbatch, by layer.
SamplesOf(c, k, m) == [l \in 1..c.layers[k] |-> <<k, m, l>>]

BugNewest(c, s, k) ==
  LET q == s.queue[k]
  IN [s EXCEPT !.consumed[c.shape[k]] = @ \o SamplesOf(c, k, Last(q)), !.queue[k] = Front(q)]

BugConsumeNone(c, s, k) == [s EXCEPT !.queue[k] = Tail(@)]

\* A backward gives back the samples of the oldest forward of the chunk.
Consume(c, s, k) ==
  LET q == s.queue[k]
  IN [s EXCEPT !.consumed[c.shape[k]] = @ \o SamplesOf(c, k, Head(q)), !.queue[k] = Tail(q)]

ReorganizeStep(c, s, p) ==
  CASE p.pass = "fwd" -> TakeSamples(c, s, p.chunk)
    [] p.pass = "bwd" -> Consume(c, s, p.chunk)
    [] p.pass = "dw" -> s

OwnSamples(c) ==
  [queue |-> [k \in ChunksOf(c) |-> <<>>],
   consumed |-> [key \in {c.shape[k] : k \in ChunksOf(c)} |-> <<>>],
   fwdIdx |-> [k \in ChunksOf(c) |-> 0], sample |-> [i \in CallablesOf(c) |-> i]]

\* sample_args: the callable whose inputs each callable uses.
SampleArgs(c) ==
  LET after[x \in 0..Len(c.order)] ==
        IF x = 0 THEN OwnSamples(c) ELSE ReorganizeStep(c, after[x - 1], c.order[x])
  IN IF c.reuse THEN after[Len(c.order)].sample ELSE OwnSamples(c).sample

BugWgradMatches(c, p) ==
  \E q \in p + 1..Len(c.order) :
    LET k == c.order[p].chunk
    IN Occurrences(c.order, Pass("bwd", k), p + 1, q) = Occurrences(c.order, Pass("dw", k), p + 1, q)

\* wgrad_validation_list: the passes that follow hold a wgrad for every dgrad.
WgradMatches(c, p) ==
  \E q \in p + 1..Len(c.order) :
    LET k == c.order[p].chunk
    IN Occurrences(c.order, Pass("bwd", k), p, q) = Occurrences(c.order, Pass("dw", k), p, q)

-----------------------------------------------------------------------------
VARIABLES
  config,    \* the configuration and, of every callable, whose static inputs it uses,
  sample,    \* both chosen once
  iteration, \* 0 while graphs are captured, then the iteration that replays them
  cursor,    \* place in the order, layer within the pass, passes behind it by chunk
  raised,    \* an exception has ended it
  live,      \* tensors of the pool that something refers to
  graphs,    \* graphs captured, with the tensors alive at the end of the capture
  gradOut,   \* whose static grad outputs each callable uses
  lastGrad,  \* previous_chunk_last_callable_bwd_idx, if any
  store,     \* wgrad_store of each layer: callables whose wgrad is outstanding
  dwOf,      \* the callable whose wgrad a graph computes
  content,   \* value of each tensor of the pool
  inputs, gradOutputs, \* values in the static inputs and grad outputs
  sending,   \* outputs and input gradients on their way to other pipeline stages
  sent,      \* what has been sent in this iteration
  grads      \* weight gradients added up for each layer in this iteration

capturing == <<live, graphs, gradOut, lastGrad, store, dwOf>>
replaying == <<content, inputs, gradOutputs, sending, sent, grads>>
vars == <<config, sample, iteration, cursor, raised, capturing, replaying>>

Callables == DOMAIN sample
ModuleLayers == DOMAIN store
Junk == <<0, 0, 0>>
Value(i) == <<iteration, i[1], i[2]>>

Start(c) == [pos |-> 1, step |-> 1, done |-> [p \in Passes |-> [k \in ChunksOf(c) |-> 0]]]

Init ==
  /\ config \in Configs
  /\ sample = SampleArgs(config)
  /\ iteration = 0 /\ cursor = Start(config) /\ raised = FALSE
  /\ live = {} /\ graphs = <<>> /\ lastGrad = {}
  /\ gradOut = [i \in CallablesOf(config) |-> i] /\ dwOf = gradOut
  /\ store = [m \in {<<i[1], i[3]>> : i \in CallablesOf(config)} |-> <<>>]
  /\ content = [t \in Tensors(config) |-> Junk]
  /\ inputs = [i \in CallablesOf(config) |-> Junk] /\ gradOutputs = inputs
  /\ sending = [out |-> {}, gin |-> <<>>] /\ sent = {}
  /\ grads = store

\* The pass at hand, its chunk, and the layer: forward from the first, backward from the last.
Current == config.order[cursor.pos]
NumLayers == config.layers[Current.chunk]
Layer == IF Current.pass = "fwd" THEN cursor.step ELSE NumLayers + 1 - cursor.step
Done(p) == cursor.done[p][Current.chunk]
At(m) == <<Current.chunk, m, Layer>>

LastStep == cursor.step = NumLayers /\ cursor.pos = Len(config.order)
Advance ==
  /\ cursor' = IF cursor.step < NumLayers THEN [cursor EXCEPT !.step = @ + 1]
               ELSE IF LastStep THEN Start(config)
               ELSE [cursor EXCEPT !.pos = @ + 1, !.step = 1,
                                   !.done[Current.pass][Current.chunk] = @ + 1]
  /\ iteration' = IF LastStep THEN iteration + 1 ELSE iteration

-----------------------------------------------------------------------------
(* Capture.                                                                   *)

Capturing(p) == iteration = 0 /\ ~raised /\ Current.pass = p

Capture(g, new) ==
  graphs' = [h \in DOMAIN graphs \cup {g} |-> IF h = g THEN live \cup new ELSE graphs[h]]

\* An exception leaves make_graphed_callables.
Raise ==
  /\ raised' = TRUE
  /\ UNCHANGED <<config, sample, iteration, cursor, capturing, replaying>>

CaptureForward ==
  /\ Capturing("fwd")
  /\ LET i == At(Done("fwd"))
         new == {<<"out", i>>, <<"saved", i>>}
     IN Capture(<<"fwd", i>>, new) /\ live' = live \cup new
  /\ Advance
  /\ UNCHANGED <<config, sample, raised, gradOut, lastGrad, store, dwOf, replaying>>

\* With reuse, all backwards of one shape share the grad outputs of the first.
GradOutputsOf(i) ==
  LET same == {j \in Callables : /\ <<"bwd", j>> \in DOMAIN graphs
                                 /\ config.shape[j[1]] = config.shape[i[1]]}
  IN IF config.reuse /\ same # {} THEN gradOut[CHOOSE j \in same : TRUE] ELSE i

BugReleasedEarly(i) ==
  {<<"saved", i>>} \cup
  IF config.reuse THEN {<<"out", i>>, <<"gin", i>>} ELSE {}

\* Tensors nothing refers to any more once a backward is captured: what autograd had
\* saved and, with reuse, the output, the input gradient of the layer above, and that of
\* the first layer of the chunk before.
ReleasedBy(i) ==
  {<<"saved", i>>} \cup
  IF ~config.reuse THEN {}
  ELSE {<<"out", i>>}
         \cup (IF cursor.step > 1 THEN {<<"gin", <<i[1], i[2], i[3] + 1>>>>} ELSE {})
         \cup (IF Layer = 1 THEN {<<"gin", j>> : j \in lastGrad} ELSE {})

CaptureBackward ==
  /\ Capturing("bwd")
  /\ config.delay => WgradMatches(config, cursor.pos)
  /\ LET i == At(Done("bwd"))
     IN /\ Capture(<<"bwd", i>>, {<<"gin", i>>})
        /\ live' = (live \cup {<<"gin", i>>}) \ ReleasedBy(i)
        /\ gradOut' = [gradOut EXCEPT ![i] = GradOutputsOf(i)]
        /\ lastGrad' = IF Layer = 1 THEN {i} ELSE lastGrad
        /\ store' = IF config.delay THEN [store EXCEPT ![<<i[1], i[3]>>] = Append(@, i)] ELSE store
  /\ Advance
  /\ UNCHANGED <<config, sample, raised, dwOf, replaying>>

BackwardRaises ==
  /\ Capturing("bwd") /\ config.delay /\ ~WgradMatches(config, cursor.pos) /\ Raise

BugWgradIndex == At(Done("bwd"))

\* The wgrad graph of the last backward captured for the chunk.
WgradIndex == At(Done("bwd") - 1)

WgradFails ==
  \/ ~config.delay
  \/ <<"dw", WgradIndex>> \in DOMAIN graphs \* a graph cannot be captured twice
  \/ store[<<Current.chunk, Layer>>] = <<>>

CaptureWgrad ==
  /\ Capturing("dw") /\ ~WgradFails
  /\ LET m == <<Current.chunk, Layer>>
     IN /\ Capture(<<"dw", WgradIndex>>, {})
        /\ dwOf' = [dwOf EXCEPT ![WgradIndex] = Head(store[m])]
        /\ store' = [store EXCEPT ![m] = Tail(@)]
  /\ Advance
  /\ UNCHANGED <<config, sample, raised, live, gradOut, lastGrad, replaying>>

WgradRaises == Capturing("dw") /\ WgradFails /\ Raise

-----------------------------------------------------------------------------
(* Replay.                                                                    *)

\* The stage has received what another stage sends before it needs it, an output has
\* been sent before its gradient comes back, an input gradient by the end of the next
\* backward, and everything by the end of the iteration.
Replaying(p) ==
  /\ iteration \in 1..Iterations /\ ~raised /\ Current.pass = p
  /\ Len(sending.gin) <= 1
  /\ cursor = Start(config) => sending.out = {} /\ sending.gin = <<>>

\* A kernel that reads values of different microbatches computes nonsense.
Mix(values) == IF Cardinality(values) = 1 THEN CHOOSE v \in values : TRUE ELSE Junk

Run(g, written, v) ==
  content' = [t \in DOMAIN content |->
                IF t \in written THEN v
                ELSE IF t \in graphs[g] THEN content[t] ELSE Junk]

BeginIteration(s) == IF cursor = Start(config) THEN {} ELSE s
AddGrad(v) ==
  grads' = [m \in ModuleLayers |->
              (IF cursor = Start(config) THEN <<>> ELSE grads[m])
                \o (IF m = <<Current.chunk, Layer>> THEN v ELSE <<>>)]

\* Graphed.forward: copy into the static inputs, then replay.
ReplayForward ==
  /\ Replaying("fwd")
  /\ LET i == At(Done("fwd"))
         x == IF Layer = 1 THEN Value(i) ELSE content[<<"out", <<i[1], i[2], i[3] - 1>>>>]
     IN /\ inputs' = [inputs EXCEPT ![sample[i]] = x]
        /\ Run(<<"fwd", i>>, {<<"out", i>>, <<"saved", i>>}, x)
        /\ sending' = IF Layer = NumLayers THEN [sending EXCEPT !.out = @ \cup {i}] ELSE sending
  /\ AddGrad(<<>>)
  /\ sent' = BeginIteration(sent)
  /\ Advance
  /\ UNCHANGED <<config, sample, raised, capturing, gradOutputs>>

\* Graphed.backward: copy into the static grad outputs, then replay.
ReplayBackward ==
  /\ Replaying("bwd")
  /\ LET i == At(Done("bwd"))
         g == IF Layer = NumLayers THEN Value(i) ELSE content[<<"gin", <<i[1], i[2], i[3] + 1>>>>]
         x == {content[<<"saved", i>>]} \cup IF config.delay THEN {} ELSE {inputs[sample[i]]}
         v == Mix({g} \cup x)
     IN /\ Layer = NumLayers => i \notin sending.out
        /\ gradOutputs' = [gradOutputs EXCEPT ![gradOut[i]] = g]
        /\ Run(<<"bwd", i>>, {<<"gin", i>>}, v)
        /\ sending' = IF Layer = 1 THEN [sending EXCEPT !.gin = Append(@, i)] ELSE sending
        /\ AddGrad(IF config.delay THEN <<>> ELSE <<v>>)
  /\ Advance
  /\ UNCHANGED <<config, sample, raised, capturing, inputs, sent>>

\* backward_dw of the callable whose turn it is.
ReplayWgrad ==
  /\ Replaying("dw")
  /\ LET i == At(Done("dw"))
         j == dwOf[i]
     IN /\ Run(<<"dw", i>>, {}, Junk)
        /\ AddGrad(<<Mix({inputs[sample[j]], gradOutputs[gradOut[j]]})>>)
  /\ Advance
  /\ UNCHANGED <<config, sample, raised, capturing, inputs, gradOutputs, sending, sent>>

SendOutput ==
  /\ \E i \in sending.out :
       /\ sending' = [sending EXCEPT !.out = @ \ {i}]
       /\ sent' = sent \cup {<<"out", i, content[<<"out", i>>]>>}
  /\ UNCHANGED <<config, sample, iteration, cursor, raised, capturing, content, inputs, gradOutputs, grads>>

SendGradient ==
  /\ sending.gin # <<>>
  /\ LET i == Head(sending.gin)
     IN sent' = sent \cup {<<"gin", i, content[<<"gin", i>>]>>}
  /\ sending' = [sending EXCEPT !.gin = Tail(@)]
  /\ UNCHANGED <<config, sample, iteration, cursor, raised, capturing, content, inputs, gradOutputs, grads>>

Next ==
  \/ CaptureForward \/ CaptureBackward \/ BackwardRaises \/ CaptureWgrad \/ WgradRaises
  \/ ReplayForward \/ ReplayBackward \/ ReplayWgrad \/ SendOutput \/ SendGradient

Spec == Init /\ [][Next]_vars

-----------------------------------------------------------------------------
(* Properties.                                                                *)

Values == {Junk} \cup ((1..Iterations) \X ChunksOf(config) \X (0..MicrobatchesOf(config) - 1))

\* Types; only callables of the schedule are sampled, stored, shared or sent.
TypeOK ==
  /\ iteration \in 0..Iterations + 1 /\ raised \in BOOLEAN
  /\ \A f \in {sample, gradOut, dwOf} : Range(f) \subseteq Callables
  /\ lastGrad \subseteq Callables
  /\ live \subseteq DOMAIN content
  /\ \A g \in DOMAIN graphs : g \in Passes \X Callables /\ graphs[g] \subseteq DOMAIN content
  /\ \A m \in ModuleLayers : store[m] \in Seq(Callables) /\ grads[m] \in Seq(Values)
  /\ \A f \in {content, inputs, gradOutputs} : Range(f) \subseteq Values
  /\ sending.out \subseteq Callables /\ sending.gin \in Seq(Callables)

IterationOver == iteration > 1 /\ cursor = Start(config)

\* When an iteration is over, every layer has added up exactly one weight gradient of every
\* microbatch, each computed from the input, the saved activations and the output gradient
\* of that microbatch, though microbatches, layers and chunks share static buffers and
\* graphs reuse each other's memory.
GradientsExact ==
  IterationOver /\ ~raised => \A m \in ModuleLayers :
    /\ Len(grads[m]) = MicrobatchesOf(config)
    /\ {grads[m][x] : x \in DOMAIN grads[m]}
         = {<<iteration - 1, m[1], n>> : n \in 0..MicrobatchesOf(config) - 1}

\* What is sent to another stage, as late as the schedule lets it, is the output or the
\* input gradient of that microbatch, and of no earlier iteration.
SentExact ==
  \A s \in sent : /\ s[3][2] = s[2][1] /\ s[3][3] = s[2][2]
                  /\ s[3][1] = IF cursor = Start(config) THEN iteration - 1 ELSE iteration

\* Sharing is as good as it can be: of each shape there are as many static inputs as
\* forwards can be outstanding at a time, not one more.
InputsMinimal ==
  config.reuse /\ iteration = 0 /\ cursor = Start(config) => \A key \in {config.shape[k] : k \in ChunksOf(config)} :
    LET same == {i \in Callables : config.shape[i[1]] = key}
        upTo(p, i, x) == Occurrences(config.order, Pass(p, i[1]), 1, x)
        outstanding(x) == Cardinality({i \in same : upTo("bwd", i, x) <= i[2] /\ i[2] < upTo("fwd", i, x)})
        used == Cardinality({sample[i] : i \in same})
    IN /\ \A x \in DOMAIN config.order : outstanding(x) <= used
       /\ \E x \in DOMAIN config.order : outstanding(x) = used

\* Of each chunk, dgrads and wgrads alternate.
Alternates(c) == \A k \in ChunksOf(c) :
  LET upTo(p, x) == Occurrences(c.order, Pass(p, k), 1, x)
  IN /\ \A x \in DOMAIN c.order : upTo("bwd", x) - upTo("dw", x) \in {0, 1}
     /\ upTo("bwd", Len(c.order)) = upTo("dw", Len(c.order))

\* The checks made during the capture, which look at counts, at the graph and at the store,
\* let exactly those schedules through in which each wgrad is that of the last dgrad of its
\* chunk, whatever comes between the two.
AcceptsAlternating ==
  LET legal == IF config.delay THEN Alternates(config)
               ELSE \A x \in DOMAIN config.order : config.order[x].pass # "dw"
  IN (raised => ~legal) /\ (iteration > 0 => legal)
=============================================================================
