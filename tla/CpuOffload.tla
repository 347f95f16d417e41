------------------------------ MODULE CpuOffload -----------------------------
(***************************************************************************)
(* Activation offloading (pytorch/cpu_offload.py).  The tensors a layer    *)
(* saves for its backward are copied to pinned host memory on a second     *)
(* CUDA stream, their GPU memory is given back, and they are copied back   *)
(* before the backward of the layer.                                       *)
(*                                                                         *)
(* Three processes run at their own pace: the host, which executes hooks   *)
(* and puts operations on the two streams, the main stream, and the copy   *)
(* stream.  An event is a position in a stream, and waiting for it is an   *)
(* operation of the waiting stream.  GPU memory is a set of blocks; a      *)
(* block nobody refers to is handed out again at once, as the caching      *)
(* allocator does for allocations of the main stream.                      *)
(***************************************************************************)
EXTENDS Naturals, FiniteSets, SequencesExt

CONSTANTS
  Configs,      \* arguments of get_cpu_offload_context, and a bound on the passes
  Saves,        \* the tensors a layer saves, in order; a tensor may come twice
  Kept,         \* those of them that _check_if_offload refuses
  Blocks,       \* GPU memory for saved tensors
  SkipBackward, \* TRUE: with the default schedule, the next forward may follow a forward
  StopEarly,    \* TRUE: a backward may end before it reaches the first layer
  None          \* Python's None

Streams == {"main", "copy"}

ASSUME OffloadAssumption ==
  /\ \A c \in Configs :
       /\ c.mode \in {"default", "manual"} /\ c.retain \in BOOLEAN
       /\ c.modelLayers \in Nat \ {0} /\ c.numLayers \in Nat /\ c.passes \in Nat
       /\ c.mode = "default" => c.numLayers < c.modelLayers
  /\ Saves \in Seq(Range(Saves))
  /\ Blocks \subseteq Nat /\ IsFiniteSet(Blocks) /\ None \notin Nat
  /\ SkipBackward \in BOOLEAN /\ StopEarly \in BOOLEAN

VARIABLES
  config,        \* one of Configs
  numOfFwds,     \* num_of_fwds, None before the first forward
  previousBwd,   \* previous_bwd_layer_id
  currentLayer,  \* current_layer_id
  layers,        \* layer_states: one OffloadableLayerState per layer
  saved,         \* autograd: what push_tensor returned for each saved tensor
  pc, k, agenda, \* script: what runs, the tensor it is at, layers of the backward
  pass,          \* the number of the forward pass
  queue, done,   \* per stream: operations still to run, number of those that ran
  gpu, pinned,   \* contents of GPU blocks and of pinned host buffers
  used           \* what backward kernels have read

syncVars == <<config, numOfFwds, previousBwd, currentLayer, layers>>
scriptVars == <<saved, pc, k, agenda, pass>>
deviceVars == <<done, gpu, pinned, used>>
vars == <<syncVars, scriptVars, queue, deviceVars>>

NumLayers == config.modelLayers
Layers == 0..NumLayers - 1

Value(p, l, t) == [pass |-> p, layer |-> l, tensor |-> t]
Junk == Value(0, 0, 0)
Buffer(l, i) == [layer |-> l, at |-> i, pass |-> IF config.retain THEN 0 ELSE pass]

Fresh == [state |-> "not_offloaded", fwd |-> <<>>, cpu |-> <<>>, bwd |-> <<>>,
          aux |-> <<>>, finished |-> 0]

Init ==
  /\ config \in Configs
  /\ numOfFwds = None /\ previousBwd = None /\ currentLayer = None
  /\ layers = [l \in Layers |-> Fresh]
  /\ saved = [l \in Layers |-> <<>>]
  /\ pc = "idle" /\ k = 0 /\ agenda = <<>> /\ pass = 0
  /\ queue = [s \in Streams |-> <<>>] /\ done = [s \in Streams |-> 0]
  /\ gpu = [b \in Blocks |-> Junk] /\ pinned = <<>> /\ used = {}

-----------------------------------------------------------------------------
(* Streams and memory *)

\* Mutant: an event that lies after the next operation.
BugNow(s, q) == done[s] + Len(q[s]) + 1

\* The event that record() captures now: everything put on the stream so far.
Now(s, q) == done[s] + Len(q[s])

Wait(s, at) == [op |-> "wait", stream |-> s, at |-> at]

\* Before each copy of a sequence, the wait that belongs to it.
InTurn(waits, copies) ==
  [i \in 1..2 * Len(copies) |-> IF i % 2 = 1 THEN waits[(i + 1) \div 2] ELSE copies[i \div 2]]

\* The operations for the layer of S, if there is one: the schedule never has two.
ForThe(S, Ops(_)) == IF S = {} THEN <<>> ELSE Ops(CHOOSE l \in S : TRUE)

Put(q, s, ops) == [q EXCEPT ![s] = @ \o ops]

GroupBlocks(group) == {group[i].block : i \in DOMAIN group}

\* Blocks some tensor of layer l refers to: the two GPU groups, and saved tensors
\* that autograd itself holds.
HeldBy(ls, sv, l) ==
  GroupBlocks(ls[l].fwd) \cup GroupBlocks(ls[l].bwd)
    \cup {sv[l][i].at : i \in {j \in DOMAIN sv[l] : sv[l][j].kind = "tensor"}}

FreeBlocks(ls, sv) == Blocks \ UNION {HeldBy(ls, sv, l) : l \in Layers}

-----------------------------------------------------------------------------
(* OffloadableLayerState.  Each operator returns the new layer record; the   *)
(* operations it puts on the copy stream have an operator of their own.      *)

\* release_all_memory
ReleaseAll(ly) ==
  [Fresh EXCEPT !.cpu = IF config.retain THEN ly.cpu ELSE <<>>,
                !.aux = ly.aux, !.finished = ly.finished]

\* The n least elements of a set of numbers, in their order.
Least(n, S) == [i \in 1..n |-> CHOOSE x \in S : Cardinality({y \in S : y < x}) = i - 1]

\* _deduplicate_tensors: the first of each block, and the place of each in that list.
FirstOnes(group) ==
  LET first == {i \in DOMAIN group : \A j \in 1..i - 1 : group[j].block # group[i].block}
  IN Least(Cardinality(first), first)

Deduplicated(group) == [n \in DOMAIN FirstOnes(group) |-> group[FirstOnes(group)[n]]]

OriginalIds(group) ==
  [i \in DOMAIN group |->
     CHOOSE n \in DOMAIN Deduplicated(group) : Deduplicated(group)[n].block = group[i].block]

\* start_offload: wait until the tensor is computed, then copy.
OffloadOps(l, ly) ==
  LET group == Deduplicated(ly.fwd)
  IN InTurn([n \in DOMAIN group |-> Wait("main", group[n].ready)],
            [n \in DOMAIN group |->
               [op |-> "offload", block |-> group[n].block, buffer |-> Buffer(l, n)]])

StartOffload(l, ly, q) ==
  [ly EXCEPT !.state = "offload_started",
             !.fwd = Deduplicated(@), !.aux = OriginalIds(ly.fwd),
             !.cpu = IF config.retain /\ @ # <<>> THEN @
                     ELSE [n \in DOMAIN Deduplicated(ly.fwd) |-> Buffer(l, n)],
             !.finished = Now("copy", q) + Len(OffloadOps(l, ly))]

\* Mutant: the memory is given back without the wait.
BugReleaseOps(ly) == <<>>

\* release_activation_forward_gpu_memory
ReleaseOps(ly) == IF ly.fwd = <<>> THEN <<>> ELSE <<Wait("copy", ly.finished)>>
ReleaseForward(ly) == [ly EXCEPT !.state = "offload_finished", !.fwd = <<>>]

\* start_reload into the given blocks: the copy waits for the main stream, as it is
\* when the block is allocated.
ReloadOps(ly, blocks, q) ==
  InTurn([n \in DOMAIN ly.cpu |-> Wait("main", Now("main", q))],
         [n \in DOMAIN ly.cpu |->
            [op |-> "reload", block |-> blocks[n], buffer |-> ly.cpu[n]]])

\* Mutant: the event of each tensor is recorded with the copy of the next one.
BugStartReload(ly, blocks, q) ==
  [ly EXCEPT !.state = "reload_started",
             !.bwd = [i \in DOMAIN ly.aux |->
                        [block |-> blocks[ly.aux[i]], ready |-> Now("copy", q) + 2 * ly.aux[i] + 2]]]

\* Each tensor has its own event; tensor_group_process_after_reload puts the
\* duplicates back.
StartReload(ly, blocks, q) ==
  [ly EXCEPT !.state = "reload_started",
             !.bwd = [i \in DOMAIN ly.aux |->
                        [block |-> blocks[ly.aux[i]], ready |-> Now("copy", q) + 2 * ly.aux[i]]]]

\* Blocks for n tensors: those given back are used again first.
Allocate(n, free) == Least(n, free)
Fits(n, free) == n <= Cardinality(free)

-----------------------------------------------------------------------------
(* OffloadSynchronizer and DefaultOffloadSynchronizer *)

Offloads(l) == l < config.numLayers

\* Mutants: the memory is given back a layer later; a reload starts a layer earlier.
BugFinishOffloadAt(n) == {l \in Layers : Offloads(l) /\ NumLayers - config.numLayers + l + 1 = n}
BugStartReloadAt(n) == {l \in Layers : Offloads(l) /\ NumLayers - config.numLayers + l = n}

\* finish_offload_map and start_reload_map
FinishOffloadAt(n) == {l \in Layers : Offloads(l) /\ NumLayers - config.numLayers + l = n}
StartReloadAt(n) == {l \in Layers : Offloads(l) /\ NumLayers - 1 - config.numLayers + l = n}

NextFwd == IF numOfFwds \in {None, NumLayers - 1} THEN 0 ELSE numOfFwds + 1

Raise == pc' = "raised" /\ UNCHANGED <<syncVars, saved, k, agenda, pass, queue>>

\* The layer states once OffloadSynchronizer.fwd_step has run: the first layer of a
\* forward starts all of them afresh.
AfterFwdStep == IF NextFwd = 0 THEN [l \in Layers |-> ReleaseAll(layers[l])] ELSE layers

\* fwd_step, called by __enter__ of the offloading context: start the offload of the
\* layer before, and give back the memory of the layers due.
FwdStep(sv, p) ==
  LET n == NextFwd
      start == IF config.mode = "default" THEN {l \in Layers : l + 1 = n /\ Offloads(l)} ELSE {}
      release == IF config.mode = "default" THEN FinishOffloadAt(n) ELSE {}
      started == [l \in Layers |-> IF l \in start THEN StartOffload(l, AfterFwdStep[l], queue)
                                   ELSE AfterFwdStep[l]]
      startOps == ForThe(start, LAMBDA l : OffloadOps(l, AfterFwdStep[l]))
      releaseOps == ForThe(release, LAMBDA l : ReleaseOps(started[l]))
  IN IF \/ \E l \in start : AfterFwdStep[l].state # "not_offloaded"
        \/ \E l \in release : started[l].state # "offload_started"
     THEN Raise
     ELSE /\ layers' = [l \in Layers |-> IF l \in release THEN ReleaseForward(started[l])
                                         ELSE started[l]]
          /\ numOfFwds' = n /\ currentLayer' = n /\ saved' = sv /\ pass' = p
          /\ queue' = Put(Put(queue, "copy", startOps), "main", releaseOps)
          /\ pc' = "forward" /\ k' = 1
          /\ UNCHANGED <<config, previousBwd, agenda>>

\* Mutant: only the GPU copies of the forward are released.
BugAfterRelease == [l \in Layers |-> IF l = previousBwd THEN [layers[l] EXCEPT !.fwd = <<>>] ELSE layers[l]]

\* What bwd_step and finish_part_of_bwd release.
AfterRelease ==
  [l \in Layers |-> IF l = previousBwd THEN ReleaseAll(layers[l]) ELSE layers[l]]

-----------------------------------------------------------------------------
(* The forward of a layer *)

\* push_tensor: an index into the forward group, or the tensor itself.
Push(l, block, q) ==
  IF /\ config.mode = "default" /\ ~Offloads(l)
  THEN /\ saved' = [saved EXCEPT ![l] = Append(@, [kind |-> "tensor", at |-> block])]
       /\ pc' = "forward" /\ k' = k + 1 /\ queue' = q
       /\ UNCHANGED <<syncVars, agenda, pass>>
  ELSE IF layers[l].state # "not_offloaded" THEN Raise
  ELSE /\ IF Saves[k] \in Kept
          THEN /\ saved' = [saved EXCEPT ![l] = Append(@, [kind |-> "tensor", at |-> block])]
               /\ UNCHANGED layers
          ELSE /\ saved' = [saved EXCEPT ![l] =
                              Append(@, [kind |-> "index", at |-> Len(layers[l].fwd) + 1])]
               /\ layers' = [layers EXCEPT ![l].fwd =
                               Append(@, [block |-> block, ready |-> Now("main", q)])]
       /\ pc' = "forward" /\ k' = k + 1 /\ queue' = q
       /\ UNCHANGED <<config, numOfFwds, previousBwd, currentLayer, agenda, pass>>

Earlier == {j \in 1..k - 1 : Saves[j] = Saves[k]}

\* A kernel computes a tensor into a block of its own, and it is saved.
SaveTensor ==
  /\ pc = "forward" /\ k <= Len(Saves) /\ Earlier = {}
  /\ FreeBlocks(layers, saved) # {}
  /\ LET block == Allocate(1, FreeBlocks(layers, saved))[1]
     IN Push(numOfFwds, block,
             Put(queue, "main", <<[op |-> "compute", block |-> block,
                                   value |-> Value(pass, numOfFwds, Saves[k])]>>))
  /\ UNCHANGED deviceVars

\* A tensor saved before is saved once more.
SaveAgain ==
  /\ pc = "forward" /\ k <= Len(Saves) /\ Earlier # {}
  /\ LET item == saved[numOfFwds][CHOOSE j \in Earlier : TRUE]
         block == IF item.kind = "tensor" THEN item.at
                  ELSE layers[numOfFwds].fwd[item.at].block
     IN Push(numOfFwds, block, queue)
  /\ UNCHANGED deviceVars

LeaveContext ==
  /\ pc = "forward" /\ k > Len(Saves)
  /\ pc' = "idle"
  /\ UNCHANGED <<syncVars, saved, k, agenda, pass, queue, deviceVars>>

-----------------------------------------------------------------------------
(* The script *)

ForwardDone == numOfFwds = NumLayers - 1
Unused == {l \in Layers : saved[l] # <<>>}

\* The next layer of this forward, or the first one of the next.
NextLayer ==
  /\ pc = "idle" /\ numOfFwds # None /\ ~ForwardDone
  /\ FwdStep(saved, pass)
  /\ UNCHANGED deviceVars

NextForward ==
  /\ pc = "idle" /\ (numOfFwds = None \/ ForwardDone) /\ pass < config.passes
  /\ Unused = {} \/ (SkipBackward /\ config.mode = "default")
  /\ FwdStep([l \in Layers |-> <<>>], pass + 1)
  /\ UNCHANGED deviceVars

\* ManualOffloadSynchronizer: the caller moves one layer on.
StartOffloadLayer ==
  /\ pc = "idle" /\ config.mode = "manual"
  /\ \E l \in Unused :
       /\ layers[l].state = "not_offloaded"
       /\ layers' = [layers EXCEPT ![l] = StartOffload(l, @, queue)]
       /\ queue' = Put(queue, "copy", OffloadOps(l, layers[l]))
  /\ UNCHANGED <<config, numOfFwds, previousBwd, currentLayer, scriptVars, deviceVars>>

ReleaseActivationForwardGpuMemory ==
  /\ pc = "idle" /\ config.mode = "manual"
  /\ \E l \in Unused :
       /\ layers[l].state = "offload_started"
       /\ layers' = [layers EXCEPT ![l] = ReleaseForward(@)]
       /\ queue' = Put(queue, "main", ReleaseOps(layers[l]))
  /\ UNCHANGED <<config, numOfFwds, previousBwd, currentLayer, scriptVars, deviceVars>>

StartReloadLayer ==
  /\ pc = "idle" /\ config.mode = "manual"
  /\ \E l \in Unused :
       /\ layers[l].state = "offload_finished"
       /\ Fits(Len(layers[l].cpu), FreeBlocks(layers, saved))
       /\ LET blocks == Allocate(Len(layers[l].cpu), FreeBlocks(layers, saved))
          IN /\ layers' = [layers EXCEPT ![l] = StartReload(@, blocks, queue)]
             /\ queue' = Put(queue, "copy", ReloadOps(layers[l], blocks, queue))
  /\ UNCHANGED <<config, numOfFwds, previousBwd, currentLayer, scriptVars, deviceVars>>

-----------------------------------------------------------------------------
(* The backward *)

\* The layers one backward may run through: all of them, last to first, or, with a
\* manual schedule, any single one that is on the GPU.
Down(l, m) == [i \in 1..l - m + 1 |-> l + 1 - i]

Agendas ==
  IF config.mode = "default"
  THEN IF ForwardDone /\ Unused = Layers
       THEN {Down(NumLayers - 1, m) : m \in IF StopEarly THEN Layers ELSE {0}} ELSE {}
  ELSE {<<l>> : l \in {u \in Unused : layers[u].state \in {"not_offloaded", "reload_started"}}}

StartBackward ==
  /\ pc = "idle"
  /\ agenda' \in Agendas
  /\ pc' = "hook"
  /\ UNCHANGED <<syncVars, saved, k, pass, queue, deviceVars>>

\* The prehook of the layer's output: bwd_step.
BwdStep ==
  /\ pc = "hook"
  /\ LET l == Head(agenda)
         reload == IF config.mode = "default" THEN StartReloadAt(l) ELSE {}
         blocks == [r \in reload |-> Allocate(Len(AfterRelease[r].cpu), FreeBlocks(AfterRelease, saved))]
     IN IF \E r \in reload : AfterRelease[r].state # "offload_finished" THEN Raise
        ELSE /\ \A r \in reload : Fits(Len(AfterRelease[r].cpu), FreeBlocks(AfterRelease, saved))
             /\ previousBwd' = l /\ currentLayer' = l
             /\ layers' = [r \in Layers |->
                  IF r \in reload THEN StartReload(AfterRelease[r], blocks[r], queue)
                  ELSE AfterRelease[r]]
             /\ queue' = Put(queue, "copy",
                  ForThe(reload, LAMBDA r : ReloadOps(AfterRelease[r], blocks[r], queue)))
             /\ pc' = "unpack" /\ k' = 1
             /\ UNCHANGED <<config, numOfFwds, saved, agenda, pass>>
  /\ UNCHANGED deviceVars

\* pop_tensor for the k-th saved tensor of the layer, and the kernel that reads it.
PopTensor ==
  /\ pc = "unpack" /\ k <= Len(Saves)
  /\ LET l == Head(agenda)
         ly == layers[currentLayer]
         item == saved[l][k]
         Use(b) == [op |-> "use", block |-> b, pass |-> pass, layer |-> l, k |-> k]
         ops == CASE item.kind = "tensor" -> <<Use(item.at)>>
                  [] item.kind = "index" /\ ly.state = "not_offloaded" ->
                       <<Use(ly.fwd[item.at].block)>>
                  [] OTHER -> <<Wait("copy", ly.bwd[item.at].ready), Use(ly.bwd[item.at].block)>>
     IN IF ly.state \notin {"not_offloaded", "reload_started"}
        THEN Raise
        ELSE /\ queue' = Put(queue, "main", ops) /\ k' = k + 1
             /\ UNCHANGED <<syncVars, saved, pc, agenda, pass>>
  /\ UNCHANGED deviceVars

\* autograd lets go of what the layer saved.
EndLayer ==
  /\ pc = "unpack" /\ k > Len(Saves)
  /\ saved' = [saved EXCEPT ![Head(agenda)] = <<>>]
  /\ agenda' = Tail(agenda)
  /\ pc' = IF agenda' = <<>> THEN "callback" ELSE "hook"
  /\ UNCHANGED <<syncVars, k, pass, queue, deviceVars>>

\* The callback that the hooks queued.
FinishPartOfBwd ==
  /\ pc = "callback"
  /\ layers' = AfterRelease /\ previousBwd' = None
  /\ pc' = "idle"
  /\ UNCHANGED <<config, numOfFwds, currentLayer, saved, k, agenda, pass, queue,
                 deviceVars>>

-----------------------------------------------------------------------------
(* The streams *)

Ran(s) == /\ queue' = [queue EXCEPT ![s] = Tail(@)]
          /\ done' = [done EXCEPT ![s] = @ + 1]
          /\ UNCHANGED <<syncVars, scriptVars>>

Next1(s, op) == queue[s] # <<>> /\ Head(queue[s]).op = op

StreamWait(s) ==
  /\ Next1(s, "wait")
  /\ done[Head(queue[s]).stream] >= Head(queue[s]).at
  /\ Ran(s) /\ UNCHANGED <<gpu, pinned, used>>

Compute ==
  /\ Next1("main", "compute")
  /\ gpu' = [gpu EXCEPT ![Head(queue["main"]).block] = Head(queue["main"]).value]
  /\ Ran("main") /\ UNCHANGED <<pinned, used>>

Use ==
  /\ Next1("main", "use")
  /\ LET u == Head(queue["main"])
     IN used' = used \cup {[pass |-> u.pass, layer |-> u.layer, k |-> u.k, value |-> gpu[u.block]]}
  /\ Ran("main") /\ UNCHANGED <<gpu, pinned>>

CopyToHost ==
  /\ Next1("copy", "offload")
  /\ pinned' = [b \in DOMAIN pinned \cup {Head(queue["copy"]).buffer} |->
                  IF b = Head(queue["copy"]).buffer THEN gpu[Head(queue["copy"]).block]
                  ELSE pinned[b]]
  /\ Ran("copy") /\ UNCHANGED <<gpu, used>>

CopyToGpu ==
  /\ Next1("copy", "reload")
  /\ gpu' = [gpu EXCEPT ![Head(queue["copy"]).block] = pinned[Head(queue["copy"]).buffer]]
  /\ Ran("copy") /\ UNCHANGED <<pinned, used>>

-----------------------------------------------------------------------------
Host ==
  \/ NextLayer \/ NextForward \/ SaveTensor \/ SaveAgain \/ LeaveContext
  \/ StartOffloadLayer \/ ReleaseActivationForwardGpuMemory \/ StartReloadLayer
  \/ StartBackward \/ BwdStep \/ PopTensor \/ EndLayer \/ FinishPartOfBwd

Main == StreamWait("main") \/ Compute \/ Use
Copy == StreamWait("copy") \/ CopyToHost \/ CopyToGpu

Next == Host \/ Main \/ Copy

\* The host thread never blocks, and the device executes what is on a stream as soon
\* as the events it waits for have happened.
Spec == Init /\ [][Next]_vars /\ WF_vars(Host) /\ WF_vars(Main) /\ WF_vars(Copy)

-----------------------------------------------------------------------------
(* Properties *)

\* Every layer is in one of its four states, and every group and saved item is made
\* of blocks, buffers and positions that exist.
TypeOK ==
  /\ numOfFwds \in Layers \cup {None} /\ {previousBwd, currentLayer} \subseteq Layers \cup {None}
  /\ \A l \in Layers :
       /\ layers[l].state \in {"not_offloaded", "offload_started", "offload_finished",
                               "reload_started"}
       /\ HeldBy(layers, saved, l) \subseteq Blocks
       /\ \A i \in DOMAIN saved[l] : saved[l][i].kind = "index" =>
            saved[l][i].at \in 1..Len(Saves)
  /\ pc \in {"idle", "forward", "hook", "unpack", "callback", "raised"}
  /\ \A s \in Streams : \A i \in DOMAIN queue[s] :
       queue[s][i].op = "wait" => queue[s][i].at <= Now(queue[s][i].stream, queue)

\* Every kernel of a backward reads the values that the forward of the same pass and
\* layer computed, whatever was copied out, given back, used again and copied in
\* meanwhile, and however far the streams lag behind the host.
Faithful ==
  \A u \in used : u.value = Value(u.pass, u.layer, Saves[u.k])

\* No hook of the default schedule, and no legal manual call, finds a layer in a
\* state that _validate_state refuses.
NoRaise == pc # "raised"

\* The layer has activations on the GPU, other than those too small to offload.
OnGpu(l) ==
  \/ layers[l].fwd # <<>> \/ layers[l].bwd # <<>>
  \/ \E i \in DOMAIN saved[l] : saved[l][i].kind = "tensor" /\ Saves[i] \notin Kept

\* The promise of the default schedule (_init_offload_synchronization_dicts): no more
\* than num_layers - num_offloaded_layers layers have activations on the GPU.
PeakMemory ==
  config.mode = "default" =>
    Cardinality({l \in Layers : OnGpu(l)}) <= NumLayers - config.numLayers

\* Between the passes nothing is held: what a backward used is given back although
\* each layer is released by the hook of the next one.
NothingKept ==
  pc = "idle" /\ Unused = {} => \A l \in Layers : HeldBy(layers, saved, l) = {}

\* A backward that has begun comes to its end and its kernels do run: no hook raises,
\* and neither stream waits for an event that the other one never gets to.
BackwardRuns ==
  LET reading == \E i \in DOMAIN queue["main"] : queue["main"][i].op = "use"
  IN (agenda # <<>> \/ reading) ~> (agenda = <<>> /\ ~reading)
=============================================================================
