-------------------------- MODULE FP8DelayedScaling --------------------------
(***************************************************************************)
(* The process-global FP8 state of one PyTorch rank under the delayed      *)
(* scaling recipe: nested autocast contexts, the forward and backward      *)
(* passes of FP8 modules, the global amax reduction, and activation        *)
(* recompute (reentrant and non-reentrant checkpoints), with several       *)
(* microbatches in flight as in pipeline-parallel training.                *)
(*                                                                         *)
(* The training script is the environment.  It opens and closes autocast   *)
(* contexts, calls modules and checkpointed callables, and runs backward   *)
(* outside of autocast (docs/examples/fp8_primer.ipynb:248).  Every other  *)
(* action is the library's.  The policies of the script that matter to the *)
(* library are constants.                                                  *)
(***************************************************************************)
EXTENDS Sequences, SequencesExt

CONSTANTS
  Modules,         \* the FP8 modules (te.Linear and the like)
  HistoryLen, MostRecent, Fused, Overflow,
  MaxIter,         \* bound: number of microbatches
  MaxInFlight,     \* bound: forwards whose backward has not finished
  MaxDepth,        \* bound: nesting of the script's autocast contexts
  MaxRegionOps,    \* bound: operations in a checkpointed callable
  Reentrant,       \* the values of use_reentrant the script passes
  Enabled,         \* the values of enabled the script passes to autocast
  FP8Only,         \* the modules the script calls with FP8 enabled only
  HighOnly,        \* the modules it never calls with FP8 enabled
  EnableInDisabled, \* may it open an enabled context in a disabled one?
  InnerAutocast,   \* may a checkpointed callable open an autocast itself?
  LifoBackward,    \* may a backward start before that of an older microbatch?
  SkipBackward,    \* may a microbatch be dropped without a backward?
  NoModule, NoTensor

Iters == 1..MaxIter

\* Every module is called at most once per microbatch, so the microbatch
\* names the observation a module's forward (or backward) makes.
INSTANCE AmaxHistory WITH Obs <- Iters

ASSUME ScriptAssumption ==
  /\ HistoryLen \in Nat \ {0} /\ Overflow \subseteq Iters
  /\ MaxIter \in Nat /\ MaxInFlight \in Nat
  /\ MaxDepth \in Nat /\ MaxRegionOps \in Nat
  /\ Reentrant \subseteq BOOLEAN /\ Enabled \subseteq BOOLEAN
  /\ FP8Only \subseteq Modules /\ HighOnly \subseteq Modules
  /\ MostRecent \in BOOLEAN /\ Fused \in BOOLEAN
  /\ {EnableInDisabled, InnerAutocast, LifoBackward, SkipBackward}
       \subseteq BOOLEAN
  /\ NoModule \notin Modules
  /\ NoTensor \notin Tensor

VARIABLES
  qstate,      \* FP8GlobalStateManager.quantization_state
  contexts,    \* the active autocast objects, innermost last
  recompute,   \* the two module globals of distributed.py
  firstStash,  \* activation_recompute_forward._is_first_fp8_module
  fp8,         \* module.fp8, as its last init_fp8_metadata left it
  buffered,    \* modules registered in the global amax buffers
  fwd, bwd,    \* fp8_meta["scaling_fwd"], fp8_meta["scaling_bwd"]
  stash,       \* fp8_tensors_recompute_buffer, one deque per module
  updated,     \* fp8_meta["updated_*_fwd"]
  mode,        \* where the program is
  current,     \* the module between prepare_forward and end_forward
  iter,        \* the microbatch whose forward or backward runs
  started,     \* microbatches started
  called,      \* modules already called in this forward
  tape,        \* autograd graph recorded by the forward in progress
  region,      \* the checkpointed callable in progress
  pending,     \* microbatches waiting for their backward
  todo         \* autograd nodes the running backward has not reached

vars == <<qstate, contexts, recompute, firstStash, fp8, buffered, fwd, bwd,
          stash, updated, mode, current, iter, started, called, tape, region,
          pending, todo>>

libVars == <<firstStash, fp8, buffered, stash, updated>>
scriptVars == <<iter, started, called, pending, todo>>

(***************************************************************************)
(* Data types.  Op is one operation of a checkpointed callable; the scale  *)
(* in a module call is what the first forward quantized with.              *)
(***************************************************************************)
EnterOps == [op : {"enter"}, enabled : BOOLEAN]
ExitOps == [op : {"exit"}]
CallOps == [op : {"call"}, mod : Modules, fp8 : BOOLEAN, scale : Amax]
Ops == EnterOps \cup ExitOps \cup CallOps
ModuleNodes == [kind : {"module"}, mod : Modules, fp8 : BOOLEAN,
                first : BOOLEAN]
Callables == [kind : {"checkpoint"}, reentrant : BOOLEAN, fp8 : BOOLEAN,
              base : Nat, ops : Seq(Ops), nodes : Seq(ModuleNodes)]
Nodes == ModuleNodes \cup Callables
NoRegion == [kind |-> "checkpoint", reentrant |-> TRUE, fp8 |-> FALSE,
             base |-> 0, ops |-> <<>>, nodes |-> <<>>]

Modes == {"idle", "forward", "checkpoint", "replay", "backward", "reduce",
          "unwinding", "raised"}

\* use_reentrant=True runs the checkpointed forward under torch.no_grad().
GradEnabled == ~(mode = "checkpoint" /\ region.reentrant)

Outside == [enabled |-> FALSE, isFirst |-> FALSE, depth |-> 0]

Init ==
  /\ qstate = Outside
  /\ contexts = <<>>
  /\ recompute = [inRegion |-> FALSE, phase |-> FALSE]
  /\ firstStash = <<>>
  /\ fp8 = [m \in Modules |-> FALSE]
  /\ buffered = {}
  /\ fwd = [m \in Modules |-> FreshTensor]
  /\ bwd = [m \in Modules |-> FreshTensor]
  /\ stash = [m \in Modules |-> <<>>]
  /\ updated = [m \in Modules |-> NoTensor]
  /\ mode = "idle" /\ current = NoModule
  /\ iter = 0 /\ started = 0 /\ called = {}
  /\ tape = <<>> /\ region = NoRegion /\ pending = <<>> /\ todo = <<>>

-----------------------------------------------------------------------------
(***************************************************************************)
(* FP8GlobalStateManager                                                   *)
(***************************************************************************)

\* reduce_and_update_fp8_tensors: every registered tensor of one direction.
Reduced(tensors) ==
  [m \in Modules |->
     IF m \in buffered THEN AmaxAndScaleUpdate(tensors[m]) ELSE tensors[m]]

\* Mutant: the nesting depth is not counted on entry.
BugEnterDepth(q, enabled) ==
  /\ contexts' = Append(contexts, [own |-> enabled, enabled |-> q.enabled,
                                   isFirst |-> q.isFirst])
  /\ qstate' = [enabled |-> enabled, isFirst |-> TRUE, depth |-> q.depth]

\* Mutant: entering the outermost context does not arm the first-module flag.
BugEnterFirst(q, enabled) ==
  /\ contexts' = Append(contexts, [own |-> enabled, enabled |-> q.enabled,
                                   isFirst |-> q.isFirst])
  /\ qstate' = [q EXCEPT !.enabled = enabled, !.depth = @ + 1]

\* autocast.__enter__ with the global state q: save q, then autocast_enter.
AutocastEnter(q, enabled) ==
  /\ contexts' = Append(contexts, [own |-> enabled, enabled |-> q.enabled,
                                   isFirst |-> q.isFirst])
  /\ qstate' = [enabled |-> enabled,
                isFirst |-> IF q.depth = 0 THEN TRUE ELSE q.isFirst,
                depth   |-> q.depth + 1]

\* Mutant: the depth is tested before it is decremented.
BugExitDepth ==
  LET ctx == Last(contexts)
  IN  /\ contexts # <<>>
      /\ contexts' = Front(contexts)
      /\ qstate' = [enabled |-> ctx.enabled, isFirst |-> ctx.isFirst,
                    depth |-> qstate.depth - 1]
      /\ fwd' = IF ctx.own /\ qstate.depth = 0 /\ GradEnabled
                THEN Reduced(fwd) ELSE fwd

\* Mutant: the exit goes back to the defaults instead of the saved state, and
\* reduces on every exit.
BugExitState ==
  /\ contexts # <<>>
  /\ contexts' = Front(contexts)
  /\ qstate' = [qstate EXCEPT !.depth = @ - 1]
  /\ fwd' = Reduced(fwd)

\* autocast.__exit__: restore the saved state, then autocast_exit, which
\* reduces the forward amaxes on leaving the outermost enabled context.
AutocastExit ==
  LET ctx == Last(contexts)
  IN  /\ contexts # <<>>
      /\ contexts' = Front(contexts)
      /\ qstate' = [enabled |-> ctx.enabled, isFirst |-> ctx.isFirst,
                    depth |-> qstate.depth - 1]
      /\ fwd' = IF ctx.own /\ qstate.depth = 1 /\ GradEnabled
                THEN Reduced(fwd) ELSE fwd

\* Mutant: the newest stash is taken instead of the oldest.
BugNewestStash(m) ==
  /\ fp8[m] /\ recompute.phase
  /\ stash[m] # <<>>
  /\ updated' = [updated EXCEPT ![m] = fwd[m]]
  /\ fwd' = [fwd EXCEPT ![m] = Last(stash[m])]
  /\ stash' = [stash EXCEPT ![m] = Front(@)]
  /\ UNCHANGED <<fp8, buffered>>

\* prepare_forward of a recompute: set the tensors of now aside and go back
\* to those the first forward started from.
SwitchToStash(m) ==
  /\ fp8[m] /\ recompute.phase
  /\ stash[m] # <<>>
  /\ updated' = [updated EXCEPT ![m] = fwd[m]]
  /\ fwd' = [fwd EXCEPT ![m] = Head(stash[m])]
  /\ stash' = [stash EXCEPT ![m] = Tail(@)]
  /\ UNCHANGED <<fp8, buffered>>

\* Mutant: the stash is skipped where the forward runs under no_grad.
BugNoGradStash(m) ==
  /\ ~(fp8[m] /\ recompute.phase)
  /\ fp8' = [fp8 EXCEPT ![m] = qstate.enabled]
  /\ buffered' = IF qstate.enabled THEN buffered \cup {m} ELSE buffered
  /\ stash' = IF qstate.enabled /\ recompute.inRegion /\ GradEnabled
              THEN [stash EXCEPT ![m] = Append(@, fwd[m])] ELSE stash
  /\ UNCHANGED <<fwd, updated>>

\* prepare_forward otherwise: init_fp8_metadata, register in the global
\* buffers once, and stash the tensors inside a checkpoint region.
InitMetadata(m) ==
  /\ ~(fp8[m] /\ recompute.phase)
  /\ fp8' = [fp8 EXCEPT ![m] = qstate.enabled]
  /\ buffered' = IF qstate.enabled THEN buffered \cup {m} ELSE buffered
  /\ stash' = IF qstate.enabled /\ recompute.inRegion
              THEN [stash EXCEPT ![m] = Append(@, fwd[m])] ELSE stash
  /\ UNCHANGED <<fwd, updated>>

PrepareForward(m) ==
  /\ current = NoModule
  /\ current' = m
  /\ SwitchToStash(m) \/ InitMetadata(m)

\* Mutant: end_forward of a recompute keeps the recomputed history.
BugNoRestore(m) ==
  /\ current = m
  /\ current' = NoModule
  /\ fwd' = IF fp8[m]
            THEN [fwd EXCEPT ![m] =
                    Record(IF recompute.phase THEN updated[m] ELSE @, iter)]
            ELSE fwd
  /\ qstate' = IF fp8[m] /\ GradEnabled /\ ~recompute.phase
               THEN [qstate EXCEPT !.isFirst = FALSE] ELSE qstate

\* The forward itself, the is_first_fp8_module check made when autograd
\* records it, and end_forward.  A recompute puts the flag and the set-aside
\* tensors back.
EndForward(m) ==
  /\ current = m
  /\ current' = NoModule
  /\ IF fp8[m] /\ recompute.phase
     THEN /\ updated[m] # NoTensor
          /\ fwd' = [fwd EXCEPT ![m] = updated[m]]
     ELSE fwd' = IF fp8[m] THEN [fwd EXCEPT ![m] = Record(@, iter)] ELSE fwd
  /\ qstate' = IF fp8[m] /\ GradEnabled /\ ~recompute.phase
               THEN [qstate EXCEPT !.isFirst = FALSE] ELSE qstate

NodeOf(m) == [kind |-> "module", mod |-> m, fp8 |-> fp8[m],
              first |-> fp8[m] /\ qstate.isFirst]
-----------------------------------------------------------------------------
(***************************************************************************)
(* Forward passes                                                          *)
(***************************************************************************)
StartForward ==
  /\ mode = "idle"
  /\ started < MaxIter /\ Len(pending) < MaxInFlight
  /\ mode' = "forward"
  /\ started' = started + 1 /\ iter' = started + 1 /\ called' = {}
  /\ UNCHANGED <<libVars, qstate, contexts, recompute, fwd, bwd, current,
                 tape, region, pending, todo>>

InScript ==
  /\ mode \in {"forward", "checkpoint"}
  /\ current = NoModule

Recording == mode = "checkpoint" => Len(region.ops) < MaxRegionOps

Recorded(op) ==
  IF mode = "checkpoint" THEN [region EXCEPT !.ops = Append(@, op)] ELSE region

\* with autocast(enabled=...): in the script or in a checkpointed callable
EnterContext(enabled) ==
  /\ InScript /\ Recording
  /\ mode = "checkpoint" => InnerAutocast
  /\ Len(contexts) < MaxDepth /\ called # Modules
  /\ enabled => qstate.enabled \/ contexts = <<>> \/ EnableInDisabled
  /\ AutocastEnter(qstate, enabled)
  /\ region' = Recorded([op |-> "enter", enabled |-> enabled])
  /\ UNCHANGED <<libVars, scriptVars, recompute, fwd, bwd, mode, current, tape>>

ExitContext ==
  /\ InScript
  /\ Len(contexts) > IF mode = "checkpoint" THEN region.base ELSE 0
  /\ AutocastExit
  /\ region' = Recorded([op |-> "exit"])
  /\ UNCHANGED <<libVars, scriptVars, recompute, bwd, mode, current, tape>>

MayCall(m) ==
  /\ m \notin called
  /\ m \in FP8Only => qstate.enabled
  /\ m \in HighOnly => ~qstate.enabled

CallModule(m) ==
  /\ InScript /\ Recording
  /\ MayCall(m)
  /\ PrepareForward(m)
  /\ called' = called \cup {m}
  /\ UNCHANGED <<qstate, contexts, recompute, firstStash, bwd, mode, iter,
                 started, tape, region, pending, todo>>

ReturnFromModule(m) ==
  /\ mode \in {"forward", "checkpoint"}
  /\ EndForward(m)
  /\ tape' = IF mode = "forward" THEN Append(tape, NodeOf(m)) ELSE tape
  /\ region' = IF mode = "forward" THEN region
               ELSE [region EXCEPT
                 !.ops = Append(@, [op |-> "call", mod |-> m, fp8 |-> fp8[m],
                                    scale |-> fwd[m].scale]),
                 !.nodes = IF GradEnabled THEN Append(@, NodeOf(m)) ELSE @]
  /\ UNCHANGED <<libVars, scriptVars, contexts, recompute, bwd, mode>>

\* te.checkpoint(function, use_reentrant=...): the first forward, in
\* activation_recompute_forward(activation_recompute=True)
StartCheckpoint(reentrant) ==
  /\ mode = "forward" /\ current = NoModule
  /\ \/ \E m \in Modules : MayCall(m)
     \/ InnerAutocast /\ called # Modules
  /\ mode' = "checkpoint"
  /\ region' = [NoRegion EXCEPT !.reentrant = reentrant,
                                !.fp8 = qstate.enabled,
                                !.base = Len(contexts)]
  /\ recompute' = [inRegion |-> TRUE, phase |-> FALSE]
  /\ firstStash' = Append(firstStash, qstate.isFirst)
  /\ UNCHANGED <<scriptVars, qstate, contexts, fp8, buffered, fwd, bwd, stash,
                 updated, current, tape>>

EndCheckpoint ==
  /\ mode = "checkpoint" /\ current = NoModule
  /\ Len(contexts) = region.base
  /\ \E i \in DOMAIN region.ops : region.ops[i].op = "call"
  /\ mode' = "forward"
  /\ recompute' = [inRegion |-> FALSE, phase |-> FALSE]
  /\ tape' = Append(tape, region)
  /\ region' = NoRegion
  /\ UNCHANGED <<libVars, scriptVars, qstate, contexts, fwd, bwd, current>>

\* The script has its loss: it keeps the graph for a backward, or drops it.
EndMicrobatch(keep) ==
  /\ mode = "forward" /\ current = NoModule
  /\ contexts = <<>> /\ tape # <<>>
  /\ keep \/ SkipBackward
  /\ mode' = "idle"
  /\ pending' = IF keep THEN Append(pending, [iter |-> iter, nodes |-> tape])
                ELSE pending
  /\ tape' = <<>> /\ iter' = 0 /\ called' = {}
  /\ UNCHANGED <<libVars, qstate, contexts, recompute, fwd, bwd, current,
                 started, region, todo>>
-----------------------------------------------------------------------------
(***************************************************************************)
(* Backward passes.  Autograd runs the nodes last to first.                *)
(***************************************************************************)
StartBackward(i) ==
  /\ mode = "idle"
  /\ i = 1 \/ LifoBackward
  /\ mode' = "backward"
  /\ iter' = pending[i].iter
  /\ todo' = pending[i].nodes
  /\ pending' = RemoveAt(pending, i)
  /\ UNCHANGED <<libVars, qstate, contexts, recompute, fwd, bwd, current,
                 started, called, tape, region>>

\* _Linear.backward: quantize the gradient; the node of the first FP8 module
\* goes on to reduce and update all backward tensors.
BackwardModule ==
  /\ mode = "backward" /\ todo # <<>>
  /\ Last(todo).kind = "module"
  /\ LET node == Last(todo)
     IN  /\ bwd' = IF node.fp8 THEN [bwd EXCEPT ![node.mod] = Record(@, iter)]
                  ELSE bwd
         /\ mode' = IF node.first THEN "reduce" ELSE "backward"
  /\ todo' = Front(todo)
  /\ UNCHANGED <<libVars, qstate, contexts, recompute, fwd, current, iter,
                 started, called, tape, region, pending>>

ReduceBackward ==
  /\ mode = "reduce"
  /\ mode' = "backward"
  /\ bwd' = Reduced(bwd)
  /\ UNCHANGED <<libVars, scriptVars, qstate, contexts, recompute, fwd,
                 current, tape, region>>

\* Mutant: the saved first-module flag is read but not removed.
BugPeekFirst ==
  /\ mode = "backward" /\ todo # <<>>
  /\ Last(todo).kind = "checkpoint"
  /\ mode' = "replay"
  /\ region' = Last(todo)
  /\ todo' = Front(todo)
  /\ recompute' = [inRegion |-> TRUE, phase |-> TRUE]
  /\ AutocastEnter([qstate EXCEPT !.isFirst = Head(firstStash)],
                   Last(todo).fp8)
  /\ UNCHANGED <<libVars, fwd, bwd, current, iter, started, called, tape,
                 pending>>

\* The backward reaches a checkpointed callable: _CheckpointFunction.backward,
\* or the unpack hook of the first saved tensor.  The saved flag is restored,
\* then autocast is entered, in that order.
StartReplay ==
  /\ mode = "backward" /\ todo # <<>>
  /\ Last(todo).kind = "checkpoint"
  /\ mode' = "replay"
  /\ region' = Last(todo)
  /\ todo' = Front(todo)
  /\ recompute' = [inRegion |-> TRUE, phase |-> TRUE]
  /\ firstStash # <<>>
  /\ firstStash' = Tail(firstStash)
  /\ AutocastEnter([qstate EXCEPT !.isFirst = Head(firstStash)],
                   Last(todo).fp8)
  /\ UNCHANGED <<fp8, buffered, stash, updated, fwd, bwd, current, iter,
                 started, called, tape, pending>>

NextOp(op) ==
  /\ mode = "replay" /\ region.ops # <<>>
  /\ Head(region.ops).op = op

Consume == region' = [region EXCEPT !.ops = Tail(@)]

ReplayEnter ==
  /\ NextOp("enter")
  /\ AutocastEnter(qstate, Head(region.ops).enabled)
  /\ Consume
  /\ UNCHANGED <<libVars, scriptVars, recompute, fwd, bwd, mode, current, tape>>

ReplayExit ==
  /\ NextOp("exit")
  /\ AutocastExit
  /\ Consume
  /\ UNCHANGED <<libVars, scriptVars, recompute, bwd, mode, current, tape>>

ReplayCall ==
  /\ NextOp("call")
  /\ PrepareForward(Head(region.ops).mod)
  /\ UNCHANGED <<scriptVars, qstate, contexts, recompute, firstStash, bwd,
                 mode, tape, region>>

ReplayReturn ==
  /\ NextOp("call")
  /\ LET m == Head(region.ops).mod
     IN  /\ EndForward(m)
         /\ tape' = IF region.reentrant THEN Append(tape, NodeOf(m)) ELSE tape
  /\ Consume
  /\ UNCHANGED <<libVars, scriptVars, contexts, recompute, bwd, mode>>

\* popleft() of an empty deque, with the tensors of now set aside already; or
\* none set aside for end_forward, with the forward already quantized.
ReplayRaises ==
  /\ NextOp("call")
  /\ LET m == Head(region.ops).mod
     IN  /\ fp8[m]
         /\ \/ /\ current = NoModule /\ stash[m] = <<>>
               /\ updated' = [updated EXCEPT ![m] = fwd[m]]
               /\ UNCHANGED fwd
            \/ /\ current = m /\ updated[m] = NoTensor
               /\ fwd' = [fwd EXCEPT ![m] = Record(@, iter)]
               /\ UNCHANGED updated
  /\ mode' = "unwinding" /\ current' = NoModule
  /\ UNCHANGED <<scriptVars, qstate, contexts, recompute, firstStash, fp8,
                 buffered, bwd, stash, tape, region>>

\* The exception leaves the with statements one by one: the autocasts of the
\* callable, then that of the recompute, and with it the recompute's region.
\* The backward is given up, whatever it has not reduced.
Unwind ==
  /\ mode = "unwinding"
  /\ AutocastExit
  /\ \/ Len(contexts) > 1 /\ UNCHANGED <<mode, recompute>>
     \/ /\ Len(contexts) = 1
        /\ mode' = "raised"
        /\ recompute' = [inRegion |-> FALSE, phase |-> FALSE]
  /\ UNCHANGED <<libVars, scriptVars, bwd, current, tape, region>>

\* Leave the recompute's autocast and region.  The reentrant checkpoint goes
\* on with the graph just recorded, the other with the original one.
EndReplay ==
  /\ mode = "replay" /\ region.ops = <<>>
  /\ AutocastExit
  /\ recompute' = [inRegion |-> FALSE, phase |-> FALSE]
  /\ mode' = "backward"
  /\ todo' = todo \o (IF region.reentrant THEN tape ELSE region.nodes)
  /\ tape' = <<>> /\ region' = NoRegion
  /\ UNCHANGED <<libVars, bwd, current, iter, started, called, pending>>

EndBackward ==
  /\ mode = "backward" /\ todo = <<>>
  /\ mode' = "idle" /\ iter' = 0
  /\ UNCHANGED <<libVars, qstate, contexts, recompute, fwd, bwd, current,
                 started, called, tape, region, pending, todo>>

\* The script ends after MaxIter microbatches, or with the exception, which it
\* does not catch.
Finished ==
  /\ \/ mode = "raised"
     \/ mode = "idle" /\ started = MaxIter /\ pending = <<>>
  /\ UNCHANGED vars

Next ==
  \/ StartForward
  \/ \E enabled \in Enabled : EnterContext(enabled)
  \/ ExitContext
  \/ \E m \in Modules : CallModule(m) \/ ReturnFromModule(m)
  \/ \E reentrant \in Reentrant : StartCheckpoint(reentrant)
  \/ EndCheckpoint
  \/ \E keep \in BOOLEAN : EndMicrobatch(keep)
  \/ \E i \in DOMAIN pending : StartBackward(i)
  \/ BackwardModule \/ ReduceBackward \/ StartReplay
  \/ ReplayEnter \/ ReplayExit \/ ReplayCall \/ ReplayReturn \/ ReplayRaises
  \/ Unwind \/ EndReplay \/ EndBackward
  \/ Finished

Spec == Init /\ [][Next]_vars
-----------------------------------------------------------------------------
TypeOK ==
  /\ qstate \in [enabled : BOOLEAN, isFirst : BOOLEAN, depth : Nat]
  /\ contexts \in Seq([own : BOOLEAN, enabled : BOOLEAN, isFirst : BOOLEAN])
  /\ recompute \in [inRegion : BOOLEAN, phase : BOOLEAN]
  /\ firstStash \in Seq(BOOLEAN)
  /\ fp8 \in [Modules -> BOOLEAN] /\ buffered \subseteq Modules
  /\ fwd \in [Modules -> Tensor] /\ bwd \in [Modules -> Tensor]
  /\ stash \in [Modules -> Seq(Tensor)]
  /\ updated \in [Modules -> Tensor \cup {NoTensor}]
  /\ mode \in Modes /\ current \in Modules \cup {NoModule}
  /\ iter \in Iters \cup {0} /\ started \in Iters \cup {0}
  /\ called \subseteq Modules
  /\ tape \in Seq(Nodes) /\ todo \in Seq(Nodes)
  /\ region \in Callables
  /\ pending \in Seq([iter : Iters, nodes : Seq(Nodes)])

\* A recompute runs in the precision of the first forward and quantizes with
\* the same scale ("for identical numerical outputs", quantization.py:815).
RecomputeSameScale ==
  mode = "replay" /\ current # NoModule =>
    LET call == Head(region.ops)
    IN  /\ fp8[current] = call.fp8
        /\ call.fp8 => fwd[current].scale = call.scale

\* A recompute never fails for lack of stashed tensors.
NoRaise == mode \notin {"unwinding", "raised"}

\* What checkpointed forwards stash, their recomputes use up: nothing is left
\* to be mistaken for the state of a later forward.
NothingLeftInStash ==
  mode = "idle" /\ pending = <<>> =>
    /\ firstStash = <<>>
    /\ \A m \in Modules : stash[m] = <<>>

\* Between forward passes every forward amax has gone into a new scaling
\* factor, ready for the next iteration (fp8_primer.ipynb:226).
ForwardAmaxesRolled ==
  mode = "idle" => \A m \in Modules : fwd[m].hist[1] = {}

\* A backward reduces the amaxes of all the gradients it quantized: one of
\* its nodes is still to come that will reduce, as long as any is pending.
GradientAmaxesRolled ==
  mode = "idle" => \A m \in Modules : bwd[m].hist[1] = {}

\* The history is that of the last amax_history_len steps: no empty row has
\* come between two amaxes, and no amax is in two rows (it would count twice,
\* and stay beyond its time).  A recompute that raises after it has quantized
\* leaves its amaxes in, a second time: nothing is claimed from there on.
HistoryIsWindow ==
  mode \notin {"unwinding", "raised"} =>
    \A t \in {fwd[m] : m \in Modules} \cup {bwd[m] : m \in Modules} :
      \A i, j \in Rows :
        i < j => /\ t.hist[i] \cap t.hist[j] = {}
                 /\ i > 1 /\ t.hist[i] # {} => t.hist[j] # {}

\* Outside of all contexts FP8 is off again, whatever the nesting, and also
\* when an exception has left them.
ContextsRestored ==
  contexts = <<>> => ~qstate.enabled /\ qstate.depth = 0

\* The detailed system implements the sliding windows of AmaxWindow; the
\* unfused update rolls every history it reduces.  While a recompute has a
\* module on its old tensors, those set aside are its state.
Directions == {"forward", "backward"}

TensorOf(m, d) ==
  IF d = "backward" THEN bwd[m]
  ELSE IF mode = "replay" /\ current = m /\ updated[m] # NoTensor
       THEN updated[m] ELSE fwd[m]

PastOf(t) == [i \in 1..HistoryLen - 1 |-> t.hist[HistoryLen + 1 - i]]

Window == INSTANCE AmaxWindow WITH
  Tensors <- Modules \X Directions,
  Window  <- HistoryLen,
  Obs     <- Iters,
  IdleAges <- ~Fused,
  current <- [md \in Modules \X Directions |-> TensorOf(md[1], md[2]).hist[1]],
  past    <- [md \in Modules \X Directions |-> PastOf(TensorOf(md[1], md[2]))],
  scale   <- [md \in Modules \X Directions |-> TensorOf(md[1], md[2]).scale]

ImplementsWindow == Window!Spec
=============================================================================
