----------------------- MODULE FP8DelayedScaling_proofs -----------------------
(***************************************************************************)
(* For any number of modules and microbatches, any history length and any  *)
(* script: the global FP8 state stays well typed, nested contexts restore  *)
(* it, and a backward reduces the amaxes of all the gradients it has       *)
(* quantized.  For scripts that call every module in FP8 and the fused     *)
(* update, the amax histories implement the sliding windows of AmaxWindow  *)
(* through recomputes, pipelining and nested contexts.  For scripts that,  *)
(* besides, keep every graph and run backwards in the order of the         *)
(* forwards, a recompute finds the tensors its first forward stashed,      *)
(* quantizes with the same scale, and the recomputes use up all that the   *)
(* first forwards saved.  For scripts that open their contexts outside of  *)
(* checkpointed callables and no enabled one in a disabled one, every      *)
(* forward amax is rolled.  With the fused update, in any script, every    *)
(* history is the window of the last steps.                                *)
(***************************************************************************)
EXTENDS FP8DelayedScaling, SequenceTheorems, FiniteSetTheorems, TLAPS

-----------------------------------------------------------------------------
(***************************************************************************)
(* Sequences                                                               *)
(***************************************************************************)

\* A prefix has the length asked for.
LEMMA PrefixLength ==
  ASSUME NEW S, NEW s \in Seq(S), NEW n \in Nat, n <= Len(s)
  PROVE  Len(SubSeq(s, 1, n)) = n
  OBVIOUS

\* A non-empty sequence splits into its front and its last element.
LEMMA LastFrontType ==
  ASSUME NEW S, NEW s \in Seq(S), s # <<>>
  PROVE  /\ Last(s) \in S
         /\ Front(s) \in Seq(S)
         /\ Len(Front(s)) = Len(s) - 1
         /\ \A i \in 1..Len(s) - 1 : Front(s)[i] = s[i]
<1>1. Len(s) \in Nat \ {0}
  BY EmptySeq
<1>2. Last(s) \in S
  BY <1>1 DEF Last
<1>3. Front(s) \in Seq(S)
  BY DEF Front
<1>4. Len(Front(s)) = Len(s) - 1
  BY <1>1, PrefixLength DEF Front
<1>5. \A i \in 1..Len(s) - 1 : Front(s)[i] = s[i]
  BY DEF Front
<1>6. QED
  BY <1>2, <1>3, <1>4, <1>5

\* Removing an element leaves a sequence over the same set.
LEMMA RemoveAtType ==
  ASSUME NEW S, NEW s \in Seq(S), NEW i \in DOMAIN s
  PROVE  RemoveAt(s, i) \in Seq(S)
  BY DEF RemoveAt

\* Sequences over a set are sequences over every larger set.
LEMMA SeqSubset ==
  ASSUME NEW S, NEW T, S \subseteq T
  PROVE  Seq(S) \subseteq Seq(T)
  OBVIOUS

-----------------------------------------------------------------------------
(***************************************************************************)
(* Tensors                                                                 *)
(***************************************************************************)
LEMMA RecordType ==
  ASSUME NEW t \in Tensor, NEW o \in Iters
  PROVE  Record(t, o) \in Tensor
<1>1. 1 \in Rows
  BY ScriptAssumption DEF Rows
<1>2. QED
  BY <1>1 DEF Record, Tensor, Amax

LEMMA UpdateType ==
  ASSUME NEW t \in Tensor
  PROVE  AmaxAndScaleUpdate(t) \in Tensor
<1>1. 1 \in Rows
  BY ScriptAssumption DEF Rows
<1>2. UpdateAmaxHistory(t.hist) \in [Rows -> Amax]
  <2>1. \A i \in Rows : i # HistoryLen => i + 1 \in Rows
    BY ScriptAssumption DEF Rows
  <2>2. t.hist \in [Rows -> Amax]
    BY DEF Tensor
  <2>3. QED
    BY <1>1, <2>1, <2>2 DEF UpdateAmaxHistory, Amax
<1>3. AmaxOf(t.hist) \in Amax
  BY <1>1 DEF AmaxOf, Tensor, Amax
<1>4. QED
  BY <1>2, <1>3 DEF AmaxAndScaleUpdate, ScalingFactor, Tensor

LEMMA ReducedType ==
  ASSUME NEW ts \in [Modules -> Tensor]
  PROVE  Reduced(ts) \in [Modules -> Tensor]
  BY UpdateType DEF Reduced

-----------------------------------------------------------------------------
(***************************************************************************)
(* The inductive invariant.  Running says that a pass has a microbatch to  *)
(* record amaxes of; Nesting that the depth counts the active contexts and *)
(* that the outermost one saved the disabled state, so that leaving it     *)
(* restores that state.                                                    *)
(***************************************************************************)
Running == mode \notin {"idle", "unwinding", "raised"} => iter \in Iters

Nesting ==
  /\ qstate.depth = Len(contexts)
  /\ contexts = <<>> => ~qstate.enabled
  /\ contexts # <<>> => ~contexts[1].enabled

Inv == TypeOK /\ Running /\ Nesting

Contexts == [own : BOOLEAN, enabled : BOOLEAN, isFirst : BOOLEAN]
Microbatches == [iter : Iters, nodes : Seq(Nodes)]
QStates == [enabled : BOOLEAN, isFirst : BOOLEAN, depth : Nat]

\* Entering a context keeps the state typed and nested.
LEMMA EnterKeeps ==
  ASSUME NEW q \in QStates, NEW enabled \in BOOLEAN,
         contexts \in Seq(Contexts), AutocastEnter(q, enabled),
         q.depth = Len(contexts),
         contexts = <<>> => ~q.enabled,
         contexts # <<>> => ~contexts[1].enabled
  PROVE  /\ contexts' \in Seq(Contexts)
         /\ qstate' \in QStates
         /\ Nesting'
<1> DEFINE ctx == [own |-> enabled, enabled |-> q.enabled,
                   isFirst |-> q.isFirst]
<1>1. ctx \in Contexts
  BY DEF Contexts, QStates
<1>2. contexts' = Append(contexts, ctx)
  BY DEF AutocastEnter
<1>3. contexts' \in Seq(Contexts) /\ Len(contexts') = Len(contexts) + 1
  BY <1>1, <1>2
<1>4. qstate' \in QStates /\ qstate'.depth = Len(contexts')
  <2>1. qstate' = [enabled |-> enabled,
                   isFirst |-> IF q.depth = 0 THEN TRUE ELSE q.isFirst,
                   depth   |-> q.depth + 1]
    BY DEF AutocastEnter
  <2>2. (IF q.depth = 0 THEN TRUE ELSE q.isFirst) \in BOOLEAN
    BY DEF QStates
  <2>3. q.depth + 1 \in Nat /\ q.depth + 1 = Len(contexts')
    BY <1>3 DEF QStates
  <2>4. QED
    BY <2>1, <2>2, <2>3 DEF QStates
<1>5. contexts' # <<>>
  BY <1>3
<1>6. ~contexts'[1].enabled
  <2>1. CASE contexts = <<>>
    BY <1>2, <2>1
  <2>2. CASE contexts # <<>>
    BY <1>1, <1>2, <2>2
  <2>3. QED
    BY <2>1, <2>2
<1>7. QED
  BY <1>3, <1>4, <1>5, <1>6 DEF Nesting

\* Leaving one does, and at the outermost exit FP8 is off again.
LEMMA ExitKeeps ==
  ASSUME TypeOK, Nesting, AutocastExit
  PROVE  /\ contexts' \in Seq(Contexts)
         /\ qstate' \in QStates
         /\ fwd' \in [Modules -> Tensor]
         /\ Nesting'
<1>1. contexts \in Seq(Contexts) /\ contexts # <<>>
  BY DEF TypeOK, Contexts, AutocastExit
<1>2. /\ contexts' \in Seq(Contexts)
      /\ Len(contexts') = Len(contexts) - 1
      /\ \A i \in 1..Len(contexts) - 1 : contexts'[i] = contexts[i]
      /\ Last(contexts) \in Contexts
  BY <1>1, LastFrontType DEF AutocastExit
<1>3. Len(contexts) \in Nat \ {0} /\ Len(contexts') \in Nat
  BY <1>1, <1>2, EmptySeq
<1>4. qstate' \in QStates /\ qstate'.depth = Len(contexts')
  BY <1>2, <1>3 DEF AutocastExit, Nesting, QStates, Contexts
<1>5. fwd' \in [Modules -> Tensor]
  BY ReducedType DEF AutocastExit, TypeOK
<1>6. contexts' = <<>> => ~qstate'.enabled
  <2> SUFFICES ASSUME contexts' = <<>>
               PROVE  ~qstate'.enabled
    OBVIOUS
  <2>1. Len(contexts) = 1
    BY <1>2, <1>3
  <2>2. Last(contexts) = contexts[1]
    BY <2>1 DEF Last
  <2>3. qstate'.enabled = contexts[1].enabled
    BY <2>2 DEF AutocastExit
  <2>4. QED
    BY <1>1, <2>3 DEF Nesting
<1>7. contexts' # <<>> => ~contexts'[1].enabled
  <2> SUFFICES ASSUME contexts' # <<>>
               PROVE  ~contexts'[1].enabled
    OBVIOUS
  <2>1. Len(contexts') # 0
    BY <1>2, EmptySeq
  <2>2. 1 \in 1..Len(contexts) - 1
    BY <1>2, <1>3, <2>1
  <2>3. contexts'[1] = contexts[1]
    BY <1>2, <2>2
  <2>4. QED
    BY <1>1, <2>3 DEF Nesting
<1>8. QED
  BY <1>2, <1>4, <1>5, <1>6, <1>7 DEF Nesting

\* A module call keeps the tensors, the deques and the flags typed.
LEMMA PrepareKeeps ==
  ASSUME TypeOK, NEW m \in Modules, PrepareForward(m)
  PROVE  /\ fp8' \in [Modules -> BOOLEAN] /\ buffered' \subseteq Modules
         /\ fwd' \in [Modules -> Tensor]
         /\ stash' \in [Modules -> Seq(Tensor)]
         /\ updated' \in [Modules -> Tensor \cup {NoTensor}]
         /\ current' \in Modules \cup {NoModule}
<1>1. current' \in Modules \cup {NoModule}
  BY DEF PrepareForward
<1>2. /\ stash[m] \in Seq(Tensor) /\ fwd[m] \in Tensor
      /\ qstate.enabled \in BOOLEAN
  BY DEF TypeOK
<1>3. CASE SwitchToStash(m)
  <2>1. Head(stash[m]) \in Tensor /\ Tail(stash[m]) \in Seq(Tensor)
    BY <1>2, <1>3 DEF SwitchToStash
  <2>2. QED
    BY <1>1, <1>2, <1>3, <2>1 DEF SwitchToStash, TypeOK
<1>4. CASE InitMetadata(m)
  <2>1. Append(stash[m], fwd[m]) \in Seq(Tensor)
    BY <1>2
  <2>2. stash' \in [Modules -> Seq(Tensor)]
    BY <1>4, <2>1 DEF InitMetadata, TypeOK
  <2>3. fp8' \in [Modules -> BOOLEAN] /\ buffered' \subseteq Modules
    BY <1>2, <1>4 DEF InitMetadata, TypeOK
  <2>4. QED
    BY <1>1, <1>4, <2>2, <2>3 DEF InitMetadata, TypeOK
<1>5. QED
  BY <1>3, <1>4 DEF PrepareForward

LEMMA EndForwardKeeps ==
  ASSUME TypeOK, Nesting, NEW m \in Modules, iter \in Iters, EndForward(m),
         UNCHANGED contexts
  PROVE  /\ fwd' \in [Modules -> Tensor]
         /\ qstate' \in QStates
         /\ current' \in Modules \cup {NoModule}
         /\ Nesting'
<1>1. fwd[m] \in Tensor /\ Record(fwd[m], iter) \in Tensor
  BY RecordType DEF TypeOK
<1>2. fwd' \in [Modules -> Tensor]
  <2>1. CASE fp8[m] /\ recompute.phase
    <3>1. updated[m] \in Tensor
      BY <2>1 DEF EndForward, TypeOK
    <3>2. QED
      BY <2>1, <3>1 DEF EndForward, TypeOK
  <2>2. CASE ~(fp8[m] /\ recompute.phase)
    BY <1>1, <2>2 DEF EndForward, TypeOK
  <2>3. QED
    BY <2>1, <2>2
<1>3. /\ qstate' \in QStates
      /\ qstate'.depth = qstate.depth /\ qstate'.enabled = qstate.enabled
  BY DEF EndForward, TypeOK, QStates
<1>4. Nesting'
  BY <1>3 DEF Nesting
<1>5. QED
  BY <1>2, <1>3, <1>4 DEF EndForward

LEMMA NodeOfType ==
  ASSUME TypeOK, NEW m \in Modules
  PROVE  NodeOf(m) \in ModuleNodes /\ NodeOf(m) \in Nodes
<1>1. fp8[m] \in BOOLEAN /\ (fp8[m] /\ qstate.isFirst) \in BOOLEAN
  BY DEF TypeOK
<1>2. QED
  BY <1>1 DEF NodeOf, ModuleNodes, Nodes

\* The operations of a callable and the nodes a replay leaves are typed.
LEMMA RecordedType ==
  ASSUME TypeOK, NEW op \in Ops
  PROVE  Recorded(op) \in Callables
<1>1. Append(region.ops, op) \in Seq(Ops)
  BY DEF TypeOK, Callables
<1>2. QED
  BY <1>1 DEF Recorded, TypeOK, Callables

LEMMA NodeKinds ==
  /\ \A n \in Nodes : n.kind = "module" => n \in ModuleNodes
  /\ \A n \in Nodes : n.kind = "checkpoint" => n \in Callables
  BY DEF Nodes, ModuleNodes, Callables

LEMMA OpKinds ==
  /\ \A op \in Ops : op.op = "enter" => op.enabled \in BOOLEAN
  /\ \A op \in Ops : op.op = "call" => op.mod \in Modules
  BY DEF Ops, EnterOps, ExitOps, CallOps

LEMMA InitInv == Init => Inv
  BY ScriptAssumption, EmptySeq
  DEF Init, Inv, TypeOK, Running, Nesting, Outside, FreshTensor, Tensor, Amax,
      Modes, NoRegion, Callables

\* Every action preserves the invariant.
LEMMA InvStep == Inv /\ [Next]_vars => Inv'
<1> SUFFICES ASSUME Inv, [Next]_vars
             PROVE  Inv'
  OBVIOUS
<1> USE DEF Inv, QStates, Contexts
<1>1. CASE StartForward
  <2>1. started + 1 \in Iters
    BY <1>1, ScriptAssumption DEF StartForward, TypeOK, Iters
  <2>2. QED
    BY <1>1, <2>1 DEF StartForward, TypeOK, Running, Nesting, Modes, libVars
<1>2. ASSUME NEW enabled \in Enabled, EnterContext(enabled)
      PROVE  Inv'
  <2>1. enabled \in BOOLEAN
    BY ScriptAssumption
  <2>2. /\ contexts' \in Seq(Contexts) /\ qstate' \in QStates
        /\ Nesting'
    BY <1>2, <2>1, EnterKeeps DEF EnterContext, TypeOK, Nesting
  <2>3. region' \in Callables
    BY <1>2, <2>1, RecordedType DEF EnterContext, Ops, EnterOps
  <2>4. QED
    BY <1>2, <2>2, <2>3
    DEF EnterContext, TypeOK, Running, libVars, scriptVars
<1>3. CASE ExitContext
  <2>1. /\ contexts' \in Seq(Contexts) /\ qstate' \in QStates
        /\ fwd' \in [Modules -> Tensor] /\ Nesting'
    BY <1>3, ExitKeeps DEF ExitContext
  <2>2. region' \in Callables
    BY <1>3, RecordedType DEF ExitContext, Ops, ExitOps
  <2>3. QED
    BY <1>3, <2>1, <2>2 DEF ExitContext, TypeOK, Running, libVars, scriptVars
<1>4. ASSUME NEW m \in Modules, CallModule(m)
      PROVE  Inv'
  BY <1>4, PrepareKeeps DEF CallModule, TypeOK, Running, Nesting
<1>5. ASSUME NEW m \in Modules, ReturnFromModule(m)
      PROVE  Inv'
  <2>1. iter \in Iters
    BY <1>5 DEF ReturnFromModule, Running
  <2>2. /\ fwd' \in [Modules -> Tensor] /\ qstate' \in QStates
        /\ current' \in Modules \cup {NoModule} /\ Nesting'
    BY <1>5, <2>1, EndForwardKeeps DEF ReturnFromModule
  <2>3. tape' \in Seq(Nodes)
    BY <1>5, NodeOfType DEF ReturnFromModule, TypeOK
  <2>4. region' \in Callables
    <3> DEFINE op == [op |-> "call", mod |-> m, fp8 |-> fp8[m],
                      scale |-> fwd[m].scale]
               nodes == IF GradEnabled THEN Append(region.nodes, NodeOf(m))
                        ELSE region.nodes
    <3>1. op \in Ops
      BY DEF TypeOK, Ops, CallOps, Tensor
    <3>2. Append(region.ops, op) \in Seq(Ops)
      BY <3>1 DEF TypeOK, Callables
    <3>3. nodes \in Seq(ModuleNodes)
      BY NodeOfType DEF TypeOK, Callables
    <3>4. \/ region' = region
          \/ region' = [region EXCEPT !.ops = Append(@, op), !.nodes = nodes]
      BY <1>5 DEF ReturnFromModule
    <3> HIDE DEF op, nodes
    <3>5. QED
      BY <3>2, <3>3, <3>4 DEF TypeOK, Callables
  <2>5. QED
    BY <1>5, <2>1, <2>2, <2>3, <2>4
    DEF ReturnFromModule, TypeOK, Running, libVars, scriptVars
<1>6. ASSUME NEW reentrant \in Reentrant, StartCheckpoint(reentrant)
      PROVE  Inv'
  <2>1. region' \in Callables
    <3>1. qstate.enabled \in BOOLEAN /\ Len(contexts) \in Nat
      BY DEF TypeOK
    <3>2. reentrant \in BOOLEAN
      BY ScriptAssumption
    <3>3. region' = [kind |-> "checkpoint", reentrant |-> reentrant,
                     fp8 |-> qstate.enabled, base |-> Len(contexts),
                     ops |-> <<>>, nodes |-> <<>>]
      BY <1>6 DEF StartCheckpoint, NoRegion
    <3>4. QED
      BY <3>1, <3>2, <3>3 DEF Callables
  <2>2. firstStash' \in Seq(BOOLEAN)
    BY <1>6 DEF StartCheckpoint, TypeOK
  <2>3. QED
    BY <1>6, <2>1, <2>2
    DEF StartCheckpoint, TypeOK, Running, Nesting, scriptVars, Modes
<1>7. CASE EndCheckpoint
  <2>1. tape' \in Seq(Nodes)
    BY <1>7 DEF EndCheckpoint, TypeOK, Nodes
  <2>2. region' \in Callables
    BY <1>7 DEF EndCheckpoint, Callables, NoRegion
  <2>3. QED
    BY <1>7, <2>1, <2>2
    DEF EndCheckpoint, TypeOK, Running, Nesting, libVars, scriptVars, Modes
<1>8. ASSUME NEW keep \in BOOLEAN, EndMicrobatch(keep)
      PROVE  Inv'
  <2>1. pending' \in Seq([iter : Iters, nodes : Seq(Nodes)])
    <3> DEFINE mb == [iter |-> iter, nodes |-> tape]
    <3>1. mb \in Microbatches /\ pending \in Seq(Microbatches)
      BY <1>8 DEF EndMicrobatch, TypeOK, Running, Microbatches
    <3>2. pending' = Append(pending, mb) \/ pending' = pending
      BY <1>8 DEF EndMicrobatch
    <3> HIDE DEF mb
    <3>3. pending' \in Seq(Microbatches)
      BY <3>1, <3>2
    <3>4. QED
      BY <3>3 DEF Microbatches
  <2>2. QED
    BY <1>8, <2>1
    DEF EndMicrobatch, TypeOK, Running, Nesting, libVars, Modes
<1>9. ASSUME NEW i \in DOMAIN pending, StartBackward(i)
      PROVE  Inv'
  <2>1. pending[i] \in [iter : Iters, nodes : Seq(Nodes)]
    <3>1. pending \in Seq(Microbatches)
      BY DEF TypeOK, Microbatches
    <3>2. pending[i] \in Microbatches
      BY <3>1
    <3>3. QED
      BY <3>2 DEF Microbatches
  <2>2. pending' \in Seq([iter : Iters, nodes : Seq(Nodes)])
    BY <1>9, RemoveAtType DEF StartBackward, TypeOK
  <2>3. QED
    BY <1>9, <2>1, <2>2
    DEF StartBackward, TypeOK, Running, Nesting, libVars, Modes
<1>10. CASE BackwardModule
  <2>1. Last(todo) \in Nodes /\ todo' \in Seq(Nodes)
    BY <1>10, LastFrontType DEF BackwardModule, TypeOK
  <2>2. Last(todo) \in ModuleNodes
    BY <1>10, <2>1, NodeKinds DEF BackwardModule
  <2>3. bwd[Last(todo).mod] \in Tensor /\ iter \in Iters
    BY <1>10, <2>2 DEF BackwardModule, TypeOK, Running, ModuleNodes
  <2>4. Record(bwd[Last(todo).mod], iter) \in Tensor
    BY <2>3, RecordType
  <2>5. bwd' \in [Modules -> Tensor]
    BY <1>10, <2>4 DEF BackwardModule, TypeOK
  <2>6. QED
    BY <1>10, <2>1, <2>5
    DEF BackwardModule, TypeOK, Running, Nesting, libVars, Modes
<1>11. CASE ReduceBackward
  BY <1>11, ReducedType
  DEF ReduceBackward, TypeOK, Running, Nesting, libVars, scriptVars, Modes
<1>12. CASE StartReplay
  <2>1. Last(todo) \in Nodes /\ todo' \in Seq(Nodes)
    BY <1>12, LastFrontType DEF StartReplay, TypeOK
  <2>2. Last(todo) \in Callables
    BY <1>12, <2>1, NodeKinds DEF StartReplay
  <2>3. Head(firstStash) \in BOOLEAN /\ firstStash' \in Seq(BOOLEAN)
    BY <1>12 DEF StartReplay, TypeOK
  <2>4. [qstate EXCEPT !.isFirst = Head(firstStash)] \in QStates
    BY <2>3 DEF TypeOK
  <2>5. /\ contexts' \in Seq(Contexts) /\ qstate' \in QStates
        /\ Nesting'
    BY <1>12, <2>2, <2>4, EnterKeeps
    DEF StartReplay, TypeOK, Nesting, Callables
  <2>6. QED
    BY <1>12, <2>1, <2>2, <2>3, <2>5
    DEF StartReplay, TypeOK, Running, libVars, Modes
<1>13. CASE ReplayEnter \/ ReplayExit \/ ReplayReturn
  <2>1. /\ Head(region.ops) \in Ops
        /\ region' \in Callables
    <3>1. region.ops \in Seq(Ops) /\ region.ops # <<>> /\ Consume
      BY <1>13
      DEF ReplayEnter, ReplayExit, ReplayReturn, NextOp, TypeOK, Callables
    <3>2. Head(region.ops) \in Ops /\ Tail(region.ops) \in Seq(Ops)
      BY <3>1
    <3>3. QED
      BY <3>1, <3>2 DEF Consume, TypeOK, Callables
  <2>2. CASE ReplayEnter
    <3>1. Head(region.ops).enabled \in BOOLEAN
      BY <2>1, <2>2, OpKinds DEF ReplayEnter, NextOp
    <3>2. /\ contexts' \in Seq(Contexts) /\ qstate' \in QStates
          /\ Nesting'
      BY <2>2, <3>1, EnterKeeps DEF ReplayEnter, TypeOK, Nesting
    <3>3. QED
      BY <2>1, <2>2, <3>2
      DEF ReplayEnter, TypeOK, Running, libVars, scriptVars
  <2>3. CASE ReplayExit
    <3>1. /\ contexts' \in Seq(Contexts) /\ qstate' \in QStates
          /\ fwd' \in [Modules -> Tensor] /\ Nesting'
      BY <2>3, ExitKeeps DEF ReplayExit
    <3>2. QED
      BY <2>1, <2>3, <3>1
      DEF ReplayExit, TypeOK, Running, libVars, scriptVars
  <2>4. CASE ReplayReturn
    <3>1. Head(region.ops).mod \in Modules /\ iter \in Iters
      BY <2>1, <2>4, OpKinds DEF ReplayReturn, NextOp, Running
    <3>2. /\ fwd' \in [Modules -> Tensor] /\ qstate' \in QStates
          /\ current' \in Modules \cup {NoModule} /\ Nesting'
      BY <2>4, <3>1, EndForwardKeeps DEF ReplayReturn
    <3>3. tape' \in Seq(Nodes)
      BY <2>4, <3>1, NodeOfType DEF ReplayReturn, TypeOK
    <3>4. QED
      BY <2>1, <2>4, <3>2, <3>3
      DEF ReplayReturn, TypeOK, Running, libVars, scriptVars
  <2>5. QED
    BY <1>13, <2>2, <2>3, <2>4
<1>14. CASE ReplayCall
  <2>1. Head(region.ops) \in Ops
    BY <1>14 DEF ReplayCall, NextOp, TypeOK, Callables
  <2>2. Head(region.ops).mod \in Modules
    BY <1>14, <2>1, OpKinds DEF ReplayCall, NextOp
  <2>3. QED
    BY <1>14, <2>2, PrepareKeeps
    DEF ReplayCall, TypeOK, Running, Nesting, scriptVars
<1>15. CASE ReplayRaises
  <2>1. Head(region.ops) \in Ops
    BY <1>15 DEF ReplayRaises, NextOp, TypeOK, Callables
  <2>2. Head(region.ops).mod \in Modules /\ iter \in Iters
    BY <1>15, <2>1, OpKinds DEF ReplayRaises, NextOp, Running
  <2>3. /\ fwd' \in [Modules -> Tensor]
        /\ updated' \in [Modules -> Tensor \cup {NoTensor}]
    <3>1. Record(fwd[Head(region.ops).mod], iter) \in Tensor
      BY <2>2, RecordType DEF TypeOK
    <3>2. \/ /\ UNCHANGED fwd
             /\ updated' = [updated EXCEPT ![Head(region.ops).mod] =
                                            fwd[Head(region.ops).mod]]
          \/ /\ UNCHANGED updated
             /\ fwd' = [fwd EXCEPT ![Head(region.ops).mod] =
                          Record(fwd[Head(region.ops).mod], iter)]
      BY <1>15 DEF ReplayRaises
    <3>3. /\ fwd \in [Modules -> Tensor]
          /\ updated \in [Modules -> Tensor \cup {NoTensor}]
      BY DEF TypeOK
    <3>4. QED
      BY <2>2, <3>1, <3>2, <3>3
  <2>4. QED
    BY <1>15, <2>2, <2>3
    DEF ReplayRaises, TypeOK, Running, Nesting, scriptVars, Modes
<1>20. CASE Unwind
  <2>1. /\ contexts' \in Seq(Contexts) /\ qstate' \in QStates
        /\ fwd' \in [Modules -> Tensor] /\ Nesting'
    BY <1>20, ExitKeeps DEF Unwind
  <2>2. /\ mode' \in {"unwinding", "raised"}
        /\ recompute' \in [inRegion : BOOLEAN, phase : BOOLEAN]
    <3>1. \/ UNCHANGED <<mode, recompute>>
          \/ /\ mode' = "raised"
             /\ recompute' = [inRegion |-> FALSE, phase |-> FALSE]
      BY <1>20 DEF Unwind
    <3>2. mode = "unwinding"
      BY <1>20 DEF Unwind
    <3>3. recompute \in [inRegion : BOOLEAN, phase : BOOLEAN]
      BY DEF TypeOK
    <3>4. CASE UNCHANGED <<mode, recompute>>
      BY <3>2, <3>3, <3>4
    <3>5. CASE mode' = "raised" /\ recompute' = [inRegion |-> FALSE, phase |-> FALSE]
      BY <3>5
    <3>6. QED
      BY <3>1, <3>4, <3>5
  <2>3. UNCHANGED <<libVars, scriptVars, bwd, current, tape, region>>
    BY <1>20 DEF Unwind
  <2>4. QED
    BY <2>1, <2>2, <2>3 DEF TypeOK, Running, libVars, scriptVars, Modes
<1>16. CASE EndReplay
  <2>1. /\ contexts' \in Seq(Contexts) /\ qstate' \in QStates
        /\ fwd' \in [Modules -> Tensor] /\ Nesting'
    BY <1>16, ExitKeeps DEF EndReplay
  <2>2. region.nodes \in Seq(Nodes)
    <3>1. region.nodes \in Seq(ModuleNodes) /\ ModuleNodes \subseteq Nodes
      BY DEF TypeOK, Callables, Nodes
    <3>2. QED
      BY <3>1, SeqSubset
  <2>3. todo' \in Seq(Nodes)
    BY <1>16, <2>2 DEF EndReplay, TypeOK
  <2>4. region' \in Callables
    BY <1>16 DEF EndReplay, Callables, NoRegion
  <2>5. QED
    BY <1>16, <2>1, <2>3, <2>4
    DEF EndReplay, TypeOK, Running, libVars, Modes
<1>17. CASE EndBackward
  BY <1>17 DEF EndBackward, TypeOK, Running, Nesting, libVars, Modes
<1>18. CASE UNCHANGED vars
  BY <1>18 DEF vars, TypeOK, Running, Nesting
<1>19. QED
  BY <1>1, <1>2, <1>3, <1>4, <1>5, <1>6, <1>7, <1>8, <1>9, <1>10, <1>11,
     <1>12, <1>13, <1>14, <1>15, <1>16, <1>17, <1>18, <1>20
  DEF Next, Finished

\* The state stays well typed in every script.
THEOREM TypeCorrect == Spec => []TypeOK
<1>1. Inv => TypeOK
  BY DEF Inv
<1>2. QED
  BY <1>1, InitInv, InvStep, PTL DEF Spec

\* However contexts nest, in the script, in a checkpointed callable and in
\* its recompute: outside of all of them FP8 is off and the depth is 0.
THEOREM StateRestored == Spec => []ContextsRestored
<1>1. Inv => ContextsRestored
  BY DEF Inv, Nesting, ContextsRestored
<1>2. QED
  BY <1>1, InitInv, InvStep, PTL DEF Spec

-----------------------------------------------------------------------------
(***************************************************************************)
(* Refinement of AmaxWindow.  First the tensor operators, one by one.      *)
(***************************************************************************)
LEMMA RowsOfPast ==
  /\ 1 \in Rows
  /\ \A i \in 1..HistoryLen - 1 :
       HistoryLen + 1 - i \in Rows /\ HistoryLen + 1 - i # 1
  BY ScriptAssumption DEF Rows

\* Recording adds to the current amax and leaves the past and the scale alone.
LEMMA RecordWindow ==
  ASSUME NEW t \in Tensor, NEW o \in Iters
  PROVE  /\ Record(t, o).hist[1] = t.hist[1] \cup {o}
         /\ PastOf(Record(t, o)) = PastOf(t)
         /\ Record(t, o).scale = t.scale
<1>1. /\ Record(t, o).hist = [t.hist EXCEPT ![1] = @ \cup {o}]
      /\ Record(t, o).scale = t.scale
  BY DEF Record, Tensor
<1>2. t.hist \in [Rows -> Amax]
  BY DEF Tensor
<1>3. QED
  BY <1>1, <1>2, RowsOfPast DEF PastOf

\* The maximum over the rows is the maximum over the window.
WindowMaxOf(t) ==
  IF MostRecent THEN t.hist[1]
  ELSE t.hist[1] \cup UNION {PastOf(t)[i] : i \in 1..HistoryLen - 1}

LEMMA AmaxIsWindowMax ==
  ASSUME NEW t \in Tensor
  PROVE  AmaxOf(t.hist) = WindowMaxOf(t)
<1>1. CASE MostRecent
  BY <1>1 DEF AmaxOf, WindowMaxOf
<1>2. CASE ~MostRecent
  <2>1. \A i \in Rows : i = 1 \/
          (HistoryLen + 1 - i \in 1..HistoryLen - 1
             /\ HistoryLen + 1 - (HistoryLen + 1 - i) = i)
    BY ScriptAssumption DEF Rows
  <2>2. UNION {t.hist[i] : i \in Rows} =
          t.hist[1] \cup
            UNION {t.hist[HistoryLen + 1 - i] : i \in 1..HistoryLen - 1}
    BY <2>1, RowsOfPast
  <2>3. \A i \in 1..HistoryLen - 1 : PastOf(t)[i] = t.hist[HistoryLen + 1 - i]
    BY DEF PastOf
  <2>4. UNION {PastOf(t)[i] : i \in 1..HistoryLen - 1} =
          UNION {t.hist[HistoryLen + 1 - i] : i \in 1..HistoryLen - 1}
    BY <2>3
  <2>5. QED
    BY <1>2, <2>2, <2>4 DEF AmaxOf, WindowMaxOf
<1>3. QED
  BY <1>1, <1>2

\* An update ages the window by one and rescales from it, unless the fused
\* kernel leaves the tensor alone.
LEMMA UpdateWindow ==
  ASSUME NEW t \in Tensor, ~Fused \/ t.hist[1] # {}
  PROVE  /\ AmaxAndScaleUpdate(t).hist[1] = {}
         /\ PastOf(AmaxAndScaleUpdate(t)) =
              [i \in 1..HistoryLen - 1 |->
                 IF i = 1 THEN t.hist[1] ELSE PastOf(t)[i - 1]]
         /\ AmaxAndScaleUpdate(t).scale =
              IF WindowMaxOf(t) # {} /\ WindowMaxOf(t) \cap Overflow = {}
              THEN WindowMaxOf(t) ELSE t.scale
<1> DEFINE h == t.hist
           u == AmaxAndScaleUpdate(t)
<1>1. h \in [Rows -> Amax]
  BY DEF Tensor
<1>2. /\ u.hist = UpdateAmaxHistory(h)
      /\ u.scale = ScalingFactor(AmaxOf(h), t.scale)
  BY DEF AmaxAndScaleUpdate
<1>3. u.hist[1] = {}
  BY <1>2, RowsOfPast DEF UpdateAmaxHistory
<1>4. \A i \in 1..HistoryLen - 1 :
        u.hist[HistoryLen + 1 - i] =
          IF i = 1 THEN h[1] ELSE PastOf(t)[i - 1]
  <2> SUFFICES ASSUME NEW i \in 1..HistoryLen - 1
               PROVE  u.hist[HistoryLen + 1 - i] =
                        IF i = 1 THEN h[1] ELSE PastOf(t)[i - 1]
    OBVIOUS
  <2>1. u.hist[HistoryLen + 1 - i] =
          IF HistoryLen + 1 - i = HistoryLen THEN h[1]
          ELSE h[(HistoryLen + 1 - i) + 1]
    BY <1>2, RowsOfPast DEF UpdateAmaxHistory
  <2>2. (HistoryLen + 1 - i = HistoryLen) <=> i = 1
    BY ScriptAssumption
  <2>3. (HistoryLen + 1 - i) + 1 = HistoryLen + 1 - (i - 1)
    BY ScriptAssumption
  <2>4. i # 1 => PastOf(t)[i - 1] = h[HistoryLen + 1 - (i - 1)]
    BY ScriptAssumption DEF PastOf
  <2>5. QED
    BY <2>1, <2>2, <2>3, <2>4
<1>5. PastOf(u) = [i \in 1..HistoryLen - 1 |->
                     IF i = 1 THEN h[1] ELSE PastOf(t)[i - 1]]
  <2> HIDE DEF u
  <2>1. QED
    BY <1>4 DEF PastOf
<1>6. AmaxOf(h) = WindowMaxOf(t)
  BY AmaxIsWindowMax
<1>7. u.scale = IF WindowMaxOf(t) # {} /\ WindowMaxOf(t) \cap Overflow = {}
                THEN WindowMaxOf(t) ELSE t.scale
  BY <1>2, <1>6 DEF ScalingFactor
<1>8. QED
  BY <1>3, <1>5, <1>7

(***************************************************************************)
(* Then the steps, on the function of all tensors.                         *)
(***************************************************************************)
Keys == Modules \X Directions
Tensors == [md \in Keys |-> TensorOf(md[1], md[2])]

LEMMA StutterStep ==
  ASSUME \A md \in Keys : Tensors'[md] = Tensors[md]
  PROVE  UNCHANGED Window!wvars
<1>1. \A md \in Keys : TensorOf(md[1], md[2])' = TensorOf(md[1], md[2])
  BY DEF Tensors
<1>2. QED
  BY <1>1 DEF Window!wvars, Keys

LEMMA ObserveStep ==
  ASSUME NEW key \in Keys, NEW o \in Iters, Tensors[key] \in Tensor,
         Tensors'[key] = Record(Tensors[key], o),
         \A md \in Keys : md # key => Tensors'[md] = Tensors[md]
  PROVE  Window!Observe(key)
<1>1. \A md \in Keys : /\ Tensors[md] = TensorOf(md[1], md[2])
                       /\ Tensors'[md] = TensorOf(md[1], md[2])'
  BY DEF Tensors
<1>2. /\ Tensors'[key].hist[1] = Tensors[key].hist[1] \cup {o}
      /\ PastOf(Tensors'[key]) = PastOf(Tensors[key])
      /\ Tensors'[key].scale = Tensors[key].scale
  BY RecordWindow
<1>3. [md \in Keys |-> TensorOf(md[1], md[2]).hist[1]]' =
        [[md \in Keys |-> TensorOf(md[1], md[2]).hist[1]]
           EXCEPT ![key] = @ \cup {o}]
  <2>1. \A md \in Keys :
          TensorOf(md[1], md[2])'.hist[1] =
            IF md = key THEN TensorOf(md[1], md[2]).hist[1] \cup {o}
            ELSE TensorOf(md[1], md[2]).hist[1]
    BY <1>1, <1>2, ZenonT(60)
  <2>2. QED
    BY <2>1
<1>4. UNCHANGED [md \in Keys |-> PastOf(TensorOf(md[1], md[2]))]
  <2>1. \A md \in Keys :
          PastOf(TensorOf(md[1], md[2]))' = PastOf(TensorOf(md[1], md[2]))
    BY <1>1, <1>2 DEF PastOf
  <2>2. QED
    BY <2>1
<1>5. UNCHANGED [md \in Keys |-> TensorOf(md[1], md[2]).scale]
  BY <1>1, <1>2
<1>6. QED
  BY <1>3, <1>4, <1>5 DEF Window!Observe, Keys

\* A reduction of any tensors maps to an update of those it does not leave
\* alone.
LEMMA UpdateStep ==
  ASSUME NEW S \in SUBSET Keys,
         \A md \in Keys : Tensors[md] \in Tensor,
         \A md \in Keys :
           Tensors'[md] = IF md \in S THEN AmaxAndScaleUpdate(Tensors[md])
                          ELSE Tensors[md]
  PROVE  Window!Update
<1> DEFINE F == {md \in S : ~Fused \/ Tensors[md].hist[1] # {}}
           cur == [md \in Keys |-> TensorOf(md[1], md[2]).hist[1]]
           past == [md \in Keys |-> PastOf(TensorOf(md[1], md[2]))]
           sc == [md \in Keys |-> TensorOf(md[1], md[2]).scale]
<1>1. \A md \in Keys : /\ Tensors[md] = TensorOf(md[1], md[2])
                       /\ Tensors'[md] = TensorOf(md[1], md[2])'
  BY DEF Tensors
<1>2. \A md \in Keys \ F : Tensors'[md] = Tensors[md]
  BY DEF AmaxAndScaleUpdate
<1>3. ASSUME NEW md \in F
      PROVE  /\ Tensors'[md].hist[1] = {}
             /\ PastOf(Tensors'[md]) =
                  [i \in 1..HistoryLen - 1 |->
                     IF i = 1 THEN Tensors[md].hist[1]
                     ELSE PastOf(Tensors[md])[i - 1]]
             /\ Tensors'[md].scale =
                  IF /\ WindowMaxOf(Tensors[md]) # {}
                     /\ WindowMaxOf(Tensors[md]) \cap Overflow = {}
                  THEN WindowMaxOf(Tensors[md]) ELSE Tensors[md].scale
  BY UpdateWindow
<1>4. \A md \in Keys : Window!WindowMax(md) = WindowMaxOf(Tensors[md])
  <2>1. \A md \in Keys :
          Window!WindowMax(md) =
            IF MostRecent THEN cur[md]
            ELSE cur[md] \cup UNION {past[md][i] : i \in 1..HistoryLen - 1}
    BY DEF Window!WindowMax, Window!Ages, Keys
  <2>2. \A md \in Keys : /\ cur[md] = Tensors[md].hist[1]
                         /\ past[md] = PastOf(Tensors[md])
    BY <1>1
  <2> HIDE DEF cur, past
  <2>3. QED
    BY <2>1, <2>2 DEF WindowMaxOf
<1>5. \A md \in Keys :
        Window!Aged(md) = [i \in 1..HistoryLen - 1 |->
                             IF i = 1 THEN Tensors[md].hist[1]
                             ELSE PastOf(Tensors[md])[i - 1]]
  <2>1. \A md \in Keys :
          Window!Aged(md) = [i \in 1..HistoryLen - 1 |->
                               IF i = 1 THEN cur[md] ELSE past[md][i - 1]]
    BY DEF Window!Aged, Window!Ages, Keys
  <2>2. \A md \in Keys : /\ cur[md] = Tensors[md].hist[1]
                         /\ past[md] = PastOf(Tensors[md])
    BY <1>1
  <2> HIDE DEF cur, past
  <2>3. QED
    BY <2>1, <2>2
<1>6. cur' = [md \in Keys |-> IF md \in F THEN {} ELSE cur[md]]
  <2>1. \A md \in Keys :
          TensorOf(md[1], md[2])'.hist[1] =
            IF md \in F THEN {} ELSE TensorOf(md[1], md[2]).hist[1]
    BY <1>1, <1>2, <1>3
  <2>2. QED
    BY <2>1
<1>7. past' = [md \in Keys |-> IF md \in F THEN Window!Aged(md) ELSE past[md]]
  <2>1. \A md \in Keys :
          PastOf(TensorOf(md[1], md[2]))' =
            IF md \in F THEN Window!Aged(md)
            ELSE PastOf(TensorOf(md[1], md[2]))
    <3>1. \A md \in Keys :
            PastOf(TensorOf(md[1], md[2]))' = PastOf(Tensors'[md])
      BY <1>1 DEF PastOf
    <3>2. \A md \in F : PastOf(Tensors'[md]) = Window!Aged(md)
      BY <1>3, <1>5
    <3>3. \A md \in Keys \ F :
            PastOf(Tensors'[md]) = PastOf(TensorOf(md[1], md[2]))
      BY <1>1, <1>2
    <3> HIDE DEF F
    <3>4. QED
      BY <3>1, <3>2, <3>3
  <2>2. QED
    BY <2>1
<1>8. sc' = [md \in Keys |->
               IF /\ md \in F /\ Window!WindowMax(md) # {}
                  /\ Window!WindowMax(md) \cap Overflow = {}
               THEN Window!WindowMax(md) ELSE sc[md]]
  <2>1. \A md \in Keys :
          TensorOf(md[1], md[2])'.scale =
            IF /\ md \in F /\ Window!WindowMax(md) # {}
               /\ Window!WindowMax(md) \cap Overflow = {}
            THEN Window!WindowMax(md) ELSE TensorOf(md[1], md[2]).scale
    <3>1. \A md \in Keys : /\ TensorOf(md[1], md[2])'.scale = Tensors'[md].scale
                           /\ TensorOf(md[1], md[2]).scale = Tensors[md].scale
      BY <1>1
    <3>2. \A md \in F :
            Tensors'[md].scale =
              IF /\ Window!WindowMax(md) # {}
                 /\ Window!WindowMax(md) \cap Overflow = {}
              THEN Window!WindowMax(md) ELSE Tensors[md].scale
      BY <1>3, <1>4
    <3>3. \A md \in Keys \ F : Tensors'[md].scale = Tensors[md].scale
      BY <1>2
    <3> HIDE DEF F
    <3>4. QED
      BY <3>1, <3>2, <3>3
  <2>2. QED
    BY <2>1
<1>9. F \in SUBSET {md \in Keys : ~Fused \/ cur[md] # {}}
  BY <1>1
<1>10. QED
  BY <1>6, <1>7, <1>8, <1>9 DEF Window!Update, Keys

(***************************************************************************)
(* The invariant of scripts that call every module in FP8.  Flow ties the  *)
(* recompute phase and the module being recomputed to the mode; AllFP8     *)
(* says that a module with a recorded call has FP8 on, so that its         *)
(* recompute switches to the stash and never initializes anew.             *)
(***************************************************************************)
Flow ==
  /\ recompute.phase <=> mode \in {"replay", "unwinding"}
  /\ mode \in {"idle", "backward", "reduce"} => current = NoModule
  /\ mode = "replay" /\ current # NoModule =>
       /\ region.ops # <<>>
       /\ Head(region.ops).op = "call"
       /\ Head(region.ops).mod = current

FP8Node(n) ==
  n.kind = "checkpoint" =>
    \A i \in 1..Len(n.ops) : n.ops[i].op = "call" => fp8[n.ops[i].mod]

FP8Nodes == {n \in Nodes : FP8Node(n)}
FP8Batches == [iter : Iters, nodes : Seq(FP8Nodes)]

AllFP8 ==
  /\ current # NoModule => fp8[current]
  /\ region \in FP8Nodes
  /\ tape \in Seq(FP8Nodes)
  /\ todo \in Seq(FP8Nodes)
  /\ pending \in Seq(FP8Batches)

LEMMA InitFlow == Init => Flow /\ AllFP8
<1> SUFFICES ASSUME Init
             PROVE  Flow /\ AllFP8
  OBVIOUS
<1>1. NoRegion \in Nodes
  BY DEF NoRegion, Nodes, Callables
<1>2. NoRegion \in FP8Nodes
  BY <1>1 DEF FP8Nodes, FP8Node, NoRegion
<1>3. QED
  BY <1>2 DEF Init, Flow, AllFP8

LEMMA FlowStep == Inv /\ Flow /\ [Next]_vars => Flow'
<1> SUFFICES ASSUME Inv, Flow, [Next]_vars
             PROVE  Flow'
  OBVIOUS
<1> USE DEF Flow, InScript, NextOp, libVars, scriptVars
<1>1. CASE StartForward
  BY <1>1 DEF StartForward
<1>2. ASSUME NEW enabled \in Enabled, EnterContext(enabled)
      PROVE  Flow'
  BY <1>2 DEF EnterContext
<1>3. CASE ExitContext
  BY <1>3 DEF ExitContext
<1>4. ASSUME NEW m \in Modules, CallModule(m)
      PROVE  Flow'
  BY <1>4 DEF CallModule
<1>5. ASSUME NEW m \in Modules, ReturnFromModule(m)
      PROVE  Flow'
  BY <1>5 DEF ReturnFromModule
<1>6. ASSUME NEW reentrant \in Reentrant, StartCheckpoint(reentrant)
      PROVE  Flow'
  BY <1>6 DEF StartCheckpoint
<1>7. CASE EndCheckpoint
  BY <1>7 DEF EndCheckpoint
<1>8. ASSUME NEW keep \in BOOLEAN, EndMicrobatch(keep)
      PROVE  Flow'
  BY <1>8 DEF EndMicrobatch
<1>9. ASSUME NEW i \in DOMAIN pending, StartBackward(i)
      PROVE  Flow'
  BY <1>9 DEF StartBackward
<1>10. CASE BackwardModule
  BY <1>10 DEF BackwardModule
<1>11. CASE ReduceBackward
  BY <1>11 DEF ReduceBackward
<1>12. CASE StartReplay
  BY <1>12 DEF StartReplay
<1>13. CASE ReplayEnter
  BY <1>13 DEF ReplayEnter
<1>14. CASE ReplayExit
  BY <1>14 DEF ReplayExit
<1>15. CASE ReplayCall
  BY <1>15 DEF ReplayCall, PrepareForward
<1>16. CASE ReplayReturn
  BY <1>16 DEF ReplayReturn, EndForward
<1>17. CASE ReplayRaises \/ Unwind
  BY <1>17 DEF ReplayRaises, Unwind
<1>18. CASE EndReplay
  BY <1>18 DEF EndReplay
<1>19. CASE EndBackward
  BY <1>19 DEF EndBackward
<1>20. CASE UNCHANGED vars
  BY <1>20 DEF vars
<1>21. QED
  BY <1>1, <1>2, <1>3, <1>4, <1>5, <1>6, <1>7, <1>8, <1>9, <1>10, <1>11,
     <1>12, <1>13, <1>14, <1>15, <1>16, <1>17, <1>18, <1>19, <1>20
  DEF Next, Finished

\* FP8, once on, stays on; so the recorded calls stay FP8 calls.
LEMMA FP8Grows ==
  ASSUME FP8Only = Modules, Inv, Flow, AllFP8, [Next]_vars
  PROVE  \A m \in Modules : fp8[m] => fp8'[m]
<1>1. CASE UNCHANGED fp8
  BY <1>1
<1>2. ASSUME NEW m \in Modules, CallModule(m)
      PROVE  \A n \in Modules : fp8[n] => fp8'[n]
  BY <1>2
  DEF CallModule, MayCall, PrepareForward, SwitchToStash, InitMetadata, Inv,
      TypeOK
<1>3. CASE ReplayCall
  <2>1. Head(region.ops) \in Ops /\ Head(region.ops) = region.ops[1]
        /\ 1 \in 1..Len(region.ops)
    BY <1>3 DEF ReplayCall, NextOp, Inv, TypeOK, Callables
  <2>2. Head(region.ops).mod \in Modules
    BY <1>3, <2>1, OpKinds DEF ReplayCall, NextOp
  <2>3. region.kind = "checkpoint"
    BY DEF Inv, TypeOK, Callables
  <2>4. fp8[Head(region.ops).mod]
    BY <1>3, <2>1, <2>3 DEF ReplayCall, NextOp, AllFP8, FP8Nodes, FP8Node
  <2>5. recompute.phase
    BY <1>3 DEF ReplayCall, NextOp, Flow
  <2>6. QED
    BY <1>3, <2>4, <2>5
    DEF ReplayCall, PrepareForward, SwitchToStash, InitMetadata
<1>4. QED
  BY <1>1, <1>2, <1>3
  DEF Next, vars, libVars, Finished, StartForward, EnterContext, ExitContext,
      ReturnFromModule, StartCheckpoint, EndCheckpoint, EndMicrobatch,
      StartBackward, BackwardModule, ReduceBackward, StartReplay, ReplayEnter,
      ReplayExit, ReplayReturn, ReplayRaises, Unwind, EndReplay, EndBackward

LEMMA NodesGrow ==
  ASSUME Inv, \A m \in Modules : fp8[m] => fp8'[m]
  PROVE  /\ FP8Nodes \subseteq FP8Nodes'
         /\ Seq(FP8Nodes) \subseteq Seq(FP8Nodes')
         /\ Seq(FP8Batches) \subseteq Seq(FP8Batches')
<1>1. ASSUME NEW n \in FP8Nodes
      PROVE  n \in FP8Nodes'
  <2>1. CASE n.kind # "checkpoint"
    BY <2>1 DEF FP8Nodes, FP8Node
  <2>2. CASE n.kind = "checkpoint"
    <3>1. n \in Callables
      BY <2>2, NodeKinds DEF FP8Nodes
    <3>2. \A i \in 1..Len(n.ops) : n.ops[i] \in Ops
      BY <3>1 DEF Callables
    <3>3. \A i \in 1..Len(n.ops) :
            n.ops[i].op = "call" => n.ops[i].mod \in Modules
      BY <3>2, OpKinds
    <3>4. QED
      BY <2>2, <3>3 DEF FP8Nodes, FP8Node
  <2>3. QED
    BY <2>1, <2>2
<1>2. Seq(FP8Nodes) \subseteq Seq(FP8Nodes')
  BY <1>1, SeqSubset
<1>3. FP8Batches \subseteq FP8Batches'
  BY <1>2 DEF FP8Batches
<1>4. QED
  BY <1>1, <1>2, <1>3, SeqSubset

LEMMA ModuleNodesAreFP8 ==
  ASSUME NEW n \in ModuleNodes
  PROVE  n \in FP8Nodes
  BY DEF FP8Nodes, FP8Node, Nodes, ModuleNodes

\* Appending an operation, and consuming one, keeps a callable's calls FP8.
LEMMA AppendedOp ==
  ASSUME Inv, region \in FP8Nodes, NEW op \in Ops,
         op.op = "call" => fp8[op.mod],
         NEW r \in Callables, r.ops = Append(region.ops, op)
  PROVE  r \in FP8Nodes
<1>1. region.ops \in Seq(Ops) /\ region.kind = "checkpoint"
  BY DEF Inv, TypeOK, Callables
<1>2. Len(r.ops) = Len(region.ops) + 1 /\ r.ops[Len(region.ops) + 1] = op
      /\ \A i \in 1..Len(region.ops) : r.ops[i] = region.ops[i]
  BY <1>1
<1>3. \A i \in 1..Len(r.ops) :
        i \in 1..Len(region.ops) \/ i = Len(region.ops) + 1
  BY <1>1, <1>2
<1>4. QED
  BY <1>1, <1>2, <1>3 DEF FP8Nodes, FP8Node, Nodes

LEMMA ConsumedOp ==
  ASSUME Inv, region \in FP8Nodes, region.ops # <<>>, Consume,
         UNCHANGED fp8
  PROVE  region' \in FP8Nodes'
<1>1. region.ops \in Seq(Ops) /\ region.kind = "checkpoint"
  BY DEF Inv, TypeOK, Callables
<1>2. /\ region'.ops = Tail(region.ops)
      /\ region' \in Callables
  <2>1. Tail(region.ops) \in Seq(Ops)
    BY <1>1
  <2>2. QED
    BY <2>1 DEF Consume, Inv, TypeOK, Callables
<1>3. Len(region'.ops) = Len(region.ops) - 1
      /\ \A i \in 1..Len(region.ops) - 1 : region'.ops[i] = region.ops[i + 1]
  BY <1>1, <1>2
<1>4. \A i \in 1..Len(region.ops) - 1 : i + 1 \in 1..Len(region.ops)
  BY <1>1
<1>5. \A i \in 1..Len(region.ops) :
        region.ops[i].op = "call" => fp8[region.ops[i].mod]
  BY <1>1 DEF FP8Nodes, FP8Node
<1>6. \A i \in 1..Len(region'.ops) :
        region'.ops[i].op = "call" => fp8[region'.ops[i].mod]
  BY <1>3, <1>4, <1>5
<1>7. QED
  BY <1>2, <1>6 DEF FP8Nodes, FP8Node, Nodes

LEMMA AllFP8Step ==
  FP8Only = Modules /\ Inv /\ Flow /\ AllFP8 /\ [Next]_vars => AllFP8'
<1> SUFFICES ASSUME FP8Only = Modules, Inv, Flow, AllFP8, [Next]_vars
             PROVE  AllFP8'
  OBVIOUS
<1>a. \A m \in Modules : fp8[m] => fp8'[m]
  BY FP8Grows
<1>b. /\ FP8Nodes \subseteq FP8Nodes'
      /\ Seq(FP8Nodes) \subseteq Seq(FP8Nodes')
      /\ Seq(FP8Batches) \subseteq Seq(FP8Batches')
  BY <1>a, NodesGrow
<1>c. Inv'
  BY InvStep
<1>d. NoRegion \in FP8Nodes /\ NoRegion \in FP8Nodes'
  <2>1. NoRegion \in Nodes
    BY DEF NoRegion, Nodes, Callables
  <2>2. QED
    BY <2>1 DEF FP8Nodes, FP8Node, NoRegion
\* The module being called.
<1>e. current' # NoModule => fp8'[current']
  <2>1. CASE UNCHANGED current
    <3>1. current \in Modules \cup {NoModule}
      BY DEF Inv, TypeOK
    <3>2. QED
      BY <1>a, <2>1, <3>1 DEF AllFP8
  <2>2. CASE current' = NoModule
    BY <2>2
  <2>3. ASSUME NEW m \in Modules, CallModule(m)
        PROVE  current' # NoModule => fp8'[current']
    BY <2>3
    DEF CallModule, MayCall, PrepareForward, SwitchToStash, InitMetadata, Inv,
        TypeOK
  <2>4. CASE ReplayCall
    <3>1. current' = Head(region.ops).mod
      BY <2>4 DEF ReplayCall, PrepareForward
    <3>2. Head(region.ops) = region.ops[1] /\ 1 \in 1..Len(region.ops)
          /\ Head(region.ops) \in Ops /\ region.kind = "checkpoint"
      BY <2>4 DEF ReplayCall, NextOp, Inv, TypeOK, Callables
    <3>3. Head(region.ops).mod \in Modules
      BY <2>4, <3>2, OpKinds DEF ReplayCall, NextOp
    <3>4. fp8[Head(region.ops).mod]
      BY <2>4, <3>2 DEF ReplayCall, NextOp, AllFP8, FP8Nodes, FP8Node
    <3>5. QED
      BY <1>a, <3>1, <3>3, <3>4
  <2>5. QED
    BY <2>1, <2>2, <2>3, <2>4
    DEF Next, vars, Finished, StartForward, EnterContext, ExitContext,
        ReturnFromModule, EndForward, StartCheckpoint, EndCheckpoint,
        EndMicrobatch, StartBackward, BackwardModule, ReduceBackward,
        StartReplay, ReplayEnter, ReplayExit, ReplayReturn, ReplayRaises, Unwind,
        EndReplay, EndBackward
\* The callable in progress.
<1>f. region' \in FP8Nodes'
  <2>1. CASE region' \in FP8Nodes
    BY <1>b, <2>1
  <2>2. ASSUME NEW op \in Ops, op.op # "call", region' = Recorded(op)
        PROVE  region' \in FP8Nodes'
    <3>1. CASE region' = region
      BY <1>b, <3>1 DEF AllFP8
    <3>2. CASE region' = [region EXCEPT !.ops = Append(@, op)]
      <4>1. region'.ops = Append(region.ops, op) /\ region' \in Callables
        BY <1>c, <3>2 DEF Inv, TypeOK, Callables
      <4>2. QED
        BY <1>b, <2>2, <4>1, AppendedOp DEF AllFP8
    <3>3. QED
      BY <2>2, <3>1, <3>2 DEF Recorded
  <2>3. ASSUME NEW enabled \in Enabled, EnterContext(enabled)
        PROVE  region' \in FP8Nodes'
    <3>1. [op |-> "enter", enabled |-> enabled] \in Ops
      BY ScriptAssumption DEF Ops, EnterOps
    <3>2. QED
      BY <2>2, <2>3, <3>1 DEF EnterContext
  <2>4. CASE ExitContext
    <3>1. [op |-> "exit"] \in Ops
      BY DEF Ops, ExitOps
    <3>2. QED
      BY <2>2, <2>4, <3>1 DEF ExitContext
  <2>5. ASSUME NEW m \in Modules, ReturnFromModule(m)
        PROVE  region' \in FP8Nodes'
    <3> DEFINE op == [op |-> "call", mod |-> m, fp8 |-> fp8[m],
                      scale |-> fwd[m].scale]
    <3>1. op \in Ops
      BY DEF Inv, TypeOK, Ops, CallOps, Tensor
    <3>2. fp8[op.mod]
      <4>1. current = m /\ m # NoModule
        BY <2>5, ScriptAssumption DEF ReturnFromModule, EndForward
      <4>2. QED
        BY <4>1 DEF AllFP8
    <3>3. region' \in Callables
      BY <1>c DEF Inv, TypeOK
    <3>4. region' = region \/ region'.ops = Append(region.ops, op)
      BY <2>5 DEF ReturnFromModule, Inv, TypeOK, Callables
    <3> HIDE DEF op
    <3>5. QED
      BY <1>b, <3>1, <3>2, <3>3, <3>4, AppendedOp DEF AllFP8
  <2>6. ASSUME NEW reentrant \in Reentrant, StartCheckpoint(reentrant)
        PROVE  region' \in FP8Nodes'
    <3>1. region' \in Callables /\ region'.ops = <<>>
      BY <1>c, <2>6 DEF StartCheckpoint, NoRegion, Inv, TypeOK
    <3>2. QED
      BY <3>1 DEF FP8Nodes, FP8Node, Nodes
  <2>7. CASE StartReplay
    <3>1. Last(todo) \in FP8Nodes
      BY <2>7, LastFrontType DEF StartReplay, AllFP8
    <3>2. QED
      BY <2>7, <2>1, <3>1 DEF StartReplay
  <2>8. CASE ReplayEnter \/ ReplayExit
    <3>1. region.ops # <<>> /\ Consume /\ UNCHANGED fp8
      BY <2>8 DEF ReplayEnter, ReplayExit, NextOp, libVars
    <3>2. QED
      BY <3>1, ConsumedOp DEF AllFP8
  <2>9. CASE ReplayReturn
    <3>1. region.ops # <<>> /\ Consume /\ UNCHANGED fp8
      BY <2>9 DEF ReplayReturn, NextOp, libVars
    <3>2. QED
      BY <3>1, ConsumedOp DEF AllFP8
  <2>10. CASE UNCHANGED region
    BY <2>1, <2>10 DEF AllFP8
  <2>11. CASE region' = NoRegion
    BY <1>d, <2>11
  <2>12. QED
    BY <2>3, <2>4, <2>5, <2>6, <2>7, <2>8, <2>9, <2>10, <2>11
    DEF Next, vars, Finished, StartForward, CallModule, EndCheckpoint,
        EndMicrobatch, StartBackward, BackwardModule, ReduceBackward,
        ReplayCall, ReplayRaises, Unwind, EndReplay, EndBackward, scriptVars
\* The graph being recorded.
<1>g. tape' \in Seq(FP8Nodes')
  <2>1. CASE tape' \in Seq(FP8Nodes)
    BY <1>b, <2>1
  <2>2. ASSUME NEW m \in Modules, ReturnFromModule(m)
        PROVE  tape' \in Seq(FP8Nodes)
    <3>1. NodeOf(m) \in FP8Nodes
      BY NodeOfType, ModuleNodesAreFP8 DEF Inv
    <3>2. QED
      BY <2>2, <3>1 DEF ReturnFromModule, AllFP8
  <2>3. CASE EndCheckpoint
    BY <2>1, <2>3 DEF EndCheckpoint, AllFP8
  <2>4. CASE ReplayReturn
    <3>1. Head(region.ops) \in Ops
      BY <2>4 DEF ReplayReturn, NextOp, Inv, TypeOK, Callables
    <3>2. Head(region.ops).mod \in Modules
      BY <2>4, <3>1, OpKinds DEF ReplayReturn, NextOp
    <3>3. NodeOf(Head(region.ops).mod) \in FP8Nodes
      BY <3>2, NodeOfType, ModuleNodesAreFP8 DEF Inv
    <3>4. QED
      BY <2>1, <2>4, <3>3 DEF ReplayReturn, AllFP8
  <2>5. CASE UNCHANGED tape
    BY <2>1, <2>5 DEF AllFP8
  <2>6. CASE tape' = <<>>
    BY <2>6
  <2>7. QED
    BY <2>1, <2>2, <2>3, <2>4, <2>5, <2>6
    DEF Next, vars, Finished, StartForward, EnterContext, ExitContext,
        CallModule, StartCheckpoint, EndMicrobatch, StartBackward,
        BackwardModule, ReduceBackward, StartReplay, ReplayEnter, ReplayExit,
        ReplayCall, ReplayRaises, Unwind, EndReplay, EndBackward
\* The nodes the running backward still has to reach.
<1>h. todo' \in Seq(FP8Nodes')
  <2>1. CASE todo' \in Seq(FP8Nodes)
    BY <1>b, <2>1
  <2>2. ASSUME NEW i \in DOMAIN pending, StartBackward(i)
        PROVE  todo' \in Seq(FP8Nodes)
    <3>1. pending[i] \in FP8Batches
      BY DEF AllFP8
    <3>2. QED
      BY <2>2, <3>1 DEF StartBackward, FP8Batches
  <2>3. CASE BackwardModule \/ StartReplay
    BY <2>1, <2>3, LastFrontType DEF BackwardModule, StartReplay, AllFP8
  <2>4. CASE EndReplay
    <3>1. region.nodes \in Seq(ModuleNodes)
      BY DEF Inv, TypeOK, Callables
    <3>2. region.nodes \in Seq(FP8Nodes)
      BY <3>1, ModuleNodesAreFP8, SeqSubset
    <3>3. QED
      BY <2>1, <2>4, <3>2 DEF EndReplay, AllFP8
  <2>5. CASE UNCHANGED todo
    BY <2>1, <2>5 DEF AllFP8
  <2>6. QED
    BY <2>1, <2>2, <2>3, <2>4, <2>5
    DEF Next, vars, Finished, StartForward, EnterContext, ExitContext,
        CallModule, ReturnFromModule, StartCheckpoint, EndCheckpoint,
        EndMicrobatch, ReduceBackward, ReplayEnter, ReplayExit, ReplayCall,
        ReplayReturn, ReplayRaises, Unwind, EndBackward, scriptVars
\* The graphs kept for a later backward.
<1>i. pending' \in Seq(FP8Batches')
  <2>1. CASE pending' \in Seq(FP8Batches)
    BY <1>b, <2>1
  <2>2. ASSUME NEW keep \in BOOLEAN, EndMicrobatch(keep)
        PROVE  pending' \in Seq(FP8Batches)
    <3> DEFINE mb == [iter |-> iter, nodes |-> tape]
    <3>1. mb \in FP8Batches
      BY <2>2 DEF EndMicrobatch, Inv, Running, AllFP8, FP8Batches
    <3>2. pending' = Append(pending, mb) \/ pending' = pending
      BY <2>2 DEF EndMicrobatch
    <3> HIDE DEF mb
    <3>3. QED
      BY <3>1, <3>2, SMTT(60) DEF AllFP8
  <2>3. ASSUME NEW i \in DOMAIN pending, StartBackward(i)
        PROVE  pending' \in Seq(FP8Batches)
    BY <2>3, RemoveAtType DEF StartBackward, AllFP8
  <2>4. CASE UNCHANGED pending
    BY <2>1, <2>4 DEF AllFP8
  <2>5. QED
    BY <2>1, <2>2, <2>3, <2>4
    DEF Next, vars, Finished, StartForward, EnterContext, ExitContext,
        CallModule, ReturnFromModule, StartCheckpoint, EndCheckpoint,
        BackwardModule, ReduceBackward, StartReplay, ReplayEnter, ReplayExit,
        ReplayCall, ReplayReturn, ReplayRaises, Unwind, EndReplay, EndBackward,
        scriptVars
<1>j. QED
  BY <1>e, <1>f, <1>g, <1>h, <1>i DEF AllFP8

(***************************************************************************)
(* The refinement itself.                                                  *)
(***************************************************************************)
LEMMA TensorAt ==
  /\ \A m \in Modules :
       /\ <<m, "forward">> \in Keys /\ <<m, "backward">> \in Keys
       /\ Tensors[<<m, "backward">>] = bwd[m]
       /\ Tensors'[<<m, "backward">>] = bwd'[m]
       /\ Tensors[<<m, "forward">>] =
            IF mode = "replay" /\ current = m /\ updated[m] # NoTensor
            THEN updated[m] ELSE fwd[m]
       /\ Tensors'[<<m, "forward">>] =
            IF mode' = "replay" /\ current' = m /\ updated'[m] # NoTensor
            THEN updated'[m] ELSE fwd'[m]
  BY DEF Keys, Tensors, TensorOf, Directions

LEMMA KeyCases ==
  ASSUME NEW md \in Keys
  PROVE  \E m \in Modules : md = <<m, "forward">> \/ md = <<m, "backward">>
  BY DEF Keys, Directions

LEMMA TensorsTyped ==
  ASSUME Inv
  PROVE  \A md \in Keys : Tensors[md] \in Tensor
<1>1. \A m \in Modules : Tensors[<<m, "backward">>] \in Tensor
  BY TensorAt DEF Inv, TypeOK
<1>2. \A m \in Modules : Tensors[<<m, "forward">>] \in Tensor
  BY TensorAt DEF Inv, TypeOK
<1>3. QED
  BY <1>1, <1>2, KeyCases

\* If the tensors of every module stay, the windows stay.
LEMMA ModulesStutter ==
  ASSUME \A m \in Modules :
           /\ Tensors'[<<m, "forward">>] = Tensors[<<m, "forward">>]
           /\ Tensors'[<<m, "backward">>] = Tensors[<<m, "backward">>]
  PROVE  UNCHANGED Window!wvars
<1>1. ASSUME NEW md \in Keys
      PROVE  Tensors'[md] = Tensors[md]
  <2>1. PICK m \in Modules : md = <<m, "forward">> \/ md = <<m, "backward">>
    BY KeyCases
  <2>2. QED
    BY <2>1
<1>2. QED
  BY <1>1, StutterStep

\* If one tensor records and all others stay, its window observes.
LEMMA ModuleObserves ==
  ASSUME Inv, NEW m \in Modules, NEW d \in Directions, NEW o \in Iters,
         Tensors'[<<m, d>>] = Record(Tensors[<<m, d>>], o),
         \A n \in Modules, e \in Directions :
           <<n, e>> # <<m, d>> => Tensors'[<<n, e>>] = Tensors[<<n, e>>]
  PROVE  Window!Next
<1> DEFINE key == <<m, d>>
<1>1. key \in Keys
  BY DEF Keys
<1>2. \A md \in Keys : md # key => Tensors'[md] = Tensors[md]
  BY DEF Keys
<1>3. Window!Observe(key)
  BY <1>1, <1>2, ObserveStep, TensorsTyped
<1>4. QED
  BY <1>1, <1>3 DEF Window!Next, Keys

\* If one direction of the registered modules is reduced and the other stays,
\* the windows are updated.
LEMMA ModulesReduced ==
  ASSUME Inv, NEW d \in Directions,
         \A m \in Modules :
           Tensors'[<<m, d>>] = IF m \in buffered
                                THEN AmaxAndScaleUpdate(Tensors[<<m, d>>])
                                ELSE Tensors[<<m, d>>],
         \A m \in Modules, e \in Directions :
           e # d => Tensors'[<<m, e>>] = Tensors[<<m, e>>]
  PROVE  Window!Next
<1> DEFINE S == {md \in Keys : md[1] \in buffered /\ md[2] = d}
<1>1. ASSUME NEW md \in Keys
      PROVE  Tensors'[md] = IF md \in S THEN AmaxAndScaleUpdate(Tensors[md])
                            ELSE Tensors[md]
  <2>1. PICK m \in Modules, e \in Directions : md = <<m, e>>
    BY DEF Keys
  <2>2. md \in S <=> m \in buffered /\ e = d
    BY <2>1
  <2>3. QED
    BY <2>1, <2>2
<1>2. S \in SUBSET Keys
  OBVIOUS
<1> HIDE DEF S
<1>3. Window!Update
  BY <1>1, <1>2, UpdateStep, TensorsTyped
<1>4. QED
  BY <1>3 DEF Window!Next

\* Leaving a context with no module on its old tensors reduces all forward
\* tensors or none.
LEMMA ExitStep ==
  ASSUME Inv, AutocastExit, UNCHANGED <<bwd, updated>>,
         mode = "replay" => current = NoModule,
         current' = current, mode' = "replay" => mode = "replay"
  PROVE  [Window!Next]_(Window!wvars)
<1>1. \A m \in Modules : m # NoModule
  BY ScriptAssumption
<1>2. \A m \in Modules :
        /\ Tensors[<<m, "forward">>] = fwd[m]
        /\ Tensors'[<<m, "forward">>] = fwd'[m]
        /\ Tensors'[<<m, "backward">>] = Tensors[<<m, "backward">>]
  BY <1>1, TensorAt
<1>3. CASE fwd' = fwd
  <2>1. UNCHANGED Window!wvars
    BY <1>2, <1>3, ModulesStutter
  <2>2. QED
    BY <2>1
<1>4. CASE fwd' = Reduced(fwd)
  <2>1. \A m \in Modules :
          Tensors'[<<m, "forward">>] =
            IF m \in buffered THEN AmaxAndScaleUpdate(Tensors[<<m, "forward">>])
            ELSE Tensors[<<m, "forward">>]
    BY <1>2, <1>4 DEF Reduced
  <2>2. Window!Next
    BY <1>2, <2>1, ModulesReduced DEF Directions
  <2>3. QED
    BY <2>2
<1>5. QED
  BY <1>3, <1>4 DEF AutocastExit

LEMMA WindowStep ==
  FP8Only = Modules /\ Inv /\ Flow /\ AllFP8 /\ [Next]_vars
    => [Window!Next]_(Window!wvars)
<1> SUFFICES ASSUME FP8Only = Modules, Inv, Flow, AllFP8, [Next]_vars
             PROVE  [Window!Next]_(Window!wvars)
  OBVIOUS
<1>a. \A m \in Modules : m # NoModule
  BY ScriptAssumption
\* Steps that touch no tensor and put none aside.
<1>1. ASSUME UNCHANGED <<fwd, bwd, updated>>,
             \A m \in Modules : mode' = "replay" /\ current' = m
                                  /\ updated[m] # NoTensor
                                <=> mode = "replay" /\ current = m
                                      /\ updated[m] # NoTensor
      PROVE  UNCHANGED Window!wvars
  BY <1>1, ModulesStutter, TensorAt
<1>2. CASE \/ StartForward \/ EndCheckpoint \/ EndBackward
           \/ (\E enabled \in Enabled : EnterContext(enabled))
           \/ (\E reentrant \in Reentrant : StartCheckpoint(reentrant))
           \/ (\E keep \in BOOLEAN : EndMicrobatch(keep))
           \/ (\E i \in DOMAIN pending : StartBackward(i))
           \/ StartReplay \/ ReplayEnter
           \/ UNCHANGED vars
  <2>1. UNCHANGED <<fwd, bwd, updated, current>>
    BY <1>2
    DEF StartForward, EndCheckpoint, EndBackward, EnterContext,
        StartCheckpoint, EndMicrobatch, StartBackward, StartReplay,
        ReplayEnter, vars, libVars
  <2>2. \/ mode' = mode
        \/ current = NoModule
        \/ mode # "replay" /\ mode' # "replay"
    BY <1>2
    DEF StartForward, EndCheckpoint, EndBackward, EnterContext,
        StartCheckpoint, EndMicrobatch, StartBackward, StartReplay,
        ReplayEnter, vars, Flow
  <2>3. QED
    BY <1>a, <1>1, <2>1, <2>2
\* A module is called: in a recompute its tensors of now are set aside.
<1>3. ASSUME NEW m \in Modules, CallModule(m)
      PROVE  UNCHANGED Window!wvars
  <2>1. mode # "replay" /\ mode' # "replay" /\ ~recompute.phase
    BY <1>3 DEF CallModule, InScript, Flow
  <2>2. UNCHANGED <<fwd, bwd>>
    BY <1>3, <2>1
    DEF CallModule, PrepareForward, SwitchToStash, InitMetadata
  <2>3. QED
    BY <2>1, <2>2, ModulesStutter, TensorAt
<1>4. CASE ReplayCall
  <2> DEFINE m == Head(region.ops).mod
  <2>1. Head(region.ops) = region.ops[1] /\ 1 \in 1..Len(region.ops)
        /\ Head(region.ops) \in Ops /\ region.kind = "checkpoint"
    BY <1>4 DEF ReplayCall, NextOp, Inv, TypeOK, Callables
  <2>2. m \in Modules /\ fp8[m] /\ recompute.phase
    <3>1. m \in Modules
      BY <1>4, <2>1, OpKinds DEF ReplayCall, NextOp
    <3>2. fp8[m]
      BY <1>4, <2>1 DEF ReplayCall, NextOp, AllFP8, FP8Nodes, FP8Node
    <3>3. QED
      BY <1>4, <3>1, <3>2 DEF ReplayCall, NextOp, Flow
  <2> HIDE DEF m
  <2>3. PrepareForward(m) /\ mode = "replay" /\ mode' = mode /\ bwd' = bwd
    BY <1>4 DEF ReplayCall, NextOp, m
  <2>4. /\ current = NoModule /\ current' = m
        /\ updated' = [updated EXCEPT ![m] = fwd[m]]
        /\ fwd' = [fwd EXCEPT ![m] = Head(stash[m])]
    BY <2>2, <2>3 DEF PrepareForward, SwitchToStash, InitMetadata
  <2>5. fwd[m] # NoTensor
    BY <2>2, ScriptAssumption DEF Inv, TypeOK
  <2>6. updated'[m] = fwd[m] /\ \A n \in Modules : n # m => fwd'[n] = fwd[n]
    BY <2>2, <2>4 DEF Inv, TypeOK
  <2>7. \A n \in Modules :
          Tensors'[<<n, "forward">>] = Tensors[<<n, "forward">>]
    <3>1. ASSUME NEW n \in Modules
          PROVE  Tensors[<<n, "forward">>] = fwd[n]
      BY <1>a, <2>4, TensorAt
    <3>2. Tensors'[<<m, "forward">>] = fwd[m]
      BY <2>2, <2>3, <2>4, <2>5, <2>6, TensorAt
    <3>3. ASSUME NEW n \in Modules, n # m
          PROVE  Tensors'[<<n, "forward">>] = fwd'[n]
      BY <2>4, <3>3, TensorAt
    <3>4. QED
      BY <2>2, <2>6, <3>1, <3>2, <3>3
  <2>8. QED
    BY <2>3, <2>7, ModulesStutter, TensorAt
\* It returns: recording, or putting the tensors set aside back.
<1>5. ASSUME NEW m \in Modules, ReturnFromModule(m)
      PROVE  Window!Next
  <2>1. /\ mode # "replay" /\ mode' # "replay" /\ ~recompute.phase
        /\ iter \in Iters /\ bwd' = bwd
    BY <1>5 DEF ReturnFromModule, Flow, Inv, Running
  <2>2. fp8[m]
    BY <1>a, <1>5 DEF ReturnFromModule, EndForward, AllFP8
  <2>3. fwd' = [fwd EXCEPT ![m] = Record(@, iter)]
    BY <1>5, <2>1, <2>2 DEF ReturnFromModule, EndForward
  <2>4. /\ fwd'[m] = Record(fwd[m], iter)
        /\ \A n \in Modules : n # m => fwd'[n] = fwd[n]
    BY <2>3 DEF Inv, TypeOK
  <2>5. Tensors'[<<m, "forward">>] = Record(Tensors[<<m, "forward">>], iter)
    BY <2>1, <2>4, TensorAt
  <2>6. \A n \in Modules, e \in Directions :
          <<n, e>> # <<m, "forward">> => Tensors'[<<n, e>>] = Tensors[<<n, e>>]
    BY <2>1, <2>4, TensorAt DEF Directions
  <2>7. QED
    BY <2>1, <2>5, <2>6, ModuleObserves DEF Directions
<1>6. CASE ReplayReturn
  <2> DEFINE m == Head(region.ops).mod
  <2>1. Head(region.ops) = region.ops[1] /\ 1 \in 1..Len(region.ops)
        /\ Head(region.ops) \in Ops /\ region.kind = "checkpoint"
    BY <1>6 DEF ReplayReturn, NextOp, Inv, TypeOK, Callables
  <2>2. m \in Modules /\ fp8[m] /\ recompute.phase
    <3>1. m \in Modules
      BY <1>6, <2>1, OpKinds DEF ReplayReturn, NextOp
    <3>2. fp8[m]
      BY <1>6, <2>1 DEF ReplayReturn, NextOp, AllFP8, FP8Nodes, FP8Node
    <3>3. QED
      BY <1>6, <3>1, <3>2 DEF ReplayReturn, NextOp, Flow
  <2> HIDE DEF m
  <2>3. /\ EndForward(m) /\ mode = "replay" /\ mode' = mode
        /\ bwd' = bwd /\ updated' = updated
    BY <1>6 DEF ReplayReturn, NextOp, libVars, m
  <2>4. /\ current = m /\ current' = NoModule /\ updated[m] # NoTensor
        /\ fwd' = [fwd EXCEPT ![m] = updated[m]]
    BY <2>2, <2>3 DEF EndForward
  <2>5. fwd'[m] = updated[m] /\ \A n \in Modules : n # m => fwd'[n] = fwd[n]
    BY <2>2, <2>4 DEF Inv, TypeOK
  <2>6. \A n \in Modules :
          Tensors'[<<n, "forward">>] = Tensors[<<n, "forward">>]
    <3>1. ASSUME NEW n \in Modules
          PROVE  Tensors'[<<n, "forward">>] = fwd'[n]
      BY <1>a, <2>4, TensorAt
    <3>2. Tensors[<<m, "forward">>] = updated[m]
      BY <2>2, <2>3, <2>4, TensorAt
    <3>3. ASSUME NEW n \in Modules, n # m
          PROVE  Tensors[<<n, "forward">>] = fwd[n]
      BY <2>4, <3>3, TensorAt
    <3>4. QED
      BY <2>2, <2>5, <3>1, <3>2, <3>3
  <2>7. QED
    BY <2>3, <2>6, ModulesStutter, TensorAt
\* A context is left, in the script or in a recompute.
<1>7. CASE ExitContext
  BY <1>7, ExitStep DEF ExitContext, InScript, libVars
<1>8. CASE ReplayExit
  <2>1. current = NoModule
    BY <1>8 DEF ReplayExit, NextOp, Flow
  <2>2. QED
    BY <1>8, <2>1, ExitStep DEF ReplayExit, libVars
<1>9. CASE EndReplay
  <2>1. current = NoModule
    BY <1>9 DEF EndReplay, Flow
  <2>2. QED
    BY <1>9, <2>1, ExitStep DEF EndReplay, libVars
\* A recompute raises, maybe with its forward quantized, and is unwound.
<1>13. CASE ReplayRaises
  <2> DEFINE m == Head(region.ops).mod
  <2>1. m \in Modules /\ iter \in Iters
    <3>1. Head(region.ops) \in Ops
      BY <1>13 DEF ReplayRaises, NextOp, Inv, TypeOK, Callables
    <3>2. QED
      BY <1>13, <3>1, OpKinds DEF ReplayRaises, NextOp, Inv, Running
  <2> HIDE DEF m
  <2>2. /\ mode' = "unwinding" /\ bwd' = bwd
        /\ \/ current = NoModule /\ fwd' = fwd
           \/ /\ current = m /\ updated[m] = NoTensor
              /\ fwd' = [fwd EXCEPT ![m] = Record(@, iter)]
    BY <1>13 DEF ReplayRaises, m
  <2>3. \A n \in Modules :
          /\ Tensors[<<n, "forward">>] = fwd[n]
          /\ Tensors'[<<n, "forward">>] = fwd'[n]
          /\ Tensors'[<<n, "backward">>] = Tensors[<<n, "backward">>]
    BY <1>a, <2>2, TensorAt
  <2>4. CASE fwd' = fwd
    BY <2>3, <2>4, ModulesStutter
  <2>5. CASE fwd' = [fwd EXCEPT ![m] = Record(@, iter)]
    <3>1. /\ fwd'[m] = Record(fwd[m], iter)
          /\ \A n \in Modules : n # m => fwd'[n] = fwd[n]
      BY <2>1, <2>5 DEF Inv, TypeOK
    <3>2. Tensors'[<<m, "forward">>] = Record(Tensors[<<m, "forward">>], iter)
      BY <2>1, <2>3, <3>1
    <3>3. \A n \in Modules, e \in Directions :
            <<n, e>> # <<m, "forward">> =>
              Tensors'[<<n, e>>] = Tensors[<<n, e>>]
      BY <2>3, <3>1 DEF Directions
    <3>4. Window!Next
      BY <2>1, <3>2, <3>3, ModuleObserves DEF Directions
    <3>5. QED
      BY <3>4
  <2>6. QED
    BY <2>2, <2>4, <2>5
<1>14. CASE Unwind
  BY <1>14, ExitStep DEF Unwind, libVars
\* The backward of a module, and the reduction its node may go on to.
<1>10. CASE BackwardModule
  <2> DEFINE node == Last(todo)
  <2>1. node \in ModuleNodes
    <3>1. node \in Nodes
      BY <1>10, LastFrontType DEF BackwardModule, Inv, TypeOK
    <3>2. QED
      BY <1>10, <3>1, NodeKinds DEF BackwardModule
  <2>2. node.mod \in Modules
    BY <2>1 DEF ModuleNodes
  <2> HIDE DEF node
  <2>3. /\ mode # "replay" /\ mode' # "replay" /\ iter \in Iters
        /\ fwd' = fwd
        /\ \/ bwd' = bwd
           \/ bwd' = [bwd EXCEPT ![node.mod] = Record(@, iter)]
    BY <1>10 DEF BackwardModule, Inv, Running, node
  <2>4. CASE bwd' = bwd
    BY <2>3, <2>4, ModulesStutter, TensorAt
  <2>5. CASE bwd' = [bwd EXCEPT ![node.mod] = Record(@, iter)]
    <3>1. /\ bwd'[node.mod] = Record(bwd[node.mod], iter)
          /\ \A n \in Modules : n # node.mod => bwd'[n] = bwd[n]
      BY <2>2, <2>5 DEF Inv, TypeOK
    <3>2. Tensors'[<<node.mod, "backward">>] =
            Record(Tensors[<<node.mod, "backward">>], iter)
      BY <2>2, <3>1, TensorAt
    <3>3. \A n \in Modules, e \in Directions :
            <<n, e>> # <<node.mod, "backward">> =>
              Tensors'[<<n, e>>] = Tensors[<<n, e>>]
      <4>1. \A n \in Modules :
              Tensors'[<<n, "forward">>] = Tensors[<<n, "forward">>]
        BY <2>3, TensorAt
      <4>2. \A n \in Modules : n # node.mod =>
              Tensors'[<<n, "backward">>] = Tensors[<<n, "backward">>]
        BY <3>1, TensorAt
      <4>3. QED
        BY <4>1, <4>2 DEF Directions
    <3>4. QED
      BY <2>2, <2>3, <3>2, <3>3, ModuleObserves DEF Directions
  <2>6. QED
    BY <2>3, <2>4, <2>5
<1>11. CASE ReduceBackward
  <2>1. /\ mode # "replay" /\ mode' # "replay"
        /\ fwd' = fwd /\ bwd' = Reduced(bwd)
    BY <1>11 DEF ReduceBackward
  <2>2. \A m \in Modules :
          Tensors'[<<m, "backward">>] =
            IF m \in buffered
            THEN AmaxAndScaleUpdate(Tensors[<<m, "backward">>])
            ELSE Tensors[<<m, "backward">>]
    BY <2>1, TensorAt DEF Reduced
  <2>3. \A m \in Modules :
          Tensors'[<<m, "forward">>] = Tensors[<<m, "forward">>]
    BY <2>1, TensorAt
  <2>4. QED
    BY <2>2, <2>3, ModulesReduced DEF Directions
<1>12. QED
  BY <1>2, <1>3, <1>4, <1>5, <1>6, <1>7, <1>8, <1>9, <1>10, <1>11, <1>13, <1>14
  DEF Next, Finished

LEMMA InitWindow == Init => Window!Init
<1> SUFFICES ASSUME Init
             PROVE  Window!Init
  OBVIOUS
<1>1. \A md \in Keys : TensorOf(md[1], md[2]) = FreshTensor
  BY DEF Init, TensorOf, Keys
<1>2. \A md \in Keys : PastOf(TensorOf(md[1], md[2])) =
                         [i \in 1..HistoryLen - 1 |-> {}]
  BY <1>1, RowsOfPast DEF PastOf, FreshTensor
<1>3. \A md \in Keys : /\ TensorOf(md[1], md[2]).hist[1] = {}
                       /\ TensorOf(md[1], md[2]).scale = {}
  BY <1>1, RowsOfPast DEF FreshTensor
<1>4. QED
  BY <1>2, <1>3 DEF Window!Init, Window!Ages, Keys

\* With every module called in FP8 the library keeps a sliding window of every
\* tensor in every script, under either update: whatever the script nests,
\* drops, checkpoints, or runs backward in what order, no recompute, reduction
\* or exit loses an amax, counts one twice, or ages a window out of turn.
THEOREM WindowsImplemented ==
  FP8Only = Modules => (Spec => ImplementsWindow)
<1> SUFFICES ASSUME FP8Only = Modules
             PROVE  Spec => ImplementsWindow
  OBVIOUS
<1>1. Inv /\ Flow /\ AllFP8 /\ [Next]_vars => (Inv /\ Flow /\ AllFP8)'
  BY InvStep, FlowStep, AllFP8Step
<1>2. Inv /\ Flow /\ AllFP8 /\ [Next]_vars => [Window!Next]_(Window!wvars)
  BY WindowStep
<1>3. Init => Inv /\ Flow /\ AllFP8
  BY InitInv, InitFlow
<1>4. QED
  BY <1>1, <1>2, <1>3, InitWindow, PTL DEF Spec, ImplementsWindow, Window!Spec

-----------------------------------------------------------------------------
(* Graphs: what a backward reduces, in every script *)

\* Nodes that reduce the gradients, or lead to one that does, when a backward
\* runs them: that of a first FP8 module, and a non-reentrant checkpoint that
\* recorded one.
Starts(n) ==
  IF n.kind = "module" THEN n.first
  ELSE ~n.reentrant /\ \E k \in 1..Len(n.nodes) : n.nodes[k].first

HasFirst(s) == \E i \in 1..Len(s) : Starts(s[i])

\* A node whose FP8 modules do not need a first module before the node.
SelfLed(n) ==
  IF n.kind = "module" THEN n.fp8 => n.first
  ELSE ~n.reentrant =>
         \A k \in 1..Len(n.nodes) :
           n.nodes[k].fp8 => \E j \in 1..k : n.nodes[j].first

\* No FP8 module of the graph s comes before all first modules.
Led(s) == \A i \in 1..Len(s) : SelfLed(s[i]) \/ \E j \in 1..i - 1 : Starts(s[j])

LEMMA AppendType ==
  ASSUME NEW S, NEW s \in Seq(S), NEW x \in S
  PROVE  Append(s, x) \in Seq(S)
  OBVIOUS

LEMMA GraphAppend ==
  ASSUME NEW S, NEW s \in Seq(S), NEW x \in S
  PROVE  /\ HasFirst(Append(s, x)) <=> HasFirst(s) \/ Starts(x)
         /\ Led(Append(s, x)) <=> Led(s) /\ (SelfLed(x) \/ HasFirst(s))
<1> DEFINE a == Append(s, x)
           n == Len(s)
<1>1. /\ n \in Nat /\ Len(a) = n + 1 /\ a[n + 1] = x
      /\ \A i \in 1..n : a[i] = s[i]
  OBVIOUS
<1> HIDE DEF a
<1>2. 1..Len(a) = (1..n) \cup {n + 1}
  BY <1>1
<1>3. HasFirst(a) <=> HasFirst(s) \/ Starts(x)
  BY <1>1, <1>2 DEF HasFirst
<1>4. \A i \in 1..n : (\E j \in 1..i - 1 : Starts(a[j])) <=> (\E j \in 1..i - 1 : Starts(s[j]))
  <2> SUFFICES ASSUME NEW i \in 1..n
               PROVE  (\E j \in 1..i - 1 : Starts(a[j])) <=> (\E j \in 1..i - 1 : Starts(s[j]))
    OBVIOUS
  <2>1. \A j \in 1..i - 1 : j \in 1..n
    BY <1>1
  <2> QED  BY <2>1, <1>1
<1>5. (\E j \in 1..(n + 1) - 1 : Starts(a[j])) <=> HasFirst(s)
  <2>1. 1..(n + 1) - 1 = 1..n
    BY <1>1
  <2> QED  BY <2>1, <1>1 DEF HasFirst
<1>6. Led(a) <=> Led(s) /\ (SelfLed(x) \/ HasFirst(s))
  BY <1>1, <1>2, <1>4, <1>5 DEF Led
<1> QED  BY <1>3, <1>6 DEF a

\* A graph is its nodes but the last, and the last.
LEMMA FrontAndLast ==
  ASSUME NEW S, NEW s \in Seq(S), s # <<>>
  PROVE  /\ Front(s) \in Seq(S) /\ Last(s) \in S
         /\ s = Append(Front(s), Last(s))
<1>1. /\ Last(s) \in S /\ Front(s) \in Seq(S) /\ Len(Front(s)) = Len(s) - 1
      /\ \A i \in 1..Len(s) - 1 : Front(s)[i] = s[i]
  BY LastFrontType
<1>2. Len(s) \in Nat \ {0} /\ Last(s) = s[Len(s)]
  BY EmptySeq DEF Last
<1> DEFINE f == Front(s)
           l == Last(s)
<1> HIDE DEF f, l
<1>3. f \in Seq(S) /\ Len(f) = Len(s) - 1 /\ \A i \in 1..Len(s) - 1 : f[i] = s[i]
  BY <1>1 DEF f
<1>4. /\ Append(f, l) \in Seq(S) /\ Len(Append(f, l)) = Len(s)
      /\ \A i \in 1..Len(s) : Append(f, l)[i] = s[i]
  BY <1>1, <1>2, <1>3 DEF l
<1>5. s = Append(f, l)
  BY <1>4, SeqEqual
<1> QED  BY <1>1, <1>5 DEF f, l

\* The nodes of a replay take the place of the checkpoint.
LEMMA GraphConcat ==
  ASSUME NEW s \in Seq(Nodes), NEW t \in Seq(Nodes), Led(s),
         \A k \in 1..Len(t) :
           /\ t[k].kind = "module"
           /\ t[k].fp8 => HasFirst(s) \/ \E j \in 1..k : t[j].first
  PROVE  /\ Led(s \o t)
         /\ HasFirst(s \o t) <=> HasFirst(s) \/ \E k \in 1..Len(t) : t[k].first
<1> DEFINE c == s \o t
           n == Len(s)
<1>1. /\ n \in Nat /\ Len(t) \in Nat /\ Len(c) = n + Len(t)
      /\ \A i \in 1..n : c[i] = s[i]
      /\ \A k \in 1..Len(t) : c[n + k] = t[k]
  OBVIOUS
<1> HIDE DEF c
<1>2. \A i \in 1..Len(c) : i \in 1..n \/ \E k \in 1..Len(t) : i = n + k
  <2> SUFFICES ASSUME NEW i \in 1..Len(c), i \notin 1..n
               PROVE  \E k \in 1..Len(t) : i = n + k
    OBVIOUS
  <2>1. i - n \in 1..Len(t) /\ i = n + (i - n)
    BY <1>1
  <2> QED  BY <2>1
<1>3. \A k \in 1..Len(t) : n + k \in 1..Len(c)
  BY <1>1
<1>4. 1..n \subseteq 1..Len(c)
  BY <1>1
<1>5. \A k \in 1..Len(t) : Starts(t[k]) <=> t[k].first
  BY DEF Starts
<1>6. HasFirst(c) <=> HasFirst(s) \/ \E k \in 1..Len(t) : t[k].first
  <2>1. ASSUME HasFirst(c)  PROVE HasFirst(s) \/ \E k \in 1..Len(t) : t[k].first
    <3>1. PICK i \in 1..Len(c) : Starts(c[i])
      BY <2>1 DEF HasFirst
    <3>2. CASE i \in 1..n
      BY <3>1, <3>2, <1>1 DEF HasFirst
    <3>3. ASSUME NEW k \in 1..Len(t), i = n + k  PROVE \E h \in 1..Len(t) : t[h].first
      BY <3>1, <3>3, <1>1, <1>5
    <3> QED  BY <1>2, <3>2, <3>3
  <2>2. HasFirst(s) => HasFirst(c)
    BY <1>1, <1>4 DEF HasFirst
  <2>3. ASSUME NEW k \in 1..Len(t), t[k].first  PROVE HasFirst(c)
    <3>1. Starts(c[n + k])
      BY <2>3, <1>1, <1>5
    <3> QED  BY <3>1, <1>3 DEF HasFirst
  <2> QED  BY <2>1, <2>2, <2>3
<1>7. ASSUME NEW i \in 1..n  PROVE SelfLed(c[i]) \/ \E j \in 1..i - 1 : Starts(c[j])
  <2>1. \A j \in 1..i - 1 : j \in 1..n
    BY <1>1
  <2> QED  BY <2>1, <1>1 DEF Led
<1>8. ASSUME NEW k \in 1..Len(t)
      PROVE  SelfLed(c[n + k]) \/ \E j \in 1..(n + k) - 1 : Starts(c[j])
  <2>1. CASE ~t[k].fp8 \/ t[k].first
    BY <2>1, <1>1 DEF SelfLed
  <2>2. CASE HasFirst(s)
    <3>1. PICK j \in 1..n : Starts(s[j])
      BY <2>2 DEF HasFirst
    <3>2. j \in 1..(n + k) - 1
      BY <1>1
    <3> QED  BY <3>1, <3>2, <1>1
  <2>3. ASSUME NEW j \in 1..k, t[j].first, j # k
        PROVE  \E h \in 1..(n + k) - 1 : Starts(c[h])
    <3>1. j \in 1..Len(t) /\ n + j \in 1..(n + k) - 1
      BY <2>3, <1>1
    <3> QED  BY <3>1, <2>3, <1>1, <1>5
  <2> QED  BY <2>1, <2>2, <2>3
<1>9. Led(c)
  BY <1>2, <1>7, <1>8 DEF Led
<1> QED  BY <1>6, <1>9 DEF c

-----------------------------------------------------------------------------
(* Contexts of a callable *)

\* An operation takes the number of open contexts from a to b.
Crosses(op, a, b) ==
  IF op.op = "enter" THEN b = a + 1
  ELSE IF op.op = "exit" THEN a = b + 1 ELSE a = b

\* The operations take the number of open contexts from the one to the other
\* and never below 0.
Levels(ops, from, to) ==
  \E d \in [0..Len(ops) -> Nat] :
    /\ d[0] = from /\ d[Len(ops)] = to
    /\ \A i \in 1..Len(ops) : Crosses(ops[i], d[i - 1], d[i])

LEMMA LevelsAppend ==
  ASSUME NEW ops \in Seq(Ops), NEW op \in Ops, NEW from, NEW to,
         NEW next \in Nat, Levels(ops, from, to), Crosses(op, to, next)
  PROVE  Levels(Append(ops, op), from, next)
<1> DEFINE n == Len(ops)
           a == Append(ops, op)
<1>1. /\ n \in Nat /\ Len(a) = n + 1 /\ a[n + 1] = op
      /\ \A i \in 1..n : a[i] = ops[i]
  OBVIOUS
<1>2. PICK d \in [0..n -> Nat] :
        /\ d[0] = from /\ d[n] = to
        /\ \A i \in 1..n : Crosses(ops[i], d[i - 1], d[i])
  BY DEF Levels
<1> DEFINE e == [i \in 0..n + 1 |-> IF i <= n THEN d[i] ELSE next]
<1> HIDE DEF a
<1>3. e \in [0..Len(a) -> Nat] /\ e[0] = from /\ e[Len(a)] = next /\ e[n] = to
  BY <1>1, <1>2
<1>4. ASSUME NEW i \in 1..n  PROVE Crosses(a[i], e[i - 1], e[i])
  <2>1. e[i - 1] = d[i - 1] /\ e[i] = d[i]
    BY <1>1
  <2> QED  BY <2>1, <1>1, <1>2
<1>5. Crosses(a[n + 1], e[(n + 1) - 1], e[n + 1])
  <2>1. (n + 1) - 1 = n /\ e[n + 1] = next
    BY <1>1
  <2> QED  BY <2>1, <1>1, <1>3
<1> HIDE DEF e
<1>6. \A i \in 1..Len(a) : Crosses(a[i], e[i - 1], e[i])
  <2>1. \A i \in 1..Len(a) : i \in 1..n \/ i = n + 1
    BY <1>1
  <2> QED  BY <2>1, <1>4, <1>5
<1>7. Levels(a, from, next)
  BY <1>3, <1>6 DEF Levels
<1> QED  BY <1>7 DEF a

LEMMA LevelsTail ==
  ASSUME NEW ops \in Seq(Ops), NEW from, NEW to, Levels(ops, from, to), ops # <<>>
  PROVE  \E next \in Nat : Crosses(Head(ops), from, next) /\ Levels(Tail(ops), next, to)
<1> DEFINE n == Len(ops)
           t == Tail(ops)
<1>1. /\ n \in Nat \ {0} /\ Len(t) = n - 1 /\ Head(ops) = ops[1]
      /\ \A i \in 1..n - 1 : t[i] = ops[i + 1]
  BY EmptySeq
<1>2. PICK d \in [0..n -> Nat] :
        /\ d[0] = from /\ d[n] = to
        /\ \A i \in 1..n : Crosses(ops[i], d[i - 1], d[i])
  BY DEF Levels
<1> DEFINE e == [i \in 0..n - 1 |-> d[i + 1]]
<1> HIDE DEF t
<1>3. e \in [0..Len(t) -> Nat] /\ e[0] = d[1] /\ e[Len(t)] = to
  BY <1>1, <1>2
<1>4. ASSUME NEW i \in 1..Len(t)  PROVE Crosses(t[i], e[i - 1], e[i])
  <2>1. /\ i + 1 \in 1..n /\ (i + 1) - 1 = i /\ t[i] = ops[i + 1]
        /\ e[i - 1] = d[i] /\ e[i] = d[i + 1]
    BY <1>1
  <2>2. Crosses(ops[i + 1], d[(i + 1) - 1], d[i + 1])
    BY <2>1, <1>2
  <2> QED  BY <2>1, <2>2
<1> HIDE DEF e
<1>5. Levels(t, d[1], to)
  BY <1>3, <1>4 DEF Levels
<1>6. d[1] \in Nat /\ Crosses(Head(ops), from, d[1])
  <2>1. 1 \in 1..n /\ 1 - 1 = 0 /\ 1 \in 0..n
    BY <1>1
  <2> QED  BY <2>1, <1>1, <1>2
<1> QED  BY <1>5, <1>6 DEF t

LEMMA LevelsEmpty ==
  ASSUME NEW from, NEW to
  PROVE  /\ Levels(<<>>, from, to) => from = to
         /\ from \in Nat => Levels(<<>>, from, from)
<1>1. Len(<<>>) = 0 /\ 1..0 = {}
  BY EmptySeq
<1>2. Levels(<<>>, from, to) => from = to
  BY <1>1 DEF Levels
<1>3. ASSUME from \in Nat  PROVE Levels(<<>>, from, from)
  <2> DEFINE d == [i \in 0..0 |-> from]
  <2>1. d \in [0..0 -> Nat] /\ d[0] = from
    BY <1>3
  <2> HIDE DEF d
  <2>2. \E e \in [0..0 -> Nat] :
          /\ e[0] = from /\ e[0] = from
          /\ \A i \in {} : Crosses(<<>>[i], e[i - 1], e[i])
    BY <2>1
  <2> QED  BY <1>1, <2>2 DEF Levels
<1> QED  BY <1>2, <1>3

-----------------------------------------------------------------------------
(* The invariant *)

\* The tensors of every FP8 module of n are in the global buffers.
Registered(n) ==
  IF n.kind = "module" THEN n.fp8 => n.mod \in buffered
  ELSE \A k \in 1..Len(n.nodes) : n.nodes[k].fp8 => n.nodes[k].mod \in buffered

GoodNodes ==
  {n \in Nodes : Registered(n) /\ (n.kind = "checkpoint" => Levels(n.ops, 0, 0))}
GoodGraphs == {s \in Seq(GoodNodes) : Led(s)}
GoodBatches == [iter : Iters, nodes : GoodGraphs]

\* A module that runs in FP8 or has a gradient to reduce is in the buffers.
Buffered ==
  /\ \A m \in Modules : fp8[m] => m \in buffered
  /\ \A m \in Modules : bwd[m].hist[1] # {} => m \in buffered

\* The graphs recorded so far.
Graphs ==
  /\ tape \in Seq(GoodNodes) /\ todo \in Seq(GoodNodes)
  /\ Registered(region)
  /\ pending \in Seq(GoodBatches)
  /\ mode \in {"idle", "backward", "reduce"} => tape = <<>>

\* A replay opens and closes the contexts that its first forward did.
Balanced ==
  /\ mode \in {"idle", "backward", "reduce"} => contexts = <<>>
  /\ mode = "checkpoint" =>
       /\ region.base <= Len(contexts)
       /\ Levels(region.ops, 0, Len(contexts) - region.base)
  /\ mode = "replay" =>
       /\ contexts # <<>>
       /\ Levels(region.ops, Len(contexts) - 1, 0)

Structure == Inv /\ Flow /\ Buffered /\ Graphs /\ Balanced

\* What the forward in progress has recorded, or the backward has yet to run.
Walk ==
  CASE mode = "forward"    -> tape
    [] mode = "checkpoint" -> Append(tape, region)
    [] mode = "replay"     -> Append(todo, region)
    [] OTHER               -> todo

Guided == mode \notin {"idle", "unwinding", "raised"} => Led(Walk)

\* The flag of the first module is down only behind a first module, and never
\* in a recompute.
Flags ==
  /\ mode \in {"forward", "checkpoint"} =>
       /\ current # NoModule => fp8[current] = qstate.enabled
       /\ contexts # <<>> /\ ~qstate.isFirst => HasFirst(Walk)
       /\ \A i \in 2..Len(contexts) : ~contexts[i].isFirst => HasFirst(Walk)
  /\ mode = "replay" =>
       /\ qstate.isFirst
       /\ \A i \in 2..Len(contexts) : contexts[i].isFirst
       /\ \A i \in 1..Len(tape) :
            tape[i].kind = "module" /\ (tape[i].fp8 => tape[i].first)

AllClean == \A m \in Modules : bwd[m].hist[1] = {}

\* As long as a gradient is pending, a node that reduces it is still to come.
Clean ==
  /\ mode \in {"idle", "forward", "checkpoint"} => AllClean
  /\ mode \in {"backward", "replay"} => AllClean \/ HasFirst(Walk)

GInv == Structure /\ Guided /\ Flags /\ Clean

-----------------------------------------------------------------------------
(* Registration *)

\* What is registered stays so.
LEMMA GoodGrow ==
  ASSUME buffered \subseteq buffered'
  PROVE  /\ \A n \in Nodes : Registered(n) => Registered(n)'
         /\ GoodNodes \subseteq GoodNodes'
         /\ Seq(GoodNodes) \subseteq Seq(GoodNodes')
         /\ GoodGraphs \subseteq GoodGraphs'
         /\ Seq(GoodBatches) \subseteq Seq(GoodBatches')
<1>1. \A n \in Nodes : Registered(n) => Registered(n)'
  BY DEF Registered
<1>2. GoodNodes \subseteq GoodNodes'
  BY <1>1 DEF GoodNodes
<1>3. Seq(GoodNodes) \subseteq Seq(GoodNodes')
  BY <1>2, SeqSubset
<1>4. GoodGraphs \subseteq GoodGraphs'
  BY <1>3 DEF GoodGraphs
<1>5. GoodBatches \subseteq GoodBatches'
  BY <1>4 DEF GoodBatches
<1> QED  BY <1>1, <1>2, <1>3, <1>4, <1>5, SeqSubset

LEMMA BuffersGrow ==
  ASSUME [Next]_vars
  PROVE  buffered \subseteq buffered'
<1>1. CASE UNCHANGED buffered
  BY <1>1
<1>2. ASSUME NEW m, PrepareForward(m)  PROVE buffered \subseteq buffered'
  BY <1>2 DEF PrepareForward, SwitchToStash, InitMetadata
<1> QED
  BY <1>1, <1>2
  DEF Next, vars, libVars, Finished, StartForward, EnterContext, ExitContext,
      CallModule, ReturnFromModule, StartCheckpoint, EndCheckpoint,
      EndMicrobatch, StartBackward, BackwardModule, ReduceBackward,
      StartReplay, ReplayEnter, ReplayExit, ReplayCall, ReplayReturn,
      ReplayRaises, Unwind, EndReplay, EndBackward

\* The node a forward records is registered.
LEMMA NodeIsGood ==
  ASSUME Inv, Buffered, NEW m \in Modules
  PROVE  NodeOf(m) \in GoodNodes
<1>1. NodeOf(m) \in Nodes
  BY NodeOfType DEF Inv
<1>2. NodeOf(m).kind = "module" /\ NodeOf(m).fp8 = fp8[m] /\ NodeOf(m).mod = m
  BY DEF NodeOf
<1> QED  BY <1>1, <1>2 DEF GoodNodes, Registered, Buffered

\* Reducing empties row 0 of every tensor in the buffers.
LEMMA ReducedRow ==
  ASSUME NEW ts \in [Modules -> Tensor], NEW m \in Modules
  PROVE  Reduced(ts)[m].hist[1] = IF m \in buffered THEN {} ELSE ts[m].hist[1]
<1>1. 1 \in Rows
  BY ScriptAssumption DEF Rows
<1>2. CASE m \notin buffered
  BY <1>2 DEF Reduced
<1>3. CASE m \in buffered
  <2>1. Reduced(ts)[m] = AmaxAndScaleUpdate(ts[m])
    BY <1>3 DEF Reduced
  <2>2. AmaxAndScaleUpdate(ts[m]).hist[1] = {}
    BY <1>1 DEF AmaxAndScaleUpdate, UpdateAmaxHistory
  <2> QED  BY <1>3, <2>1, <2>2
<1> QED  BY <1>2, <1>3

\* Recording touches one tensor.
LEMMA RecordedRow ==
  ASSUME NEW ts \in [Modules -> Tensor], NEW n \in Modules, NEW o,
         NEW m \in Modules
  PROVE  m # n => [ts EXCEPT ![n] = Record(@, o)][m].hist[1] = ts[m].hist[1]
  OBVIOUS

LEMMA BufferedStep ==
  ASSUME Structure, [Next]_vars
  PROVE  Buffered'
<1>1. buffered \subseteq buffered'
  BY BuffersGrow
<1>2. TypeOK
  BY DEF Structure, Inv
<1>3. ASSUME NEW n, PrepareForward(n)
      PROVE  \A m \in Modules : fp8'[m] => m \in buffered'
  BY <1>1, <1>2, <1>3 DEF PrepareForward, SwitchToStash, InitMetadata, TypeOK, Structure, Buffered
<1>4. \A m \in Modules : fp8'[m] => m \in buffered'
  <2>1. CASE UNCHANGED fp8
    BY <1>1, <2>1 DEF Structure, Buffered
  <2> QED
    BY <1>3, <2>1
    DEF Next, vars, libVars, Finished, StartForward, EnterContext, ExitContext,
        CallModule, ReturnFromModule, StartCheckpoint, EndCheckpoint,
        EndMicrobatch, StartBackward, BackwardModule, ReduceBackward,
        StartReplay, ReplayEnter, ReplayExit, ReplayCall, ReplayReturn,
        ReplayRaises, Unwind, EndReplay, EndBackward
<1>5. \A m \in Modules : bwd'[m].hist[1] # {} => m \in buffered'
  <2>1. CASE UNCHANGED bwd
    BY <1>1, <2>1 DEF Structure, Buffered
  <2>2. CASE ReduceBackward
    <3>1. bwd' = Reduced(bwd) /\ bwd \in [Modules -> Tensor]
      BY <1>2, <2>2 DEF ReduceBackward, TypeOK
    <3>2. \A m \in Modules :
            bwd'[m].hist[1] = IF m \in buffered THEN {} ELSE bwd[m].hist[1]
      BY <3>1, ReducedRow
    <3> QED  BY <1>1, <3>2 DEF Structure, Buffered
  <2>3. CASE BackwardModule
    <3>1. todo \in Seq(GoodNodes) /\ todo # <<>> /\ Last(todo).kind = "module"
      BY <2>3 DEF BackwardModule, Structure, Graphs
    <3>2. Last(todo) \in GoodNodes
      BY <3>1, FrontAndLast
    <3>3. Last(todo) \in ModuleNodes /\ Registered(Last(todo))
      BY <3>1, <3>2, NodeKinds DEF GoodNodes
    <3>4. Last(todo).mod \in Modules /\ (Last(todo).fp8 => Last(todo).mod \in buffered)
      BY <3>1, <3>3 DEF Registered, ModuleNodes
    <3>5. bwd \in [Modules -> Tensor]
      BY <1>2 DEF TypeOK
    <3>6. CASE Last(todo).fp8
      <4>1. bwd' = [bwd EXCEPT ![Last(todo).mod] = Record(@, iter)]
        BY <2>3, <3>6 DEF BackwardModule
      <4>2. \A m \in Modules : m # Last(todo).mod => bwd'[m].hist[1] = bwd[m].hist[1]
        BY <3>4, <3>5, <4>1, RecordedRow
      <4> QED  BY <1>1, <3>4, <3>6, <4>2 DEF Structure, Buffered
    <3>7. CASE ~Last(todo).fp8
      BY <2>1, <2>3, <3>7 DEF BackwardModule
    <3> QED  BY <3>6, <3>7
  <2> QED
    BY <2>1, <2>2, <2>3
    DEF Next, vars, Finished, StartForward, EnterContext, ExitContext,
        CallModule, ReturnFromModule, StartCheckpoint, EndCheckpoint,
        EndMicrobatch, StartBackward, StartReplay, ReplayEnter, ReplayExit,
        ReplayCall, ReplayReturn, ReplayRaises, Unwind, EndReplay, EndBackward
<1> QED  BY <1>4, <1>5 DEF Buffered

-----------------------------------------------------------------------------
(* The recorded graphs *)

\* The callable in progress keeps its nodes while operations come and go.
LEMMA RegionOps ==
  ASSUME Inv,
         \/ \E op : region' = Recorded(op)
         \/ Consume
  PROVE  /\ region'.nodes = region.nodes /\ region'.reentrant = region.reentrant
         /\ region'.base = region.base /\ region'.kind = "checkpoint"
<1>1. region \in Callables
  BY DEF Inv, TypeOK
<1> QED  BY <1>1 DEF Recorded, Consume, Callables

\* What a module leaves in the callable in progress.
LEMMA RegionCall ==
  ASSUME Inv, NEW m \in Modules, ReturnFromModule(m), mode = "checkpoint"
  PROVE  /\ region'.reentrant = region.reentrant /\ region'.base = region.base
         /\ region'.kind = "checkpoint"
         /\ region'.nodes = IF region.reentrant THEN region.nodes
                            ELSE Append(region.nodes, NodeOf(m))
         /\ \E op \in Ops : op.op = "call" /\ region'.ops = Append(region.ops, op)
<1> DEFINE op == [op |-> "call", mod |-> m, fp8 |-> fp8[m], scale |-> fwd[m].scale]
<1>1. region \in Callables
  BY DEF Inv, TypeOK
<1>2. op \in Ops /\ op.op = "call"
  BY DEF Inv, TypeOK, Ops, CallOps, Tensor
<1>3. region' = [region EXCEPT
                   !.ops = Append(@, op),
                   !.nodes = IF GradEnabled THEN Append(@, NodeOf(m)) ELSE @]
  BY DEF ReturnFromModule
<1> HIDE DEF op
<1>4. GradEnabled <=> ~region.reentrant
  BY DEF GradEnabled
<1>5. region.reentrant \in BOOLEAN
  BY <1>1 DEF Callables
<1> QED  BY <1>1, <1>2, <1>3, <1>4, <1>5 DEF Callables

LEMMA GraphsStep ==
  ASSUME GInv, [Next]_vars
  PROVE  Graphs'
<1>1. buffered \subseteq buffered' /\ Inv /\ Inv' /\ Graphs /\ Buffered /\ Balanced /\ Guided
  BY BuffersGrow, InvStep DEF GInv, Structure
<1>2. /\ \A n \in Nodes : Registered(n) => Registered(n)'
      /\ GoodNodes \subseteq GoodNodes'
      /\ Seq(GoodNodes) \subseteq Seq(GoodNodes')
      /\ Seq(GoodBatches) \subseteq Seq(GoodBatches')
  BY <1>1, GoodGrow
<1>3. region \in Callables /\ region \in Nodes /\ region.kind = "checkpoint"
      /\ region' \in Callables /\ region'.kind = "checkpoint"
  BY <1>1 DEF Inv, TypeOK, Nodes, Callables
\* The graph being recorded.
<1>4. tape' \in Seq(GoodNodes')
  <2>1. CASE tape' \in Seq(GoodNodes)
    BY <1>2, <2>1
  <2>2. ASSUME NEW m \in Modules, tape' = Append(tape, NodeOf(m)) \/ tape' = tape
        PROVE  tape' \in Seq(GoodNodes)
    <3>1. NodeOf(m) \in GoodNodes /\ tape \in Seq(GoodNodes)
      BY <1>1, NodeIsGood DEF Graphs
    <3> QED  BY <2>2, <3>1, AppendType
  <2>3. ASSUME NEW m \in Modules, ReturnFromModule(m)  PROVE tape' \in Seq(GoodNodes)
    BY <2>2, <2>3 DEF ReturnFromModule
  <2>4. CASE EndCheckpoint
    <3>1. Levels(region.ops, 0, 0)
      <4>1. Len(contexts) \in Nat /\ Len(contexts) - region.base = 0
        BY <1>1, <2>4 DEF EndCheckpoint, Inv, TypeOK
      <4> QED  BY <1>1, <2>4, <4>1 DEF EndCheckpoint, Balanced
    <3>2. region \in GoodNodes
      BY <1>1, <1>3, <3>1 DEF Graphs, GoodNodes
    <3> QED  BY <1>1, <2>1, <2>4, <3>2 DEF EndCheckpoint, Graphs
  <2>5. CASE ReplayReturn
    <3>1. Head(region.ops) \in Ops
      BY <1>3, <2>5 DEF ReplayReturn, NextOp, Callables
    <3>2. Head(region.ops).mod \in Modules
      BY <2>5, <3>1, OpKinds DEF ReplayReturn, NextOp
    <3> QED  BY <2>1, <2>2, <2>5, <3>2 DEF ReplayReturn
  <2>6. CASE UNCHANGED tape \/ tape' = <<>>
    <3>1. tape \in Seq(GoodNodes) /\ <<>> \in Seq(GoodNodes)
      BY <1>1, EmptySeq DEF Graphs
    <3> QED  BY <2>1, <2>6, <3>1
  <2> QED
    BY <2>1, <2>3, <2>4, <2>5, <2>6
    DEF Next, vars, Finished, StartForward, EnterContext, ExitContext,
        CallModule, StartCheckpoint, EndMicrobatch, StartBackward,
        BackwardModule, ReduceBackward, StartReplay, ReplayEnter, ReplayExit,
        ReplayCall, ReplayRaises, Unwind, EndReplay, EndBackward
\* What the running backward has still to reach.
<1>5. todo' \in Seq(GoodNodes')
  <2>1. CASE todo' \in Seq(GoodNodes)
    BY <1>2, <2>1
  <2>2. ASSUME NEW i \in DOMAIN pending, StartBackward(i)
        PROVE  todo' \in Seq(GoodNodes)
    <3>1. pending[i] \in GoodBatches
      BY <1>1 DEF Graphs
    <3> QED  BY <2>2, <3>1 DEF StartBackward, GoodBatches, GoodGraphs
  <2>3. CASE BackwardModule \/ StartReplay
    BY <1>1, <2>1, <2>3, LastFrontType DEF BackwardModule, StartReplay, Graphs
  <2>4. CASE EndReplay
    <3>1. region.nodes \in Seq(ModuleNodes)
      BY <1>3 DEF Callables
    <3>2. \A k \in 1..Len(region.nodes) : region.nodes[k] \in GoodNodes
      <4> SUFFICES ASSUME NEW k \in 1..Len(region.nodes)
                   PROVE  region.nodes[k] \in GoodNodes
        OBVIOUS
      <4>1. region.nodes[k] \in ModuleNodes
        BY <3>1
      <4>2. region.nodes[k].kind = "module" /\ region.nodes[k] \in Nodes
        BY <4>1 DEF ModuleNodes, Nodes
      <4>3. region.nodes[k].fp8 => region.nodes[k].mod \in buffered
        BY <1>1, <1>3 DEF Graphs, Registered
      <4> QED  BY <4>2, <4>3 DEF GoodNodes, Registered
    <3>3. region.nodes \in Seq(GoodNodes)
      <4>1. Len(region.nodes) \in Nat
            /\ region.nodes = [k \in 1..Len(region.nodes) |-> region.nodes[k]]
        BY <3>1
      <4> QED  BY <3>2, <4>1
    <3>4. todo \in Seq(GoodNodes) /\ tape \in Seq(GoodNodes)
      BY <1>1 DEF Graphs
    <3> QED  BY <2>1, <2>4, <3>3, <3>4 DEF EndReplay
  <2>5. CASE UNCHANGED todo
    BY <1>1, <2>1, <2>5 DEF Graphs
  <2> QED
    BY <2>1, <2>2, <2>3, <2>4, <2>5
    DEF Next, vars, Finished, StartForward, EnterContext, ExitContext,
        CallModule, ReturnFromModule, StartCheckpoint, EndCheckpoint,
        EndMicrobatch, ReduceBackward, ReplayEnter, ReplayExit, ReplayCall,
        ReplayReturn, ReplayRaises, Unwind, EndBackward, scriptVars
\* The callable in progress.
<1>6. Registered(region)'
  <2>1. CASE region'.nodes = region.nodes
    BY <1>1, <1>3, <2>1 DEF Registered, Graphs
  <2>2. CASE region'.nodes = <<>>
    BY <1>3, <2>2 DEF Registered
  <2>3. ASSUME NEW m \in Modules, ReturnFromModule(m)  PROVE Registered(region)'
    <3>1. CASE mode = "forward"
      BY <2>1, <2>3, <3>1 DEF ReturnFromModule
    <3>2. CASE mode = "checkpoint"
      <4>1. CASE region.reentrant
        BY <1>1, <2>1, <2>3, <3>2, <4>1, RegionCall
      <4>2. CASE ~region.reentrant
        <5> DEFINE n == Len(region.nodes)
        <5>1. region'.nodes = Append(region.nodes, NodeOf(m))
          BY <1>1, <2>3, <3>2, <4>2, RegionCall
        <5>2. region.nodes \in Seq(ModuleNodes) /\ NodeOf(m) \in ModuleNodes
          BY <1>1, <1>3, NodeOfType DEF Callables, Inv
        <5>3. /\ n \in Nat /\ Len(region'.nodes) = n + 1
              /\ region'.nodes[n + 1] = NodeOf(m)
              /\ \A k \in 1..n : region'.nodes[k] = region.nodes[k]
          BY <5>1, <5>2
        <5>4. NodeOf(m).fp8 => NodeOf(m).mod \in buffered
          BY <1>1 DEF NodeOf, Buffered
        <5>5. \A k \in 1..n : region.nodes[k].fp8 => region.nodes[k].mod \in buffered
          BY <1>1, <1>3 DEF Graphs, Registered
        <5>6. \A k \in 1..n + 1 : k \in 1..n \/ k = n + 1
          BY <5>3
        <5> HIDE DEF n
        <5> QED  BY <1>1, <1>3, <5>3, <5>4, <5>5, <5>6 DEF Registered
      <4> QED  BY <4>1, <4>2
    <3> QED  BY <2>3, <3>1, <3>2 DEF ReturnFromModule
  <2>4. ASSUME NEW enabled \in Enabled, EnterContext(enabled)  PROVE Registered(region)'
    BY <1>1, <2>1, <2>4, RegionOps DEF EnterContext
  <2>5. CASE ExitContext
    BY <1>1, <2>1, <2>5, RegionOps DEF ExitContext
  <2>6. ASSUME NEW reentrant \in Reentrant, StartCheckpoint(reentrant)
        PROVE  Registered(region)'
    BY <2>2, <2>6 DEF StartCheckpoint, NoRegion
  <2>7. CASE StartReplay
    <3>1. Last(todo) \in GoodNodes
      BY <1>1, <2>7, LastFrontType DEF StartReplay, Graphs
    <3>2. ASSUME NEW n \in GoodNodes, region' = n  PROVE Registered(region)'
      <4>1. Registered(n)
        BY DEF GoodNodes
      <4> QED  BY <1>1, <3>2, <4>1 DEF Registered
    <3> QED  BY <2>7, <3>1, <3>2 DEF StartReplay
  <2>8. CASE ReplayEnter \/ ReplayExit \/ ReplayReturn
    BY <1>1, <2>1, <2>8, RegionOps DEF ReplayEnter, ReplayExit, ReplayReturn
  <2>9. CASE UNCHANGED region
    BY <2>1, <2>9
  <2>10. CASE region' = NoRegion
    BY <2>2, <2>10 DEF NoRegion
  <2> QED
    BY <2>3, <2>4, <2>5, <2>6, <2>7, <2>8, <2>9, <2>10
    DEF Next, vars, Finished, StartForward, CallModule, EndCheckpoint,
        EndMicrobatch, StartBackward, BackwardModule, ReduceBackward,
        ReplayCall, ReplayRaises, Unwind, EndReplay, EndBackward
\* The graphs kept for a later backward.
<1>7. pending' \in Seq(GoodBatches')
  <2>1. CASE pending' \in Seq(GoodBatches)
    BY <1>2, <2>1
  <2>2. ASSUME NEW keep \in BOOLEAN, EndMicrobatch(keep)
        PROVE  pending' \in Seq(GoodBatches)
    <3> DEFINE mb == [iter |-> iter, nodes |-> tape]
    <3>1. Led(tape) /\ iter \in Iters
      BY <1>1, <2>2 DEF EndMicrobatch, Guided, Walk, Inv, Running
    <3>2. mb \in GoodBatches
      BY <1>1, <3>1 DEF Graphs, GoodBatches, GoodGraphs
    <3>3. pending' = Append(pending, mb) \/ pending' = pending
      BY <2>2 DEF EndMicrobatch
    <3> HIDE DEF mb
    <3>4. pending \in Seq(GoodBatches)
      BY <1>1 DEF Graphs
    <3> QED  BY <3>2, <3>3, <3>4, AppendType
  <2>3. ASSUME NEW i \in DOMAIN pending, StartBackward(i)
        PROVE  pending' \in Seq(GoodBatches)
    BY <1>1, <2>3, RemoveAtType DEF StartBackward, Graphs
  <2>4. CASE UNCHANGED pending
    BY <1>1, <2>1, <2>4 DEF Graphs
  <2> QED
    BY <2>1, <2>2, <2>3, <2>4
    DEF Next, vars, Finished, StartForward, EnterContext, ExitContext,
        CallModule, ReturnFromModule, StartCheckpoint, EndCheckpoint,
        BackwardModule, ReduceBackward, StartReplay, ReplayEnter, ReplayExit,
        ReplayCall, ReplayReturn, ReplayRaises, Unwind, EndReplay, EndBackward,
        scriptVars
<1>8. mode' \in {"idle", "backward", "reduce"} => tape' = <<>>
  BY <1>1
  DEF Graphs, Next, vars, Finished, StartForward, EnterContext, ExitContext,
      CallModule, ReturnFromModule, StartCheckpoint, EndCheckpoint,
      EndMicrobatch, StartBackward, BackwardModule, ReduceBackward,
      StartReplay, ReplayEnter, ReplayExit, ReplayCall, ReplayReturn,
      ReplayRaises, Unwind, EndReplay, EndBackward, InScript, NextOp
<1> QED  BY <1>4, <1>5, <1>6, <1>7, <1>8 DEF Graphs

-----------------------------------------------------------------------------
(* The contexts a replay opens and closes *)

LEMMA BalancedStep ==
  ASSUME Structure, [Next]_vars
  PROVE  Balanced'
<1>1. Inv /\ Inv' /\ Flow /\ Graphs /\ Balanced
  BY InvStep DEF Structure
<1>2. /\ contexts \in Seq(Contexts) /\ Len(contexts) \in Nat
      /\ contexts' \in Seq(Contexts) /\ Len(contexts') \in Nat
      /\ contexts = <<>> <=> Len(contexts) = 0
      /\ contexts' = <<>> <=> Len(contexts') = 0
  <2>1. TypeOK /\ TypeOK'
    BY <1>1 DEF Inv
  <2>2. contexts \in Seq(Contexts)
    BY <2>1 DEF TypeOK, Contexts
  <2>3. contexts' \in Seq(Contexts)
    BY <2>1 DEF TypeOK, Contexts
  <2> QED  BY <2>2, <2>3, EmptySeq
<1>3. /\ region \in Callables /\ region.ops \in Seq(Ops) /\ region.base \in Nat
      /\ region' \in Callables
  BY <1>1 DEF Inv, TypeOK, Callables
\* What entering and leaving do to the number of open contexts.
<1>4. ASSUME NEW q, NEW enabled, AutocastEnter(q, enabled)
      PROVE  Len(contexts') = Len(contexts) + 1
  BY <1>2, <1>4 DEF AutocastEnter
<1>5. ASSUME AutocastExit
      PROVE  Len(contexts) # 0 /\ Len(contexts') = Len(contexts) - 1
  BY <1>2, <1>5, LastFrontType DEF AutocastExit
<1>6. CASE UNCHANGED <<mode, contexts, region>>
  BY <1>1, <1>6 DEF Balanced
<1>7. CASE mode' \in {"forward", "unwinding", "raised"}
  BY <1>7 DEF Balanced
<1>8. ASSUME mode' \in {"idle", "backward", "reduce"}, contexts' = <<>>
      PROVE  Balanced'
  BY <1>8 DEF Balanced
\* The first forward of a callable.
<1>9. ASSUME NEW op \in Ops, NEW n \in Nat, mode = "checkpoint", mode' = "checkpoint",
             Crosses(op, Len(contexts) - region.base, n),
             region'.base = region.base, region'.ops = Append(region.ops, op),
             Len(contexts') = n + region.base
      PROVE  Balanced'
  <2>1. Levels(region.ops, 0, Len(contexts) - region.base)
    BY <1>1, <1>9 DEF Balanced
  <2>2. Levels(region'.ops, 0, n)
    BY <1>3, <1>9, <2>1, LevelsAppend
  <2>3. region'.base <= Len(contexts') /\ Len(contexts') - region'.base = n
    BY <1>3, <1>9
  <2> QED  BY <1>9, <2>2, <2>3 DEF Balanced
<1>10. ASSUME mode = "checkpoint"
       PROVE  Len(contexts) - region.base \in Nat
  BY <1>1, <1>2, <1>3, <1>10 DEF Balanced
<1>11. ASSUME NEW enabled \in Enabled, EnterContext(enabled), mode = "checkpoint"
       PROVE  Balanced'
  <2> DEFINE op == [op |-> "enter", enabled |-> enabled]
             n == Len(contexts) - region.base
  <2>1. op \in Ops /\ op.op = "enter"
    BY ScriptAssumption DEF Ops, EnterOps
  <2>2. /\ mode' = "checkpoint" /\ region' = [region EXCEPT !.ops = Append(@, op)]
        /\ Len(contexts') = Len(contexts) + 1
    BY <1>4, <1>11 DEF EnterContext, Recorded
  <2>3. region'.base = region.base /\ region'.ops = Append(region.ops, op)
    BY <1>3, <2>2 DEF Callables
  <2>4. n \in Nat /\ n + 1 \in Nat /\ Len(contexts') = (n + 1) + region.base
    BY <1>2, <1>3, <1>10, <1>11, <2>2
  <2>5. Crosses(op, n, n + 1)
    BY <2>1 DEF Crosses
  <2> HIDE DEF op
  <2> QED  BY <1>9, <1>11, <2>1, <2>2, <2>3, <2>4, <2>5
<1>12. ASSUME ExitContext, mode = "checkpoint"
       PROVE  Balanced'
  <2> DEFINE op == [op |-> "exit"]
             n == Len(contexts) - region.base
  <2>1. op \in Ops /\ op.op = "exit"
    BY DEF Ops, ExitOps
  <2>2. /\ mode' = "checkpoint" /\ region' = [region EXCEPT !.ops = Append(@, op)]
        /\ Len(contexts') = Len(contexts) - 1 /\ Len(contexts) > region.base
    BY <1>5, <1>12 DEF ExitContext, Recorded
  <2>3. region'.base = region.base /\ region'.ops = Append(region.ops, op)
    BY <1>3, <2>2 DEF Callables
  <2>4. n \in Nat /\ n - 1 \in Nat /\ n = (n - 1) + 1 /\ Len(contexts') = (n - 1) + region.base
    BY <1>2, <1>3, <2>2
  <2>5. Crosses(op, n, n - 1)
    BY <2>1, <2>4 DEF Crosses
  <2> HIDE DEF op
  <2> QED  BY <1>9, <1>12, <2>1, <2>2, <2>3, <2>4, <2>5
<1>13. ASSUME NEW m \in Modules, ReturnFromModule(m), mode = "checkpoint"
       PROVE  Balanced'
  <2> DEFINE n == Len(contexts) - region.base
  <2>1. PICK op \in Ops : op.op = "call" /\ region'.ops = Append(region.ops, op)
    BY <1>1, <1>13, RegionCall
  <2>2. region'.base = region.base
    BY <1>1, <1>13, RegionCall
  <2>3. mode' = "checkpoint" /\ contexts' = contexts
    BY <1>13 DEF ReturnFromModule
  <2>4. n \in Nat /\ Len(contexts') = n + region.base
    BY <1>2, <1>3, <1>10, <1>13, <2>3
  <2>5. Crosses(op, n, n)
    BY <2>1 DEF Crosses
  <2> QED  BY <1>9, <1>13, <2>1, <2>2, <2>3, <2>4, <2>5
<1>14. ASSUME NEW reentrant \in Reentrant, StartCheckpoint(reentrant)
       PROVE  Balanced'
  <2>1. /\ mode' = "checkpoint" /\ contexts' = contexts
        /\ region'.ops = <<>> /\ region'.base = Len(contexts)
    BY <1>14 DEF StartCheckpoint, NoRegion
  <2>2. Len(contexts') - region'.base = 0 /\ region'.base <= Len(contexts')
    BY <1>2, <2>1
  <2>3. Levels(region'.ops, 0, 0)
    BY <2>1, LevelsEmpty
  <2> QED  BY <2>1, <2>2, <2>3 DEF Balanced
\* Its replay.
<1>15. CASE StartReplay
  <2>1. Last(todo) \in GoodNodes /\ region' = Last(todo) /\ region'.kind = "checkpoint"
    BY <1>1, <1>15, LastFrontType DEF StartReplay, Graphs
  <2>2. Levels(region'.ops, 0, 0)
    BY <2>1 DEF GoodNodes
  <2>3. contexts = <<>>
    BY <1>1, <1>15 DEF StartReplay, Balanced
  <2>4. Len(contexts') = 1 /\ Len(contexts') - 1 = 0 /\ mode' = "replay"
    BY <1>2, <1>4, <1>15, <2>3 DEF StartReplay
  <2> QED  BY <1>2, <2>2, <2>4 DEF Balanced
<1>16. ASSUME NEW kind, NextOp(kind), Consume, mode' = "replay",
              \A n \in Nat : Crosses(Head(region.ops), Len(contexts) - 1, n) =>
                               Len(contexts') = n + 1
       PROVE  Balanced'
  <2>1. region.ops # <<>> /\ Levels(region.ops, Len(contexts) - 1, 0)
    BY <1>1, <1>16 DEF NextOp, Balanced
  <2>2. PICK n \in Nat : /\ Crosses(Head(region.ops), Len(contexts) - 1, n)
                         /\ Levels(Tail(region.ops), n, 0)
    BY <1>3, <2>1, LevelsTail
  <2>3. Len(contexts') = n + 1
    BY <1>16, <2>2
  <2>4. contexts' # <<>> /\ Len(contexts') - 1 = n
    BY <1>2, <2>2, <2>3
  <2>5. region'.ops = Tail(region.ops)
    BY <1>3, <1>16 DEF Consume, Callables
  <2> QED  BY <1>16, <2>2, <2>4, <2>5 DEF Balanced
<1>17. CASE ReplayEnter
  <2>1. NextOp("enter") /\ Consume /\ mode' = "replay" /\ Head(region.ops).op = "enter"
    BY <1>17 DEF ReplayEnter, NextOp
  <2>2. Len(contexts') = Len(contexts) + 1
    BY <1>4, <1>17 DEF ReplayEnter
  <2>3. \A n \in Nat : Crosses(Head(region.ops), Len(contexts) - 1, n) => Len(contexts') = n + 1
    BY <1>2, <2>1, <2>2 DEF Crosses
  <2> QED  BY <1>16, <2>1, <2>3
<1>18. CASE ReplayExit
  <2>1. NextOp("exit") /\ Consume /\ mode' = "replay" /\ Head(region.ops).op = "exit"
    BY <1>18 DEF ReplayExit, NextOp
  <2>2. Len(contexts') = Len(contexts) - 1
    BY <1>5, <1>18 DEF ReplayExit
  <2>3. \A n \in Nat : Crosses(Head(region.ops), Len(contexts) - 1, n) => Len(contexts') = n + 1
    BY <1>2, <2>1, <2>2 DEF Crosses
  <2> QED  BY <1>16, <2>1, <2>3
<1>19. CASE ReplayReturn
  <2>1. NextOp("call") /\ Consume /\ mode' = "replay" /\ Head(region.ops).op = "call"
        /\ contexts' = contexts
    BY <1>19 DEF ReplayReturn, NextOp
  <2>2. \A n \in Nat : Crosses(Head(region.ops), Len(contexts) - 1, n) => Len(contexts') = n + 1
    BY <1>2, <2>1 DEF Crosses
  <2> QED  BY <1>16, <2>1, <2>2
<1>20. CASE EndReplay
  <2>1. mode = "replay" /\ region.ops = <<>> /\ AutocastExit /\ mode' = "backward"
    BY <1>20 DEF EndReplay
  <2>2. Len(contexts) - 1 = 0
    BY <1>1, <2>1, LevelsEmpty DEF Balanced
  <2>3. contexts' = <<>>
    BY <1>2, <1>5, <2>1, <2>2
  <2> QED  BY <1>8, <2>1, <2>3
\* The actions that keep the contexts.
<1>21. ASSUME NEW m \in Modules, CallModule(m)
       PROVE  Balanced'
  BY <1>6, <1>21 DEF CallModule
<1>22. CASE mode = "forward" /\ mode' = mode
  BY <1>7, <1>22
<1>23. CASE StartForward \/ EndCheckpoint \/ ReplayRaises \/ Unwind
  BY <1>7, <1>23 DEF StartForward, EndCheckpoint, ReplayRaises, Unwind
<1>24. ASSUME NEW keep \in BOOLEAN, EndMicrobatch(keep)
       PROVE  Balanced'
  BY <1>8, <1>24 DEF EndMicrobatch
<1>25. ASSUME NEW i \in DOMAIN pending, StartBackward(i)
       PROVE  Balanced'
  BY <1>1, <1>8, <1>25 DEF StartBackward, Balanced
<1>26. CASE BackwardModule \/ ReduceBackward \/ EndBackward
  BY <1>1, <1>8, <1>26 DEF BackwardModule, ReduceBackward, EndBackward, Balanced, scriptVars
<1>27. CASE ReplayCall
  BY <1>6, <1>27 DEF ReplayCall
<1>28. CASE UNCHANGED vars
  BY <1>6, <1>28 DEF vars
<1>29. ASSUME NEW m \in Modules, ReturnFromModule(m), mode # "checkpoint"
       PROVE  Balanced'
  BY <1>22, <1>29 DEF ReturnFromModule
<1>30. ASSUME NEW enabled \in Enabled, EnterContext(enabled), mode # "checkpoint"
       PROVE  Balanced'
  BY <1>22, <1>30 DEF EnterContext, InScript
<1>31. CASE ExitContext /\ mode # "checkpoint"
  BY <1>22, <1>31 DEF ExitContext, InScript
<1> QED
  BY <1>11, <1>12, <1>13, <1>14, <1>15, <1>17, <1>18, <1>19, <1>20, <1>21,
     <1>23, <1>24, <1>25, <1>26, <1>27, <1>28, <1>29, <1>30, <1>31
  DEF Next, Finished

-----------------------------------------------------------------------------
(* Forward passes *)

\* A walk leads as before when only operations of the callable change.
LEMMA SameWalk ==
  ASSUME Inv, Inv', mode' = mode, mode \in {"forward", "checkpoint", "replay"},
         todo' = todo, mode = "replay" \/ tape' = tape,
         region'.nodes = region.nodes, region'.reentrant = region.reentrant
  PROVE  /\ HasFirst(Walk') <=> HasFirst(Walk)
         /\ Led(Walk') <=> Led(Walk)
<1>1. /\ region \in Nodes /\ region.kind = "checkpoint"
      /\ region' \in Nodes /\ region'.kind = "checkpoint"
      /\ tape \in Seq(Nodes) /\ todo \in Seq(Nodes)
  BY DEF Inv, TypeOK, Nodes, Callables
<1>2. /\ Starts(region') <=> Starts(region)
      /\ SelfLed(region') <=> SelfLed(region)
  BY <1>1 DEF Starts, SelfLed
<1>3. CASE mode = "forward"
  <2>1. Walk = tape /\ Walk' = tape
    BY <1>3 DEF Walk
  <2> QED  BY <2>1
<1>4. CASE mode = "checkpoint"
  <2>1. Walk = Append(tape, region) /\ Walk' = Append(tape, region')
    BY <1>4 DEF Walk
  <2> QED  BY <1>1, <1>2, <2>1, GraphAppend
<1>5. CASE mode = "replay"
  <2>1. Walk = Append(todo, region) /\ Walk' = Append(todo, region')
    BY <1>5 DEF Walk
  <2> QED  BY <1>1, <1>2, <2>1, GraphAppend
<1> QED  BY <1>3, <1>4, <1>5

\* A callable that records one more module.
LEMMA NodesAppend ==
  ASSUME NEW r \in Callables, NEW n \in ModuleNodes, NEW q \in Callables,
         ~r.reentrant, ~q.reentrant, q.nodes = Append(r.nodes, n)
  PROVE  /\ Starts(q) <=> Starts(r) \/ n.first
         /\ SelfLed(q) <=> SelfLed(r) /\ (n.fp8 => n.first \/ Starts(r))
<1> DEFINE k == Len(r.nodes)
<1>1. /\ k \in Nat /\ Len(q.nodes) = k + 1 /\ q.nodes[k + 1] = n
      /\ \A i \in 1..k : q.nodes[i] = r.nodes[i]
  BY DEF Callables
<1>2. r.kind = "checkpoint" /\ q.kind = "checkpoint"
  BY DEF Callables
<1> HIDE DEF k
<1>3. 1..Len(q.nodes) = (1..k) \cup {k + 1}
  BY <1>1
<1>4. Starts(r) <=> \E i \in 1..k : r.nodes[i].first
  BY <1>2 DEF Starts, k
<1>5. Starts(q) <=> Starts(r) \/ n.first
  BY <1>1, <1>2, <1>3, <1>4 DEF Starts
<1>6. \A i \in 1..k : (\E j \in 1..i : q.nodes[j].first) <=> (\E j \in 1..i : r.nodes[j].first)
  <2> SUFFICES ASSUME NEW i \in 1..k
               PROVE  (\E j \in 1..i : q.nodes[j].first) <=> (\E j \in 1..i : r.nodes[j].first)
    OBVIOUS
  <2>1. \A j \in 1..i : j \in 1..k
    BY <1>1
  <2> QED  BY <2>1, <1>1
<1>7. (\E j \in 1..k + 1 : q.nodes[j].first) <=> n.first \/ Starts(r)
  BY <1>2, <1>1, <1>5 DEF Starts
<1>8. SelfLed(r) <=> \A i \in 1..k : r.nodes[i].fp8 => \E j \in 1..i : r.nodes[j].first
  BY <1>2 DEF SelfLed, k
<1>9. SelfLed(q) <=> \A i \in 1..Len(q.nodes) : q.nodes[i].fp8 => \E j \in 1..i : q.nodes[j].first
  BY <1>2 DEF SelfLed
<1>10. SelfLed(q) <=> SelfLed(r) /\ (n.fp8 => n.first \/ Starts(r))
  BY <1>1, <1>3, <1>6, <1>7, <1>8, <1>9
<1> QED  BY <1>5, <1>10

\* A module that returns joins the walk behind a first module, or is it.
LEMMA ReturnWalk ==
  ASSUME GInv, Inv', NEW m \in Modules, ReturnFromModule(m)
  PROVE  /\ HasFirst(Walk) => HasFirst(Walk')
         /\ Led(Walk')
         /\ fp8[m] /\ GradEnabled => HasFirst(Walk')
<1>1. /\ Inv /\ Graphs /\ Led(Walk) /\ Flags
      /\ mode' = mode /\ mode \in {"forward", "checkpoint"} /\ current = m
  BY DEF GInv, Structure, Guided, ReturnFromModule, EndForward
<1>2. /\ tape \in Seq(Nodes) /\ region \in Callables /\ region \in Nodes
      /\ region' \in Callables /\ region' \in Nodes
      /\ NodeOf(m) \in ModuleNodes /\ NodeOf(m) \in Nodes
  BY <1>1, NodeOfType DEF Inv, TypeOK, Nodes
<1>3. /\ NodeOf(m).kind = "module" /\ NodeOf(m).fp8 = fp8[m]
      /\ NodeOf(m).first <=> fp8[m] /\ qstate.isFirst
  BY DEF NodeOf
<1>4. fp8[m] /\ ~qstate.isFirst => HasFirst(Walk)
  <2>1. m # NoModule
    BY ScriptAssumption
  <2>2. fp8[m] = qstate.enabled
    BY <1>1, <2>1 DEF Flags
  <2>3. qstate.enabled => contexts # <<>>
    BY <1>1 DEF Inv, Nesting
  <2> QED  BY <1>1, <2>2, <2>3 DEF Flags
<1>5. CASE mode = "forward"
  <2>1. Walk = tape /\ Walk' = Append(tape, NodeOf(m))
    BY <1>1, <1>5 DEF Walk, ReturnFromModule
  <2>2. /\ Starts(NodeOf(m)) <=> fp8[m] /\ qstate.isFirst
        /\ SelfLed(NodeOf(m)) <=> (fp8[m] => qstate.isFirst)
    BY <1>3 DEF Starts, SelfLed
  <2>3. /\ HasFirst(Walk') <=> HasFirst(tape) \/ Starts(NodeOf(m))
        /\ Led(Walk') <=> Led(tape) /\ (SelfLed(NodeOf(m)) \/ HasFirst(tape))
    BY <1>2, <2>1, GraphAppend
  <2> QED  BY <1>1, <1>4, <2>1, <2>2, <2>3
<1>6. CASE mode = "checkpoint" /\ region.reentrant
  <2>1. region'.nodes = region.nodes /\ region'.reentrant = region.reentrant
    BY <1>1, <1>6, RegionCall
  <2>2. tape' = tape /\ todo' = todo
    BY <1>6 DEF ReturnFromModule, scriptVars
  <2>3. HasFirst(Walk') <=> HasFirst(Walk)
    BY <1>1, <2>1, <2>2, SameWalk
  <2>4. Led(Walk') <=> Led(Walk)
    BY <1>1, <2>1, <2>2, SameWalk
  <2>5. ~GradEnabled
    BY <1>6 DEF GradEnabled
  <2> QED  BY <1>1, <2>3, <2>4, <2>5
<1>7. CASE mode = "checkpoint" /\ ~region.reentrant
  <2>1. region'.nodes = Append(region.nodes, NodeOf(m)) /\ ~region'.reentrant
    BY <1>1, <1>7, RegionCall
  <2>2. /\ Starts(region') <=> Starts(region) \/ NodeOf(m).first
        /\ SelfLed(region') <=>
              SelfLed(region) /\ (NodeOf(m).fp8 => NodeOf(m).first \/ Starts(region))
    BY <1>2, <1>7, <2>1, NodesAppend
  <2>3. Walk = Append(tape, region) /\ Walk' = Append(tape, region')
    BY <1>1, <1>7 DEF Walk, ReturnFromModule
  <2>4. /\ HasFirst(Walk) <=> HasFirst(tape) \/ Starts(region)
        /\ Led(Walk) <=> Led(tape) /\ (SelfLed(region) \/ HasFirst(tape))
    BY <1>2, <2>3, GraphAppend
  <2>5. /\ HasFirst(Walk') <=> HasFirst(tape) \/ Starts(region')
        /\ Led(Walk') <=> Led(tape) /\ (SelfLed(region') \/ HasFirst(tape))
    BY <1>2, <2>3, GraphAppend
  <2> QED  BY <1>1, <1>3, <1>4, <2>2, <2>4, <2>5
<1> QED  BY <1>1, <1>5, <1>6, <1>7

Leading == Guided /\ Flags /\ Clean

\* A forward starts with nothing recorded and every gradient reduced.
LEMMA StartForwardLeads ==
  ASSUME GInv, StartForward
  PROVE  Leading'
<1>1. /\ mode = "idle" /\ mode' = "forward" /\ tape' = tape /\ contexts' = contexts
      /\ current' = current /\ bwd' = bwd
  BY DEF StartForward
<1>2. tape = <<>> /\ contexts = <<>> /\ current = NoModule /\ AllClean
  BY <1>1 DEF GInv, Structure, Graphs, Balanced, Flow, Clean
<1>3. Walk' = <<>> /\ Len(<<>>) = 0
  BY <1>1, <1>2, EmptySeq DEF Walk
<1>4. Guided'
  BY <1>3 DEF Guided, Led
<1>5. Flags'
  BY <1>1, <1>2, <1>3 DEF Flags
<1>6. Clean'
  BY <1>1, <1>2 DEF Clean, AllClean
<1> QED  BY <1>4, <1>5, <1>6 DEF Leading

\* Entering the outermost context raises the flag, an inner one keeps it; each
\* saves what it found.
LEMMA EnterLeads ==
  ASSUME GInv, Inv', NEW enabled \in Enabled, EnterContext(enabled)
  PROVE  Leading'
<1>1. /\ mode' = mode /\ mode \in {"forward", "checkpoint"} /\ current' = NoModule
      /\ tape' = tape /\ todo' = todo /\ bwd' = bwd
      /\ AutocastEnter(qstate, enabled)
  BY DEF EnterContext, InScript, scriptVars
<1>2. Inv /\ Flags /\ Guided /\ Clean
  BY DEF GInv, Structure
<1>3. region'.nodes = region.nodes /\ region'.reentrant = region.reentrant
  BY <1>2, RegionOps DEF EnterContext
<1>4. /\ HasFirst(Walk') <=> HasFirst(Walk)
      /\ Led(Walk') <=> Led(Walk)
  BY <1>1, <1>2, <1>3, SameWalk
<1>5. /\ contexts \in Seq(Contexts) /\ Len(contexts) \in Nat
      /\ qstate.depth = Len(contexts) /\ (Len(contexts) = 0 <=> contexts = <<>>)
  BY <1>2, EmptySeq DEF Inv, TypeOK, Nesting, Contexts
<1>6. /\ Len(contexts') = Len(contexts) + 1
      /\ \A i \in 1..Len(contexts) : contexts'[i] = contexts[i]
      /\ contexts'[Len(contexts) + 1].isFirst = qstate.isFirst
      /\ qstate'.isFirst = IF Len(contexts) = 0 THEN TRUE ELSE qstate.isFirst
  BY <1>1, <1>5 DEF AutocastEnter
<1>7. ASSUME NEW i \in 2..Len(contexts'), ~contexts'[i].isFirst
      PROVE  HasFirst(Walk')
  <2>1. CASE i \in 2..Len(contexts)
    <3>1. contexts'[i] = contexts[i]
      BY <1>5, <1>6, <2>1
    <3> QED  BY <1>1, <1>2, <1>4, <1>7, <2>1, <3>1 DEF Flags
  <2>2. CASE i = Len(contexts) + 1
    <3>1. contexts # <<>> /\ ~qstate.isFirst
      BY <1>5, <1>6, <1>7, <2>2
    <3> QED  BY <1>1, <1>2, <1>4, <3>1 DEF Flags
  <2>3. i \in 2..Len(contexts) \/ i = Len(contexts) + 1
    BY <1>5, <1>6, <1>7
  <2> QED  BY <2>1, <2>2, <2>3
<1>8. ~qstate'.isFirst => HasFirst(Walk')
  BY <1>1, <1>2, <1>4, <1>5, <1>6 DEF Flags
<1>9. Flags'
  BY <1>1, <1>7, <1>8 DEF Flags
<1>10. Guided' /\ Clean'
  BY <1>1, <1>2, <1>4 DEF Guided, Clean, AllClean
<1> QED  BY <1>9, <1>10 DEF Leading

\* What leaving a context does to the flag and to those saved.
LEMMA ExitFlags ==
  ASSUME TypeOK, AutocastExit
  PROVE  /\ Len(contexts) \in Nat \ {0} /\ Len(contexts') = Len(contexts) - 1
         /\ \A i \in 1..Len(contexts) - 1 : contexts'[i] = contexts[i]
         /\ qstate'.isFirst = contexts[Len(contexts)].isFirst
<1>1. contexts \in Seq(Contexts) /\ contexts # <<>> /\ contexts' = Front(contexts)
  BY DEF TypeOK, Contexts, AutocastExit
<1>2. Len(contexts) \in Nat \ {0}
  BY <1>1, EmptySeq
<1>3. Last(contexts) = contexts[Len(contexts)]
  BY DEF Last
<1>4. qstate'.isFirst = Last(contexts).isFirst
  BY DEF AutocastExit
<1> QED  BY <1>1, <1>2, <1>3, <1>4, LastFrontType

\* Leaving an inner context brings back a flag that was down behind a first
\* module, if at all.
LEMMA ExitLeads ==
  ASSUME GInv, Inv', ExitContext
  PROVE  Leading'
<1>1. /\ mode' = mode /\ mode \in {"forward", "checkpoint"} /\ current' = NoModule
      /\ tape' = tape /\ todo' = todo /\ bwd' = bwd /\ AutocastExit
  BY DEF ExitContext, InScript, scriptVars
<1>2. Inv /\ TypeOK /\ Flags /\ Guided /\ Clean
  BY DEF GInv, Structure, Inv
<1>3. region'.nodes = region.nodes /\ region'.reentrant = region.reentrant
  BY <1>2, RegionOps DEF ExitContext
<1>4. /\ HasFirst(Walk') <=> HasFirst(Walk)
      /\ Led(Walk') <=> Led(Walk)
  BY <1>1, <1>2, <1>3, SameWalk
<1>5. /\ Len(contexts) \in Nat \ {0} /\ Len(contexts') = Len(contexts) - 1
      /\ \A i \in 1..Len(contexts) - 1 : contexts'[i] = contexts[i]
      /\ qstate'.isFirst = contexts[Len(contexts)].isFirst
  BY <1>1, <1>2, ExitFlags
<1>6. ASSUME NEW i \in 2..Len(contexts'), ~contexts'[i].isFirst
      PROVE  HasFirst(Walk')
  <2>1. i \in 2..Len(contexts) /\ contexts'[i] = contexts[i]
    BY <1>5
  <2> QED  BY <1>1, <1>2, <1>4, <1>6, <2>1 DEF Flags
<1>7. ASSUME contexts' # <<>>, ~qstate'.isFirst  PROVE HasFirst(Walk')
  <2>1. Len(contexts') # 0
    BY <1>2, <1>7, EmptySeq DEF Inv, TypeOK
  <2>2. Len(contexts) \in 2..Len(contexts)
    BY <1>5, <2>1
  <2> QED  BY <1>1, <1>2, <1>4, <1>5, <1>7, <2>2 DEF Flags
<1>8. Flags'
  BY <1>1, <1>6, <1>7 DEF Flags
<1>9. Guided' /\ Clean'
  BY <1>1, <1>2, <1>4 DEF Guided, Clean, AllClean
<1> QED  BY <1>8, <1>9 DEF Leading

\* A module that is called takes the precision of the innermost context.
LEMMA CallLeads ==
  ASSUME GInv, NEW m \in Modules, CallModule(m)
  PROVE  Leading'
<1>1. /\ mode' = mode /\ mode \in {"forward", "checkpoint"} /\ PrepareForward(m)
      /\ tape' = tape /\ todo' = todo /\ region' = region /\ bwd' = bwd
      /\ qstate' = qstate /\ contexts' = contexts /\ current' = m
  BY DEF CallModule, InScript, PrepareForward
<1>2. TypeOK /\ Flow /\ Flags /\ Guided /\ Clean
  BY DEF GInv, Structure, Inv
<1>3. Walk' = Walk
  BY <1>1 DEF Walk
<1>4. fp8'[m] = qstate.enabled
  BY <1>1, <1>2 DEF PrepareForward, SwitchToStash, InitMetadata, Flow, TypeOK
<1>5. Flags'
  BY <1>1, <1>2, <1>3, <1>4 DEF Flags
<1>6. Guided' /\ Clean'
  BY <1>1, <1>2, <1>3 DEF Guided, Clean, AllClean
<1> QED  BY <1>5, <1>6 DEF Leading

\* The first FP8 module that autograd records takes the flag down.
LEMMA ReturnLeads ==
  ASSUME GInv, Inv', NEW m \in Modules, ReturnFromModule(m)
  PROVE  Leading'
<1>1. /\ mode' = mode /\ mode \in {"forward", "checkpoint"} /\ EndForward(m)
      /\ bwd' = bwd /\ contexts' = contexts /\ current' = NoModule
  BY DEF ReturnFromModule, EndForward
<1>2. /\ HasFirst(Walk) => HasFirst(Walk')
      /\ Led(Walk')
      /\ fp8[m] /\ GradEnabled => HasFirst(Walk')
  BY ReturnWalk
<1>3. Flags /\ Clean
  BY DEF GInv
<1>4. qstate' = qstate \/ (fp8[m] /\ GradEnabled)
  <2>1. qstate' = IF fp8[m] /\ GradEnabled /\ ~recompute.phase
                  THEN [qstate EXCEPT !.isFirst = FALSE] ELSE qstate
    BY <1>1 DEF EndForward
  <2> QED  BY <2>1, Zenon
<1>5. Flags'
  BY <1>1, <1>2, <1>3, <1>4 DEF Flags
<1>6. Guided' /\ Clean'
  BY <1>1, <1>2, <1>3 DEF Guided, Clean, AllClean
<1> QED  BY <1>5, <1>6 DEF Leading

LEMMA StartCheckpointLeads ==
  ASSUME GInv, NEW reentrant \in Reentrant, StartCheckpoint(reentrant)
  PROVE  Leading'
<1>1. /\ mode = "forward" /\ mode' = "checkpoint" /\ tape' = tape /\ bwd' = bwd
      /\ qstate' = qstate /\ contexts' = contexts /\ current' = NoModule
      /\ region' = [NoRegion EXCEPT !.reentrant = reentrant, !.fp8 = qstate.enabled,
                                    !.base = Len(contexts)]
  BY DEF StartCheckpoint
<1>2. Flags /\ Guided /\ Clean /\ tape \in Seq(Nodes)
  BY DEF GInv, Structure, Inv, TypeOK
<1>3. region'.kind = "checkpoint" /\ region'.nodes = <<>> /\ Len(<<>>) = 0
  BY <1>1, EmptySeq DEF NoRegion
<1>4. SelfLed(region') /\ ~Starts(region')
  BY <1>3 DEF SelfLed, Starts
<1>5. Walk = tape /\ Walk' = Append(tape, region')
  BY <1>1 DEF Walk
<1> DEFINE S == Nodes \cup {region'}
<1>6. tape \in Seq(S) /\ region' \in S
  BY <1>2, SeqSubset
<1> HIDE DEF S
<1>7. /\ HasFirst(Walk') <=> HasFirst(tape)
      /\ Led(Walk') <=> Led(tape)
  BY <1>4, <1>5, <1>6, GraphAppend
<1>8. Flags'
  BY <1>1, <1>2, <1>5, <1>7 DEF Flags
<1>9. Guided' /\ Clean'
  BY <1>1, <1>2, <1>5, <1>7 DEF Guided, Clean, AllClean
<1> QED  BY <1>8, <1>9 DEF Leading

LEMMA EndCheckpointLeads ==
  ASSUME GInv, EndCheckpoint
  PROVE  Leading'
<1>1. /\ mode = "checkpoint" /\ mode' = "forward" /\ tape' = Append(tape, region)
      /\ bwd' = bwd /\ qstate' = qstate /\ contexts' = contexts
      /\ current = NoModule /\ current' = NoModule
  BY DEF EndCheckpoint
<1>2. Flags /\ Guided /\ Clean
  BY DEF GInv
<1>3. Walk' = Walk
  BY <1>1 DEF Walk
<1>4. Flags'
  BY <1>1, <1>2, <1>3 DEF Flags
<1>5. Guided' /\ Clean'
  BY <1>1, <1>2, <1>3 DEF Guided, Clean, AllClean
<1> QED  BY <1>4, <1>5 DEF Leading

LEMMA EndMicrobatchLeads ==
  ASSUME GInv, NEW keep \in BOOLEAN, EndMicrobatch(keep)
  PROVE  Leading'
<1>1. mode = "forward" /\ mode' = "idle" /\ bwd' = bwd
  BY DEF EndMicrobatch
<1>2. Clean
  BY DEF GInv
<1> QED  BY <1>1, <1>2 DEF Leading, Guided, Flags, Clean, AllClean

-----------------------------------------------------------------------------
(* Backward passes *)

LEMMA StartBackwardLeads ==
  ASSUME GInv, NEW i \in DOMAIN pending, StartBackward(i)
  PROVE  Leading'
<1>1. /\ mode = "idle" /\ mode' = "backward" /\ todo' = pending[i].nodes
      /\ bwd' = bwd
  BY DEF StartBackward
<1>2. Clean /\ pending \in Seq(GoodBatches)
  BY DEF GInv, Structure, Graphs
<1>3. pending[i] \in GoodBatches
  BY <1>2
<1>4. Walk' = todo' /\ Led(todo')
  BY <1>1, <1>3 DEF Walk, GoodBatches, GoodGraphs
<1>5. Guided'
  BY <1>4 DEF Guided
<1> QED  BY <1>1, <1>2, <1>5 DEF Leading, Flags, Clean, AllClean

\* The node of a first module goes on to the reduction; before any other, a
\* node that will is still to come.
LEMMA BackwardModuleLeads ==
  ASSUME GInv, BackwardModule
  PROVE  Leading'
<1> DEFINE node == Last(todo)
           rest == Front(todo)
<1>1. /\ mode = "backward" /\ mode' \in {"backward", "reduce"} /\ todo # <<>>
      /\ node.kind = "module" /\ todo' = rest
      /\ node.first => mode' = "reduce"
      /\ ~node.fp8 => bwd' = bwd
  BY DEF BackwardModule
<1>2. Guided /\ Clean /\ todo \in Seq(Nodes)
  BY DEF GInv, Structure, Inv, TypeOK
<1>3. /\ rest \in Seq(Nodes) /\ node \in Nodes /\ todo = Append(rest, node)
  BY <1>1, <1>2, FrontAndLast
<1> HIDE DEF node, rest
<1>4. Walk = todo /\ Walk' = rest
  BY <1>1 DEF Walk
<1>5. /\ HasFirst(todo) <=> HasFirst(rest) \/ Starts(node)
      /\ Led(todo) <=> Led(rest) /\ (SelfLed(node) \/ HasFirst(rest))
  BY <1>3, GraphAppend
<1>6. /\ Starts(node) <=> node.first
      /\ SelfLed(node) <=> (node.fp8 => node.first)
  BY <1>1 DEF Starts, SelfLed
<1>7. Led(rest)
  BY <1>1, <1>2, <1>4, <1>5 DEF Guided
<1>8. ASSUME mode' = "backward"  PROVE AllClean' \/ HasFirst(rest)
  <2>1. ~node.first
    BY <1>1, <1>8
  <2>2. CASE node.fp8
    BY <1>1, <1>2, <1>4, <1>5, <1>6, <2>1, <2>2 DEF Guided
  <2>3. CASE ~node.fp8
    <3>1. AllClean \/ HasFirst(rest)
      BY <1>1, <1>2, <1>4, <1>5, <1>6, <2>1 DEF Clean
    <3>2. bwd' = bwd
      BY <1>1, <2>3
    <3> QED  BY <3>1, <3>2 DEF AllClean
  <2> QED  BY <2>2, <2>3
<1>9. Guided'
  BY <1>4, <1>7 DEF Guided
<1>10. Clean'
  BY <1>1, <1>4, <1>8 DEF Clean
<1>11. Flags'
  BY <1>1 DEF Flags
<1> QED  BY <1>9, <1>10, <1>11 DEF Leading

\* The reduction leaves no gradient pending: all are in the buffers.
LEMMA ReduceLeads ==
  ASSUME GInv, ReduceBackward
  PROVE  Leading'
<1>1. /\ mode = "reduce" /\ mode' = "backward" /\ todo' = todo
      /\ bwd' = Reduced(bwd)
  BY DEF ReduceBackward, scriptVars
<1>2. Guided /\ Buffered /\ bwd \in [Modules -> Tensor]
  BY DEF GInv, Structure, Inv, TypeOK
<1>3. AllClean'
  <2>1. \A m \in Modules :
          bwd'[m].hist[1] = IF m \in buffered THEN {} ELSE bwd[m].hist[1]
    BY <1>1, <1>2, ReducedRow
  <2> QED  BY <1>2, <2>1 DEF Buffered, AllClean
<1>4. Walk' = Walk
  BY <1>1 DEF Walk
<1>5. Guided'
  BY <1>1, <1>2, <1>4 DEF Guided
<1> QED  BY <1>1, <1>3, <1>5 DEF Leading, Flags, Clean

\* A replay starts outside of all contexts, so that its own raises the flag.
LEMMA StartReplayLeads ==
  ASSUME GInv, StartReplay
  PROVE  Leading'
<1>1. /\ mode = "backward" /\ mode' = "replay" /\ todo # <<>>
      /\ region' = Last(todo) /\ todo' = Front(todo) /\ tape' = tape /\ bwd' = bwd
      /\ AutocastEnter([qstate EXCEPT !.isFirst = Head(firstStash)], Last(todo).fp8)
  BY DEF StartReplay
<1>2. /\ Guided /\ Clean /\ TypeOK /\ Nesting /\ todo \in Seq(Nodes)
      /\ tape = <<>> /\ contexts = <<>>
  BY <1>1 DEF GInv, Structure, Inv, TypeOK, Graphs, Balanced
<1>3. todo = Append(Front(todo), Last(todo))
  BY <1>1, <1>2, FrontAndLast
<1>4. Walk = todo /\ Walk' = Append(todo', region')
  BY <1>1 DEF Walk
<1>5. Walk' = Walk
  BY <1>1, <1>3, <1>4
<1>6. qstate.depth = 0
  BY <1>2, EmptySeq DEF Nesting
<1>7. qstate'.isFirst /\ Len(contexts') = 1
  <2>1. [qstate EXCEPT !.isFirst = Head(firstStash)].depth = 0
    BY <1>2, <1>6 DEF TypeOK
  <2>2. qstate'.isFirst
    BY <1>1, <2>1 DEF AutocastEnter
  <2>3. Len(contexts') = 1
    BY <1>1, <1>2 DEF AutocastEnter
  <2> QED  BY <2>2, <2>3
<1>8. Flags'
  <2>1. 2..1 = {} /\ 1..0 = {} /\ Len(<<>>) = 0
    BY EmptySeq
  <2> QED  BY <1>1, <1>2, <1>7, <2>1 DEF Flags
<1>9. Guided' /\ Clean'
  BY <1>1, <1>2, <1>5 DEF Guided, Clean, AllClean
<1> QED  BY <1>8, <1>9 DEF Leading

LEMMA ReplayEnterLeads ==
  ASSUME GInv, Inv', ReplayEnter
  PROVE  Leading'
<1>1. /\ mode' = mode /\ mode = "replay" /\ Consume
      /\ tape' = tape /\ todo' = todo /\ bwd' = bwd
      /\ AutocastEnter(qstate, Head(region.ops).enabled)
  BY DEF ReplayEnter, NextOp, scriptVars
<1>2. Inv /\ Flags /\ Guided /\ Clean /\ contexts # <<>>
  BY <1>1 DEF GInv, Structure, Balanced
<1>3. region'.nodes = region.nodes /\ region'.reentrant = region.reentrant
  BY <1>1, <1>2, RegionOps
<1>4. /\ HasFirst(Walk') <=> HasFirst(Walk)
      /\ Led(Walk') <=> Led(Walk)
  BY <1>1, <1>2, <1>3, SameWalk
<1>5. /\ contexts \in Seq(Contexts) /\ Len(contexts) \in Nat \ {0}
      /\ qstate.depth = Len(contexts)
  BY <1>2, EmptySeq DEF Inv, TypeOK, Nesting, Contexts
<1>6. /\ Len(contexts') = Len(contexts) + 1
      /\ \A i \in 1..Len(contexts) : contexts'[i] = contexts[i]
      /\ contexts'[Len(contexts) + 1].isFirst = qstate.isFirst
      /\ qstate'.isFirst = qstate.isFirst
  BY <1>1, <1>5 DEF AutocastEnter
<1>7. ASSUME NEW i \in 2..Len(contexts')  PROVE contexts'[i].isFirst
  <2>1. i \in 2..Len(contexts) \/ i = Len(contexts) + 1
    BY <1>5, <1>6
  <2>2. CASE i \in 2..Len(contexts)
    <3>1. contexts'[i] = contexts[i]
      BY <1>5, <1>6, <2>2
    <3> QED  BY <1>1, <1>2, <2>2, <3>1 DEF Flags
  <2>3. CASE i = Len(contexts) + 1
    BY <1>1, <1>2, <1>6, <2>3 DEF Flags
  <2> QED  BY <2>1, <2>2, <2>3
<1>8. Flags'
  BY <1>1, <1>2, <1>6, <1>7 DEF Flags
<1>9. Guided' /\ Clean'
  BY <1>1, <1>2, <1>4 DEF Guided, Clean, AllClean
<1> QED  BY <1>8, <1>9 DEF Leading

\* A replay leaves no context but those it has entered itself.
LEMMA ReplayExitLeads ==
  ASSUME GInv, Inv', Balanced', ReplayExit
  PROVE  Leading'
<1>1. /\ mode' = mode /\ mode = "replay" /\ Consume /\ AutocastExit
      /\ tape' = tape /\ todo' = todo /\ bwd' = bwd
  BY DEF ReplayExit, NextOp, scriptVars
<1>2. Inv /\ TypeOK /\ Flags /\ Guided /\ Clean
  BY DEF GInv, Structure, Inv
<1>3. region'.nodes = region.nodes /\ region'.reentrant = region.reentrant
  BY <1>1, <1>2, RegionOps
<1>4. /\ HasFirst(Walk') <=> HasFirst(Walk)
      /\ Led(Walk') <=> Led(Walk)
  BY <1>1, <1>2, <1>3, SameWalk
<1>5. /\ Len(contexts) \in Nat \ {0} /\ Len(contexts') = Len(contexts) - 1
      /\ \A i \in 1..Len(contexts) - 1 : contexts'[i] = contexts[i]
      /\ qstate'.isFirst = contexts[Len(contexts)].isFirst
  BY <1>1, <1>2, ExitFlags
<1>6. Len(contexts') # 0
  <2>1. contexts' # <<>>
    BY <1>1 DEF Balanced
  <2> QED  BY <2>1, EmptySeq DEF Inv, TypeOK
<1>7. qstate'.isFirst
  <2>1. Len(contexts) \in 2..Len(contexts)
    BY <1>5, <1>6
  <2> QED  BY <1>1, <1>2, <1>5, <2>1 DEF Flags
<1>8. ASSUME NEW i \in 2..Len(contexts')  PROVE contexts'[i].isFirst
  <2>1. i \in 2..Len(contexts) /\ contexts'[i] = contexts[i]
    BY <1>5
  <2> QED  BY <1>1, <1>2, <2>1 DEF Flags
<1>9. Flags'
  BY <1>1, <1>2, <1>7, <1>8 DEF Flags
<1>10. Guided' /\ Clean'
  BY <1>1, <1>2, <1>4 DEF Guided, Clean, AllClean
<1> QED  BY <1>9, <1>10 DEF Leading

LEMMA ReplayCallLeads ==
  ASSUME GInv, ReplayCall
  PROVE  Leading'
<1>1. /\ mode = "replay" /\ mode' = mode /\ tape' = tape /\ todo' = todo
      /\ region' = region /\ bwd' = bwd /\ qstate' = qstate /\ contexts' = contexts
  BY DEF ReplayCall, NextOp, scriptVars
<1>2. Flags /\ Guided /\ Clean
  BY DEF GInv
<1>3. Walk' = Walk
  BY <1>1 DEF Walk
<1> QED  BY <1>1, <1>2, <1>3 DEF Leading, Flags, Guided, Clean, AllClean

\* Every FP8 module of a recompute records itself as the first.
LEMMA ReplayReturnLeads ==
  ASSUME GInv, Inv', ReplayReturn
  PROVE  Leading'
<1> DEFINE m == Head(region.ops).mod
<1>1. /\ mode' = mode /\ mode = "replay" /\ Consume /\ EndForward(m)
      /\ tape' = tape \/ tape' = Append(tape, NodeOf(m))
      /\ todo' = todo /\ bwd' = bwd /\ contexts' = contexts
  BY DEF ReplayReturn, NextOp, scriptVars
<1> HIDE DEF m
<1>2. Inv /\ Flow /\ Flags /\ Guided /\ Clean /\ tape \in Seq(Nodes)
  BY DEF GInv, Structure, Inv, TypeOK
<1>3. region'.nodes = region.nodes /\ region'.reentrant = region.reentrant
  BY <1>1, <1>2, RegionOps
<1>4. /\ HasFirst(Walk') <=> HasFirst(Walk)
      /\ Led(Walk') <=> Led(Walk)
  BY <1>1, <1>2, <1>3, SameWalk
<1>5. qstate' = qstate
  BY <1>1, <1>2 DEF EndForward, Flow
<1>6. NodeOf(m).kind = "module" /\ (NodeOf(m).fp8 => NodeOf(m).first)
  BY <1>1, <1>2 DEF NodeOf, Flags
<1>7. \A i \in 1..Len(tape') :
        tape'[i].kind = "module" /\ (tape'[i].fp8 => tape'[i].first)
  <2>1. CASE tape' = tape
    BY <1>1, <1>2, <2>1 DEF Flags
  <2>2. CASE tape' = Append(tape, NodeOf(m))
    <3> DEFINE n == NodeOf(m)
               k == Len(tape)
    <3> HIDE DEF n
    <3>1. /\ k \in Nat /\ Len(tape') = k + 1 /\ tape'[k + 1] = n
          /\ \A i \in 1..k : tape'[i] = tape[i]
      BY <1>2, <2>2 DEF n
    <3>2. \A i \in 1..Len(tape') : i \in 1..k \/ i = k + 1
      BY <3>1
    <3>3. n.kind = "module" /\ (n.fp8 => n.first)
      BY <1>6 DEF n
    <3>4. \A i \in 1..k : tape[i].kind = "module" /\ (tape[i].fp8 => tape[i].first)
      BY <1>1, <1>2 DEF Flags
    <3> QED  BY <3>1, <3>2, <3>3, <3>4
  <2> QED  BY <1>1, <2>1, <2>2
<1>8. Flags'
  BY <1>1, <1>2, <1>5, <1>7 DEF Flags
<1>9. Guided' /\ Clean'
  BY <1>1, <1>2, <1>4 DEF Guided, Clean, AllClean
<1> QED  BY <1>8, <1>9 DEF Leading

\* The backward goes on with the graph just recorded or with the original one.
LEMMA EndReplayLeads ==
  ASSUME GInv, EndReplay
  PROVE  Leading'
<1> DEFINE t == IF region.reentrant THEN tape ELSE region.nodes
<1>1. /\ mode = "replay" /\ mode' = "backward" /\ todo' = todo \o t /\ bwd' = bwd
  BY DEF EndReplay
<1>2. /\ Flags /\ Guided /\ Clean /\ todo \in Seq(Nodes) /\ tape \in Seq(Nodes)
      /\ region \in Callables /\ region \in Nodes /\ region.kind = "checkpoint"
      /\ region.nodes \in Seq(ModuleNodes)
  BY DEF GInv, Structure, Inv, TypeOK, Callables, Nodes
<1>3. Walk = Append(todo, region) /\ Walk' = todo \o t
  BY <1>1 DEF Walk
<1>4. /\ HasFirst(Walk) <=> HasFirst(todo) \/ Starts(region)
      /\ Led(Walk) <=> Led(todo) /\ (SelfLed(region) \/ HasFirst(todo))
  BY <1>2, <1>3, GraphAppend
<1>5. Led(todo) /\ (SelfLed(region) \/ HasFirst(todo))
  BY <1>1, <1>2, <1>4 DEF Guided
<1>6. t \in Seq(Nodes)
  <2>1. region.nodes \in Seq(Nodes)
    BY <1>2, SeqSubset DEF Nodes
  <2> QED  BY <1>2, <2>1
<1>7. \A k \in 1..Len(t) :
        /\ t[k].kind = "module"
        /\ t[k].fp8 => HasFirst(todo) \/ \E j \in 1..k : t[j].first
  <2>1. CASE region.reentrant
    <3> SUFFICES ASSUME NEW k \in 1..Len(tape)
                 PROVE  /\ tape[k].kind = "module"
                        /\ tape[k].fp8 => \E j \in 1..k : tape[j].first
      BY <2>1
    <3>1. tape[k].kind = "module" /\ (tape[k].fp8 => tape[k].first)
      BY <1>1, <1>2 DEF Flags
    <3>2. k \in 1..k
      OBVIOUS
    <3> QED  BY <3>1, <3>2
  <2>2. CASE ~region.reentrant
    <3> SUFFICES ASSUME NEW k \in 1..Len(region.nodes)
                 PROVE  /\ region.nodes[k].kind = "module"
                        /\ region.nodes[k].fp8 =>
                              HasFirst(todo) \/ \E j \in 1..k : region.nodes[j].first
      BY <2>2
    <3>1. region.nodes[k] \in ModuleNodes
      BY <1>2
    <3>2. region.nodes[k].kind = "module"
      BY <3>1 DEF ModuleNodes
    <3> QED  BY <1>2, <1>5, <2>2, <3>2 DEF SelfLed
  <2> QED  BY <2>1, <2>2
<1>8. Starts(region) => \E k \in 1..Len(t) : t[k].first
  BY <1>2 DEF Starts
<1> HIDE DEF t
<1>9. /\ Led(todo \o t)
      /\ HasFirst(todo \o t) <=> HasFirst(todo) \/ \E k \in 1..Len(t) : t[k].first
  BY <1>2, <1>5, <1>6, <1>7, GraphConcat
<1>10. Guided' /\ Clean'
  BY <1>1, <1>2, <1>3, <1>4, <1>8, <1>9 DEF Guided, Clean, AllClean
<1>11. Flags'
  BY <1>1 DEF Flags
<1> QED  BY <1>10, <1>11 DEF Leading

\* With nothing more to run, nothing is pending.
LEMMA EndBackwardLeads ==
  ASSUME GInv, EndBackward
  PROVE  Leading'
<1>1. mode = "backward" /\ todo = <<>> /\ mode' = "idle" /\ bwd' = bwd
  BY DEF EndBackward
<1>2. Walk = <<>>
  BY <1>1 DEF Walk
<1>3. ~HasFirst(<<>>)
  BY EmptySeq DEF HasFirst
<1>4. AllClean
  BY <1>1, <1>2, <1>3 DEF GInv, Clean
<1> QED  BY <1>1, <1>4 DEF Leading, Guided, Flags, Clean, AllClean

-----------------------------------------------------------------------------
(* The theorem *)

LEMMA InitGInv == Init => GInv
<1> SUFFICES ASSUME Init  PROVE GInv
  OBVIOUS
<1>1. Inv /\ Flow
  BY InitInv, InitFlow
<1>2. /\ mode = "idle" /\ contexts = <<>> /\ tape = <<>> /\ todo = <<>> /\ pending = <<>>
      /\ region = NoRegion /\ fp8 = [m \in Modules |-> FALSE]
      /\ bwd = [m \in Modules |-> FreshTensor]
  BY DEF Init
<1>3. \A m \in Modules : bwd[m].hist[1] = {}
  <2>1. 1 \in Rows
    BY ScriptAssumption DEF Rows
  <2> QED  BY <1>2, <2>1 DEF FreshTensor
<1>4. Buffered
  BY <1>2, <1>3 DEF Buffered
<1>5. Graphs
  BY <1>2, EmptySeq DEF Graphs, Registered, NoRegion
<1>6. Balanced
  BY <1>2 DEF Balanced
<1>7. Guided /\ Flags /\ Clean
  BY <1>2, <1>3 DEF Guided, Flags, Clean, AllClean
<1> QED  BY <1>1, <1>4, <1>5, <1>6, <1>7 DEF GInv, Structure

LEMMA GInvStep == GInv /\ [Next]_vars => GInv'
<1> SUFFICES ASSUME GInv, [Next]_vars  PROVE GInv'
  OBVIOUS
<1>1. Inv' /\ Flow' /\ Buffered' /\ Graphs' /\ Balanced'
  BY InvStep, FlowStep, BufferedStep, GraphsStep, BalancedStep DEF GInv, Structure
<1>2. CASE ReplayRaises \/ Unwind
  <2>1. mode' \in {"unwinding", "raised"}
    BY <1>2 DEF ReplayRaises, Unwind
  <2> QED  BY <1>1, <2>1 DEF GInv, Structure, Guided, Flags, Clean
<1>3. CASE UNCHANGED vars
  BY <1>1, <1>3 DEF vars, GInv, Guided, Flags, Clean, Structure, Walk, AllClean
<1>4. Leading' => GInv'
  BY <1>1 DEF Leading, GInv, Structure
<1> QED
  BY <1>1, <1>2, <1>3, <1>4, StartForwardLeads, EnterLeads, ExitLeads, CallLeads,
     ReturnLeads, StartCheckpointLeads, EndCheckpointLeads, EndMicrobatchLeads,
     StartBackwardLeads, BackwardModuleLeads, ReduceLeads, StartReplayLeads,
     ReplayEnterLeads, ReplayExitLeads, ReplayCallLeads, ReplayReturnLeads,
     EndReplayLeads, EndBackwardLeads
  DEF Next, Finished

\* In every script, a backward reduces the amaxes of all the gradients it has
\* quantized (the first-module flag of quantization.py and its restoration by
\* the checkpoints of distributed.py).
THEOREM GradientsReduced == Spec => []GradientAmaxesRolled
<1>1. GInv => GradientAmaxesRolled
  BY DEF GInv, Clean, AllClean, GradientAmaxesRolled
<1> QED  BY <1>1, InitGInv, GInvStep, PTL DEF Spec

-----------------------------------------------------------------------------
(* Activation recompute: every module is called in FP8, every graph is kept, *)
(* backwards run in the order of the forwards.                               *)

FifoScript == FP8Only = Modules /\ ~LifoBackward /\ ~SkipBackward

-----------------------------------------------------------------------------
(* Lists of stashes *)

\* The sequence s has an element of P, and has not two of them.
Meets(s, P) == \E i \in 1..Len(s) : s[i] \in P
AtMostOne(s, P) == \A i, j \in 1..Len(s) : s[i] \in P /\ s[j] \in P => i = j

LEMMA MeetsAppend ==
  ASSUME NEW S, NEW s \in Seq(S), NEW x \in S, NEW P
  PROVE  /\ Meets(Append(s, x), P) <=> Meets(s, P) \/ x \in P
         /\ AtMostOne(Append(s, x), P) <=> AtMostOne(s, P) /\ ~(Meets(s, P) /\ x \in P)
<1> DEFINE a == Append(s, x)
           n == Len(s)
<1>1. /\ n \in Nat /\ Len(a) = n + 1 /\ a[n + 1] = x
      /\ \A i \in 1..n : a[i] = s[i]
  OBVIOUS
<1> HIDE DEF a
<1>2. 1..Len(a) = (1..n) \cup {n + 1} /\ n + 1 \notin 1..n
  BY <1>1
<1> HIDE DEF n
<1>3. Meets(a, P) <=> Meets(s, P) \/ x \in P
  BY <1>1, <1>2 DEF Meets, n
<1>4. AtMostOne(a, P) <=> AtMostOne(s, P) /\ ~(Meets(s, P) /\ x \in P)
  <2>1. ASSUME AtMostOne(a, P)  PROVE AtMostOne(s, P) /\ ~(Meets(s, P) /\ x \in P)
    BY <1>1, <1>2, <2>1 DEF AtMostOne, Meets, n
  <2>2. ASSUME AtMostOne(s, P), ~(Meets(s, P) /\ x \in P)  PROVE AtMostOne(a, P)
    <3> SUFFICES ASSUME NEW i \in 1..Len(a), NEW j \in 1..Len(a), a[i] \in P, a[j] \in P
                 PROVE  i = j
      BY DEF AtMostOne
    <3>1. CASE i \in 1..n /\ j \in 1..n
      BY <1>1, <2>2, <3>1 DEF AtMostOne, n
    <3>2. CASE i = n + 1 \/ j = n + 1
      BY <1>1, <1>2, <2>2, <3>2 DEF Meets, n
    <3> QED  BY <1>2, <3>1, <3>2
  <2> QED  BY <2>1, <2>2
<1> QED  BY <1>3, <1>4 DEF a

LEMMA MeetsTail ==
  ASSUME NEW S, NEW s \in Seq(S), s # <<>>, NEW P
  PROVE  /\ Meets(s, P) <=> Head(s) \in P \/ Meets(Tail(s), P)
         /\ AtMostOne(s, P) => AtMostOne(Tail(s), P) /\ ~(Head(s) \in P /\ Meets(Tail(s), P))
<1> DEFINE n == Len(s)
           t == Tail(s)
<1>1. /\ n \in Nat \ {0} /\ Len(t) = n - 1 /\ Head(s) = s[1]
      /\ \A i \in 1..n - 1 : t[i] = s[i + 1]
  BY EmptySeq
<1> HIDE DEF t
<1>2. /\ 1 \in 1..n
      /\ \A i \in 1..n - 1 : i + 1 \in 1..n /\ i + 1 # 1
      /\ \A i \in 1..n : i = 1 \/ (i - 1 \in 1..n - 1 /\ i = (i - 1) + 1)
      /\ \A i, j \in 1..n - 1 : i + 1 = j + 1 => i = j
  BY <1>1
<1>3. \A i \in 1..n : i # 1 => t[i - 1] = s[i]
  BY <1>1, <1>2
<1> HIDE DEF n
<1>4. Meets(s, P) <=> s[1] \in P \/ Meets(t, P)
  BY <1>1, <1>2, <1>3 DEF Meets, n
<1>5. ASSUME AtMostOne(s, P)  PROVE AtMostOne(t, P) /\ ~(s[1] \in P /\ Meets(t, P))
  BY <1>1, <1>2, <1>5 DEF AtMostOne, Meets, n
<1> QED  BY <1>1, <1>4, <1>5 DEF t

\* Elements outside of P do not count.
LEMMA MeetsConcat ==
  ASSUME NEW S, NEW s \in Seq(S), NEW t \in Seq(S), NEW P,
         \A k \in 1..Len(t) : t[k] \notin P
  PROVE  /\ Meets(s \o t, P) <=> Meets(s, P)
         /\ AtMostOne(s \o t, P) <=> AtMostOne(s, P)
<1> DEFINE c == s \o t
           n == Len(s)
<1>1. /\ n \in Nat /\ Len(t) \in Nat /\ Len(c) = n + Len(t)
      /\ \A i \in 1..n : c[i] = s[i]
      /\ \A k \in 1..Len(t) : c[n + k] = t[k]
  OBVIOUS
<1> HIDE DEF c
<1>2. \A i \in 1..Len(c) : i \in 1..n \/ (i - n \in 1..Len(t) /\ i = n + (i - n))
  BY <1>1
<1>3. \A i \in 1..Len(c) : c[i] \in P => i \in 1..n
  BY <1>1, <1>2
<1>4. 1..n \subseteq 1..Len(c)
  BY <1>1
<1> HIDE DEF n
<1>5. Meets(c, P) <=> Meets(s, P)
  BY <1>1, <1>3, <1>4 DEF Meets, n
<1>6. AtMostOne(c, P) <=> AtMostOne(s, P)
  <2>1. \A i \in 1..Len(c) : c[i] \in P <=> i \in 1..n /\ s[i] \in P
    BY <1>1, <1>3
  <2> QED  BY <1>4, <2>1 DEF AtMostOne, n
<1> QED  BY <1>5, <1>6 DEF c

\* Taking off the oldest microbatch.
LEMMA RemoveOldest ==
  ASSUME NEW S, NEW s \in Seq(S), 1 \in DOMAIN s
  PROVE  /\ RemoveAt(s, 1) = Tail(s)
         /\ Len(Tail(s)) = Len(s) - 1
         /\ \A i \in 1..Len(s) - 1 : Tail(s)[i] = s[i + 1]
<1>1. s # <<>> /\ SubSeq(s, 1, 1 - 1) = <<>>
  OBVIOUS
<1>2. RemoveAt(s, 1) = <<>> \o Tail(s)
  BY <1>1, TailIsSubSeq DEF RemoveAt
<1>3. Tail(s) \in Seq(S) /\ Len(Tail(s)) = Len(s) - 1 /\ \A i \in 1..Len(s) - 1 : Tail(s)[i] = s[i + 1]
  BY <1>1, HeadTailProperties
<1>4. <<>> \o Tail(s) = Tail(s)
  BY <1>3
<1> QED  BY <1>2, <1>3, <1>4

-----------------------------------------------------------------------------
(* Queues *)

\* The queue q holds the tensors of the forwards due, in the order of their
\* microbatches; due is a set of pairs of a microbatch and a scale.
Queues(q, due) ==
  \E at \in [1..Len(q) -> Nat] :
    /\ \A k, l \in 1..Len(q) : k < l => at[k] < at[l]
    /\ due = {<<at[k], q[k].scale>> : k \in 1..Len(q)}

LEMMA QueueAppend ==
  ASSUME NEW q \in Seq(Tensor), NEW due, Queues(q, due), NEW t \in Tensor,
         NEW i \in Nat, \A x \in due : x[1] < i
  PROVE  Queues(Append(q, t), due \cup {<<i, t.scale>>})
<1> DEFINE n == Len(q)
           a == Append(q, t)
<1>1. /\ n \in Nat /\ Len(a) = n + 1 /\ a[n + 1] = t
      /\ \A k \in 1..n : a[k] = q[k]
  OBVIOUS
<1> HIDE DEF a
<1>2. PICK at \in [1..n -> Nat] :
        /\ \A k, l \in 1..n : k < l => at[k] < at[l]
        /\ due = {<<at[k], q[k].scale>> : k \in 1..n}
  BY DEF Queues
<1>3. \A k \in 1..n : at[k] < i
  <2> SUFFICES ASSUME NEW k \in 1..n  PROVE at[k] < i
    OBVIOUS
  <2>1. <<at[k], q[k].scale>> \in due
    BY <1>2
  <2> QED  BY <2>1
<1> DEFINE b == [k \in 1..n + 1 |-> IF k \in 1..n THEN at[k] ELSE i]
<1>4. /\ b \in [1..Len(a) -> Nat] /\ b[n + 1] = i
      /\ \A k \in 1..n : b[k] = at[k]
  BY <1>1
<1> HIDE DEF b
<1>5. \A k \in 1..Len(a) : k \in 1..n \/ k = n + 1
  BY <1>1
<1>6. \A k, l \in 1..Len(a) : k < l => b[k] < b[l]
  <2> SUFFICES ASSUME NEW k \in 1..Len(a), NEW l \in 1..Len(a), k < l
               PROVE  b[k] < b[l]
    OBVIOUS
  <2>1. k \in 1..n
    BY <1>1
  <2>2. CASE l \in 1..n
    BY <1>2, <1>4, <2>1, <2>2
  <2>3. CASE l = n + 1
    BY <1>3, <1>4, <2>1, <2>3
  <2> QED  BY <1>5, <2>2, <2>3
<1>7. due \cup {<<i, t.scale>>} = {<<b[k], a[k].scale>> : k \in 1..Len(a)}
  <2>1. 1..Len(a) = (1..n) \cup {n + 1}
    BY <1>1
  <2>2. \A k \in 1..n : <<b[k], a[k].scale>> = <<at[k], q[k].scale>>
    BY <1>1, <1>4
  <2>3. <<b[n + 1], a[n + 1].scale>> = <<i, t.scale>>
    BY <1>1, <1>4
  <2>4. due = {<<b[k], a[k].scale>> : k \in 1..n}
    BY <1>2, <2>2
  <2>5. {<<i, t.scale>>} = {<<b[k], a[k].scale>> : k \in {n + 1}}
    BY <2>3
  <2> QED  BY <2>1, <2>4, <2>5
<1> QED  BY <1>4, <1>6, <1>7 DEF Queues, a

\* The head of the queue is the forward of the oldest microbatch.
LEMMA QueueTail ==
  ASSUME NEW q \in Seq(Tensor), NEW due, Queues(q, due), NEW i \in Nat, NEW sc,
         <<i, sc>> \in due, \A x \in due : x # <<i, sc>> => i < x[1]
  PROVE  /\ q # <<>> /\ Head(q).scale = sc
         /\ Queues(Tail(q), due \ {<<i, sc>>})
<1> DEFINE n == Len(q)
           t == Tail(q)
<1>1. PICK at \in [1..n -> Nat] :
        /\ \A k, l \in 1..n : k < l => at[k] < at[l]
        /\ due = {<<at[k], q[k].scale>> : k \in 1..n}
  BY DEF Queues
<1>2. PICK h \in 1..n : <<i, sc>> = <<at[h], q[h].scale>>
  BY <1>1
<1>3. n \in Nat \ {0} /\ q # <<>> /\ 1 \in 1..n
  BY EmptySeq
<1>4. h = 1
  <2> SUFFICES ASSUME h # 1  PROVE FALSE
    OBVIOUS
  <2>1. 1 < h
    BY <1>3
  <2>2. at[1] < at[h] /\ at[1] \in Nat /\ at[h] = i
    BY <1>1, <1>2, <1>3, <2>1
  <2>3. <<at[1], q[1].scale>> \in due
    BY <1>1, <1>3
  <2>4. <<at[1], q[1].scale>> # <<i, sc>>
    BY <2>2
  <2>5. i < at[1]
    BY <2>3, <2>4
  <2> QED  BY <2>2, <2>5
<1>5. /\ Len(t) = n - 1 /\ Head(q) = q[1]
      /\ \A k \in 1..n - 1 : t[k] = q[k + 1]
  BY <1>3
<1>6. at[1] = i /\ Head(q).scale = sc
  BY <1>2, <1>4, <1>5
<1> HIDE DEF t
<1> DEFINE b == [k \in 1..n - 1 |-> at[k + 1]]
<1>7. b \in [1..Len(t) -> Nat] /\ \A k \in 1..n - 1 : b[k] = at[k + 1]
  BY <1>5
<1> HIDE DEF b
<1>8. \A k, l \in 1..Len(t) : k < l => b[k] < b[l]
  <2> SUFFICES ASSUME NEW k \in 1..Len(t), NEW l \in 1..Len(t), k < l
               PROVE  b[k] < b[l]
    OBVIOUS
  <2>1. k + 1 \in 1..n /\ l + 1 \in 1..n /\ k + 1 < l + 1
    BY <1>5
  <2> QED  BY <1>1, <1>5, <1>7, <2>1
<1>9. due \ {<<i, sc>>} = {<<b[k], t[k].scale>> : k \in 1..Len(t)}
  <2>1. \A k \in 1..Len(t) : <<b[k], t[k].scale>> = <<at[k + 1], q[k + 1].scale>> /\ k + 1 \in 1..n
    BY <1>5, <1>7
  <2>2. \A k \in 1..Len(t) : at[k + 1] # i
    <3> SUFFICES ASSUME NEW k \in 1..Len(t)  PROVE at[k + 1] # i
      OBVIOUS
    <3>1. k + 1 \in 1..n /\ 1 < k + 1
      BY <1>5
    <3>2. at[1] < at[k + 1] /\ at[k + 1] \in Nat
      BY <1>1, <1>3, <3>1
    <3> QED  BY <1>6, <3>2
  <2>3. \A k \in 1..n : k = 1 \/ (k - 1 \in 1..Len(t) /\ (k - 1) + 1 = k)
    BY <1>5
  <2>4. ASSUME NEW x \in due, x # <<i, sc>>
        PROVE  x \in {<<b[k], t[k].scale>> : k \in 1..Len(t)}
    <3>1. PICK k \in 1..n : x = <<at[k], q[k].scale>>
      BY <1>1
    <3>2. k # 1
      BY <1>2, <1>4, <2>4, <3>1
    <3>3. k - 1 \in 1..Len(t) /\ (k - 1) + 1 = k
      BY <2>3, <3>2
    <3>4. x = <<b[k - 1], t[k - 1].scale>>
      BY <2>1, <3>1, <3>3
    <3> QED  BY <3>3, <3>4
  <2>5. ASSUME NEW k \in 1..Len(t)
        PROVE  <<b[k], t[k].scale>> \in due /\ <<b[k], t[k].scale>> # <<i, sc>>
    <3>1. <<b[k], t[k].scale>> = <<at[k + 1], q[k + 1].scale>> /\ k + 1 \in 1..n
      BY <2>1
    <3>2. at[k + 1] # i
      BY <2>2
    <3> QED  BY <1>1, <3>1, <3>2
  <2> QED  BY <2>4, <2>5
<1>10. Queues(t, due \ {<<i, sc>>})
  BY <1>7, <1>8, <1>9 DEF Queues
<1> QED  BY <1>3, <1>6, <1>10 DEF t

LEMMA QueueEmpty ==
  ASSUME NEW q \in Seq(Tensor)
  PROVE  Queues(q, {}) <=> q = <<>>
<1>1. ASSUME Queues(q, {})  PROVE q = <<>>
  <2>1. PICK at : {} = {<<at[k], q[k].scale>> : k \in 1..Len(q)}
    BY <1>1 DEF Queues
  <2>2. 1..Len(q) = {}
    BY <2>1
  <2>3. Len(q) = 0
    <3>1. Len(q) \in Nat /\ 1 \notin 1..Len(q)
      BY <2>2
    <3> QED  BY <3>1
  <2> QED  BY <2>3, EmptySeq
<1>2. ASSUME q = <<>>  PROVE Queues(q, {})
  <2> DEFINE at == [k \in {} |-> 0]
  <2>1. Len(q) = 0 /\ 1..0 = {}
    BY <1>2, EmptySeq
  <2>2. at \in [{} -> Nat]
    OBVIOUS
  <2>3. {} = {<<at[k], q[k].scale>> : k \in {}}
    OBVIOUS
  <2> HIDE DEF at
  <2>4. \E f \in [{} -> Nat] :
          /\ \A k, l \in {} : k < l => f[k] < f[l]
          /\ {} = {<<f[k], q[k].scale>> : k \in {}}
    BY <2>2, <2>3
  <2> QED  BY <2>1, <2>4 DEF Queues
<1> QED  BY <1>1, <1>2

-----------------------------------------------------------------------------
(* The invariant *)

\* The recorded calls of m, those with scale sc, and the checkpoints in which
\* such calls wait for their recompute.
CallsOf(m) == {op \in Ops : op.op = "call" /\ op.mod = m}
CallsAt(m, sc) == {op \in CallsOf(m) : op.scale = sc}
NodesOf(m) == {n \in Nodes : n.kind = "checkpoint" /\ Meets(n.ops, CallsOf(m))}
NodesAt(m, sc) == {n \in Nodes : n.kind = "checkpoint" /\ Meets(n.ops, CallsAt(m, sc))}

\* A module is called once in a checkpoint, in FP8.
PlainNode(n) ==
  n.kind = "checkpoint" =>
    /\ \A k \in 1..Len(n.ops) : n.ops[k].op = "call" => n.ops[k].fp8
    /\ \A m \in Modules : AtMostOne(n.ops, CallsOf(m))
PlainNodes == {n \in Nodes : PlainNode(n)}

\* A module is called in one checkpoint of a graph.
OnceIn(s) == \A m \in Modules : AtMostOne(s, NodesOf(m))
PlainGraphs == {s \in Seq(PlainNodes) : OnceIn(s)}
PlainBatches == [iter : Iters, nodes : PlainGraphs]

Plain ==
  /\ tape \in Seq(PlainNodes) /\ todo \in Seq(PlainNodes)
  /\ region \in PlainNodes
  /\ pending \in Seq(PlainBatches)

InProgress == mode \notin {"idle", "unwinding", "raised"}
InForward == mode \in {"forward", "checkpoint"}

Distinct ==
  /\ InProgress => OnceIn(Walk)
  /\ InForward =>
       /\ current # NoModule => current \in called
       /\ \A m \in Modules : Meets(Walk, NodesOf(m)) => m \in called /\ m # current

\* Microbatches wait for their backward in the order in which they started.
Order ==
  /\ \A p, q \in 1..Len(pending) : p < q => pending[p].iter < pending[q].iter
  /\ \A p \in 1..Len(pending) : pending[p].iter <= started
  /\ InForward => iter = started /\ \A p \in 1..Len(pending) : pending[p].iter < iter
  /\ InProgress /\ ~InForward => \A p \in 1..Len(pending) : iter < pending[p].iter

\* A recompute in which m has the tensors of its first forward back.
Recomputing ==
  /\ mode \notin {"unwinding", "raised"}
  /\ recompute.inRegion <=> mode \in {"checkpoint", "replay"}
  /\ mode = "replay" /\ current # NoModule =>
       /\ updated[current] # NoTensor
       /\ fwd[current].scale = Head(region.ops).scale

\* A first forward of m, with scale sc, that a recompute has still to repeat:
\* of the pass in progress, or of microbatch i.
Now(m, sc) ==
  \/ /\ InProgress /\ ~(mode = "replay" /\ current = m)
     /\ Meets(Walk, NodesAt(m, sc))
  \/ mode = "checkpoint" /\ current = m /\ sc = fwd[m].scale
Later(m, i, sc) ==
  \E p \in 1..Len(pending) :
    pending[p].iter = i /\ Meets(pending[p].nodes, NodesAt(m, sc))
Due(m) == {x \in Iters \X Amax : (x[1] = iter /\ Now(m, x[2])) \/ Later(m, x[1], x[2])}

Stashed == \A m \in Modules : Queues(stash[m], Due(m))

\* The checkpoints still to be recomputed, one saved flag for each.
Marked(s) == {j \in 1..Len(s) : s[j].kind = "checkpoint"}
Ahead == IF mode = "replay" THEN todo ELSE Walk
Marks ==
  {x \in Iters \X Nat :
    \/ InProgress /\ x[1] = iter /\ x[2] \in Marked(Ahead)
    \/ \E p \in 1..Len(pending) :
         pending[p].iter = x[1] /\ x[2] \in Marked(pending[p].nodes)}
Counted == IsFiniteSet(Marks) /\ Cardinality(Marks) = Len(firstStash)

RInv ==
  /\ GInv /\ AllFP8
  /\ Plain /\ Distinct /\ Order /\ Recomputing /\ Stashed /\ Counted
-----------------------------------------------------------------------------
(* Calls recorded in a graph *)

\* The node n has no call to recompute; n and r have the same.
NoCalls(n) == \A m \in Modules : n \notin NodesOf(m)
Alike(n, r) ==
  \A m \in Modules :
    /\ n \in NodesOf(m) <=> r \in NodesOf(m)
    /\ \A sc \in Amax : n \in NodesAt(m, sc) <=> r \in NodesAt(m, sc)

\* The graph t has the calls of s.
SameCalls(s, t) ==
  \A m \in Modules :
    /\ AtMostOne(s, NodesOf(m)) => AtMostOne(t, NodesOf(m))
    /\ Meets(t, NodesOf(m)) <=> Meets(s, NodesOf(m))
    /\ \A sc \in Amax : Meets(t, NodesAt(m, sc)) <=> Meets(s, NodesAt(m, sc))

LEMMA NodesAtOf ==
  ASSUME NEW m, NEW sc
  PROVE  NodesAt(m, sc) \subseteq NodesOf(m)
<1>1. \A n : Meets(n.ops, CallsAt(m, sc)) => Meets(n.ops, CallsOf(m))
  BY DEF Meets, CallsAt
<1> QED  BY <1>1 DEF NodesAt, NodesOf

LEMMA QuietNode ==
  ASSUME NEW s \in Seq(Nodes), NEW n \in Nodes, NoCalls(n)
  PROVE  SameCalls(s, Append(s, n)) /\ SameCalls(Append(s, n), s)
<1> SUFFICES ASSUME NEW m \in Modules, NEW sc \in Amax
             PROVE  /\ AtMostOne(s, NodesOf(m)) <=> AtMostOne(Append(s, n), NodesOf(m))
                    /\ Meets(Append(s, n), NodesOf(m)) <=> Meets(s, NodesOf(m))
                    /\ Meets(Append(s, n), NodesAt(m, sc)) <=> Meets(s, NodesAt(m, sc))
  BY DEF SameCalls, Amax
<1>1. n \notin NodesOf(m) /\ n \notin NodesAt(m, sc)
  BY NodesAtOf DEF NoCalls
<1>2. /\ Meets(Append(s, n), NodesOf(m)) <=> Meets(s, NodesOf(m)) \/ n \in NodesOf(m)
      /\ AtMostOne(Append(s, n), NodesOf(m)) <=>
           AtMostOne(s, NodesOf(m)) /\ ~(Meets(s, NodesOf(m)) /\ n \in NodesOf(m))
  BY MeetsAppend
<1>3. Meets(Append(s, n), NodesAt(m, sc)) <=> Meets(s, NodesAt(m, sc)) \/ n \in NodesAt(m, sc)
  BY MeetsAppend
<1> QED  BY <1>1, <1>2, <1>3

LEMMA AlikeNode ==
  ASSUME NEW s \in Seq(Nodes), NEW n \in Nodes, NEW r \in Nodes, Alike(n, r)
  PROVE  SameCalls(Append(s, n), Append(s, r))
<1> SUFFICES ASSUME NEW m \in Modules
             PROVE  /\ AtMostOne(Append(s, n), NodesOf(m)) => AtMostOne(Append(s, r), NodesOf(m))
                    /\ Meets(Append(s, r), NodesOf(m)) <=> Meets(Append(s, n), NodesOf(m))
                    /\ \A sc \in Amax :
                         Meets(Append(s, r), NodesAt(m, sc)) <=> Meets(Append(s, n), NodesAt(m, sc))
  BY DEF SameCalls
<1>1. /\ Meets(Append(s, n), NodesOf(m)) <=> Meets(s, NodesOf(m)) \/ n \in NodesOf(m)
      /\ AtMostOne(Append(s, n), NodesOf(m)) <=>
           AtMostOne(s, NodesOf(m)) /\ ~(Meets(s, NodesOf(m)) /\ n \in NodesOf(m))
  BY MeetsAppend
<1>2. /\ Meets(Append(s, r), NodesOf(m)) <=> Meets(s, NodesOf(m)) \/ r \in NodesOf(m)
      /\ AtMostOne(Append(s, r), NodesOf(m)) <=>
           AtMostOne(s, NodesOf(m)) /\ ~(Meets(s, NodesOf(m)) /\ r \in NodesOf(m))
  BY MeetsAppend
<1>3. ASSUME NEW sc \in Amax
      PROVE  Meets(Append(s, r), NodesAt(m, sc)) <=> Meets(Append(s, n), NodesAt(m, sc))
  <2>1. Meets(Append(s, n), NodesAt(m, sc)) <=> Meets(s, NodesAt(m, sc)) \/ n \in NodesAt(m, sc)
    BY MeetsAppend
  <2>2. Meets(Append(s, r), NodesAt(m, sc)) <=> Meets(s, NodesAt(m, sc)) \/ r \in NodesAt(m, sc)
    BY MeetsAppend
  <2> QED  BY <2>1, <2>2 DEF Alike
<1> QED  BY <1>1, <1>2, <1>3 DEF Alike

\* Module nodes, and a callable without operations.
LEMMA NoCallNodes ==
  /\ \A n \in ModuleNodes : NoCalls(n)
  /\ \A n \in Callables : n.ops = <<>> => NoCalls(n)
<1>1. \A n \in ModuleNodes : n.kind = "module"
  BY DEF ModuleNodes
<1>2. \A P : ~Meets(<<>>, P)
  <2>1. 1..Len(<<>>) = {}
    OBVIOUS
  <2> QED  BY <2>1 DEF Meets
<1>3. \A n \in ModuleNodes : NoCalls(n)
  BY <1>1 DEF NoCalls, NodesOf
<1>4. \A n \in Callables : n.ops = <<>> => NoCalls(n)
  BY <1>2 DEF NoCalls, NodesOf
<1> QED  BY <1>3, <1>4

\* A callable that records one more operation.
LEMMA OpsAppend ==
  ASSUME NEW r \in Callables, NEW q \in Callables, NEW op \in Ops,
         q.ops = Append(r.ops, op)
  PROVE  /\ \A m : q \in NodesOf(m) <=> r \in NodesOf(m) \/ op \in CallsOf(m)
         /\ \A m, sc : q \in NodesAt(m, sc) <=> r \in NodesAt(m, sc) \/ op \in CallsAt(m, sc)
         /\ PlainNode(r) /\ (op.op = "call" => op.fp8 /\ r \notin NodesOf(op.mod)) => PlainNode(q)
<1>1. /\ r.ops \in Seq(Ops) /\ r.kind = "checkpoint" /\ r \in Nodes
      /\ q.ops \in Seq(Ops) /\ q.kind = "checkpoint" /\ q \in Nodes
  BY DEF Callables, Nodes
<1>2. \A P : /\ Meets(q.ops, P) <=> Meets(r.ops, P) \/ op \in P
             /\ AtMostOne(q.ops, P) <=> AtMostOne(r.ops, P) /\ ~(Meets(r.ops, P) /\ op \in P)
  BY <1>1, MeetsAppend
<1>3. \A m : q \in NodesOf(m) <=> r \in NodesOf(m) \/ op \in CallsOf(m)
  BY <1>1, <1>2 DEF NodesOf
<1>4. \A m, sc : q \in NodesAt(m, sc) <=> r \in NodesAt(m, sc) \/ op \in CallsAt(m, sc)
  BY <1>1, <1>2 DEF NodesAt
<1>5. ASSUME PlainNode(r), op.op = "call" => op.fp8 /\ r \notin NodesOf(op.mod)
      PROVE  PlainNode(q)
  <2> DEFINE n == Len(r.ops)
  <2>1. /\ n \in Nat /\ Len(q.ops) = n + 1 /\ q.ops[n + 1] = op
        /\ \A k \in 1..n : q.ops[k] = r.ops[k]
    BY <1>1
  <2>2. \A k \in 1..Len(q.ops) : k \in 1..n \/ k = n + 1
    BY <2>1
  <2>3. \A k \in 1..n : r.ops[k].op = "call" => r.ops[k].fp8
    BY <1>1, <1>5 DEF PlainNode
  <2> HIDE DEF n
  <2>4. \A k \in 1..Len(q.ops) : q.ops[k].op = "call" => q.ops[k].fp8
    BY <1>5, <2>1, <2>2, <2>3
  <2>5. ASSUME NEW m \in Modules  PROVE AtMostOne(q.ops, CallsOf(m))
    <3>1. AtMostOne(r.ops, CallsOf(m))
      BY <1>1, <1>5 DEF PlainNode
    <3>2. ~(Meets(r.ops, CallsOf(m)) /\ op \in CallsOf(m))
      BY <1>1, <1>5 DEF CallsOf, NodesOf
    <3> QED  BY <1>2, <3>1, <3>2
  <2> QED  BY <2>4, <2>5 DEF PlainNode
<1> QED  BY <1>3, <1>4, <1>5

\* A replay that consumes an operation.
LEMMA OpsTail ==
  ASSUME NEW r \in Callables, NEW q \in Callables, r.ops # <<>>,
         q.ops = Tail(r.ops), PlainNode(r)
  PROVE  /\ PlainNode(q)
         /\ \A m : r \in NodesOf(m) <=> q \in NodesOf(m) \/ Head(r.ops) \in CallsOf(m)
         /\ \A m, sc : r \in NodesAt(m, sc) <=> q \in NodesAt(m, sc) \/ Head(r.ops) \in CallsAt(m, sc)
         /\ \A m \in Modules : Head(r.ops) \in CallsOf(m) => q \notin NodesOf(m)
<1>1. /\ r.ops \in Seq(Ops) /\ r.kind = "checkpoint" /\ r \in Nodes
      /\ q.ops \in Seq(Ops) /\ q.kind = "checkpoint" /\ q \in Nodes
  BY DEF Callables, Nodes
<1>2. \A P : /\ Meets(r.ops, P) <=> Head(r.ops) \in P \/ Meets(q.ops, P)
             /\ AtMostOne(r.ops, P) => AtMostOne(q.ops, P) /\ ~(Head(r.ops) \in P /\ Meets(q.ops, P))
  BY <1>1, MeetsTail
<1>3. \A m : r \in NodesOf(m) <=> q \in NodesOf(m) \/ Head(r.ops) \in CallsOf(m)
  BY <1>1, <1>2 DEF NodesOf
<1>4. \A m, sc : r \in NodesAt(m, sc) <=> q \in NodesAt(m, sc) \/ Head(r.ops) \in CallsAt(m, sc)
  BY <1>1, <1>2 DEF NodesAt
<1>5. \A m \in Modules : AtMostOne(r.ops, CallsOf(m))
  BY <1>1 DEF PlainNode
<1>6. \A m \in Modules : Head(r.ops) \in CallsOf(m) => q \notin NodesOf(m)
  BY <1>2, <1>5 DEF NodesOf
<1>7. \A k \in 1..Len(q.ops) : q.ops[k].op = "call" => q.ops[k].fp8
  <2> SUFFICES ASSUME NEW k \in 1..Len(q.ops)
               PROVE  q.ops[k].op = "call" => q.ops[k].fp8
    OBVIOUS
  <2>1. k + 1 \in 1..Len(r.ops) /\ q.ops[k] = r.ops[k + 1]
    BY <1>1, HeadTailProperties
  <2> QED  BY <1>1, <2>1 DEF PlainNode
<1>8. PlainNode(q)
  BY <1>2, <1>5, <1>7 DEF PlainNode
<1> QED  BY <1>3, <1>4, <1>6, <1>8

\* The checkpoints of a graph, by their places.
LEMMA MarkedAppend ==
  ASSUME NEW s \in Seq(Nodes), NEW n \in Nodes
  PROVE  Marked(Append(s, n)) =
           IF n.kind = "checkpoint" THEN Marked(s) \cup {Len(s) + 1} ELSE Marked(s)
<1> DEFINE a == Append(s, n)
           k == Len(s)
<1>1. /\ k \in Nat /\ Len(a) = k + 1 /\ a[k + 1] = n
      /\ \A i \in 1..k : a[i] = s[i]
  OBVIOUS
<1> HIDE DEF a
<1>2. 1..Len(a) = (1..k) \cup {k + 1}
  BY <1>1
<1> HIDE DEF k
<1> QED  BY <1>1, <1>2 DEF Marked, a, k

LEMMA MarkedConcat ==
  ASSUME NEW s \in Seq(Nodes), NEW t \in Seq(Nodes),
         \A k \in 1..Len(t) : t[k].kind = "module"
  PROVE  Marked(s \o t) = Marked(s)
<1> DEFINE c == s \o t
           n == Len(s)
<1>1. /\ n \in Nat /\ Len(t) \in Nat /\ Len(c) = n + Len(t)
      /\ \A i \in 1..n : c[i] = s[i]
      /\ \A k \in 1..Len(t) : c[n + k] = t[k]
  OBVIOUS
<1> HIDE DEF c
<1>2. \A i \in 1..Len(c) : i \in 1..n \/ (i - n \in 1..Len(t) /\ i = n + (i - n))
  BY <1>1
<1>3. \A i \in 1..Len(c) : i \in 1..n \/ c[i].kind = "module"
  BY <1>1, <1>2
<1>4. 1..n \subseteq 1..Len(c)
  BY <1>1
<1> HIDE DEF n
<1> QED  BY <1>1, <1>3, <1>4 DEF Marked, c, n
-----------------------------------------------------------------------------
(* What the actions do to the calls still to be recomputed *)

LEMMA SameCallsTrans ==
  ASSUME NEW s, NEW t, NEW u, SameCalls(s, t), SameCalls(t, u)
  PROVE  SameCalls(s, u)
  BY DEF SameCalls

LEMMA SameCallsOnce ==
  ASSUME NEW s, NEW t, SameCalls(s, t), OnceIn(s)
  PROVE  OnceIn(t)
  BY DEF SameCalls, OnceIn

\* Contexts opened and closed in a callable leave its calls alone.
LEMMA ContextOps ==
  ASSUME RInv, Inv', mode = "checkpoint", NEW op \in Ops, op.op # "call",
         region' = Recorded(op)
  PROVE  PlainNode(region') /\ Alike(region, region')
<1>1. region \in Callables /\ region' \in Callables /\ PlainNode(region)
  BY DEF RInv, GInv, Structure, Inv, TypeOK, Plain, PlainNodes
<1>2. region'.ops = Append(region.ops, op)
  BY <1>1 DEF Recorded, Callables
<1>3. \A m, sc : op \notin CallsOf(m) /\ op \notin CallsAt(m, sc)
  BY DEF CallsOf, CallsAt
<1> QED  BY <1>1, <1>2, <1>3, OpsAppend DEF Alike

\* A module that returns in a callable adds its call.
LEMMA ReturnOps ==
  ASSUME RInv, Inv', NEW m \in Modules, ReturnFromModule(m), mode = "checkpoint"
  PROVE  /\ PlainNode(region')
         /\ \A n \in Modules :
              /\ region' \in NodesOf(n) <=> region \in NodesOf(n) \/ n = m
              /\ \A sc : region' \in NodesAt(n, sc) <=>
                           region \in NodesAt(n, sc) \/ (n = m /\ sc = fwd[m].scale)
         /\ ~Meets(Walk, NodesOf(m))
<1> DEFINE op == [op |-> "call", mod |-> m, fp8 |-> fp8[m], scale |-> fwd[m].scale]
<1>1. /\ region \in Callables /\ region' \in Callables /\ PlainNode(region) /\ TypeOK
      /\ tape \in Seq(Nodes)
  BY DEF RInv, GInv, Structure, Inv, TypeOK, Plain, PlainNodes
<1>2. op \in Ops /\ op.op = "call" /\ op.mod = m /\ op.fp8 = fp8[m] /\ op.scale = fwd[m].scale
  BY <1>1 DEF TypeOK, Ops, CallOps, Tensor
<1>3. region'.ops = Append(region.ops, op)
  BY <1>1 DEF ReturnFromModule, Callables
<1> HIDE DEF op
<1>4. current = m /\ m # NoModule
  BY ScriptAssumption DEF ReturnFromModule, EndForward
<1>5. fp8[m] /\ ~Meets(Walk, NodesOf(m))
  BY <1>4 DEF RInv, AllFP8, Distinct, InForward
<1>6. region \notin NodesOf(m)
  <2>1. Walk = Append(tape, region) /\ region \in Nodes
    BY <1>1 DEF Walk, Nodes
  <2> QED  BY <1>1, <1>5, <2>1, MeetsAppend
<1>7. PlainNode(region')
  BY <1>1, <1>2, <1>3, <1>5, <1>6, OpsAppend
<1>8. \A n : op \in CallsOf(n) <=> n = m
  BY <1>2 DEF CallsOf
<1>9. \A n, sc : op \in CallsAt(n, sc) <=> n = m /\ sc = fwd[m].scale
  BY <1>2, <1>8 DEF CallsAt
<1>10. \A n : region' \in NodesOf(n) <=> region \in NodesOf(n) \/ op \in CallsOf(n)
  BY <1>1, <1>2, <1>3, OpsAppend
<1>11. \A n, sc : region' \in NodesAt(n, sc) <=> region \in NodesAt(n, sc) \/ op \in CallsAt(n, sc)
  BY <1>1, <1>2, <1>3, OpsAppend
<1> QED  BY <1>5, <1>7, <1>8, <1>9, <1>10, <1>11

\* A replay that consumes an operation keeps the others.
LEMMA ReplayOps ==
  ASSUME RInv, Inv', mode = "replay", region.ops # <<>>, Consume
  PROVE  /\ Head(region.ops) \in Ops
         /\ PlainNode(region')
         /\ \A n : region \in NodesOf(n) <=> region' \in NodesOf(n) \/ Head(region.ops) \in CallsOf(n)
         /\ \A n, sc : region \in NodesAt(n, sc) <=>
                         region' \in NodesAt(n, sc) \/ Head(region.ops) \in CallsAt(n, sc)
         /\ \A n \in Modules : Head(region.ops) \in CallsOf(n) => region' \notin NodesOf(n)
<1>1. region \in Callables /\ region' \in Callables /\ PlainNode(region)
  BY DEF RInv, GInv, Structure, Inv, TypeOK, Plain, PlainNodes
<1>2. region'.ops = Tail(region.ops) /\ Head(region.ops) \in Ops
  BY <1>1 DEF Consume, Callables
<1> QED  BY <1>1, <1>2, OpsTail

\* The walk has the same calls after every other action of a pass.
LEMMA WalkStep ==
  ASSUME RInv, Inv', [Next]_vars, InProgress, InProgress',
         ~\E m \in Modules : mode = "checkpoint" /\ ReturnFromModule(m), ~ReplayReturn
  PROVE  SameCalls(Walk, Walk')
<1>1. /\ Inv /\ Flow /\ Graphs /\ Flags
      /\ tape \in Seq(Nodes) /\ todo \in Seq(Nodes) /\ region \in Nodes /\ region' \in Nodes
      /\ region \in Callables /\ region' \in Callables /\ region.kind = "checkpoint"
  BY DEF RInv, GInv, Structure, Inv, TypeOK, Nodes, Callables
<1>2. SameCalls(Walk, Walk) /\ (Walk' = Walk => SameCalls(Walk, Walk'))
  BY DEF SameCalls
<1>3. CASE UNCHANGED vars
  BY <1>2, <1>3 DEF vars, Walk
<1>4. ASSUME NEW op \in Ops, op.op # "call", mode \in {"forward", "checkpoint"}, mode' = mode,
             region' = Recorded(op), tape' = tape
      PROVE  SameCalls(Walk, Walk')
  <2>1. CASE mode = "forward"
    BY <1>2, <1>4, <2>1 DEF Walk
  <2>2. CASE mode = "checkpoint"
    <3>1. Walk = Append(tape, region) /\ Walk' = Append(tape, region')
      BY <1>4, <2>2 DEF Walk
    <3> QED  BY <1>1, <1>4, <2>2, <3>1, ContextOps, AlikeNode
  <2> QED  BY <1>4, <2>1, <2>2
<1>5. ASSUME NEW enabled \in Enabled, EnterContext(enabled)  PROVE SameCalls(Walk, Walk')
  <2>1. enabled \in BOOLEAN
    BY ScriptAssumption
  <2> DEFINE op == [op |-> "enter", enabled |-> enabled]
  <2>2. op \in Ops /\ op.op # "call"
    BY <2>1 DEF Ops, EnterOps
  <2>3. region' = Recorded(op) /\ mode \in {"forward", "checkpoint"} /\ mode' = mode /\ tape' = tape
    BY <1>5 DEF EnterContext, InScript
  <2> HIDE DEF op
  <2> QED  BY <1>4, <2>2, <2>3
<1>6. CASE ExitContext
  <2> DEFINE op == [op |-> "exit"]
  <2>2. op \in Ops /\ op.op # "call"
    BY DEF Ops, ExitOps
  <2>3. region' = Recorded(op) /\ mode \in {"forward", "checkpoint"} /\ mode' = mode /\ tape' = tape
    BY <1>6 DEF ExitContext, InScript
  <2> HIDE DEF op
  <2> QED  BY <1>4, <2>2, <2>3
<1>7. ASSUME NEW m \in Modules, CallModule(m)  PROVE SameCalls(Walk, Walk')
  BY <1>2, <1>7 DEF CallModule, Walk
<1>8. ASSUME NEW m \in Modules, ReturnFromModule(m)  PROVE SameCalls(Walk, Walk')
  <2>1. mode = "forward"
    BY <1>8 DEF ReturnFromModule
  <2>2. Walk = tape /\ Walk' = Append(tape, NodeOf(m))
    BY <1>8, <2>1 DEF ReturnFromModule, Walk
  <2>3. NodeOf(m) \in Nodes /\ NoCalls(NodeOf(m))
    BY <1>1, NodeOfType, NoCallNodes DEF Inv
  <2> QED  BY <1>1, <2>2, <2>3, QuietNode
<1>9. ASSUME NEW reentrant \in Reentrant, StartCheckpoint(reentrant)  PROVE SameCalls(Walk, Walk')
  <2>1. Walk = tape /\ Walk' = Append(tape, region')
    BY <1>9 DEF StartCheckpoint, Walk
  <2>2. region'.ops = <<>>
    BY <1>9 DEF StartCheckpoint, NoRegion
  <2> QED  BY <1>1, <2>1, <2>2, NoCallNodes, QuietNode
<1>10. CASE EndCheckpoint
  BY <1>2, <1>10 DEF EndCheckpoint, Walk
<1>11. CASE BackwardModule
  <2>1. todo # <<>> /\ Last(todo).kind = "module" /\ todo' = Front(todo)
        /\ Walk = todo /\ Walk' = Front(todo)
    BY <1>11 DEF BackwardModule, Walk
  <2>2. Front(todo) \in Seq(Nodes) /\ Last(todo) \in Nodes /\ todo = Append(Front(todo), Last(todo))
    BY <1>1, <2>1, FrontAndLast
  <2>3. NoCalls(Last(todo))
    BY <2>1, <2>2, NodeKinds, NoCallNodes
  <2> QED  BY <2>1, <2>2, <2>3, QuietNode
<1>12. CASE ReduceBackward
  BY <1>2, <1>12 DEF ReduceBackward, scriptVars, Walk
<1>13. CASE StartReplay
  <2>1. todo # <<>> /\ Walk = todo /\ Walk' = Append(Front(todo), Last(todo))
    BY <1>13 DEF StartReplay, Walk
  <2> QED  BY <1>1, <1>2, <2>1, FrontAndLast
<1>14. CASE ReplayEnter \/ ReplayExit
  <2>1. /\ mode = "replay" /\ region.ops # <<>> /\ Head(region.ops).op # "call" /\ Consume
        /\ todo' = todo /\ mode' = mode
    BY <1>14 DEF ReplayEnter, ReplayExit, NextOp, scriptVars
  <2>2. \A n, sc : Head(region.ops) \notin CallsOf(n) /\ Head(region.ops) \notin CallsAt(n, sc)
    BY <2>1 DEF CallsOf, CallsAt
  <2>3. Alike(region, region')
    BY <2>1, <2>2, ReplayOps DEF Alike
  <2>4. Walk = Append(todo, region) /\ Walk' = Append(todo, region')
    BY <2>1 DEF Walk
  <2> QED  BY <1>1, <2>3, <2>4, AlikeNode
<1>15. CASE ReplayCall
  BY <1>2, <1>15 DEF ReplayCall, scriptVars, Walk
<1>16. CASE EndReplay
  <2> DEFINE t == IF region.reentrant THEN tape ELSE region.nodes
  <2>1. Walk = Append(todo, region) /\ region.ops = <<>> /\ mode = "replay"
        /\ Walk' = todo \o t
    BY <1>16 DEF EndReplay, Walk
  <2>2. SameCalls(Walk, todo)
    BY <1>1, <2>1, NoCallNodes, QuietNode
  <2>3. t \in Seq(Nodes) /\ \A k \in 1..Len(t) : t[k].kind = "module"
    <3>1. region.nodes \in Seq(ModuleNodes)
      BY <1>1 DEF Callables
    <3>2. \A k \in 1..Len(region.nodes) : region.nodes[k].kind = "module"
      <4>1. \A k \in 1..Len(region.nodes) : region.nodes[k] \in ModuleNodes
        BY <3>1
      <4> QED  BY <4>1 DEF ModuleNodes
    <3>3. region.nodes \in Seq(Nodes)
      BY <3>1, SeqSubset DEF Nodes
    <3>4. \A k \in 1..Len(tape) : tape[k].kind = "module"
      BY <1>1, <2>1 DEF Flags
    <3> QED  BY <1>1, <3>2, <3>3, <3>4
  <2> HIDE DEF t
  <2>4. \A m, sc : \A k \in 1..Len(t) : t[k] \notin NodesOf(m) /\ t[k] \notin NodesAt(m, sc)
    BY <2>3 DEF NodesOf, NodesAt
  <2>5. \A m, sc : /\ Meets(todo \o t, NodesOf(m)) <=> Meets(todo, NodesOf(m))
                   /\ Meets(todo \o t, NodesAt(m, sc)) <=> Meets(todo, NodesAt(m, sc))
                   /\ AtMostOne(todo \o t, NodesOf(m)) <=> AtMostOne(todo, NodesOf(m))
    BY <1>1, <2>3, <2>4, MeetsConcat
  <2>6. SameCalls(todo, todo \o t)
    BY <2>5 DEF SameCalls
  <2> QED  BY <2>1, <2>2, <2>6, SameCallsTrans
<1>17. ~StartForward /\ ~EndBackward /\ ~ReplayRaises /\ ~Unwind /\ ~Finished
  BY DEF StartForward, EndBackward, ReplayRaises, Unwind, Finished, InProgress
<1>18. \A keep \in BOOLEAN : ~EndMicrobatch(keep)
  BY DEF EndMicrobatch, InProgress
<1>19. \A i \in DOMAIN pending : ~StartBackward(i)
  BY DEF StartBackward, InProgress
<1> QED
  BY <1>3, <1>5, <1>6, <1>7, <1>8, <1>9, <1>10, <1>11, <1>12, <1>13, <1>14,
     <1>15, <1>16, <1>17, <1>18, <1>19
  DEF Next

\* A module that returns in a callable: its call joins the walk.
LEMMA ReturnWalks ==
  ASSUME RInv, Inv', NEW m \in Modules, ReturnFromModule(m), mode = "checkpoint"
  PROVE  /\ OnceIn(Walk')
         /\ \A n \in Modules :
              /\ Meets(Walk', NodesOf(n)) <=> Meets(Walk, NodesOf(n)) \/ n = m
              /\ \A sc : Meets(Walk', NodesAt(n, sc)) <=>
                           Meets(Walk, NodesAt(n, sc)) \/ (n = m /\ sc = fwd[m].scale)
<1>1. /\ tape \in Seq(Nodes) /\ region \in Nodes /\ region' \in Nodes
      /\ Walk = Append(tape, region) /\ Walk' = Append(tape, region')
  BY DEF RInv, GInv, Structure, Inv, TypeOK, Nodes, Walk, ReturnFromModule
<1>2. /\ \A n \in Modules :
           /\ region' \in NodesOf(n) <=> region \in NodesOf(n) \/ n = m
           /\ \A sc : region' \in NodesAt(n, sc) <=>
                        region \in NodesAt(n, sc) \/ (n = m /\ sc = fwd[m].scale)
      /\ ~Meets(Walk, NodesOf(m))
  BY ReturnOps
<1>3. \A P : /\ Meets(Walk, P) <=> Meets(tape, P) \/ region \in P
             /\ AtMostOne(Walk, P) <=> AtMostOne(tape, P) /\ ~(Meets(tape, P) /\ region \in P)
  BY <1>1, MeetsAppend
<1>4. \A P : /\ Meets(Walk', P) <=> Meets(tape, P) \/ region' \in P
             /\ AtMostOne(Walk', P) <=> AtMostOne(tape, P) /\ ~(Meets(tape, P) /\ region' \in P)
  BY <1>1, MeetsAppend
<1>5. OnceIn(Walk)
  BY DEF RInv, Distinct, InProgress
<1>6. ASSUME NEW n \in Modules  PROVE AtMostOne(Walk', NodesOf(n))
  BY <1>2, <1>3, <1>4, <1>5 DEF OnceIn
<1>7. ASSUME NEW n \in Modules
      PROVE  Meets(Walk', NodesOf(n)) <=> Meets(Walk, NodesOf(n)) \/ n = m
  BY <1>2, <1>3, <1>4
<1>8. ASSUME NEW n \in Modules, NEW sc
      PROVE  Meets(Walk', NodesAt(n, sc)) <=>
               Meets(Walk, NodesAt(n, sc)) \/ (n = m /\ sc = fwd[m].scale)
  BY <1>2, <1>3, <1>4
<1> QED  BY <1>6, <1>7, <1>8 DEF OnceIn

\* A module that returns in a replay: its call leaves the walk.
LEMMA ReplayReturnWalks ==
  ASSUME RInv, Inv', ReplayReturn
  PROVE  /\ current \in Modules /\ OnceIn(Walk')
         /\ ~Meets(Walk', NodesOf(current))
         /\ \A n \in Modules \ {current} :
              \A sc : Meets(Walk', NodesAt(n, sc)) <=> Meets(Walk, NodesAt(n, sc))
<1> DEFINE m == Head(region.ops).mod
<1>1. /\ mode = "replay" /\ region.ops # <<>> /\ Head(region.ops).op = "call" /\ Consume
      /\ current = m /\ todo' = todo /\ mode' = mode
  BY DEF ReplayReturn, NextOp, EndForward, scriptVars
<1>2. /\ todo \in Seq(Nodes) /\ region \in Nodes /\ region' \in Nodes
      /\ Walk = Append(todo, region) /\ Walk' = Append(todo, region')
  BY <1>1 DEF RInv, GInv, Structure, Inv, TypeOK, Nodes, Walk
<1>3. /\ Head(region.ops) \in Ops
      /\ \A n : region \in NodesOf(n) <=> region' \in NodesOf(n) \/ Head(region.ops) \in CallsOf(n)
      /\ \A n, sc : region \in NodesAt(n, sc) <=>
                      region' \in NodesAt(n, sc) \/ Head(region.ops) \in CallsAt(n, sc)
      /\ \A n \in Modules : Head(region.ops) \in CallsOf(n) => region' \notin NodesOf(n)
  BY <1>1, ReplayOps
<1>4. m \in Modules /\ (\A n : Head(region.ops) \in CallsOf(n) <=> n = m)
  BY <1>1, <1>3, OpKinds DEF CallsOf
<1>5. \A n, sc : n # m => Head(region.ops) \notin CallsAt(n, sc)
  BY <1>4 DEF CallsAt
<1> HIDE DEF m
<1>6. \A P : /\ Meets(Walk, P) <=> Meets(todo, P) \/ region \in P
             /\ AtMostOne(Walk, P) <=> AtMostOne(todo, P) /\ ~(Meets(todo, P) /\ region \in P)
  BY <1>2, MeetsAppend
<1>7. \A P : /\ Meets(Walk', P) <=> Meets(todo, P) \/ region' \in P
             /\ AtMostOne(Walk', P) <=> AtMostOne(todo, P) /\ ~(Meets(todo, P) /\ region' \in P)
  BY <1>2, MeetsAppend
<1>8. OnceIn(Walk)
  BY <1>1 DEF RInv, Distinct, InProgress
<1>9. OnceIn(Walk')
  BY <1>3, <1>6, <1>7, <1>8 DEF OnceIn
<1>10. ~Meets(todo, NodesOf(m)) /\ region' \notin NodesOf(m)
  BY <1>3, <1>4, <1>6, <1>8 DEF OnceIn
<1>11. ASSUME NEW n \in Modules \ {m}, NEW sc
       PROVE  Meets(Walk', NodesAt(n, sc)) <=> Meets(Walk, NodesAt(n, sc))
  <2>1. region \in NodesAt(n, sc) <=> region' \in NodesAt(n, sc)
    BY <1>3, <1>5
  <2> QED  BY <1>6, <1>7, <2>1
<1> QED  BY <1>1, <1>4, <1>7, <1>9, <1>10, <1>11

\* The next call of a replay is that of the oldest microbatch for its module.
LEMMA OldestDue ==
  ASSUME RInv, NextOp("call"), current = NoModule
  PROVE  LET m == Head(region.ops).mod
             x == <<iter, Head(region.ops).scale>>
         IN  /\ m \in Modules /\ iter \in Nat
             /\ x \in Due(m)
             /\ \A y \in Due(m) : y # x => iter < y[1]
             /\ \A y \in Due(m) : y # x => \E i \in Iters, sc \in Amax :
                  y = <<i, sc>> /\ Later(m, i, sc)
<1> DEFINE op == Head(region.ops)
           m == op.mod
           x == <<iter, op.scale>>
<1>1. /\ mode = "replay" /\ region.ops # <<>> /\ op.op = "call"
      /\ region \in Nodes /\ region.ops \in Seq(Ops) /\ region.kind = "checkpoint"
      /\ todo \in Seq(Nodes) /\ Walk = Append(todo, region) /\ iter \in Iters
  BY DEF RInv, GInv, Structure, Inv, TypeOK, Nodes, Callables, Walk, NextOp, Running
<1>2. op \in Ops /\ m \in Modules /\ op.scale \in Amax
  BY <1>1, OpKinds DEF Ops, CallOps, EnterOps, ExitOps
<1>3. op \in CallsOf(m) /\ op \in CallsAt(m, op.scale)
  BY <1>1, <1>2 DEF CallsOf, CallsAt
<1>4. \A P : /\ Meets(region.ops, P) <=> op \in P \/ Meets(Tail(region.ops), P)
             /\ AtMostOne(region.ops, P) => ~(op \in P /\ Meets(Tail(region.ops), P))
  BY <1>1, MeetsTail
<1>5. region \in NodesOf(m) /\ region \in NodesAt(m, op.scale)
  BY <1>1, <1>3, <1>4 DEF NodesOf, NodesAt
<1>6. \A P : /\ Meets(Walk, P) <=> Meets(todo, P) \/ region \in P
             /\ AtMostOne(Walk, P) <=> AtMostOne(todo, P) /\ ~(Meets(todo, P) /\ region \in P)
  BY <1>1, MeetsAppend
<1>7. m # NoModule /\ current # m /\ iter \in Nat
  BY <1>1, <1>2, ScriptAssumption DEF Iters
<1>8. x \in Due(m)
  <2>1. Now(m, op.scale)
    BY <1>1, <1>5, <1>6, <1>7 DEF Now, InProgress
  <2> QED  BY <1>1, <1>2, <2>1 DEF Due
<1>9. ASSUME NEW sc \in Amax, Now(m, sc)  PROVE sc = op.scale
  <2>1. Meets(Walk, NodesAt(m, sc))
    BY <1>1, <1>9 DEF Now
  <2>2. ~Meets(todo, NodesOf(m))
    BY <1>1, <1>2, <1>5, <1>6 DEF RInv, Distinct, InProgress, OnceIn
  <2>3. ~Meets(todo, NodesAt(m, sc))
    BY <2>2, NodesAtOf DEF Meets
  <2>4. Meets(region.ops, CallsAt(m, sc))
    BY <1>6, <2>1, <2>3 DEF NodesAt
  <2>5. ~Meets(Tail(region.ops), CallsOf(m))
    BY <1>1, <1>2, <1>3, <1>4 DEF RInv, Plain, PlainNodes, PlainNode
  <2>6. ~Meets(Tail(region.ops), CallsAt(m, sc))
    BY <2>5 DEF Meets, CallsAt
  <2>7. op \in CallsAt(m, sc)
    BY <1>4, <2>4, <2>6
  <2> QED  BY <2>7 DEF CallsAt
<1>10. ASSUME NEW y \in Due(m), y # x
       PROVE  /\ iter < y[1]
              /\ \E i \in Iters, sc \in Amax : y = <<i, sc>> /\ Later(m, i, sc)
  <2>1. PICK i \in Iters, sc \in Amax : y = <<i, sc>>
    BY DEF Due
  <2>2. (i = iter /\ Now(m, sc)) \/ Later(m, i, sc)
    BY <2>1 DEF Due
  <2>3. Later(m, i, sc)
    BY <1>9, <1>10, <2>1, <2>2
  <2>4. \A p \in 1..Len(pending) : iter < pending[p].iter
    BY <1>1 DEF RInv, Order, InProgress, InForward
  <2>5. iter < i
    BY <2>3, <2>4 DEF Later
  <2> QED  BY <2>1, <2>3, <2>5
<1> QED  BY <1>2, <1>7, <1>8, <1>10

\* What a replay takes from the stash is what its first forward put there.
LEMMA StashHead ==
  ASSUME RInv, NextOp("call"), current = NoModule
  PROVE  LET m == Head(region.ops).mod
             sc == Head(region.ops).scale
         IN  /\ m \in Modules
             /\ stash[m] # <<>> /\ Head(stash[m]).scale = sc
             /\ Queues(Tail(stash[m]), Due(m) \ {<<iter, sc>>})
<1> DEFINE m == Head(region.ops).mod
           sc == Head(region.ops).scale
<1>1. /\ m \in Modules /\ iter \in Nat /\ <<iter, sc>> \in Due(m)
      /\ \A y \in Due(m) : y # <<iter, sc>> => iter < y[1]
  BY OldestDue
<1>2. stash[m] \in Seq(Tensor) /\ Queues(stash[m], Due(m))
  BY <1>1 DEF RInv, GInv, Structure, Inv, TypeOK, Stashed
<1> HIDE DEF m, sc
<1>3. stash[m] # <<>> /\ Head(stash[m]).scale = sc
      /\ Queues(Tail(stash[m]), Due(m) \ {<<iter, sc>>})
  BY <1>1, <1>2, QueueTail
<1> QED  BY <1>1, <1>3 DEF m, sc

LEMMA NeverRaises ==
  ASSUME RInv
  PROVE  ~ReplayRaises /\ ~Unwind
<1>5. ~Unwind
  BY DEF RInv, Recomputing, Unwind
<1> SUFFICES ASSUME ReplayRaises  PROVE FALSE
  BY <1>5
<1> DEFINE m == Head(region.ops).mod
<1>1. /\ NextOp("call") /\ mode = "replay"
      /\ \/ current = NoModule /\ stash[m] = <<>>
         \/ current = m /\ updated[m] = NoTensor
  BY DEF ReplayRaises, NextOp
<1>2. m \in Modules /\ m # NoModule
  <2>1. Head(region.ops) \in Ops
    BY <1>1 DEF RInv, GInv, Structure, Inv, TypeOK, Callables, NextOp
  <2> QED  BY <1>1, <2>1, OpKinds, ScriptAssumption DEF NextOp
<1>3. CASE current = NoModule /\ stash[m] = <<>>
  BY <1>1, <1>3, StashHead
<1>4. CASE current = m /\ updated[m] = NoTensor
  BY <1>1, <1>2, <1>4 DEF RInv, Recomputing
<1> QED  BY <1>1, <1>3, <1>4

LEMMA OrderStep ==
  ASSUME RInv, FifoScript, [Next]_vars
  PROVE  Order'
<1>1. /\ pending \in Seq(Microbatches) /\ Len(pending) \in Nat /\ Order /\ Inv
      /\ \A p \in 1..Len(pending) : pending[p] \in Microbatches /\ pending[p].iter \in Nat
      /\ started \in Nat /\ iter \in Nat
  <2>1. pending \in Seq(Microbatches) /\ Order /\ Inv /\ started \in Nat /\ iter \in Nat
    BY DEF RInv, GInv, Structure, Inv, TypeOK, Microbatches, Iters
  <2>2. \A b \in Microbatches : b.iter \in Nat
    BY DEF Microbatches, Iters
  <2>3. \A p \in 1..Len(pending) : pending[p] \in Microbatches
    BY <2>1
  <2> QED  BY <2>1, <2>2, <2>3
<1>2. CASE UNCHANGED <<pending, started, iter>> /\ (InForward' <=> InForward) /\ (InProgress' <=> InProgress)
  BY <1>1, <1>2 DEF Order
<1>3. CASE StartForward
  BY <1>1, <1>3 DEF StartForward, Order, InForward, InProgress
<1>4. ASSUME NEW keep \in BOOLEAN, EndMicrobatch(keep)  PROVE Order'
  <2> DEFINE mb == [iter |-> iter, nodes |-> tape]
             n == Len(pending)
  <2>1. /\ pending' = Append(pending, mb) /\ mode' = "idle" /\ started' = started
        /\ mode = "forward" /\ mb.iter = iter
    BY <1>4, ScriptAssumption DEF EndMicrobatch, FifoScript
  <2> HIDE DEF mb
  <2>2. /\ Len(pending') = n + 1 /\ pending'[n + 1] = mb
        /\ \A p \in 1..n : pending'[p] = pending[p]
    BY <1>1, <2>1
  <2>3. \A p \in 1..n + 1 : p \in 1..n \/ p = n + 1
    BY <1>1
  <2>4. iter = started /\ \A p \in 1..n : pending[p].iter < iter
    BY <1>1, <2>1 DEF Order, InForward
  <2>5. \A p, q \in 1..n + 1 : p < q => pending'[p].iter < pending'[q].iter
    <3> SUFFICES ASSUME NEW p \in 1..n + 1, NEW q \in 1..n + 1, p < q
                 PROVE  pending'[p].iter < pending'[q].iter
      OBVIOUS
    <3>1. p \in 1..n
      BY <1>1
    <3>2. CASE q \in 1..n
      BY <1>1, <2>2, <3>1, <3>2 DEF Order
    <3>3. CASE q = n + 1
      BY <2>1, <2>2, <2>4, <3>1, <3>3
    <3> QED  BY <2>3, <3>2, <3>3
  <2>6. \A p \in 1..n + 1 : pending'[p].iter <= started
    BY <1>1, <2>1, <2>2, <2>3, <2>4
  <2> QED  BY <2>1, <2>2, <2>5, <2>6 DEF Order, InForward, InProgress
<1>5. ASSUME NEW i \in DOMAIN pending, StartBackward(i)  PROVE Order'
  <2> DEFINE n == Len(pending)
  <2>1. i = 1 /\ mode' = "backward" /\ iter' = pending[1].iter /\ started' = started
        /\ pending' = RemoveAt(pending, 1)
    BY <1>5, ScriptAssumption DEF StartBackward, FifoScript
  <2>2. n \in Nat \ {0} /\ Len(pending') = n - 1 /\ \A p \in 1..n - 1 : pending'[p] = pending[p + 1]
    BY <1>1, <2>1, RemoveOldest
  <2>3. \A p \in 1..n - 1 : p + 1 \in 1..n /\ 1 < p + 1 /\ 1 \in 1..n
    BY <2>2
  <2>4. \A p, q \in 1..n - 1 : p < q => pending'[p].iter < pending'[q].iter
    <3> SUFFICES ASSUME NEW p \in 1..n - 1, NEW q \in 1..n - 1, p < q
                 PROVE  pending'[p].iter < pending'[q].iter
      OBVIOUS
    <3>1. p + 1 \in 1..n /\ q + 1 \in 1..n /\ p + 1 < q + 1
      BY <2>2
    <3> QED  BY <1>1, <2>2, <3>1 DEF Order
  <2>5. \A p \in 1..n - 1 : pending'[p].iter <= started /\ pending[1].iter < pending'[p].iter
    BY <1>1, <2>2, <2>3 DEF Order
  <2> QED  BY <2>1, <2>2, <2>4, <2>5 DEF Order, InForward, InProgress
<1>6. CASE EndBackward
  BY <1>1, <1>6 DEF EndBackward, Order, InForward, InProgress
<1>7. UNCHANGED vars => Order'
  BY <1>2 DEF vars, InForward, InProgress
<1>8. CASE \/ \E enabled \in Enabled : EnterContext(enabled)
           \/ ExitContext
           \/ \E m \in Modules : CallModule(m) \/ ReturnFromModule(m)
           \/ \E reentrant \in Reentrant : StartCheckpoint(reentrant)
           \/ EndCheckpoint
  BY <1>2, <1>8
  DEF EnterContext, ExitContext, CallModule, ReturnFromModule, StartCheckpoint,
      EndCheckpoint, InScript, scriptVars, InForward, InProgress
<1>9. CASE BackwardModule \/ ReduceBackward \/ StartReplay \/ ReplayEnter \/ ReplayExit
           \/ ReplayCall \/ ReplayReturn \/ EndReplay
  BY <1>2, <1>9
  DEF BackwardModule, ReduceBackward, StartReplay, ReplayEnter, ReplayExit,
      ReplayCall, ReplayReturn, EndReplay, NextOp, scriptVars, InForward, InProgress
<1> QED
  BY <1>3, <1>4, <1>5, <1>6, <1>7, <1>8, <1>9, NeverRaises DEF Next, Finished

LEMMA RecomputingStep ==
  ASSUME RInv, [Next]_vars
  PROVE  Recomputing'
<1>1. /\ Inv /\ Flow /\ Recomputing /\ AllFP8
      /\ fwd \in [Modules -> Tensor] /\ updated \in [Modules -> Tensor \cup {NoTensor}]
  BY DEF RInv, GInv, Structure, Inv, TypeOK
<1>2. mode' \notin {"unwinding", "raised"}
  <2>1. ~ReplayRaises /\ ~Unwind /\ mode \notin {"unwinding", "raised"}
    BY <1>1, NeverRaises DEF Recomputing
  <2>2. BackwardModule => mode' \notin {"unwinding", "raised"}
    BY DEF BackwardModule
  <2>3. mode' = mode => mode' \notin {"unwinding", "raised"}
    BY <2>1
  <2> QED
    BY <2>1, <2>2, <2>3
    DEF Next, vars, Finished, StartForward, EnterContext, ExitContext,
        CallModule, ReturnFromModule, StartCheckpoint, EndCheckpoint,
        EndMicrobatch, StartBackward, ReduceBackward, StartReplay,
        ReplayEnter, ReplayExit, ReplayCall, ReplayReturn, EndReplay,
        EndBackward, scriptVars
<1>3. recompute'.inRegion <=> mode' \in {"checkpoint", "replay"}
  <2>1. ~ReplayRaises /\ ~Unwind /\ (recompute.inRegion <=> mode \in {"checkpoint", "replay"})
    BY <1>1, NeverRaises DEF Recomputing
  <2>2. CASE /\ UNCHANGED recompute
             /\ mode' \in {"checkpoint", "replay"} <=> mode \in {"checkpoint", "replay"}
    BY <2>1, <2>2
  <2>3. ASSUME NEW reentrant \in Reentrant, StartCheckpoint(reentrant)
        PROVE  recompute'.inRegion /\ mode' = "checkpoint"
    BY <2>3 DEF StartCheckpoint
  <2>4. StartReplay => recompute'.inRegion /\ mode' = "replay"
    BY DEF StartReplay
  <2>5. EndCheckpoint \/ EndReplay => ~recompute'.inRegion /\ mode' \in {"forward", "backward"}
    BY DEF EndCheckpoint, EndReplay
  <2>6. BackwardModule => /\ UNCHANGED recompute /\ mode = "backward"
                         /\ mode' \in {"reduce", "backward"}
    BY DEF BackwardModule
  <2> QED
    BY <2>1, <2>2, <2>3, <2>4, <2>5, <2>6
    DEF Next, vars, Finished, StartForward, EnterContext, ExitContext,
        CallModule, ReturnFromModule, EndMicrobatch, StartBackward,
        ReduceBackward, ReplayEnter, ReplayExit, ReplayCall, ReplayReturn,
        EndBackward, InScript, NextOp
<1>4. ASSUME mode' = "replay", current' # NoModule
      PROVE  updated'[current'] # NoTensor /\ fwd'[current'].scale = Head(region'.ops).scale
  <2>1. CASE ReplayCall
    <3> DEFINE m == Head(region.ops).mod
    <3>1. /\ NextOp("call") /\ current = NoModule /\ current' = m /\ region' = region
          /\ SwitchToStash(m) \/ InitMetadata(m)
      BY <2>1 DEF ReplayCall, PrepareForward
    <3>2. m \in Modules /\ stash[m] # <<>> /\ Head(stash[m]).scale = Head(region.ops).scale
      BY <3>1, StashHead
    <3>3. fp8[m] /\ recompute.phase
      <4>1. /\ region \in FP8Nodes /\ region.kind = "checkpoint" /\ region.ops \in Seq(Ops)
            /\ region.ops # <<>> /\ Head(region.ops).op = "call" /\ mode = "replay"
        BY <1>1, <3>1 DEF AllFP8, Inv, TypeOK, Callables, NextOp
      <4>2. 1 \in 1..Len(region.ops) /\ Head(region.ops) = region.ops[1]
        BY <4>1
      <4>3. fp8[m]
        BY <4>1, <4>2 DEF FP8Nodes, FP8Node
      <4> QED  BY <1>1, <4>1, <4>3 DEF Flow
    <3>4. /\ updated' = [updated EXCEPT ![m] = fwd[m]]
          /\ fwd' = [fwd EXCEPT ![m] = Head(stash[m])]
      BY <3>1, <3>3 DEF SwitchToStash, InitMetadata
    <3> HIDE DEF m
    <3>5. updated'[m] = fwd[m] /\ fwd'[m] = Head(stash[m]) /\ fwd[m] \in Tensor
      BY <1>1, <3>2, <3>4
    <3>6. fwd[m] # NoTensor
      BY <3>5, ScriptAssumption
    <3> QED  BY <3>1, <3>2, <3>5, <3>6
  <2>2. CASE UNCHANGED <<mode, current, updated, fwd, region>>
    BY <1>1, <1>4, <2>2 DEF Recomputing
  <2>3. CASE StartReplay
    BY <1>1, <1>4, <2>3 DEF StartReplay, Flow
  <2>4. CASE ReplayEnter \/ ReplayExit
    <3>1. mode = "replay" /\ current' = current /\ Head(region.ops).op # "call"
      BY <2>4 DEF ReplayEnter, ReplayExit, NextOp
    <3> QED  BY <1>1, <1>4, <3>1 DEF Flow
  <2>5. CASE ReplayReturn
    BY <1>4, <2>5 DEF ReplayReturn, EndForward
  <2>6. CASE UNCHANGED vars
    BY <2>2, <2>6 DEF vars
  <2> QED
    BY <1>4, <2>1, <2>2, <2>3, <2>4, <2>5, <2>6, NeverRaises
    DEF Next, Finished, StartForward, EnterContext, ExitContext, CallModule,
        ReturnFromModule, StartCheckpoint, EndCheckpoint, EndMicrobatch,
        StartBackward, BackwardModule, ReduceBackward, EndReplay, EndBackward,
        InScript
<1> QED  BY <1>2, <1>3, <1>4 DEF Recomputing

\* The recorded graphs stay plain.
LEMMA PlainStep ==
  ASSUME RInv, FifoScript, [Next]_vars
  PROVE  Plain'
<1>1. /\ Inv /\ Inv' /\ Graphs /\ Flags /\ Plain /\ TypeOK
      /\ region \in Callables /\ region' \in Callables
      /\ tape \in Seq(PlainNodes) /\ todo \in Seq(PlainNodes)
  BY InvStep DEF RInv, GInv, Structure, Inv, TypeOK, Plain
<1>2. ModuleNodes \subseteq PlainNodes
  BY DEF ModuleNodes, PlainNodes, PlainNode, Nodes
<1>3. \A r \in Callables : r.ops = <<>> => r \in PlainNodes
  <2> SUFFICES ASSUME NEW r \in Callables, r.ops = <<>>  PROVE r \in PlainNodes
    OBVIOUS
  <2>1. 1..Len(r.ops) = {}
    OBVIOUS
  <2> QED  BY <2>1 DEF PlainNodes, PlainNode, AtMostOne, Nodes
<1>4. \A m \in Modules : NodeOf(m) \in PlainNodes
  BY <1>1, <1>2, NodeOfType
<1>5. tape' \in Seq(PlainNodes)
  <2>1. ASSUME NEW m \in Modules, tape' = Append(tape, NodeOf(m)) \/ tape' = tape
        PROVE  tape' \in Seq(PlainNodes)
    BY <1>1, <1>4, <2>1, AppendType
  <2>2. ASSUME NEW m \in Modules, ReturnFromModule(m)  PROVE tape' \in Seq(PlainNodes)
    BY <2>1, <2>2 DEF ReturnFromModule
  <2>3. CASE EndCheckpoint
    BY <1>1, <2>3, AppendType DEF EndCheckpoint, Plain
  <2>4. CASE ReplayReturn
    <3>1. Head(region.ops) \in Ops /\ Head(region.ops).op = "call"
      BY <1>1, <2>4 DEF ReplayReturn, NextOp, Callables
    <3> QED  BY <2>1, <2>4, <3>1, OpKinds DEF ReplayReturn
  <2>5. CASE UNCHANGED tape \/ tape' = <<>>
    BY <1>1, <2>5, EmptySeq
  <2> QED
    BY <2>2, <2>3, <2>4, <2>5
    DEF Next, vars, Finished, StartForward, EnterContext, ExitContext,
        CallModule, StartCheckpoint, EndMicrobatch, StartBackward,
        BackwardModule, ReduceBackward, StartReplay, ReplayEnter, ReplayExit,
        ReplayCall, ReplayRaises, Unwind, EndReplay, EndBackward
<1>6. todo' \in Seq(PlainNodes)
  <2>1. ASSUME NEW i \in DOMAIN pending, StartBackward(i)  PROVE todo' \in Seq(PlainNodes)
    <3>1. pending[i] \in PlainBatches
      BY <1>1 DEF Plain
    <3> QED  BY <2>1, <3>1 DEF StartBackward, PlainBatches, PlainGraphs
  <2>2. CASE BackwardModule \/ StartReplay
    BY <1>1, <2>2, LastFrontType DEF BackwardModule, StartReplay
  <2>3. CASE EndReplay
    <3>1. region.nodes \in Seq(PlainNodes)
      BY <1>1, <1>2, SeqSubset DEF Callables
    <3> QED  BY <1>1, <2>3, <3>1 DEF EndReplay
  <2>4. CASE UNCHANGED todo
    BY <1>1, <2>4
  <2> QED
    BY <2>1, <2>2, <2>3, <2>4
    DEF Next, vars, Finished, StartForward, EnterContext, ExitContext,
        CallModule, ReturnFromModule, StartCheckpoint, EndCheckpoint,
        EndMicrobatch, ReduceBackward, ReplayEnter, ReplayExit, ReplayCall,
        ReplayReturn, ReplayRaises, Unwind, EndBackward, scriptVars
<1>7. region' \in PlainNodes
  <2>1. CASE PlainNode(region')
    BY <1>1, <2>1 DEF PlainNodes, Nodes
  <2>2. CASE region' = region
    BY <1>1, <2>2 DEF Plain
  <2>3. ASSUME NEW op \in Ops, op.op # "call", region' = Recorded(op)
        PROVE  region' \in PlainNodes
    <3>1. CASE mode = "checkpoint"
      BY <1>1, <2>1, <2>3, <3>1, ContextOps
    <3>2. CASE mode # "checkpoint"
      BY <2>2, <2>3, <3>2 DEF Recorded
    <3> QED  BY <3>1, <3>2
  <2>4. ASSUME NEW enabled \in Enabled, EnterContext(enabled)  PROVE region' \in PlainNodes
    <3> DEFINE op == [op |-> "enter", enabled |-> enabled]
    <3>1. op \in Ops /\ op.op # "call"
      BY ScriptAssumption DEF Ops, EnterOps
    <3>2. region' = Recorded(op)
      BY <2>4 DEF EnterContext
    <3> HIDE DEF op
    <3> QED  BY <2>3, <3>1, <3>2
  <2>5. CASE ExitContext
    <3> DEFINE op == [op |-> "exit"]
    <3>1. op \in Ops /\ op.op # "call"
      BY DEF Ops, ExitOps
    <3>2. region' = Recorded(op)
      BY <2>5 DEF ExitContext
    <3> HIDE DEF op
    <3> QED  BY <2>3, <3>1, <3>2
  <2>6. ASSUME NEW m \in Modules, ReturnFromModule(m)  PROVE region' \in PlainNodes
    <3>1. CASE mode = "forward"
      BY <2>2, <2>6, <3>1 DEF ReturnFromModule
    <3>2. CASE mode = "checkpoint"
      BY <1>1, <2>1, <2>6, <3>2, ReturnOps
    <3> QED  BY <2>6, <3>1, <3>2 DEF ReturnFromModule
  <2>7. CASE region'.ops = <<>>
    BY <1>1, <1>3, <2>7
  <2>8. CASE StartReplay
    BY <1>1, <2>8, LastFrontType DEF StartReplay
  <2>10. ASSUME NEW reentrant \in Reentrant, StartCheckpoint(reentrant)
         PROVE  region'.ops = <<>>
    BY <2>10 DEF StartCheckpoint, NoRegion
  <2>11. EndCheckpoint \/ EndReplay => region'.ops = <<>>
    BY DEF EndCheckpoint, EndReplay, NoRegion
  <2>9. CASE ReplayEnter \/ ReplayExit \/ ReplayReturn
    <3>1. mode = "replay" /\ region.ops # <<>> /\ Consume
      BY <2>9 DEF ReplayEnter, ReplayExit, ReplayReturn, NextOp
    <3> QED  BY <1>1, <2>1, <3>1, ReplayOps
  <2> QED
    BY <2>2, <2>4, <2>5, <2>6, <2>7, <2>8, <2>9, <2>10, <2>11
    DEF Next, vars, Finished, StartForward, CallModule, EndMicrobatch,
        StartBackward, BackwardModule, ReduceBackward, ReplayCall,
        ReplayRaises, Unwind, EndBackward
<1>8. pending' \in Seq(PlainBatches)
  <2>1. pending \in Seq(PlainBatches)
    BY <1>1 DEF Plain
  <2>2. ASSUME NEW keep \in BOOLEAN, EndMicrobatch(keep)  PROVE pending' \in Seq(PlainBatches)
    <3> DEFINE mb == [iter |-> iter, nodes |-> tape]
    <3>1. mode = "forward" /\ (pending' = Append(pending, mb) \/ pending' = pending)
      BY <2>2 DEF EndMicrobatch
    <3>2. OnceIn(tape) /\ iter \in Iters
      BY <1>1, <3>1 DEF RInv, Distinct, InProgress, Walk, Inv, Running
    <3>3. mb \in PlainBatches
      BY <1>1, <3>2 DEF PlainBatches, PlainGraphs
    <3> HIDE DEF mb
    <3> QED  BY <2>1, <3>1, <3>3, AppendType
  <2>3. ASSUME NEW i \in DOMAIN pending, StartBackward(i)  PROVE pending' \in Seq(PlainBatches)
    BY <2>1, <2>3, RemoveAtType DEF StartBackward
  <2>4. CASE UNCHANGED pending
    BY <2>1, <2>4
  <2> QED
    BY <2>2, <2>3, <2>4
    DEF Next, vars, Finished, StartForward, EnterContext, ExitContext,
        CallModule, ReturnFromModule, StartCheckpoint, EndCheckpoint,
        BackwardModule, ReduceBackward, StartReplay, ReplayEnter, ReplayExit,
        ReplayCall, ReplayReturn, ReplayRaises, Unwind, EndReplay, EndBackward,
        scriptVars
<1> QED  BY <1>5, <1>6, <1>7, <1>8 DEF Plain

LEMMA NothingRecorded ==
  /\ OnceIn(<<>>) /\ Marked(<<>>) = {}
  /\ \A P : ~Meets(<<>>, P)
<1>1. 1..Len(<<>>) = {}
  OBVIOUS
<1> QED  BY <1>1 DEF OnceIn, AtMostOne, Meets, Marked

\* No module is called twice in a graph.
LEMMA DistinctStep ==
  ASSUME RInv, [Next]_vars
  PROVE  Distinct'
<1>1. Inv /\ Inv' /\ Flow /\ Graphs /\ Distinct /\ Plain
  BY InvStep DEF RInv, GInv, Structure
<1>2. CASE StartForward
  <2>1. Walk' = <<>> /\ InForward' /\ current' = NoModule
    BY <1>1, <1>2 DEF StartForward, Walk, Graphs, InForward, Flow
  <2> QED  BY <2>1, NothingRecorded DEF Distinct
<1>3. ASSUME NEW i \in DOMAIN pending, StartBackward(i)  PROVE Distinct'
  <2>1. pending[i] \in PlainBatches
    BY <1>1 DEF Plain
  <2>2. Walk' = pending[i].nodes /\ mode' = "backward"
    BY <1>3 DEF StartBackward, Walk
  <2> QED  BY <2>1, <2>2 DEF Distinct, InForward, PlainBatches, PlainGraphs
<1>4. ASSUME NEW m \in Modules, ReturnFromModule(m), mode = "checkpoint"  PROVE Distinct'
  <2>1. /\ OnceIn(Walk')
        /\ \A n \in Modules : Meets(Walk', NodesOf(n)) <=> Meets(Walk, NodesOf(n)) \/ n = m
    BY <1>1, <1>4, ReturnWalks
  <2>2. current = m /\ current' = NoModule /\ called' = called /\ m # NoModule
    BY <1>4, ScriptAssumption DEF ReturnFromModule, EndForward, scriptVars
  <2>3. \A n \in Modules : n # NoModule
    BY ScriptAssumption
  <2>4. m \in called /\ \A n \in Modules : Meets(Walk, NodesOf(n)) => n \in called
    BY <1>1, <1>4, <2>2 DEF Distinct, InForward
  <2> QED  BY <2>1, <2>2, <2>3, <2>4 DEF Distinct
<1>5. CASE ReplayReturn
  <2>1. OnceIn(Walk') /\ mode' = "replay"
    BY <1>1, <1>5, ReplayReturnWalks DEF ReplayReturn, NextOp
  <2> QED  BY <2>1 DEF Distinct, InForward
<1>6. ASSUME InProgress, InProgress',
             ~\E m \in Modules : mode = "checkpoint" /\ ReturnFromModule(m), ~ReplayReturn
      PROVE  Distinct'
  <2>1. SameCalls(Walk, Walk')
    BY <1>1, <1>6, WalkStep
  <2>2. OnceIn(Walk')
    BY <1>1, <1>6, <2>1, SameCallsOnce DEF Distinct
  <2>3. \A n \in Modules : Meets(Walk', NodesOf(n)) <=> Meets(Walk, NodesOf(n))
    BY <2>1 DEF SameCalls
  <2>4. ASSUME InForward', ~InForward  PROVE FALSE
    BY <1>6, <2>4
    DEF Next, vars, Finished, StartForward, EnterContext, ExitContext,
        CallModule, ReturnFromModule, StartCheckpoint, EndCheckpoint,
        EndMicrobatch, StartBackward, BackwardModule, ReduceBackward,
        StartReplay, ReplayEnter, ReplayExit, ReplayCall, ReplayReturn,
        ReplayRaises, Unwind, EndReplay, EndBackward, InScript, NextOp, InForward, InProgress
  <2>5. ASSUME InForward, NEW m \in Modules, CallModule(m)  PROVE Distinct'
    <3>1. current' = m /\ called' = called \cup {m} /\ m \notin called
      BY <2>5 DEF CallModule, MayCall, PrepareForward
    <3> QED  BY <1>1, <2>2, <2>3, <2>5, <3>1 DEF Distinct
  <2>6. ASSUME InForward, called' = called, current' \in {current, NoModule}  PROVE Distinct'
    <3>1. \A n \in Modules : n # NoModule
      BY ScriptAssumption
    <3> QED  BY <1>1, <2>2, <2>3, <2>6, <3>1 DEF Distinct
  <2>7. ASSUME InForward, ~\E m \in Modules : CallModule(m)
        PROVE  called' = called /\ current' \in {current, NoModule}
    BY <1>6, <2>7
    DEF Next, vars, Finished, StartForward, EnterContext, ExitContext,
        ReturnFromModule, StartCheckpoint, EndCheckpoint, EndForward,
        EndMicrobatch, StartBackward, BackwardModule, ReduceBackward,
        StartReplay, ReplayEnter, ReplayExit, ReplayCall, ReplayReturn,
        ReplayRaises, Unwind, EndReplay, EndBackward, NextOp, InForward, InProgress, scriptVars
  <2>8. ASSUME ~InForward  PROVE Distinct'
    BY <2>2, <2>4, <2>8 DEF Distinct
  <2> QED  BY <2>5, <2>6, <2>7, <2>8
<1>7. ASSUME ~InProgress'  PROVE Distinct'
  BY <1>7 DEF Distinct, InProgress, InForward
<1>8. ASSUME ~InProgress, InProgress'
      PROVE  StartForward \/ \E i \in DOMAIN pending : StartBackward(i)
  BY <1>8
  DEF Next, vars, Finished, EnterContext, ExitContext, CallModule,
      ReturnFromModule, StartCheckpoint, EndCheckpoint, EndMicrobatch,
      BackwardModule, ReduceBackward, StartReplay, ReplayEnter, ReplayExit,
      ReplayCall, ReplayReturn, ReplayRaises, Unwind, EndReplay, EndBackward, InScript,
      NextOp, InProgress
<1> QED  BY <1>2, <1>3, <1>4, <1>5, <1>6, <1>7, <1>8

-----------------------------------------------------------------------------
(* The stashed tensors *)

LEMMA SameDue ==
  ASSUME NEW m \in Modules,
         \A i \in Iters, sc \in Amax :
           (i = iter' /\ Now(m, sc)') \/ Later(m, i, sc)' <=>
           (i = iter /\ Now(m, sc)) \/ Later(m, i, sc)
  PROVE  Due(m)' = Due(m)
<1>1. \A x \in Iters \X Amax : x[1] \in Iters /\ x[2] \in Amax
  OBVIOUS
<1> QED  BY <1>1 DEF Due

\* No module is being run in a checkpoint or a replay.
Between == mode \in {"checkpoint", "replay"} => current = NoModule

\* Steps of a pass between the calls of a callable.
LEMMA QuietDue ==
  ASSUME InProgress, InProgress', Between, Between', SameCalls(Walk, Walk'),
         iter' = iter, pending' = pending, NEW m \in Modules
  PROVE  Due(m)' = Due(m)
<1>1. m # NoModule
  BY ScriptAssumption
<1>2. \A sc \in Amax : Now(m, sc) <=> Meets(Walk, NodesAt(m, sc))
  BY <1>1 DEF Now, Between
<1>3. \A sc \in Amax : Now(m, sc)' <=> Meets(Walk', NodesAt(m, sc))
  BY <1>1 DEF Now, Between
<1>4. \A sc \in Amax : Meets(Walk', NodesAt(m, sc)) <=> Meets(Walk, NodesAt(m, sc))
  BY DEF SameCalls
<1>5. \A i \in Iters, sc \in Amax : Later(m, i, sc)' <=> Later(m, i, sc)
  BY DEF Later
<1> QED  BY <1>2, <1>3, <1>4, <1>5, SameDue

\* A module called in a checkpoint stashes its tensors behind all others.
LEMMA CallStashes ==
  ASSUME RInv, Inv', FifoScript, NEW m \in Modules, CallModule(m), mode = "checkpoint"
  PROVE  Stashed'
<1>1. /\ Inv /\ Flow /\ Distinct /\ Order /\ Recomputing /\ Stashed /\ TypeOK
      /\ m # NoModule /\ iter \in Iters /\ iter \in Nat
  BY ScriptAssumption DEF RInv, GInv, Structure, Inv, Running, Iters
<1>2. /\ current = NoModule /\ current' = m /\ mode' = mode /\ iter' = iter /\ pending' = pending
      /\ Walk' = Walk /\ qstate.enabled /\ m \notin called
      /\ SwitchToStash(m) \/ InitMetadata(m)
  BY DEF CallModule, MayCall, PrepareForward, InScript, Walk, FifoScript
<1>3. ~recompute.phase /\ recompute.inRegion
  BY <1>1 DEF Flow, Recomputing
<1>4. stash' = [stash EXCEPT ![m] = Append(@, fwd[m])] /\ fwd' = fwd
  BY <1>2, <1>3 DEF SwitchToStash, InitMetadata
<1>5. fwd[m] \in Tensor /\ fwd[m].scale \in Amax /\ stash \in [Modules -> Seq(Tensor)]
  BY <1>1 DEF TypeOK, Tensor
<1>6. \A sc \in Amax : ~Meets(Walk, NodesAt(m, sc))
  <2>1. ~Meets(Walk, NodesOf(m))
    BY <1>1, <1>2 DEF Distinct, InForward
  <2> QED  BY <2>1, NodesAtOf DEF Meets
<1>7. \A n \in Modules, i \in Iters, sc \in Amax : Later(n, i, sc)' <=> Later(n, i, sc)
  BY <1>2 DEF Later
<1>8. ASSUME NEW n \in Modules, n # m  PROVE Queues(stash'[n], Due(n)')
  <2>1. \A sc \in Amax : Now(n, sc)' <=> Now(n, sc)
    BY <1>1, <1>2, <1>8, ScriptAssumption DEF Now, InProgress
  <2>2. Due(n)' = Due(n)
    BY <1>2, <1>7, <2>1, SameDue
  <2> QED  BY <1>1, <1>4, <1>5, <1>8, <2>2 DEF Stashed
<1>9. Queues(stash'[m], Due(m)')
  <2>1. \A sc \in Amax : ~Now(m, sc)
    BY <1>1, <1>2, <1>6 DEF Now
  <2>2. \A sc \in Amax : Now(m, sc)' <=> sc = fwd[m].scale
    BY <1>2, <1>4, <1>6 DEF Now
  <2>3. \A i \in Iters, sc \in Amax : Later(m, i, sc) => i < iter
    BY <1>1 DEF Later, Order, InForward
  <2>4. \A x \in Iters \X Amax : x[1] \in Iters /\ x[2] \in Amax /\ x = <<x[1], x[2]>>
    OBVIOUS
  <2>5. Due(m) = {x \in Iters \X Amax : Later(m, x[1], x[2])}
    BY <2>1, <2>4 DEF Due
  <2>6. Due(m)' = {x \in Iters \X Amax : (x[1] = iter /\ x[2] = fwd[m].scale) \/ Later(m, x[1], x[2])}
    BY <1>2, <1>7, <2>2, <2>4 DEF Due
  <2>7. Due(m)' = Due(m) \cup {<<iter, fwd[m].scale>>}
    BY <1>1, <1>5, <2>4, <2>5, <2>6
  <2>8. \A x \in Due(m) : x[1] < iter
    BY <2>3, <2>4, <2>5
  <2>9. stash[m] \in Seq(Tensor) /\ Queues(stash[m], Due(m)) /\ stash'[m] = Append(stash[m], fwd[m])
    BY <1>1, <1>4, <1>5 DEF Stashed
  <2>10. Queues(Append(stash[m], fwd[m]), Due(m) \cup {<<iter, fwd[m].scale>>})
    BY <1>1, <1>5, <2>8, <2>9, QueueAppend
  <2> QED  BY <2>7, <2>9, <2>10
<1> QED  BY <1>8, <1>9 DEF Stashed

\* A replay takes its tensors off the head.
LEMMA ReplayStashes ==
  ASSUME RInv, Inv', ReplayCall
  PROVE  Stashed'
<1>a. NextOp("call") /\ current = NoModule
  BY DEF ReplayCall, PrepareForward
<1>b. PICK m \in Modules : m = Head(region.ops).mod
  BY <1>a, StashHead
<1>c. PICK sc0 : sc0 = Head(region.ops).scale
  OBVIOUS
<1>1. /\ NextOp("call") /\ current = NoModule /\ current' = m /\ mode' = mode /\ iter' = iter
      /\ pending' = pending /\ Walk' = Walk /\ mode = "replay"
      /\ SwitchToStash(m) \/ InitMetadata(m)
  BY <1>b DEF ReplayCall, PrepareForward, NextOp, scriptVars, Walk
<1>2. Queues(Tail(stash[m]), Due(m) \ {<<iter, sc0>>})
  BY <1>a, <1>b, <1>c, StashHead
<1>3. /\ \A y \in Due(m) : y # <<iter, sc0>> => iter < y[1]
      /\ \A y \in Due(m) : y # <<iter, sc0>> =>
           \E i \in Iters, sc \in Amax : y = <<i, sc>> /\ Later(m, i, sc)
      /\ iter \in Nat
  BY <1>a, <1>b, <1>c, OldestDue
<1>4. fp8[m] /\ recompute.phase
  <2>1. /\ region \in FP8Nodes /\ region.kind = "checkpoint" /\ region.ops \in Seq(Ops)
        /\ region.ops # <<>> /\ Head(region.ops).op = "call"
    BY <1>1 DEF RInv, GInv, Structure, AllFP8, Inv, TypeOK, Callables, NextOp
  <2>2. 1 \in 1..Len(region.ops) /\ Head(region.ops) = region.ops[1]
    BY <2>1
  <2>3. fp8[m]
    BY <1>b, <2>1, <2>2 DEF FP8Nodes, FP8Node
  <2> QED  BY <1>1, <2>3 DEF RInv, GInv, Structure, Flow
<1>5. stash' = [stash EXCEPT ![m] = Tail(@)] /\ stash \in [Modules -> Seq(Tensor)]
  BY <1>1, <1>4 DEF SwitchToStash, InitMetadata, RInv, GInv, Structure, Inv, TypeOK
<1>6. \A n \in Modules, i \in Iters, sc \in Amax : Later(n, i, sc)' <=> Later(n, i, sc)
  BY <1>1 DEF Later
<1>7. ASSUME NEW n \in Modules, n # m  PROVE Queues(stash'[n], Due(n)')
  <2>1. \A sc \in Amax : Now(n, sc)' <=> Now(n, sc)
    BY <1>1, <1>7, ScriptAssumption DEF Now, InProgress
  <2>2. Due(n)' = Due(n)
    BY <1>1, <1>6, <2>1, SameDue
  <2> QED  BY <1>5, <1>7, <2>2 DEF RInv, Stashed
<1>8. Due(m)' = Due(m) \ {<<iter, sc0>>}
  <2>1. \A sc \in Amax : ~Now(m, sc)'
    BY <1>1 DEF Now
  <2>2. \A x \in Iters \X Amax : x[1] \in Iters /\ x[2] \in Amax /\ x = <<x[1], x[2]>>
    OBVIOUS
  <2>3. Due(m)' = {x \in Iters \X Amax : Later(m, x[1], x[2])}
    BY <1>2, <1>6, <2>1, <2>2 DEF Due
  <2>4. \A x \in Iters \X Amax : Later(m, x[1], x[2]) => x \in Due(m) /\ x # <<iter, sc0>>
    <3> SUFFICES ASSUME NEW x \in Iters \X Amax, Later(m, x[1], x[2])
                 PROVE  x \in Due(m) /\ x # <<iter, sc0>>
      OBVIOUS
    <3>1. x \in Due(m)
      BY DEF Due
    <3>2. \A p \in 1..Len(pending) : iter < pending[p].iter
      BY <1>1 DEF RInv, Order, InProgress, InForward
    <3>3. iter < x[1]
      BY <3>2 DEF Later
    <3>4. x[1] # iter
      BY <1>3, <2>2, <3>3 DEF Iters
    <3> QED  BY <3>1, <3>4
  <2>5. ASSUME NEW y \in Due(m), y # <<iter, sc0>>
        PROVE  y \in Iters \X Amax /\ Later(m, y[1], y[2])
    <3>1. PICK i \in Iters, sc \in Amax : y = <<i, sc>> /\ Later(m, i, sc)
      BY <1>3, <2>5
    <3> QED  BY <3>1
  <2> QED  BY <2>3, <2>4, <2>5
<1>9. Queues(stash'[m], Due(m)')
  BY <1>2, <1>5, <1>8
<1> QED  BY <1>7, <1>9 DEF Stashed

\* Elsewhere the stashes do not change.
LEMMA StashUnchanged ==
  ASSUME RInv, [Next]_vars, ~ReplayCall,
         ~\E m \in Modules : mode = "checkpoint" /\ CallModule(m)
  PROVE  stash' = stash
<1>1. CASE UNCHANGED stash
  BY <1>1
<1>2. ASSUME NEW m \in Modules, CallModule(m)  PROVE stash' = stash
  <2>1. mode = "forward" /\ (SwitchToStash(m) \/ InitMetadata(m))
    BY <1>2 DEF CallModule, InScript, PrepareForward
  <2>2. ~recompute.phase /\ ~recompute.inRegion
    BY <2>1 DEF RInv, GInv, Structure, Flow, Recomputing
  <2> QED  BY <2>1, <2>2 DEF SwitchToStash, InitMetadata
<1> QED
  BY <1>1, <1>2
  DEF Next, vars, libVars, Finished, StartForward, EnterContext, ExitContext,
      ReturnFromModule, StartCheckpoint, EndCheckpoint, EndMicrobatch,
      StartBackward, BackwardModule, ReduceBackward, StartReplay, ReplayEnter,
      ReplayExit, ReplayReturn, ReplayRaises, Unwind, EndReplay, EndBackward

LEMMA StashedStep ==
  ASSUME RInv, FifoScript, [Next]_vars
  PROVE  Stashed'
<1>1. /\ Inv /\ Inv' /\ Flow /\ Graphs /\ Distinct /\ Order /\ Stashed
      /\ \A m \in Modules : m # NoModule
  BY InvStep, ScriptAssumption DEF RInv, GInv, Structure
<1>2. ASSUME stash' = stash, \A m \in Modules : Due(m)' = Due(m)  PROVE Stashed'
  BY <1>1, <1>2 DEF Stashed
<1>3. CASE ReplayCall
  BY <1>1, <1>3, ReplayStashes
<1>4. ASSUME NEW m \in Modules, mode = "checkpoint", CallModule(m)  PROVE Stashed'
  BY <1>1, <1>4, CallStashes
<1>5. CASE UNCHANGED vars
  <2>1. \A m \in Modules, sc \in Amax : Now(m, sc)' <=> Now(m, sc)
    BY <1>5 DEF vars, Now, InProgress, Walk
  <2>2. \A m \in Modules, i \in Iters, sc \in Amax : Later(m, i, sc)' <=> Later(m, i, sc)
    BY <1>5 DEF vars, Later
  <2>3. iter' = iter /\ stash' = stash
    BY <1>5 DEF vars
  <2>4. \A m \in Modules : Due(m)' = Due(m)
    BY <2>1, <2>2, <2>3, SameDue
  <2> QED  BY <1>2, <2>3, <2>4
<1>6. ASSUME NEW m \in Modules, mode = "checkpoint", ReturnFromModule(m)  PROVE Stashed'
  <2>1. /\ mode' = mode /\ iter' = iter /\ pending' = pending /\ current = m /\ current' = NoModule
    BY <1>6 DEF ReturnFromModule, EndForward, scriptVars
  <2>2. \A n \in Modules, sc \in Amax :
          Meets(Walk', NodesAt(n, sc)) <=> Meets(Walk, NodesAt(n, sc)) \/ (n = m /\ sc = fwd[m].scale)
    BY <1>1, <1>6, ReturnWalks
  <2>3. \A n \in Modules, sc \in Amax : Now(n, sc)' <=> Now(n, sc)
    BY <1>1, <1>6, <2>1, <2>2 DEF Now, InProgress
  <2>4. \A n \in Modules, i \in Iters, sc \in Amax : Later(n, i, sc)' <=> Later(n, i, sc)
    BY <2>1 DEF Later
  <2>5. stash' = stash
    BY <1>6 DEF ReturnFromModule, libVars
  <2> QED  BY <1>2, <2>1, <2>3, <2>4, <2>5, SameDue
<1>7. CASE ReplayReturn
  <2>1. /\ mode' = mode /\ iter' = iter /\ pending' = pending /\ current' = NoModule
        /\ stash' = stash /\ mode = "replay"
    BY <1>7 DEF ReplayReturn, NextOp, EndForward, scriptVars, libVars
  <2>2. /\ current \in Modules /\ ~Meets(Walk', NodesOf(current))
        /\ \A n \in Modules \ {current} :
             \A sc : Meets(Walk', NodesAt(n, sc)) <=> Meets(Walk, NodesAt(n, sc))
    BY <1>1, <1>7, ReplayReturnWalks
  <2>3. \A sc \in Amax : ~Meets(Walk', NodesAt(current, sc))
    BY <2>2, NodesAtOf DEF Meets
  <2>4. \A n \in Modules, sc \in Amax : Now(n, sc)' <=> Now(n, sc)
    <3> SUFFICES ASSUME NEW n \in Modules, NEW sc \in Amax  PROVE Now(n, sc)' <=> Now(n, sc)
      OBVIOUS
    <3>1. CASE n = current
      BY <1>1, <2>1, <2>3, <3>1 DEF Now
    <3>2. CASE n # current
      BY <1>1, <2>1, <2>2, <3>2 DEF Now, InProgress
    <3> QED  BY <3>1, <3>2
  <2>5. \A n \in Modules, i \in Iters, sc \in Amax : Later(n, i, sc)' <=> Later(n, i, sc)
    BY <2>1 DEF Later
  <2> QED  BY <1>2, <2>1, <2>4, <2>5, SameDue
<1>8. CASE StartForward
  <2>1. Walk' = <<>> /\ mode' = "forward" /\ mode = "idle" /\ pending' = pending /\ stash' = stash
    BY <1>1, <1>8 DEF StartForward, Walk, Graphs, libVars
  <2>2. \A m \in Modules, sc \in Amax : ~Now(m, sc) /\ ~Now(m, sc)'
    BY <2>1, NothingRecorded DEF Now, InProgress
  <2>3. \A m \in Modules, i \in Iters, sc \in Amax : Later(m, i, sc)' <=> Later(m, i, sc)
    BY <2>1 DEF Later
  <2> QED  BY <1>2, <2>1, <2>2, <2>3, SameDue
<1>9. CASE EndBackward
  <2>1. Walk = <<>> /\ mode' = "idle" /\ mode = "backward" /\ pending' = pending /\ stash' = stash
    BY <1>9 DEF EndBackward, Walk, libVars
  <2>2. \A m \in Modules, sc \in Amax : ~Now(m, sc) /\ ~Now(m, sc)'
    BY <2>1, NothingRecorded DEF Now, InProgress
  <2>3. \A m \in Modules, i \in Iters, sc \in Amax : Later(m, i, sc)' <=> Later(m, i, sc)
    BY <2>1 DEF Later
  <2> QED  BY <1>2, <2>1, <2>2, <2>3, SameDue
<1>10. ASSUME NEW keep \in BOOLEAN, EndMicrobatch(keep)  PROVE Stashed'
  <2> DEFINE mb == [iter |-> iter, nodes |-> tape]
             n == Len(pending)
  <2>1. /\ pending' = Append(pending, mb) /\ mode' = "idle" /\ mode = "forward"
        /\ mb.iter = iter /\ mb.nodes = Walk /\ stash' = stash
    BY <1>10, ScriptAssumption DEF EndMicrobatch, FifoScript, Walk, libVars
  <2> HIDE DEF mb
  <2>2. pending \in Seq(Microbatches)
    BY <1>1 DEF Inv, TypeOK, Microbatches
  <2>3. /\ n \in Nat /\ Len(pending') = n + 1 /\ pending'[n + 1] = mb
        /\ \A p \in 1..n : pending'[p] = pending[p]
        /\ 1..n + 1 = (1..n) \cup {n + 1}
    BY <2>1, <2>2
  <2>4. \A m \in Modules, sc \in Amax :
          ~Now(m, sc)' /\ (Now(m, sc) <=> Meets(Walk, NodesAt(m, sc)))
    BY <2>1 DEF Now, InProgress
  <2> HIDE DEF n
  <2>5. \A m \in Modules, i \in Iters, sc \in Amax :
          Later(m, i, sc)' <=> (i = iter /\ Meets(Walk, NodesAt(m, sc))) \/ Later(m, i, sc)
    <3> SUFFICES ASSUME NEW m \in Modules, NEW i \in Iters, NEW sc \in Amax
                 PROVE  Later(m, i, sc)' <=> (i = iter /\ Meets(Walk, NodesAt(m, sc))) \/ Later(m, i, sc)
      OBVIOUS
    <3>1. Later(m, i, sc)' <=> \E p \in 1..n + 1 :
             pending'[p].iter = i /\ Meets(pending'[p].nodes, NodesAt(m, sc))
      BY <2>3 DEF Later
    <3>2. (pending'[n + 1].iter = i /\ Meets(pending'[n + 1].nodes, NodesAt(m, sc))) <=>
          (i = iter /\ Meets(Walk, NodesAt(m, sc)))
      BY <2>1, <2>3
    <3>3. Later(m, i, sc) <=> \E p \in 1..n :
             pending'[p].iter = i /\ Meets(pending'[p].nodes, NodesAt(m, sc))
      BY <2>3 DEF Later, n
    <3> QED  BY <2>3, <3>1, <3>2, <3>3
  <2> QED  BY <1>2, <2>1, <2>4, <2>5, SameDue
<1>11. ASSUME NEW j \in DOMAIN pending, StartBackward(j)  PROVE Stashed'
  <2> DEFINE n == Len(pending)
  <2>1. pending \in Seq(Microbatches)
    BY <1>1 DEF Inv, TypeOK, Microbatches
  <2>2. /\ j = 1 /\ mode = "idle" /\ mode' = "backward" /\ iter' = pending[1].iter
        /\ Walk' = pending[1].nodes /\ pending' = RemoveAt(pending, 1) /\ stash' = stash
    BY <1>11, ScriptAssumption DEF StartBackward, FifoScript, Walk, libVars
  <2>3. n \in Nat \ {0} /\ Len(pending') = n - 1 /\ \A p \in 1..n - 1 : pending'[p] = pending[p + 1]
    BY <2>1, <1>11, <2>2, RemoveOldest
  <2>4. /\ \A p \in 1..n - 1 : p + 1 \in 1..n
        /\ \A p \in 1..n : p = 1 \/ (p - 1 \in 1..n - 1 /\ (p - 1) + 1 = p)
        /\ 1 \in 1..n
    BY <2>3
  <2>5. \A m \in Modules, sc \in Amax :
          ~Now(m, sc) /\ (Now(m, sc)' <=> Meets(pending[1].nodes, NodesAt(m, sc)))
    BY <2>2 DEF Now, InProgress
  <2> HIDE DEF n
  <2>6. \A m \in Modules, i \in Iters, sc \in Amax :
          Later(m, i, sc) <=>
            (i = iter' /\ Meets(pending[1].nodes, NodesAt(m, sc))) \/ Later(m, i, sc)'
    <3> SUFFICES ASSUME NEW m \in Modules, NEW i \in Iters, NEW sc \in Amax
                 PROVE  Later(m, i, sc) <=>
                          (i = iter' /\ Meets(pending[1].nodes, NodesAt(m, sc))) \/ Later(m, i, sc)'
      OBVIOUS
    <3>1. Later(m, i, sc)' <=> \E p \in 1..n - 1 :
             pending[p + 1].iter = i /\ Meets(pending[p + 1].nodes, NodesAt(m, sc))
      BY <2>3 DEF Later
    <3>2. Later(m, i, sc) <=> \E p \in 1..n :
             pending[p].iter = i /\ Meets(pending[p].nodes, NodesAt(m, sc))
      BY DEF Later, n
    <3>3. ASSUME Later(m, i, sc)
          PROVE  (i = iter' /\ Meets(pending[1].nodes, NodesAt(m, sc))) \/ Later(m, i, sc)'
      <4>1. PICK p \in 1..n : pending[p].iter = i /\ Meets(pending[p].nodes, NodesAt(m, sc))
        BY <3>2, <3>3
      <4>2. CASE p = 1
        BY <2>2, <4>1, <4>2
      <4>3. CASE p # 1
        BY <2>4, <3>1, <4>1, <4>3
      <4> QED  BY <4>2, <4>3
    <3>4. Later(m, i, sc)' => Later(m, i, sc)
      BY <2>4, <3>1, <3>2
    <3>5. i = iter' /\ Meets(pending[1].nodes, NodesAt(m, sc)) => Later(m, i, sc)
      BY <2>2, <2>4, <3>2
    <3> QED  BY <3>3, <3>4, <3>5
  <2> QED  BY <1>2, <2>2, <2>5, <2>6, SameDue
<1>12. ASSUME ~UNCHANGED vars, ~ReplayCall, ~ReplayReturn, ~StartForward, ~EndBackward,
              ~\E m \in Modules : mode = "checkpoint" /\ (CallModule(m) \/ ReturnFromModule(m)),
              ~\E keep \in BOOLEAN : EndMicrobatch(keep),
              ~\E i \in DOMAIN pending : StartBackward(i)
       PROVE  Stashed'
  <2>1. stash' = stash
    BY <1>12, StashUnchanged
  <2>2. InProgress /\ InProgress' /\ iter' = iter /\ pending' = pending
    <3>1. ~ReplayRaises /\ ~Unwind
      BY NeverRaises
    <3>2. BackwardModule => InProgress /\ InProgress' /\ iter' = iter /\ pending' = pending
      BY DEF BackwardModule, InProgress
    <3> QED
      BY <1>12, <3>1, <3>2
      DEF Next, Finished, EnterContext, ExitContext, CallModule,
          ReturnFromModule, StartCheckpoint, EndCheckpoint, ReduceBackward,
          StartReplay, ReplayEnter, ReplayExit, EndReplay, InScript, NextOp,
          scriptVars, InProgress
  <2>3. Between /\ Between'
    <3>1. ~ReplayRaises /\ ~Unwind
      BY NeverRaises
    <3>2. BackwardModule => Between /\ Between'
      BY DEF BackwardModule, Between
    <3> QED
      BY <1>1, <1>12, <3>1, <3>2
      DEF Next, Finished, EnterContext, ExitContext, CallModule,
          ReturnFromModule, StartCheckpoint, EndCheckpoint, ReduceBackward,
          StartReplay, ReplayEnter, ReplayExit, EndReplay, InScript, NextOp,
          Between, Flow
  <2>4. SameCalls(Walk, Walk')
    BY <1>1, <1>12, <2>2, WalkStep
  <2> QED  BY <1>2, <2>1, <2>2, <2>3, <2>4, QuietDue
<1> QED  BY <1>3, <1>4, <1>5, <1>6, <1>7, <1>8, <1>9, <1>10, <1>11, <1>12

-----------------------------------------------------------------------------
(* The saved flags *)

LEMMA SameMarks ==
  ASSUME \A i \in Iters, j \in Nat :
           ((InProgress' /\ i = iter' /\ j \in Marked(Ahead'))
              \/ \E p \in 1..Len(pending') :
                   pending'[p].iter = i /\ j \in Marked(pending'[p].nodes)) <=>
           ((InProgress /\ i = iter /\ j \in Marked(Ahead))
              \/ \E p \in 1..Len(pending) :
                   pending[p].iter = i /\ j \in Marked(pending[p].nodes)),
         firstStash' = firstStash, Counted
  PROVE  Counted'
<1>1. \A x \in Iters \X Nat : x[1] \in Iters /\ x[2] \in Nat
  OBVIOUS
<1>2. Marks' = Marks
  BY <1>1 DEF Marks
<1> QED  BY <1>2 DEF Counted

\* Between checkpoints the walk keeps them in their places.
LEMMA AheadStep ==
  ASSUME RInv, Inv', [Next]_vars, InProgress, InProgress',
         ~\E reentrant \in Reentrant : StartCheckpoint(reentrant), ~StartReplay
  PROVE  Marked(Ahead') = Marked(Ahead)
<1>1. /\ Inv /\ Flow /\ Graphs /\ Flags
      /\ tape \in Seq(Nodes) /\ todo \in Seq(Nodes) /\ region \in Nodes /\ region' \in Nodes
      /\ region \in Callables /\ region.kind = "checkpoint" /\ region'.kind = "checkpoint"
  BY DEF RInv, GInv, Structure, Inv, TypeOK, Nodes, Callables
<1>2. CASE UNCHANGED <<mode, tape, todo, region>>
  BY <1>2 DEF Ahead, Walk
<1>3. CASE mode \in {"forward", "checkpoint"} /\ mode' = mode /\ tape' = tape
  <2>1. CASE mode = "forward"
    BY <1>3, <2>1 DEF Ahead, Walk
  <2>2. CASE mode = "checkpoint"
    <3>1. Ahead = Append(tape, region) /\ Ahead' = Append(tape, region')
      BY <1>3, <2>2 DEF Ahead, Walk
    <3> QED  BY <1>1, <3>1, MarkedAppend
  <2> QED  BY <1>3, <2>1, <2>2
<1>4. ASSUME NEW m \in Modules, ReturnFromModule(m)  PROVE Marked(Ahead') = Marked(Ahead)
  <2>1. CASE mode = "forward"
    <3>1. Ahead = tape /\ Ahead' = Append(tape, NodeOf(m))
      BY <1>4, <2>1 DEF ReturnFromModule, Ahead, Walk
    <3>2. NodeOf(m) \in Nodes /\ NodeOf(m).kind = "module"
      BY <1>1, NodeOfType DEF Inv, NodeOf
    <3> QED  BY <1>1, <3>1, <3>2, MarkedAppend
  <2>2. CASE mode = "checkpoint"
    BY <1>3, <1>4, <2>2 DEF ReturnFromModule
  <2> QED  BY <1>4, <2>1, <2>2 DEF ReturnFromModule
<1>5. CASE EndCheckpoint
  BY <1>5 DEF EndCheckpoint, Ahead, Walk
<1>6. CASE BackwardModule
  <2>1. todo # <<>> /\ Last(todo).kind = "module" /\ Ahead = todo /\ Ahead' = Front(todo)
    BY <1>6 DEF BackwardModule, Ahead, Walk
  <2>2. Front(todo) \in Seq(Nodes) /\ Last(todo) \in Nodes /\ todo = Append(Front(todo), Last(todo))
    BY <1>1, <2>1, FrontAndLast
  <2> QED  BY <2>1, <2>2, MarkedAppend
<1>7. CASE ReduceBackward
  BY <1>7 DEF ReduceBackward, scriptVars, Ahead, Walk
<1>8. CASE mode = "replay" /\ mode' = mode /\ todo' = todo
  BY <1>8 DEF Ahead
<1>9. CASE EndReplay
  <2> DEFINE t == IF region.reentrant THEN tape ELSE region.nodes
  <2>1. Ahead = todo /\ Ahead' = todo \o t /\ mode = "replay"
    BY <1>9 DEF EndReplay, Ahead, Walk
  <2>2. t \in Seq(Nodes) /\ \A k \in 1..Len(t) : t[k].kind = "module"
    <3>1. region.nodes \in Seq(ModuleNodes)
      BY <1>1 DEF Callables
    <3>2. \A k \in 1..Len(region.nodes) : region.nodes[k].kind = "module"
      <4>1. \A k \in 1..Len(region.nodes) : region.nodes[k] \in ModuleNodes
        BY <3>1
      <4> QED  BY <4>1 DEF ModuleNodes
    <3>3. region.nodes \in Seq(Nodes)
      BY <3>1, SeqSubset DEF Nodes
    <3>4. \A k \in 1..Len(tape) : tape[k].kind = "module"
      BY <1>1, <2>1 DEF Flags
    <3> QED  BY <1>1, <3>2, <3>3, <3>4
  <2> HIDE DEF t
  <2> QED  BY <1>1, <2>1, <2>2, MarkedConcat
<1>10. ~ReplayRaises /\ ~Unwind
  BY NeverRaises
<1> QED
  BY <1>2, <1>3, <1>4, <1>5, <1>6, <1>7, <1>8, <1>9, <1>10
  DEF Next, vars, Finished, StartForward, EnterContext, ExitContext, CallModule,
      EndMicrobatch, StartBackward, ReplayEnter, ReplayExit, ReplayCall,
      ReplayReturn, EndBackward, InScript, NextOp, InProgress, scriptVars

\* A checkpoint saves one flag.
LEMMA CheckpointCounts ==
  ASSUME RInv, NEW reentrant \in Reentrant, StartCheckpoint(reentrant), Inv'
  PROVE  Counted'
<1> DEFINE k == Len(tape) + 1
<1>1. /\ tape \in Seq(Nodes) /\ region' \in Nodes /\ region'.kind = "checkpoint"
      /\ firstStash \in Seq(BOOLEAN) /\ qstate.isFirst \in BOOLEAN
      /\ iter \in Iters /\ Len(tape) \in Nat /\ k \in Nat
  <2>1. Inv /\ TypeOK /\ region' \in Callables
    BY DEF RInv, GInv, Structure, Inv, TypeOK
  <2>2. /\ tape \in Seq(Nodes) /\ firstStash \in Seq(BOOLEAN) /\ qstate.isFirst \in BOOLEAN
        /\ Len(tape) \in Nat
    BY <2>1 DEF TypeOK
  <2>3. region' \in Nodes /\ region'.kind = "checkpoint"
    BY <2>1 DEF Nodes, Callables
  <2>4. iter \in Iters
    BY <2>1 DEF Inv, Running, StartCheckpoint
  <2> QED  BY <2>2, <2>3, <2>4
<1>2. /\ Ahead = tape /\ Ahead' = Append(tape, region') /\ mode = "forward"
      /\ pending' = pending /\ iter' = iter /\ InProgress /\ InProgress'
      /\ firstStash' = Append(firstStash, qstate.isFirst)
  BY DEF StartCheckpoint, Ahead, Walk, scriptVars, InProgress
<1>3. Marked(Ahead') = Marked(tape) \cup {k} /\ k \notin Marked(tape)
  <2>1. k \notin 1..Len(tape)
    BY <1>1
  <2> QED  BY <1>1, <1>2, <2>1, MarkedAppend DEF Marked
<1> DEFINE y == <<iter, k>>
<1>4. \A p \in 1..Len(pending) : pending[p].iter # iter
  <2>1. \A p \in 1..Len(pending) : pending[p].iter < iter
    BY <1>2 DEF RInv, Order, InForward
  <2> QED  BY <1>1, <2>1 DEF Iters
<1> HIDE DEF k
<1>5. y \notin Marks
  BY <1>2, <1>3, <1>4 DEF Marks
<1>6. \A x \in Iters \X Nat : x[1] \in Iters /\ x[2] \in Nat /\ x = <<x[1], x[2]>>
  OBVIOUS
<1>7. \A x \in Iters \X Nat : x \in Marks' <=> x \in Marks \/ x = y
  <2>1. \A x \in Iters \X Nat : x = y <=> x[1] = iter /\ x[2] = k
    BY <1>6
  <2> QED  BY <1>2, <1>3, <2>1 DEF Marks
<1>8. Marks' = Marks \cup {y}
  <2>1. y \in Iters \X Nat
    BY <1>1
  <2>2. Marks \subseteq Iters \X Nat /\ Marks' \subseteq Iters \X Nat
    BY DEF Marks
  <2> QED  BY <1>7, <2>1, <2>2
<1>9. IsFiniteSet(Marks) /\ Cardinality(Marks) = Len(firstStash)
  BY DEF RInv, Counted
<1> HIDE DEF y
<1>10. IsFiniteSet(Marks') /\ Cardinality(Marks') = Len(firstStash) + 1
  BY <1>5, <1>8, <1>9, FS_AddElement
<1>11. Len(firstStash') = Len(firstStash) + 1
  BY <1>1, <1>2
<1> QED  BY <1>10, <1>11 DEF Counted

\* A replay uses one up.
LEMMA ReplayCounts ==
  ASSUME RInv, StartReplay, Inv'
  PROVE  Counted'
<1> DEFINE f == Front(todo)
           k == Len(f) + 1
<1>1. /\ todo \in Seq(Nodes) /\ todo # <<>> /\ Last(todo).kind = "checkpoint"
      /\ firstStash \in Seq(BOOLEAN) /\ firstStash # <<>> /\ iter \in Iters
      /\ Ahead = todo /\ Ahead' = f /\ mode = "backward"
      /\ pending' = pending /\ iter' = iter /\ InProgress /\ InProgress'
      /\ firstStash' = Tail(firstStash)
  BY DEF RInv, GInv, Structure, Inv, TypeOK, Running, StartReplay, Ahead, Walk, InProgress
<1>2. f \in Seq(Nodes) /\ Last(todo) \in Nodes /\ todo = Append(f, Last(todo))
      /\ Len(f) \in Nat /\ k \in Nat
  BY <1>1, FrontAndLast
<1>3. Marked(Ahead) = Marked(f) \cup {k} /\ k \notin Marked(f)
  <2>1. k \notin 1..Len(f)
    BY <1>2
  <2> QED  BY <1>1, <1>2, <2>1, MarkedAppend DEF Marked
<1> DEFINE y == <<iter, k>>
<1>4. \A p \in 1..Len(pending) : pending[p].iter # iter
  <2>1. \A p \in 1..Len(pending) : iter < pending[p].iter
    BY <1>1 DEF RInv, Order, InForward
  <2> QED  BY <1>1, <2>1 DEF Iters
<1> HIDE DEF k, f
<1>5. y \in Marks
  BY <1>1, <1>2, <1>3 DEF Marks
<1>6. \A x \in Iters \X Nat : x[1] \in Iters /\ x[2] \in Nat /\ x = <<x[1], x[2]>>
  OBVIOUS
<1>7. \A x \in Iters \X Nat : x \in Marks' <=> x \in Marks /\ x # y
  <2>1. \A x \in Iters \X Nat : x = y <=> x[1] = iter /\ x[2] = k
    BY <1>6
  <2> QED  BY <1>1, <1>3, <1>4, <2>1 DEF Marks
<1>8. Marks' = Marks \ {y}
  <2>1. Marks \subseteq Iters \X Nat /\ Marks' \subseteq Iters \X Nat
    BY DEF Marks
  <2> QED  BY <1>7, <2>1
<1>9. IsFiniteSet(Marks) /\ Cardinality(Marks) = Len(firstStash)
  BY DEF RInv, Counted
<1> HIDE DEF y
<1>10. IsFiniteSet(Marks') /\ Cardinality(Marks') = Len(firstStash) - 1
  BY <1>5, <1>8, <1>9, FS_RemoveElement
<1>11. Len(firstStash') = Len(firstStash) - 1
  BY <1>1
<1> QED  BY <1>10, <1>11 DEF Counted

LEMMA CountedStep ==
  ASSUME RInv, FifoScript, [Next]_vars
  PROVE  Counted'
<1>1. /\ Inv /\ Inv' /\ Flow /\ Graphs /\ Counted /\ pending \in Seq(Microbatches)
  BY InvStep DEF RInv, GInv, Structure, Inv, TypeOK, Microbatches
<1>2. ASSUME NEW reentrant \in Reentrant, StartCheckpoint(reentrant)  PROVE Counted'
  BY <1>1, <1>2, CheckpointCounts
<1>3. CASE StartReplay
  BY <1>1, <1>3, ReplayCounts
<1>4. CASE UNCHANGED vars
  BY <1>1, <1>4 DEF vars, Counted, Marks, InProgress, Ahead, Walk
<1>5. CASE StartForward
  <2>1. /\ ~InProgress /\ Ahead' = <<>> /\ pending' = pending /\ firstStash' = firstStash
    BY <1>1, <1>5 DEF StartForward, InProgress, Ahead, Walk, Graphs, libVars
  <2> QED  BY <1>1, <2>1, NothingRecorded, SameMarks
<1>6. CASE EndBackward
  <2>1. /\ ~InProgress' /\ Ahead = <<>> /\ pending' = pending /\ firstStash' = firstStash
    BY <1>6 DEF EndBackward, InProgress, Ahead, Walk, libVars
  <2> QED  BY <1>1, <2>1, NothingRecorded, SameMarks
<1>7. ASSUME NEW keep \in BOOLEAN, EndMicrobatch(keep)  PROVE Counted'
  <2> DEFINE mb == [iter |-> iter, nodes |-> tape]
             n == Len(pending)
  <2>1. /\ pending' = Append(pending, mb) /\ InProgress /\ ~InProgress'
        /\ mb.iter = iter /\ mb.nodes = Ahead /\ firstStash' = firstStash
    BY <1>7, ScriptAssumption DEF EndMicrobatch, FifoScript, Ahead, Walk, libVars, InProgress
  <2> HIDE DEF mb
  <2>2. /\ n \in Nat /\ Len(pending') = n + 1 /\ pending'[n + 1] = mb
        /\ \A p \in 1..n : pending'[p] = pending[p]
        /\ 1..n + 1 = (1..n) \cup {n + 1}
    BY <1>1, <2>1
  <2> HIDE DEF n
  <2>3. ASSUME NEW i \in Iters, NEW j \in Nat
        PROVE  (\E p \in 1..Len(pending') : pending'[p].iter = i /\ j \in Marked(pending'[p].nodes)) <=>
               \/ i = iter /\ j \in Marked(Ahead)
               \/ \E p \in 1..n : pending[p].iter = i /\ j \in Marked(pending[p].nodes)
    <3>1. (\E p \in 1..Len(pending') : pending'[p].iter = i /\ j \in Marked(pending'[p].nodes)) <=>
          \/ pending'[n + 1].iter = i /\ j \in Marked(pending'[n + 1].nodes)
          \/ \E p \in 1..n : pending'[p].iter = i /\ j \in Marked(pending'[p].nodes)
      BY <2>2
    <3>2. pending'[n + 1].iter = i /\ j \in Marked(pending'[n + 1].nodes) <=>
          i = iter /\ j \in Marked(Ahead)
      BY <2>1, <2>2
    <3> QED  BY <2>2, <3>1, <3>2
  <2> QED  BY <1>1, <2>1, <2>3, SameMarks DEF n
<1>8. ASSUME NEW h \in DOMAIN pending, StartBackward(h)  PROVE Counted'
  <2> DEFINE n == Len(pending)
  <2>1. /\ h = 1 /\ ~InProgress /\ InProgress' /\ iter' = pending[1].iter
        /\ Ahead' = pending[1].nodes /\ pending' = RemoveAt(pending, 1) /\ firstStash' = firstStash
    BY <1>8, ScriptAssumption DEF StartBackward, FifoScript, Ahead, Walk, libVars, InProgress
  <2>2. n \in Nat \ {0} /\ Len(pending') = n - 1 /\ \A p \in 1..n - 1 : pending'[p] = pending[p + 1]
    BY <1>1, <1>8, <2>1, RemoveOldest
  <2>3. /\ \A p \in 1..n - 1 : p + 1 \in 1..n
        /\ \A p \in 1..n : p = 1 \/ (p - 1 \in 1..n - 1 /\ (p - 1) + 1 = p)
        /\ 1 \in 1..n
    BY <2>2
  <2> HIDE DEF n
  <2>4. ASSUME NEW i \in Iters, NEW j \in Nat
        PROVE  (\E p \in 1..n : pending[p].iter = i /\ j \in Marked(pending[p].nodes)) <=>
               \/ i = iter' /\ j \in Marked(Ahead')
               \/ \E p \in 1..n - 1 : pending'[p].iter = i /\ j \in Marked(pending'[p].nodes)
    <3>1. ASSUME NEW p \in 1..n, pending[p].iter = i, j \in Marked(pending[p].nodes)
          PROVE  \/ i = iter' /\ j \in Marked(Ahead')
                 \/ \E q \in 1..n - 1 : pending'[q].iter = i /\ j \in Marked(pending'[q].nodes)
      <4>1. CASE p = 1
        BY <2>1, <3>1, <4>1
      <4>2. CASE p # 1
        <5>1. p - 1 \in 1..n - 1 /\ pending'[p - 1] = pending[p]
          BY <2>2, <2>3, <4>2
        <5> QED  BY <3>1, <5>1
      <4> QED  BY <4>1, <4>2
    <3>2. ASSUME NEW p \in 1..n - 1, pending'[p].iter = i, j \in Marked(pending'[p].nodes)
          PROVE  \E q \in 1..n : pending[q].iter = i /\ j \in Marked(pending[q].nodes)
      <4>1. p + 1 \in 1..n /\ pending'[p] = pending[p + 1]
        BY <2>2, <2>3
      <4> QED  BY <3>2, <4>1
    <3>3. ASSUME i = iter', j \in Marked(Ahead')
          PROVE  \E q \in 1..n : pending[q].iter = i /\ j \in Marked(pending[q].nodes)
      BY <2>1, <2>3, <3>3
    <3> QED  BY <3>1, <3>2, <3>3
  <2> QED  BY <1>1, <2>1, <2>2, <2>4, SameMarks DEF n
<1>9. ASSUME ~UNCHANGED vars, ~StartForward, ~EndBackward, ~StartReplay,
             ~\E reentrant \in Reentrant : StartCheckpoint(reentrant),
             ~\E keep \in BOOLEAN : EndMicrobatch(keep),
             ~\E i \in DOMAIN pending : StartBackward(i)
      PROVE  Counted'
  <2>1. ~ReplayRaises /\ ~Unwind
    BY NeverRaises
  <2>2. BackwardModule => /\ InProgress /\ InProgress' /\ iter' = iter /\ pending' = pending
                         /\ firstStash' = firstStash
    BY DEF BackwardModule, InProgress, libVars
  <2>3. /\ InProgress /\ InProgress' /\ iter' = iter /\ pending' = pending
        /\ firstStash' = firstStash
    BY <1>9, <2>1, <2>2
    DEF Next, Finished, EnterContext, ExitContext, CallModule, ReturnFromModule,
        EndCheckpoint, ReduceBackward, ReplayEnter, ReplayExit, ReplayCall,
        ReplayReturn, EndReplay, InScript, NextOp, scriptVars, libVars, InProgress
  <2>4. Marked(Ahead') = Marked(Ahead)
    BY <1>1, <1>9, <2>3, AheadStep
  <2> QED  BY <1>1, <2>3, <2>4, SameMarks
<1> QED  BY <1>2, <1>3, <1>4, <1>5, <1>6, <1>7, <1>8, <1>9

-----------------------------------------------------------------------------
(* The theorems *)

LEMMA InitRInv == Init => RInv
<1> SUFFICES ASSUME Init  PROVE RInv
  OBVIOUS
<1>1. GInv /\ AllFP8
  BY InitGInv, InitFlow
<1>2. /\ mode = "idle" /\ current = NoModule /\ tape = <<>> /\ todo = <<>> /\ pending = <<>>
      /\ region = NoRegion /\ firstStash = <<>> /\ started = 0
      /\ stash = [m \in Modules |-> <<>>] /\ ~recompute.inRegion
      /\ Len(<<>>) = 0 /\ 1..0 = {}
  BY EmptySeq DEF Init
<1>3. Plain
  <2>1. NoRegion \in PlainNodes
    BY <1>2 DEF NoRegion, PlainNodes, PlainNode, AtMostOne, Nodes, Callables
  <2> QED  BY <1>2, <2>1, EmptySeq DEF Plain
<1>4. Distinct /\ Recomputing
  BY <1>2 DEF Distinct, Recomputing, InProgress, InForward
<1>5. Order
  BY <1>2 DEF Order, InProgress, InForward
<1>6. Stashed
  <2>1. \A m \in Modules : Due(m) = {}
    BY <1>2 DEF Due, Now, Later, InProgress
  <2>2. \A m \in Modules : stash[m] = <<>> /\ stash[m] \in Seq(Tensor)
    BY <1>2, EmptySeq
  <2> QED  BY <2>1, <2>2, QueueEmpty DEF Stashed
<1>7. Counted
  <2>1. Marks = {}
    BY <1>2 DEF Marks, InProgress
  <2> QED  BY <1>2, <2>1, FS_EmptySet DEF Counted
<1> QED  BY <1>1, <1>3, <1>4, <1>5, <1>6, <1>7 DEF RInv

LEMMA RInvStep == FifoScript /\ RInv /\ [Next]_vars => RInv'
  BY GInvStep, AllFP8Step, PlainStep, DistinctStep, OrderStep, RecomputingStep,
     StashedStep, CountedStep
  DEF RInv, GInv, Structure, FifoScript

\* In scripts that call every module in FP8, keep every graph and run backwards
\* in the order of the forwards, a recompute runs in the precision of the first
\* forward and with its scale (prepare_forward and the stash of quantization.py,
\* "for identical numerical outputs").
THEOREM RecomputesSameScale == FifoScript => (Spec => []RecomputeSameScale)
<1> SUFFICES ASSUME FifoScript  PROVE Spec => []RecomputeSameScale
  OBVIOUS
<1>1. RInv => RecomputeSameScale
  <2> SUFFICES ASSUME RInv, mode = "replay", current # NoModule
               PROVE  LET call == Head(region.ops)
                      IN  /\ fp8[current] = call.fp8
                          /\ call.fp8 => fwd[current].scale = call.scale
    BY DEF RecomputeSameScale
  <2>1. /\ region.ops # <<>> /\ Head(region.ops).op = "call"
        /\ region \in Callables /\ region.ops \in Seq(Ops) /\ region.kind = "checkpoint"
        /\ current \in Modules /\ fp8 \in [Modules -> BOOLEAN]
    BY DEF RInv, GInv, Structure, Flow, Inv, TypeOK, Callables
  <2>2. 1 \in 1..Len(region.ops) /\ Head(region.ops) = region.ops[1] /\ Head(region.ops) \in Ops
    BY <2>1
  <2>3. Head(region.ops).fp8 = TRUE
    <3>1. Head(region.ops).fp8
      BY <2>1, <2>2 DEF RInv, Plain, PlainNodes, PlainNode
    <3>2. Head(region.ops).fp8 \in BOOLEAN
      BY <2>1, <2>2 DEF Ops, CallOps, EnterOps, ExitOps
    <3> QED  BY <3>1, <3>2
  <2>4. fp8[current] = TRUE
    BY <2>1 DEF RInv, AllFP8
  <2>5. fwd[current].scale = Head(region.ops).scale
    BY DEF RInv, Recomputing
  <2> QED  BY <2>3, <2>4, <2>5
<1> QED  BY <1>1, InitRInv, RInvStep, PTL DEF Spec

\* In the same scripts no recompute fails for lack of stashed tensors
\* (popleft and the tensors set aside for end_forward, quantization.py).
THEOREM RecomputesNeverRaise == FifoScript => (Spec => []NoRaise)
<1> SUFFICES ASSUME FifoScript  PROVE Spec => []NoRaise
  OBVIOUS
<1>1. RInv => NoRaise
  BY DEF RInv, Recomputing, NoRaise
<1> QED  BY <1>1, InitRInv, RInvStep, PTL DEF Spec

\* And when no microbatch waits for its backward, the recomputes have used up
\* all that the checkpointed forwards saved: no tensors and no flag are left to
\* be taken for those of a later forward.
THEOREM StashesUsedUp == FifoScript => (Spec => []NothingLeftInStash)
<1> SUFFICES ASSUME FifoScript  PROVE Spec => []NothingLeftInStash
  OBVIOUS
<1>1. RInv => NothingLeftInStash
  <2> SUFFICES ASSUME RInv, mode = "idle", pending = <<>>
               PROVE  firstStash = <<>> /\ \A m \in Modules : stash[m] = <<>>
    BY DEF NothingLeftInStash
  <2>1. Len(pending) = 0 /\ 1..0 = {}
    BY EmptySeq
  <2>2. firstStash = <<>>
    <3>1. Marks = {}
      BY <2>1 DEF Marks, InProgress
    <3>2. Len(firstStash) = 0 /\ firstStash \in Seq(BOOLEAN)
      BY <3>1, FS_EmptySet DEF RInv, Counted, GInv, Structure, Inv, TypeOK
    <3> QED  BY <3>2, EmptySeq
  <2>3. ASSUME NEW m \in Modules  PROVE stash[m] = <<>>
    <3>1. Due(m) = {}
      BY <2>1 DEF Due, Now, Later, InProgress
    <3>2. stash[m] \in Seq(Tensor) /\ Queues(stash[m], Due(m))
      BY DEF RInv, Stashed, GInv, Structure, Inv, TypeOK
    <3>3. Queues(stash[m], {})
      BY <3>1, <3>2
    <3> QED  BY <3>2, <3>3, QueueEmpty
  <2> QED  BY <2>2, <2>3
<1> QED  BY <1>1, InitRInv, RInvStep, PTL DEF Spec

-----------------------------------------------------------------------------
(* Forward amaxes: scripts that open no enabled context in a disabled one,  *)
(* and no context inside a checkpointed callable.                           *)

OuterContexts == ~InnerAutocast /\ ~EnableInDisabled

(***************************************************************************)
(* The invariant.  A forward amax is only there while the outermost        *)
(* context is an enabled one, which reduces it when it closes; outside of  *)
(* forwards, only the recompute of a module shows one, and the tensors put *)
(* back at its end have none.                                              *)
(***************************************************************************)
Held ==
  /\ mode = "checkpoint" => Len(contexts) = region.base
  /\ InForward /\ contexts # <<>> /\ ~contexts[1].own =>
       /\ ~qstate.enabled
       /\ \A i \in 1..Len(contexts) : ~contexts[i].enabled

\* The module that a replay calls.
LEMMA ReplayedModule ==
  ASSUME Inv, NextOp("call")
  PROVE  /\ mode = "replay" /\ region.ops # <<>> /\ region.ops \in Seq(Ops)
         /\ Head(region.ops) \in Ops /\ Head(region.ops).op = "call"
         /\ Head(region.ops).mod \in Modules
         /\ Head(region.ops) \in CallsOf(Head(region.ops).mod)
<1>1. mode = "replay" /\ region.ops # <<>> /\ region.ops \in Seq(Ops) /\ Head(region.ops).op = "call"
  BY DEF NextOp, Inv, TypeOK, Callables
<1>2. Head(region.ops) \in Ops
  BY <1>1
<1>3. Head(region.ops).mod \in Modules
  BY <1>1, <1>2, OpKinds DEF CallOps
<1> QED  BY <1>1, <1>2, <1>3 DEF CallsOf

RowsHeld ==
  \A m \in Modules :
    fwd[m].hist[1] # {} => contexts # <<>> /\ contexts[1].own /\ m \in buffered

RowsEmpty ==
  \A m \in Modules : m # current \/ ~fp8[m] => fwd[m].hist[1] = {}

AsideEmpty ==
  \A m \in Modules : updated[m] # NoTensor => updated[m].hist[1] = {}

Rolled ==
  /\ InForward => RowsHeld
  /\ ~InForward /\ mode \notin {"unwinding", "raised"} => RowsEmpty
  /\ AsideEmpty

FInv == GInv /\ Held /\ Rolled

LEMMA InitFInv == Init => FInv
<1> SUFFICES ASSUME Init  PROVE FInv
  OBVIOUS
<1>1. 1 \in Rows
  BY ScriptAssumption DEF Rows
<1>2. /\ mode = "idle" /\ fwd = [m \in Modules |-> FreshTensor]
      /\ updated = [m \in Modules |-> NoTensor]
  BY DEF Init
<1>3. \A m \in Modules : fwd[m].hist[1] = {} /\ updated[m] = NoTensor
  BY <1>1, <1>2 DEF FreshTensor
<1> QED
  BY <1>2, <1>3, InitGInv DEF FInv, Held, Rolled, RowsHeld, RowsEmpty, AsideEmpty, InForward

\* Opening and closing contexts inside the outermost one.
LEMMA EnterHeld ==
  ASSUME Inv, Held, InForward, InForward', NEW enabled \in BOOLEAN,
         AutocastEnter(qstate, enabled),
         enabled => qstate.enabled \/ contexts = <<>>
  PROVE  /\ contexts' # <<>>
         /\ contexts # <<>> => contexts'[1] = contexts[1]
         /\ ~contexts'[1].own =>
              ~qstate'.enabled /\ \A i \in 1..Len(contexts') : ~contexts'[i].enabled
<1> DEFINE ctx == [own |-> enabled, enabled |-> qstate.enabled, isFirst |-> qstate.isFirst]
           n == Len(contexts)
<1>1. /\ contexts \in Seq(Contexts) /\ n \in Nat /\ (contexts = <<>> <=> n = 0)
      /\ contexts' = Append(contexts, ctx)
      /\ qstate'.enabled = enabled
      /\ contexts = <<>> => ~qstate.enabled
  BY EmptySeq DEF Inv, TypeOK, Contexts, AutocastEnter, Nesting
<1>2. /\ Len(contexts') = n + 1 /\ contexts'[n + 1] = ctx
      /\ \A i \in 1..n : contexts'[i] = contexts[i]
  BY <1>1
<1>3. contexts' # <<>>
  BY <1>1, <1>2, EmptySeq
<1>4. contexts # <<>> => 1 \in 1..n
  BY <1>1
<1>5. \A i \in 1..Len(contexts') : i \in 1..n \/ i = n + 1
  BY <1>1, <1>2
<1>6. ctx.own = enabled /\ ctx.enabled = qstate.enabled
  OBVIOUS
<1> HIDE DEF ctx
<1>7. CASE contexts = <<>>
  BY <1>1, <1>2, <1>3, <1>5, <1>6, <1>7
<1>8. CASE contexts # <<>>
  <2>1. contexts'[1] = contexts[1]
    BY <1>2, <1>4, <1>8
  <2>2. ASSUME ~contexts[1].own
        PROVE  ~qstate'.enabled /\ \A i \in 1..Len(contexts') : ~contexts'[i].enabled
    <3>1. ~qstate.enabled /\ \A i \in 1..n : ~contexts[i].enabled
      BY <1>8, <2>2 DEF Held
    <3> QED  BY <1>1, <1>2, <1>5, <1>6, <1>8, <3>1
  <2> QED  BY <1>3, <2>1, <2>2
<1> QED  BY <1>7, <1>8

LEMMA ExitHeld ==
  ASSUME Inv, Held, InForward, AutocastExit
  PROVE  /\ contexts # <<>> /\ qstate.depth = Len(contexts)
         /\ contexts' = <<>> <=> qstate.depth = 1
         /\ contexts' # <<>> => contexts'[1] = contexts[1]
         /\ contexts' # <<>> /\ ~contexts[1].own =>
              ~qstate'.enabled /\ \A i \in 1..Len(contexts') : ~contexts'[i].enabled
<1> DEFINE n == Len(contexts)
<1>1. /\ contexts \in Seq(Contexts) /\ contexts # <<>> /\ n \in Nat \ {0}
      /\ contexts' = Front(contexts) /\ qstate'.enabled = Last(contexts).enabled
      /\ qstate.depth = n
  BY EmptySeq DEF Inv, TypeOK, Contexts, AutocastExit, Nesting
<1>2. /\ Len(contexts') = n - 1 /\ contexts' \in Seq(Contexts)
      /\ \A i \in 1..n - 1 : contexts'[i] = contexts[i]
  BY <1>1, LastFrontType
<1>3. contexts' = <<>> <=> n = 1
  BY <1>1, <1>2, EmptySeq
<1>4. Last(contexts) = contexts[n] /\ n \in 1..n
  BY <1>1 DEF Last
<1>5. ASSUME contexts' # <<>>  PROVE contexts'[1] = contexts[1]
  <2>1. n # 1
    BY <1>3, <1>5
  <2>2. n \in Nat \ {0}
    BY <1>1
  <2> HIDE DEF n
  <2>3. 1 \in 1..n - 1
    BY <2>1, <2>2
  <2> QED  BY <1>2, <2>3
<1>6. ASSUME ~contexts[1].own
      PROVE  ~qstate'.enabled /\ \A i \in 1..Len(contexts') : ~contexts'[i].enabled
  <2>1. \A i \in 1..n : ~contexts[i].enabled
    BY <1>1, <1>6 DEF Held
  <2>2. \A i \in 1..Len(contexts') : i \in 1..n - 1 /\ i \in 1..n
    BY <1>1, <1>2
  <2> QED  BY <1>1, <1>2, <1>4, <2>1, <2>2
<1> QED  BY <1>1, <1>3, <1>5, <1>6

LEMMA HeldStep ==
  ASSUME OuterContexts, FInv, [Next]_vars
  PROVE  Held'
<1>1. Inv /\ Held /\ (mode \in {"idle", "backward", "reduce"} => contexts = <<>>)
  BY DEF FInv, GInv, Structure, Balanced
<1>2. ~InnerAutocast /\ ~EnableInDisabled
  BY DEF OuterContexts
<1>3. CASE mode' \notin {"forward", "checkpoint"}
  BY <1>3 DEF Held, InForward
<1>4. CASE UNCHANGED <<mode, contexts, qstate, region>>
  BY <1>1, <1>4 DEF Held, InForward
<1>5. CASE StartForward
  BY <1>1, <1>5 DEF StartForward, Held, InForward
<1>6. ASSUME NEW enabled \in Enabled, EnterContext(enabled)  PROVE Held'
  <2>1. /\ mode = "forward" /\ mode' = "forward" /\ AutocastEnter(qstate, enabled)
        /\ enabled => qstate.enabled \/ contexts = <<>>
        /\ enabled \in BOOLEAN
    BY <1>2, <1>6, ScriptAssumption DEF EnterContext, InScript
  <2>2. InForward /\ InForward'
    BY <2>1 DEF InForward
  <2>3. ~contexts'[1].own =>
          ~qstate'.enabled /\ \A i \in 1..Len(contexts') : ~contexts'[i].enabled
    BY <1>1, <2>1, <2>2, EnterHeld
  <2> QED  BY <2>1, <2>3 DEF Held
<1>7. CASE ExitContext
  <2>1. mode # "checkpoint"
    <3>1. region.base \in Nat /\ Len(contexts) \in Nat
      BY <1>1 DEF Inv, TypeOK, Callables
    <3> QED  BY <1>1, <1>7, <3>1 DEF Held, ExitContext
  <2>2. mode = "forward" /\ mode' = "forward" /\ AutocastExit /\ InForward
    BY <1>7, <2>1 DEF ExitContext, InScript, InForward
  <2> QED  BY <1>1, <2>2, ExitHeld DEF Held
<1>8. ASSUME NEW m \in Modules, CallModule(m)  PROVE Held'
  BY <1>4, <1>8 DEF CallModule
<1>9. ASSUME NEW m \in Modules, ReturnFromModule(m)  PROVE Held'
  <2>1. contexts' = contexts /\ mode' = mode /\ InForward
    BY <1>9 DEF ReturnFromModule, InForward
  <2>2. mode = "checkpoint" => region'.base = region.base
    BY <1>1, <1>9, RegionCall
  <2>3. qstate'.enabled = qstate.enabled
    BY <1>1, <1>9 DEF ReturnFromModule, EndForward, Inv, TypeOK
  <2> QED  BY <1>1, <2>1, <2>2, <2>3 DEF Held
<1>10. ASSUME NEW reentrant \in Reentrant, StartCheckpoint(reentrant)  PROVE Held'
  <2>1. /\ mode = "forward" /\ qstate' = qstate /\ contexts' = contexts
        /\ region'.base = Len(contexts)
    BY <1>10 DEF StartCheckpoint, NoRegion
  <2> QED  BY <1>1, <2>1 DEF Held, InForward
<1>11. CASE EndCheckpoint
  BY <1>1, <1>11 DEF EndCheckpoint, Held, InForward
<1> QED
  BY <1>3, <1>4, <1>5, <1>6, <1>7, <1>8, <1>9, <1>10, <1>11
  DEF Next, vars, Finished, EndMicrobatch, StartBackward, BackwardModule,
      ReduceBackward, StartReplay, ReplayEnter, ReplayExit, ReplayCall,
      ReplayReturn, ReplayRaises, Unwind, EndReplay, EndBackward, NextOp
\* Leaving the outermost context in the forward empties the rows.
LEMMA ExitRows ==
  ASSUME FInv, ExitContext, mode = "forward"
  PROVE  RowsHeld'
<1>1. /\ Inv /\ Held /\ RowsHeld /\ InForward /\ AutocastExit
      /\ GradEnabled /\ fwd \in [Modules -> Tensor] /\ buffered' = buffered
  BY DEF FInv, GInv, Structure, Rolled, InForward, ExitContext, GradEnabled, libVars, Inv, TypeOK
<1>2. /\ contexts' = <<>> <=> qstate.depth = 1
      /\ contexts' # <<>> => contexts'[1] = contexts[1]
      /\ qstate.depth = Len(contexts) /\ contexts # <<>>
  BY <1>1, ExitHeld
<1>3. CASE contexts' = <<>>
  <2>1. qstate.depth = 1
    BY <1>2, <1>3
  <2>2. CASE contexts[1].own
    <3>1. Last(contexts) = contexts[1]
      BY <1>2, <2>1 DEF Last
    <3>2. fwd' = Reduced(fwd)
      BY <1>1, <2>1, <2>2, <3>1 DEF AutocastExit
    <3>3. \A m \in Modules : fwd'[m].hist[1] = IF m \in buffered THEN {} ELSE fwd[m].hist[1]
      BY <1>1, <3>2, ReducedRow
    <3>4. \A m \in Modules : fwd'[m].hist[1] = {}
      BY <1>1, <3>3 DEF RowsHeld
    <3> QED  BY <3>4 DEF RowsHeld
  <2>3. CASE ~contexts[1].own
    <3>1. \A m \in Modules : fwd[m].hist[1] = {}
      BY <1>1, <2>3 DEF RowsHeld
    <3>2. \A m \in Modules : fwd'[m].hist[1] = {}
      <4>1. fwd' = Reduced(fwd) \/ fwd' = fwd
        BY <1>1 DEF AutocastExit
      <4> QED  BY <1>1, <3>1, <4>1, ReducedRow
    <3> QED  BY <3>2 DEF RowsHeld
  <2> QED  BY <2>2, <2>3
<1>4. CASE contexts' # <<>>
  <2>1. fwd' = fwd
    BY <1>1, <1>2, <1>4 DEF AutocastExit
  <2> QED  BY <1>1, <1>2, <1>4, <2>1 DEF RowsHeld
<1> QED  BY <1>3, <1>4

\* A module records in a forward only if its context is enabled, and then the
\* outermost one is.
LEMMA ReturnRows ==
  ASSUME FInv, NEW m \in Modules, ReturnFromModule(m)
  PROVE  RowsHeld'
<1>1. /\ Inv /\ Held /\ RowsHeld /\ InForward /\ fwd \in [Modules -> Tensor]
      /\ current = m /\ m # NoModule /\ ~recompute.phase /\ iter \in Iters
      /\ fp8[m] = qstate.enabled /\ fp8[m] \in BOOLEAN
      /\ fp8[m] => m \in buffered
      /\ contexts' = contexts /\ buffered' = buffered
  BY ScriptAssumption
  DEF FInv, GInv, Structure, Rolled, InForward, ReturnFromModule, EndForward, Inv, TypeOK,
      Flow, Flags, Buffered, Running, libVars
<1>2. fwd' = IF fp8[m] THEN [fwd EXCEPT ![m] = Record(@, iter)] ELSE fwd
  BY <1>1 DEF ReturnFromModule, EndForward
<1>3. CASE ~fp8[m]
  BY <1>1, <1>2, <1>3 DEF RowsHeld
<1>4. CASE fp8[m]
  <2>1. contexts # <<>> /\ contexts[1].own /\ m \in buffered
    BY <1>1, <1>4 DEF Held, Inv, Nesting
  <2>2. \A n \in Modules : n # m => fwd'[n].hist[1] = fwd[n].hist[1]
    BY <1>1, <1>2, <1>4, RecordedRow
  <2> QED  BY <1>1, <2>1, <2>2 DEF RowsHeld
<1> QED  BY <1>3, <1>4

\* Contexts opened and closed by a replay leave empty rows empty.
LEMMA ReplayExitRows ==
  ASSUME FInv, AutocastExit, RowsEmpty, current = current', fp8 = fp8'
  PROVE  RowsEmpty'
<1>1. fwd \in [Modules -> Tensor]
  BY DEF FInv, GInv, Structure, Inv, TypeOK
<1>2. fwd' = Reduced(fwd) \/ fwd' = fwd
  BY DEF AutocastExit
<1>3. \A m \in Modules : fwd[m].hist[1] = {} => fwd'[m].hist[1] = {}
  BY <1>1, <1>2, ReducedRow
<1> QED  BY <1>3 DEF RowsEmpty

LEMMA PrepareRows ==
  ASSUME FInv, NEW m \in Modules, PrepareForward(m), RowsEmpty
  PROVE  RowsEmpty' /\ AsideEmpty'
<1>1. /\ fwd \in [Modules -> Tensor] /\ current = NoModule /\ current' = m
      /\ fp8 \in [Modules -> BOOLEAN]
      /\ updated \in [Modules -> Tensor \cup {NoTensor}] /\ AsideEmpty
  BY DEF FInv, GInv, Structure, Inv, TypeOK, PrepareForward, Rolled
<1>2. \A n \in Modules : fwd[n].hist[1] = {}
  BY <1>1, ScriptAssumption DEF RowsEmpty
<1>3. CASE SwitchToStash(m)
  <2>1. /\ updated' = [updated EXCEPT ![m] = fwd[m]] /\ fp8' = fp8 /\ fp8[m]
        /\ fwd' = [fwd EXCEPT ![m] = Head(stash[m])]
    BY <1>3 DEF SwitchToStash
  <2> HIDE <1>3
  <2>2. RowsEmpty'
    BY <1>1, <1>2, <2>1 DEF RowsEmpty
  <2>3. AsideEmpty'
    BY <1>1, <1>2, <2>1 DEF AsideEmpty
  <2> QED  BY <2>2, <2>3
<1>4. CASE InitMetadata(m)
  <2>1. fwd' = fwd /\ updated' = updated
    BY <1>4 DEF InitMetadata
  <2> QED  BY <1>1, <1>2, <2>1 DEF RowsEmpty, AsideEmpty
<1> QED  BY <1>3, <1>4 DEF PrepareForward

LEMMA ReplayReturnRows ==
  ASSUME FInv, ReplayReturn
  PROVE  RowsEmpty'
<1> DEFINE m == Head(region.ops).mod
<1>1. /\ mode = "replay" /\ region.ops # <<>> /\ Head(region.ops).op = "call"
      /\ EndForward(m) /\ fp8' = fp8
      /\ region.ops \in Seq(Ops) /\ recompute.phase
      /\ fwd \in [Modules -> Tensor] /\ AsideEmpty /\ RowsEmpty
  BY DEF ReplayReturn, NextOp, FInv, GInv, Structure, Flow, Inv, TypeOK, Callables, Rolled,
         InForward, libVars
<1>2. Head(region.ops) \in Ops
  BY <1>1
<1>3. m \in Modules
  BY <1>1, <1>2, OpKinds DEF CallOps
<1> HIDE DEF m
<1>4. current = m /\ current' = NoModule
  BY <1>1 DEF EndForward
<1>5. CASE fp8[m]
  <2>1. updated[m] # NoTensor /\ fwd' = [fwd EXCEPT ![m] = updated[m]]
    BY <1>1, <1>5 DEF EndForward
  <2>2. \A n \in Modules : fwd'[n].hist[1] = {}
    BY <1>1, <1>3, <1>4, <2>1 DEF RowsEmpty, AsideEmpty
  <2> QED  BY <2>2 DEF RowsEmpty
<1>6. CASE ~fp8[m]
  <2>1. fwd' = fwd
    BY <1>1, <1>6 DEF EndForward
  <2>2. \A n \in Modules : fwd'[n].hist[1] = {}
    BY <1>1, <1>4, <1>6, <2>1 DEF RowsEmpty
  <2> QED  BY <2>2 DEF RowsEmpty
<1> QED  BY <1>5, <1>6

LEMMA RolledStep ==
  ASSUME OuterContexts, FInv, [Next]_vars
  PROVE  Rolled'
<1>1. /\ Inv /\ Held /\ Flow /\ Rolled
      /\ mode \in {"idle", "backward", "reduce"} => contexts = <<>> /\ current = NoModule
  BY DEF FInv, GInv, Structure, Balanced, Flow
<1>2. ~InnerAutocast /\ ~EnableInDisabled
  BY DEF OuterContexts
<1>3. CASE UNCHANGED <<fwd, updated, current, fp8, contexts, buffered>>
            /\ (InForward <=> InForward') /\ mode \notin {"unwinding", "raised"}
  BY <1>1, <1>3 DEF Rolled, RowsHeld, RowsEmpty, AsideEmpty
<1>4. ASSUME UNCHANGED updated, InForward', RowsHeld'  PROVE Rolled'
  BY <1>1, <1>4 DEF Rolled, AsideEmpty
<1>5. ASSUME UNCHANGED updated, ~InForward', RowsEmpty'  PROVE Rolled'
  BY <1>1, <1>5 DEF Rolled, AsideEmpty
<1>6. CASE StartForward
  <2>1. /\ mode = "idle" /\ fwd' = fwd /\ updated' = updated /\ current = NoModule
        /\ ~InForward /\ InForward'
    BY <1>1, <1>6 DEF StartForward, libVars, InForward
  <2>2. \A m \in Modules : fwd'[m].hist[1] = {}
    BY <1>1, <2>1, ScriptAssumption DEF Rolled, RowsEmpty
  <2> QED  BY <1>4, <2>1, <2>2 DEF RowsHeld
<1>7. ASSUME NEW enabled \in Enabled, EnterContext(enabled)  PROVE Rolled'
  <2>1. /\ mode = "forward" /\ mode' = "forward" /\ AutocastEnter(qstate, enabled)
        /\ enabled => qstate.enabled \/ contexts = <<>>
        /\ enabled \in BOOLEAN
        /\ UNCHANGED <<updated, fwd, buffered>>
    BY <1>2, <1>7, ScriptAssumption DEF EnterContext, InScript, libVars
  <2>2. InForward /\ InForward'
    BY <2>1 DEF InForward
  <2>3. contexts' # <<>> /\ (contexts # <<>> => contexts'[1] = contexts[1])
    BY <1>1, <2>1, <2>2, EnterHeld
  <2>4. RowsHeld'
    BY <1>1, <2>1, <2>2, <2>3 DEF Rolled, RowsHeld
  <2> QED  BY <1>4, <2>1, <2>2, <2>4
<1>8. CASE ExitContext
  <2>1. mode # "checkpoint"
    <3>1. region.base \in Nat /\ Len(contexts) \in Nat
      BY <1>1 DEF Inv, TypeOK, Callables
    <3> QED  BY <1>1, <1>8, <3>1 DEF Held, ExitContext
  <2>2. mode = "forward" /\ InForward' /\ updated' = updated
    BY <1>8, <2>1 DEF ExitContext, InScript, InForward, libVars
  <2> QED  BY <1>4, <1>8, <2>2, ExitRows
<1>9. ASSUME NEW m \in Modules, CallModule(m)  PROVE Rolled'
  <2>1. /\ InForward /\ InForward' /\ PrepareForward(m) /\ contexts' = contexts
        /\ ~recompute.phase
    BY <1>1, <1>9 DEF CallModule, InScript, InForward, Flow
  <2>2. UNCHANGED <<fwd, updated>> /\ buffered \subseteq buffered'
    BY <2>1 DEF PrepareForward, SwitchToStash, InitMetadata
  <2> QED  BY <1>1, <1>4, <2>1, <2>2 DEF Rolled, RowsHeld
<1>10. ASSUME NEW m \in Modules, ReturnFromModule(m)  PROVE Rolled'
  <2>1. updated' = updated /\ InForward'
    BY <1>10 DEF ReturnFromModule, libVars, InForward
  <2> QED  BY <1>4, <1>10, <2>1, ReturnRows
<1>11. ASSUME NEW reentrant \in Reentrant, StartCheckpoint(reentrant)  PROVE Rolled'
  BY <1>3, <1>11 DEF StartCheckpoint, InForward
<1>12. CASE EndCheckpoint
  BY <1>3, <1>12 DEF EndCheckpoint, InForward, libVars
<1>13. ASSUME NEW keep \in BOOLEAN, EndMicrobatch(keep)  PROVE Rolled'
  <2>1. /\ InForward /\ contexts = <<>> /\ ~InForward'
        /\ fwd' = fwd /\ updated' = updated
    BY <1>13 DEF EndMicrobatch, InForward, libVars
  <2>2. \A m \in Modules : fwd'[m].hist[1] = {}
    BY <1>1, <2>1 DEF Rolled, RowsHeld
  <2> QED  BY <1>5, <2>1, <2>2 DEF RowsEmpty
<1>14. ASSUME NEW i \in DOMAIN pending, StartBackward(i)  PROVE Rolled'
  BY <1>3, <1>14 DEF StartBackward, InForward, libVars
<1>15. CASE BackwardModule
  <2>1. mode = "backward" /\ mode' \in {"backward", "reduce"}
    BY <1>15 DEF BackwardModule
  <2> QED  BY <1>3, <1>15, <2>1 DEF BackwardModule, InForward, libVars
<1>16. CASE ReduceBackward
  BY <1>3, <1>16 DEF ReduceBackward, InForward, libVars
<1>17. CASE StartReplay
  <2>1. /\ ~InForward' /\ UNCHANGED <<fwd, updated, current, fp8>>
        /\ ~InForward /\ mode \notin {"unwinding", "raised"}
    BY <1>17 DEF StartReplay, InForward
  <2> QED  BY <1>1, <1>5, <2>1 DEF Rolled, RowsEmpty
<1>18. CASE ReplayEnter
  <2>1. /\ ~InForward' /\ UNCHANGED <<fwd, updated, current, fp8>>
        /\ ~InForward /\ mode \notin {"unwinding", "raised"}
    BY <1>18 DEF ReplayEnter, InForward, NextOp, libVars
  <2> QED  BY <1>1, <1>5, <2>1 DEF Rolled, RowsEmpty
<1>19. CASE ReplayExit
  <2>1. /\ ~InForward' /\ UNCHANGED <<updated, current, fp8>> /\ AutocastExit
        /\ ~InForward /\ mode \notin {"unwinding", "raised"}
    BY <1>19 DEF ReplayExit, InForward, NextOp, libVars
  <2>2. RowsEmpty
    BY <1>1, <2>1 DEF Rolled
  <2> QED  BY <1>5, <2>1, <2>2, ReplayExitRows
<1>20. CASE ReplayCall
  <2>1. /\ mode = "replay" /\ mode' = "replay" /\ region.ops # <<>>
        /\ Head(region.ops).op = "call" /\ PrepareForward(Head(region.ops).mod)
        /\ region.ops \in Seq(Ops)
    BY <1>1, <1>20 DEF ReplayCall, NextOp, Inv, TypeOK, Callables
  <2>2. Head(region.ops).mod \in Modules
    <3>1. Head(region.ops) \in Ops
      BY <2>1
    <3> QED  BY <2>1, <3>1, OpKinds DEF CallOps
  <2>3. RowsEmpty /\ ~InForward'
    BY <1>1, <2>1 DEF Rolled, InForward
  <2>4. RowsEmpty' /\ AsideEmpty'
    BY <2>1, <2>2, <2>3, PrepareRows
  <2> QED  BY <2>3, <2>4 DEF Rolled
<1>21. CASE ReplayReturn
  <2>1. ~InForward' /\ updated' = updated
    BY <1>21 DEF ReplayReturn, NextOp, InForward, libVars
  <2> QED  BY <1>5, <1>21, <2>1, ReplayReturnRows
<1>22. CASE ReplayRaises \/ Unwind
  <2>1. ~InForward' /\ mode' \in {"unwinding", "raised"}
    BY <1>22 DEF ReplayRaises, Unwind, InForward
  <2>2. CASE UNCHANGED updated
    BY <1>1, <2>1, <2>2 DEF Rolled, AsideEmpty
  <2>3. CASE ReplayRaises /\ ~UNCHANGED updated
    <3> DEFINE n == Head(region.ops).mod
    <3>1. /\ NextOp("call") /\ mode = "replay" /\ current = NoModule
          /\ updated' = [updated EXCEPT ![n] = fwd[n]]
      BY <2>3 DEF ReplayRaises, NextOp
    <3>2. n \in Modules /\ n # NoModule
      BY <1>1, <3>1, ReplayedModule, ScriptAssumption
    <3> HIDE DEF n
    <3>3. fwd[n].hist[1] = {}
      BY <1>1, <3>1, <3>2 DEF Rolled, RowsEmpty, InForward
    <3>4. \A m \in Modules : updated'[m] = IF m = n THEN fwd[n] ELSE updated[m]
      BY <1>1, <3>1 DEF Inv, TypeOK
    <3> QED  BY <1>1, <2>1, <3>3, <3>4 DEF Rolled, AsideEmpty
  <2> QED  BY <1>22, <2>2, <2>3 DEF Unwind, libVars
<1>23. CASE EndReplay
  <2>1. /\ ~InForward' /\ UNCHANGED <<updated, current, fp8>> /\ AutocastExit
        /\ ~InForward /\ mode \notin {"unwinding", "raised"}
    BY <1>23 DEF EndReplay, InForward, libVars
  <2>2. RowsEmpty
    BY <1>1, <2>1 DEF Rolled
  <2> QED  BY <1>5, <2>1, <2>2, ReplayExitRows
<1>24. CASE EndBackward
  BY <1>3, <1>24 DEF EndBackward, InForward, libVars
<1>25. CASE UNCHANGED vars
  BY <1>1, <1>25 DEF vars, Rolled, RowsHeld, RowsEmpty, AsideEmpty, InForward
<1> QED
  BY <1>6, <1>7, <1>8, <1>9, <1>10, <1>11, <1>12, <1>13, <1>14, <1>15, <1>16,
     <1>17, <1>18, <1>19, <1>20, <1>21, <1>22, <1>23, <1>24, <1>25
  DEF Next, Finished

\* A script that opens its enabled contexts at the outermost level or inside
\* enabled ones, and none in a checkpointed callable, has every forward amax
\* rolled into the histories when the forward ends (autocast_exit and
\* reduce_and_update_fp8_tensors of quantization.py), recomputes included.
THEOREM ForwardReduced == OuterContexts => (Spec => []ForwardAmaxesRolled)
<1> SUFFICES ASSUME OuterContexts  PROVE Spec => []ForwardAmaxesRolled
  OBVIOUS
<1>1. FInv => ForwardAmaxesRolled
  BY ScriptAssumption
  DEF FInv, GInv, Structure, Flow, Rolled, RowsEmpty, InForward, ForwardAmaxesRolled
<1>2. FInv /\ [Next]_vars => FInv'
  BY GInvStep, HeldStep, RolledStep DEF FInv
<1> QED  BY <1>1, <1>2, InitFInv, PTL DEF Spec

-----------------------------------------------------------------------------
(* Histories: what a microbatch may still record, in every script *)

\* The nodes whose backward records a gradient of m, directly or through what
\* a replay of theirs records.
ModuleNodesOf(m) == {n \in ModuleNodes : n.mod = m}
GradsOf(m) ==
  {n \in Nodes : IF n.kind = "module" THEN n.mod = m
                 ELSE Meets(n.ops, CallsOf(m)) \/ Meets(n.nodes, ModuleNodesOf(m))}

\* A node leads to one backward of a module at most.
SingleNode(n) ==
  n.kind = "checkpoint" =>
    /\ n.reentrant => n.nodes = <<>>
    /\ \A m \in Modules : AtMostOne(n.ops, CallsOf(m)) /\ AtMostOne(n.nodes, ModuleNodesOf(m))
SingleNodes == {n \in Nodes : SingleNode(n)}

\* And so does a graph.
OncePer(s) == \A m \in Modules : AtMostOne(s, GradsOf(m))
SingleBatches == [iter : Iters, nodes : {s \in Seq(SingleNodes) : OncePer(s)}]

\* All that the backward of the pass in progress will run, or has yet to run.
Remaining ==
  CASE mode = "forward"    -> tape
    [] mode = "checkpoint" -> Append(tape, region)
    [] mode = "replay"     -> Append(todo, region) \o tape
    [] OTHER               -> todo

Singles ==
  /\ tape \in Seq(SingleNodes) /\ todo \in Seq(SingleNodes)
  /\ region \in SingleNodes
  /\ pending \in Seq(SingleBatches)
  /\ mode = "replay" /\ ~region.reentrant => tape = <<>>

Once ==
  /\ InProgress => OncePer(Remaining)
  /\ InForward =>
       /\ current # NoModule => current \in called
       /\ \A m \in Modules : Meets(Remaining, GradsOf(m)) => m \in called /\ m # current

\* An observation is in the history; the history is a window of steps.
Seen(t, o) == \E i \in Rows : o \in t.hist[i]
Fine(t) ==
  \A i, j \in Rows :
    i < j => /\ t.hist[i] \cap t.hist[j] = {}
             /\ i > 1 /\ t.hist[i] # {} => t.hist[j] # {}
SoundAt(t, n) == Fine(t) /\ \A o \in Iters : Seen(t, o) => o <= n
Sound(t) == SoundAt(t, started)

ForwardSound == \A m \in Modules : Sound(fwd[m])
BackwardSound == \A m \in Modules : Sound(bwd[m])
AsideSound == \A m \in Modules : updated[m] # NoTensor => Sound(updated[m])
StashSound == \A m \in Modules : \A k \in 1..Len(stash[m]) : Sound(stash[m][k])
Sounds == ForwardSound /\ BackwardSound /\ AsideSound /\ StashSound

\* What is to be recorded has not been recorded.
Fresh ==
  \A m \in Modules :
    /\ InForward /\ (m \notin called \/ m = current) => ~Seen(fwd[m], iter)
    /\ InProgress /\ (InForward \/ Meets(Remaining, GradsOf(m))) => ~Seen(bwd[m], iter)

Waiting ==
  /\ \A p \in 1..Len(pending) :
       /\ pending[p].iter <= started
       /\ InProgress => pending[p].iter # iter
       /\ \A m \in Modules : ~Seen(bwd[m], pending[p].iter)
  /\ \A p, q \in 1..Len(pending) : pending[p].iter = pending[q].iter => p = q
  /\ InProgress => iter <= started
  /\ InForward => iter = started

HInv == GInv /\ Singles /\ Once /\ Sounds /\ Fresh /\ Waiting

-----------------------------------------------------------------------------
(* Sequences *)

LEMMA MeetsJoin ==
  ASSUME NEW S, NEW s \in Seq(S), NEW t \in Seq(S), NEW P
  PROVE  /\ Meets(s \o t, P) <=> Meets(s, P) \/ Meets(t, P)
         /\ AtMostOne(s \o t, P) <=>
              AtMostOne(s, P) /\ AtMostOne(t, P) /\ ~(Meets(s, P) /\ Meets(t, P))
<1> DEFINE c == s \o t
           n == Len(s)
           l == Len(t)
<1>1. /\ n \in Nat /\ l \in Nat /\ Len(c) = n + l
      /\ \A i \in 1..n : c[i] = s[i]
      /\ \A k \in 1..l : c[n + k] = t[k]
  OBVIOUS
<1> HIDE DEF c, n, l
<1>2. \A i \in 1..Len(c) : i \in 1..n \/ \E k \in 1..l : i = n + k
  <2> SUFFICES ASSUME NEW i \in 1..Len(c), i \notin 1..n  PROVE \E k \in 1..l : i = n + k
    OBVIOUS
  <2>1. i - n \in 1..l /\ i = n + (i - n)
    BY <1>1
  <2> QED  BY <2>1
<1>3. /\ \A i \in 1..n : i \in 1..Len(c)
      /\ \A k \in 1..l : n + k \in 1..Len(c) /\ n + k \notin 1..n
      /\ \A k, h \in 1..l : n + k = n + h => k = h
  BY <1>1
<1>4. Meets(c, P) <=> Meets(s, P) \/ Meets(t, P)
  <2>1. Meets(c, P) => Meets(s, P) \/ Meets(t, P)
    BY <1>1, <1>2 DEF Meets, n, l
  <2>2. Meets(s, P) => Meets(c, P)
    BY <1>1, <1>3 DEF Meets, n
  <2>3. Meets(t, P) => Meets(c, P)
    BY <1>1, <1>3 DEF Meets, l
  <2> QED  BY <2>1, <2>2, <2>3
<1>5. ASSUME AtMostOne(c, P)
      PROVE  AtMostOne(s, P) /\ AtMostOne(t, P) /\ ~(Meets(s, P) /\ Meets(t, P))
  <2>1. AtMostOne(s, P)
    BY <1>1, <1>3, <1>5 DEF AtMostOne, n
  <2>2. AtMostOne(t, P)
    BY <1>1, <1>3, <1>5 DEF AtMostOne, l
  <2>3. ~(Meets(s, P) /\ Meets(t, P))
    <3> SUFFICES ASSUME NEW i \in 1..n, s[i] \in P, NEW k \in 1..l, t[k] \in P  PROVE FALSE
      BY DEF Meets, n, l
    <3>1. c[i] \in P /\ c[n + k] \in P /\ i \in 1..Len(c) /\ n + k \in 1..Len(c)
      BY <1>1, <1>3
    <3>2. i = n + k
      BY <1>5, <3>1 DEF AtMostOne
    <3> QED  BY <1>3, <3>2
  <2> QED  BY <2>1, <2>2, <2>3
<1>6. ASSUME AtMostOne(s, P), AtMostOne(t, P), ~(Meets(s, P) /\ Meets(t, P))
      PROVE  AtMostOne(c, P)
  <2> SUFFICES ASSUME NEW i \in 1..Len(c), NEW j \in 1..Len(c), c[i] \in P, c[j] \in P
               PROVE  i = j
    BY DEF AtMostOne
  <2>1. CASE i \in 1..n /\ j \in 1..n
    BY <1>1, <1>6, <2>1 DEF AtMostOne, n
  <2>2. ASSUME NEW k \in 1..l, i = n + k, NEW h \in 1..l, j = n + h  PROVE i = j
    <3>1. t[k] \in P /\ t[h] \in P
      BY <1>1, <2>2
    <3> QED  BY <1>6, <2>2, <3>1 DEF AtMostOne, l
  <2>3. ASSUME NEW k \in 1..l, c[n + k] \in P, NEW h \in 1..n, c[h] \in P  PROVE FALSE
    <3>1. Meets(t, P)
      BY <1>1, <2>3 DEF Meets, l
    <3>2. Meets(s, P)
      BY <1>1, <2>3 DEF Meets, n
    <3> QED  BY <1>6, <3>1, <3>2
  <2> QED  BY <1>2, <2>1, <2>2, <2>3
<1> QED  BY <1>4, <1>5, <1>6 DEF c

LEMMA JoinElements ==
  ASSUME NEW S, NEW s \in Seq(S), NEW t \in Seq(S)
  PROVE  /\ s \o t \in Seq(S) /\ Len(s \o t) = Len(s) + Len(t)
         /\ \A i \in 1..Len(s) : (s \o t)[i] = s[i]
         /\ \A k \in 1..Len(t) : (s \o t)[Len(s) + k] = t[k]
  OBVIOUS

\* The place in s of an element of RemoveAt(s, i).
Kept(p, i) == IF p < i THEN p ELSE p + 1

LEMMA RemoveAtElements ==
  ASSUME NEW S, NEW s \in Seq(S), NEW i \in 1..Len(s)
  PROVE  /\ RemoveAt(s, i) \in Seq(S)
         /\ \A p \in 1..Len(RemoveAt(s, i)) :
              /\ Kept(p, i) \in 1..Len(s) /\ Kept(p, i) # i
              /\ RemoveAt(s, i)[p] = s[Kept(p, i)]
<1> DEFINE n == Len(s)
           a == SubSeq(s, 1, i - 1)
           b == SubSeq(s, i + 1, n)
<1>1. n \in Nat /\ i \in Int /\ 1 <= i /\ i <= n
  OBVIOUS
<1>2. /\ a \in Seq(S) /\ Len(a) = i - 1
      /\ \A p \in 1..i - 1 : a[p] = s[p]
  OBVIOUS
<1>3. /\ b \in Seq(S) /\ Len(b) = n - i
      /\ \A p \in 1..n - i : b[p] = s[p + i]
  OBVIOUS
<1>4. RemoveAt(s, i) = a \o b
  BY DEF RemoveAt
<1> HIDE DEF a, b
<1> DEFINE c == a \o b
<1>5. /\ c \in Seq(S) /\ Len(c) = Len(a) + Len(b)
      /\ \A p \in 1..Len(a) : c[p] = a[p]
      /\ \A p \in 1..Len(b) : c[Len(a) + p] = b[p]
  <2>1. a \in Seq(S) /\ b \in Seq(S)
    BY <1>2, <1>3
  <2> QED  BY ONLY <2>1, JoinElements
<1> HIDE DEF c, n
<1>6. ASSUME NEW p \in 1..Len(c)
      PROVE  /\ Kept(p, i) \in 1..n /\ Kept(p, i) # i
             /\ c[p] = s[Kept(p, i)]
  <2>1. Len(c) = n - 1 /\ p \in Int
    BY <1>1, <1>2, <1>3, <1>5
  <2>2. CASE p < i
    <3>1. p \in 1..Len(a) /\ p \in 1..i - 1 /\ p \in 1..n /\ p # i
      BY <1>1, <1>2, <2>1, <2>2
    <3> QED  BY <1>2, <1>5, <2>2, <3>1 DEF Kept
  <2>3. CASE ~(p < i)
    <3> DEFINE k == p - (i - 1)
    <3>1. /\ k \in 1..n - i /\ Len(a) + k = p /\ k + i = p + 1
          /\ p + 1 \in 1..n /\ p + 1 # i
      BY <1>1, <1>2, <2>1, <2>3
    <3>2. k \in 1..Len(b)
      BY <1>3, <3>1
    <3> HIDE DEF k
    <3>3. c[p] = b[k] /\ b[k] = s[k + i]
      BY <1>3, <1>5, <3>1, <3>2
    <3> QED  BY <2>3, <3>1, <3>3 DEF Kept
  <2> QED  BY <2>2, <2>3
<1> QED  BY <1>4, <1>5, <1>6 DEF c, n

-----------------------------------------------------------------------------
(* Tensors *)

LEMMA RecordSeen ==
  ASSUME NEW t \in Tensor, NEW o \in Iters
  PROVE  /\ \A p : Seen(Record(t, o), p) => Seen(t, p) \/ p = o
         /\ Fine(t) /\ ~Seen(t, o) => Fine(Record(t, o))
<1> DEFINE r == Record(t, o)
<1>1. 1 \in Rows /\ t.hist \in [Rows -> Amax] /\ \A i \in Rows : i \in Nat /\ 1 <= i
  BY ScriptAssumption DEF Rows, Tensor
<1>2. /\ r.hist[1] = t.hist[1] \cup {o}
      /\ \A i \in Rows : i # 1 => r.hist[i] = t.hist[i]
  BY <1>1 DEF Record, Tensor
<1> HIDE DEF r
<1>3. \A p : Seen(r, p) => Seen(t, p) \/ p = o
  BY <1>1, <1>2 DEF Seen
<1>4. ASSUME Fine(t), ~Seen(t, o)  PROVE Fine(r)
  <2> SUFFICES ASSUME NEW i \in Rows, NEW j \in Rows, i < j
               PROVE  /\ r.hist[i] \cap r.hist[j] = {}
                      /\ i > 1 /\ r.hist[i] # {} => r.hist[j] # {}
    BY DEF Fine
  <2>1. /\ t.hist[i] \cap t.hist[j] = {}
        /\ i > 1 /\ t.hist[i] # {} => t.hist[j] # {}
    BY <1>4 DEF Fine
  <2>2. j # 1 /\ (i > 1 => i # 1) /\ (i = 1 \/ i > 1)
    BY <1>1
  <2>3. r.hist[j] = t.hist[j] /\ o \notin t.hist[j]
    BY <1>2, <1>4, <2>2 DEF Seen
  <2>4. CASE i = 1
    BY <1>2, <2>1, <2>2, <2>3, <2>4
  <2>5. CASE i > 1
    BY <1>2, <2>1, <2>2, <2>3, <2>5
  <2> QED  BY <2>2, <2>4, <2>5
<1> QED  BY <1>3, <1>4 DEF r

LEMMA UpdateSeen ==
  ASSUME Fused, NEW t \in Tensor
  PROVE  /\ \A p : Seen(AmaxAndScaleUpdate(t), p) => Seen(t, p)
         /\ Fine(t) => Fine(AmaxAndScaleUpdate(t))
<1> DEFINE u == AmaxAndScaleUpdate(t)
<1>1. CASE t.hist[1] = {}
  BY <1>1 DEF AmaxAndScaleUpdate
<1>2. CASE t.hist[1] # {}
  <2>1. /\ 1 \in Rows /\ HistoryLen \in Rows /\ HistoryLen \in Nat
        /\ \A i \in Rows : i \in Nat /\ 1 <= i /\ i <= HistoryLen
        /\ \A i \in Rows : i # HistoryLen => i + 1 \in Rows
    BY ScriptAssumption DEF Rows
  <2>2. /\ u.hist[1] = {}
        /\ \A i \in Rows : i # 1 => u.hist[i] = IF i = HistoryLen THEN t.hist[1] ELSE t.hist[i + 1]
    BY <1>2, <2>1 DEF AmaxAndScaleUpdate, UpdateAmaxHistory
  <2> HIDE DEF u
  <2>3. \A p : Seen(u, p) => Seen(t, p)
    <3> SUFFICES ASSUME NEW p, NEW i \in Rows, p \in u.hist[i]  PROVE Seen(t, p)
      BY DEF Seen
    <3>1. i # 1
      BY <2>2
    <3>2. p \in IF i = HistoryLen THEN t.hist[1] ELSE t.hist[i + 1]
      BY <2>2, <3>1
    <3> QED  BY <2>1, <3>2 DEF Seen
  <2>4. ASSUME Fine(t)  PROVE Fine(u)
    <3> SUFFICES ASSUME NEW i \in Rows, NEW j \in Rows, i < j
                 PROVE  /\ u.hist[i] \cap u.hist[j] = {}
                        /\ i > 1 /\ u.hist[i] # {} => u.hist[j] # {}
      BY DEF Fine
    <3>1. CASE i = 1
      BY <2>2, <3>1
    <3>2. CASE i # 1
      <4>1. /\ i > 1 /\ j # 1 /\ i # HistoryLen /\ i + 1 \in Rows /\ i + 1 > 1 /\ 1 < i + 1
            /\ j # HistoryLen => j + 1 \in Rows /\ i + 1 < j + 1
        BY <2>1, <3>2
      <4>2. u.hist[i] = t.hist[i + 1]
        BY <2>2, <3>2, <4>1
      <4>3. CASE j = HistoryLen
        <5>1. u.hist[j] = t.hist[1]
          BY <2>2, <4>1, <4>3
        <5>2. t.hist[1] \cap t.hist[i + 1] = {}
          BY <2>1, <2>4, <4>1 DEF Fine
        <5> QED  BY <1>2, <4>2, <5>1, <5>2
      <4>4. CASE j # HistoryLen
        <5>1. u.hist[j] = t.hist[j + 1]
          BY <2>2, <4>1, <4>4
        <5>2. /\ t.hist[i + 1] \cap t.hist[j + 1] = {}
              /\ t.hist[i + 1] # {} => t.hist[j + 1] # {}
          BY <2>4, <4>1, <4>4 DEF Fine
        <5> QED  BY <4>2, <5>1, <5>2
      <4> QED  BY <4>3, <4>4
    <3> QED  BY <3>1, <3>2
  <2> QED  BY <2>3, <2>4 DEF u
<1> QED  BY <1>1, <1>2

\* Reducing some of the tensors.
LEMMA ReducedSeen ==
  ASSUME Fused, NEW ts \in [Modules -> Tensor], NEW m \in Modules
  PROVE  /\ \A p : Seen(Reduced(ts)[m], p) => Seen(ts[m], p)
         /\ Fine(ts[m]) => Fine(Reduced(ts)[m])
  BY UpdateSeen DEF Reduced
-----------------------------------------------------------------------------
(* Nodes *)

\* A node of a module leads to the backward of that module.
LEMMA ModuleGrads ==
  ASSUME NEW n \in ModuleNodes
  PROVE  /\ n \in SingleNodes
         /\ \A m : /\ n \in GradsOf(m) <=> n.mod = m
                   /\ n \in ModuleNodesOf(m) <=> n.mod = m
<1>1. n \in Nodes /\ n.kind = "module"
  BY DEF Nodes, ModuleNodes
<1> QED  BY <1>1 DEF SingleNodes, SingleNode, GradsOf, ModuleNodesOf

LEMMA CallableGrads ==
  ASSUME NEW r \in Callables
  PROVE  /\ r \in Nodes /\ r.ops \in Seq(Ops) /\ r.nodes \in Seq(ModuleNodes)
         /\ \A m : r \in GradsOf(m) <=> Meets(r.ops, CallsOf(m)) \/ Meets(r.nodes, ModuleNodesOf(m))
         /\ r \in SingleNodes <=>
              /\ r.reentrant => r.nodes = <<>>
              /\ \A m \in Modules : AtMostOne(r.ops, CallsOf(m)) /\ AtMostOne(r.nodes, ModuleNodesOf(m))
<1>1. r \in Nodes /\ r.kind = "checkpoint" /\ r.ops \in Seq(Ops) /\ r.nodes \in Seq(ModuleNodes)
  BY DEF Nodes, Callables
<1> QED  BY <1>1 DEF GradsOf, SingleNodes, SingleNode

\* A callable that starts has no node and no call.
LEMMA EmptyGrads ==
  ASSUME NEW r \in Callables, r.ops = <<>>, r.nodes = <<>>
  PROVE  /\ r \in SingleNodes
         /\ \A m : r \notin GradsOf(m)
<1>1. 1..Len(<<>>) = {}
  BY EmptySeq
<1> QED  BY <1>1, CallableGrads DEF Meets, AtMostOne

\* An operation that is no call changes nothing.
LEMMA OpGrads ==
  ASSUME NEW r \in Callables, NEW q \in Callables, NEW op \in Ops, op.op # "call",
         q.ops = Append(r.ops, op), q.nodes = r.nodes, q.reentrant = r.reentrant
  PROVE  /\ r \in SingleNodes => q \in SingleNodes
         /\ \A m : q \in GradsOf(m) <=> r \in GradsOf(m)
<1>1. \A P : /\ Meets(q.ops, P) <=> Meets(r.ops, P) \/ op \in P
             /\ AtMostOne(q.ops, P) <=> AtMostOne(r.ops, P) /\ ~(Meets(r.ops, P) /\ op \in P)
  BY CallableGrads, MeetsAppend
<1>2. \A m : op \notin CallsOf(m)
  BY DEF CallsOf
<1> QED  BY <1>1, <1>2, CallableGrads

\* A call, and the node that goes with it if autograd records the callable.
LEMMA CallGrads ==
  ASSUME NEW r \in Callables, NEW q \in Callables, NEW op \in Ops, NEW n \in ModuleNodes,
         op.op = "call", op.mod = n.mod, r \notin GradsOf(n.mod),
         q.ops = Append(r.ops, op), q.reentrant = r.reentrant,
         q.nodes = r.nodes \/ (~r.reentrant /\ q.nodes = Append(r.nodes, n))
  PROVE  /\ r \in SingleNodes => q \in SingleNodes
         /\ \A m : q \in GradsOf(m) <=> r \in GradsOf(m) \/ n.mod = m
<1>1. \A P : /\ Meets(q.ops, P) <=> Meets(r.ops, P) \/ op \in P
             /\ AtMostOne(q.ops, P) <=> AtMostOne(r.ops, P) /\ ~(Meets(r.ops, P) /\ op \in P)
  BY CallableGrads, MeetsAppend
<1>2. \A m : op \in CallsOf(m) <=> n.mod = m
  BY DEF CallsOf
<1>3. \A m : n \in ModuleNodesOf(m) <=> n.mod = m
  BY ModuleGrads
<1>4. \A m : r \in GradsOf(m) <=> Meets(r.ops, CallsOf(m)) \/ Meets(r.nodes, ModuleNodesOf(m))
  BY CallableGrads
<1>5. CASE q.nodes = r.nodes
  <2>1. \A m : q \in GradsOf(m) <=> r \in GradsOf(m) \/ n.mod = m
    BY <1>1, <1>2, <1>4, <1>5, CallableGrads
  <2>2. ASSUME r \in SingleNodes  PROVE q \in SingleNodes
    BY <1>1, <1>2, <1>4, <1>5, <2>2, CallableGrads
  <2> QED  BY <2>1, <2>2
<1>6. CASE ~r.reentrant /\ q.nodes = Append(r.nodes, n)
  <2>1. \A P : /\ Meets(q.nodes, P) <=> Meets(r.nodes, P) \/ n \in P
               /\ AtMostOne(q.nodes, P) <=> AtMostOne(r.nodes, P) /\ ~(Meets(r.nodes, P) /\ n \in P)
    BY <1>6, CallableGrads, MeetsAppend
  <2>2. \A m : q \in GradsOf(m) <=> r \in GradsOf(m) \/ n.mod = m
    BY <1>1, <1>2, <1>3, <1>4, <2>1, CallableGrads
  <2>3. ASSUME r \in SingleNodes  PROVE q \in SingleNodes
    BY <1>1, <1>2, <1>3, <1>4, <1>6, <2>1, <2>3, CallableGrads
  <2> QED  BY <2>2, <2>3
<1> QED  BY <1>5, <1>6

\* A replay consumes an operation; the call of a module in a callable without
\* nodes is then gone.
LEMMA TailGrads ==
  ASSUME NEW r \in Callables, NEW q \in Callables, r.ops # <<>>,
         q.ops = Tail(r.ops), q.nodes = r.nodes, q.reentrant = r.reentrant, r \in SingleNodes
  PROVE  /\ q \in SingleNodes
         /\ \A m : q \in GradsOf(m) => r \in GradsOf(m)
         /\ \A m \in Modules : Head(r.ops) \in CallsOf(m) =>
              r \in GradsOf(m) /\ (r.reentrant => q \notin GradsOf(m))
<1>1. \A P : /\ Meets(r.ops, P) <=> Head(r.ops) \in P \/ Meets(q.ops, P)
             /\ AtMostOne(r.ops, P) => AtMostOne(q.ops, P) /\ ~(Head(r.ops) \in P /\ Meets(q.ops, P))
  BY CallableGrads, MeetsTail
<1>2. \A m : /\ r \in GradsOf(m) <=> Meets(r.ops, CallsOf(m)) \/ Meets(r.nodes, ModuleNodesOf(m))
             /\ q \in GradsOf(m) <=> Meets(q.ops, CallsOf(m)) \/ Meets(q.nodes, ModuleNodesOf(m))
  BY CallableGrads
<1>3. q \in SingleNodes
  BY <1>1, CallableGrads
<1>4. \A m : q \in GradsOf(m) => r \in GradsOf(m)
  BY <1>1, <1>2
<1>5. ASSUME NEW m \in Modules, Head(r.ops) \in CallsOf(m)
      PROVE  r \in GradsOf(m) /\ (r.reentrant => q \notin GradsOf(m))
  <2>1. ~Meets(q.ops, CallsOf(m))
    BY <1>1, <1>5, CallableGrads
  <2>2. r.reentrant => q.nodes = <<>>
    BY CallableGrads
  <2>3. ~Meets(<<>>, ModuleNodesOf(m))
    BY EmptySeq DEF Meets
  <2> QED  BY <1>1, <1>2, <1>5, <2>1, <2>2, <2>3
<1> QED  BY <1>3, <1>4, <1>5

\* The nodes of a callable lead where the callable does.
LEMMA NodesGrads ==
  ASSUME NEW r \in Callables
  PROVE  /\ r.nodes \in Seq(Nodes) /\ r.nodes \in Seq(SingleNodes)
         /\ \A m : Meets(r.nodes, GradsOf(m)) => r \in GradsOf(m)
         /\ r \in SingleNodes => \A m \in Modules : AtMostOne(r.nodes, GradsOf(m))
<1>1. r.nodes \in Seq(ModuleNodes) /\ ModuleNodes \subseteq Nodes /\ ModuleNodes \subseteq SingleNodes
  BY CallableGrads, ModuleGrads DEF Nodes
<1>2. r.nodes \in Seq(Nodes) /\ r.nodes \in Seq(SingleNodes)
  BY <1>1, SeqSubset
<1>3. \A k \in 1..Len(r.nodes) : r.nodes[k] \in ModuleNodes
  BY <1>1
<1>4. \A m : \A k \in 1..Len(r.nodes) : r.nodes[k] \in GradsOf(m) <=> r.nodes[k] \in ModuleNodesOf(m)
  BY <1>3, ModuleGrads
<1>5. \A m : Meets(r.nodes, GradsOf(m)) <=> Meets(r.nodes, ModuleNodesOf(m))
  BY <1>4 DEF Meets
<1>6. \A m : AtMostOne(r.nodes, GradsOf(m)) <=> AtMostOne(r.nodes, ModuleNodesOf(m))
  BY <1>4 DEF AtMostOne
<1> QED  BY <1>2, <1>5, <1>6, CallableGrads

\* The node a module records.
LEMMA RecordedGrads ==
  ASSUME Inv, NEW m \in Modules
  PROVE  /\ NodeOf(m) \in ModuleNodes /\ NodeOf(m).mod = m
         /\ NodeOf(m) \in Nodes /\ NodeOf(m) \in SingleNodes
         /\ \A n : NodeOf(m) \in GradsOf(n) <=> n = m
<1>1. NodeOf(m) \in ModuleNodes /\ NodeOf(m).mod = m
  BY DEF Inv, TypeOK, NodeOf, ModuleNodes
<1> QED  BY <1>1, ModuleGrads DEF Nodes
-----------------------------------------------------------------------------
(* The callable in progress *)

LEMMA RegionRecords ==
  ASSUME HInv, Inv', InForward, NEW op \in Ops, op.op # "call", region' = Recorded(op)
  PROVE  /\ region' \in SingleNodes
         /\ \A m : region' \in GradsOf(m) <=> region \in GradsOf(m)
         /\ mode = "forward" => region' = region
<1>1. region \in Callables /\ region' \in Callables /\ region \in SingleNodes
  BY DEF HInv, GInv, Structure, Inv, TypeOK, Singles
<1>2. CASE mode = "forward"
  BY <1>1, <1>2 DEF Recorded
<1>3. CASE mode = "checkpoint"
  <2>1. /\ region'.ops = Append(region.ops, op) /\ region'.nodes = region.nodes
        /\ region'.reentrant = region.reentrant
    BY <1>1, <1>3 DEF Recorded, Callables
  <2> QED  BY <1>1, <1>3, <2>1, OpGrads
<1> QED  BY <1>2, <1>3 DEF InForward

LEMMA RegionConsumes ==
  ASSUME HInv, Inv', region.ops # <<>>, Consume
  PROVE  /\ region' \in SingleNodes /\ region'.reentrant = region.reentrant
         /\ \A m : region' \in GradsOf(m) => region \in GradsOf(m)
         /\ \A m \in Modules : Head(region.ops) \in CallsOf(m) =>
              region \in GradsOf(m) /\ (region.reentrant => region' \notin GradsOf(m))
<1>1. region \in Callables /\ region' \in Callables /\ region \in SingleNodes
  BY DEF HInv, GInv, Structure, Inv, TypeOK, Singles
<1>2. /\ region'.ops = Tail(region.ops) /\ region'.nodes = region.nodes
      /\ region'.reentrant = region.reentrant
  BY <1>1 DEF Consume, Callables
<1> QED  BY <1>1, <1>2, TailGrads

LEMMA RegionReturns ==
  ASSUME HInv, Inv', NEW m \in Modules, ReturnFromModule(m), mode = "checkpoint"
  PROVE  /\ region' \in SingleNodes
         /\ \A n : region' \in GradsOf(n) <=> region \in GradsOf(n) \/ n = m
<1> DEFINE op == [op |-> "call", mod |-> m, fp8 |-> fp8[m], scale |-> fwd[m].scale]
<1>1. /\ region \in Callables /\ region' \in Callables /\ region \in SingleNodes
      /\ tape \in Seq(Nodes) /\ Inv /\ TypeOK
  BY DEF HInv, GInv, Structure, Inv, TypeOK, Singles
<1>2. op \in Ops /\ op.op = "call" /\ op.mod = m
  BY <1>1 DEF TypeOK, Ops, CallOps, Tensor
<1>3. region'.ops = Append(region.ops, op)
  BY <1>1 DEF ReturnFromModule, Callables
<1>4. /\ region'.reentrant = region.reentrant
      /\ region'.nodes = IF region.reentrant THEN region.nodes ELSE Append(region.nodes, NodeOf(m))
  BY <1>1, RegionCall
<1> HIDE DEF op
<1>5. region \notin GradsOf(m)
  <2>1. current = m /\ m # NoModule
    BY ScriptAssumption DEF ReturnFromModule, EndForward
  <2>2. ~Meets(Remaining, GradsOf(m))
    BY <2>1 DEF HInv, Once, InForward
  <2>3. Remaining = Append(tape, region) /\ region \in Nodes
    BY <1>1 DEF Remaining, Nodes
  <2> QED  BY <1>1, <2>2, <2>3, MeetsAppend
<1>6. NodeOf(m) \in ModuleNodes /\ NodeOf(m).mod = m
  BY <1>1, RecordedGrads
<1>7. region'.nodes = region.nodes \/ (~region.reentrant /\ region'.nodes = Append(region.nodes, NodeOf(m)))
  BY <1>4
<1>8. /\ region \in SingleNodes => region' \in SingleNodes
      /\ \A n : region' \in GradsOf(n) <=> region \in GradsOf(n) \/ NodeOf(m).mod = n
  <2> DEFINE x == NodeOf(m)
  <2>1. x \in ModuleNodes /\ op.mod = x.mod /\ region \notin GradsOf(x.mod)
    BY <1>2, <1>5, <1>6
  <2>2. region'.nodes = region.nodes \/ (~region.reentrant /\ region'.nodes = Append(region.nodes, x))
    BY <1>7
  <2> HIDE DEF x
  <2>3. /\ region \in SingleNodes => region' \in SingleNodes
        /\ \A n : region' \in GradsOf(n) <=> region \in GradsOf(n) \/ x.mod = n
    <3> DEFINE r == region
               q == region'
    <3>1. /\ r \in Callables /\ q \in Callables /\ op \in Ops /\ x \in ModuleNodes
          /\ op.op = "call" /\ op.mod = x.mod /\ r \notin GradsOf(x.mod)
          /\ q.ops = Append(r.ops, op) /\ q.reentrant = r.reentrant
          /\ q.nodes = r.nodes \/ (~r.reentrant /\ q.nodes = Append(r.nodes, x))
      BY <1>1, <1>2, <1>3, <1>4, <2>1, <2>2
    <3> HIDE DEF r, q
    <3>2. /\ r \in SingleNodes => q \in SingleNodes
          /\ \A n : q \in GradsOf(n) <=> r \in GradsOf(n) \/ x.mod = n
      BY ONLY <3>1, CallGrads
    <3> QED  BY <3>2 DEF r, q
  <2> QED  BY <2>3 DEF x
<1> QED  BY <1>1, <1>6, <1>8

-----------------------------------------------------------------------------
(* Nodes remain single *)

LEMMA SinglesStep ==
  ASSUME HInv, Inv', [Next]_vars
  PROVE  Singles'
<1>1. /\ Inv /\ Flow /\ Singles /\ Once
      /\ tape \in Seq(SingleNodes) /\ todo \in Seq(SingleNodes) /\ region \in SingleNodes
      /\ pending \in Seq(SingleBatches) /\ region \in Callables /\ region' \in Callables
      /\ mode = "replay" /\ ~region.reentrant => tape = <<>>
      /\ mode \in {"idle", "backward", "reduce"} => tape = <<>>
  BY DEF HInv, GInv, Structure, Graphs, Singles, Inv, TypeOK
<1> DEFINE
     Whole == /\ tape' \in Seq(SingleNodes) /\ todo' \in Seq(SingleNodes)
              /\ region' \in SingleNodes /\ pending' \in Seq(SingleBatches)
<1>2. ASSUME Whole, mode' # "replay"  PROVE Singles'
  BY <1>2 DEF Singles
<1>3. CASE UNCHANGED <<tape, todo, region, pending>> /\ (mode' = mode \/ mode' # "replay")
  BY <1>1, <1>3 DEF Singles
<1>4. ASSUME NEW enabled \in Enabled, EnterContext(enabled)  PROVE Singles'
  <2> DEFINE op == [op |-> "enter", enabled |-> enabled]
  <2>1. op \in Ops /\ op.op # "call"
    BY ScriptAssumption DEF Ops, EnterOps
  <2>2. /\ region' = Recorded(op) /\ InForward /\ mode' # "replay"
        /\ UNCHANGED <<tape, todo, pending>>
    BY <1>4 DEF EnterContext, InScript, InForward, scriptVars
  <2> HIDE DEF op
  <2>3. region' \in SingleNodes
    BY <2>1, <2>2, RegionRecords
  <2> QED  BY <1>1, <1>2, <2>2, <2>3
<1>5. CASE ExitContext
  <2> DEFINE op == [op |-> "exit"]
  <2>1. op \in Ops /\ op.op # "call"
    BY DEF Ops, ExitOps
  <2>2. /\ region' = Recorded(op) /\ InForward /\ mode' # "replay"
        /\ UNCHANGED <<tape, todo, pending>>
    BY <1>5 DEF ExitContext, InScript, InForward, scriptVars
  <2> HIDE DEF op
  <2>3. region' \in SingleNodes
    BY <2>1, <2>2, RegionRecords
  <2> QED  BY <1>1, <1>2, <2>2, <2>3
<1>6. ASSUME NEW m \in Modules, ReturnFromModule(m)  PROVE Singles'
  <2>1. mode \in {"forward", "checkpoint"} /\ mode' = mode /\ UNCHANGED <<todo, pending>>
    BY <1>6 DEF ReturnFromModule, scriptVars
  <2>2. CASE mode = "forward"
    <3>1. tape' = Append(tape, NodeOf(m)) /\ region' = region
      BY <1>6, <2>2 DEF ReturnFromModule
    <3>2. tape' \in Seq(SingleNodes)
      BY <1>1, <3>1, RecordedGrads, AppendType
    <3> QED  BY <1>1, <1>2, <2>1, <2>2, <3>1, <3>2
  <2>3. CASE mode = "checkpoint"
    <3>1. tape' = tape
      BY <1>6, <2>3 DEF ReturnFromModule
    <3>2. region' \in SingleNodes
      BY <1>6, <2>3, RegionReturns
    <3> QED  BY <1>1, <1>2, <2>1, <2>3, <3>1, <3>2
  <2> QED  BY <2>1, <2>2, <2>3
<1>7. ASSUME NEW reentrant \in Reentrant, StartCheckpoint(reentrant)  PROVE Singles'
  <2>1. region'.ops = <<>> /\ region'.nodes = <<>> /\ mode' # "replay" /\ UNCHANGED <<tape, todo, pending>>
    BY <1>7 DEF StartCheckpoint, NoRegion, scriptVars
  <2>2. region' \in SingleNodes
    BY <1>1, <2>1, EmptyGrads
  <2> QED  BY <1>1, <1>2, <2>1, <2>2
<1>8. NoRegion \in SingleNodes
  <2>1. NoRegion \in Callables /\ NoRegion.ops = <<>> /\ NoRegion.nodes = <<>>
    BY DEF NoRegion, Callables
  <2> QED  BY <2>1, EmptyGrads
<1>9. CASE EndCheckpoint
  <2>1. tape' = Append(tape, region) /\ region' = NoRegion /\ mode' # "replay" /\ UNCHANGED <<todo, pending>>
    BY <1>9 DEF EndCheckpoint, scriptVars
  <2>2. tape' \in Seq(SingleNodes)
    BY <1>1, <2>1, AppendType
  <2> QED  BY <1>1, <1>2, <1>8, <2>1, <2>2
<1>10. ASSUME NEW keep \in BOOLEAN, EndMicrobatch(keep)  PROVE Singles'
  <2>1. /\ mode = "forward" /\ tape' = <<>> /\ mode' # "replay" /\ UNCHANGED <<todo, region>>
        /\ pending' = IF keep THEN Append(pending, [iter |-> iter, nodes |-> tape]) ELSE pending
    BY <1>10 DEF EndMicrobatch
  <2>2. OncePer(tape) /\ iter \in Iters
    BY <1>1, <2>1 DEF Once, InProgress, Remaining, Inv, Running
  <2>3. [iter |-> iter, nodes |-> tape] \in SingleBatches
    BY <1>1, <2>2 DEF SingleBatches
  <2>4. Append(pending, [iter |-> iter, nodes |-> tape]) \in Seq(SingleBatches)
    BY <1>1, <2>3, AppendType
  <2> QED  BY <1>1, <1>2, <2>1, <2>4
<1>11. ASSUME NEW i \in DOMAIN pending, StartBackward(i)  PROVE Singles'
  <2>1. /\ todo' = pending[i].nodes /\ pending' = RemoveAt(pending, i) /\ mode' # "replay"
        /\ UNCHANGED <<tape, region>>
    BY <1>11 DEF StartBackward
  <2>2. pending[i] \in SingleBatches /\ RemoveAt(pending, i) \in Seq(SingleBatches)
    BY <1>1, RemoveAtType
  <2>3. pending[i].nodes \in Seq(SingleNodes)
    BY <2>2 DEF SingleBatches
  <2> QED  BY <1>1, <1>2, <2>1, <2>2, <2>3
<1>12. CASE BackwardModule
  <2>1. todo # <<>> /\ todo' = Front(todo) /\ mode' # "replay" /\ UNCHANGED <<tape, region, pending>>
    BY <1>12 DEF BackwardModule
  <2>2. todo' \in Seq(SingleNodes)
    BY <1>1, <2>1, FrontAndLast
  <2> QED  BY <1>1, <1>2, <2>1, <2>2
<1>13. CASE StartReplay
  <2>1. /\ mode = "backward" /\ todo # <<>> /\ todo' = Front(todo) /\ region' = Last(todo)
        /\ UNCHANGED <<tape, pending>>
    BY <1>13 DEF StartReplay
  <2>2. todo' \in Seq(SingleNodes) /\ region' \in SingleNodes
    BY <1>1, <2>1, FrontAndLast
  <2> QED  BY <1>1, <2>1, <2>2 DEF Singles
<1>14. ASSUME mode = "replay", mode' = "replay", region.ops # <<>>, Consume,
              UNCHANGED <<todo, pending>>,
              tape' = tape \/ (region.reentrant /\ tape' \in Seq(SingleNodes))
       PROVE  Singles'
  <2>1. region' \in SingleNodes /\ region'.reentrant = region.reentrant
    BY <1>14, RegionConsumes
  <2> QED  BY <1>1, <1>14, <2>1 DEF Singles
<1>15. CASE ReplayEnter
  BY <1>14, <1>15 DEF ReplayEnter, NextOp, scriptVars
<1>16. CASE ReplayExit
  BY <1>14, <1>16 DEF ReplayExit, NextOp, scriptVars
<1>17. CASE ReplayReturn
  <2> DEFINE m == Head(region.ops).mod
  <2>1. /\ NextOp("call") /\ Consume /\ mode' = mode /\ UNCHANGED <<todo, pending>>
        /\ tape' = IF region.reentrant THEN Append(tape, NodeOf(m)) ELSE tape
    BY <1>17 DEF ReplayReturn, scriptVars
  <2>2. m \in Modules /\ mode = "replay" /\ region.ops # <<>>
    BY <1>1, <2>1, ReplayedModule
  <2>3. Append(tape, NodeOf(m)) \in Seq(SingleNodes)
    BY <1>1, <2>2, RecordedGrads, AppendType
  <2> QED  BY <1>14, <2>1, <2>2, <2>3
<1>18. CASE EndReplay
  <2>1. /\ mode' # "replay" /\ tape' = <<>> /\ region' = NoRegion /\ pending' = pending
        /\ todo' = todo \o (IF region.reentrant THEN tape ELSE region.nodes)
    BY <1>18 DEF EndReplay
  <2>2. region.nodes \in Seq(SingleNodes)
    BY <1>1, NodesGrads
  <2>3. (IF region.reentrant THEN tape ELSE region.nodes) \in Seq(SingleNodes)
    BY <1>1, <2>2
  <2>4. todo' \in Seq(SingleNodes)
    BY <1>1, <2>1, <2>3, JoinElements
  <2> QED  BY <1>1, <1>2, <1>8, <2>1, <2>4
<1> QED
  BY <1>3, <1>4, <1>5, <1>6, <1>7, <1>9, <1>10, <1>11, <1>12, <1>13, <1>15, <1>16, <1>17, <1>18
  DEF Next, vars, scriptVars, Finished, StartForward, CallModule, ReduceBackward, ReplayCall,
      ReplayRaises, Unwind, EndBackward, NextOp
-----------------------------------------------------------------------------
(* What remains for the backward *)

\* The graph t leads to no more backwards than s.
Within(t, s) ==
  \A m \in Modules :
    /\ AtMostOne(s, GradsOf(m)) => AtMostOne(t, GradsOf(m))
    /\ Meets(t, GradsOf(m)) => Meets(s, GradsOf(m))

LEMMA MeetsThree ==
  ASSUME NEW S, NEW s \in Seq(S), NEW x \in S, NEW t \in Seq(S), NEW P
  PROVE  /\ Meets(Append(s, x) \o t, P) <=> Meets(s, P) \/ x \in P \/ Meets(t, P)
         /\ AtMostOne(Append(s, x) \o t, P) <=>
              /\ AtMostOne(s, P) /\ AtMostOne(t, P)
              /\ ~(Meets(s, P) /\ x \in P) /\ ~(Meets(s, P) /\ Meets(t, P)) /\ ~(x \in P /\ Meets(t, P))
<1>1. Append(s, x) \in Seq(S)
  BY AppendType
<1>2. /\ Meets(Append(s, x) \o t, P) <=> Meets(Append(s, x), P) \/ Meets(t, P)
      /\ AtMostOne(Append(s, x) \o t, P) <=>
           AtMostOne(Append(s, x), P) /\ AtMostOne(t, P) /\ ~(Meets(Append(s, x), P) /\ Meets(t, P))
  BY <1>1, MeetsJoin
<1>3. /\ Meets(Append(s, x), P) <=> Meets(s, P) \/ x \in P
      /\ AtMostOne(Append(s, x), P) <=> AtMostOne(s, P) /\ ~(Meets(s, P) /\ x \in P)
  BY MeetsAppend
<1> QED  BY <1>2, <1>3

LEMMA MeetsEmpty == \A P : ~Meets(<<>>, P) /\ AtMostOne(<<>>, P)
<1>1. 1..Len(<<>>) = {}
  BY EmptySeq
<1> QED  BY <1>1 DEF Meets, AtMostOne

LEMMA RemainingStep ==
  ASSUME HInv, Inv', [Next]_vars, InProgress, InProgress',
         ~\E m \in Modules : ReturnFromModule(m)
  PROVE  Within(Remaining', Remaining)
<1>1. /\ Inv /\ Flow /\ Singles
      /\ tape \in Seq(Nodes) /\ todo \in Seq(Nodes) /\ region \in Nodes /\ region' \in Nodes
      /\ region \in SingleNodes /\ region \in Callables /\ region' \in Callables
      /\ mode = "replay" /\ ~region.reentrant => tape = <<>>
      /\ mode \in {"idle", "backward", "reduce"} => tape = <<>>
      /\ tape' \in Seq(Nodes) /\ todo' \in Seq(Nodes)
      /\ mode \in Modes
  BY DEF HInv, GInv, Structure, Graphs, Singles, Inv, TypeOK, Nodes
<1>2. ASSUME Remaining' = Remaining  PROVE Within(Remaining', Remaining)
  BY <1>2 DEF Within
<1>3. ASSUME NEW op \in Ops, op.op # "call", InForward, region' = Recorded(op), mode' = mode,
             tape' = tape
      PROVE  Within(Remaining', Remaining)
  <2>1. /\ \A m : region' \in GradsOf(m) <=> region \in GradsOf(m)
        /\ mode = "forward" => region' = region
    BY <1>3, RegionRecords
  <2>2. CASE mode = "forward"
    BY <1>2, <1>3, <2>2 DEF Remaining
  <2>3. CASE mode = "checkpoint"
    <3>1. Remaining = Append(tape, region) /\ Remaining' = Append(tape, region')
      BY <1>3, <2>3 DEF Remaining
    <3> QED  BY <1>1, <2>1, <3>1, MeetsAppend DEF Within
  <2> QED  BY <1>3, <2>2, <2>3 DEF InForward
<1>4. ASSUME NEW enabled \in Enabled, EnterContext(enabled)  PROVE Within(Remaining', Remaining)
  <2> DEFINE op == [op |-> "enter", enabled |-> enabled]
  <2>1. op \in Ops /\ op.op # "call"
    BY ScriptAssumption DEF Ops, EnterOps
  <2>2. region' = Recorded(op) /\ InForward /\ mode' = mode /\ tape' = tape
    BY <1>4 DEF EnterContext, InScript, InForward
  <2> HIDE DEF op
  <2> QED  BY <1>3, <2>1, <2>2
<1>5. CASE ExitContext
  <2> DEFINE op == [op |-> "exit"]
  <2>1. op \in Ops /\ op.op # "call"
    BY DEF Ops, ExitOps
  <2>2. region' = Recorded(op) /\ InForward /\ mode' = mode /\ tape' = tape
    BY <1>5 DEF ExitContext, InScript, InForward
  <2> HIDE DEF op
  <2> QED  BY <1>3, <2>1, <2>2
<1>6. ASSUME NEW reentrant \in Reentrant, StartCheckpoint(reentrant)  PROVE Within(Remaining', Remaining)
  <2>1. /\ region'.ops = <<>> /\ region'.nodes = <<>>
        /\ Remaining = tape /\ Remaining' = Append(tape, region')
    BY <1>6 DEF StartCheckpoint, NoRegion, Remaining
  <2>2. \A m : region' \notin GradsOf(m)
    BY <1>1, <2>1, EmptyGrads
  <2> QED  BY <1>1, <2>1, <2>2, MeetsAppend DEF Within
<1>7. CASE EndCheckpoint
  <2>1. Remaining' = Remaining
    BY <1>7 DEF EndCheckpoint, Remaining
  <2> QED  BY <1>2, <2>1
<1>8. CASE BackwardModule
  <2>1. /\ mode = "backward" /\ todo # <<>> /\ todo' = Front(todo)
        /\ Remaining = todo /\ Remaining' = Front(todo)
    BY <1>8 DEF BackwardModule, Remaining
  <2> DEFINE f == Front(todo)
             l == Last(todo)
  <2>2. f \in Seq(Nodes) /\ l \in Nodes /\ todo = Append(f, l)
    BY <1>1, <2>1, FrontAndLast
  <2>3. Remaining = Append(f, l) /\ Remaining' = f
    BY <2>1, <2>2
  <2> HIDE DEF f, l
  <2> QED  BY <2>2, <2>3, MeetsAppend DEF Within
<1>9. CASE ReduceBackward
  <2>1. Remaining' = Remaining
    BY <1>9 DEF ReduceBackward, Remaining, scriptVars
  <2> QED  BY <1>2, <2>1
<1>10. CASE StartReplay
  <2>1. /\ mode = "backward" /\ todo # <<>> /\ todo' = Front(todo) /\ region' = Last(todo)
        /\ tape' = tape /\ tape = <<>>
        /\ Remaining = todo /\ Remaining' = Append(todo', region') \o tape'
    BY <1>1, <1>10 DEF StartReplay, Remaining
  <2>2. todo = Append(todo', region')
    BY <1>1, <2>1, FrontAndLast
  <2>3. Remaining' = todo
    BY <1>1, <2>1, <2>2
  <2> QED  BY <1>2, <2>1, <2>3
<1>11. ASSUME mode = "replay", mode' = "replay", region.ops # <<>>, Consume, todo' = todo, tape' = tape
       PROVE  Within(Remaining', Remaining)
  <2>1. Remaining = Append(todo, region) \o tape /\ Remaining' = Append(todo, region') \o tape
    BY <1>11 DEF Remaining
  <2>2. \A m : region' \in GradsOf(m) => region \in GradsOf(m)
    BY <1>11, RegionConsumes
  <2> QED  BY <1>1, <2>1, <2>2, MeetsThree DEF Within
<1>12. CASE ReplayEnter
  BY <1>11, <1>12 DEF ReplayEnter, NextOp, scriptVars
<1>13. CASE ReplayExit
  BY <1>11, <1>13 DEF ReplayExit, NextOp, scriptVars
<1>14. CASE ReplayCall
  <2>1. Remaining' = Remaining
    BY <1>14 DEF ReplayCall, NextOp, Remaining, scriptVars
  <2> QED  BY <1>2, <2>1
<1>15. CASE ReplayReturn
  <2> DEFINE m == Head(region.ops).mod
             n == NodeOf(m)
  <2>1. /\ NextOp("call") /\ Consume /\ mode' = mode /\ todo' = todo
        /\ tape' = IF region.reentrant THEN Append(tape, n) ELSE tape
    BY <1>15 DEF ReplayReturn, scriptVars
  <2>2. m \in Modules /\ mode = "replay" /\ region.ops # <<>> /\ Head(region.ops) \in CallsOf(m)
    BY <1>1, <2>1, ReplayedModule
  <2>3. n \in Nodes /\ \A k : n \in GradsOf(k) <=> k = m
    BY <1>1, <2>2, RecordedGrads
  <2>4. /\ \A k : region' \in GradsOf(k) => region \in GradsOf(k)
        /\ region \in GradsOf(m) /\ (region.reentrant => region' \notin GradsOf(m))
    BY <2>1, <2>2, RegionConsumes
  <2>5. CASE ~region.reentrant
    BY <1>11, <2>1, <2>2, <2>5
  <2>6. CASE region.reentrant
    <3>1. Remaining = Append(todo, region) \o tape /\ Remaining' = Append(todo, region') \o tape'
      BY <2>1, <2>2 DEF Remaining
    <3>2. tape' = Append(tape, n)
      BY <2>1, <2>6
    <3> HIDE DEF n, m
    <3>3. \A P : /\ Meets(tape', P) <=> Meets(tape, P) \/ n \in P
                 /\ AtMostOne(tape', P) <=> AtMostOne(tape, P) /\ ~(Meets(tape, P) /\ n \in P)
      BY <1>1, <2>3, <3>2, MeetsAppend
    <3>4. \A P : /\ Meets(Remaining, P) <=> Meets(todo, P) \/ region \in P \/ Meets(tape, P)
                 /\ AtMostOne(Remaining, P) <=>
                      /\ AtMostOne(todo, P) /\ AtMostOne(tape, P)
                      /\ ~(Meets(todo, P) /\ region \in P) /\ ~(Meets(todo, P) /\ Meets(tape, P))
                      /\ ~(region \in P /\ Meets(tape, P))
      BY <1>1, <3>1, MeetsThree
    <3>5. \A P : /\ Meets(Remaining', P) <=> Meets(todo, P) \/ region' \in P \/ Meets(tape', P)
                 /\ AtMostOne(Remaining', P) <=>
                      /\ AtMostOne(todo, P) /\ AtMostOne(tape', P)
                      /\ ~(Meets(todo, P) /\ region' \in P) /\ ~(Meets(todo, P) /\ Meets(tape', P))
                      /\ ~(region' \in P /\ Meets(tape', P))
      BY <1>1, <3>1, MeetsThree
    <3>6. ASSUME NEW k \in Modules
          PROVE  /\ AtMostOne(Remaining, GradsOf(k)) => AtMostOne(Remaining', GradsOf(k))
                 /\ Meets(Remaining', GradsOf(k)) => Meets(Remaining, GradsOf(k))
      <4> DEFINE P == GradsOf(k)
      <4>1. /\ n \in P => region \in P /\ region' \notin P
            /\ region' \in P => region \in P
        BY <2>3, <2>4, <2>6
      <4> HIDE DEF P
      <4>2. /\ AtMostOne(Remaining, P) => AtMostOne(Remaining', P)
            /\ Meets(Remaining', P) => Meets(Remaining, P)
        BY <3>3, <3>4, <3>5, <4>1
      <4> QED  BY <4>2 DEF P
    <3> QED  BY <3>6 DEF Within
  <2> QED  BY <2>5, <2>6
<1>16. CASE EndReplay
  <2> DEFINE new == IF region.reentrant THEN tape ELSE region.nodes
  <2>1. /\ mode = "replay" /\ mode' = "backward" /\ todo' = todo \o new
    BY <1>16 DEF EndReplay
  <2>2. Remaining = Append(todo, region) \o tape /\ Remaining' = todo \o new
    BY <2>1 DEF Remaining
  <2>3. region.nodes \in Seq(Nodes)
    BY <1>1, NodesGrads
  <2>4. new \in Seq(Nodes)
    BY <1>1, <2>3
  <2>5. ASSUME NEW m \in Modules
        PROVE  /\ Meets(new, GradsOf(m)) => region \in GradsOf(m) \/ Meets(tape, GradsOf(m))
               /\ AtMostOne(tape, GradsOf(m)) => AtMostOne(new, GradsOf(m))
    <3>1. CASE region.reentrant
      BY <3>1
    <3>2. CASE ~region.reentrant
      BY <1>1, <3>2, NodesGrads
    <3> QED  BY <3>1, <3>2
  <2> HIDE DEF new
  <2>6. ASSUME NEW m \in Modules
        PROVE  /\ AtMostOne(Remaining, GradsOf(m)) => AtMostOne(Remaining', GradsOf(m))
               /\ Meets(Remaining', GradsOf(m)) => Meets(Remaining, GradsOf(m))
    <3> DEFINE P == GradsOf(m)
    <3>1. /\ Meets(Remaining, P) <=> Meets(todo, P) \/ region \in P \/ Meets(tape, P)
          /\ AtMostOne(Remaining, P) <=>
                /\ AtMostOne(todo, P) /\ AtMostOne(tape, P)
                /\ ~(Meets(todo, P) /\ region \in P) /\ ~(Meets(todo, P) /\ Meets(tape, P))
                /\ ~(region \in P /\ Meets(tape, P))
      BY <1>1, <2>2, MeetsThree
    <3>2. /\ Meets(todo \o new, P) <=> Meets(todo, P) \/ Meets(new, P)
          /\ AtMostOne(todo \o new, P) <=>
               AtMostOne(todo, P) /\ AtMostOne(new, P) /\ ~(Meets(todo, P) /\ Meets(new, P))
      BY <1>1, <2>4, MeetsJoin
    <3>3. /\ Meets(new, P) => region \in P \/ Meets(tape, P)
          /\ AtMostOne(tape, P) => AtMostOne(new, P)
      BY <2>5
    <3> HIDE DEF P
    <3>4. /\ AtMostOne(Remaining, P) => AtMostOne(Remaining', P)
          /\ Meets(Remaining', P) => Meets(Remaining, P)
      BY <2>2, <3>1, <3>2, <3>3
    <3> QED  BY <3>4 DEF P
  <2> QED  BY <2>6 DEF Within
<1>17. ASSUME NEW m \in Modules, CallModule(m)  PROVE Within(Remaining', Remaining)
  <2>1. Remaining' = Remaining
    BY <1>17 DEF CallModule, Remaining
  <2> QED  BY <1>2, <2>1
<1>18. CASE UNCHANGED vars
  BY <1>2, <1>18 DEF vars, Remaining
<1> QED
  BY <1>4, <1>5, <1>6, <1>7, <1>8, <1>9, <1>10, <1>12, <1>13, <1>14, <1>15, <1>16, <1>17, <1>18
  DEF Next, Finished, InProgress, StartForward, EndMicrobatch, StartBackward, ReplayRaises, Unwind, EndBackward
LEMMA ReturnRemains ==
  ASSUME HInv, Inv', NEW m \in Modules, ReturnFromModule(m)
  PROVE  /\ OncePer(Remaining)'
         /\ \A n \in Modules : Meets(Remaining', GradsOf(n)) <=> Meets(Remaining, GradsOf(n)) \/ n = m
<1>1. /\ Inv /\ tape \in Seq(Nodes) /\ region \in Nodes /\ region' \in Nodes
      /\ mode \in {"forward", "checkpoint"} /\ mode' = mode
  BY DEF HInv, GInv, Structure, Inv, TypeOK, Nodes, ReturnFromModule
<1>2. /\ ~Meets(Remaining, GradsOf(m))
      /\ \A n \in Modules : AtMostOne(Remaining, GradsOf(n))
  <2>1. current = m /\ m # NoModule
    BY ScriptAssumption DEF ReturnFromModule, EndForward
  <2> QED  BY <1>1, <2>1 DEF HInv, Once, InForward, InProgress, OncePer
<1>3. ASSUME NEW x \in Nodes, NEW s \in Seq(Nodes), Remaining' = Append(s, x),
             \A n \in Modules :
               /\ Meets(s, GradsOf(n)) \/ x \in GradsOf(n) <=> Meets(Remaining, GradsOf(n)) \/ n = m
               /\ AtMostOne(s, GradsOf(n)) /\ ~(Meets(s, GradsOf(n)) /\ x \in GradsOf(n))
      PROVE  /\ OncePer(Remaining)'
             /\ \A n \in Modules : Meets(Remaining', GradsOf(n)) <=> Meets(Remaining, GradsOf(n)) \/ n = m
  <2>1. ASSUME NEW n \in Modules
        PROVE  /\ AtMostOne(Remaining', GradsOf(n))
               /\ Meets(Remaining', GradsOf(n)) <=> Meets(Remaining, GradsOf(n)) \/ n = m
    BY <1>3, MeetsAppend
  <2>2. OncePer(Remaining')
    BY <2>1 DEF OncePer
  <2>3. OncePer(Remaining)'
    BY <2>2 DEF OncePer
  <2> QED  BY <2>1, <2>3
<1>4. CASE mode = "forward"
  <2> DEFINE x == NodeOf(m)
  <2>1. x \in Nodes /\ \A n : x \in GradsOf(n) <=> n = m
    BY <1>1, RecordedGrads
  <2>2. Remaining = tape /\ Remaining' = Append(tape, x)
    BY <1>1, <1>4 DEF Remaining, ReturnFromModule
  <2> HIDE DEF x
  <2> QED  BY <1>1, <1>2, <1>3, <2>1, <2>2
<1>5. CASE mode = "checkpoint"
  <2>1. \A n : region' \in GradsOf(n) <=> region \in GradsOf(n) \/ n = m
    BY <1>5, RegionReturns
  <2>2. Remaining = Append(tape, region) /\ Remaining' = Append(tape, region')
    BY <1>1, <1>5 DEF Remaining, ReturnFromModule
  <2>3. \A n \in Modules :
          /\ Meets(Remaining, GradsOf(n)) <=> Meets(tape, GradsOf(n)) \/ region \in GradsOf(n)
          /\ AtMostOne(tape, GradsOf(n)) /\ ~(Meets(tape, GradsOf(n)) /\ region \in GradsOf(n))
    BY <1>1, <1>2, <2>2, MeetsAppend
  <2>4. \A n \in Modules :
          /\ Meets(tape, GradsOf(n)) \/ region' \in GradsOf(n) <=> Meets(Remaining, GradsOf(n)) \/ n = m
          /\ AtMostOne(tape, GradsOf(n)) /\ ~(Meets(tape, GradsOf(n)) /\ region' \in GradsOf(n))
    BY <1>2, <2>1, <2>3
  <2> QED  BY <1>1, <1>3, <2>2, <2>4
<1> QED  BY <1>1, <1>4, <1>5

LEMMA OnceStep ==
  ASSUME HInv, Inv', [Next]_vars
  PROVE  Once'
<1>1. /\ Inv /\ Flow /\ Singles /\ Once /\ mode \in Modes
      /\ mode \in {"idle", "backward", "reduce"} => tape = <<>> /\ current = NoModule
      /\ pending \in Seq(SingleBatches)
  BY DEF HInv, GInv, Structure, Graphs, Flow, Singles, Inv, TypeOK
<1>2. CASE StartForward
  <2>1. Remaining' = <<>> /\ InForward' /\ current' = NoModule
    BY <1>1, <1>2 DEF StartForward, Remaining, InForward
  <2>2. /\ OncePer(Remaining')
        /\ \A m \in Modules : ~Meets(Remaining', GradsOf(m))
    BY <2>1, MeetsEmpty DEF OncePer
  <2>3. OncePer(Remaining)' /\ \A m \in Modules : ~Meets(Remaining, GradsOf(m))'
    BY <2>2 DEF OncePer
  <2> QED  BY <2>1, <2>3 DEF Once
<1>3. ASSUME NEW i \in DOMAIN pending, StartBackward(i)  PROVE Once'
  <2>1. Remaining' = pending[i].nodes /\ ~InForward'
    BY <1>3 DEF StartBackward, Remaining, InForward
  <2>2. pending[i] \in SingleBatches
    BY <1>1
  <2>3. OncePer(Remaining')
    BY <2>1, <2>2 DEF SingleBatches
  <2>4. OncePer(Remaining)'
    BY <2>3 DEF OncePer
  <2> QED  BY <2>1, <2>4 DEF Once
<1>4. ASSUME NEW m \in Modules, ReturnFromModule(m)  PROVE Once'
  <2>1. current = m /\ m # NoModule /\ current' = NoModule /\ called' = called /\ InForward
    BY <1>4, ScriptAssumption DEF ReturnFromModule, EndForward, scriptVars, InForward
  <2>2. m \in called
    BY <1>1, <2>1 DEF Once
  <2>3. \A n \in Modules : Meets(Remaining', GradsOf(n)) => n \in called' /\ n # current'
    BY <1>1, <1>4, <2>1, <2>2, ReturnRemains, ScriptAssumption DEF Once
  <2>4. OncePer(Remaining)'
    BY <1>4, ReturnRemains
  <2> QED  BY <2>1, <2>3, <2>4 DEF Once
<1>5. ASSUME ~InProgress'  PROVE Once'
  BY <1>5 DEF Once, InProgress, InForward
<1>6. ASSUME InProgress, InProgress', ~\E m \in Modules : ReturnFromModule(m),
             InForward' => InForward,
             \A m \in Modules : m \in called /\ m # current => m \in called' /\ m # current',
             current' # NoModule => current' \in called'
      PROVE  Once'
  <2>1. Within(Remaining', Remaining)
    BY <1>6, RemainingStep
  <2>2. OncePer(Remaining')
    BY <1>1, <1>6, <2>1 DEF Within, Once, OncePer
  <2>3. OncePer(Remaining)'
    BY <2>2 DEF OncePer
  <2>4. InForward' => \A m \in Modules : Meets(Remaining', GradsOf(m)) => m \in called' /\ m # current'
    BY <1>1, <1>6, <2>1 DEF Within, Once
  <2> QED  BY <1>6, <2>3, <2>4 DEF Once
<1>7. ASSUME InProgress, InProgress', ~\E m \in Modules : ReturnFromModule(m),
             ~InForward'
      PROVE  Once'
  <2>1. Within(Remaining', Remaining)
    BY <1>7, RemainingStep
  <2>2. OncePer(Remaining')
    BY <1>1, <1>7, <2>1 DEF Within, Once, OncePer
  <2>3. OncePer(Remaining)'
    BY <2>2 DEF OncePer
  <2> QED  BY <1>7, <2>3 DEF Once
<1>8. CASE \E m \in Modules : ReturnFromModule(m)
  BY <1>4, <1>8
<1>9. CASE UNCHANGED vars
  BY <1>1, <1>9 DEF vars, Once, InProgress, InForward, Remaining, OncePer
<1>10. ASSUME NEW m \in Modules, CallModule(m), ~\E n \in Modules : ReturnFromModule(n)  PROVE Once'
  <2>1. /\ InForward /\ InForward' /\ InProgress /\ InProgress' /\ Remaining' = Remaining
        /\ called' = called \cup {m} /\ current' = m /\ m \notin called
    BY <1>10 DEF CallModule, InScript, InForward, InProgress, Remaining, MayCall, PrepareForward
  <2>2. \A n \in Modules : Meets(Remaining', GradsOf(n)) => n \in called' /\ n # current'
    BY <1>1, <2>1 DEF Once
  <2>3. OncePer(Remaining')
    BY <1>1, <2>1 DEF Once
  <2>4. OncePer(Remaining)'
    BY <2>3 DEF OncePer
  <2> QED  BY <2>1, <2>2, <2>4 DEF Once
<1>11. ASSUME NEW enabled \in Enabled, EnterContext(enabled), ~\E m \in Modules : ReturnFromModule(m)
       PROVE  Once'
  <2>1. InProgress /\ InProgress' /\ InForward /\ UNCHANGED <<current, called>>
    BY <1>11 DEF EnterContext, InScript, InProgress, InForward, scriptVars
  <2> QED  BY <1>1, <1>6, <1>11, <2>1 DEF Once
<1>12. ASSUME ExitContext, ~\E m \in Modules : ReturnFromModule(m)  PROVE Once'
  <2>1. InProgress /\ InProgress' /\ InForward /\ UNCHANGED <<current, called>>
    BY <1>12 DEF ExitContext, InScript, InProgress, InForward, scriptVars
  <2> QED  BY <1>1, <1>6, <1>12, <2>1 DEF Once
<1>13. ASSUME NEW reentrant \in Reentrant, StartCheckpoint(reentrant), ~\E m \in Modules : ReturnFromModule(m)
       PROVE  Once'
  <2>1. InProgress /\ InProgress' /\ InForward /\ UNCHANGED <<current, called>>
    BY <1>13 DEF StartCheckpoint, InProgress, InForward, scriptVars
  <2> QED  BY <1>1, <1>6, <1>13, <2>1 DEF Once
<1>14. ASSUME EndCheckpoint, ~\E m \in Modules : ReturnFromModule(m)  PROVE Once'
  <2>1. InProgress /\ InProgress' /\ InForward /\ UNCHANGED <<current, called>>
    BY <1>14 DEF EndCheckpoint, InProgress, InForward, scriptVars
  <2> QED  BY <1>1, <1>6, <1>14, <2>1 DEF Once
<1>15. ASSUME NEW keep \in BOOLEAN, EndMicrobatch(keep)  PROVE Once'
  BY <1>5, <1>15 DEF EndMicrobatch, InProgress
<1>16. CASE ReplayRaises \/ Unwind \/ EndBackward
  BY <1>5, <1>16 DEF ReplayRaises, Unwind, EndBackward, InProgress
<1>17. ASSUME BackwardModule \/ ReduceBackward \/ StartReplay \/ ReplayEnter \/ ReplayExit
              \/ ReplayCall \/ ReplayReturn \/ EndReplay,
              ~\E m \in Modules : ReturnFromModule(m)
       PROVE  Once'
  <2>1. InProgress /\ InProgress' /\ ~InForward'
    BY <1>17
    DEF BackwardModule, ReduceBackward, StartReplay, ReplayEnter, ReplayExit, ReplayCall,
        ReplayReturn, EndReplay, NextOp, InProgress, InForward
  <2> QED  BY <1>7, <1>17, <2>1
<1> QED
  BY <1>2, <1>3, <1>8, <1>9, <1>10, <1>11, <1>12, <1>13, <1>14, <1>15, <1>16, <1>17
  DEF Next, Finished
-----------------------------------------------------------------------------
(* What a step does to the tensors *)

LEMMA ForwardChanges ==
  ASSUME HInv, [Next]_vars, ~ReplayRaises, NEW m \in Modules
  PROVE  \/ fwd'[m] = fwd[m]
         \/ fwd'[m] = Reduced(fwd)[m]
         \/ ~InForward /\ stash[m] # <<>> /\ fwd'[m] = Head(stash[m])
         \/ ~InForward /\ updated[m] # NoTensor /\ fwd'[m] = updated[m]
         \/ ReturnFromModule(m) /\ fwd'[m] = Record(fwd[m], iter)
<1>1. /\ fwd \in [Modules -> Tensor]
      /\ InForward => ~recompute.phase
      /\ mode = "replay" => recompute.phase
  BY DEF HInv, GInv, Structure, Inv, TypeOK, Flow, InForward
<1>2. CASE AutocastExit
  BY <1>2 DEF AutocastExit
<1>3. ASSUME NEW n \in Modules, PrepareForward(n), InForward \/ mode = "replay"
      PROVE  fwd'[m] = fwd[m] \/ (~InForward /\ stash[m] # <<>> /\ fwd'[m] = Head(stash[m]))
  BY <1>1, <1>3 DEF PrepareForward, SwitchToStash, InitMetadata
<1>4. ASSUME NEW n \in Modules, ReturnFromModule(n)
      PROVE  fwd'[m] = fwd[m] \/ (ReturnFromModule(m) /\ fwd'[m] = Record(fwd[m], iter))
  <2>1. ~recompute.phase
    BY <1>1, <1>4 DEF ReturnFromModule, InForward
  <2>2. fwd' = IF fp8[n] THEN [fwd EXCEPT ![n] = Record(@, iter)] ELSE fwd
    BY <1>4, <2>1 DEF ReturnFromModule, EndForward
  <2>3. CASE m = n
    BY <1>1, <1>4, <2>2, <2>3
  <2>4. CASE m # n
    BY <1>1, <2>2, <2>4
  <2> QED  BY <2>3, <2>4
<1>5. CASE ReplayReturn
  <2> DEFINE n == Head(region.ops).mod
  <2>1. EndForward(n) /\ recompute.phase /\ ~InForward
    BY <1>1, <1>5 DEF ReplayReturn, NextOp, InForward
  <2> HIDE DEF n
  <2>2. \/ fwd' = fwd
        \/ updated[n] # NoTensor /\ fwd' = [fwd EXCEPT ![n] = updated[n]]
    BY <2>1 DEF EndForward
  <2> QED  BY <1>1, <2>1, <2>2
<1>6. CASE ReplayCall
  <2>1. NextOp("call") /\ PrepareForward(Head(region.ops).mod) /\ mode = "replay"
    BY <1>6 DEF ReplayCall, NextOp
  <2>2. Head(region.ops).mod \in Modules
    BY <2>1, ReplayedModule DEF HInv, GInv, Structure
  <2> QED  BY <1>3, <2>1, <2>2
<1>7. ASSUME NEW n \in Modules, CallModule(n)
      PROVE  fwd'[m] = fwd[m] \/ (~InForward /\ stash[m] # <<>> /\ fwd'[m] = Head(stash[m]))
  <2>1. PrepareForward(n) /\ InForward
    BY <1>7 DEF CallModule, InScript, InForward
  <2> QED  BY <1>3, <2>1
<1> QED
  BY <1>2, <1>4, <1>5, <1>6, <1>7
  DEF Next, vars, Finished, StartForward, EnterContext, ExitContext, StartCheckpoint, EndCheckpoint,
      EndMicrobatch, StartBackward, BackwardModule, ReduceBackward, StartReplay, ReplayEnter,
      ReplayExit, Unwind, EndReplay, EndBackward

LEMMA BackwardChanges ==
  ASSUME HInv, [Next]_vars, NEW m \in Modules
  PROVE  \/ bwd'[m] = bwd[m]
         \/ bwd'[m] = Reduced(bwd)[m]
         \/ /\ BackwardModule /\ todo # <<>> /\ Last(todo) \in GradsOf(m)
            /\ bwd'[m] = Record(bwd[m], iter)
<1>1. bwd \in [Modules -> Tensor] /\ todo \in Seq(Nodes)
  BY DEF HInv, GInv, Structure, Inv, TypeOK
<1>2. CASE BackwardModule
  <2> DEFINE n == Last(todo)
  <2>1. /\ todo # <<>> /\ n.kind = "module"
        /\ bwd' = IF n.fp8 THEN [bwd EXCEPT ![n.mod] = Record(@, iter)] ELSE bwd
    BY <1>2 DEF BackwardModule
  <2>2. n \in Nodes
    BY <1>1, <2>1, FrontAndLast
  <2>3. n \in ModuleNodes /\ (n \in GradsOf(m) <=> n.mod = m)
    BY <2>1, <2>2, NodeKinds DEF GradsOf
  <2> HIDE DEF n
  <2>4. CASE n.mod = m /\ n.fp8
    <3>1. bwd'[m] = Record(bwd[m], iter)
      BY <1>1, <2>1, <2>4
    <3>2. n \in GradsOf(m)
      BY <2>3, <2>4
    <3> QED  BY <1>2, <2>1, <3>1, <3>2 DEF n
  <2>5. CASE ~(n.mod = m /\ n.fp8)
    BY <1>1, <2>1, <2>5
  <2> QED  BY <2>4, <2>5
<1>3. CASE ReduceBackward
  BY <1>3 DEF ReduceBackward
<1> QED
  BY <1>2, <1>3
  DEF Next, vars, Finished, StartForward, EnterContext, ExitContext, CallModule, ReturnFromModule,
      StartCheckpoint, EndCheckpoint, EndMicrobatch, StartBackward, StartReplay, ReplayEnter,
      ReplayExit, ReplayCall, ReplayReturn, ReplayRaises, Unwind, EndReplay, EndBackward

\* A pass in progress: the same microbatch, and a forward remains one.
LEMMA PassGoesOn ==
  ASSUME HInv, [Next]_vars, InProgress, InProgress'
  PROVE  /\ iter' = iter /\ started' = started /\ pending' = pending
         /\ InForward' <=> InForward
         /\ InForward => called \subseteq called'
         /\ InForward => \/ current' = current \/ current' = NoModule
                         \/ current' \notin called
  BY DEF InProgress, InForward, Next, vars, scriptVars, Finished, StartForward, EnterContext, ExitContext,
      InScript, CallModule, MayCall, PrepareForward, ReturnFromModule, EndForward,
      StartCheckpoint, EndCheckpoint, EndMicrobatch, StartBackward, BackwardModule, ReduceBackward,
      StartReplay, ReplayEnter, ReplayExit, ReplayCall, ReplayReturn, ReplayRaises, Unwind, EndReplay,
      EndBackward, NextOp
-----------------------------------------------------------------------------
(* The steps of the invariant *)

LEMMA StartedGrows ==
  ASSUME HInv, Inv', [Next]_vars
  PROVE  /\ started \in Nat /\ started' \in Nat /\ started <= started'
         /\ \A t : SoundAt(t, started) => SoundAt(t, started')
<1>1. /\ Iters \subseteq Nat /\ started \in Nat /\ started' \in Nat
      /\ \A o \in Iters : o \in Nat
  BY ScriptAssumption, SMTT(60) DEF HInv, GInv, Structure, Inv, TypeOK, Iters
<1>2. started' = started \/ started' = started + 1
  BY DEF Next, vars, scriptVars, Finished, StartForward, EnterContext, ExitContext,
      CallModule, ReturnFromModule, StartCheckpoint, EndCheckpoint, EndMicrobatch, StartBackward,
      BackwardModule, ReduceBackward, StartReplay, ReplayEnter, ReplayExit, ReplayCall, ReplayReturn,
      ReplayRaises, Unwind, EndReplay, EndBackward
<1>3. started <= started'
  BY <1>1, <1>2
<1>4. \A o \in Iters : o <= started => o <= started'
  BY <1>1, <1>3
<1> QED  BY <1>1, <1>3, <1>4 DEF SoundAt

LEMMA RecordSound ==
  ASSUME NEW n, NEW t \in Tensor, NEW o \in Iters, SoundAt(t, n), o <= n, ~Seen(t, o)
  PROVE  SoundAt(Record(t, o), n)
  BY RecordSeen DEF SoundAt

LEMMA ReducedSound ==
  ASSUME Fused, NEW n, NEW ts \in [Modules -> Tensor], NEW m \in Modules, SoundAt(ts[m], n)
  PROVE  SoundAt(Reduced(ts)[m], n)
  BY ReducedSeen DEF SoundAt

LEMMA ForwardSoundStep ==
  ASSUME Fused, HInv, Inv', [Next]_vars, ~ReplayRaises
  PROVE  ForwardSound'
<1>1. /\ fwd \in [Modules -> Tensor] /\ bwd \in [Modules -> Tensor]
      /\ stash \in [Modules -> Seq(Tensor)] /\ (InProgress => iter \in Iters)
  BY DEF HInv, GInv, Structure, Inv, TypeOK, Running, InProgress
<1> SUFFICES ASSUME NEW m \in Modules  PROVE SoundAt(fwd'[m], started')
  BY DEF ForwardSound, Sound
<1>2. SoundAt(fwd[m], started)
  BY DEF HInv, Sounds, ForwardSound, Sound
<1>3. SoundAt(fwd'[m], started)
  <2>1. CASE fwd'[m] = Reduced(fwd)[m]
    BY <1>1, <1>2, <2>1, ReducedSound
  <2>2. CASE stash[m] # <<>> /\ fwd'[m] = Head(stash[m])
    <3>1. 1 \in 1..Len(stash[m]) /\ Head(stash[m]) = stash[m][1]
      BY <1>1, <2>2, EmptySeq
    <3> QED  BY <2>2, <3>1 DEF HInv, Sounds, StashSound, Sound
  <2>3. CASE updated[m] # NoTensor /\ fwd'[m] = updated[m]
    BY <2>3 DEF HInv, Sounds, AsideSound, Sound
  <2>4. CASE ReturnFromModule(m) /\ fwd'[m] = Record(fwd[m], iter)
    <3>1. InForward /\ InProgress /\ current = m
      BY <2>4 DEF ReturnFromModule, EndForward, InForward, InProgress
    <3>2. ~Seen(fwd[m], iter) /\ iter <= started
      BY <3>1 DEF HInv, Fresh, Waiting
    <3>3. fwd[m] \in Tensor /\ iter \in Iters
      BY <1>1, <3>1
    <3>4. SoundAt(Record(fwd[m], iter), started)
      BY ONLY <1>2, <3>2, <3>3, RecordSound
    <3> QED  BY <2>4, <3>4
  <2> QED  BY <1>2, <2>1, <2>2, <2>3, <2>4, ForwardChanges
<1> QED  BY <1>3, StartedGrows

LEMMA BackwardSoundStep ==
  ASSUME Fused, HInv, Inv', [Next]_vars
  PROVE  BackwardSound'
<1>1. /\ bwd \in [Modules -> Tensor] /\ (InProgress => iter \in Iters)
      /\ todo \in Seq(Nodes)
  BY DEF HInv, GInv, Structure, Inv, TypeOK, Running, InProgress
<1> SUFFICES ASSUME NEW m \in Modules  PROVE SoundAt(bwd'[m], started')
  BY DEF BackwardSound, Sound
<1>2. SoundAt(bwd[m], started)
  BY DEF HInv, Sounds, BackwardSound, Sound
<1>3. SoundAt(bwd'[m], started)
  <2>1. CASE bwd'[m] = Reduced(bwd)[m]
    <3>1. SoundAt(Reduced(bwd)[m], started)
      BY <1>1, <1>2, ReducedSound
    <3> QED  BY <2>1, <3>1
  <2>2. CASE BackwardModule /\ todo # <<>> /\ Last(todo) \in GradsOf(m) /\ bwd'[m] = Record(bwd[m], iter)
    <3>1. InProgress /\ Remaining = todo
      BY <2>2 DEF BackwardModule, InProgress, Remaining
    <3>2. Len(todo) \in 1..Len(todo) /\ Last(todo) = todo[Len(todo)]
      BY <1>1, <2>2, EmptySeq DEF Last
    <3>3. Meets(Remaining, GradsOf(m))
      BY <2>2, <3>1, <3>2 DEF Meets
    <3>4. ~Seen(bwd[m], iter) /\ iter <= started
      BY <3>1, <3>3 DEF HInv, Fresh, Waiting
    <3>5. bwd[m] \in Tensor /\ iter \in Iters
      BY <1>1, <3>1
    <3>6. SoundAt(Record(bwd[m], iter), started)
      BY ONLY <1>2, <3>4, <3>5, RecordSound
    <3> QED  BY <2>2, <3>6
  <2> QED  BY <1>2, <2>1, <2>2, BackwardChanges
<1> QED  BY <1>3, StartedGrows

\* What a recompute sets aside and what a checkpoint stashes.
LEMMA AsideStashStep ==
  ASSUME HInv, Inv', [Next]_vars, ~ReplayRaises
  PROVE  AsideSound' /\ StashSound'
<1>1. /\ fwd \in [Modules -> Tensor] /\ stash \in [Modules -> Seq(Tensor)]
      /\ updated \in [Modules -> Tensor \cup {NoTensor}]
  BY DEF HInv, GInv, Structure, Inv, TypeOK
<1>2. /\ \A m \in Modules : Sound(fwd[m])
      /\ \A m \in Modules : updated[m] # NoTensor => Sound(updated[m])
      /\ \A m \in Modules : \A k \in 1..Len(stash[m]) : Sound(stash[m][k])
  BY DEF HInv, Sounds, ForwardSound, AsideSound, StashSound
<1>3. ASSUME \A m \in Modules : updated'[m] # NoTensor => Sound(updated'[m]),
             \A m \in Modules : \A k \in 1..Len(stash'[m]) : Sound(stash'[m][k])
      PROVE  AsideSound' /\ StashSound'
  <2>1. \A t : SoundAt(t, started) => SoundAt(t, started')
    BY StartedGrows
  <2> QED  BY <1>3, <2>1 DEF AsideSound, StashSound, Sound
<1>4. CASE UNCHANGED <<updated, stash>>
  BY <1>2, <1>3, <1>4
<1>5. ASSUME NEW n \in Modules, PrepareForward(n)
      PROVE  AsideSound' /\ StashSound'
  <2>1. CASE SwitchToStash(n)
    <3>1. /\ stash[n] # <<>> /\ updated' = [updated EXCEPT ![n] = fwd[n]]
          /\ stash' = [stash EXCEPT ![n] = Tail(@)]
      BY <2>1 DEF SwitchToStash
    <3>2. \A m \in Modules : updated'[m] = IF m = n THEN fwd[m] ELSE updated[m]
      BY <1>1, <3>1
    <3>3. \A m \in Modules : stash'[m] = IF m = n THEN Tail(stash[n]) ELSE stash[m]
      BY <1>1, <3>1
    <3>4. \A k \in 1..Len(Tail(stash[n])) : k + 1 \in 1..Len(stash[n]) /\ Tail(stash[n])[k] = stash[n][k + 1]
      BY <1>1, <3>1, EmptySeq
    <3> QED  BY <1>2, <1>3, <3>2, <3>3, <3>4
  <2>2. CASE InitMetadata(n)
    <3>1. updated' = updated /\ (stash' = stash \/ stash' = [stash EXCEPT ![n] = Append(@, fwd[n])])
      BY <2>2 DEF InitMetadata
    <3>2. CASE stash' = [stash EXCEPT ![n] = Append(@, fwd[n])]
      <4>1. \A m \in Modules : stash'[m] = IF m = n THEN Append(stash[n], fwd[n]) ELSE stash[m]
        BY <1>1, <3>2
      <4>2. \A k \in 1..Len(Append(stash[n], fwd[n])) :
              Append(stash[n], fwd[n])[k] = IF k \in 1..Len(stash[n]) THEN stash[n][k] ELSE fwd[n]
        BY <1>1
      <4> QED  BY <1>2, <1>3, <3>1, <4>1, <4>2
    <3> QED  BY <1>4, <3>1, <3>2
  <2> QED  BY <1>5, <2>1, <2>2 DEF PrepareForward
<1>6. CASE ReplayCall
  <2>1. NextOp("call") /\ PrepareForward(Head(region.ops).mod)
    BY <1>6 DEF ReplayCall
  <2>2. Head(region.ops).mod \in Modules
    BY <2>1, ReplayedModule DEF HInv, GInv, Structure
  <2> QED  BY <1>5, <2>1, <2>2
<1> QED
  BY <1>4, <1>5, <1>6
  DEF Next, vars, libVars, Finished, StartForward, EnterContext, ExitContext,
      CallModule, ReturnFromModule, StartCheckpoint, EndCheckpoint, EndMicrobatch, StartBackward,
      BackwardModule, ReduceBackward, StartReplay, ReplayEnter, ReplayExit, ReplayReturn,
      Unwind, EndReplay, EndBackward

LEMMA FreshStep ==
  ASSUME Fused, HInv, Inv', [Next]_vars
  PROVE  Fresh'
<1>1. /\ fwd \in [Modules -> Tensor] /\ bwd \in [Modules -> Tensor]
      /\ todo \in Seq(Nodes) /\ (InProgress => iter \in Iters)
      /\ Fresh /\ Once /\ started \in Nat /\ \A o \in Iters : o \in Nat
      /\ InProgress' => iter' \in Iters
      /\ pending \in Seq(SingleBatches)
  BY ScriptAssumption, SMTT(60) DEF HInv, GInv, Structure, Inv, TypeOK, Running, InProgress, Singles, Iters
<1>2. CASE ~InProgress'
  BY <1>2 DEF Fresh, InProgress, InForward
<1>3. CASE StartForward
  <2>1. iter' = started + 1 /\ UNCHANGED <<fwd, bwd>> /\ InProgress'
    BY <1>3 DEF StartForward, InProgress
  <2>2. iter' \in Iters /\ ~(iter' <= started)
    BY <1>1, <2>1
  <2>3. \A m \in Modules : ~Seen(fwd'[m], iter') /\ ~Seen(bwd'[m], iter')
    BY <2>1, <2>2 DEF HInv, Sounds, ForwardSound, BackwardSound, Sound, SoundAt
  <2> QED  BY <2>3 DEF Fresh
<1>4. ASSUME NEW i \in DOMAIN pending, StartBackward(i)  PROVE Fresh'
  <2>1. iter' = pending[i].iter /\ bwd' = bwd /\ ~InForward'
    BY <1>4 DEF StartBackward, InForward
  <2>2. i \in 1..Len(pending)
    BY <1>1
  <2>3. \A m \in Modules : ~Seen(bwd'[m], iter')
    BY <2>1, <2>2 DEF HInv, Waiting
  <2> QED  BY <2>1, <2>3 DEF Fresh
<1>5. ASSUME InProgress, InProgress'  PROVE Fresh'
  <2>1. /\ iter' = iter /\ (InForward' <=> InForward) /\ iter \in Iters
        /\ InForward => called \subseteq called'
        /\ InForward => current' = current \/ current' = NoModule \/ current' \notin called
    BY <1>1, <1>5, PassGoesOn
  <2>6. ~ReplayRaises
    BY <1>5 DEF ReplayRaises, InProgress
  <2>2. ASSUME NEW m \in Modules, InForward', m \notin called' \/ m = current'
        PROVE  ~Seen(fwd'[m], iter')
    <3>1. ~Seen(fwd[m], iter)
      <4>1. m \notin called \/ m = current
        BY <2>1, <2>2, ScriptAssumption
      <4> QED  BY <1>1, <2>1, <2>2, <4>1 DEF Fresh
    <3>2. CASE fwd'[m] = Reduced(fwd)[m]
      BY <1>1, <2>1, <3>1, <3>2, ReducedSeen
    <3>3. CASE ReturnFromModule(m)
      <4>1. current = m /\ current' = NoModule /\ called' = called /\ m # NoModule
        BY <3>3, ScriptAssumption DEF ReturnFromModule, EndForward, scriptVars
      <4>2. m \in called
        BY <1>1, <2>1, <2>2, <4>1 DEF Once
      <4> QED  BY <2>2, <4>1, <4>2
    <3> QED  BY <2>1, <2>2, <2>6, <3>1, <3>2, <3>3, ForwardChanges
  <2>3. ASSUME NEW m \in Modules, InForward' \/ Meets(Remaining', GradsOf(m))
        PROVE  ~Seen(bwd'[m], iter')
    <3>1. InForward \/ Meets(Remaining, GradsOf(m))
      <4>1. CASE \E n \in Modules : ReturnFromModule(n)
        BY <4>1 DEF ReturnFromModule, InForward
      <4>2. CASE ~\E n \in Modules : ReturnFromModule(n)
        <5>1. Within(Remaining', Remaining)
          BY <1>5, <4>2, RemainingStep
        <5> QED  BY <2>1, <2>3, <5>1 DEF Within
      <4> QED  BY <4>1, <4>2
    <3>2. ~Seen(bwd[m], iter)
      BY <1>1, <1>5, <3>1 DEF Fresh
    <3>3. CASE bwd'[m] = Reduced(bwd)[m]
      BY <1>1, <2>1, <3>2, <3>3, ReducedSeen
    <3>4. CASE BackwardModule /\ todo # <<>> /\ Last(todo) \in GradsOf(m)
      <4> DEFINE f == Front(todo)
                 l == Last(todo)
      <4>1. Remaining = todo /\ Remaining' = f /\ ~InForward'
        BY <3>4 DEF BackwardModule, Remaining, InForward
      <4>2. f \in Seq(Nodes) /\ l \in Nodes /\ todo = Append(f, l) /\ l \in GradsOf(m)
        <5>1. todo # <<>> /\ todo \in Seq(Nodes) /\ l \in GradsOf(m)
          BY <1>1, <3>4
        <5>2. Front(todo) \in Seq(Nodes) /\ Last(todo) \in Nodes /\ todo = Append(Front(todo), Last(todo))
          BY ONLY <5>1, FrontAndLast
        <5> QED  BY <5>1, <5>2
      <4>3. AtMostOne(todo, GradsOf(m))
        BY <1>1, <1>5, <4>1 DEF Once, OncePer
      <4> HIDE DEF f, l
      <4>4. ~Meets(f, GradsOf(m))
        BY <4>2, <4>3, MeetsAppend
      <4> QED  BY <2>3, <4>1, <4>4
    <3> QED  BY <2>1, <3>2, <3>3, <3>4, BackwardChanges
  <2>4. \A m \in Modules : InForward' /\ (m \notin called' \/ m = current') => ~Seen(fwd'[m], iter')
    BY <2>2
  <2>5. \A m \in Modules : InForward' \/ Meets(Remaining', GradsOf(m)) => ~Seen(bwd'[m], iter')
    BY <2>3
  <2> QED  BY <2>4, <2>5 DEF Fresh
<1>6. InProgress \/ ~InProgress' \/ StartForward \/ \E i \in DOMAIN pending : StartBackward(i)
  BY DEF InProgress, Next, vars, scriptVars, Finished, EnterContext, ExitContext,
      InScript, CallModule, ReturnFromModule,
      StartCheckpoint, EndCheckpoint, EndMicrobatch, BackwardModule, ReduceBackward,
      StartReplay, ReplayEnter, ReplayExit, ReplayCall, ReplayReturn, ReplayRaises, Unwind, EndReplay,
      EndBackward, NextOp
<1> QED  BY <1>2, <1>3, <1>4, <1>5, <1>6

LEMMA WaitingStep ==
  ASSUME Fused, HInv, Inv', [Next]_vars
  PROVE  Waiting'
<1>1. /\ bwd \in [Modules -> Tensor] /\ pending \in Seq(SingleBatches)
      /\ Waiting /\ Fresh /\ mode \in Modes
      /\ (InProgress => iter \in Iters)
  BY DEF HInv, GInv, Structure, Inv, TypeOK, Running, InProgress, Singles
<1>2. \A p \in 1..Len(pending) : pending[p].iter \in Iters /\ pending[p].iter \in Nat
  <2>1. \A p \in 1..Len(pending) : pending[p] \in SingleBatches
    BY <1>1
  <2>2. \A o \in Iters : o \in Nat
    BY ScriptAssumption DEF Iters
  <2> QED  BY <2>1, <2>2 DEF SingleBatches
<1>3. started \in Nat /\ started' \in Nat /\ started <= started'
  BY StartedGrows
<1>4. ASSUME pending' = pending, ~InProgress', bwd' = bwd
      PROVE  Waiting'
  <2>1. \A p \in 1..Len(pending) : pending[p].iter <= started'
    BY <1>1, <1>2, <1>3 DEF Waiting
  <2> QED  BY <1>1, <1>4, <2>1 DEF Waiting, InProgress, InForward
<1>5. ASSUME InProgress, InProgress'  PROVE Waiting'
  <2>1. /\ iter' = iter /\ started' = started /\ pending' = pending
        /\ InForward' <=> InForward
    BY <1>5, PassGoesOn
  <2>2. ASSUME NEW m \in Modules, NEW p \in 1..Len(pending)
        PROVE  ~Seen(bwd'[m], pending[p].iter)
    <3>1. pending[p].iter # iter /\ ~Seen(bwd[m], pending[p].iter)
      BY <1>1, <1>5 DEF Waiting
    <3>2. CASE bwd'[m] = Reduced(bwd)[m]
      BY <1>1, <3>1, <3>2, ReducedSeen
    <3>3. CASE bwd'[m] = Record(bwd[m], iter)
      <4>1. bwd[m] \in Tensor /\ iter \in Iters
        BY <1>1, <1>5
      <4> QED  BY <3>1, <3>3, <4>1, RecordSeen
    <3> QED  BY <3>1, <3>2, <3>3, BackwardChanges
  <2> QED  BY <1>1, <1>5, <2>1, <2>2 DEF Waiting
<1>6. ASSUME NEW keep \in BOOLEAN, EndMicrobatch(keep)  PROVE Waiting'
  <2> DEFINE b == [iter |-> iter, nodes |-> tape]
             n == Len(pending)
  <2>1. /\ InForward /\ InProgress /\ ~InProgress' /\ bwd' = bwd /\ started' = started
        /\ pending' = pending \/ pending' = Append(pending, b)
    BY <1>6 DEF EndMicrobatch, InForward, InProgress
  <2>2. CASE pending' = pending
    BY <1>4, <2>1, <2>2
  <2>3. CASE pending' = Append(pending, b)
    <3>1. /\ n \in Nat /\ Len(pending') = n + 1 /\ pending'[n + 1].iter = iter
          /\ \A p \in 1..n : pending'[p] = pending[p]
      BY <1>1, <2>3
    <3> HIDE DEF b
    <3>2. \A p \in 1..Len(pending') : p \in 1..n \/ p = n + 1
      BY <3>1
    <3>3. /\ iter <= started /\ iter = started
          /\ \A m \in Modules : ~Seen(bwd[m], iter)
      BY <1>1, <2>1 DEF Waiting, Fresh
    <3>4. \A p \in 1..n :
            /\ pending[p].iter <= started /\ pending[p].iter # iter
            /\ \A m \in Modules : ~Seen(bwd[m], pending[p].iter)
      BY <1>1, <2>1 DEF Waiting
    <3>5. \A p, q \in 1..n : pending[p].iter = pending[q].iter => p = q
      BY <1>1 DEF Waiting
    <3> HIDE DEF n
    <3>6. \A p \in 1..Len(pending') :
            /\ pending'[p].iter <= started'
            /\ \A m \in Modules : ~Seen(bwd'[m], pending'[p].iter)
      BY <2>1, <3>1, <3>2, <3>3, <3>4
    <3>7. \A p, q \in 1..Len(pending') : pending'[p].iter = pending'[q].iter => p = q
      BY <3>1, <3>2, <3>4, <3>5
    <3> QED  BY <2>1, <3>6, <3>7 DEF Waiting, InProgress, InForward
  <2> QED  BY <2>1, <2>2, <2>3
<1>7. CASE StartForward
  <2>1. /\ started' = started + 1 /\ iter' = started + 1 /\ bwd' = bwd /\ pending' = pending
    BY <1>7 DEF StartForward
  <2>2. \A p \in 1..Len(pending) : pending[p].iter <= started' /\ pending[p].iter # iter'
    <3>1. \A p \in 1..Len(pending) : pending[p].iter <= started
      BY <1>1 DEF Waiting
    <3> QED  BY <1>2, <1>3, <2>1, <3>1
  <2>3. iter' <= started' /\ iter' = started'
    BY <1>3, <2>1
  <2> QED  BY <1>1, <2>1, <2>2, <2>3 DEF Waiting
<1>8. ASSUME NEW i \in DOMAIN pending, StartBackward(i)  PROVE Waiting'
  <2>1. /\ iter' = pending[i].iter /\ pending' = RemoveAt(pending, i) /\ bwd' = bwd
        /\ started' = started /\ ~InForward'
    BY <1>8 DEF StartBackward, InForward
  <2>2. i \in 1..Len(pending)
    BY <1>1
  <2>3. \A p \in 1..Len(pending') :
          /\ Kept(p, i) \in 1..Len(pending) /\ Kept(p, i) # i
          /\ pending'[p] = pending[Kept(p, i)]
    BY <1>1, <2>1, <2>2, RemoveAtElements
  <2>4. \A p, q \in 1..Len(pending') : Kept(p, i) = Kept(q, i) => p = q
    <3>1. i \in Int /\ \A p \in 1..Len(pending') : p \in Int
      BY <1>1, <2>2
    <3> QED  BY <3>1 DEF Kept
  <2>5. /\ \A p \in 1..Len(pending) :
             /\ pending[p].iter <= started
             /\ \A m \in Modules : ~Seen(bwd[m], pending[p].iter)
        /\ \A p, q \in 1..Len(pending) : pending[p].iter = pending[q].iter => p = q
    BY <1>1 DEF Waiting
  <2>6. \A p \in 1..Len(pending') :
          /\ pending'[p].iter <= started' /\ pending'[p].iter # iter'
          /\ \A m \in Modules : ~Seen(bwd'[m], pending'[p].iter)
    BY <2>1, <2>2, <2>3, <2>5
  <2>7. \A p, q \in 1..Len(pending') : pending'[p].iter = pending'[q].iter => p = q
    BY <2>3, <2>4, <2>5
  <2>8. iter' <= started'
    BY <2>1, <2>2, <2>5
  <2> QED  BY <2>1, <2>6, <2>7, <2>8 DEF Waiting
<1>9. CASE UNCHANGED vars
  BY <1>1, <1>9 DEF vars, Waiting, InProgress, InForward
<1>10. CASE ReplayRaises \/ Unwind \/ EndBackward
  BY <1>4, <1>10 DEF ReplayRaises, Unwind, EndBackward, scriptVars, InProgress
<1>11. \/ InProgress /\ InProgress'
       \/ UNCHANGED vars \/ StartForward \/ ReplayRaises \/ Unwind \/ EndBackward
       \/ \E i \in DOMAIN pending : StartBackward(i)
       \/ \E keep \in BOOLEAN : EndMicrobatch(keep)
  BY DEF InProgress, Next, vars, scriptVars, Finished, EnterContext, ExitContext,
      InScript, CallModule, ReturnFromModule,
      StartCheckpoint, EndCheckpoint, BackwardModule, ReduceBackward,
      StartReplay, ReplayEnter, ReplayExit, ReplayCall, ReplayReturn, EndReplay, NextOp
<1> QED  BY <1>5, <1>6, <1>7, <1>8, <1>9, <1>10, <1>11

LEMMA InitHInv == Init => HInv
<1> SUFFICES ASSUME Init  PROVE HInv
  OBVIOUS
<1>1. GInv
  BY InitGInv
<1>2. /\ mode = "idle" /\ tape = <<>> /\ todo = <<>> /\ pending = <<>>
      /\ region = NoRegion /\ started = 0
      /\ fwd = [m \in Modules |-> FreshTensor] /\ bwd = [m \in Modules |-> FreshTensor]
      /\ stash = [m \in Modules |-> <<>>] /\ updated = [m \in Modules |-> NoTensor]
  BY DEF Init
<1>3. Len(<<>>) = 0 /\ 1..0 = {} /\ \A S : <<>> \in Seq(S)
  BY EmptySeq
<1>4. Singles
  <2>1. NoRegion \in Callables /\ NoRegion.ops = <<>> /\ NoRegion.nodes = <<>>
    BY DEF NoRegion, Callables
  <2>2. NoRegion \in SingleNodes
    BY <2>1, EmptyGrads
  <2> QED  BY <1>2, <1>3, <2>2 DEF Singles
<1>5. SoundAt(FreshTensor, 0)
  BY DEF SoundAt, Fine, Seen, FreshTensor
<1>6. Sounds
  BY <1>2, <1>3, <1>5 DEF Sounds, ForwardSound, BackwardSound, AsideSound, StashSound, Sound
<1>7. Once /\ Fresh
  BY <1>2 DEF Once, Fresh, InProgress, InForward
<1>8. Waiting
  BY <1>2, <1>3 DEF Waiting, InProgress, InForward
<1> QED  BY <1>1, <1>4, <1>6, <1>7, <1>8 DEF HInv

LEMMA HInvStep == Fused /\ HInv /\ [Next]_vars /\ ~ReplayRaises => HInv'
<1> SUFFICES ASSUME Fused, HInv, [Next]_vars, ~ReplayRaises  PROVE HInv'
  OBVIOUS
<1>1. GInv'
  BY GInvStep DEF HInv
<1>2. Inv'
  BY <1>1 DEF GInv, Structure
<1>3. Sounds'
  BY <1>2, ForwardSoundStep, BackwardSoundStep, AsideStashStep DEF Sounds
<1> QED  BY <1>1, <1>2, <1>3, SinglesStep, OnceStep, FreshStep, WaitingStep DEF HInv

\* A recompute that raises after quantizing has put its amaxes into the rows a
\* second time; until then the histories are those of HInv.
IntactInv == GInv /\ (mode \notin {"unwinding", "raised"} => HInv)

LEMMA IntactStep == Fused /\ IntactInv /\ [Next]_vars => IntactInv'
<1> SUFFICES ASSUME Fused, IntactInv, [Next]_vars  PROVE IntactInv'
  OBVIOUS
<1>1. GInv'
  BY GInvStep DEF IntactInv
<1>2. CASE mode' \in {"unwinding", "raised"}
  BY <1>1, <1>2 DEF IntactInv
<1>3. CASE mode' \notin {"unwinding", "raised"}
  <2>1. ~ReplayRaises
    BY <1>3 DEF ReplayRaises
  <2>2. mode \notin {"unwinding", "raised"}
    BY <1>3
    DEF Next, vars, scriptVars, Finished, StartForward, EnterContext, ExitContext,
        InScript, CallModule, ReturnFromModule, StartCheckpoint, EndCheckpoint,
        EndMicrobatch, StartBackward, BackwardModule, ReduceBackward, StartReplay,
        ReplayEnter, ReplayExit, ReplayCall, ReplayReturn, ReplayRaises, Unwind,
        EndReplay, EndBackward, NextOp
  <2> QED  BY <1>1, <2>1, <2>2, HInvStep DEF IntactInv
<1> QED  BY <1>2, <1>3

\* With the fused update, in every script, each history is that of the last
\* steps until a recompute raises: no empty row comes between two amaxes and no
\* amax is in two rows (the roll of delayed_scaling.cu, one reduction per step,
\* and the tensors that a recompute goes back to and puts back).
THEOREM HistoriesAreWindows == Fused => (Spec => []HistoryIsWindow)
<1> SUFFICES ASSUME Fused  PROVE Spec => []HistoryIsWindow
  OBVIOUS
<1>1. IntactInv => HistoryIsWindow
  BY DEF IntactInv, HInv, Sounds, ForwardSound, BackwardSound, Sound, SoundAt, Fine, HistoryIsWindow
<1>2. Init => IntactInv
  BY InitHInv DEF IntactInv, HInv
<1> QED  BY <1>1, <1>2, IntactStep, PTL DEF Spec
=============================================================================
