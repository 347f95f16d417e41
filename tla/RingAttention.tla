---------------------------- MODULE RingAttention ----------------------------
(***************************************************************************)
(* Context-parallel attention over a ring of ranks (AttnFuncWithCPAndKVP2P *)
(* of context_parallel.py).  The sequence is cut into 2 * CpSize chunks;   *)
(* rank r keeps the queries of chunks r and 2 * CpSize - 1 - r.  Keys and  *)
(* values go round the ring, rank to rank + 1 in the forward and back in   *)
(* the backward, where their gradients travel with them.                   *)
(*                                                                         *)
(* A tensor is the set of the chunks that have contributed to it: an       *)
(* attention output of the key chunks it attended to, a gradient of the    *)
(* chunks on the other side.  What is added twice, or to memory nobody has *)
(* written, leaves a mark that no later addition removes.                  *)
(***************************************************************************)
EXTENDS Integers, FiniteSets, Sequences, SequencesExt

CONSTANTS
  CpSize,      \* ranks in the group
  CausalMasks, \* whether the mask is causal: a subset of BOOLEAN
  BatchComm,   \* values of batch_p2p_comm
  Precisions   \* subset of {"f16", "delayed", "current"}: the backward's precision

ASSUME RingAssumption ==
  /\ CpSize \in Nat \ {0, 1}
  /\ CausalMasks \subseteq BOOLEAN /\ BatchComm \subseteq BOOLEAN
  /\ Precisions \subseteq {"f16", "delayed", "current"}

Ranks == 0..CpSize - 1
Steps == 0..CpSize - 1
Halves == {0, 1}
Streams == {0, 1}
Twice == -1  \* marks a sum some chunk has been added to twice
Uninit == -2 \* memory nobody has written, and what is computed from it

\* The chunk in half h of slice r; nothing useful where no slice has been written.
Chunk(r, h) == IF h = 0 THEN r ELSE 2 * CpSize - 1 - r
ChunksOf(slice, hs) == IF slice = Uninit THEN {Uninit} ELSE {Chunk(slice, h) : h \in hs}
Chunks == 0..2 * CpSize - 1
Tensors == [Halves -> SUBSET (Chunks \cup {Twice, Uninit})]

Zero == [h \in Halves |-> {}]
Unset == [h \in Halves |-> {Uninit}]
Plus(a, b) == a \cup b \cup (IF a \cap b = {} THEN {} ELSE {Twice})
SlotSum(f) == [h \in Halves |-> FoldFunction(LAMBDA t, acc : Plus(t[h], acc), {}, f)]

\* x.copy_, x.add_ and neither, per half (thd_grad_correction of the THD format).
Correct(x, y, how) ==
  [h \in Halves |-> CASE how[h] = "copy" -> y[h]
                      [] how[h] = "add" -> Plus(x[h], y[h])
                      [] how[h] = "none" -> x[h]]
Copy == <<"copy", "copy">>
Add == <<"add", "add">>
PerHalf(pair) == [h \in Halves |-> pair[h + 1]]

VARIABLES
  causal, batchComm, precision, \* arguments and environment of the call
  at,        \* forward: the step and the operation each of the two streams is at
  posted,    \* forward: exchanges posted by each rank
  kv,        \* forward: the slice in each of p2p_comm_buffers, or Uninit
  part,      \* forward: out_per_step and softmax_lse_per_step
  corrected, \* forward: steps merged into softmax_lse (fwd_results_correction_done)
  lse, out,  \* forward: softmax_lse and out, per half
  back,      \* backward: the step and the operation each rank is at
  buf,       \* backward: the two p2p_comm_buffers, a slice and its gradient each
  tile,      \* backward: dk_ and dv_, the gradients of the step
  dq, dkv,   \* backward: dq_buffer, and the FP8 dkv_recv_buffer or dkv_buffer: slots
  sendBuf,   \* FP8 backward: dkv_send_buffer
  grad,      \* the gradients the backward returns
  comm       \* the communications each rank has in flight or waiting, in order

config == <<causal, batchComm, precision>>
forwardVars == <<at, posted, kv, part, corrected, lse, out>>
backwardVars == <<back, buf, tile, dq, dkv, sendBuf, grad>>
vars == <<config, forwardVars, backwardVars, comm>>

Init ==
  /\ causal \in CausalMasks /\ batchComm \in BatchComm /\ precision \in Precisions
  /\ at = [r \in Ranks |-> [s \in Streams |-> [step |-> s, op |-> "start"]]]
  /\ posted = [r \in Ranks |-> 0]
  /\ kv = [r \in Ranks |-> [i \in Steps |-> IF i = 0 THEN r ELSE Uninit]]
  /\ part = [r \in Ranks |-> [i \in Steps |-> Unset]]
  /\ corrected = [r \in Ranks |-> 0]
  /\ lse = [r \in Ranks |-> Unset] /\ out = [r \in Ranks |-> Unset]
  /\ back = [r \in Ranks |-> [step |-> 0, op |-> "forward"]]
  /\ buf = [r \in Ranks |-> [b \in {0, 1} |-> [kv |-> Uninit, dkv |-> Unset]]]
  /\ tile = [r \in Ranks |-> Unset]
  /\ dq = [r \in Ranks |-> [s \in Ranks |-> Unset]]
  /\ dkv = [r \in Ranks |->
              [s \in Ranks |-> IF precision = "current" THEN Zero ELSE Unset]]
  /\ sendBuf = [r \in Ranks |-> [s \in Ranks |-> Unset]]
  /\ grad = [r \in Ranks |-> [dq |-> Unset, dkv |-> Unset]]
  /\ comm = [r \in Ranks |-> <<>>]

-----------------------------------------------------------------------------
(* flash_attn_p2p_communicate: even ranks send first, odd ones receive first, *)
(* and a batch starts both together.  A transfer takes place when both sides  *)
(* have got to it.                                                            *)

\* What is sent or received: the pass, the buffer, and the parts of it.
P2P(kind, pass, b, parts) == [kind |-> kind, pass |-> pass, at |-> b, parts |-> parts]
A2A == P2P("all_to_all", "backward", 0, {"dkv"})

\* Mutant: every rank sends before it receives.
BugExchange(r, pass, from, to, parts) ==
  <<{P2P("send", pass, from, parts)}, {P2P("recv", pass, to, parts)}>>

Exchange(r, pass, from, to, parts) ==
  LET send == P2P("send", pass, from, parts)
      recv == P2P("recv", pass, to, parts)
  IN IF batchComm THEN <<{send, recv}>>
     ELSE IF r % 2 = 0 THEN <<{send}, {recv}>>
     ELSE <<{recv}, {send}>>

\* send_dst: the next rank in the forward, the one before in the backward.
SendDst(r, pass) == (IF pass = "forward" THEN r + 1 ELSE r - 1) % CpSize

Current(r) == IF comm[r] = <<>> THEN {} ELSE Head(comm[r])
Without(q, op) == IF Head(q) = {op} THEN Tail(q) ELSE <<Head(q) \ {op}>> \o Tail(q)

Transfer(r) ==
  \E send \in {op \in Current(r) : op.kind = "send"} :
    LET d == SendDst(r, send.pass)
    IN \E recv \in {op \in Current(d) : op.kind = "recv" /\ op.pass = send.pass
                                          /\ op.parts = send.parts} :
         /\ comm' = [comm EXCEPT ![r] = Without(@, send), ![d] = Without(@, recv)]
         /\ kv' = IF send.pass = "forward"
                  THEN [kv EXCEPT ![d][recv.at] = kv[r][send.at]] ELSE kv
         /\ buf' = IF send.pass = "backward"
                   THEN [buf EXCEPT ![d][recv.at] =
                           [p \in {"kv", "dkv"} |->
                              IF p \in send.parts THEN buf[r][send.at][p] ELSE @[p]]]
                   ELSE buf
         /\ UNCHANGED <<config, at, posted, part, corrected, lse, out,
                        back, tile, dq, dkv, sendBuf, grad>>

\* all_to_all_single(output, input): every rank's input slot for r goes to rank r.
AllToAll ==
  /\ \A r \in Ranks : Current(r) = {A2A}
  /\ comm' = [r \in Ranks |-> Tail(comm[r])]
  /\ sendBuf' = [r \in Ranks |-> [s \in Ranks |-> dkv[s][r]]]
  /\ UNCHANGED <<config, forwardVars, back, buf, tile, dq, dkv, grad>>

-----------------------------------------------------------------------------
(* Sections: which queries and which keys a step multiplies.                  *)

ForwardSection(r, i) ==
  IF ~causal THEN "all"
  ELSE IF i = 0 THEN "diagonal"
  ELSE IF i <= r THEN "lower-triangle"
  ELSE "upper-triangle"

BackwardSection(r, i) ==
  IF ~causal THEN "all"
  ELSE IF i = CpSize - 1 THEN "diagonal"
  ELSE IF i >= CpSize - r - 1 THEN "lower-triangle"
  ELSE "upper-triangle"

\* Pairs of a query half and a key half that a section multiplies: the inputs the
\* prepare functions select, and the causal mask inside a diagonal tile.
Pairs(section) ==
  CASE section = "all" -> Halves \X Halves
    [] section = "diagonal" -> {p \in Halves \X Halves : p[2] <= p[1]}
    [] section = "lower-triangle" -> Halves \X {0}
    [] section = "upper-triangle" -> {1} \X Halves

\* For each query half the key chunks, for each key half the query chunks.
KeysMet(section, slice) ==
  [h \in Halves |-> ChunksOf(slice, {g \in Halves : <<h, g>> \in Pairs(section)})]
QueriesMet(section, r) ==
  [g \in Halves |-> ChunksOf(r, {h \in Halves : <<h, g>> \in Pairs(section)})]

-----------------------------------------------------------------------------
(* Forward: step i on stream i % 2, one stream behind the other.              *)

Stream(r, s, op) == at[r][s].op = op /\ at[r][s].step < CpSize
Advance(r, s, op) == at' = [at EXCEPT ![r][s].op = op]

\* Wait for the exchange of the last step, and post that of this one.
StartStep(r, s) ==
  LET i == at[r][s].step
  IN /\ Stream(r, s, "start") /\ posted[r] = i /\ comm[r] = <<>>
     /\ IF i < CpSize - 1
        THEN /\ comm' = [comm EXCEPT ![r] = @ \o Exchange(r, "forward", i, i + 1, {"kv"})]
             /\ posted' = [posted EXCEPT ![r] = @ + 1]
        ELSE UNCHANGED <<comm, posted>>
     /\ Advance(r, s, "attend")
     /\ UNCHANGED <<config, kv, part, corrected, lse, out, backwardVars>>

Attend(r, s) ==
  LET i == at[r][s].step
  IN /\ Stream(r, s, "attend")
     /\ part' = [part EXCEPT ![r][i] = KeysMet(ForwardSection(r, i), kv[r][i])]
     /\ Advance(r, s, "correct")
     /\ UNCHANGED <<config, posted, kv, corrected, lse, out, backwardVars, comm>>

\* How a step's results are merged: whole, or into the second half only.
MergeRule(r, i) ==
  PerHalf(IF i = 0 THEN Copy ELSE IF i <= r \/ ~causal THEN Add ELSE <<"none", "add">>)

\* Mutant: the streams do not wait for the event.
BugLastCorrected(r, i) == TRUE

\* wait_event(fwd_results_correction_done): step i - 1 has been merged.
LastCorrected(r, i) == corrected[r] >= i

\* Once the last step's correction is done: flash_attn_fwd_softmax_lse_correction.
CorrectLse(r, s) ==
  LET i == at[r][s].step
  IN /\ Stream(r, s, "correct") /\ LastCorrected(r, i)
     /\ lse' = [lse EXCEPT ![r] = Correct(@, part[r][i], MergeRule(r, i))]
     /\ corrected' = [corrected EXCEPT ![r] = i + 1]
     /\ at' = [at EXCEPT ![r][s] = [step |-> i + 2, op |-> "start"]]
     /\ UNCHANGED <<config, posted, kv, part, out, backwardVars, comm>>

\* out once the corrections of every step have been made.
Merged(r) ==
  LET to[i \in Steps] ==
        Correct(IF i = 0 THEN Unset ELSE to[i - 1], part[r][i], MergeRule(r, i))
  IN to[CpSize - 1]

StreamDone(r, s) == at[r][s].step >= CpSize

\* current_stream.wait_stream, then the output correction of every step; the last
\* buffer of keys and values is kept for the backward.
Combine(r) ==
  /\ back[r].op = "forward" /\ \A s \in Streams : StreamDone(r, s)
  /\ out' = [out EXCEPT ![r] = Merged(r)]
  /\ back' = [back EXCEPT ![r].op = "post"]
  /\ buf' = [buf EXCEPT ![r][0].kv = kv[r][CpSize - 1]]
  /\ UNCHANGED <<config, at, posted, kv, part, corrected, lse,
                 tile, dq, dkv, sendBuf, grad, comm>>

-----------------------------------------------------------------------------
(* Backward: step i works on slice rank + 1 + i, and ends with its own.       *)

Back(r, op) == back[r].op = op
BackTo(r, op) == back' = [back EXCEPT ![r].op = op]

\* Keys and values go on to the rank before, with the gradients gathered so far;
\* in FP8 without them, and the last step exchanges gradients in an all-to-all.
PostExchange(r) ==
  LET i == back[r].step
      parts == IF precision # "f16" THEN {"kv"}
               ELSE (IF i = CpSize - 1 THEN {} ELSE {"kv"}) \cup
                    (IF i = 0 THEN {} ELSE {"dkv"})
  IN /\ Back(r, "post")
     /\ comm' = [comm EXCEPT ![r] = @ \o
                  IF precision # "f16" /\ i = CpSize - 1 THEN <<{A2A}>>
                  ELSE Exchange(r, "backward", i % 2, (i + 1) % 2, parts)]
     /\ BackTo(r, "attend")
     /\ UNCHANGED <<config, forwardVars, buf, tile, dq, dkv, sendBuf, grad>>

\* Delayed scaling keeps the results of every step apart, by slice.
Slot(r, i) == IF precision = "delayed" THEN (r + i + 1) % CpSize ELSE 0

\* Mutant: the first lower-triangle step copies both halves of dq.
BugDqRule(r, i) ==
  PerHalf(IF precision = "delayed" \/ i = 0 \/ (causal /\ i = CpSize - r - 1) THEN Copy
          ELSE IF ~causal \/ i > CpSize - r - 1 THEN Add ELSE <<"none", "add">>)

DqRule(r, i) ==
  PerHalf(
    CASE precision = "delayed" -> Copy
      [] precision # "delayed" /\ ~causal -> IF i = 0 THEN Copy ELSE Add
      [] precision # "delayed" /\ causal ->
           IF i > CpSize - r - 1 THEN Add
           ELSE IF i = CpSize - r - 1
                THEN IF r = CpSize - 1 THEN Copy ELSE <<"copy", "add">>
           ELSE IF i > 0 THEN <<"none", "add">> ELSE <<"none", "copy">>)

\* Mutant: the diagonal step adds both halves, at rank 0 too.
BugDkvRule(r, i) ==
  PerHalf(IF i = 0 THEN IF causal /\ r = CpSize - 1 THEN <<"copy", "none">> ELSE Copy
          ELSE IF causal /\ i < CpSize - 1 /\ i >= CpSize - r - 1 THEN <<"add", "none">>
          ELSE Add)

DkvRule(r, i) ==
  PerHalf(
    CASE precision = "delayed" -> Copy
      [] precision # "delayed" /\ ~causal -> IF i = 0 THEN Copy ELSE Add
      [] precision # "delayed" /\ causal ->
           IF i = CpSize - 1 THEN IF r = 0 THEN <<"add", "copy">> ELSE Add
           ELSE IF i >= CpSize - r - 1
                THEN IF i = 0 /\ r = CpSize - 1 THEN <<"copy", "none">> ELSE <<"add", "none">>
           ELSE IF i > 0 THEN Add ELSE Copy)

\* The gradients of the step; those of the queries stay with the rank.
AttendBackward(r) ==
  LET i == back[r].step
      section == BackwardSection(r, i)
      dq_ == KeysMet(section, buf[r][i % 2].kv)
  IN /\ Back(r, "attend")
     /\ dq' = [dq EXCEPT ![r][Slot(r, i)] = Correct(@, dq_, DqRule(r, i))]
     /\ tile' = [tile EXCEPT ![r] = QueriesMet(section, r)]
     /\ BackTo(r, "reduce")
     /\ UNCHANGED <<config, forwardVars, buf, dkv, sendBuf, grad, comm>>

\* Mutant: nothing waits for the exchange of the step.
BugDkvReceived(r) == TRUE

\* The requests of the step have been waited for.
DkvReceived(r) == comm[r] = <<>>

\* Once the gradients of the next step's slice have come, add those of this step.
ReduceDkv(r) ==
  LET i == back[r].step
      b == (i + 1) % 2
      slot == Slot(r, i)
      after == Correct(IF precision = "f16" THEN buf[r][b].dkv ELSE dkv[r][slot],
                       tile[r], DkvRule(r, i))
  IN /\ Back(r, "reduce") /\ DkvReceived(r)
     /\ IF precision = "f16"
        THEN buf' = [buf EXCEPT ![r][b].dkv = after] /\ UNCHANGED dkv
        ELSE dkv' = [dkv EXCEPT ![r][slot] = after] /\ UNCHANGED buf
     /\ back' = [back EXCEPT ![r] =
                   IF i < CpSize - 1 THEN [step |-> i + 1, op |-> "post"]
                   ELSE [step |-> i, op |-> "sum"]]
     /\ UNCHANGED <<config, forwardVars, tile, dq, sendBuf, grad, comm>>

\* What is returned; delayed scaling sums up its slots here.
SumUp(r) ==
  /\ Back(r, "sum") /\ BackTo(r, "done")
  /\ grad' = [grad EXCEPT ![r] =
                CASE precision = "f16" ->
                       [dq |-> dq[r][0], dkv |-> buf[r][CpSize % 2].dkv]
                  [] precision = "delayed" ->
                       [dq |-> SlotSum(dq[r]), dkv |-> SlotSum(dkv[r])]
                  [] precision = "current" -> [dq |-> dq[r][0], dkv |-> dkv[r][0]]]
  /\ UNCHANGED <<config, forwardVars, buf, tile, dq, dkv, sendBuf, comm>>

-----------------------------------------------------------------------------
Compute(r) ==
  \/ \E s \in Streams : StartStep(r, s) \/ Attend(r, s) \/ CorrectLse(r, s)
  \/ Combine(r) \/ PostExchange(r) \/ AttendBackward(r) \/ ReduceDkv(r) \/ SumUp(r)

Communicate == AllToAll \/ \E r \in Ranks : Transfer(r)

Next == Communicate \/ \E r \in Ranks : Compute(r)

\* Streams run what is queued on them, and NCCL what both sides have posted.
Fairness == WF_vars(Communicate) /\ \A r \in Ranks : WF_vars(Compute(r))
Spec == Init /\ [][Next]_vars /\ Fairness

-----------------------------------------------------------------------------
(* Properties.                                                                *)

P2POps ==
  [kind : {"send", "recv", "all_to_all"}, pass : {"forward", "backward"}, at : Steps,
   parts : SUBSET {"kv", "dkv"}]

\* Types; a rank never has more than one exchange in flight.
TypeOK ==
  /\ at \in [Ranks -> [Streams -> [step : 0..CpSize + 1,
                                   op : {"start", "attend", "correct"}]]]
  /\ posted \in [Ranks -> Steps] /\ corrected \in [Ranks -> 0..CpSize]
  /\ kv \in [Ranks -> [Steps -> Ranks \cup {Uninit}]]
  /\ part \in [Ranks -> [Steps -> Tensors]]
  /\ lse \in [Ranks -> Tensors] /\ out \in [Ranks -> Tensors]
  /\ back \in [Ranks -> [step : Steps,
                         op : {"forward", "post", "attend", "reduce", "sum", "done"}]]
  /\ buf \in [Ranks -> [{0, 1} -> [kv : Ranks \cup {Uninit}, dkv : Tensors]]]
  /\ tile \in [Ranks -> Tensors] /\ dq \in [Ranks -> [Ranks -> Tensors]]
  /\ dkv \in [Ranks -> [Ranks -> Tensors]] /\ sendBuf \in [Ranks -> [Ranks -> Tensors]]
  /\ grad \in [Ranks -> [dq : Tensors, dkv : Tensors]]
  /\ \A r \in Ranks :
       /\ comm[r] \in Seq((SUBSET P2POps) \ {{}})
       /\ Len(comm[r]) <= 2

\* Attention without ranks: a query chunk attends to the key chunks up to its own.
KeysOf(a) == {b \in Chunks : causal => b <= a}
QueriesOf(b) == {a \in Chunks : b \in KeysOf(a)}

\* The forward returns, for both halves of every rank's queries, the output and the
\* softmax statistics over exactly the keys they attend to, each once, however the
\* two streams and the exchanges of the ranks interleave.
AttentionExact ==
  \A r \in Ranks, h \in Halves : ~Back(r, "forward") =>
    out[r][h] = KeysOf(Chunk(r, h)) /\ lse[r][h] = KeysOf(Chunk(r, h))

\* The gradient of every rank's queries gathers every key chunk they attended to, once,
\* at every precision.
QueryGradients ==
  \A r \in Ranks, h \in Halves : Back(r, "done") =>
    grad[r].dq[h] = KeysOf(Chunk(r, h))

\* A gradient that starts at the next rank and travels the whole ring comes back to the
\* owner of its keys with the part of every query chunk that attended to them, once.
KeyGradients ==
  \A r \in Ranks, h \in Halves : Back(r, "done") /\ precision = "f16" =>
    grad[r].dkv[h] = QueriesOf(Chunk(r, h))

\* The same of the FP8 backward, which exchanges its results at the end: "collect all
\* results in uint8 to one tensor, dequantize to float32, then reduce".
FP8KeyGradients ==
  \A r \in Ranks, h \in Halves : Back(r, "done") /\ precision # "f16" =>
    grad[r].dkv[h] = QueriesOf(Chunk(r, h))

\* The order of sends and receives never leaves the ranks waiting for each other.
AllFinish == <>(\A r \in Ranks : Back(r, "done"))
=============================================================================
