--------------------------- MODULE CommGemmOverlap ---------------------------
(***************************************************************************)
(* Tensor-parallel GEMMs that overlap their all-gather or reduce-scatter   *)
(* by point-to-point copies (CommOverlapP2PBase of comm_gemm_overlap.cpp   *)
(* and userbuffers.cu).  The host of every rank queues kernels on several  *)
(* streams, orders them with events and runs ahead; a send writes into the *)
(* memory of another rank and counts up a flag there, which is all that a  *)
(* receive waits for.  Nothing tells a sender that the memory it writes    *)
(* to is no longer read.                                                   *)
(*                                                                         *)
(* The host never waits for a device, so everything it queues is worked    *)
(* out once (Programs), with the kernels each kernel has to wait for; the  *)
(* state machine runs the queues of all ranks in any order they allow.     *)
(* A chunk is a tag: the call it belongs to, the rank that made it and the *)
(* rank it is for.                                                         *)
(***************************************************************************)
EXTENDS Integers, Sequences, FiniteSets, SequencesExt

CONSTANTS
  Configs, \* records: tp, streams (num_max_streams), useCE, sms (num_comm_sm), calls
  CommSms, \* sms of the communicator, which a call without a num_comm_sm uses (bound: 2 of 16)
  Empty    \* content of memory nobody has written

Calls == {"all_gather", "aggregate", "reduce_scatter", "external"}

ASSUME CommSmsAssumption == CommSms \in Nat \ {0}
ASSUME ConfigsAssumption == \A c \in Configs :
  /\ c.tp \in Nat \ {0, 1} /\ c.streams \in Nat \ {0} /\ c.sms \in Nat \ {0}
  /\ c.useCE \in BOOLEAN /\ c.calls \in Seq(Calls)
  /\ \A k \in DOMAIN c.calls : c.calls[k] = "aggregate" => c.tp % 2 = 0

RanksOf(c) == 0..c.tp - 1
Kernels(c) == IF c.streams < c.tp THEN c.streams ELSE c.tp \* _stream_compute.size()
Parts(c) == 1..(IF c.useCE THEN 1 ELSE IF c.sms > CommSms THEN c.sms ELSE CommSms)
Regions == {"ag", "rs", "wgrad"}                           \* one per overlap object
Slots(c, region) == 0..(IF region = "rs" THEN 2 * c.tp - 2 ELSE c.tp - 1)

\* _ubufs[chunk] of the call: the shard of a rank, or a partial sum it is to receive.
Shard(n, q) == <<n, q, q>>
Partial(n, q, r) == <<n, q, r>>

-----------------------------------------------------------------------------
(* What the host queues.                                                      *)

Main == 0
Recv == 1
Comm == 2
Send(i) == 3 + 2 * i
Compute(i) == 4 + 2 * i
StreamsOf(c) == {Main, Recv, Comm} \cup UNION {{Send(i), Compute(i)} : i \in 0..Kernels(c) - 1}
Events == {"start_compute", "start_comm", "stop_compute", "stop_send", "stop_recv", "stop_comm"}

Launch(s, op) == <<[do |-> "launch", stream |-> s, op |-> op]>>
Record(e, s) == <<[do |-> "record", stream |-> s, event |-> e]>>
Wait(s, e) == <<[do |-> "wait", stream |-> s, event |-> e]>>
Handover(e, from, to) == Record(e, from) \o Wait(to, e)

\* Body(0) \o ... \o Body(n - 1)
Repeat(n, Body(_)) ==
  LET upTo[i \in 0..n] == IF i = 0 THEN <<>> ELSE upTo[i - 1] \o Body(i - 1) IN upTo[n]

Fill(s, region, at, tags) ==
  Launch(s, [kind |-> "fill", region |-> region, at |-> at, tags |-> tags])
Read(s, n, region, from, to) ==
  Launch(s, [kind |-> "gemm", call |-> n, region |-> region, from |-> from, to |-> to])
Gemm(s, n, region, from) == Read(s, n, region, from, 0)
Consume(n) == Launch(Main, [kind |-> "consume", call |-> n])

\* userbuffers_send: the copy engine and a kernel that signals, or one kernel with a
\* block per SM, each of which copies its part and counts up the flag.  The external
\* gather does not set the number of SMs, and uses that of the communicator.
SendOp(kind, region, from, shift, peer, sms) ==
  [kind |-> kind, region |-> region, from |-> from, shift |-> shift, peer |-> peer, sms |-> sms]
UbSend(c, s, region, from, shift, peer) ==
  LET sms == IF region = "wgrad" THEN CommSms ELSE c.sms
  IN IF c.useCE THEN Launch(s, SendOp("copy", region, from, shift, peer, 1))
                       \o Launch(s, SendOp("signal", region, {}, shift, peer, 1))
     ELSE Launch(s, SendOp("push", region, from, shift, peer, sms))

\* userbuffers_recv: a kernel that waits for one more signal from the peer.
UbRecv(region, peer) == Launch(Recv, [kind |-> "recv", region |-> region, peer |-> peer])

\* Every stream of the call starts after what main has queued, and main goes on after.
Fork(streams) ==
  Record("start_compute", Main) \o
  Repeat(Len(streams), LAMBDA i : Wait(streams[i + 1], "start_compute"))
ComputeStreams(c) == [i \in 1..Kernels(c) |-> Compute(i - 1)]
SendStreams(c) == [i \in 1..Kernels(c) |-> Send(i - 1)]
BugJoinCompute(c) == Repeat(Kernels(c) - 1, LAMBDA i : Handover("stop_compute", Compute(i), Main))
JoinCompute(c) ==
  Repeat(Kernels(c), LAMBDA i : Handover("stop_compute", Compute(i), Main))

\* The gathered input is copied out, as B_copy, behind the last send.
EndGather(c, n) ==
  Read(Send(0), n, "ag", RanksOf(c), c.tp) \o
  JoinCompute(c) \o Handover("stop_send", Send(0), Main) \o
  Handover("stop_recv", Recv, Main) \o Consume(n)

\* The ring of split_overlap_ag: each step multiplies the chunk it passes on.
AllGather(c, r, n) ==
  Fill(Main, "ag", {r}, [q \in {r} |-> Shard(n, r)]) \o
  Fork(<<Send(0), Recv>> \o ComputeStreams(c)) \o
  Repeat(c.tp, LAMBDA i :
    LET chunk == (c.tp + r - i) % c.tp
    IN Gemm(Compute(i % Kernels(c)), n, "ag", {chunk}) \o
       IF i < c.tp - 1
       THEN UbSend(c, Send(0), "ag", {chunk}, 0, (r + 1) % c.tp) \o
            UbRecv("ag", (c.tp + r - 1) % c.tp) \o
            Handover("stop_recv", Recv, Send(0)) \o
            Wait(Compute((i + 1) % Kernels(c)), "stop_recv")
       ELSE <<>>) \o
  EndGather(c, n)

\* With _aggregate neighbours swap chunks first, and pairs go round in steps of two.
Aggregate(c, r, n) ==
  LET neighbour == IF r % 2 = 0 THEN (r + 1) % c.tp ELSE (r - 1) % c.tp
      round2 == r - (r % 2)
  IN Fill(Main, "ag", {r}, [q \in {r} |-> Shard(n, r)]) \o
     Fork(<<Send(0), Recv>> \o ComputeStreams(c)) \o
     UbSend(c, Send(0), "ag", {r}, 0, neighbour) \o UbRecv("ag", neighbour) \o
     Handover("stop_recv", Recv, Send(0)) \o Wait(Compute(0), "stop_recv") \o
     Repeat(c.tp \div 2, LAMBDA i :
       LET chunk == (c.tp + round2 - (2 * i)) % c.tp
       IN Gemm(Compute(i % Kernels(c)), n, "ag", {chunk, chunk + 1}) \o
          IF i < c.tp \div 2 - 1
          THEN UbSend(c, Send(0), "ag", {chunk, chunk + 1}, 0, (c.tp + r + 2) % c.tp) \o
               UbRecv("ag", (c.tp + r - 2) % c.tp) \o
               Handover("stop_recv", Recv, Send(0)) \o
               Wait(Compute((i + 1) % Kernels(c)), "stop_recv")
          ELSE <<>>) \o
     EndGather(c, n)

\* A partial sum is sent, and waited for, once the GEMM that makes it is over.
BugAfterGemm(i) == Record("start_comm", Compute(i)) \o Wait(Recv, "start_comm")
AfterGemm(i) == Handover("start_comm", Compute(i), Send(i)) \o Wait(Recv, "start_comm")

\* split_overlap_rs: the GEMM of step i makes the chunk of rank r + i + 1, which is
\* sent while the next one runs; the last chunk is the rank's own.
ReduceScatter(c, r, n) ==
  Fork(SendStreams(c) \o <<Recv>> \o ComputeStreams(c)) \o
  Record("start_compute", Send(0)) \o
  Repeat(c.tp, LAMBDA i :
    LET stream == Compute(i % Kernels(c))
        last == (i - 1) % Kernels(c)
    IN (IF i > 1 THEN Record("start_compute", Compute((i - 2) % Kernels(c))) ELSE <<>>) \o
       (IF i > 0 THEN Wait(stream, "start_compute") ELSE <<>>) \o
       Fill(stream, "rs", {i}, [s \in {i} |-> Partial(n, r, (r + i + 1) % c.tp)]) \o
       IF i > 0
       THEN AfterGemm(last) \o
            UbSend(c, Send(last), "rs", {i - 1}, c.tp, (r + i) % c.tp) \o
            UbRecv("rs", (c.tp + r - i) % c.tp)
       ELSE <<>>) \o
  JoinCompute(c) \o
  Repeat(Kernels(c), LAMBDA i : Handover("stop_send", Send(i), Main)) \o
  Handover("stop_recv", Recv, Main) \o
  Gemm(Main, n, "rs", c.tp - 1..2 * c.tp - 2) \o Consume(n)

\* bulk_overlap_external_ag: the gradients that wgrad needs are gathered on the
\* communication streams of the dgrad GEMM, into a buffer of their own.
ExternalAllGather(c, r, n) ==
  Fill(Send(0), "wgrad", {r}, [q \in {r} |-> Shard(n, r)]) \o
  Repeat(c.tp - 1, LAMBDA j : UbSend(c, Send(0), "wgrad", {r}, 0, (r + j + 1) % c.tp)) \o
  Repeat(c.tp - 1, LAMBDA j : UbRecv("wgrad", (r + c.tp - 1 - j) % c.tp)) \o
  Handover("stop_comm", Send(0), Comm) \o Handover("stop_comm", Recv, Comm) \o
  Handover("stop_comm", Comm, Main) \o
  Gemm(Main, n, "wgrad", RanksOf(c)) \o Consume(n)

Commands(c, r) ==
  Repeat(Len(c.calls), LAMBDA k :
    LET call == c.calls[k + 1]
    IN CASE call = "all_gather" -> AllGather(c, r, k + 1)
         [] call = "aggregate" -> Aggregate(c, r, k + 1)
         [] call = "reduce_scatter" -> ReduceScatter(c, r, k + 1)
         [] call = "external" -> ExternalAllGather(c, r, k + 1))

\* The host's state: what is queued, and the kernels that whatever is queued next on
\* a stream comes after, as stream and position, the last of each stream.
Enqueue(host, cmd) ==
  LET s == cmd.stream
      last(kernels) == {k \in kernels : \A l \in kernels : l[1] = k[1] => l[2] <= k[2]}
  IN CASE cmd.do = "launch" ->
            [host EXCEPT !.queue[s] = Append(@, [op |-> cmd.op, after |-> host.after[s]]),
                         !.after[s] = last(@ \cup {<<s, Len(host.queue[s]) + 1>>})]
       [] cmd.do = "record" -> [host EXCEPT !.event[cmd.event] = host.after[s]]
       [] cmd.do = "wait" -> [host EXCEPT !.after[s] = last(@ \cup host.event[cmd.event])]

Programs ==
  [c \in Configs |-> [r \in RanksOf(c) |->
     FoldLeft(Enqueue, [queue |-> [s \in StreamsOf(c) |-> <<>>],
                        after |-> [s \in StreamsOf(c) |-> {}],
                        event |-> [e \in Events |-> {}]], Commands(c, r)).queue]]

-----------------------------------------------------------------------------
(* The devices.                                                               *)

VARIABLES
  config, \* the configuration, chosen once
  done,   \* kernels each stream of each rank has finished
  blocks, \* blocks that have finished of the send kernel a stream runs
  mem,    \* content of every part of every slot of the buffers, by rank and region
  flag,   \* signals that have come in, by rank, region and peer
  recvId, \* recv_id: signals that have been waited for
  got,    \* what the GEMMs of each call read, by rank, call and place: the slot, and
          \* tp places further on what B_copy gets of it
  used    \* the places that had been read when main went on after the call

vars == <<config, done, blocks, mem, flag, recvId, got, used>>

Ranks == RanksOf(config)
Queue(r, s) == Programs[config][r][s]
CallIds == DOMAIN config.calls
Places == 0..2 * config.tp - 1

Init ==
  /\ config \in Configs
  /\ done = [r \in Ranks |-> [s \in StreamsOf(config) |-> 0]]
  /\ blocks = [r \in Ranks |-> [s \in StreamsOf(config) |-> {}]]
  /\ mem = [r \in Ranks |-> [g \in Regions |->
              [i \in Slots(config, g) |-> [b \in Parts(config) |-> Empty]]]]
  /\ flag = [r \in Ranks |-> [g \in Regions |-> [p \in Ranks |-> 0]]]
  /\ recvId = flag
  /\ got = [r \in Ranks |-> [n \in CallIds |-> [i \in Places |-> {}]]]
  /\ used = [r \in Ranks |-> [n \in CallIds |-> {}]]

\* The kernel at the head of a stream, when everything it comes after has finished.
Running(r, s, kind) ==
  /\ done[r][s] < Len(Queue(r, s))
  /\ LET k == Queue(r, s)[done[r][s] + 1]
     IN k.op.kind = kind /\ \A l \in k.after : done[r][l[1]] >= l[2]

KernelOf(r, s) == Queue(r, s)[done[r][s] + 1].op
Finish(r, s) == done' = [done EXCEPT ![r][s] = @ + 1]

\* A copy into a slot, or a GEMM with its output there.
RunFill(r, s) ==
  /\ Running(r, s, "fill") /\ Finish(r, s)
  /\ LET op == KernelOf(r, s)
     IN mem' = [mem EXCEPT ![r][op.region] =
                  [i \in DOMAIN @ |-> IF i \in op.at THEN [b \in Parts(config) |-> op.tags[i]]
                                      ELSE @[i]]]
  /\ UNCHANGED <<config, blocks, flag, recvId, got, used>>

\* Some parts of the slots in op.from, written to the peer's.
Written(r, op, parts) ==
  [mem EXCEPT ![op.peer][op.region] =
     [i \in DOMAIN @ |->
        IF i - op.shift \in op.from
        THEN [b \in Parts(config) |->
                IF b \in parts THEN mem[r][op.region][i - op.shift][b] ELSE @[i][b]]
        ELSE @[i]]]

Signal(r, op) == flag' = [flag EXCEPT ![op.peer][op.region][r] = @ + 1]

RunCopy(r, s) ==
  /\ Running(r, s, "copy") /\ Finish(r, s)
  /\ mem' = Written(r, KernelOf(r, s), Parts(config))
  /\ UNCHANGED <<config, blocks, flag, recvId, got, used>>

RunSignal(r, s) ==
  /\ Running(r, s, "signal") /\ Finish(r, s)
  /\ Signal(r, KernelOf(r, s))
  /\ UNCHANGED <<config, blocks, mem, recvId, got, used>>

\* kuserbuffers_pushsend: each block copies its part and adds one to the flag.
RunPush(r, s) ==
  /\ Running(r, s, "push")
  /\ \E b \in 1..KernelOf(r, s).sms \ blocks[r][s] :
       /\ mem' = Written(r, KernelOf(r, s), {p \in Parts(config) : (p - b) % KernelOf(r, s).sms = 0})
       /\ Signal(r, KernelOf(r, s))
       /\ IF blocks[r][s] \cup {b} = 1..KernelOf(r, s).sms
          THEN blocks' = [blocks EXCEPT ![r][s] = {}] /\ Finish(r, s)
          ELSE blocks' = [blocks EXCEPT ![r][s] = @ \cup {b}] /\ UNCHANGED done
  /\ UNCHANGED <<config, recvId, got, used>>

BugRecvTwo(r, s) ==
  /\ Running(r, s, "recv") /\ Finish(r, s)
  /\ LET op == KernelOf(r, s)
     IN /\ flag[r][op.region][op.peer] > recvId[r][op.region][op.peer] + 1
        /\ recvId' = [recvId EXCEPT ![r][op.region][op.peer] = @ + 1]
  /\ UNCHANGED <<config, blocks, mem, flag, got, used>>

BugRecvNoWait(r, s) ==
  /\ Running(r, s, "recv") /\ Finish(r, s)
  /\ LET op == KernelOf(r, s)
     IN recvId' = [recvId EXCEPT ![r][op.region][op.peer] = @ + 1]
  /\ UNCHANGED <<config, blocks, mem, flag, got, used>>

\* kuserbuffers_pushrecv waits for one signal more than the last time.
RunRecv(r, s) ==
  /\ Running(r, s, "recv") /\ Finish(r, s)
  /\ LET op == KernelOf(r, s)
     IN /\ flag[r][op.region][op.peer] >= recvId[r][op.region][op.peer] + 1
        /\ recvId' = [recvId EXCEPT ![r][op.region][op.peer] = @ + 1]
  /\ UNCHANGED <<config, blocks, mem, flag, got, used>>

\* A GEMM, the copy of what was gathered, or the reduction that ends a reduce-scatter,
\* reads slots of a buffer.
RunGemm(r, s) ==
  /\ Running(r, s, "gemm") /\ Finish(r, s)
  /\ LET op == KernelOf(r, s)
     IN got' = [got EXCEPT ![r][op.call] =
                  [i \in DOMAIN @ |->
                     IF i - op.to \in op.from
                     THEN {mem[r][op.region][i - op.to][b] : b \in Parts(config)}
                     ELSE @[i]]]
  /\ UNCHANGED <<config, blocks, mem, flag, recvId, used>>

\* What follows on main reads the result of the call.
RunConsume(r, s) ==
  /\ Running(r, s, "consume") /\ Finish(r, s)
  /\ LET n == KernelOf(r, s).call
     IN used' = [used EXCEPT ![r][n] = {i \in DOMAIN got[r][n] : got[r][n][i] # {}}]
  /\ UNCHANGED <<config, blocks, mem, flag, recvId, got>>

Step(r, s) ==
  \/ RunFill(r, s) \/ RunCopy(r, s) \/ RunSignal(r, s) \/ RunPush(r, s)
  \/ RunRecv(r, s) \/ RunGemm(r, s) \/ RunConsume(r, s)

Next == \E r \in Ranks, s \in StreamsOf(config) : Step(r, s)

\* Every stream makes progress, whatever the others wait for.
Fairness == WF_vars(Next)
Spec == Init /\ [][Next]_vars /\ Fairness

-----------------------------------------------------------------------------
(* Properties.                                                                *)

Finished(r) == \A s \in StreamsOf(config) : done[r][s] = Len(Queue(r, s))
Tags == CallIds \X Ranks \X Ranks

\* Types; recv_id never passes the flag it waits for.
TypeOK ==
  /\ config \in Configs
  /\ \A r \in Ranks :
       /\ \A s \in StreamsOf(config) :
            done[r][s] \in 0..Len(Queue(r, s)) /\ blocks[r][s] \subseteq Parts(config)
       /\ \A g \in Regions :
            /\ mem[r][g] \in [Slots(config, g) -> [Parts(config) -> Tags \cup {Empty}]]
            /\ \A p \in Ranks :
                 flag[r][g][p] \in Nat /\ recvId[r][g][p] \in 0..flag[r][g][p]
       /\ \A n \in CallIds :
            /\ got[r][n] \in [Places -> SUBSET (Tags \cup {Empty})]
            /\ used[r][n] \subseteq Places

\* Every GEMM after or along an all-gather multiplies, at each place of the gathered
\* input, the shard of that rank and of this call, and B_copy gets the same, although
\* ranks drift apart and every call gathers into the same memory; main goes on only with
\* the whole product.
GatheredExact ==
  \A r \in Ranks, n \in CallIds : config.calls[n] # "reduce_scatter" =>
    /\ \A i \in Places : got[r][n][i] \in {{}, {Shard(n, i % config.tp)}}
    /\ used[r][n] \in {{}, IF config.calls[n] = "external" THEN Ranks ELSE Places}

\* A reduce-scatter adds up the partial sums that every rank made for this rank in this
\* call, each once.
ReducedExact ==
  \A r \in Ranks, n \in CallIds :
    config.calls[n] = "reduce_scatter" /\ used[r][n] # {} =>
      {got[r][n][i] : i \in used[r][n]} = {{Partial(n, q, r)} : q \in Ranks}
        /\ Cardinality(used[r][n]) = config.tp

\* No rank waits for ever for a signal: every call ends on every rank.
CallsEnd == <>(\A r \in Ranks : Finished(r))
=============================================================================
