----------------------------- MODULE KVRequests ------------------------------
(***************************************************************************)
(* The caller of the KV cache: an inference loop that keeps a batch of     *)
(* sequences, removes those that have finished, admits new ones and hands  *)
(* InferenceParams.pre_step a step_dict {seq_id: number of new tokens} for *)
(* every iteration.  The loop is the one of                                *)
(* tests/pytorch/attention/test_kv_cache.py: the unfinished sequences come *)
(* first and keep their order, the new ones follow.                        *)
(*                                                                         *)
(* A token is named by its sequence, the iteration the sequence was        *)
(* admitted in and its position, so that a token another sequence, or an   *)
(* earlier use of the same id, left in the cache is told from a fresh one. *)
(* "fed" is what the caller knows: the tokens of every sequence so far.    *)
(***************************************************************************)
EXTENDS Sequences, FiniteSets, SequencesExt

CONSTANTS
  Seqs,         \* the sequence ids
  MaxBatch,     \* max_batch_size
  MaxLen,       \* max_sequence_length
  NumLayers,    \* attention layers that share the InferenceParams
  ContextLens,  \* the context lengths of new sequences
  DecodeLens,   \* the new tokens of an unfinished sequence in an iteration
  AnyOrder,     \* may a set of new ids iterate in an order of its own?
  MaxSteps,     \* bound: number of iterations
  NoToken       \* the zeros a cache is allocated with

ASSUME RequestAssumption ==
  /\ IsFiniteSet(Seqs)
  /\ MaxBatch \in Nat \ {0} /\ MaxLen \in Nat \ {0}
  /\ NumLayers \in Nat \ {0} /\ MaxSteps \in Nat
  /\ ContextLens \subseteq 1..MaxLen /\ DecodeLens \subseteq Nat \ {0}
  /\ AnyOrder \in BOOLEAN

Layers == 1..NumLayers

VARIABLES
  batch,  \* the step_dict of the current iteration: its ids in order, and
          \* the number of new tokens of each
  fed,    \* the tokens given to the cache so far, per sequence
  steps   \* iterations so far

requests == <<batch, fed, steps>>

Token == Seqs \X (1..MaxSteps) \X (1..MaxLen)

EmptyBatch == [ids |-> <<>>, new |-> [s \in Seqs |-> 0]]
NothingFed == [s \in Seqs |-> <<>>]

NoRequests == batch = EmptyBatch /\ fed = NothingFed /\ steps = 0

\* The caller drops its whole batch and resets the cache.
Forget == batch' = EmptyBatch /\ fed' = NothingFed /\ UNCHANGED steps

InBatch == Range(batch.ids)

\* The ids of K in the order they have in p.
InOrderOf(p, K) ==
  {q \in SetToSeqs(K) :
     \A i, j \in DOMAIN q :
       i < j => \E a, b \in DOMAIN p : a < b /\ p[a] = q[i] /\ p[b] = q[j]}

\* The batches that may follow the current one.
Batches ==
  {kept \o new :
     kept \in UNION {InOrderOf(batch.ids, K) : K \in SUBSET InBatch},
     new \in UNION {SetToSeqs(N) : N \in SUBSET (Seqs \ InBatch)}}

NewLens(ids) ==
  {new \in [Seqs -> {0} \cup ContextLens \cup DecodeLens] :
     \A s \in Seqs :
       /\ new[s] = 0 <=> s \notin Range(ids)
       /\ s \in Range(ids) =>
            new[s] \in (IF s \in InBatch THEN DecodeLens ELSE ContextLens)
       /\ Len(fed[s]) + new[s] <= MaxLen}

\* The caller composes the next batch: a finished sequence is forgotten.
NextBatch ==
  /\ steps < MaxSteps
  /\ \E ids \in Batches :
       /\ Len(ids) \in 1..MaxBatch
       /\ \E new \in NewLens(ids) :
            /\ batch' = [ids |-> ids, new |-> new]
            /\ fed' = [s \in Seqs |->
                 IF new[s] = 0 THEN <<>>
                 ELSE fed[s] \o
                      [i \in 1..new[s] |->
                         <<s, IF fed[s] = <<>> THEN steps + 1 ELSE fed[s][1][2],
                           Len(fed[s]) + i>>]]
  /\ steps' = steps + 1

\* The order in which "for seq in new_seqs" visits the new ids.  new_seqs is
\* a set: small consecutive integers come out in ascending order, which is the
\* order of the step_dict in the tests; other ids come out in any order.
NewOrders(ids, new) ==
  IF AnyOrder THEN SetToSeqs(new)
  ELSE InOrderOf(ids, new)

\* The i-th new token of row j of new_k and new_v.
NewToken(j, i) ==
  LET s == batch.ids[j] IN fed[s][Len(fed[s]) - batch.new[s] + i]

RequestsTypeOK ==
  /\ batch.ids \in Seq(Seqs)
  /\ Len(batch.ids) <= MaxBatch
  /\ IsInjective(batch.ids)
  /\ batch.new \in [Seqs -> 0..MaxLen]
  /\ fed \in [Seqs -> Seq(Token)]
  /\ steps \in 0..MaxSteps
=============================================================================
