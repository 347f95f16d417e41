-------------------------- MODULE NonPagedKVCache ----------------------------
(***************************************************************************)
(* NonPagedKVCacheManager under InferenceParams (pytorch/attention/        *)
(* inference.py): every layer's cache has one row per place in the batch,  *)
(* so when the batch changes, step() first moves the rows of the           *)
(* unfinished sequences together, in place, and then copies the new tokens *)
(* (common/fused_attn/kv_cache.cu).                                        *)
(***************************************************************************)
EXTENDS KVRequests, Integers, FiniteSetsExt

Rows == 0..MaxBatch - 1
Cols == 0..MaxLen - 1

VARIABLES
  order, seqlen,  \* sequences, an OrderedDict: its keys and its values
  batchIndices,   \* batch_indices: the row place j of the batch is taken from
  needReindex,    \* need_reindex
  cache,          \* the k_cache (and v_cache) of every layer
  layer           \* layers 1..layer have run step() in this iteration

vars == <<requests, order, seqlen, batchIndices, needReindex, cache, layer>>

NoSequences == [s \in Seqs |-> 0]

Init ==
  /\ NoRequests
  /\ order = <<>> /\ seqlen = NoSequences
  /\ batchIndices = [j \in Rows |-> 0] /\ needReindex = TRUE
  /\ cache = [l \in Layers |-> [r \in Rows |-> [c \in Cols |-> NoToken]]]
  /\ layer = NumLayers

-----------------------------------------------------------------------------
(* pre_step *)

\* Mutant: places counted from 1.
BugPlace(s) == CHOOSE i \in 1..MaxBatch : order[i] = s

\* The row of s: its place, from 0, among the tracked sequences.
Place(s) == CHOOSE r \in Rows : r < Len(order) /\ order[r + 1] = s

\* need_reindex: the ids of the batch have changed.
BatchChanged(ids) == ids # Range(order)

\* unfinished_indices and finished_indices list their rows in ascending order,
\* then come the rows never used.  Deleting a key keeps the others in order.
PreStep ==
  /\ layer = NumLayers
  /\ NextBatch
  /\ LET ids == Range(batch'.ids)
         tracked == Range(order)
     IN /\ \E unfinished \in InOrderOf(order, tracked \cap ids),
              finished \in InOrderOf(order, tracked \ ids),
              new \in NewOrders(batch'.ids, ids \ tracked) :
             /\ batchIndices' = [r \in Rows |->
                  IF r < Len(order) THEN Place((unfinished \o finished)[r + 1]) ELSE r]
             /\ order' = unfinished \o new
        /\ seqlen' = [s \in Seqs |->
             IF s \notin ids THEN 0
             ELSE IF s \in tracked THEN seqlen[s] + 1 ELSE batch'.new[s]]
        /\ needReindex' = BatchChanged(ids)
  /\ layer' = 0
  /\ UNCHANGED cache

-----------------------------------------------------------------------------
(* step: the two kernels.  b is the number of rows they look at: the size of *)
(* the batch (bshd, sbhd) or max_batch_size (thd, CUDA graphs).  The new     *)
(* lengths are in the order of step_dict, the cached ones in that of         *)
(* sequences; both are 0 in the rows after the batch.                        *)

CachedLen(r) == IF r < Len(order) THEN seqlen[order[r + 1]] ELSE 0
NewLen(r) == IF r < Len(batch.ids) THEN batch.new[batch.ids[r + 1]] ELSE 0

\* reindex_kv_cache_kernel works out from the last descent of batch_indices
\* how many leading rows are those of unfinished sequences ...
LeadingRows(b) ==
  LET descents == {i \in 0..b - 2 : batchIndices[i + 1] < batchIndices[i]}
  IN IF descents = {} THEN b ELSE Max(descents) + 1

\* Mutant: without the kernel's flag a batch that only lost its first rows
\* looks as if nothing moved.
BugStays(r) == batchIndices[r] - batchIndices[0] = r

\* ... skips the rows that stay where they are ...
Stays(r) == batchIndices[0] = 0 /\ batchIndices[r] = r

\* ... and moves the others one by one, in place: a row that has already been
\* written is read as it is now.
RowMoved(rows, r) ==
  [rows EXCEPT ![r] =
     [c \in Cols |-> IF c < CachedLen(r) - NewLen(r)
                     THEN rows[batchIndices[r]][c] ELSE rows[r][c]]]

Reindexed(rows, b) ==
  LET after[n \in 0..LeadingRows(b)] ==
        IF n = 0 THEN rows
        ELSE IF Stays(n - 1) THEN after[n - 1]
        ELSE RowMoved(after[n - 1], n - 1)
  IN after[LeadingRows(b)]

\* copy_to_kv_cache_kernel.  step() passes need_reindex as is_non_paged, so a
\* batch that has not changed goes through batch_indices as a page table of
\* one page per sequence.
TargetRow(r) == IF needReindex THEN r ELSE batchIndices[r]

\* The place in the row of a new token; a negative one (possible only when the
\* two orders differ) is outside of the row and not represented.
Position(r, i) == CachedLen(r) - NewLen(r) + i - 1

NewTokens ==
  {t \in Rows \X (1..MaxLen) :
     t[2] <= NewLen(t[1]) /\ Position(t[1], t[2]) >= 0}

Copied(rows) ==
  [r \in Rows |-> [c \in Cols |->
     LET here == {t \in NewTokens :
                    TargetRow(t[1]) = r /\ Position(t[1], t[2]) = c}
     IN IF here = {} THEN rows[r][c]
        ELSE LET t == CHOOSE t \in here : TRUE IN NewToken(t[1] + 1, t[2])]]

Step ==
  /\ layer < NumLayers
  /\ \E b \in {Len(batch.ids), MaxBatch} :
       LET rows == cache[layer + 1]
       IN cache' = [cache EXCEPT ![layer + 1] =
            Copied(IF needReindex THEN Reindexed(rows, b) ELSE rows)]
  /\ layer' = layer + 1
  /\ UNCHANGED <<requests, order, seqlen, batchIndices, needReindex>>

\* InferenceParams.reset: only the tracked sequences are dropped.
Reset ==
  /\ layer = NumLayers /\ order # <<>>
  /\ Forget
  /\ order' = <<>> /\ seqlen' = NoSequences
  /\ UNCHANGED <<batchIndices, needReindex, cache, layer>>

Next == PreStep \/ Step \/ Reset

Spec == Init /\ [][Next]_vars

-----------------------------------------------------------------------------
(* Properties *)

\* Type correctness; batch_indices never names a row that does not exist.
TypeOK ==
  /\ RequestsTypeOK
  /\ order \in Seq(Seqs) /\ IsInjective(order)
  /\ seqlen \in [Seqs -> 0..MaxLen]
  /\ batchIndices \in [Rows -> Rows]
  /\ needReindex \in BOOLEAN
  /\ cache \in [Layers -> [Rows -> [Cols -> Token \cup {NoToken}]]]
  /\ layer \in 0..NumLayers

\* What attention sees in row r of a layer (the first cu_seqlens_kv tokens).
Shown(l, r) == [p \in 1..CachedLen(r) |-> cache[l][r][p - 1]]

\* After a layer has run its step, every row of the batch shows exactly the
\* tokens the caller has fed that sequence, in order, whatever rows the
\* reindexing moved and whichever number of rows the kernels looked at.
CacheFaithful ==
  /\ Len(order) = Len(batch.ids)
  /\ \A l \in 1..layer, j \in 1..Len(batch.ids) :
       Shown(l, j - 1) = fed[batch.ids[j]]

\* The comment of pre_step (inference.py:474-477) promises rows that "match the
\* indexing in q": the tracked sequences are in the order of step_dict.
BatchOrder == order = batch.ids

\* The docs of cu_cached_seqlens (inference.py:535) promise lengths "after new
\* tokens are copied in": the tracked length of a sequence of the batch is the
\* number of tokens the caller has fed it.
LengthsMatch == \A s \in InBatch : seqlen[s] = Len(fed[s])
=============================================================================
