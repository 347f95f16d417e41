---------------------------- MODULE PagedKVCache -----------------------------
(***************************************************************************)
(* PagedKVCacheManager under InferenceParams (pytorch/attention/           *)
(* inference.py): pre_step removes, advances and admits sequences and      *)
(* builds the page table; then every attention layer copies its new tokens *)
(* into its own cache through that table (common/fused_attn/kv_cache.cu).  *)
(*                                                                         *)
(* One iteration of a loop of pre_step is one action, so that the state an *)
(* exception leaves behind ("KV cache is full!") is a state of the model.  *)
(***************************************************************************)
EXTENDS KVRequests, FiniteSets

CONSTANTS
  PageSize,    \* page_size
  TotalPages   \* total_num_pages; InferenceParams insists on PoolSize, a
               \* PagedKVCacheManager of one's own may be built with any

MaxPages == MaxLen \div PageSize  \* max_pages_per_seq
PoolSize == MaxBatch * MaxPages

ASSUME PageAssumption ==
  /\ PageSize \in Nat \ {0} /\ MaxLen % PageSize = 0
  /\ TotalPages \in Nat \ {0}

Pages == 0..TotalPages - 1

VARIABLES
  order, seqlen,  \* sequences, an OrderedDict: its keys and its values
  free,           \* free_pages, first in first out
  allocated,      \* allocated_pages
  pageTable,      \* page_table
  cache,          \* the k_cache (and v_cache) of every layer
  todo,           \* what the loops of pre_step have still to visit
  pc, layer       \* "pre_step", "step" (layers 1..layer are done) or "raised"

manager == <<order, seqlen, free, allocated, pageTable>>
vars == <<requests, manager, cache, todo, pc, layer>>

NothingTodo == [finished |-> {}, unfinished |-> {}, new |-> <<>>]

NoSequences == [s \in Seqs |-> 0]
NoPages == [s \in Seqs |-> <<>>]
AllPages == [i \in 1..TotalPages |-> i - 1]
EmptyTable == [j \in 1..MaxBatch |-> [k \in 1..MaxPages |-> 0]]

Init ==
  /\ NoRequests
  /\ order = <<>> /\ seqlen = NoSequences
  /\ free = AllPages /\ allocated = NoPages /\ pageTable = EmptyTable
  /\ cache = [l \in Layers |->
                [p \in Pages |-> [i \in 0..PageSize - 1 |-> NoToken]]]
  /\ todo = NothingTodo
  /\ pc = "step" /\ layer = NumLayers

-----------------------------------------------------------------------------
(* pre_step *)

\* Mutant: one page too many for a context that fills its last page.
BugPagesFor(len) == len \div PageSize + 1

PagesFor(len) == (len + PageSize - 1) \div PageSize

\* Mutant: the last free page is never given out.
BugAllocateLast(s, n) ==
  LET got == IF n < Len(free) \/ n = 0 THEN n
             ELSE IF Len(free) = 0 THEN 0 ELSE Len(free) - 1
  IN /\ free' = SubSeq(free, got + 1, Len(free))
     /\ allocated' = [allocated EXCEPT ![s] = @ \o SubSeq(free, 1, got)]
     /\ pc' = IF got = n THEN pc ELSE "raised"

\* allocate_page, n times: pages leave the head of the free list until it is
\* empty; with fewer than n free pages the last call raises.
Allocate(s, n) ==
  LET got == IF n <= Len(free) THEN n ELSE Len(free)
  IN /\ free' = SubSeq(free, got + 1, Len(free))
     /\ allocated' = [allocated EXCEPT ![s] = @ \o SubSeq(free, 1, got)]
     /\ pc' = IF got = n THEN pc ELSE "raised"

\* Mutant: the ids already tracked are not subtracted.
BugUnknown(ids) == ids

\* The ids of the batch that are not in sequences yet.
Unknown(ids) == ids \ Range(order)

BeginStep ==
  /\ pc = "step" /\ layer = NumLayers
  /\ NextBatch
  /\ LET ids == Range(batch'.ids)
     IN \E new \in NewOrders(batch'.ids, Unknown(ids)) :
          todo' = [finished |-> Range(order) \ ids,
                   unfinished |-> Range(order) \cap ids,
                   new |-> new]
  /\ pc' = "pre_step"
  /\ UNCHANGED <<manager, cache, layer>>

\* Where s is among the tracked sequences.
Place(s) == CHOOSE i \in DOMAIN order : order[i] = s

\* Mutant: the freed pages stay in the entry of allocated_pages.
BugFinish(s) ==
  /\ pc = "pre_step" /\ s \in todo.finished
  /\ order' = RemoveAt(order, Place(s))
  /\ seqlen' = [seqlen EXCEPT ![s] = 0]
  /\ free' = free \o allocated[s]
  /\ todo' = [todo EXCEPT !.finished = @ \ {s}]
  /\ UNCHANGED <<requests, allocated, pageTable, cache, pc, layer>>

\* A finished sequence is dropped and its pages go to the end of the list.
Finish(s) ==
  /\ pc = "pre_step" /\ s \in todo.finished
  /\ order' = RemoveAt(order, Place(s))
  /\ seqlen' = [seqlen EXCEPT ![s] = 0]
  /\ free' = free \o allocated[s]
  /\ allocated' = [allocated EXCEPT ![s] = <<>>]
  /\ todo' = [todo EXCEPT !.finished = @ \ {s}]
  /\ UNCHANGED <<requests, pageTable, cache, pc, layer>>

\* Mutant: the page boundary is tested with the length after the step.
BugNeedsPage(s) == (seqlen[s] + 1) % PageSize = 0 /\ seqlen[s] < MaxLen

\* An unfinished sequence grows by one token, whatever step_dict says; it
\* takes another page when its last one is full.
NeedsPage(s) == seqlen[s] % PageSize = 0 /\ seqlen[s] < MaxLen

Advance(s) ==
  /\ pc = "pre_step" /\ todo.finished = {} /\ s \in todo.unfinished
  /\ Allocate(s, IF NeedsPage(s) THEN 1 ELSE 0)
  /\ seqlen' = IF pc' = "raised" THEN seqlen ELSE [seqlen EXCEPT ![s] = @ + 1]
  /\ todo' = [todo EXCEPT !.unfinished = @ \ {s}]
  /\ UNCHANGED <<requests, order, pageTable, cache, layer>>

\* A new sequence is entered before its pages are allocated.
Admit(s) ==
  /\ pc = "pre_step" /\ todo.finished = {} /\ todo.unfinished = {}
  /\ todo.new # <<>> /\ s = Head(todo.new)
  /\ order' = Append(order, s)
  /\ seqlen' = [seqlen EXCEPT ![s] = batch.new[s]]
  /\ Allocate(s, PagesFor(batch.new[s]))
  /\ todo' = [todo EXCEPT !.new = Tail(@)]
  /\ UNCHANGED <<requests, pageTable, cache, layer>>

\* Mutant: the last page of a sequence is left out of its row.
BugPageRow(s) ==
  [k \in 1..MaxPages |->
     IF k < Len(allocated[s]) THEN allocated[s][k] ELSE 0]

\* get_page_table: only the rows of the batch are written.
PageRow(s) ==
  [k \in 1..MaxPages |->
     IF k <= Len(allocated[s]) THEN allocated[s][k] ELSE 0]

FillPageTable ==
  /\ pc = "pre_step" /\ todo = NothingTodo
  /\ pageTable' = [j \in 1..MaxBatch |->
       IF j <= Len(order) THEN PageRow(order[j]) ELSE pageTable[j]]
  /\ pc' = "step" /\ layer' = 0
  /\ UNCHANGED <<requests, order, seqlen, free, allocated, cache, todo>>

-----------------------------------------------------------------------------
(* step: the copy kernel, once per layer.  The new lengths are in the order *)
(* of step_dict (cu_seqlens_q), the cached ones in that of sequences        *)
(* (cu_seqlens_kv).                                                         *)

CachedLen(j) == seqlen[order[j]]
NewLen(j) == batch.new[batch.ids[j]]

\* Where the i-th new token of row j goes.  A negative position (possible only
\* when the two orders differ) is outside of the row and not represented.
Position(j, i) == CachedLen(j) - NewLen(j) + i - 1

Slot(j, pos) == <<pageTable[j][pos \div PageSize + 1], pos % PageSize>>

NewTokens ==
  {t \in (1..Len(batch.ids)) \X (1..MaxLen) :
     t[2] <= NewLen(t[1]) /\ Position(t[1], t[2]) >= 0}

Step ==
  /\ pc = "step" /\ layer < NumLayers
  /\ cache' = [cache EXCEPT ![layer + 1] =
       [p \in Pages |-> [o \in 0..PageSize - 1 |->
          LET here == {t \in NewTokens : Slot(t[1], Position(t[1], t[2])) = <<p, o>>}
          IN IF here = {} THEN cache[layer + 1][p][o]
             ELSE LET t == CHOOSE t \in here : TRUE IN NewToken(t[1], t[2])]]]
  /\ layer' = layer + 1
  /\ UNCHANGED <<requests, manager, todo, pc>>

\* InferenceParams.reset, between iterations or after an exception.  The
\* caches keep their contents.
Reset ==
  /\ \/ pc = "step" /\ layer = NumLayers /\ order # <<>>
     \/ pc = "raised"
  /\ Forget
  /\ order' = <<>> /\ seqlen' = NoSequences
  /\ free' = AllPages /\ allocated' = NoPages /\ pageTable' = EmptyTable
  /\ todo' = NothingTodo /\ pc' = "step" /\ layer' = NumLayers
  /\ UNCHANGED cache

Next ==
  \/ BeginStep
  \/ \E s \in Seqs : Finish(s) \/ Advance(s) \/ Admit(s)
  \/ FillPageTable
  \/ Step
  \/ Reset

Spec == Init /\ [][Next]_vars

-----------------------------------------------------------------------------
(* Properties *)

\* Type correctness of the manager's state.
TypeOK ==
  /\ RequestsTypeOK
  /\ order \in Seq(Seqs) /\ IsInjective(order)
  /\ seqlen \in [Seqs -> 0..MaxLen]
  /\ free \in Seq(Pages)
  /\ allocated \in [Seqs -> Seq(Pages)]
  /\ pageTable \in [1..MaxBatch -> [1..MaxPages -> Pages]]
  /\ cache \in [Layers -> [Pages -> [0..PageSize - 1 -> Token \cup {NoToken}]]]
  /\ todo \in [finished : SUBSET Seqs, unfinished : SUBSET Seqs, new : Seq(Seqs)]
  /\ pc \in {"pre_step", "step", "raised"}
  /\ layer \in 0..NumLayers

\* At every moment, also inside pre_step and after it raised, every page of
\* the pool is in exactly one place: once in free_pages or once in the pages
\* of one sequence (allocate_page, deallocate_sequence).
PagePartition ==
  /\ IsInjective(free)
  /\ \A s \in Seqs : IsInjective(allocated[s])
  /\ \A s \in Seqs : Range(allocated[s]) \cap Range(free) = {}
  /\ \A s, t \in Seqs :
       s # t => Range(allocated[s]) \cap Range(allocated[t]) = {}
  /\ Range(free) \cup UNION {Range(allocated[s]) : s \in Seqs} = Pages

\* A tracked sequence holds exactly the pages its tokens need, one not tracked
\* holds none, unless pre_step raised while allocating.
PagesCoverTokens ==
  pc # "raised" => \A s \in Seqs : Len(allocated[s]) = PagesFor(seqlen[s])

\* With the pool InferenceParams insists on (inference.py:175) a legal batch
\* never finds the cache full: a finished sequence's pages come back before
\* any page is taken.
NeverFull == TotalPages >= PoolSize => pc # "raised"

\* pre_step raises only with every page in use.
RaisesOnlyWhenFull ==
  pc = "raised" => free = <<>> /\ UNION {Range(allocated[s]) : s \in Seqs} = Pages

\* What attention sees in row j of a layer: the tokens its page list leads to.
Shown(l, j) ==
  [p \in 1..CachedLen(j) |->
     LET slot == Slot(j, p - 1) IN cache[l][slot[1]][slot[2]]]

\* After a layer has run its step, every row of the batch shows exactly the
\* tokens the caller has fed that sequence, in order: nothing is lost when
\* pages are recycled and nothing of another sequence shows through.
CacheFaithful ==
  pc = "step" =>
    /\ Len(order) = Len(batch.ids)
    /\ \A l \in 1..layer, j \in 1..Len(batch.ids) : Shown(l, j) = fed[batch.ids[j]]
=============================================================================
