# TLA+ verification of LonghornAI

LonghornAI is a C++17 library for running language models on a CPU: a `core`
layer (tensors, allocators, numeric types, profiling), `kernels` (attention,
paged KV caches, mixture of experts, sampling, quantization, recurrences), and a
`runtime` that batches requests over a pool of KV-cache blocks. This directory
holds TLA+ models of it, the TLC configurations that check them on small
instances, and proofs about them that TLAPS checks. Paths are relative to the
repository.

## Contents

1. [The system](#the-system)
2. [The modules](#the-modules)
3. [How the models correspond to the code](#how-the-models-correspond-to-the-code)
4. [Runs, bounds and what they show](#runs-bounds-and-what-they-show)
5. [Fairness and deadlock](#fairness-and-deadlock)
6. [What is proved](#what-is-proved)
7. [Where the code and its documentation disagree](#where-the-code-and-its-documentation-disagree)
8. [What is not modelled](#what-is-not-modelled)

## The system

Nothing in the repository starts a thread: concurrency is between *requests*,
whose operations the driver interleaves. The behaviours that are hard to test
are long sequences of legal calls on shared blocks, recycled ids, a pool that
runs dry half-way through a step, and the snapshots (`ActiveStep`, `Match`) a
driver holds while other calls are made.

### Runtime (`src/src/runtime`)

| Component | State | Operations | Correct when |
|---|---|---|---|
| Cache manager (`cache_manager.{hpp,cpp}`) | free list, reference count per block, block table and `seq_len` per request, recycled ids | `allocate_block`, `release_block`, `retain_block`, `create_request`, `release_request`, `ensure_capacity`, `set_seq_len`, `reference_block` | counts equal references; a block is free exactly when nothing refers to it; growth is all or nothing; ids are never shared by live requests |
| Scheduler (`scheduler.{hpp,cpp}`) | queue, active requests and their order, finished counts | `submit`, `prepare_step`, `commit_step`, `has_work`, `generated` | requests partition into waiting and active; first come, first served; one token per active request and step; the view handed to the kernels stays valid until the commit; everyone is served |
| Prefix cache (`prefix_cache.{hpp,cpp}`) | a tree of token prefixes, block and tick at block ends, count | `lookup`, `insert`, `evict_until_free` | a prefix found is the K/V of exactly those tokens; every reference is counted; eviction takes the least recently used; no dead branches |

The scheduler and the prefix cache call into the cache manager and own no block
themselves. A driver calls `prepare_step`, decodes with the paged kernels on the
`ActiveStep` it got (ids, lengths, a padded array of block tables), and calls
`commit_step`. The scheduler and the prefix cache do not call each other; a
driver may share one cache manager between them.

### Kernels (`src/src/kernels`), core (`src/src/core`) and tools

The kernels are pure functions on caller-owned buffers; no state survives a call
except the KV pools and the recurrent states the caller passes in. What is hard
in them is inside one call, or in the sequence of calls that decodes one
sequence: loops over tiles, splits and chunks that meet at edges, sums kept
relative to a moving maximum, permutations that must be undone, sorts that leave
the order of equals open, conversions at the ends of a range.

| Component | Correct when |
|---|---|
| Paged KV append, paged attention, quantized KV cache | every position is found where it was written; the three caches agree |
| Attention, flash decoding | tiled and split attention gives the output of the reference; decoding in pieces is one prefill |
| Mixture of experts | each token comes back once from each chosen expert, with its gate |
| Sampling | each filter keeps what it should at ties, no composition drops every token, the draw is by weight |
| Speculative decoding | the output has the target's law; a node of a draft tree sees its branch alone |
| Reductions, top-k | the heap keeps the largest; its head is argmax |
| Numeric types, quantization | rounding to nearest at every boundary; a scale serves its own scope; integer sums fit |
| Dense kernels, recurrent kernels, layout transforms | the fast form equals the reference: tiles, chunks, recurrences, index maps |
| Tensors and allocators | one owner for each block through all moves; contents survive others' lives |
| Profiling and tracing | statistics and nesting survive switching and resetting in open scopes |

## The modules

```
runtime   CacheManager ─┬─ CacheClients ── MCCacheClients     refines BlockPool
          (operators)   ├─ Scheduler                          refines BatchService
                        │     └─ PagedDecode
                        ├─ PagedCache ─┘
                        └─ PrefixCache ── PrefixClients ── MCPrefixClients

attention Attention ─┬─ FlashDecode ─────────────┐
          PagedCache ┴─ PagedAttention           ├─ AttentionCalls
                          └─ ChunkedDecode ──────┤
          TreeBias, Positional ──────────────────┘

layers    Attention ─┬─ TopK ────────────────────┐
                     └─ Sampling ── Speculative  │
          MoE, Gemm, Accumulator, SelectiveScan, ├─ LayerCalls
          Wkv, LinearAttention,                  │
          RowPass; Floats ── Quant ──────────────┘

core      Tensors, Profiling, Transforms,        ┐
          RowTable;                              ├─ CoreCalls
          Floats ── FloatStorage ────────────────┘

proofs    CacheManagerProofs ─┬─ CacheClientsProofs
                              ├─ PrefixClientsProofs
                              └─ PagedCacheProofs ─┬─ SchedulerProofs   of Scheduler and PagedDecode
                                                   └─ ChunkedDecodeProofs
          FlashDecodeProofs   of FlashDecode, TreeBias, TopK, Sampling, Speculative,
                              LinearAttention and SelectiveScan
          UnitProofs          of Accumulator, MoE, Positional, Tensors, Profiling and Gemm
```

| Module | What it is |
|---|---|
| `CacheManager` | the manager's state as one record, each method an operator from the state before the call to the state after it, so that its callers can make several calls in one step of their own |
| `CacheClients` | the manager under any callers that keep to its header's contract |
| `BlockPool` | abstract: tables, lengths and holders; a fresh block is one nobody refers to, and a table grows to all its new length needs or not at all |
| `Scheduler` | `submit`, `prepare_step`, `commit_step`, under the driver loop |
| `BatchService` | abstract: a first-come service that gives every running request one token per round |
| `PrefixCache` | lookup, insert and eviction on the token tree, as operators |
| `PrefixClients` | requests that share blocks through the prefix cache, interleaved at its calls |
| `PagedCache` | addresses, appends and reads of the float and int8 paged pools, as operators |
| `PagedDecode` | composes `Scheduler` and `PagedAttention`: a driver that appends and attends with the view it was given |
| `Attention` | masks, head mapping, the reference softmax, on exact powers of two |
| `FlashDecode` | splits, blocks, rescaling and merging of `flash_attention` and `flash_decode_attention` |
| `PagedAttention`, `ChunkedDecode` | what attention reads of the dense, paged and int8 caches; a sequence decoded in pieces, with drafts taken back |
| `TreeBias` | `build_tree_attention_bias`, parent by parent |
| `Positional` | rotary embedding and the ALiBi bias of tokens that arrive in pieces |
| `TopK`, `MoE` | the heap, argmax and the gates; dispatch, the lanes of the experts, combine |
| `Sampling`, `Speculative` | the filters and the draw; acceptance, correction, bonus |
| `Gemm`, `Quant`, `Accumulator` | tiles and batches; scales, roundings, nibbles and the quantized products; the width of the int32 sum |
| `SelectiveScan`, `Wkv`, `LinearAttention`, `RowPass` | the recurrences, the causal convolution, and the one-pass softmax and variance |
| `Floats`, `FloatStorage` | the four conversions of `dtypes.hpp`; numbers that pass from one storage type to another |
| `Tensors`, `Transforms`, `RowTable` | lifetimes over three allocators; permute, transpose, split, concat; gather and scatter |
| `Profiling` | scopes, statistics, events |
| `AttentionCalls`, `LayerCalls`, `CoreCalls` | callers that use one of the kernels or facilities below them |
| `MC...` | assumptions on, and values of, the constants of the runs |
| `...Proofs` | lemmas and theorems; `CacheManagerProofs` has the lemmas about the manager's operators that those below it share, `PagedCacheProofs` those about the paged pools |

Definitions marked *Mutant* are plausible bugs of the definition that follows
them. No specification uses them; they are there so that each property can be
shown to fail when the code is wrong in that way.

## How the models correspond to the code

### Runtime

**Calls are atomic.** No method yields, so each public call is one action,
including all the calls it makes. `prepare_step` and `commit_step` are two
actions, and `submit` may come between them.

**Loops are recursive functions.** `Releasing`, `Admitting` and `Committing` are
functions from the number of iterations done to the state then, so that the
order in which a loop releases and takes blocks is the code's. `Evictions` is
the same with sets of states, as the victim is not determined (below).
`Collected` is the loop of `lookup` over the matched path, from the root down,
which is the order the reversal at its end restores.

**Cache manager.** `free_list` is a sequence whose end is the top of the stack.
`refcount`, `requests`, `recycled_ids`, `next_id` are the fields of the same
names. Failing calls (`release_block` of a free or invalid block,
`ensure_capacity` without room) leave the state as the early returns do. The
float pools are left out, and so is `blocks_mut`, which no code calls. The
assertions of the code compile away in a release build and guard nothing in
the model; what they demand of callers is in the clients' guards.

**CacheClients** adds `held[b]`, the references that callers own outside any
request: a history of the calls made. Its callers release only what they own (or
a free block, which is a no-op), share only blocks in use, and fill padded table
entries before they grow the table, as the comment in `reference_block` asks.

**Scheduler.** `submitted` and `finished` are histories: they number requests,
whose ids are reused, and record how each ended. The model whose tokens are
decoded is left open: any subset of the active requests may complete in a step.
`last_occ_`, which no decision reads, is left out. `ViewOf` builds the flat,
padded `block_tables` in row-major order, and `KernelBlock` indexes it as
`paged_attention.cpp` does.

**Paged pools.** A pool is a function from flat addresses to what was written
there, namely whose element it is: request, position, head, dimension. K and V
are stored at the same addresses, so there is one pool, and one array of scales
for the int8 cache. An append is one step; where two of its rows met at one
address the later position would win, as in the loop. The driver is not in the
repository. `PagedDecode` models the one `scheduler.hpp` describes: it appends the
prompt in a request's first step and one token in each later one, then attends
to all of `seq_len`. It identifies requests by themselves, not by their ids,
which are reused (see the hazards).

**Prefix cache.** A tree node is named by the tokens that lead to it; pointers,
parents and children follow from prefixes. Among several nodes with the least
tick, `find_lru` returns the first in a walk that visits a node before its
descendants and siblings in the order of a hash map: `Victims` is the set of
nodes it may return. Clients look a prompt up, allocate and fill what is
missing, insert and finish, as `insert_prefix` and the shared-root test of
`src/tests/test_prefix_cache.cpp` do. A client that is given fewer blocks than
`matched_tokens` promises cannot know where they belong; it drops them, so that
what is checked after that point is not a consequence of the first fault
(see `prefix_hole`). `content` is a history: for which prefix the K and V in a
block were computed.

### Kernels

**Granularity.** The kernels run to completion and share nothing, so the steps
of their models are not interleaving points: they are the turns of the loop that
carries state, such as a block of keys (`FlashDecode`), an element pushed on the
heap (`TopK`), a tile (`Gemm`), a time step (`SelectiveScan`, `Wkv`,
`LinearAttention`), an element of a row (`RowPass`), or a filter (`Sampling`). Where a
loop carries nothing it is one operator. In `ChunkedDecode`, `Positional`,
`Transforms`, `RowTable` and `FloatStorage` a step is a call.

**One kernel in a behaviour.** `AttentionCalls`, `LayerCalls` and `CoreCalls`
begin with the choice of a kernel or facility and stay with it. Nothing is lost:
the code below them has no state that two of them could share. Kernels that
theorems speak of are extended, so that a run and a theorem state the same
property: they keep variables of their own, idle when another kernel is chosen.
The others, in the last two, are instances whose variables are slots that all of
them reuse; the theorems about three of these (`Gemm`, `LinearAttention`,
`SelectiveScan`) are about instances of their own, in the proof modules, that leave
every constant open.

**Arithmetic is exact.** The exponential has base 2, so that weights, gates and
normalisers are integers in a fixed unit (`2^-MaxScore`, `One`) and equality of
two ways to compute them can be asked for; a bound on the spread of scores keeps
every shift exact. Where the *order* of floating-point sums matters, a result is
the sequence of what was added (`Gemm`, `MoE`), so that the property is bitwise
agreement. Rounding is modelled where it is the subject: `Floats` works on sign,
exponent and mantissa fields with the code's shifts and carries, `Quant` on
integers with `lrintf`, and `Accumulator` in 32 bits.

**Attention.** An output is the weight of each key, from which any V gives the
code's output. A bias is part of the score, and `-inf` is a score. `added`
counts how often a row of V was added. The calls have every mask: causal,
window, chunk, and their combinations.

**Unstable sorts and heaps.** `std::nth_element`, `std::sort` and the heap
functions leave the order of equals open; `TopKPivots`, `WalkKept` and `Fronts` are
the sets of what they may do. Random numbers are all points of a grid that every
weight divides, so that counting points is exact probability
(`DrawsByWeight`, `LawIsTarget`).

**Mixture of experts.** An activation is the token it belongs to, and what an
expert makes of it the pair of both, so that anything lost, doubled or misplaced
shows. `top_k` is at most the number of experts, as in all callers.

**Quantization.** A scale is kept as the magnitude it stands for, and a
dequantized number as `Levels` times itself, which makes the error bounds of
`Close` and `ProductClose` integer comparisons.

**Tensors.** A block of the C++ runtime is an address with an alignment; the arena
is an array of bytes. `written` and `stale` are histories: what the owner last
wrote, and whose arena was reset. Callers stop writing to the latter, which
nothing in the code enforces. The shape of a tensor is its size in bytes. `Align` is
what `Tensor` asks every allocator for, `alignof(double)` (`tensor.hpp:33`): 8 in the run.

**Profiling.** The clock advances in parts of a microsecond. A scope records when
it closes, if the profiler is on *then*.

## Runs, bounds and what they show

| Run | Checks | Bounds |
|---|---|---|
| `cache_clients` | `TypeOK`, `FreeIffUnreferenced`, `RefcountsAccounted`, `IdsRecycled`, `TokensInBlocks`, `PoolRefined` | 3 blocks of 2 tokens, 2 live requests, tables of 2, 1 outside reference per block |
| `cache_repeat` | violation of `FreeIffUnreferenced` | same, with a caller that repeats `reference_block` |
| `scheduler` | `LifecycleConsistent`, `BlocksPartitioned`, `DecodeSlotReserved`, `ViewCurrent`, `ServiceRefined`, `ServedUnlessBlocked` | 3 blocks of 2 tokens, 2 active, 3 requests, prompts of 1, 2 and 6, limits of 0 and 4 |
| `scheduler_ample` | `NeverCutShort` | 6 blocks, prompts of 1 and 2, limits of 1 and 3 |
| `scheduler_recycled` | violation of `GeneratedIsOwn` | 3 blocks, prompts of 1 and 2 |
| `paged_decode` | `AttendsOwn`, `CachedRowsKept` | as `scheduler`, prompts of 1 and 2, limits of 1 and 4; 2 heads of 2 dimensions |
| `prefix_clients` | `ReferencesAccounted`, `BitExact`, `TreePruned`, `PrefixesFresher`, `EvictsLeastRecent` | 3 blocks of 2 tokens, 2 clients, 4 prompts, 5 lookups and inserts |
| `prefix_hole` | violation of `MatchHasItsBlocks` | as `prefix_clients` |
| `prefix_freed` | violation of `EvictionCounted` | as `prefix_clients` |
| `attention_calls` | `FlashMatchesSdpa`, `EachKeyOnce`, `ChunksMatchPrefill`, `PagedMatchesDense`, `TreeMatchesPath`, `PositionsRelative` | 1 or 4 queries and keys, windows and chunks of up to 3, blocks of 2, 3 and the default, up to 3 splits, scores of `-inf` to 2; 3 decode calls over 5 positions, 4 query heads on 2; trees of 5 nodes; 5 rotated tokens |
| `layer_calls` | `RoutingKeepsBest`, `CombineExact`, `FiltersKeepBest`, `TokenLaw`, `QuantizationClose`, `AccumulatorPrecise`, `MatchesReference`, `RecurrencesMatch` | rows of up to 4, `k` of 0 to 4; 3 tokens on 3 experts, 2 each; 4 tokens of vocabulary to sample, 3 to verify; tiles of 2 and sizes 0, 1, 3, 4, products of two; scans of 4 steps in chunks of 0 (that is 1), 1, 2, 4; 131072 products |
| `core_calls` | `OneOwner`, `ContentsKept`, `EventsNest`, `StatsConsistent`, `StoredNearest`, `ElementsTracked` | 3 tensors, 2 blocks, an arena of 12 bytes, alignment 8; 2 nested scopes in 2 microseconds; every boundary of the float formats; 4 moves of up to 3 axes of up to 3 |

Why these bounds are enough to be interesting:

* *Pools.* Three blocks is fewer than two requests with two blocks each need, so
  growth fails, admission stalls at the head of the queue with requests behind
  it, and `commit_step` cuts requests short. Blocks of two tokens tell a full
  block from a partly filled one; a prompt of 1 fills its block with its decode
  slot, a prompt of 2 fills it alone and needs another for that slot, so tables
  of different widths share a view. A prompt of 6 fills the pool and has no
  room for that slot: it can never be admitted.
* *Requests.* Two live requests under three submissions reuse ids. One outside
  reference per block with two sharing tables gives counts up to five.
* *Scheduler limits.* A limit of 0 shows that a request decodes one token before
  its limit is looked at. `NeverCutShort` has the premise `AmplePool`, which
  asks for `MaxConcurrent` times the blocks of the largest request; the run has
  exactly that many (6), and with 5 blocks the conclusion fails.
* *Rows.* Two heads, two slots and two dimensions make each factor of an address
  matter; with three requests on three blocks every block changes hands.
* *Prompts.* Two of two blocks share the first; one ends between blocks on that
  shared path; one is disjoint. Three blocks make eviction necessary and its
  order visible. `MaxTick` bounds the lookups and inserts of a run, five of
  which let one prompt be inserted, evicted in part, looked up and inserted
  again by another client.
* *Attention.* Four keys in blocks of 3 leave a short block, in three splits a
  short split and an empty one; one query on four keys is decoding, four on one
  are rows with no key at all. Three scores and `-inf` let a maximum rise,
  stay, and be unset in any block. Three calls on five positions hold a prefill,
  a piece, and a rewrite of drafts across a block boundary.
* *Tiles and chunks.* Every size is below, at, or above the tile and no multiple
  of it, 0 included; two products of different shapes follow each other. A chunk
  of 4 is the whole sequence; four channels over two batches reuse the buffers.
* *Choice.* Vocabularies of 3 and 4 over few logits are full of ties, and masses
  of 1/2 and 3/4 are reached exactly by some rows. Three experts with two
  choices leave some lane empty and some lane full.
* *Numbers.* `Floats` takes the exponents around each end of each format's normal
  and subnormal range and mantissas at and next to each power of two and
  halfway point, which is where a rounding can differ. `Accumulator` reaches
  the longest row that cannot overflow but for the last block of 8192: a block
  of equal products keeps the steps few.
* *Tensors.* Three names and two blocks let one be moved onto another while a
  third lives; 12 bytes of arena are one tensor, padding, and another that fits
  to the last byte, or does not. `Names` and `Addresses` are symmetric: no
  property tells two of them apart.

`TokensInBlocks` speaks of positions: for each `pos` below `seq_len`, the entry
`pos / block_size` exists and its block is referenced. `PoolRefined` and
`ServiceRefined` are refinements: hiding counts and the free list the manager is
a `BlockPool`, which also fails if `ensure_capacity` ever takes a part of the
blocks it lacks; hiding ids, blocks and the view the scheduler is a
`BatchService`.

## Fairness and deadlock

`Scheduler` assumes weak fairness of `PrepareStep` and of `Commit`, separately.
That is the loop in `scheduler.hpp`: while `has_work()`, the driver prepares and
commits in turn. `Submit` is not fair: nobody has to send a request. No fairness
is assumed of end-of-sequence tokens; `ServedUnlessBlocked` rests on
`max_new_tokens` alone. It says that every submitted request finishes, or waits
at or behind a prompt that the pool can never hold. The code neither refuses
such a prompt nor passes it by: the loop then spins with `has_work()` true.

The scheduler runs set `CHECK_DEADLOCK FALSE`: after `MaxSubmit` requests have
all finished the system has nothing left to do, which is how the loop ends. So
do the runs of kernels, whose calls return. The other runs check deadlock. No
other run has a liveness property because nothing obliges a caller to make its
next call.

## What is proved

Each theorem holds for every value of the constants that the named assumptions
allow: any number of blocks, requests, clients, keys or heads.

For the cache manager under any callers (`CacheClientsProofs`):

* `TypeCorrect`: `Spec => []TypeOK`.
* `FreeListCorrect`: `Spec => []FreeIffUnreferenced`.
* `RefcountsCorrect`: `Spec => []RefcountsAccounted`.
* `IdsCorrect`: `Spec => []IdsRecycled`.
* `TokensCorrect`: `Spec => []TokensInBlocks`.
* `PoolImplemented`: `Spec => PoolRefined`; the manager implements `BlockPool`.

For the scheduler under the driver loop (`SchedulerProofs`):

* `RequestsConsistent`: `Spec => []LifecycleConsistent`.
* `BlocksNeverShared`: `Spec => []BlocksPartitioned`.
* `SlotsReserved`: `Spec => []DecodeSlotReserved`.
* `ViewsStayCurrent`: `Spec => []ViewCurrent`.
* `NobodyCutShort`: `Spec => []NeverCutShort`.
* `FirstComeService`: `Spec => ServiceRefined`; the scheduler implements
  `BatchService`. This is its safety: `BatchService` states no fairness.

For the paged pools beneath it (the first in `PagedCacheProofs`, the others in
`SchedulerProofs`, of `PagedDecode`):

* `OffsetsInjective`: distinct elements of the pools have distinct addresses, all
  inside the pool, for every layout.
* `RowsKept`: `DecodeSpec => []CachedRowsKept`.
* `AttentionReadsOwn`: `DecodeSpec => []AttendsOwn`.

For a sequence decoded in calls of any size (`ChunkedDecodeProofs`), when the block
table has room for `max_seq`:

* `ChunksExact`: `ChunkedSpec => []ChunksMatchPrefill`.
* `PagedExact`: `ChunkedSpec => []PagedMatchesDense`.

For the prefix cache under interleaved clients (`PrefixClientsProofs`):

* `CacheInvariant`: `Spec => []CacheInv`, from which the next four follow.
* `ReferencesCounted`: `Spec => []ReferencesAccounted`.
* `ReuseExact`: `Spec => []BitExact`.
* `NoGarbage`: `Spec => []TreePruned`.
* `NeverStaler`: `Spec => []PrefixesFresher`.
* `LeastRecentFirst`: `Spec => EvictsLeastRecent`, an action property.

For single kernels and facilities, about the specifications that `AttentionCalls`,
`LayerCalls` and `CoreCalls` run beside their others:

* `TilesOnce` (`FlashDecodeProofs`): `Spec => []EachKeyOnce`; for any number of keys,
  splits (also none or negative) and block size, the tiles visit each key between
  the first and the last exactly once, and no other.
* `FlashExact`: `Spec => []FlashMatchesSdpa` unless `HardMasked`; what the tiles and
  splits add up to is the softmax of `sdpa`. `FlashExactWhereAnswered` says so of
  `HardMasked` calls too, of each query whose keys include one that the bias leaves.
* `TreeExact`: `TreeSpec => []TreeMatchesPath` for trees and histories of any size,
  whichever way a root is marked.
* `RoutingExact`: `TopKSpec => []RoutingKeepsBest` for any numbers of rows, columns and
  `k`, whichever of equal values is at the front of the heap.
* `TokenLawHolds`: `SamplingSpec /\ VerifySpec => []TokenLaw` if `Drift = 0`, for
  vocabularies, drafts and distributions of any size, any policy, and however the
  sorts order what compares equal.
* `FiltersKeep`: `SamplingSpec => FiltersKeepBest`, an action property, whatever `Drift`.
* `PreciseUpToLimit` (`UnitProofs`): `AccumulatorSpec => []AccumulatorPrecise` for rows of
  at most 133144 int8 products, `2^31 - 1` over `127^2`.
* `ExpertsCombined`: `MoESpec => []CombineExact` for any positive
  numbers of tokens, experts and choices.
* `RotaryRelative`: `RotarySpec => []PositionsRelative` for two pairs turned by any
  whole quarter turns per position, any scale, either layout of the pairs, and
  chunks of any sizes.
* `BlocksHaveOneOwner`, `TensorsKeepContents`: `Spec => []OneOwner`
  and `Spec => []ContentsKept`, for every set of names, addresses, sizes and
  capacity, and any alignment that `Tensor` may ask for up to `MaxAlign`, 16. Beyond
  that `OneOwner` is false of the heap allocator (see the disagreements).
* `TraceNests`, `StatisticsConsistent`: `ProfilingSpec => []EventsNest`
  and `ProfilingSpec => []StatsConsistent`, for every clock, depth and set of names.

For three of the kernels that `MatchesReference` and `RecurrencesMatch` compare with a
reference, about instances with every size open:

* `GemmExact` (`UnitProofs`): `Spec => []MatchesRef` of `Gemm`, for any tile and any batch of
  shapes, the empty ones among them, unless `beta` is 0 and the old C a NaN: every
  element has every product once, in the order of `gemm_ref`.
* `LinearExact` (`FlashDecodeProofs`): `Spec => []RecurrenceIsAttention` of
  `LinearAttention`, for any numbers of heads, tokens, features and dimensions, and any
  integer features, normalized or not.
* `ScanExact`: `Spec => []ChunkedMatchesRef` of `SelectiveScan`, for any numbers of batches,
  channels, steps, state dimensions and taps, any `chunk_size` and any delta.

### Assumptions

They say what kind of value each constant is, and no more than the code needs:
`LayoutAssumption` (`num_blocks` a natural number, `block_size` a positive one),
`BoundsAssumption` and `WorkloadAssumption` (bounds and prompt lengths are naturals,
limits of tokens any integers), `HeadsAssumption` and `QHeadsAssumption` (heads and dimensions are positive,
query heads a multiple of the others), `PromptsAssumption` (prompts are sequences of
tokens; clients may be infinitely many), `FlashAssumption`, `TreeAssumption`, `TopKAssumption` (any integers for the columns
and `k`), `SamplingAssumption` (temperature keeps scores within `MaxScore`; probabilities are
fractions, `min_p` at most 1 and `typical_p` positive), `VerifyAssumption` (the grid of random
numbers is divided by every number up to `Whole`, so that counting its points is
probability), `AccumulatorAssumption`
(products of two int8 numbers of magnitude at most 127, as quantization makes
them), `TensorsAssumption` (a positive alignment; values are naturals, 0 among them) and
`ProfilingAssumption`. Five premises are in the theorems that
need them: `Align <= MaxAlign` (what `HeapAllocator` frees with is what it
allocated with), `Drift = 0` (what the weights add up to is their sum),
`Decodable` (`max_seq` is positive and the block table has room for it, as the
callers of both caches see to; windows and chunks are naturals),
`Routable` (there are tokens, experts and choices) and `Rotatable` (angles and
scales are integers, of two pairs). The constants of the last three theorems are
typed by `GemmConstants`, `LinearConstants` and `ScanConstants`: sizes are naturals,
tiles positive, features and `chunk_size` integers; a scanned sequence has a step.

### Arguments

*Cache manager.* `FreeIffUnreferenced` is inductive together with `TypeOK`: a release
moves a block to the free list only from count 1 to 0, so it cannot be there
already, and an allocation pops blocks that, by the invariant, have count 0,
so setting the count to 1 loses nothing. Sharing keeps it because the entry
named before and the block named after differ (`Share`); `cache_repeat` shows
that the proof cannot do without this. The strengthening `Counted` adds
`RefcountsAccounted`: each operator of `CacheManager` has a lemma that says how
it changes the count of every block and the number of table entries that name
it. `IdsRecycled` is inductive given `Consistent`. `TokensInBlocks` is not: it follows
from `Backed`, which adds to `Counted` that every position below `seq_len` has an
unpadded table entry; that the entry's block is referenced is then a matter of
counting. Growth needs `~ Padded` here, as padded entries count as capacity. For
`PoolImplemented` the same invariant makes an allocated block, which comes off the
free list, one that no table names and nobody holds; that the table grows to just
the blocks of its new length is that `BlocksFor` rounds up and no further
(`BlocksForNat`, `BlocksForTight`).

*Loops.* `Releasing`, `Admitting`, `Committing`, `Collected` and `Evictions` are
recursive functions of the number of iterations, and an invariant of a loop is
proved by induction on it. The library's schemes take the induction predicate as
an operator; `SetInduction` in `CacheManagerProofs` takes the set of numbers that
satisfy it instead.

*Scheduler.* `PoolOK` restates the manager's invariant for a caller that never
shares: counts are at most 1, tables are not padded, nothing is held outside.
`SchedulerInv` adds the lifecycle, the decode slot, and that no active request has
reached its limit. It is preserved by each iteration of the admission loop and of
the commit loop; the state between two iterations of the latter is described by
who has been committed, which is why `SlotReserved` and `Unfinished` are stated of
each request and not of the state as a whole. That the view is current is not
preserved step by step but follows from one conjunct: during a step the view is
what `ViewOf` builds from the present tables, as `submit` touches none.
`NobodyCutShort` is a count: a request is cut only when the free list is shorter
than its growth, and the tables of the other active requests, each within the
blocks of the largest request, cannot then fill the pool. The refinement needs
`Numbered`, by which serial numbers name one request each.

*Paged pools.* `OffsetsInjective` is uniqueness of quotient and remainder
(`MixedRadix`), applied once per dimension. `DecodeInv` says what is in the pools: for
each active request, all that the view shows once the appends are done, and before
that all but the token decoded last. An append keeps it because the addresses it
writes are in blocks of its own request's table (`OffsetsInjective`) and no block is
in two tables (`SchedulerInv`); blocks that pass to another request take their
contents along and are below no `Cached` position of the new owner until it has
written them. `AttentionReadsOwn` then reads the rows through the view.

*Prefix cache.* `ReferencesAccounted` and `BitExact` are inductive only together.
Every count is one for the node that carries a block and one for each client
that holds it; that a block has at most one such node follows from what it
contains (`Exact`: a block's content is the prefix of its node), and so does that
a client holds a block once. In turn, contents stay right because a block is
refilled only when its count is 0, hence in no node and held by nobody. The
clients' part of the invariant is stated apart (`ClientsOK`), as eviction changes
the tree and the manager and not them. An eviction is a sequence of rounds of
`EvictOne`; each keeps `CacheOK` and, for `LeastRecentFirst`, leaves in the tree only
nodes that were there, with their ticks, so that the victim of a round was least
among all that remain. Pruning removes the longest run of childless, blockless
ancestors of the victim: any node that keeps an extension with a block is not on
it, which is `TreePruned`. For `PrefixesFresher`, a lookup or insert stamps all
prefixes of the node it reaches that carry a block with a tick above all others.

*Sequences in calls.* `ChunkedInv` says that each cache holds, at the address of every
position that stands, the row of the token that stands there, and that each token
read the rows of `KeysOf`: the keys it would attend to if it were decoded alone. A
mask leaves a query the same keys whatever call it is part of (`KeysSame`), as only
its position counts, and none after itself (`KeysBefore`), so rows rewritten
after drafts were taken back are rows no token that stands has read. An append
writes the rows of its own positions (`DigitsOf` for the dense cache,
`KvAppendAt` for the pools) and leaves those below `past_len`; that the table gives
every position a place of its own is `PlacesOfPositions`. Both properties follow.

*Kernels.* `TilesOnce` needs to know where a split stands: `FlashInv` says that the
tiles before `j0` of this split, and all of the splits before it, have been added
once and nothing behind has; a split begins where the one before it ended,
rounding up included. For `FlashExact`, `SumsInv` says more: the part and what is
merged are each the softmax of the keys added to them so far, relative to the
largest score of those. To add a tile or to merge a split then divides by powers of
two that divide exactly, since every weight counts a score at most `MaxScore` below,
and a sum over two disjoint sets of keys is the sum of both; sums over finite
sets are folds, proved about by an induction on sets of sets (`SubsetInduction`)
in place of the library's, which has the predicate as an operator.
`TreeExact` says of the row being built that it shows its node's path but for what
the walk still has ahead (`TreeInv`); a key with a bias of `-inf` then weighs as
much as one that is not there (`MaskedIsAbsent`).
`RoutingExact` keeps of the heap (`HeapOK`) that nothing it dropped exceeds anything in
it, and that the first of the largest values so far is in it: a later value evicts
the front only by being greater. That the survivors can be sorted is proved by
induction on their number (`SortingExists`); the gates, renormalised or not, are
relative to the same largest value, as it is among those kept.
`TokenLawHolds` has two halves. `SamplingInv` says that a token left is not one of
probability 0, that its logit is the input's times the inverse temperature, and
that up to typical-p no token left is less likely than one masked. Each filter
keeps a token that is not masked (`KeepsSome`): the walk of top-p and typical-p
stops at a token without which the mass was not covered, so what it keeps
cannot all weigh nothing (`WalkKeeps`). A draw is the interval of the cumulative
weights that `u` falls in, which is as long as the weight (`DrawnCount`). In the
verifier, a draft token is accepted by the smaller of two probabilities
(`AcceptedPoints`), and what the target has more than the draft, summed over all
tokens, is what the draft has more than the target (`ExcessBalanced`); so the mass that
is rejected is the mass that the corrected distribution hands out, each token
what it lacks (`WaysAreTargets`). `FiltersKeep` exchanges elements one by one: no set weighs
more than one of as many of the heaviest (`Heaviest`), and the walk without its last
token did not cover `p`.
`LinearExact` states the state after some tokens as sums (`OuterSum`, `KeySum`), which
`SumOfPrefix` extends by one; that the output is attention is then an exchange of the
sum over features with that over tokens (`SumExchange`, `SumBilinear`). `ScanExact` says
that the carry is the reference's state at the last step done, across chunks, and
that the tables are right for the steps still to come in this chunk, whatever
they hold beyond it. The reference is a recursive function of time; that it
obeys its own equations is an induction (`StatesExist`), and that the convolution
which stops at the beginning of the sequence is the filter over one padded with
zeros is a sum without its zeros (`ConvIsFilter`).
`PreciseUpToLimit` bounds the total by the number of entries so far times the
largest product, so that no sum wraps. `ExpertsCombined` rests on the rank of a
slot: the number of slots before it by expert and, within an expert, by position.
The rank is a bijection, and the lanes, the cursors while slots are placed, the
places themselves and the order in which terms are added are all stated in it
(`MoEInv`). `RotaryRelative` keeps of each cached row that it is the row of its
position (`RotaryInv`), so chunks leave no trace; that two rows score each other
by their distance is then that the turns of a pair subtract (`TurnsAdd`).
`TensorsInv`
adds to both properties that live allocations in the arena are disjoint and
below `offset`, but for those a reset has made stale, and that only tensors with
data have contents. `TraceNests` orders open scopes by their starts and says
that every event ended before now and began, or ended, on the right side of
every scope still open; division by `Micro` is monotone. `GemmExact` counts, for each element, the
products it has been given (`GivenTo`): all of them above the tile, none below it, and
in its rows up to the end of this tile or of the one before; the three loops
then move between states of that count, and an empty `k` or `n` still has the one
tile that adds nothing.

### Model-checked only

* `ServedUnlessBlocked` is liveness under fairness, which the prover does not do.
* `QuantizationClose`, `StoredNearest` and `ElementsTracked` speak of roundings and index
  maps. Most are comparisons of two algorithms over all inputs of a bounded set,
  which is what TLC does.
* `MatchesReference` and `RecurrencesMatch` are stated of the caller's five kernels on
  fixed sizes; of their conjuncts `GemmExact`, `ScanExact` and `LinearExact` are proved with every
  size open, those about the WKV recurrence and the passes over a row are not. The
  sums of `Wkv` and of the online softmax are exact only while exponents stay within the
  bits of `One`, so that a theorem would say little more than the run. Welford's
  variance has no such bound and is simply not proved.
* The four disagreements of the next section are counterexamples, not theorems.

## Where the code and its documentation disagree

Each is the counterexample of a run.

* **`cache_repeat`** `reference_block` (`cache_manager.cpp:92`) releases the
  entry it replaces before it retains the new block. If both are the same block
  with one reference, the block ends on the free list *and* in a table.
* **`prefix_hole`** after an insert all nodes of a path have one tick, and
  `find_lru` evicts the first it meets, the beginning of the path. The node
  stays, with no block, because it has children. `lookup` walks through it,
  counts its tokens, and returns the blocks behind it one place too early
  (`prefix_cache.cpp:41`).
* **`prefix_freed`** `evict_until_free` returns the number of blocks dropped from
  the tree (`prefix_cache.cpp:123`), not "the number of blocks freed".
* **`scheduler_recycled`** `generated(id)` of a new request is the count of the
  finished request that had its id (`scheduler.cpp:81`).

The models of the kernels met more disagreements. They lie outside the bounds
and premises of the runs, which say how the code behaves elsewhere; each line
names what excludes it.

* `ensure_capacity` counts the `-1` entries that pad a table as capacity
  (`cache_manager.cpp:67`): a padded request is told it has room for positions
  that have no block. Excluded by the guard of `Grow`.
* When the *bias* masks every key a query may attend to, `sdpa` gives NaN
  (`attention.cpp:113`) and flash attention 0 (`:222`). `HardMasked` is `FALSE`; with
  `TRUE` the run finds it.
* Ties in top-k: the heap compares values alone (`reduction.cpp:78`), so the lowest
  index need not survive at the boundary, against `reduction.hpp:22`.
  `KeepsLargest` and `TopIsArgmax` speak of values and of the head. With `k > dim` the
  rows of the output are `dim` apart (`:94`), and not `k`, as `reduction.hpp:21`
  has it; `Kept` is that stride.
* `apply_top_k` takes as its pivot the last of the first `k` after `nth_element`,
  which is any of the `k` largest (`sampling.cpp:59`), so fewer than `k` may stay,
  and at a tie more. `TopPSmallest` is about what it leaves.
* After another filter has masked a token the entropy of the typical filter is
  NaN (`sampling.cpp:149`) and it keeps tokens in any order; hence the premise of
  `TypicalClosest`. With `typical_p` 0 it then keeps the first token it meets
  (`:166`), also if that one is masked, and none is left; `SamplingAssumption` excludes it.
* When rounding leaves the weights short of 1 the draw may return the last token,
  masked or not (`sampling.cpp:197`). `Drift` is 0; with 1 the run finds it.
* fp8 flushes the binade between half of its smallest subnormal and that number
  to 0 (`dtypes.hpp:149`), where it should round up; the exception in
  `StoredNearest`.
* With `beta = 0` the reference keeps a NaN of the old C (`gemm.cpp:13`) and the
  blocked product overwrites it (`:31`). `Unset` is `FALSE`; with `TRUE` the run
  finds it.
* Rows longer than 133144 overflow the accumulator (`gemm_quant.cpp:41`), which
  `PreciseUpToLimit` excludes; with `Blocks = 17` the run finds it.
* A row that begins with `-inf` is NaN to the online softmax (`softmax.cpp:42`) and
  not to its reference; hence the premise of `OnlineIsTwoPass`.
* `HeapAllocator` allocates with the alignment it is asked for if that is above 16
  (`allocator.hpp:33-37`) and frees with 16 whatever it was (`:42`), which is
  undefined for a block of another alignment. `Tensor`, its only caller, asks for 8;
  hence `Align = 8` in the run and the premise of `BlocksHaveOneOwner`. With
  `Align = 32` the run finds it.

The documents of the performance model disagree with its code and with each
other. No module models it (see below), and no run shows this.

* `docs/silicon/perf_model.md:18` says that a kernel is compute bound when
  `t_compute > t_memory` and memory bound otherwise. `predict` calls it balanced when neither
  time is more than twice the other (`perf_model.cpp:141-152`). This decides: on the server
  profile `selective_scan` and `sample` have a `t_compute` of 1.8 and 1.7 times their
  `t_memory`, so that the document's rule makes them compute bound, the opposite of
  their dossiers (`kernels/ssm.md:35`, `kernels/sampling.md:25`), where the code
  says balanced, which `test_perf_model.cpp:63` accepts.
* `docs/silicon/kernel_engine_map.md` has `moe_expert_mlp` memory bound in its table (`:37`)
  and the per-expert MLP compute bound in its summary (`:73`); the test expects
  balanced, which accepts any bound.
* A kernel that moves no bytes and has no flops is balanced to `predict` (`:144`) and
  compute bound to `classify_roofline` of the bench harness (`bench_util.hpp:76`); and the
  harness compares with a fixed ridge of 10 (`:74`), not with that of an engine.

## What is not modelled

* **Floating-point rounding** of sums and of the transcendental functions, and so
  what only that decides: `activation.cpp`, `rmsnorm`, the loss of precision in the
  one-pass variance of `layernorm`. Real formulas without control: the slopes of
  ALiBi, the stretched frequencies of NTK and YaRN.
* **Printing and input/output**: `print_summary`, `write_chrome_trace`, the CSV and
  tables of `bench_main.cpp` and `silicon_sim_main.cpp`; `run_one` and `percentile`, a
  loop around a clock and a sort.
* **The performance model** (`src/tools/perf_model`) and the classifier of the bench
  harness: each prediction is one formula of one kernel's flops, bytes and engine,
  without state, order or failure. That the formulas follow from each other is
  algebra, and that they place the kernels of the suite as a table of constants
  does is the table's business, which `test_perf_model.cpp` compares in full.
* **Code nobody calls**: `blocks_mut`, `descend_or_match` (declared, never
  defined), `last_occ_`.
* **Misuse the headers forbid** is excluded by the clients' guards: retaining a
  free block, growing a padded table, writing to a tensor whose arena was reset,
  a tree whose parents are not in topological order, `top_k` above the number of
  experts.
* **Prefix cache and scheduler on one cache manager**: the repository has no
  driver that joins them, and its scheduler never calls `reference_block`.
  `PrefixClients` and `Scheduler` model each with the manager.
