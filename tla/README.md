# A TLA+ model of simdsieve

simdsieve finds every offset of a haystack at which one of a set of byte patterns occurs. A hardware filter reports, block by block, the positions where the first four bytes of some pattern occur; the full pattern is then verified there. This directory models that machinery, model-checks it with TLC, and proves parts of it with TLAPS.

Paths below are relative to the repository; line numbers are in `PROJECT.json`, which maps every definition to its source.

## 1. The system

| Component | Source | State it keeps | Operations |
|---|---|---|---|
| Folding, verification | `src/fold.rs` | none | `fold_byte`, `fold_slice`, `verify_exact`, `verify_case_insensitive` |
| Scalar filter | `src/scalar.rs` | packed prefixes (immutable) | `new`, `check_64byte_block` |
| SIMD filters | `src/avx512.rs`, `src/avx2/mod.rs`, `src/neon.rs` | broadcast prefixes (immutable), `max_len` | `new`, a dual and a single `check_*byte_block` |
| Block dispatch | `src/sieve/dispatch.rs` | `offset`, `current_mask`, `next_mask_cache`, `mask_base_offset` | `fetch_next_chunk` |
| Iterator | `src/sieve/collector.rs` | the same fields | `next`, `size_hint` |
| Density estimate | `src/sieve/mod.rs`, `compiler.rs` | a local sieve and a count | `estimate_match_count`, `fail_safe_density` |
| Construction, tier selection | `src/sieve/compiler.rs`, `src/multi.rs`, `src/error.rs` | loop indices, the lists built | `build` of four types, `select_hardware_tier`, `scan` |
| Merge | `src/multi.rs` | one head per sieve (two-array, three-array or heap), `last_yielded` | `MultiCandidates::new`, `next` |
| Fuzzing harnesses | `fuzz/fuzz_targets/` | the data, the cut position | cut patterns and haystack, build sieves, assert on what they yield |

How they interact: construction deduplicates patterns, finds `max_len`, and selects a filter; `fetch_next_chunk` hands the filter slices of `block + max_len - 1` bytes and stores its masks in the fields of the sieve; `next` (and, on its own, `estimate_match_count`) consumes those masks and calls `fetch_next_chunk` again; a multi-sieve polls the `next` of several sieves and merges the answers. All calls are synchronous and nothing is shared between threads: a compiled sieve is immutable and each scan owns its state. There is no I/O, no persistence, no timeout.

What is hard here is not concurrency but *protocol*: the four fields of a scan are written by two files, in branches that leave some of them as they were (`next_mask_cache` is not written when only the second half has candidates; the half stride is a literal in one place and a `match` in another); slices must hold exactly the bytes an unchecked load may touch; the block loops and the byte-by-byte tails must meet; masks must be consumed before they are overwritten; duplicates are dropped by comparing neighbours only. What makes each component correct:

* filters: the mask is exactly the set of prefix hits, no load leaves the slice, no bit leaves the mask;
* dispatch and iterator: every match once, in ascending order, then `None` for ever; no panic; every call returns;
* estimate: it counts exactly the prefix hits of the window, and is never below the number of matches, also when nothing can be built;
* construction: the distinct patterns, all of them, in non-empty sieves of at most 16, with the right `max_len`, the same whether built directly or compiled and scanned; a tier the processor can run; the right error otherwise;
* merge: the union of the sieves' matches, ascending, each once; one head per sieve;
* multi-sieve as a whole: the matches of the caller's list, whatever sieves it was dealt out to;
* fuzzing harnesses: they panic on an offset just if it is no match, and never by an index of their own.

The full list of hazards, each at its line with the properties that watch it, is under `hazards` in `PROJECT.json`.

## 2. The modules

```
Fold <- Matching <- Filter <- ScalarFilter <- MCScalarFilter
                           <- VectorFilter <- MCVectorFilter
                 <- PatternSets <- Construct <- MCConstruct, Construct_proofs
                                <- FuzzTargets <- MCFuzzTargets, FuzzTargets_proofs
                                <- MultiSieve <- MCMultiSieve, MultiSieve_proofs
        Dispatch, PatternSets <- Collector <- MCCollector, Collector_proofs
        Dispatch, PatternSets <- Estimate <- MCEstimate, Estimate_proofs
MultiCandidates <- MCMultiCandidates, MultiCandidates_proofs
ScalarFilter, VectorFilter, PatternSets_proofs <- Filters_proofs
PatternSets <- PatternSets_proofs <- Collector_proofs, Construct_proofs, Estimate_proofs,
                                     FuzzTargets_proofs, MultiSieve_proofs

instances (INSTANCE ... WITH):
  Collector, MultiCandidates   of MatchStream
  MultiSieve                   of Collector (its sieves), MultiCandidates (its merge)
                               and, through the latter, MatchStream
  MultiSieve_proofs            of Collector_proofs, MultiCandidates_proofs
```

| Module | Models |
|---|---|
| `Fold` | `fold.rs` on bytes 0..255, with u8 wrapping. |
| `Matching` | What a *prefix hit* and a *match* are (the first `PREFIX` bytes of a pattern; the verifier on the whole pattern), `PrefixHits`, the contract of a filter, and `IsMaxLen`. |
| `Filter` | What the filters share: the block and prefixes they are handed, and what `new()` stores of a pattern. In `ScalarFilter` the names that `VectorFilter` has too begin with `Scalar`, so that one module can prove about both. |
| `ScalarFilter` | `check_64byte_block` of `scalar.rs`: one action per turn of the unrolled loop, the tail loop and the pattern loop. A `u32` is a tuple of bytes; xor-and-mask is comparison of the bytes that count. |
| `VectorFilter` | The SIMD filters, register by register: `new()` (folded prefixes, `max_len`), `Load` (the loads `max_len` asks for, folded, the other vectors aliased to the first), `FilterPattern` per pattern. The tiers differ in the size of a register and how many make a half, in `fold_avx2`, `fold_avx512`, `fold_neon` (signed and unsigned byte comparisons), and in how a mask is made (`neon_movemask`: weighted lanes, three pairwise additions, the upper half shifted into place). |
| `Dispatch` | The fields of a `SimdSieve` and `fetch_next_chunk`, one action per turn of its loops. A `u64` mask is the set of its one bits. A filter's answer is `PrefixHits`, which the two filter modules show it to be. |
| `Collector` | `next()` and `size_hint()`: one action per turn of the loops of `next`, with `fetch_next_chunk` of `Dispatch` in between. `emitted` and `yields` record what was returned. |
| `MatchStream` | The abstract specification of an iterator over a set of matches: each step returns the least one not yet returned, and then `None` for ever. |
| `PatternSets` | Lists of patterns: what is distinct, where one is empty, how a list is dealt out to sieves. |
| `Estimate` | `estimate_match_count` of `SimdSieve` and of `CompiledSieve`: routing by list length, the 4 KB window, the fail-safe, the popcount loop over `Dispatch`, both tail loops. |
| `Construct` | `build` of `SimdSieve`, `CompiledSieve`, `MultiSieve` and `CompiledMultiSieve`, one action per loop turn; `select_hardware_tier` on a processor given as architecture and features; `scan()` of the compiled forms, slot by slot. |
| `MultiCandidates` | The k-way merge with its three representations. A sieve is what `MatchStream` promises. |
| `MultiSieve` | A multi-sieve whole. The caller's list is dealt out in chunks; the one sieve being polled takes `Collector`'s steps, instantiated on the fields of that sieve; the others wait, with half a block of candidates perhaps; what a sieve returns is handed to `MultiCandidates`, instantiated on the merge's fields. |
| `FuzzTargets` | The three harnesses: how each cuts its data, the sieves it builds in turn, and its assertions. The sieve may yield *any* offset, also a wrong one: a harness is there for sieves that are wrong, and with a correct one no assertion would ever be put to work. |

**Steps and calls.** In every state machine `pc` says where the code is; a call by the environment (`Poll`) is an action of its own, so that callers may stop at any point between calls. The operators named `X_Something` just before `X`, each marked *a bug to catch*, are not part of the model: they are plausible errors, kept to show that a property can fail.

**Parameters.** `PREFIX` (4 in the code), `LANES` (32: bytes of an AVX2 or NEON pump), `MAX_PATTERNS` (16), `WINDOW` (4096), `BLOCK` (64), `UNROLL` (4). The theorems hold for all values; the runs use small ones where a few bytes must reach every boundary. `Beyond`, of `FuzzTargets` only, bounds how far past the haystack a wrong offset may lie.

## 3. The runs

| Run | Question | Bounds, and why they suffice |
|---|---|---|
| `MCCollector` / `small` | Does a sieve yield exactly its matches, in order, each once? Are pending masks, base and offset always consistent? Can it panic? | `LANES = 1`, `PREFIX = 2`: every haystack of up to 8 bytes over {a, b} is up to four dual blocks (two for AVX-512), a single block and a tail. All tiers and both case modes; patterns of one byte, of exactly and of more than the prefix, and mixed. |
| `MCCollector` / `real` | The same with the code's constants. Does every call of `next()` return, and does collecting end with all matches? | 32-byte lanes, haystacks of 0 to 197 bytes with lengths around each block size plus `max_len - 1`, patterns planted across the boundaries at 32, 64 and 128 and at the end. |
| `MCCollector` / `size_hint` | Is the upper bound of `size_hint` one? | The code's constants and 64 bytes with a match at each, one block of every tier. Violated: see findings. |
| `MCEstimate` / `estimate` | Does the estimate count exactly the prefix hits of the window, cover the real matches, stay in bounds and return? | `WINDOW = 6`, inputs of up to 7 bytes (one cut), two patterns to a sieve, lists that are empty, too long, with an empty pattern in either route, repeated, of mixed lengths; each both as a call of `SimdSieve` and of a `CompiledSieve`. |
| `MCEstimate` / `tail_counted` | Is the tail left out of the estimate? | Violated: see findings. |
| `MCConstruct` / `construct` | Are distinct patterns kept, in order, in legal sieves, with empty slots behind them? Is a compiled and scanned sieve the direct one? Does the processor have the instructions of the tier? Are errors the right ones? | `MAX_PATTERNS = 2`; every list of up to three over {empty, short, two long} and of up to five over three non-empty ones: up to two chunks, partial and full ones. Ten processors: every subset of the three x86 features, aarch64, another. |
| `MCConstruct` / `only_empty_set` | Can only an empty set fail a multi-sieve? | Violated: see findings. |
| `MCMultiCandidates` / `merge` | Does the merge yield the union, ascending, each once? One head per sieve? Does it end? | One to four sieves (so Two, Three and both Heap cases), each with every subset of three offsets: every tie and every order of exhaustion. |
| `MCMultiSieve` / `multi` | Do real sieves, polled in the order the merge chooses, do what the merge assumes of them? Is the result the caller's matches, ascending, each once, all of them? | Two patterns to a sieve, lists of one to eight (one to four sieves: Two, Three and two sizes of Heap), one-byte half-blocks, so that sieves wait with a block half looked at; haystacks of 0 to 7 bytes, both case modes, three tiers (NEON's geometry is AVX2's). |
| `MCScalarFilter` / `scalar` | Is the scalar mask exact? Do the two loops meet? | Every block of 4 or 5 bytes over {0, A, a, 225}, two-byte words, two per turn; the theorem covers the rest. |
| `MCVectorFilter` / `vector` | Are the SIMD masks exact? Do loads stay inside? | The code's register sizes; blocks that contain every byte value, prefixes across the boundaries of registers, halves and blocks. The theorems cover the rest. |
| `MCFuzzTargets` / `fuzz` | Can a harness slice out of bounds? Does it panic on just the offsets that are no match? | Every input of up to five bytes over letters of both cases and a multiple of sixteen, and longer ones for seven patterns, for varied lengths and for as many patterns as a sieve holds (`MAX_PATTERNS = 8` here); offsets up to two past the end. |

`CHECK_DEADLOCK FALSE` appears only where the model is of a single call that returns.

### Fairness

`WF` of the steps of a call in progress: a call runs on its caller's thread, and nothing in it waits for anybody. The caller is under no obligation to call again; only the runs that ask whether *collecting* ends (`CollectSpec` in `real`, `merge` and `multi`) add `WF(Poll)`, that is, `collect()` or a `for` loop. In `MultiSieve` the steps of the polled sieve and of the merge are one call on one thread, under one `WF`.

### Refinements

`MatchStream` is what a caller is promised: each answer is the least match not yet returned, then `None` for ever. Three modules are shown to implement it, each with `StreamSpec == Stream!Spec`:

* `Collector`: `emitted`, `yields`, `done` stand for themselves, the rest is hidden (runs `small` and `real`; proved);
* `MultiCandidates`, for the union of its sieves' matches (run `merge`; proved);
* `MultiSieve`, for the matches of the caller's whole list (run `multi`; proved). There, `MergeSpec` is the other half: with the sieves seen from outside, every step is a step of `MultiCandidates` or a stutter, so that the abstract sieves of `merge` lose nothing.

### Findings

* **`size_hint`** (`src/sieve/collector.rs:11`): the upper bound is `haystack.len() - offset`, but `offset` has passed the whole block while its candidates are still to be returned. On 64 bytes `a` with pattern `a`, one block of every tier, `size_hint` is `(0, Some(0))` after the first `Some(0)`, with 63 offsets still to come. `README.md:154` says that `SimdSieve` implements `Iterator`, whose contract is that the bound holds at any time. The unit test named for it, `size_hint_upper_bound_is_correct` (`tests/unit/hardening.rs:481`), asserts only that the bound of a fresh sieve is at most the length of the haystack. What the tail loop scans advances `offset` byte by byte, so on haystacks shorter than a block the bound is right.
* **`estimate_match_count`** counts the tail (`src/sieve/mod.rs:125`), although the comments of three tests say that it does not.
* **`MultiSieve`** (`src/multi.rs:74`): an empty pattern also fails construction; the documentation says that only an empty set can.

An observation without a run of its own: `fuzz/fuzz_targets/fuzz_multi.rs:16` says that the first byte gives the "number of patterns (1-8)", and line 4 that the harness covers "the edge case of exactly 8 patterns". The code takes `data[0] % 8`, which is never 8: `AtMostSevenPatterns` proves it, and the block under `if num_patterns == 8` at the end of the harness is dead.

## 4. The proofs

All theorems are about the specifications that TLC checks, without bounds on haystacks, patterns or widths.

**`Collector_proofs`.** `SieveImplementsStream`: `Spec => StreamSpec`, a sieve implements `MatchStream`. The inductive invariant `IInv` has the parts

* `TypeOK`, and `MaxLenBounds` (`max_len` is the longest prefix);
* `SingleIsDual`: the scalar tier's cache is empty — why `half_block_stride` cannot panic;
* `MaskGeometry`: the bits of `current_mask`, at `mask_base_offset`, and those of `next_mask_cache`, one half further, describe the bytes before `offset`;
* `Drained`: no candidates are pending whenever a block is fetched or the tail is entered;
* `Frontier`: the matches below `offset` are exactly those returned and those still among the candidates, and nothing returned lies after a candidate.

`Frontier` alone is not inductive: `SwitchHalf` preserves it only if the cached bits lie where the new base puts them (`MaskGeometry`), and `DualPump` only if it overwrites nothing (`Drained`). The argument for a block: every match is a prefix hit, and the `max_len - 1` trailing bytes make every prefix hit of the block visible in the slice. From `IInv`, each step either returns the least match left, ends with none left, or stutters. The theorems `TypeCorrect`, `MasksMatchScan`, `NothingOverwritten`, `FrontierHolds` and `NeverPanics` state the parts. Assumptions: `PREFIX` and `LANES` are positive, haystacks and patterns are byte sequences, pattern lists are what construction leaves (1 to `MAX_PATTERNS` non-empty patterns).

**`Filters_proofs`.** For AVX-512, AVX2 and NEON, the dual and the single entry point, and every block and pattern list that meets the caller's contract: `LoadsStayInBounds` (no load leaves the slice), `FiltersExact` (the mask of each half is `PrefixHits`) and `TypeCorrect` (no bit outside a half). The invariant has, beside `TypeOK`, five parts: `BlockFits` (the slice is `max_len - 1` bytes longer than the block, which `dispatch.rs` sees to), `FilterBuilt` (what `new()` has stored so far, and that `max_len` is the longest of it), `VectorsLoaded` (vector `j` holds the folded bytes at offset `j` for every `j` below `max_len`; nothing is said of the aliased rest), `LoadsInBounds`, and `MasksSoFar` (after `p` patterns the masks hold the hits of the first `p`). `MasksSoFar` needs `VectorsLoaded` only below `max_len`, and `FilterBuilt` for no pattern being longer: that is why aliased vectors do no harm. Two theorems carry the instructions: `FoldsAgree`, each tier's fold is `fold_byte` on all 256 bytes, signed or not; and `NeonMovemask`, weighting sixteen lanes, adding them up pairwise three times and shifting the upper byte into place gives the lanes back as bits.

For the scalar filter, which comes last in the module, `ScalarFilterExact`: the mask returned is `PrefixHits`. The invariant `MaskSoFar` says what the mask holds in the middle of the loops; it needs `Aligned` (the positions left are a multiple of `UNROLL`, so that the unrolled loop never tests a position beyond the block) and `ScalarBlockFits` (the slice is long enough for every pattern, so that no pattern is skipped — from `dispatch.rs`, which sizes it). Assumption: `BLOCK` is a multiple of `UNROLL`.

**`PatternSets_proofs`.** `VerifiersAgree`: `verify_case_insensitive` is `verify_exact` of the slices `fold_slice` makes, for slices of any lengths. Beside it, the lemmas the other modules cite: what `fold_byte` keeps and identifies, that a longest prefix exists, and about lists of patterns of any length, that `Unique` repeats nothing and loses nothing, that it grows by one pattern at a time in the order of the list, and that `Chunks` are non-empty, at most `MAX_PATTERNS` long, free of repetitions and together the list. `Unique` is defined by the rank of an element among the first occurrences rather than by recursion, which is what puts it within reach of the prover.

**`MultiCandidates_proofs`.** `MergeImplementsStream`: `SafeSpec => StreamSpec`, for any number of sieves and any finite or infinite sets of matches. The inductive invariant has `TypeOK`, `Primed` (a sieve not polled yet has returned nothing), `OneHeadPerSieve`, `DrawnIsKept` (what a sieve has returned is among what the merge holds or has returned) and `MergeFrontier` (the matches up to `last_yielded` are exactly those returned; nothing lies below it in any head). `OneHeadPerSieve` and `MergeFrontier` are not inductive without `DrawnIsKept`: when a refilled head replaces another, nothing else says that the one replaced was returned. `TypeCorrect`, `OneHead` and `FrontierHolds` state the parts.

**`MultiSieve_proofs`.** For lists, haystacks and geometries of any size, and any number of sieves. `SievesAreStreams`: `CollectSpec => MergeSpec`, every step of the sieves and the merge together is, with the sieves seen from outside, a step of `MultiCandidates` or a stutter. `MultiSieveImplementsStream`: `CollectSpec => StreamSpec`, the caller gets the matches of its list. The module instantiates `Collector_proofs` and `MultiCandidates_proofs` as `MultiSieve` instantiates their modules and cites their lemmas: a step of the polled sieve keeps the invariant of `Collector`, its answer (`StepAnswers`) is the least match of that sieve not yet returned, and such an answer is a step of the merge that keeps the merge's invariant (`NextKeepsIInv`). What has to be added is `Waiting`: every sieve that is not being polled is `AtRest`, that is, as the invariant of `Collector` says of a sieve between two calls, with candidates left in its masks perhaps; without it nothing would be known of a sieve when its turn comes again. `Calling` says the same of the polled sieve, and that the fields of the merge stay as they are until it answers; `InputOK` that the sieves are the chunks of the list. `MatchesOfChunks` (`PatternSets_proofs`) closes the argument: the chunks have together the matches of the list. Assumptions: those of `Collector_proofs`, that the lists are non-empty and without empty patterns, as `build` sees to (`Construct`), and that the tier is one of the four.

**`Construct_proofs`.** For lists of any length and every processor. `NoPatternLost`: the sieves built are the distinct patterns in order, each sieve is non-empty and at most `MAX_PATTERNS` long with the right `max_len` and empty slots behind its patterns, and the compiled form, scanned, is the direct one. `OnlyDetectedInstructions`: the tier is one the processor can run. `ErrorsAreRight`: construction fails just on the conditions the code names, with their error. The invariant says of each loop what it has built so far (`BuiltAsAsked`, `MultiLoops`, `SieveLoop`): what is kept is `Unique` of the prefix of the list read. A chunk of distinct patterns has no repetitions, so that the second deduplication, in the build of each sieve, drops nothing.

**`Estimate_proofs`.** `CountedExactly`: what is counted at any time is exactly the prefix hits of the window before `offset`, none twice over the change from blocks to tail. `RecallHolds`: at the end the estimate is not below the number of matches of the window, whatever could not be built. `LongTailFits`: the tail loop stays inside the window. `TypeCorrect` besides. The step of a block needs that popping the bits of a mask counts the hits of the block: the mask, shifted, is in bijection with them, so both have one cardinality; a match is a prefix hit, so that the count is not below the matches.

**`FuzzTargets_proofs`.** `CutsStayInBounds`: no input makes a harness slice out of bounds. The check before the loop of `fuzz_multi` allows only for `base_pat_len`, so the invariant has to carry that a cut is made at `offset <= Len(data)` and only after the check inside the loop. `OracleExact`: the assertions, which fold to lower case and compare through `zip`, accept just the matches, which the sieve finds by folding to upper case. `AtMostSevenPatterns`, `TypeCorrect` besides.

Together with `Dispatch`, where a filter's answer is `PrefixHits`, the filter theorems and `SieveImplementsStream` give the end-to-end statement for one sieve on every tier, and with `MultiSieveImplementsStream` for a multi-sieve; `NoPatternLost` says that the sieves the constructors build are those these theorems start from.

**Model-checked only.** Every safety property of the runs is stated by a theorem. Out of the prover's reach is liveness under fairness: `NextReturns`, `CollectCompletes`, `EstimateReturns` and `FilterReturns` are checked on the runs only; so are the findings, which are counterexamples.

## 5. Bounds and abstractions

* Masks are sets of positions; words are tuples of bytes; a vector is a function from lane to byte. Vector instructions are modelled by what they do to a lane.
* In `Collector`, `Estimate` and `MultiSieve` the tier is chosen freely in the initial state; `Construct` says which one a processor gets. Detection itself (`is_x86_feature_detected!`) is outside the program.
* In `MultiSieve` and `Estimate` the list is deduplicated and dealt out in one step: `Construct` shows that this is what the loops come to (`SievesAsAsked`).
* `BinaryHeap` and `HashSet` are external: a pop gives a least entry of the `Ord` in the code, an insert says whether the value is new.
* The skip guard of `check_64byte_block` is modelled but, as the proof shows, never taken: `dispatch.rs` always hands over a slice long enough.
* Machine integers do not overflow in the model: all are bounded by the length of a slice, which is at most `isize::MAX`. `offset + block_size + max_len - 1` stays below `2^63 + 200`.

### Not modelled

* `prefetch_ahead`: hints to the cache, which the program cannot observe.
* `Display` and `Debug`: formatting. Which error is returned, and when, is in `Construct`.
* `debug_assert!`s on sizes: those of the filters restate what construction checks (`SievesAsAsked`), the one on a million patterns is a limit of debug builds.
* Threads: a compiled sieve is immutable and each scan owns its state; there is nothing to interleave.
* The handover of a slice from `fetch_next_chunk` to a filter is a shared contract (`PrefixHits`, and `BlockFits` on the length) and not a composition: a filter keeps nothing between calls, so a composition would add steps but no behaviour.
* Tests, benchmarks and CI, other than for the claims they make.

## 6. Plan

Every part of the program with state is modelled and the safety of every component and of their composition is proved. What could still be added: the handover of a slice from `fetch_next_chunk` to a filter as a composition rather than a shared contract (see *Not modelled*), and the well-founded argument behind `NextReturns`, as far as it is a safety property: a bound, decreasing with every step of a call, on the steps that are left.
