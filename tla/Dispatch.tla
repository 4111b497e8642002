------------------------------ MODULE Dispatch ------------------------------
(***************************************************************************)
(* src/src/sieve/dispatch.rs: the fields of a SimdSieve and                *)
(* fetch_next_chunk, which advances the scan by blocks until one of them   *)
(* holds a candidate.                                                      *)
(*                                                                         *)
(* fetch_next_chunk is a while loop over blocks (the dual-pump loop of the *)
(* SIMD tiers, the single-mask loop of the scalar tier), then, for the     *)
(* SIMD tiers, at most one half-size block.  Every loop iteration is one   *)
(* action.  A caller starts it by setting pc to "pump"; it hands control   *)
(* back with pc = "loop" (it returned true, a mask is set) or pc = "tail"  *)
(* (it returned false).                                                    *)
(*                                                                         *)
(* A u64 mask is the set of its bit positions.  Prefetching reads nothing  *)
(* the program can observe and is left out.                                *)
(***************************************************************************)
EXTENDS Matching

CONSTANT LANES      (* bytes in one AVX2 or NEON pump: 32 in the code *)

ASSUME LanesAssumption == LANES \in Nat \ {0}

VARIABLES
    haystack, patterns, max_len, case_insensitive, tier,
    offset,             (* first byte no block or tail step has consumed *)
    current_mask,       (* candidates still to be looked at ...          *)
    next_mask_cache,    (* ... and those of the second half-block        *)
    mask_base_offset,   (* haystack offset of bit 0 of current_mask      *)
    pc

config == <<haystack, patterns, max_len, case_insensitive, tier>>
scan == <<offset, current_mask, next_mask_cache, mask_base_offset>>

DualTiers == {"Avx512", "Avx2", "Neon"}
HardwareTier == DualTiers \cup {"Scalar"}

(* A bug to catch: the stride of the narrower tiers used for all of them. *)
half_block_stride_Narrow(t) == LANES

(* 64 for AVX-512, 32 for AVX2 and NEON; the code declares the scalar arm  *)
(* unreachable.                                                            *)
half_block_stride(t) == IF t = "Avx512" THEN 2 * LANES ELSE LANES

(* The half_stride literals fetch_next_chunk passes to dual_pump_main!; a  *)
(* dual block is two of them.  The code keeps the number in both places.   *)
half_stride(t) == IF t = "Avx512" THEN 2 * LANES ELSE LANES

(* The scalar tier's block: 64 bytes, one mask. *)
ScalarBlock == 2 * LANES

(* Widest mask the tier produces, in bits. *)
MaskWidth(t) == IF t = "Scalar" THEN ScalarBlock ELSE half_stride(t)

(* The block loop's condition: a block of the given width and the          *)
(* max_len - 1 bytes a prefix at its last position may reach into.         *)
HasRoom(width) == offset + width + (max_len - 1) <= Len(haystack)

(* A bug to catch: the block handed over without its trailing bytes. *)
chunk_NoTrailing(width) == Slice(haystack, offset, width)

(* The slice handed to a filter: the block and its trailing bytes. *)
chunk(width) == Slice(haystack, offset, width + (max_len - 1))

(* What a filter's check_*byte_block answers for the width positions of    *)
(* block from lo on: ScalarFilter and VectorFilter show that it does.      *)
check(block, lo, width) ==
    PrefixHits(block, patterns, case_insensitive, lo, width)

-----------------------------------------------------------------------------
(* What SimdSieve::build and CompiledSieve::scan start a scan from.        *)
ScanStart ==
    /\ offset = 0
    /\ current_mask = {}
    /\ next_mask_cache = {}
    /\ mask_base_offset = 0

(* One iteration of dual_pump_main!.  When only the second half has        *)
(* candidates, the cache keeps the value it had.                           *)
DualPump ==
    LET half   == half_stride(tier)
        block  == chunk(2 * half)
        mask_a == check(block, 0, half)
        mask_b == check(block, half, half)
    IN
    /\ pc = "pump"
    /\ tier \in DualTiers
    /\ HasRoom(2 * half)
    /\ offset' = offset + 2 * half
    /\ \/ /\ mask_a # {}
          /\ current_mask' = mask_a
          /\ mask_base_offset' = offset
          /\ next_mask_cache' = mask_b
          /\ pc' = "loop"
       \/ /\ mask_a = {} /\ mask_b # {}
          /\ current_mask' = mask_b
          /\ mask_base_offset' = offset + half
          /\ pc' = "loop"
          /\ UNCHANGED next_mask_cache
       \/ /\ mask_a = {} /\ mask_b = {}
          /\ UNCHANGED <<current_mask, mask_base_offset, next_mask_cache, pc>>
    /\ UNCHANGED config

(* The dual-pump loop is over: fall through to the half-size block. *)
DualPumpDone ==
    /\ pc = "pump"
    /\ tier \in DualTiers
    /\ ~HasRoom(2 * half_stride(tier))
    /\ pc' = "single"
    /\ UNCHANGED <<config, scan>>

(* A block that yields a single mask: the body of single_pump_block! and   *)
(* of the scalar loop.  With no candidate the caller goes on at miss.      *)
MaskBlock(width, miss) ==
    LET mask == check(chunk(width), 0, width)
    IN
    /\ HasRoom(width)
    /\ offset' = offset + width
    /\ \/ /\ mask # {}
          /\ current_mask' = mask
          /\ mask_base_offset' = offset
          /\ pc' = "loop"
       \/ /\ mask = {}
          /\ pc' = miss
          /\ UNCHANGED <<current_mask, mask_base_offset>>
    /\ UNCHANGED <<config, next_mask_cache>>

SinglePump ==
    /\ pc = "single"
    /\ MaskBlock(half_stride(tier), "tail")

SinglePumpSkipped ==
    /\ pc = "single"
    /\ ~HasRoom(half_stride(tier))
    /\ pc' = "tail"
    /\ UNCHANGED <<config, scan>>

ScalarPump ==
    /\ pc = "pump"
    /\ tier = "Scalar"
    /\ MaskBlock(ScalarBlock, "pump")

ScalarPumpDone ==
    /\ pc = "pump"
    /\ tier = "Scalar"
    /\ ~HasRoom(ScalarBlock)
    /\ pc' = "tail"
    /\ UNCHANGED <<config, scan>>

fetch_next_chunk ==
    \/ DualPump
    \/ DualPumpDone
    \/ SinglePump
    \/ SinglePumpSkipped
    \/ ScalarPump
    \/ ScalarPumpDone
=============================================================================
