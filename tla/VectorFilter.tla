---------------------------- MODULE VectorFilter ----------------------------
(***************************************************************************)
(* src/src/avx512.rs, avx2/mod.rs and neon.rs: the filters of the SIMD     *)
(* tiers.  new() stores the folded prefixes and the longest length among   *)
(* them.  The check_*byte_block functions load the block at offset 0 and,  *)
(* as far as max_len asks for, at offsets 1, 2 and 3, fold the registers,  *)
(* compare those at offset j with byte j of each prefix, and add the       *)
(* positions where all bytes agree to the masks.                           *)
(*                                                                         *)
(* What differs is the registers (how many bytes, how many to a half), the *)
(* instructions that fold them and the way from compared lanes to the bits *)
(* of a mask.  These are modelled lane by lane.  A mask is the set of its  *)
(* bit positions.                                                          *)
(***************************************************************************)
EXTENDS Filter

VARIABLES
    tier,       (* "Avx512", "Avx2" or "Neon"                            *)
    halves,     (* 2 for the dual-pump entry point, 1 for the single     *)
    patterns,   (* what new() has stored of the prefixes                 *)
    max_len,    (* the longest of them                                   *)
    v,          (* v[j][r]: register r of the bytes at offset j          *)
    read_end,   (* end of the furthest load                              *)
    masks       (* the mask of each half                                 *)

entry_point == <<tier, halves>>
filter == <<patterns, max_len>>
vars == <<entry_point, input, filter, v, read_end, p_idx, masks, pc>>

(* Bytes of a register, and registers that make up a half.                 *)
register_size(t) == IF t = "Avx512" THEN 64 ELSE IF t = "Avx2" THEN 32 ELSE 16
registers_of_half(t) == IF t = "Neon" THEN 2 ELSE 1

half_width(t) == IF t = "Avx512" THEN 64 ELSE 32
width == halves * half_width(tier)

HalfIndex == 0..(halves - 1)
RegisterIndex == 0..(halves * registers_of_half(tier) - 1)
Lane == 0..(register_size(tier) - 1)

-----------------------------------------------------------------------------
(* ascii_fold_vector, one lane.                                            *)
signed(byte) == IF byte < 128 THEN byte ELSE byte - 256

(* _mm256_cmpgt_epi8 is signed; andnot keeps mask1 where mask2 is unset.   *)
fold_avx2(byte) ==
    IF signed(byte) > 96 /\ ~(signed(byte) > 122) THEN wrapping_sub(byte, 32) ELSE byte

(* _mm512_cmpge_epi8_mask and _mm512_cmple_epi8_mask are signed.           *)
fold_avx512(byte) ==
    IF signed(byte) >= 97 /\ signed(byte) <= 122 THEN wrapping_sub(byte, 32) ELSE byte

(* vcgtq_u8 and vcltq_u8 are unsigned.                                     *)
fold_neon(byte) ==
    IF byte > 96 /\ byte < 123 THEN wrapping_sub(byte, 32) ELSE byte

ascii_fold(byte) ==
    CASE ~case_insensitive -> byte
      [] case_insensitive /\ tier = "Avx2" -> fold_avx2(byte)
      [] case_insensitive /\ tier = "Avx512" -> fold_avx512(byte)
      [] case_insensitive /\ tier = "Neon" -> fold_neon(byte)

-----------------------------------------------------------------------------
(* A u32 mask moved up; what leaves the 32 bits is lost.                   *)
shift_left(mask, n) == {k \in 0..31 : k - n \in mask}

(* The one bits of a number below 2^16.                                    *)
Bits(n) == {k \in 0..15 : (n \div 2^k) % 2 = 1}

BIT_WEIGHTS == <<1, 2, 4, 8, 16, 32, 64, 128, 1, 2, 4, 8, 16, 32, 64, 128>>

(* vpaddlq: the sums of neighbouring lanes, n of them.                     *)
pairwise(t, n) == [k \in 0..(n - 1) |-> t[2 * k] + t[2 * k + 1]]

(* neon_movemask of a comparison that is true in the lanes eq: every such  *)
(* lane keeps its weight, three pairwise additions leave one sum for each  *)
(* eight lanes, and the second goes above the first.                       *)
neon_movemask(eq) ==
    LET tmp   == [k \in 0..15 |-> IF k \in eq THEN BIT_WEIGHTS[k + 1] ELSE 0]
        tmp16 == pairwise(tmp, 8)
        tmp32 == pairwise(tmp16, 4)
        tmp64 == pairwise(tmp32, 2)
    IN  Bits(tmp64[0]) \cup {k \in 0..15 : k - 8 \in Bits(tmp64[1])}

(* The lanes where register r at offset j equals byte j of p.              *)
Equal(r, j, p) == {k \in Lane : v[j][r][k] = p.word[j]}

(* One offset's comparison over half h: the mask registers of AVX-512 and  *)
(* the movemask of AVX2 have a bit for each lane; check_64byte_block of    *)
(* NEON puts the bits of two registers together.                           *)
half_mask(h, j, p) ==
    IF tier = "Neon"
    THEN neon_movemask(Equal(2 * h, j, p))
            \cup shift_left(neon_movemask(Equal(2 * h + 1, j, p)), 16)
    ELSE Equal(h, j, p)

(* Starts as !0 and is narrowed by each of the p.len bytes.                *)
narrowed_mask(h, p) ==
    {k \in 0..(half_width(tier) - 1) : \A j \in 0..(p.len - 1) : k \in half_mask(h, j, p)}

(* A bug to catch: the halves put together the wrong way round. *)
joined_mask_Swapped(p) ==
    LET narrowed(r) ==
            {k \in 0..31 : \A j \in 0..(p.len - 1) : k \in neon_movemask(Equal(r, j, p))}
    IN  narrowed(1) \cup shift_left(narrowed(0), 16)

(* check_32byte_block of NEON narrows each register's bits on their own    *)
(* and puts the results together.                                          *)
joined_mask(p) ==
    LET narrowed(r) ==
            {k \in 0..31 : \A j \in 0..(p.len - 1) : k \in neon_movemask(Equal(r, j, p))}
    IN  narrowed(0) \cup shift_left(narrowed(1), 16)

(* The positions of half h where p is.                                     *)
pattern_mask(h, p) ==
    IF tier = "Neon" /\ halves = 1 THEN joined_mask(p) ELSE narrowed_mask(h, p)

-----------------------------------------------------------------------------
Init ==
    /\ tier \in {"Avx512", "Avx2", "Neon"}
    /\ halves \in {1, 2}
    /\ Handed(width)
    /\ patterns = <<>>
    /\ max_len = 0
    /\ v = <<>>
    /\ read_end = 0
    /\ p_idx = 0
    /\ masks = [h \in HalfIndex |-> {}]
    /\ pc = "new"

(* One turn of the loop of new().                                          *)
NewPattern ==
    /\ pc = "new"
    /\ Len(patterns) < Len(prefixes)
    /\ LET slice == prefixes[Len(patterns) + 1]
       IN  /\ patterns' = Append(patterns, Packed(slice, case_insensitive))
           /\ max_len' = IF eval_len(slice) > max_len THEN eval_len(slice) ELSE max_len
    /\ UNCHANGED <<entry_point, input, v, read_end, p_idx, masks, pc>>

NewReturn ==
    /\ pc = "new"
    /\ Len(patterns) = Len(prefixes)
    /\ pc' = "load"
    /\ UNCHANGED <<entry_point, input, filter, v, read_end, p_idx, masks>>

New == NewPattern \/ NewReturn

Avx512Filter_new == tier = "Avx512" /\ New
Avx2Filter_new == tier = "Avx2" /\ New
NeonFilter_new == tier = "Neon" /\ New

-----------------------------------------------------------------------------
(* A bug to catch: every offset is loaded. *)
IsLoaded_Always(j) == TRUE

(* Registers that max_len does not ask for stay copies of those at 0.      *)
IsLoaded(j) == j = 0 \/ max_len > j

(* What a load gives beyond the slice does not matter: LoadsInBounds.      *)
byte_at(k) == IF k < Len(block) THEN block[k + 1] ELSE 0

(* A bug to catch: the last register is never loaded. *)
Load_OneShort ==
    /\ pc = "load"
    /\ v' = [j \in 0..(PREFIX - 1) |-> [r \in RegisterIndex \ {halves - 1} |-> [k \in Lane |->
               ascii_fold(byte_at((IF IsLoaded(j) THEN j ELSE 0) + r * register_size(tier) + k))]]]
    /\ read_end' = width
    /\ pc' = "filter"
    /\ UNCHANGED <<entry_point, input, filter, p_idx, masks>>

Load ==
    /\ pc = "load"
    /\ v' = [j \in 0..(PREFIX - 1) |-> [r \in RegisterIndex |-> [k \in Lane |->
               ascii_fold(byte_at((IF IsLoaded(j) THEN j ELSE 0) + r * register_size(tier) + k))]]]
    /\ \E j \in 0..(PREFIX - 1) :
          /\ IsLoaded(j) /\ \A l \in 0..(PREFIX - 1) : IsLoaded(l) => l <= j
          /\ read_end' = j + width
    /\ pc' = "filter"
    /\ UNCHANGED <<entry_point, input, filter, p_idx, masks>>

(* One turn of the loop over the patterns.                                 *)
FilterPattern ==
    /\ pc = "filter"
    /\ p_idx < Len(patterns)
    /\ masks' = [h \in HalfIndex |-> masks[h] \cup pattern_mask(h, patterns[p_idx + 1])]
    /\ p_idx' = p_idx + 1
    /\ UNCHANGED <<entry_point, input, filter, v, read_end, pc>>

Return ==
    /\ pc = "filter"
    /\ p_idx = Len(patterns)
    /\ pc' = "done"
    /\ UNCHANGED <<entry_point, input, filter, v, read_end, p_idx, masks>>

Check == Load \/ FilterPattern \/ Return

Avx512Filter_check_128byte_block == tier = "Avx512" /\ halves = 2 /\ Check
Avx512Filter_check_64byte_block == tier = "Avx512" /\ halves = 1 /\ Check
Avx2Filter_check_64byte_block == tier = "Avx2" /\ halves = 2 /\ Check
Avx2Filter_check_32byte_block == tier = "Avx2" /\ halves = 1 /\ Check
NeonFilter_check_64byte_block == tier = "Neon" /\ halves = 2 /\ Check
NeonFilter_check_32byte_block == tier = "Neon" /\ halves = 1 /\ Check

Next ==
    \/ Avx512Filter_new \/ Avx2Filter_new \/ NeonFilter_new
    \/ Avx512Filter_check_128byte_block \/ Avx512Filter_check_64byte_block
    \/ Avx2Filter_check_64byte_block \/ Avx2Filter_check_32byte_block
    \/ NeonFilter_check_64byte_block \/ NeonFilter_check_32byte_block

Spec == Init /\ [][Next]_vars

-----------------------------------------------------------------------------
(* Every variable has the type of its field; a mask is as wide as a half.  *)
TypeOK ==
    /\ tier \in {"Avx512", "Avx2", "Neon"}
    /\ halves \in {1, 2}
    /\ patterns \in Seq([len : 1..PREFIX, word : Word])
    /\ max_len \in 0..PREFIX
    /\ v \in {<<>>} \cup [0..(PREFIX - 1) -> [RegisterIndex -> [Lane -> Byte]]]
    /\ p_idx \in 0..Len(patterns)
    /\ masks \in [HalfIndex -> SUBSET (0..(half_width(tier) - 1))]
    /\ pc \in {"new", "load", "filter", "done"}

(* The loads, which check no bounds, lie in the slice that dispatch.rs     *)
(* cuts: the registers a filter loads follow its own max_len, the trailing *)
(* bytes of a block the sieve's, computed apart from the same patterns.    *)
LoadsInBounds == read_end <= Len(block)

(* Whatever a tier's registers, fold and masks, each half has exactly the  *)
(* prefix hits of its positions; in particular the SIMD folds agree with   *)
(* the scalar one on every byte, those above 127 included, and NEON puts   *)
(* the bits of its registers where they belong.                            *)
FilterIsExact ==
    pc = "done" =>
        \A h \in HalfIndex :
            masks[h] = PrefixHits(block, prefixes, case_insensitive,
                                  h * half_width(tier), half_width(tier))
=============================================================================
