-------------------------- MODULE Filters_proofs ---------------------------
(***************************************************************************)
(* Proofs about the filters, for all blocks and pattern lists: every tier  *)
(* reports exactly the prefix hits of its block.  For the SIMD tiers this  *)
(* takes that the three folds agree with fold_byte on every byte, that no  *)
(* load leaves the block, and the way from NEON's registers to the bits of *)
(* a mask, which comes first; for the scalar tier that its loops leave no  *)
(* gap, which comes last.                                                  *)
(***************************************************************************)
EXTENDS ScalarFilter, VectorFilter, PatternSets_proofs, SequenceTheorems, TLAPS

LEMMA HighBitsZero ==
    ASSUME NEW n \in 0..255
    PROVE  /\ n \div 256 = 0 /\ n \div 512 = 0 /\ n \div 1024 = 0 /\ n \div 2048 = 0
           /\ n \div 4096 = 0 /\ n \div 8192 = 0 /\ n \div 16384 = 0 /\ n \div 32768 = 0
OBVIOUS

(* The bits of a sum of distinct powers of two below 2^8.                  *)
LEMMA EightBits ==
    ASSUME NEW x \in [0..7 -> 0..1], NEW n,
           n = x[0] + 2 * x[1] + 4 * x[2] + 8 * x[3]
                 + 16 * x[4] + 32 * x[5] + 64 * x[6] + 128 * x[7]
    PROVE  /\ Bits(n) \subseteq 0..7
           /\ \A k \in 0..7 : k \in Bits(n) <=> x[k] = 1
<1>. DEFINE bit(k) == (n \div 2^k) % 2
<1>1. /\ x[0] \in 0..1 /\ x[1] \in 0..1 /\ x[2] \in 0..1 /\ x[3] \in 0..1
      /\ x[4] \in 0..1 /\ x[5] \in 0..1 /\ x[6] \in 0..1 /\ x[7] \in 0..1
  OBVIOUS
<1>2. n \in 0..255
  BY <1>1
<1>3. bit(0) = x[0] /\ bit(1) = x[1] /\ bit(2) = x[2] /\ bit(3) = x[3]
  <2>1. bit(0) = x[0]  BY <1>1
  <2>2. bit(1) = x[1]  BY <1>1
  <2>3. bit(2) = x[2]  BY <1>1
  <2>4. bit(3) = x[3]  BY <1>1
  <2>. QED  BY <2>1, <2>2, <2>3, <2>4
<1>4. bit(4) = x[4] /\ bit(5) = x[5] /\ bit(6) = x[6] /\ bit(7) = x[7]
  <2>1. bit(4) = x[4]  BY <1>1
  <2>2. bit(5) = x[5]  BY <1>1
  <2>3. bit(6) = x[6]  BY <1>1
  <2>4. bit(7) = x[7]  BY <1>1
  <2>. QED  BY <2>1, <2>2, <2>3, <2>4
<1>5. /\ bit(8) = 0 /\ bit(9) = 0 /\ bit(10) = 0 /\ bit(11) = 0
      /\ bit(12) = 0 /\ bit(13) = 0 /\ bit(14) = 0 /\ bit(15) = 0
  <2>1. /\ n \div 256 = 0 /\ n \div 512 = 0 /\ n \div 1024 = 0 /\ n \div 2048 = 0
        /\ n \div 4096 = 0 /\ n \div 8192 = 0 /\ n \div 16384 = 0 /\ n \div 32768 = 0
    BY ONLY <1>2, HighBitsZero
  <2>3. 2^8 = 256 /\ 2^9 = 512 /\ 2^10 = 1024 /\ 2^11 = 2048
    OBVIOUS
  <2>4. 2^12 = 4096 /\ 2^13 = 8192 /\ 2^14 = 16384 /\ 2^15 = 32768
    OBVIOUS
  <2>. QED  BY <2>1, <2>3, <2>4
<1>6. \A k \in 0..15 : k \in Bits(n) <=> bit(k) = 1
  BY DEF Bits
<1>. HIDE DEF bit
<1>7. ASSUME NEW k \in 0..7 PROVE bit(k) = x[k]
  <2>1. k = 0 \/ k = 1 \/ k = 2 \/ k = 3 \/ k = 4 \/ k = 5 \/ k = 6 \/ k = 7
    OBVIOUS
  <2>. QED  BY <2>1, <1>3, <1>4
<1>8. ASSUME NEW k \in 8..15 PROVE bit(k) # 1
  <2>1. \/ k = 8 \/ k = 9 \/ k = 10 \/ k = 11
        \/ k = 12 \/ k = 13 \/ k = 14 \/ k = 15
    OBVIOUS
  <2>. QED  BY <2>1, <1>5
<1>9. Bits(n) \subseteq 0..15 /\ \A k \in 0..15 : k \in 0..7 \/ k \in 8..15
  BY DEF Bits
<1>. HIDE DEF Bits
<1>. QED  BY <1>6, <1>7, <1>8, <1>9

(* The weights of the lanes, added up pairwise, give back the lanes.       *)
THEOREM NeonMovemask ==
    ASSUME NEW eq \in SUBSET (0..15)
    PROVE  neon_movemask(eq) = eq
<1>. DEFINE low  == [k \in 0..7 |-> IF k \in eq THEN 1 ELSE 0]
            high == [k \in 0..7 |-> IF k + 8 \in eq THEN 1 ELSE 0]
            tmp   == [k \in 0..15 |-> IF k \in eq THEN BIT_WEIGHTS[k + 1] ELSE 0]
            tmp16 == pairwise(tmp, 8)
            tmp32 == pairwise(tmp16, 4)
            tmp64 == pairwise(tmp32, 2)
<1>1. /\ tmp[0] = low[0] /\ tmp[1] = 2 * low[1] /\ tmp[2] = 4 * low[2] /\ tmp[3] = 8 * low[3]
      /\ tmp[4] = 16 * low[4] /\ tmp[5] = 32 * low[5] /\ tmp[6] = 64 * low[6]
      /\ tmp[7] = 128 * low[7]
  BY DEF BIT_WEIGHTS
<1>2. /\ tmp[8] = high[0] /\ tmp[9] = 2 * high[1] /\ tmp[10] = 4 * high[2]
      /\ tmp[11] = 8 * high[3] /\ tmp[12] = 16 * high[4] /\ tmp[13] = 32 * high[5]
      /\ tmp[14] = 64 * high[6] /\ tmp[15] = 128 * high[7]
  BY DEF BIT_WEIGHTS
<1>3. low \in [0..7 -> 0..1] /\ high \in [0..7 -> 0..1]
  OBVIOUS
<1>4. \A k \in 0..7 : (low[k] = 1 <=> k \in eq) /\ (high[k] = 1 <=> k + 8 \in eq)
  OBVIOUS
<1>. HIDE DEF tmp, low, high
<1>5. /\ tmp16[0] = tmp[0] + tmp[1] /\ tmp16[1] = tmp[2] + tmp[3]
      /\ tmp16[2] = tmp[4] + tmp[5] /\ tmp16[3] = tmp[6] + tmp[7]
      /\ tmp16[4] = tmp[8] + tmp[9] /\ tmp16[5] = tmp[10] + tmp[11]
      /\ tmp16[6] = tmp[12] + tmp[13] /\ tmp16[7] = tmp[14] + tmp[15]
  BY DEF pairwise
<1>. HIDE DEF tmp16
<1>6. /\ tmp32[0] = tmp16[0] + tmp16[1] /\ tmp32[1] = tmp16[2] + tmp16[3]
      /\ tmp32[2] = tmp16[4] + tmp16[5] /\ tmp32[3] = tmp16[6] + tmp16[7]
  BY DEF pairwise
<1>. HIDE DEF tmp32
<1>7. tmp64[0] = tmp32[0] + tmp32[1] /\ tmp64[1] = tmp32[2] + tmp32[3]
  BY DEF pairwise
<1>. HIDE DEF tmp64
<1>8. tmp64[0] = low[0] + 2 * low[1] + 4 * low[2] + 8 * low[3]
                   + 16 * low[4] + 32 * low[5] + 64 * low[6] + 128 * low[7]
  BY <1>1, <1>3, <1>5, <1>6, <1>7
<1>9. tmp64[1] = high[0] + 2 * high[1] + 4 * high[2] + 8 * high[3]
                   + 16 * high[4] + 32 * high[5] + 64 * high[6] + 128 * high[7]
  BY <1>2, <1>3, <1>5, <1>6, <1>7
<1>10. /\ Bits(tmp64[0]) \subseteq 0..7
       /\ \A k \in 0..7 : k \in Bits(tmp64[0]) <=> k \in eq
  BY <1>3, <1>4, <1>8, EightBits
<1>11. /\ Bits(tmp64[1]) \subseteq 0..7
       /\ \A k \in 0..7 : k \in Bits(tmp64[1]) <=> k + 8 \in eq
  BY <1>3, <1>4, <1>9, EightBits
<1>12. neon_movemask(eq) = Bits(tmp64[0]) \cup {k \in 0..15 : k - 8 \in Bits(tmp64[1])}
  BY DEF neon_movemask, tmp, tmp16, tmp32, tmp64
<1>13. ASSUME NEW k \in 0..15
       PROVE  k \in neon_movemask(eq) <=> k \in eq
  <2>1. CASE k \in 0..7
    <3>1. k - 8 \notin 0..7
      BY <2>1
    <3>. QED  BY <2>1, <3>1, <1>10, <1>11, <1>12
  <2>2. CASE k \in 8..15
    <3>1. k \notin 0..7 /\ k - 8 \in 0..7 /\ (k - 8) + 8 = k
      BY <2>2
    <3>. QED  BY <3>1, <1>10, <1>11, <1>12
  <2>. QED  BY <2>1, <2>2
<1>14. neon_movemask(eq) \subseteq 0..15
  <2>1. 0..7 \subseteq 0..15
    OBVIOUS
  <2>. QED  BY <2>1, <1>10, <1>12
<1>. QED  BY <1>13, <1>14

-----------------------------------------------------------------------------
(* ascii_fold_vector of each tier is fold_byte, lane by lane: the signed   *)
(* comparisons of AVX2 and AVX-512 leave bytes above 127 alone, too.       *)
THEOREM FoldsAgree ==
    ASSUME NEW byte \in Byte
    PROVE  /\ fold_avx2(byte) = fold_byte(byte)
           /\ fold_avx512(byte) = fold_byte(byte)
           /\ fold_neon(byte) = fold_byte(byte)
<1>1. byte \in Nat /\ byte <= 255
  BY DEF Byte
<1>2. fold_byte(byte) = IF byte >= 97 /\ byte <= 122 THEN byte - 32 ELSE byte
  BY FoldByteCases
<1>3. byte >= 97 /\ byte <= 122 => wrapping_sub(byte, 32) = byte - 32
  BY <1>1 DEF wrapping_sub
<1>. QED  BY <1>1, <1>2, <1>3 DEF fold_avx2, fold_avx512, fold_neon, signed

-----------------------------------------------------------------------------
(* A filter is built of the prefixes, and its block cut for the longest.   *)
BlockFits ==
    /\ case_insensitive \in BOOLEAN
    /\ block \in Seq(Byte)
    /\ prefixes \in Seq(Seq(Byte) \ {<<>>})
    /\ \E n \in 1..PREFIX : IsMaxLen(prefixes, n) /\ Len(block) = width + n - 1

(* max_len is the longest of the patterns stored so far.                   *)
FilterBuilt ==
    /\ Len(patterns) <= Len(prefixes)
    /\ \A k \in 1..Len(patterns) :
          /\ patterns[k] = Packed(prefixes[k], case_insensitive)
          /\ eval_len(prefixes[k]) <= max_len
    /\ max_len = 0 \/ \E k \in 1..Len(patterns) : eval_len(prefixes[k]) = max_len
    /\ pc # "new" => Len(patterns) = Len(prefixes)

(* The registers a pattern may look at hold the folded bytes of the block. *)
VectorsLoaded ==
    pc \in {"filter", "done"} =>
        \A j \in 0..(max_len - 1), r \in RegisterIndex, k \in Lane :
            v[j][r][k] = Canon(case_insensitive, block[j + r * register_size(tier) + k + 1])

(* The prefix hits of prefix k among the positions of half h.              *)
HalfHits(h, k) ==
    {b \in 0..(half_width(tier) - 1) :
        PrefixOfAt(block, prefixes[k], case_insensitive, h * half_width(tier) + b)}

MasksSoFar ==
    /\ \A h \in HalfIndex : masks[h] = UNION {HalfHits(h, k) : k \in 1..p_idx}
    /\ pc = "done" => p_idx = Len(patterns)

IInv ==
    TypeOK /\ BlockFits /\ FilterBuilt /\ VectorsLoaded /\ LoadsInBounds /\ MasksSoFar

-----------------------------------------------------------------------------
LEMMA TypesOfPatterns ==
    ASSUME NEW p \in Seq(Byte) \ {<<>>}, NEW ci \in BOOLEAN
    PROVE  /\ eval_len(p) \in 1..PREFIX
           /\ Packed(p, ci) \in [len : 1..PREFIX, word : Word]
           /\ Packed(p, ci).len = eval_len(p)
           /\ \A j \in 0..(eval_len(p) - 1) : Packed(p, ci).word[j] = Canon(ci, p[j + 1])
<1>1. Len(p) \in Nat \ {0}
  BY EmptySeq, LenProperties
<1>2. eval_len(p) \in 1..PREFIX /\ eval_len(p) <= Len(p)
  BY <1>1, PrefixAssumption DEF eval_len
<1>3. \A byte \in Byte : Canon(ci, byte) \in Byte
  BY FoldsAgree, FoldedIsByte DEF Canon
<1>4. ASSUME NEW j \in 0..(eval_len(p) - 1)
      PROVE  Canon(ci, p[j + 1]) \in Byte /\ j \in 0..(PREFIX - 1)
  <2>1. j + 1 \in 1..Len(p) /\ j \in 0..(PREFIX - 1)
    BY <1>1, <1>2, PrefixAssumption
  <2>2. p[j + 1] \in Byte
    BY <2>1, ElementOfSeq
  <2>. QED  BY <1>3, <2>1, <2>2
<1>5. \A j \in 0..(PREFIX - 1) : j < eval_len(p) => j \in 0..(eval_len(p) - 1)
  BY <1>2, PrefixAssumption
<1>6. \A j \in 0..(eval_len(p) - 1) : j < eval_len(p)
  BY <1>2, PrefixAssumption
<1>7. 0 \in Byte
  BY DEF Byte
<1>. HIDE DEF eval_len
<1>. QED  BY <1>2, <1>4, <1>5, <1>6, <1>7 DEF Packed, Word

(* The lanes of the registers are the positions of the block.              *)
LEMMA WidthFacts ==
    ASSUME tier \in {"Avx512", "Avx2", "Neon"}, halves \in {1, 2}
    PROVE  /\ half_width(tier) \in Nat \ {0}
           /\ width \in Nat \ {0}
           /\ HalfIndex \subseteq Nat
           /\ \A r \in RegisterIndex, k \in Lane :
                 r * register_size(tier) + k \in 0..(width - 1)
<1>1. CASE halves = 1
  BY <1>1
     DEF half_width, register_size, registers_of_half, width, HalfIndex,
         RegisterIndex, Lane
<1>2. CASE halves = 2
  BY <1>2
     DEF half_width, register_size, registers_of_half, width, HalfIndex,
         RegisterIndex, Lane
<1>. QED  BY <1>1, <1>2

LEMMA FoldIsCanon ==
    ASSUME tier \in {"Avx512", "Avx2", "Neon"}, case_insensitive \in BOOLEAN,
           NEW byte \in Byte
    PROVE  ascii_fold(byte) = Canon(case_insensitive, byte)
BY FoldsAgree DEF ascii_fold, Canon

(* Once all patterns are stored, max_len is what the block was cut for.    *)
LEMMA BlockFitsMaxLen ==
    ASSUME TypeOK, BlockFits, FilterBuilt, pc # "new"
    PROVE  /\ max_len \in 1..PREFIX
           /\ Len(block) = width + max_len - 1
<1>1. PICK n \in 1..PREFIX : IsMaxLen(prefixes, n) /\ Len(block) = width + n - 1
  BY DEF BlockFits
<1>2. DOMAIN prefixes = 1..Len(patterns)
  BY LenProperties DEF BlockFits, FilterBuilt
<1>3. max_len \in 0..PREFIX
  BY DEF TypeOK
<1>4. n <= max_len
  BY <1>1, <1>2 DEF IsMaxLen, FilterBuilt
<1>5. max_len <= n
  BY <1>1, <1>2, <1>3 DEF IsMaxLen, FilterBuilt
<1>6. max_len = n
  BY <1>3, <1>4, <1>5, PrefixAssumption
<1>. QED  BY <1>1, <1>6

-----------------------------------------------------------------------------
(* The register and the lane of position b of half h.                      *)
reg(h, b) == IF tier = "Neon" THEN IF b < 16 THEN 2 * h ELSE 2 * h + 1 ELSE h
lane(b) == IF tier = "Neon" /\ b >= 16 THEN b - 16 ELSE b

LEMMA LaneFacts ==
    ASSUME tier \in {"Avx512", "Avx2", "Neon"}, halves \in {1, 2},
           NEW h \in HalfIndex, NEW b \in 0..(half_width(tier) - 1)
    PROVE  /\ reg(h, b) \in RegisterIndex
           /\ lane(b) \in Lane
           /\ reg(h, b) * register_size(tier) + lane(b) = h * half_width(tier) + b
<1>1. h \in 0..1 /\ (halves = 1 => h = 0)
  BY DEF HalfIndex
<1>2. CASE tier = "Neon"
  <2>1. /\ half_width(tier) = 32 /\ register_size(tier) = 16
        /\ RegisterIndex = 0..(2 * halves - 1) /\ Lane = 0..15 /\ b \in 0..31
    BY <1>2 DEF half_width, register_size, registers_of_half, RegisterIndex, Lane
  <2>2. CASE b < 16
    <3>1. reg(h, b) = 2 * h /\ lane(b) = b
      BY <1>2, <2>1, <2>2 DEF reg, lane
    <3>. QED  BY <1>1, <2>1, <2>2, <3>1
  <2>3. CASE b >= 16
    <3>1. reg(h, b) = 2 * h + 1 /\ lane(b) = b - 16
      BY <1>2, <2>1, <2>3 DEF reg, lane
    <3>. QED  BY <1>1, <2>1, <2>3, <3>1
  <2>. QED  BY <2>1, <2>2, <2>3
<1>3. CASE tier # "Neon"
  <2>1. /\ half_width(tier) = register_size(tier)
        /\ RegisterIndex = HalfIndex /\ Lane = 0..(half_width(tier) - 1)
        /\ reg(h, b) = h /\ lane(b) = b
    BY <1>3
       DEF half_width, register_size, registers_of_half, RegisterIndex, HalfIndex,
                Lane, reg, lane
  <2>. QED  BY <2>1
<1>. QED  BY <1>2, <1>3

LEMMA EqualOfNeon ==
    ASSUME tier = "Neon", NEW r, NEW j, NEW p
    PROVE  /\ neon_movemask(Equal(r, j, p)) = Equal(r, j, p)
           /\ Equal(r, j, p) \subseteq 0..15
<1>1. Equal(r, j, p) \subseteq 0..15
  BY DEF Equal, Lane, register_size
<1>. QED  BY <1>1, NeonMovemask

(* One offset's comparison, bit by bit.                                    *)
LEMMA HalfMaskBit ==
    ASSUME tier \in {"Avx512", "Avx2", "Neon"}, halves \in {1, 2},
           NEW h \in HalfIndex, NEW b \in 0..(half_width(tier) - 1), NEW j, NEW p
    PROVE  b \in half_mask(h, j, p) <=> v[j][reg(h, b)][lane(b)] = p.word[j]
<1>1. CASE tier = "Neon"
  <2>1. b \in 0..31 /\ Lane = 0..15
    BY <1>1 DEF half_width, register_size, Lane
  <2>2. half_mask(h, j, p) = Equal(2 * h, j, p) \cup shift_left(Equal(2 * h + 1, j, p), 16)
    BY <1>1, EqualOfNeon DEF half_mask
  <2>3. \A r : Equal(r, j, p) \subseteq 0..15
    BY <1>1, EqualOfNeon
  <2>4. CASE b < 16
    <3>1. reg(h, b) = 2 * h /\ lane(b) = b /\ b \in Lane /\ b - 16 \notin 0..15
      BY <1>1, <2>1, <2>4 DEF reg, lane
    <3>2. b \notin shift_left(Equal(2 * h + 1, j, p), 16)
      BY <2>3, <3>1 DEF shift_left
    <3>. QED  BY <2>2, <3>1, <3>2 DEF Equal
  <2>5. CASE b >= 16
    <3>1. reg(h, b) = 2 * h + 1 /\ lane(b) = b - 16 /\ b - 16 \in Lane /\ b \notin 0..15
      BY <1>1, <2>1, <2>5 DEF reg, lane
    <3>2. b \notin Equal(2 * h, j, p)
      BY <2>3, <3>1
    <3>3. b \in shift_left(Equal(2 * h + 1, j, p), 16) <=> b - 16 \in Equal(2 * h + 1, j, p)
      BY <2>1 DEF shift_left
    <3>. QED  BY <2>2, <3>1, <3>2, <3>3 DEF Equal
  <2>. QED  BY <2>1, <2>4, <2>5
<1>2. CASE tier # "Neon"
  <2>1. b \in Lane /\ reg(h, b) = h /\ lane(b) = b
    BY <1>2 DEF half_width, register_size, Lane, reg, lane
  <2>. QED  BY <1>2, <2>1 DEF half_mask, Equal
<1>. QED  BY <1>1, <1>2

(* The mask of one pattern, bit by bit: check_32byte_block of NEON, which  *)
(* narrows each register before it joins them, comes to the same.          *)
LEMMA PatternMaskBit ==
    ASSUME tier \in {"Avx512", "Avx2", "Neon"}, halves \in {1, 2},
           NEW h \in HalfIndex, NEW b \in 0..(half_width(tier) - 1),
           NEW p, p.len \in Nat \ {0}
    PROVE  b \in pattern_mask(h, p)
             <=> \A j \in 0..(p.len - 1) : v[j][reg(h, b)][lane(b)] = p.word[j]
<1>1. CASE tier = "Neon" /\ halves = 1
  <2>. DEFINE narrowed(r) ==
                {k \in 0..31 : \A j \in 0..(p.len - 1) : k \in neon_movemask(Equal(r, j, p))}
  <2>1. h = 0 /\ b \in 0..31 /\ Lane = 0..15 /\ 0 \in 0..(p.len - 1)
    BY <1>1 DEF HalfIndex, half_width, register_size, Lane
  <2>2. pattern_mask(h, p) = narrowed(0) \cup shift_left(narrowed(1), 16)
    BY <1>1 DEF pattern_mask, joined_mask
  <2>3. \A r : narrowed(r) = {k \in 0..31 : \A j \in 0..(p.len - 1) : k \in Equal(r, j, p)}
    BY <1>1, EqualOfNeon
  <2>. HIDE DEF narrowed
  <2>4. \A r : narrowed(r) \subseteq 0..15
    <3>1. \A r : Equal(r, 0, p) \subseteq 0..15
      BY <1>1, EqualOfNeon
    <3>. QED  BY <2>1, <2>3, <3>1
  <2>5. CASE b < 16
    <3>1. reg(h, b) = 0 /\ lane(b) = b /\ b \in Lane /\ b - 16 \notin 0..15
      BY <1>1, <2>1, <2>5 DEF reg, lane
    <3>2. b \notin shift_left(narrowed(1), 16)
      BY <2>4, <3>1 DEF shift_left
    <3>3. b \in narrowed(0) <=> \A j \in 0..(p.len - 1) : v[j][0][b] = p.word[j]
      BY <2>1, <2>3, <3>1 DEF Equal
    <3>. QED  BY <2>2, <3>1, <3>2, <3>3
  <2>6. CASE b >= 16
    <3>1. /\ reg(h, b) = 1 /\ lane(b) = b - 16
          /\ b - 16 \in Lane /\ b - 16 \in 0..31 /\ b \notin 0..15
      BY <1>1, <2>1, <2>6 DEF reg, lane
    <3>2. b \notin narrowed(0)
      BY <2>4, <3>1
    <3>3. b \in shift_left(narrowed(1), 16) <=> b - 16 \in narrowed(1)
      BY <2>1 DEF shift_left
    <3>4. b - 16 \in narrowed(1)
            <=> \A j \in 0..(p.len - 1) : v[j][1][b - 16] = p.word[j]
      BY <2>3, <3>1 DEF Equal
    <3>. QED  BY <2>2, <3>1, <3>2, <3>3, <3>4
  <2>. QED  BY <2>1, <2>5, <2>6
<1>2. CASE ~(tier = "Neon" /\ halves = 1)
  BY <1>2, HalfMaskBit DEF pattern_mask, narrowed_mask
<1>. QED  BY <1>1, <1>2

LEMMA PatternMaskWidth ==
    ASSUME NEW h, NEW p
    PROVE  pattern_mask(h, p) \subseteq 0..(half_width(tier) - 1)
<1>1. tier = "Neon" => half_width(tier) = 32
  BY DEF half_width
<1>2. joined_mask(p) \subseteq 0..31
  BY DEF joined_mask, shift_left
<1>. QED  BY <1>1, <1>2 DEF pattern_mask, narrowed_mask

(* One half's mask for one pattern is the set of its hits there.           *)
LEMMA PatternMaskIsHits ==
    ASSUME TypeOK, BlockFits, FilterBuilt, VectorsLoaded, pc = "filter",
           p_idx < Len(patterns), NEW h \in HalfIndex
    PROVE  pattern_mask(h, patterns[p_idx + 1]) = HalfHits(h, p_idx + 1)
<1>. DEFINE p == prefixes[p_idx + 1]
            q == patterns[p_idx + 1]
            n == eval_len(p)
<1>1. p_idx + 1 \in 1..Len(patterns) /\ p_idx + 1 \in 1..Len(prefixes)
  BY LenProperties DEF TypeOK, BlockFits, FilterBuilt
<1>2. /\ p \in Seq(Byte) \ {<<>>}
      /\ q = Packed(p, case_insensitive)
      /\ n <= max_len
  BY <1>1, ElementOfSeq DEF BlockFits, FilterBuilt
<1>3. /\ n \in 1..PREFIX
      /\ q.len = n
      /\ \A j \in 0..(n - 1) : q.word[j] = Canon(case_insensitive, p[j + 1])
  BY <1>2, TypesOfPatterns DEF BlockFits
<1>4. max_len \in 1..PREFIX /\ Len(block) = width + max_len - 1
  BY BlockFitsMaxLen
<1>5. tier \in {"Avx512", "Avx2", "Neon"} /\ halves \in {1, 2}
  BY DEF TypeOK
<1>. HIDE DEF q, n, p
<1>6. ASSUME NEW b \in 0..(half_width(tier) - 1)
      PROVE  b \in pattern_mask(h, q) <=> b \in HalfHits(h, p_idx + 1)
  <2>. DEFINE r == reg(h, b)
              k == lane(b)
              c == r * register_size(tier) + k
  <2>1. r \in RegisterIndex /\ k \in Lane /\ c = h * half_width(tier) + b
    BY <1>5, LaneFacts
  <2>2. c \in 0..(width - 1) /\ width \in Nat
    BY <1>5, <2>1, WidthFacts
  <2>3. \A j \in 0..(n - 1) : v[j][r][k] = Canon(case_insensitive, block[j + c + 1])
    <3>1. \A j \in 0..(n - 1) : j \in 0..(max_len - 1)
      BY <1>2, <1>3, <1>4
    <3>2. \A j \in 0..(n - 1) :
              v[j][r][k] = Canon(case_insensitive, block[j + r * register_size(tier) + k + 1])
      BY <2>1, <3>1 DEF VectorsLoaded
    <3>3. r * register_size(tier) \in Int /\ k \in Int
      BY <1>5, <2>1 DEF RegisterIndex, Lane, register_size, registers_of_half
    <3>4. \A j \in 0..(n - 1) : j + r * register_size(tier) + k + 1 = j + c + 1
      BY <1>3, <3>3
    <3>. QED  BY <3>2, <3>4
  <2>4. b \in pattern_mask(h, q) <=> \A j \in 0..(n - 1) : v[j][r][k] = q.word[j]
    <3>1. q.len \in Nat \ {0}
      BY <1>3, PrefixAssumption
    <3>. QED  BY <1>3, <1>5, <3>1, PatternMaskBit
  <2>. HIDE DEF r, k, c
  <2>5. b \in pattern_mask(h, q)
          <=> \A j \in 0..(n - 1) : Canon(case_insensitive, block[j + c + 1])
                                      = Canon(case_insensitive, p[j + 1])
    BY <1>3, <2>3, <2>4
  <2>6. c \in Nat /\ c + n <= Len(block)
    BY <1>2, <1>3, <1>4, <2>2, PrefixAssumption
  <2>7. (\A j \in 0..(n - 1) : Canon(case_insensitive, block[j + c + 1])
                                 = Canon(case_insensitive, p[j + 1]))
          <=> (\A j \in 1..n : Canon(case_insensitive, block[c + j])
                                 = Canon(case_insensitive, p[j]))
    <3>1. ASSUME \A j \in 0..(n - 1) : Canon(case_insensitive, block[j + c + 1])
                                         = Canon(case_insensitive, p[j + 1]),
                 NEW j \in 1..n
          PROVE  Canon(case_insensitive, block[c + j]) = Canon(case_insensitive, p[j])
      <4>1. j - 1 \in 0..(n - 1) /\ (j - 1) + c + 1 = c + j /\ (j - 1) + 1 = j
        BY <1>3, <2>6, PrefixAssumption
      <4>. QED  BY <3>1, <4>1
    <3>2. ASSUME \A j \in 1..n : Canon(case_insensitive, block[c + j])
                                   = Canon(case_insensitive, p[j]),
                 NEW j \in 0..(n - 1)
          PROVE  Canon(case_insensitive, block[j + c + 1])
                   = Canon(case_insensitive, p[j + 1])
      <4>1. j + 1 \in 1..n /\ j + c + 1 = c + (j + 1)
        BY <1>3, <2>6, PrefixAssumption
      <4>. QED  BY <3>2, <4>1
    <3>. QED  BY <3>1, <3>2
  <2>8. b \in HalfHits(h, p_idx + 1)
          <=> PrefixOfAt(block, p, case_insensitive, c)
    BY <2>1 DEF HalfHits, p
  <2>9. PrefixOfAt(block, p, case_insensitive, c)
          <=> \A j \in 1..n : Canon(case_insensitive, block[c + j])
                                = Canon(case_insensitive, p[j])
    BY <2>6 DEF PrefixOfAt, n
  <2>. QED  BY <2>5, <2>7, <2>8, <2>9
<1>7. /\ pattern_mask(h, q) \subseteq 0..(half_width(tier) - 1)
      /\ HalfHits(h, p_idx + 1) \subseteq 0..(half_width(tier) - 1)
  BY PatternMaskWidth DEF HalfHits
<1>. QED  BY <1>6, <1>7 DEF q

-----------------------------------------------------------------------------
LEMMA InitIInv == Init => IInv
<1>. SUFFICES ASSUME Init PROVE IInv
  OBVIOUS
<1>1. block \in Seq(Byte) /\ prefixes \in Seq(Seq(Byte) \ {<<>>})
  BY FilterAssumption DEF Init, Handed
<1>2. TypeOK
  <2>1. masks \in [HalfIndex -> SUBSET (0..(half_width(tier) - 1))]
    BY DEF Init, Handed
  <2>2. p_idx \in 0..Len(patterns) /\ max_len \in 0..PREFIX
    BY PrefixAssumption DEF Init
  <2>. QED  BY <2>1, <2>2 DEF Init, TypeOK
<1>3. BlockFits
  BY <1>1 DEF Init, Handed, BlockFits
<1>4. FilterBuilt
  BY <1>1, LenProperties DEF Init, Handed, FilterBuilt
<1>5. LoadsInBounds
  BY <1>1, LenProperties DEF Init, LoadsInBounds
<1>6. VectorsLoaded
  BY DEF Init, VectorsLoaded
<1>7. MasksSoFar
  <2>1. p_idx = 0 /\ pc # "done" /\ \A h \in HalfIndex : masks[h] = {}
    BY DEF Init
  <2>. QED  BY <2>1 DEF MasksSoFar
<1>. QED  BY <1>2, <1>3, <1>4, <1>5, <1>6, <1>7 DEF IInv

(* max_len stays the longest of what has been stored.                      *)
LEMMA NewPatternStep == ASSUME IInv, NewPattern PROVE IInv'
<1>. USE DEF IInv
<1>. DEFINE n == Len(patterns) + 1
            slice == prefixes[n]
            q == Packed(slice, case_insensitive)
<1>1. /\ pc = "new" /\ Len(patterns) < Len(prefixes)
      /\ patterns' = Append(patterns, q)
      /\ max_len' = IF eval_len(slice) > max_len THEN eval_len(slice) ELSE max_len
      /\ UNCHANGED <<entry_point, input, v, read_end, p_idx, masks, pc>>
  BY DEF NewPattern
<1>2. /\ patterns \in Seq([len : 1..PREFIX, word : Word])
      /\ Len(patterns) \in Nat /\ Len(prefixes) \in Nat /\ n \in 1..Len(prefixes)
      /\ max_len \in 0..PREFIX
  BY <1>1, LenProperties DEF TypeOK, BlockFits
<1>3. slice \in Seq(Byte) \ {<<>>}
  BY <1>2, ElementOfSeq DEF BlockFits
<1>4. eval_len(slice) \in 1..PREFIX /\ q \in [len : 1..PREFIX, word : Word]
  BY <1>3, TypesOfPatterns DEF BlockFits
<1>. HIDE DEF slice, q
<1>5. /\ patterns' \in Seq([len : 1..PREFIX, word : Word])
      /\ Len(patterns') = n
      /\ \A k \in 1..Len(patterns) : patterns'[k] = patterns[k]
      /\ patterns'[n] = q
  BY <1>1, <1>2, <1>4, AppendProperties
<1>6. /\ max_len' \in 0..PREFIX /\ max_len <= max_len' /\ eval_len(slice) <= max_len'
      /\ max_len' = max_len \/ max_len' = eval_len(slice)
  BY <1>1, <1>2, <1>4, PrefixAssumption
<1>7. TypeOK'
  <2>1. p_idx \in 0..n
    BY <1>2 DEF TypeOK
  <2>2. /\ v' \in {<<>>} \cup [0..(PREFIX - 1) -> [RegisterIndex' -> [Lane' -> Byte]]]
        /\ masks' \in [HalfIndex' -> SUBSET (0..(half_width(tier') - 1))]
    BY <1>1 DEF TypeOK, input, entry_point, RegisterIndex, Lane, HalfIndex
  <2>. QED  BY <1>1, <1>5, <1>6, <2>1, <2>2 DEF TypeOK, input, entry_point
<1>8. BlockFits' /\ LoadsInBounds'
  BY <1>1 DEF BlockFits, LoadsInBounds, input, entry_point, width
<1>9. FilterBuilt'
  <2>1. ASSUME NEW k \in 1..n
        PROVE  /\ patterns'[k] = Packed(prefixes[k], case_insensitive)
               /\ eval_len(prefixes[k]) <= max_len'
    <3>1. CASE k = n
      BY <1>5, <1>6, <3>1 DEF q, slice
    <3>2. CASE k # n
      <4>1. k \in 1..Len(patterns)
        BY <1>2, <3>2
      <4>2. k \in 1..Len(prefixes)
        BY <1>1, <1>2, <4>1
      <4>3. prefixes[k] \in Seq(Byte) \ {<<>>}
        BY <4>2, ElementOfSeq DEF BlockFits
      <4>4. eval_len(prefixes[k]) \in 1..PREFIX
        BY <4>3, TypesOfPatterns DEF BlockFits
      <4>5. /\ patterns'[k] = Packed(prefixes[k], case_insensitive)
            /\ eval_len(prefixes[k]) <= max_len
        BY <1>5, <4>1 DEF FilterBuilt
      <4>. QED  BY <1>2, <1>6, <4>4, <4>5, PrefixAssumption
    <3>. QED  BY <3>1, <3>2
  <2>2. max_len' = 0 \/ \E k \in 1..n : eval_len(prefixes[k]) = max_len'
    <3>1. CASE max_len' = eval_len(slice)
      BY <1>2, <3>1 DEF slice
    <3>2. CASE max_len' = max_len
      <4>1. \A k \in 1..Len(patterns) : k \in 1..n
        BY <1>2
      <4>. QED  BY <3>2, <4>1 DEF FilterBuilt
    <3>. QED  BY <1>6, <3>1, <3>2
  <2>. QED  BY <1>1, <1>2, <1>5, <2>1, <2>2 DEF FilterBuilt, input, entry_point
<1>10. VectorsLoaded' /\ MasksSoFar'
  BY <1>1 DEF VectorsLoaded, MasksSoFar, HalfHits, input, entry_point, HalfIndex
<1>. QED  BY <1>7, <1>8, <1>9, <1>10

(* The last byte loaded is the last byte a prefix may reach into.          *)
LEMMA LoadStep == ASSUME IInv, Load PROVE IInv'
<1>. USE DEF IInv
<1>1. pc = "load" /\ pc' = "filter" /\ UNCHANGED <<entry_point, input, filter, p_idx, masks>>
  BY DEF Load
<1>2. BlockFits' /\ FilterBuilt' /\ MasksSoFar'
  BY <1>1
     DEF BlockFits, FilterBuilt, MasksSoFar, HalfHits, input, entry_point, filter,
         width, HalfIndex
<1>3. /\ tier \in {"Avx512", "Avx2", "Neon"} /\ halves \in {1, 2}
      /\ case_insensitive \in BOOLEAN /\ block \in Seq(Byte)
  BY DEF TypeOK, BlockFits
<1>4. max_len \in 1..PREFIX /\ Len(block) = width + max_len - 1 /\ width \in Nat \ {0}
  BY <1>1, <1>3, BlockFitsMaxLen, WidthFacts
<1>. DEFINE at(j, r, k) == (IF IsLoaded(j) THEN j ELSE 0) + r * register_size(tier) + k
<1>5. /\ v' \in [0..(PREFIX - 1) -> [RegisterIndex -> [Lane -> Byte]]]
      /\ \A j \in 0..(PREFIX - 1), r \in RegisterIndex, k \in Lane :
            v'[j][r][k] = ascii_fold(byte_at(at(j, r, k)))
  <2>1. v' = [j \in 0..(PREFIX - 1) |-> [r \in RegisterIndex |-> [k \in Lane |->
                ascii_fold(byte_at(at(j, r, k)))]]]
    BY DEF Load
  <2>2. ASSUME NEW j \in 0..(PREFIX - 1), NEW r \in RegisterIndex, NEW k \in Lane
        PROVE  ascii_fold(byte_at(at(j, r, k))) \in Byte
    <3>1. at(j, r, k) \in Nat
      <4>1. j \in Nat /\ r * register_size(tier) + k \in Nat
        BY <1>3, <1>4, WidthFacts, PrefixAssumption
      <4>2. r * register_size(tier) \in Int /\ k \in Int
        BY <1>3 DEF RegisterIndex, Lane, register_size, registers_of_half
      <4>. QED  BY <4>1, <4>2
    <3>. HIDE DEF at
    <3>2. byte_at(at(j, r, k)) \in Byte
      <4>1. CASE at(j, r, k) < Len(block)
        <5>1. at(j, r, k) + 1 \in 1..Len(block)
          BY <1>3, <3>1, <4>1, LenProperties
        <5>. QED  BY <1>3, <4>1, <5>1, ElementOfSeq DEF byte_at
      <4>2. CASE ~(at(j, r, k) < Len(block))
        BY <4>2 DEF byte_at, Byte
      <4>. QED  BY <4>1, <4>2
    <3>3. \A byte \in Byte : Canon(case_insensitive, byte) \in Byte
      BY FoldedIsByte DEF Canon
    <3>. QED  BY <1>3, <3>2, <3>3, FoldIsCanon
  <2>. HIDE DEF at
  <2>. QED  BY <2>1, <2>2
<1>6. TypeOK'
  BY <1>1, <1>5 DEF TypeOK, input, entry_point, filter, RegisterIndex, Lane, HalfIndex
<1>7. LoadsInBounds'
  <2>1. PICK j \in 0..(PREFIX - 1) : IsLoaded(j) /\ read_end' = j + width
    BY DEF Load
  <2>2. j <= max_len - 1
    BY <1>4, <2>1, PrefixAssumption DEF IsLoaded
  <2>. QED  BY <1>1, <1>4, <2>1, <2>2, PrefixAssumption
            DEF LoadsInBounds, input, entry_point
<1>8. VectorsLoaded'
  <2>. SUFFICES ASSUME NEW j \in 0..(max_len - 1), NEW r \in RegisterIndex, NEW k \in Lane
                PROVE  v'[j][r][k]
                         = Canon(case_insensitive, block[j + r * register_size(tier) + k + 1])
    BY <1>1 DEF VectorsLoaded, input, entry_point, filter, RegisterIndex, Lane
  <2>. DEFINE c == r * register_size(tier) + k
  <2>1. c \in 0..(width - 1) /\ r * register_size(tier) \in Int /\ k \in Int
    <3>1. c \in 0..(width - 1)
      BY <1>3, WidthFacts
    <3>2. r * register_size(tier) \in Int /\ k \in Int
      BY <1>3 DEF RegisterIndex, Lane, register_size, registers_of_half
    <3>. QED  BY <3>1, <3>2
  <2>2. j \in 0..(PREFIX - 1) /\ IsLoaded(j) /\ j \in Int
    BY <1>4, PrefixAssumption DEF IsLoaded
  <2>3. at(j, r, k) = j + c /\ j + r * register_size(tier) + k + 1 = j + c + 1
    BY <2>1, <2>2
  <2>4. v'[j][r][k] = ascii_fold(byte_at(j + c))
    BY <1>5, <2>2, <2>3
  <2>. HIDE DEF c
  <2>5. j + c \in Nat /\ j + c < Len(block) /\ j + c + 1 \in 1..Len(block)
    BY <1>4, <2>1, <2>2, PrefixAssumption
  <2>6. byte_at(j + c) = block[j + c + 1] /\ block[j + c + 1] \in Byte
    BY <1>3, <2>5, ElementOfSeq DEF byte_at
  <2>. QED  BY <1>3, <2>3, <2>4, <2>6, FoldIsCanon
<1>. QED  BY <1>2, <1>6, <1>7, <1>8

LEMMA FilterPatternStep == ASSUME IInv, FilterPattern PROVE IInv'
<1>. USE DEF IInv
<1>. DEFINE q == patterns[p_idx + 1]
<1>1. /\ pc = "filter" /\ p_idx < Len(patterns) /\ p_idx' = p_idx + 1
      /\ masks' = [h \in HalfIndex |-> masks[h] \cup pattern_mask(h, q)]
      /\ UNCHANGED <<entry_point, input, filter, v, read_end, pc>>
  BY DEF FilterPattern
<1>2. p_idx \in 0..Len(patterns) /\ Len(patterns) \in Nat
  BY LenProperties DEF TypeOK
<1>3. BlockFits' /\ FilterBuilt' /\ VectorsLoaded' /\ LoadsInBounds'
  BY <1>1
     DEF BlockFits, FilterBuilt, VectorsLoaded, LoadsInBounds, input, entry_point,
         filter, width, RegisterIndex, Lane
<1>. HIDE DEF q
<1>4. TypeOK'
  <2>1. \A h \in HalfIndex : masks[h] \subseteq 0..(half_width(tier) - 1)
    BY DEF TypeOK
  <2>2. masks' \in [HalfIndex -> SUBSET (0..(half_width(tier) - 1))]
    BY <1>1, <2>1, PatternMaskWidth
  <2>3. p_idx + 1 \in 0..Len(patterns)
    BY <1>1, <1>2
  <2>. QED  BY <1>1, <2>2, <2>3
            DEF TypeOK, input, entry_point, filter, HalfIndex, RegisterIndex, Lane
<1>5. MasksSoFar'
  <2>. SUFFICES ASSUME NEW h \in HalfIndex
                PROVE  masks'[h] = UNION {HalfHits(h, k) : k \in 1..(p_idx + 1)}
    BY <1>1 DEF MasksSoFar, HalfHits, input, entry_point, HalfIndex
  <2>1. masks'[h] = masks[h] \cup HalfHits(h, p_idx + 1)
    BY <1>1, PatternMaskIsHits DEF q
  <2>2. masks[h] = UNION {HalfHits(h, k) : k \in 1..p_idx}
    BY DEF MasksSoFar
  <2>3. 1..(p_idx + 1) = 1..p_idx \cup {p_idx + 1}
    BY <1>2
  <2>. QED  BY <2>1, <2>2, <2>3
<1>. QED  BY <1>3, <1>4, <1>5

LEMMA OtherSteps == ASSUME IInv, NewReturn \/ Return \/ UNCHANGED vars PROVE IInv'
<1>. USE DEF IInv
<1>1. /\ UNCHANGED <<entry_point, input, filter, v, read_end, p_idx, masks>>
      /\ \/ pc' = pc
         \/ pc = "new" /\ pc' = "load" /\ Len(patterns) = Len(prefixes)
         \/ pc = "filter" /\ pc' = "done" /\ p_idx = Len(patterns)
  BY DEF NewReturn, Return, vars
<1>2. BlockFits' /\ LoadsInBounds'
  BY <1>1 DEF BlockFits, LoadsInBounds, input, entry_point, width
<1>3. FilterBuilt'
  BY <1>1 DEF FilterBuilt, input, entry_point, filter
<1>4. VectorsLoaded' /\ MasksSoFar'
  BY <1>1
     DEF VectorsLoaded, MasksSoFar, HalfHits, input, entry_point, filter,
         HalfIndex, RegisterIndex, Lane
<1>5. TypeOK'
  BY <1>1 DEF TypeOK, input, entry_point, filter, HalfIndex, RegisterIndex, Lane
<1>. QED  BY <1>2, <1>3, <1>4, <1>5

(* The inductive invariant of a SIMD filter holds from new() on.           *)
THEOREM Invariance == Spec => []IInv
<1>1. IInv /\ [Next]_vars => IInv'
  <2>1. ASSUME Next
        PROVE  NewPattern \/ NewReturn \/ Load \/ FilterPattern \/ Return
    BY <2>1 DEF Next, New, Check, Avx512Filter_new, Avx2Filter_new, NeonFilter_new,
         Avx512Filter_check_128byte_block, Avx512Filter_check_64byte_block,
         Avx2Filter_check_64byte_block, Avx2Filter_check_32byte_block,
         NeonFilter_check_64byte_block, NeonFilter_check_32byte_block
  <2>. QED  BY <2>1, NewPatternStep, LoadStep, FilterPatternStep, OtherSteps
<1>. QED  BY InitIInv, <1>1, PTL DEF Spec

(* Every variable of a filter keeps its type; a mask never has a bit past  *)
(* the last position of its half.                                          *)
THEOREM TypeCorrect == Spec => []TypeOK
<1>1. IInv => TypeOK
  BY DEF IInv
<1>. QED  BY Invariance, <1>1, PTL

(* No load of any tier, at any entry point, leaves the slice it is given.  *)
THEOREM LoadsStayInBounds == Spec => []LoadsInBounds
<1>1. IInv => LoadsInBounds
  BY DEF IInv
<1>. QED  BY Invariance, <1>1, PTL

(* The filters of all three tiers report exactly the prefix hits of each   *)
(* half of their block.                                                    *)
THEOREM FiltersExact == Spec => []FilterIsExact
<1>1. ASSUME IInv PROVE FilterIsExact
  <2>. SUFFICES ASSUME pc = "done", NEW h \in HalfIndex
                PROVE  masks[h] = PrefixHits(block, prefixes, case_insensitive,
                                             h * half_width(tier), half_width(tier))
    BY DEF FilterIsExact
  <2>1. masks[h] = UNION {HalfHits(h, k) : k \in 1..Len(prefixes)}
    BY <1>1 DEF IInv, FilterBuilt, MasksSoFar
  <2>2. DOMAIN prefixes = 1..Len(prefixes)
    BY <1>1, LenProperties DEF IInv, BlockFits
  <2>. QED  BY <2>1, <2>2 DEF PrefixHits, PrefixAt, HalfHits
<1>. QED  BY Invariance, <1>1, PTL

-----------------------------------------------------------------------------
(* The filter of the scalar tier.  It needs no lanes and no max_len of its *)
(* own: its invariant says how far the two loops have come, and that they  *)
(* leave no gap.                                                           *)

(* The block has the trailing bytes every pattern needs.                   *)
ScalarBlockFits ==
    /\ Len(block) >= BLOCK
    /\ \A k \in 1..Len(prefixes) :
          /\ eval_len(prefixes[k]) \in 1..PREFIX
          /\ Len(block) >= BLOCK + eval_len(prefixes[k]) - 1

(* A turn of the unrolled loop never tests a position beyond the last.     *)
Aligned == pc = "unrolled" => \E r \in Nat : BLOCK = i + r * UNROLL

InLoop == pc \in {"unrolled", "tail"} => p_idx < Len(prefixes)

AtReturn == pc = "done" => p_idx = Len(prefixes)

ScalarIInv == ScalarTypeOK /\ ScalarBlockFits /\ Aligned /\ InLoop /\ AtReturn /\ MaskSoFar

-----------------------------------------------------------------------------
(* A word comparison at a position decides whether the prefix is there.    *)
LEMMA ComparisonIsHit ==
    ASSUME ScalarTypeOK, ScalarBlockFits, p_idx < Len(prefixes), NEW b \in 0..(BLOCK - 1)
    PROVE  MaskedEqual(folded(b), pattern) <=> b \in Hits(p_idx + 1)
<1>. DEFINE p == prefixes[p_idx + 1]
            n == eval_len(p)
<1>1. /\ p_idx + 1 \in 1..Len(prefixes)
      /\ n \in 1..PREFIX /\ Len(block) >= BLOCK + n - 1
      /\ Len(block) \in Nat /\ BLOCK \in Nat /\ PREFIX \in Nat
  BY LenProperties, ScalarAssumption, PrefixAssumption
     DEF ScalarTypeOK, ScalarBlockFits
<1>2. /\ pattern.len = n
      /\ \A j \in 0..(n - 1) : pattern.word[j] = Canon(case_insensitive, p[j + 1])
  BY <1>1 DEF pattern, Packed
<1>3. \A j \in 0..(n - 1) : folded(b)[j] = Canon(case_insensitive, block[b + j + 1])
  BY <1>1 DEF folded, load
<1>4. MaskedEqual(folded(b), pattern)
        <=> \A j \in 0..(n - 1) : Canon(case_insensitive, block[b + j + 1])
                                    = Canon(case_insensitive, p[j + 1])
  BY <1>2, <1>3 DEF MaskedEqual
<1>. HIDE DEF n, p
<1>5. (\A j \in 0..(n - 1) : Canon(case_insensitive, block[b + j + 1])
                               = Canon(case_insensitive, p[j + 1]))
        <=> (\A j \in 1..n : Canon(case_insensitive, block[b + j])
                               = Canon(case_insensitive, p[j]))
  <2>1. ASSUME \A j \in 0..(n - 1) : Canon(case_insensitive, block[b + j + 1])
                                       = Canon(case_insensitive, p[j + 1]),
               NEW j \in 1..n
        PROVE  Canon(case_insensitive, block[b + j]) = Canon(case_insensitive, p[j])
    <3>1. j - 1 \in 0..(n - 1) /\ b + (j - 1) + 1 = b + j /\ (j - 1) + 1 = j
      BY <1>1
    <3>. QED  BY <2>1, <3>1
  <2>2. ASSUME \A j \in 1..n : Canon(case_insensitive, block[b + j])
                                 = Canon(case_insensitive, p[j]),
               NEW j \in 0..(n - 1)
        PROVE  Canon(case_insensitive, block[b + j + 1])
                 = Canon(case_insensitive, p[j + 1])
    <3>1. j + 1 \in 1..n /\ b + j + 1 = b + (j + 1)
      BY <1>1
    <3>. QED  BY <2>2, <3>1
  <2>. QED  BY <2>1, <2>2
<1>6. b + n <= Len(block)
  BY <1>1
<1>7. b \in Hits(p_idx + 1)
        <=> \A j \in 1..n : Canon(case_insensitive, block[b + j])
                              = Canon(case_insensitive, p[j])
  BY <1>6 DEF Hits, PrefixOfAt, n, p
<1>. QED  BY <1>4, <1>5, <1>7

(* What a turn that tests m positions adds to the mask.                    *)
LEMMA TestedIsHits ==
    ASSUME ScalarTypeOK, ScalarBlockFits, p_idx < Len(prefixes),
           NEW m \in Nat \ {0}, i + m <= BLOCK
    PROVE  Tested(m) = {b \in Hits(p_idx + 1) : i <= b /\ b < i + m}
<1>1. i \in Nat /\ BLOCK \in Nat
  BY ScalarAssumption DEF ScalarTypeOK
<1>2. \A b \in i..(i + m - 1) : b \in 0..(BLOCK - 1)
  BY <1>1
<1>3. \A b \in i..(i + m - 1) : MaskedEqual(folded(b), pattern) <=> b \in Hits(p_idx + 1)
  BY <1>2, ComparisonIsHit
<1>4. \A b \in Hits(p_idx + 1) : i <= b /\ b < i + m <=> b \in i..(i + m - 1)
  BY <1>1 DEF Hits
<1>. QED  BY <1>3, <1>4 DEF Tested

LEMMA HitsAreOffsets == \A k : Hits(k) \subseteq 0..(BLOCK - 1)
  BY DEF Hits

(* A turn of either loop, which tests m positions and advances by as many. *)
LEMMA TurnKeepsMask ==
    ASSUME ScalarIInv, pc \in {"unrolled", "tail"}, pc' = pc, UNCHANGED <<input, p_idx>>,
           NEW m \in Nat \ {0}, i + m <= BLOCK, i' = i + m, mask' = mask \cup Tested(m)
    PROVE  MaskSoFar' /\ mask' \subseteq 0..(BLOCK - 1)
<1>. USE DEF ScalarIInv
<1>1. p_idx < Len(prefixes)
  BY DEF InLoop
<1>2. Tested(m) = {b \in Hits(p_idx + 1) : i <= b /\ b < i + m}
  BY <1>1, TestedIsHits
<1>3. i \in Nat /\ Hits(p_idx + 1) \subseteq 0..(BLOCK - 1)
  BY ScalarAssumption, HitsAreOffsets DEF ScalarTypeOK
<1>4. {b \in Hits(p_idx + 1) : b < i} \cup Tested(m) = {b \in Hits(p_idx + 1) : b < i + m}
  BY <1>2, <1>3, ScalarAssumption
<1>5. Hits(p_idx + 1)' = Hits(p_idx + 1) /\ \A k : Hits(k)' = Hits(k)
  BY DEF Hits, input
<1>6. mask = (UNION {Hits(k) : k \in 1..p_idx}) \cup {b \in Hits(p_idx + 1) : b < i}
  BY DEF MaskSoFar
<1>7. mask' = (UNION {Hits(k) : k \in 1..p_idx}) \cup {b \in Hits(p_idx + 1) : b < i + m}
  BY <1>4, <1>6
<1>8. MaskSoFar'
  BY <1>5, <1>7 DEF MaskSoFar, Hits, input
<1>9. Tested(m) \subseteq 0..(BLOCK - 1)
  BY <1>2, <1>3
<1>. QED  BY <1>8, <1>9 DEF ScalarTypeOK

-----------------------------------------------------------------------------
LEMMA ScalarInitIInv == ScalarInit => ScalarIInv
<1>. SUFFICES ASSUME ScalarInit PROVE ScalarIInv
  OBVIOUS
<1>1. ScalarTypeOK
  BY LenProperties, FilterAssumption, ScalarAssumption
     DEF ScalarInit, Handed, ScalarTypeOK
<1>2. PICK n \in 1..PREFIX : IsMaxLen(prefixes, n) /\ Len(block) = BLOCK + n - 1
  BY DEF ScalarInit, Handed
<1>3. ScalarBlockFits
  <2>1. /\ BLOCK \in Nat /\ PREFIX \in Nat \ {0} /\ Len(block) >= BLOCK
    BY <1>2, ScalarAssumption, PrefixAssumption
  <2>2. ASSUME NEW k \in 1..Len(prefixes)
        PROVE  /\ eval_len(prefixes[k]) \in 1..PREFIX
               /\ Len(block) >= BLOCK + eval_len(prefixes[k]) - 1
    <3>1. prefixes[k] \in Seq(Byte) /\ prefixes[k] # <<>> /\ k \in DOMAIN prefixes
      BY ElementOfSeq, LenProperties, <1>1 DEF ScalarTypeOK
    <3>2. Len(prefixes[k]) \in Nat \ {0}
      BY <3>1, EmptySeq, LenProperties
    <3>3. eval_len(prefixes[k]) \in 1..PREFIX
      BY <3>2, <2>1 DEF eval_len
    <3>4. eval_len(prefixes[k]) <= n
      BY <1>2, <3>1 DEF IsMaxLen
    <3>. QED  BY <3>3, <3>4, <1>2, <2>1
  <2>. QED  BY <2>1, <2>2 DEF ScalarBlockFits
<1>4. MaskSoFar
  BY DEF ScalarInit, MaskSoFar
<1>. QED  BY <1>1, <1>3, <1>4 DEF ScalarInit, ScalarIInv, Aligned, InLoop, AtReturn

(* The next pattern: as the block fits it is never skipped.                *)
LEMMA StartPatternStep == ASSUME ScalarIInv, StartPattern PROVE ScalarIInv'
<1>. USE DEF ScalarIInv
<1>1. p_idx + 1 \in 1..Len(prefixes) /\ pattern.len = eval_len(prefixes[p_idx + 1])
  BY LenProperties DEF StartPattern, ScalarTypeOK, pattern, Packed
<1>2. /\ i' = 0 /\ pc' = "unrolled" /\ UNCHANGED <<input, p_idx, mask>>
  <2>1. ~(Len(block) < BLOCK + (pattern.len - 1))
    BY <1>1, LenProperties, ScalarAssumption, PrefixAssumption
       DEF ScalarBlockFits, ScalarTypeOK
  <2>. QED  BY <2>1 DEF StartPattern
<1>3. ScalarTypeOK' /\ ScalarBlockFits' /\ InLoop' /\ AtReturn'
  BY <1>2, ScalarAssumption
     DEF ScalarTypeOK, ScalarBlockFits, InLoop, AtReturn, input, StartPattern
<1>4. Aligned'
  BY <1>2, ScalarAssumption DEF Aligned
<1>5. MaskSoFar'
  <2>1. {b \in Hits(p_idx + 1) : b < 0} = {}
    BY HitsAreOffsets, ScalarAssumption
  <2>2. mask = UNION {Hits(k) : k \in 1..p_idx}
    BY DEF MaskSoFar, StartPattern
  <2>. QED  BY <1>2, <2>1, <2>2 DEF MaskSoFar, Hits, input
<1>. QED  BY <1>3, <1>4, <1>5

LEMMA UnrolledLoopStep == ASSUME ScalarIInv, UnrolledLoop PROVE ScalarIInv'
<1>. USE DEF ScalarIInv
<1>1. PICK r \in Nat : BLOCK = i + r * UNROLL
  BY DEF Aligned, UnrolledLoop
<1>2. /\ i \in Nat /\ BLOCK \in Nat /\ UNROLL \in Nat \ {0} /\ i < BLOCK
  BY ScalarAssumption DEF ScalarTypeOK, UnrolledLoop
<1>3. r # 0
  BY <1>1, <1>2
<1>4. PICK q \in Nat : r = q + 1
  <2>1. r - 1 \in Nat /\ r = (r - 1) + 1
    BY <1>3
  <2>. QED  BY <2>1
<1>5. BLOCK = i + UNROLL + q * UNROLL /\ q * UNROLL \in Nat
  BY <1>1, <1>2, <1>4
<1>6. i + UNROLL <= BLOCK
  BY <1>2, <1>5
<1>7. MaskSoFar' /\ mask' \subseteq 0..(BLOCK - 1)
  BY <1>2, <1>6, TurnKeepsMask DEF UnrolledLoop
<1>8. ScalarTypeOK' /\ ScalarBlockFits' /\ InLoop' /\ AtReturn'
  BY <1>2, <1>6, <1>7
     DEF ScalarTypeOK, ScalarBlockFits, InLoop, AtReturn, input, UnrolledLoop
<1>9. Aligned'
  BY <1>5 DEF Aligned, UnrolledLoop
<1>. QED  BY <1>7, <1>8, <1>9

LEMMA TailLoopStep == ASSUME ScalarIInv, TailLoop PROVE ScalarIInv'
<1>. USE DEF ScalarIInv
<1>1. i \in Nat /\ BLOCK \in Nat /\ i + 1 <= BLOCK
  BY ScalarAssumption DEF ScalarTypeOK, TailLoop, InTail
<1>2. MaskSoFar' /\ mask' \subseteq 0..(BLOCK - 1)
  BY <1>1, TurnKeepsMask DEF TailLoop
<1>. QED  BY <1>1, <1>2
          DEF ScalarTypeOK, ScalarBlockFits, Aligned, InLoop, AtReturn, input,
              TailLoop

(* The tail loop ends at the last position, so the pattern is complete.    *)
LEMMA TailLoopDoneStep == ASSUME ScalarIInv, TailLoopDone PROVE ScalarIInv'
<1>. USE DEF ScalarIInv
<1>1. /\ i = BLOCK /\ p_idx \in Nat /\ BLOCK \in Nat
      /\ p_idx < Len(prefixes) /\ Len(prefixes) \in Nat
  BY ScalarAssumption, LenProperties
     DEF ScalarTypeOK, TailLoopDone, InTail, ScalarBlockFits, InLoop
<1>2. {b \in Hits(p_idx + 1) : b < i} = Hits(p_idx + 1)
  BY <1>1, HitsAreOffsets
<1>3. mask = (UNION {Hits(k) : k \in 1..p_idx}) \cup Hits(p_idx + 1)
  BY <1>2 DEF MaskSoFar, TailLoopDone
<1>4. 1..(p_idx + 1) = 1..p_idx \cup {p_idx + 1}
  BY <1>1
<1>5. mask = UNION {Hits(k) : k \in 1..(p_idx + 1)}
  BY <1>3, <1>4
<1>6. MaskSoFar'
  BY <1>5 DEF MaskSoFar, TailLoopDone, Hits, input
<1>. QED  BY <1>1, <1>6
          DEF ScalarTypeOK, ScalarBlockFits, Aligned, InLoop, AtReturn, input,
              TailLoopDone

LEMMA ScalarOtherSteps ==
    ASSUME ScalarIInv, UnrolledLoopDone \/ ScalarReturn \/ UNCHANGED scalar_vars
    PROVE  ScalarIInv'
<1>. USE DEF ScalarIInv
<1>1. CASE UnrolledLoopDone
  BY <1>1
     DEF ScalarTypeOK, ScalarBlockFits, Aligned, InLoop, AtReturn, MaskSoFar,
         Hits, input, UnrolledLoopDone
<1>2. CASE ScalarReturn
  <2>1. pc = "pattern" /\ pc' = "done" /\ UNCHANGED <<input, p_idx, i, mask>>
    BY <1>2 DEF ScalarReturn
  <2>2. ScalarTypeOK' /\ ScalarBlockFits' /\ Aligned' /\ InLoop'
    BY <2>1 DEF ScalarTypeOK, ScalarBlockFits, Aligned, InLoop, input
  <2>3. AtReturn'
    BY <1>2 DEF AtReturn, ScalarReturn, input
  <2>4. MaskSoFar'
    BY <2>1 DEF MaskSoFar, Hits, input
  <2>. QED  BY <2>2, <2>3, <2>4
<1>3. CASE UNCHANGED scalar_vars
  BY <1>3
     DEF ScalarTypeOK, ScalarBlockFits, Aligned, InLoop, AtReturn, MaskSoFar,
         Hits, input, scalar_vars
<1>. QED  BY <1>1, <1>2, <1>3

(* Wherever the loops stand, the mask is complete up to there.             *)
THEOREM ScalarInvariance == ScalarSpec => []ScalarIInv
<1>1. ScalarIInv /\ [ScalarNext]_scalar_vars => ScalarIInv'
  BY StartPatternStep, UnrolledLoopStep, TailLoopStep, TailLoopDoneStep, ScalarOtherSteps
     DEF ScalarNext
<1>. QED  BY ScalarInitIInv, <1>1, PTL DEF ScalarSpec

(* Every shift of check_64byte_block stays below the width of the mask.    *)
THEOREM ScalarTypeCorrect == ScalarSpec => []ScalarTypeOK
<1>1. ScalarIInv => ScalarTypeOK
  BY DEF ScalarIInv
<1>. QED  BY ScalarInvariance, <1>1, PTL

(* The unrolled and the tail loop leave no gap and overlap nowhere.        *)
THEOREM LoopsAgree == ScalarSpec => []MaskSoFar
<1>1. ScalarIInv => MaskSoFar
  BY DEF ScalarIInv
<1>. QED  BY ScalarInvariance, <1>1, PTL

(* check_64byte_block returns exactly the prefix hits of its block, which  *)
(* is what the proofs about the iterator take a filter for.                *)
THEOREM ScalarFilterExact == ScalarSpec => []ScalarFilterIsExact
<1>1. ASSUME ScalarIInv PROVE ScalarFilterIsExact
  <2>. SUFFICES ASSUME pc = "done"
                PROVE  mask = PrefixHits(block, prefixes, case_insensitive, 0, BLOCK)
    BY DEF ScalarFilterIsExact
  <2>1. mask = UNION {Hits(k) : k \in 1..Len(prefixes)}
    BY <1>1 DEF ScalarIInv, AtReturn, MaskSoFar
  <2>2. DOMAIN prefixes = 1..Len(prefixes)
    BY <1>1, LenProperties DEF ScalarIInv, ScalarTypeOK
  <2>3. \A b \in 0..(BLOCK - 1) : 0 + b = b
    BY ScalarAssumption
  <2>4. \A b \in 0..(BLOCK - 1) :
          PrefixAt(block, prefixes, case_insensitive, b)
            <=> \E k \in 1..Len(prefixes) : b \in Hits(k)
    BY <2>2 DEF PrefixAt, Hits
  <2>. QED  BY <2>1, <2>3, <2>4, HitsAreOffsets DEF PrefixHits
<1>. QED  BY ScalarInvariance, <1>1, PTL
=============================================================================
