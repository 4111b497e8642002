-------------------------- MODULE Collector_proofs --------------------------
(***************************************************************************)
(* Proofs about Collector for every geometry (LANES, PREFIX), every        *)
(* haystack and every pattern list: type correctness, the absence of the   *)
(* panics of next(), the frontier invariant, and that a sieve implements   *)
(* MatchStream.                                                            *)
(***************************************************************************)
EXTENDS Collector, PatternSets_proofs

(* max_len bounds every prefix: fixed at construction, and what makes the  *)
(* trailing bytes of a block enough.                                       *)
MaxLenBounds == \A k \in DOMAIN patterns : eval_len(patterns[k]) <= max_len

(* Only the SIMD tiers fall through to a half-size block.                  *)
SingleIsDual == pc = "single" => tier \in DualTiers

(* The inductive invariant: the checked invariants, and these two.         *)
IInv ==
    TypeOK /\ MaxLenBounds /\ SingleIsDual /\ MaskGeometry /\ Drained /\ Frontier

-----------------------------------------------------------------------------
(* The strides are positive, and the collector's equals the dispatcher's.  *)
LEMMA Strides ==
    ASSUME NEW t \in HardwareTier
    PROVE  /\ half_stride(t) \in Nat \ {0}
           /\ half_block_stride(t) = half_stride(t)
           /\ ScalarBlock \in Nat \ {0}
           /\ MaskWidth(t) \in Nat \ {0}
           /\ t \in DualTiers => MaskWidth(t) = half_stride(t)
           /\ t \notin DualTiers => t = "Scalar" /\ MaskWidth(t) = ScalarBlock
  BY LanesAssumption
     DEF HardwareTier, DualTiers, half_stride, half_block_stride, ScalarBlock, MaskWidth

(* The bytes of a block and the max_len - 1 after it hold every prefix     *)
(* that starts in the block.                                               *)
LEMMA ChunkHoldsPrefix ==
    ASSUME TypeOK, MaxLenBounds,
           NEW width \in Nat, HasRoom(width), NEW pos \in 0..(width - 1),
           PrefixAt(haystack, patterns, case_insensitive, offset + pos)
    PROVE  PrefixAt(chunk(width), patterns, case_insensitive, pos)
<1>. DEFINE n == width + (max_len - 1)
<1>1. /\ haystack \in Seq(Byte) /\ patterns \in Seq(Seq(Byte) \ {<<>>})
      /\ offset \in Nat /\ n \in Nat /\ offset + n <= Len(haystack) /\ max_len \in Nat
  BY LenProperties, PrefixAssumption DEF TypeOK, HasRoom
<1>2. ASSUME NEW k \in DOMAIN patterns
      PROVE  pos + eval_len(patterns[k]) <= n
  <2>1. eval_len(patterns[k]) \in Nat /\ eval_len(patterns[k]) <= max_len
    BY <1>1, EvalLenOfPattern DEF MaxLenBounds
  <2>. QED  BY <1>1, <2>1
<1>3. case_insensitive \in BOOLEAN /\ pos \in Nat
  BY DEF TypeOK
<1>. HIDE DEF n
<1>4. PrefixAt(Slice(haystack, offset, n), patterns, case_insensitive, pos)
  BY <1>1, <1>2, <1>3, SlicedHits
<1>. QED  BY <1>4 DEF chunk, n

(* The matches of the sieve are offsets into its haystack.                 *)
LEMMA MatchesAreOffsets ==
    ASSUME TypeOK
    PROVE  /\ Len(haystack) \in Nat
           /\ matches \subseteq 0..(Len(haystack) - 1)
           /\ \A i \in Nat : MatchAt(haystack, patterns, case_insensitive, i)
                                <=> i \in matches
<1>1. Len(haystack) \in Nat
  BY LenProperties DEF TypeOK
<1>2. ASSUME NEW i \in Nat, MatchAt(haystack, patterns, case_insensitive, i)
      PROVE  i < Len(haystack)
  BY <1>2, MatchIsPrefixHit DEF TypeOK
<1>. QED  BY <1>1, <1>2 DEF matches, Matches

(* A filter answers for every match of the width positions it is asked     *)
(* about, lo bytes into a block.                                           *)
LEMMA CheckCoversMatches ==
    ASSUME TypeOK, MaxLenBounds, NEW lo \in Nat, NEW width \in Nat, NEW size \in Nat,
           lo + width <= size, HasRoom(size),
           NEW m \in matches, m >= offset + lo, m < offset + lo + width
    PROVE  m - offset - lo \in check(chunk(size), lo, width)
<1>. DEFINE pos == m - offset
<1>1. m \in Nat /\ offset \in Nat /\ pos \in 0..(size - 1) /\ pos >= lo
  BY MatchesAreOffsets DEF TypeOK
<1>2. m = offset + pos /\ lo + (m - offset - lo) = pos /\ m - offset - lo \in 0..(width - 1)
  BY <1>1
<1>3. PrefixAt(haystack, patterns, case_insensitive, offset + pos)
  BY <1>1, <1>2, MatchIsPrefixHit DEF TypeOK, matches, Matches
<1>4. PrefixAt(chunk(size), patterns, case_insensitive, pos)
  BY <1>1, <1>3, ChunkHoldsPrefix
<1>. QED  BY <1>2, <1>4 DEF check, PrefixHits

-----------------------------------------------------------------------------
(* No candidates means two empty masks.                                    *)
LEMMA NoCandidates == Candidates = {} <=> current_mask = {} /\ next_mask_cache = {}
  BY DEF Candidates

(* Every candidate is a byte the scan has consumed.                        *)
LEMMA CandidatesBehindOffset ==
    ASSUME TypeOK, MaskGeometry
    PROVE  \A c \in Candidates : c \in Nat /\ c < offset
<1>1. /\ tier \in HardwareTier /\ mask_base_offset \in Nat /\ offset \in Nat
      /\ half_stride(tier) \in Nat \ {0} /\ MaskWidth(tier) \in Nat
      /\ half_block_stride(tier) = half_stride(tier)
      /\ tier \in DualTiers => MaskWidth(tier) = half_stride(tier)
  BY Strides DEF TypeOK
<1>2. ASSUME NEW bit \in current_mask
      PROVE  mask_base_offset + bit \in Nat /\ mask_base_offset + bit < offset
  BY <1>1 DEF TypeOK, MaskGeometry
<1>3. ASSUME NEW bit \in next_mask_cache
      PROVE  LET c == mask_base_offset + half_block_stride(tier) + bit
             IN  c \in Nat /\ c < offset
  BY <1>1 DEF TypeOK, MaskGeometry
<1>. QED  BY <1>2, <1>3 DEF Candidates

(* The inputs of a sieve do not change, and its matches with them.         *)
LEMMA SameConfig ==
    ASSUME TypeOK, MaxLenBounds, UNCHANGED config
    PROVE  /\ matches' = matches
           /\ MaxLenBounds'
           /\ (/\ haystack \in Seq(Byte)
               /\ patterns \in Seq(Seq(Byte) \ {<<>>})
               /\ max_len \in 1..PREFIX
               /\ case_insensitive \in BOOLEAN
               /\ tier \in HardwareTier)'
           /\ UNCHANGED <<haystack, patterns, max_len, case_insensitive, tier>>
  BY DEF config, TypeOK, MaxLenBounds, matches

(* Consuming width bytes keeps the frontier when every match among them    *)
(* becomes a candidate and nothing outside them does.                      *)
LEMMA FetchKeepsFrontier ==
    ASSUME TypeOK, MaxLenBounds, Frontier, Candidates = {},
           UNCHANGED config, emitted' = emitted,
           NEW width \in Nat, offset' = offset + width,
           Candidates' \subseteq offset..(offset + width - 1),
           \A m \in matches : m >= offset /\ m < offset + width => m \in Candidates'
    PROVE  Frontier'
<1>1. matches' = matches /\ matches \subseteq Nat /\ offset \in Nat
  BY SameConfig, MatchesAreOffsets DEF TypeOK
<1>2. emitted = {m \in matches : m < offset}
  BY DEF Frontier
<1>3. emitted' \cup (matches' \cap Candidates') = {m \in matches' : m < offset'}
  <2>1. ASSUME NEW m \in matches
        PROVE  m < offset + width <=> m < offset \/ m \in Candidates'
    <3>1. m \in Nat /\ (m \in Candidates' => m < offset + width)
      BY <1>1
    <3>. QED  BY <1>1, <3>1
  <2>. QED  BY <1>1, <1>2, <2>1
<1>4. \A e \in emitted', c \in Candidates' : e < c
  BY <1>1, <1>2
<1>. QED  BY <1>3, <1>4 DEF Frontier

(* The masks a block of the haystack yields.                               *)
LEMMA BlockMask ==
    ASSUME NEW block, NEW lo, NEW width \in Nat
    PROVE  check(block, lo, width) \subseteq 0..(width - 1)
  BY DEF check, PrefixHits

(* The dual-pump loop preserves the invariant.                             *)
LEMMA DualPumpKeepsIInv ==
    ASSUME IInv, DualPump, UNCHANGED <<emitted, yields, done>>
    PROVE  IInv'
<1>. USE DEF IInv
<1>. DEFINE half   == half_stride(tier)
            block  == chunk(2 * half)
            mask_a == check(block, 0, half)
            mask_b == check(block, half, half)
<1>1. /\ pc = "pump" /\ tier \in DualTiers /\ tier \in HardwareTier
      /\ HasRoom(2 * half) /\ offset' = offset + 2 * half
      /\ UNCHANGED config
  BY DEF DualPump, TypeOK
<1>2. /\ half \in Nat \ {0} /\ 2 * half \in Nat
      /\ half_block_stride(tier) = half /\ MaskWidth(tier) = half
  BY <1>1, Strides
<1>3. /\ tier' = tier /\ matches' = matches /\ MaxLenBounds'
      /\ haystack' = haystack
      /\ half_stride(tier') = half /\ half_block_stride(tier') = half
      /\ MaskWidth(tier') = half
  BY <1>1, <1>2, SameConfig
<1>4. Candidates = {} /\ current_mask = {} /\ next_mask_cache = {} /\ ~done
  <2>1. Candidates = {}
    BY <1>1 DEF Drained
  <2>2. done => offset = Len(haystack)
    BY DEF Drained
  <2>3. offset + 2 * half <= Len(haystack)
    BY <1>1, <1>2, MatchesAreOffsets DEF HasRoom, TypeOK
  <2>. QED  BY <1>2, <2>1, <2>2, <2>3, NoCandidates DEF TypeOK
<1>5. offset' \in 0..Len(haystack') /\ offset \in Nat
  BY <1>1, <1>2, <1>3, MatchesAreOffsets DEF HasRoom, TypeOK
<1>6. mask_a \subseteq 0..(half - 1) /\ mask_b \subseteq 0..(half - 1)
  BY <1>2, BlockMask
<1>7. ASSUME NEW m \in matches, m >= offset, m < offset + 2 * half
      PROVE  \/ m - offset \in mask_a
             \/ m - offset - half \in mask_b
  <2>1. m \in Nat
    BY MatchesAreOffsets
  <2>2. CASE m < offset + half
    <3>1. m - offset - 0 \in check(block, 0, half)
      BY <1>1, <1>2, <1>5, <1>7, <2>1, <2>2, CheckCoversMatches
    <3>. QED  BY <1>5, <2>1, <3>1
  <2>3. CASE m >= offset + half
    <3>1. m - offset - half \in check(block, half, half)
      BY <1>1, <1>2, <1>5, <1>7, <2>1, <2>3, CheckCoversMatches
    <3>. QED  BY <3>1
  <2>. QED  BY <1>2, <1>5, <2>1, <2>2, <2>3
<1>8. SingleIsDual'
  BY <1>1, <1>3 DEF DualPump, SingleIsDual
<1>a. CASE /\ mask_a # {}
           /\ current_mask' = mask_a /\ mask_base_offset' = offset
           /\ next_mask_cache' = mask_b /\ pc' = "loop"
  <2>1. TypeOK'
    BY <1>1, <1>3, <1>5, <1>6, <1>a, SameConfig DEF TypeOK
  <2>2. MaskGeometry'
    BY <1>1, <1>2, <1>3, <1>5, <1>a DEF MaskGeometry
  <2>3. Drained'
    BY <1>4, <1>a DEF Drained
  <2>4. Candidates' = {offset + bit : bit \in mask_a} \cup {offset + half + bit : bit \in mask_b}
    BY <1>3, <1>a DEF Candidates
  <2>5. Candidates' \subseteq offset..(offset + 2 * half - 1)
    <3>1. ASSUME NEW bit \in mask_a
          PROVE  offset + bit \in offset..(offset + 2 * half - 1)
      <4>1. bit \in 0..(half - 1)
        BY <1>6
      <4>. HIDE DEF half, mask_a, mask_b
      <4>. QED  BY <1>2, <1>5, <4>1
    <3>2. ASSUME NEW bit \in mask_b
          PROVE  offset + half + bit \in offset..(offset + 2 * half - 1)
      <4>1. bit \in 0..(half - 1)
        BY <1>6
      <4>. HIDE DEF half, mask_a, mask_b
      <4>. QED  BY <1>2, <1>5, <4>1
    <3>. HIDE DEF half, mask_a, mask_b
    <3>. QED  BY <2>4, <3>1, <3>2
  <2>6. \A m \in matches : m >= offset /\ m < offset + 2 * half => m \in Candidates'
    <3>. SUFFICES ASSUME NEW m \in matches, m >= offset, m < offset + 2 * half
                  PROVE  m \in Candidates'
      OBVIOUS
    <3>1. m \in Nat /\ m = offset + (m - offset) /\ m = offset + half + (m - offset - half)
      BY <1>2, <1>5, MatchesAreOffsets
    <3>. QED  BY <1>7, <2>4, <3>1
  <2>7. Frontier'
    BY <1>1, <1>2, <1>4, <2>5, <2>6, FetchKeepsFrontier
  <2>. QED  BY <1>3, <1>8, <2>1, <2>2, <2>3, <2>7
<1>b. CASE /\ mask_a = {} /\ mask_b # {}
           /\ current_mask' = mask_b /\ mask_base_offset' = offset + half
           /\ next_mask_cache' = next_mask_cache /\ pc' = "loop"
  <2>. mask_base_offset' \in Nat
    BY <1>2, <1>5, <1>b
  <2>1. TypeOK'
    BY <1>1, <1>3, <1>4, <1>5, <1>6, <1>b, SameConfig DEF TypeOK
  <2>2. MaskGeometry'
    BY <1>1, <1>2, <1>3, <1>4, <1>5, <1>b DEF MaskGeometry
  <2>3. Drained'
    BY <1>4, <1>b DEF Drained
  <2>4. Candidates' = {offset + half + bit : bit \in mask_b}
    BY <1>3, <1>4, <1>b DEF Candidates
  <2>5. Candidates' \subseteq offset..(offset + 2 * half - 1)
    <3>1. ASSUME NEW bit \in mask_a
          PROVE  offset + bit \in offset..(offset + 2 * half - 1)
      <4>1. bit \in 0..(half - 1)
        BY <1>6
      <4>. HIDE DEF half, mask_a, mask_b
      <4>. QED  BY <1>2, <1>5, <4>1
    <3>2. ASSUME NEW bit \in mask_b
          PROVE  offset + half + bit \in offset..(offset + 2 * half - 1)
      <4>1. bit \in 0..(half - 1)
        BY <1>6
      <4>. HIDE DEF half, mask_a, mask_b
      <4>. QED  BY <1>2, <1>5, <4>1
    <3>. HIDE DEF half, mask_a, mask_b
    <3>. QED  BY <2>4, <3>1, <3>2
  <2>6. \A m \in matches : m >= offset /\ m < offset + 2 * half => m \in Candidates'
    <3>. SUFFICES ASSUME NEW m \in matches, m >= offset, m < offset + 2 * half
                  PROVE  m \in Candidates'
      OBVIOUS
    <3>1. m \in Nat /\ m = offset + half + (m - offset - half)
      BY <1>2, <1>5, MatchesAreOffsets
    <3>. QED  BY <1>7, <1>b, <2>4, <3>1
  <2>7. Frontier'
    BY <1>1, <1>2, <1>4, <2>5, <2>6, FetchKeepsFrontier
  <2>. QED  BY <1>3, <1>8, <2>1, <2>2, <2>3, <2>7
<1>c. CASE /\ mask_a = {} /\ mask_b = {}
           /\ UNCHANGED <<current_mask, mask_base_offset, next_mask_cache, pc>>
  <2>1. TypeOK'
    BY <1>1, <1>3, <1>4, <1>5, <1>c, SameConfig DEF TypeOK
  <2>2. Candidates' = {}
    BY <1>4, <1>c, NoCandidates DEF Candidates
  <2>3. MaskGeometry' /\ Drained'
    BY <1>4, <1>c, <2>2 DEF MaskGeometry, Drained
  <2>4. Frontier'
    BY <1>1, <1>2, <1>4, <1>7, <1>c, <2>2, FetchKeepsFrontier
  <2>. QED  BY <1>3, <1>8, <2>1, <2>3, <2>4
<1>. QED  BY <1>8, <1>a, <1>b, <1>c DEF DualPump

(* So does a block with a single mask, of any tier.                        *)
LEMMA MaskBlockKeepsIInv ==
    ASSUME IInv, NEW width, width = MaskWidth(tier), NEW miss \in {"pump", "tail"},
           MaskBlock(width, miss), pc \in {"pump", "single"},
           UNCHANGED <<emitted, yields, done>>
    PROVE  IInv'
<1>. USE DEF IInv
<1>. DEFINE mask == check(chunk(width), 0, width)
<1>1. /\ HasRoom(width) /\ offset' = offset + width
      /\ UNCHANGED config /\ next_mask_cache' = next_mask_cache
  BY DEF MaskBlock
<1>2. width \in Nat \ {0} /\ offset \in Nat
  BY Strides DEF TypeOK
<1>3. /\ tier' = tier /\ matches' = matches /\ MaxLenBounds'
      /\ haystack' = haystack /\ MaskWidth(tier') = width
  BY <1>1, SameConfig
<1>4. Candidates = {} /\ current_mask = {} /\ next_mask_cache = {} /\ ~done
  <2>1. Candidates = {}
    BY DEF Drained
  <2>2. done => offset = Len(haystack)
    BY DEF Drained
  <2>3. offset + width <= Len(haystack)
    BY <1>1, <1>2, MatchesAreOffsets DEF HasRoom, TypeOK
  <2>. QED  BY <1>2, <2>1, <2>2, <2>3, MatchesAreOffsets, NoCandidates
<1>5. offset' \in 0..Len(haystack')
  BY <1>1, <1>2, <1>3, MatchesAreOffsets DEF HasRoom, TypeOK
<1>6. mask \subseteq 0..(width - 1)
  BY <1>2, BlockMask
<1>7. ASSUME NEW m \in matches, m >= offset, m < offset + width
      PROVE  m \in Nat /\ m - offset \in mask /\ m = offset + (m - offset)
  <2>1. m \in Nat
    BY MatchesAreOffsets
  <2>2. m - offset - 0 \in check(chunk(width), 0, width)
    BY <1>1, <1>2, <1>7, <2>1, CheckCoversMatches
  <2>. QED  BY <1>2, <2>1, <2>2
<1>8. SingleIsDual'
  BY <1>3 DEF MaskBlock, SingleIsDual
<1>a. CASE mask # {} /\ current_mask' = mask /\ mask_base_offset' = offset /\ pc' = "loop"
  <2>1. TypeOK'
    BY <1>1, <1>2, <1>3, <1>4, <1>5, <1>6, <1>a, SameConfig DEF TypeOK
  <2>2. MaskGeometry'
    BY <1>1, <1>2, <1>3, <1>4, <1>a DEF MaskGeometry
  <2>3. Drained'
    BY <1>1, <1>4, <1>a DEF Drained
  <2>4. Candidates' = {offset + bit : bit \in mask}
    BY <1>1, <1>4, <1>a DEF Candidates
  <2>5. Candidates' \subseteq offset..(offset + width - 1)
    BY <1>2, <1>6, <2>4
  <2>6. \A m \in matches : m >= offset /\ m < offset + width => m \in Candidates'
    BY <1>7, <2>4
  <2>7. Frontier'
    BY <1>1, <1>2, <1>4, <2>5, <2>6, FetchKeepsFrontier
  <2>. QED  BY <1>3, <1>8, <2>1, <2>2, <2>3, <2>7
<1>b. CASE mask = {} /\ pc' = miss /\ UNCHANGED <<current_mask, mask_base_offset>>
  <2>1. TypeOK'
    BY <1>1, <1>3, <1>4, <1>5, <1>b, SameConfig DEF TypeOK
  <2>2. Candidates' = {}
    BY <1>1, <1>4, <1>b DEF Candidates
  <2>3. MaskGeometry' /\ Drained'
    BY <1>1, <1>4, <1>b, <2>2 DEF MaskGeometry, Drained
  <2>4. Frontier'
    BY <1>1, <1>2, <1>4, <1>7, <1>b, <2>2, FetchKeepsFrontier
  <2>. QED  BY <1>3, <1>8, <2>1, <2>3, <2>4
<1>. QED  BY <1>8, <1>a, <1>b DEF MaskBlock

(* A step of the fetch loop that only moves the program counter.           *)
LEMMA FetchKeepsIInv ==
    ASSUME IInv, FetchStep
    PROVE  IInv'
<1>1. UNCHANGED <<emitted, yields, done>>
  BY DEF FetchStep
<1>2. tier \in HardwareTier
  BY DEF IInv, TypeOK
<1>3. CASE DualPump
  BY <1>1, <1>3, DualPumpKeepsIInv
<1>4. CASE SinglePump
  <2>1. half_stride(tier) = MaskWidth(tier)
    BY <1>2, <1>4, Strides DEF IInv, SingleIsDual, SinglePump
  <2>. QED  BY <1>1, <1>4, <2>1, MaskBlockKeepsIInv DEF SinglePump
<1>5. CASE ScalarPump
  <2>1. ScalarBlock = MaskWidth(tier)
    BY <1>5 DEF ScalarPump, MaskWidth
  <2>. QED  BY <1>1, <1>5, <2>1, MaskBlockKeepsIInv DEF ScalarPump
<1>6. CASE DualPumpDone \/ SinglePumpSkipped \/ ScalarPumpDone
  <2>1. /\ UNCHANGED <<config, scan, emitted, yields, done>>
        /\ pc \in {"pump", "single"} /\ pc' \in {"single", "tail"}
        /\ pc' = "single" => tier \in DualTiers
    BY <1>1, <1>6 DEF DualPumpDone, SinglePumpSkipped, ScalarPumpDone
  <2>2. TypeOK' /\ MaxLenBounds' /\ SingleIsDual' /\ MaskGeometry'
    BY <2>1 DEF IInv, config, scan, TypeOK, MaxLenBounds, SingleIsDual, MaskGeometry
  <2>3. matches' = matches /\ Candidates' = Candidates
    BY <2>1 DEF config, scan, matches, Candidates
  <2>4. Drained' /\ Frontier'
    BY <2>1, <2>3 DEF IInv, config, scan, Drained, Frontier
  <2>. QED  BY <2>2, <2>4 DEF IInv
<1>. QED  BY <1>3, <1>4, <1>5, <1>6 DEF FetchStep, fetch_next_chunk

(* Consuming a bit removes the least candidate, and returns it exactly     *)
(* when it is a match.                                                     *)
LEMMA ConsumeBitTakesLeast ==
    ASSUME IInv, ConsumeBit
    PROVE  \E idx \in Candidates :
              /\ Candidates' \subseteq Candidates
              /\ Candidates \subseteq Candidates' \cup {idx}
              /\ \A c \in Candidates' : idx < c
              /\ \/ /\ idx \in matches
                    /\ emitted' = emitted \cup {idx}
                    /\ yields' = yields + 1
                    /\ pc' = "idle"
                 \/ /\ idx \notin matches
                    /\ UNCHANGED <<emitted, yields, pc>>
<1>. USE DEF IInv
<1>1. PICK bit \in current_mask :
         /\ LowestBit(current_mask, bit)
         /\ current_mask' = current_mask \ {bit}
         /\ IF MatchAt(haystack, patterns, case_insensitive, mask_base_offset + bit)
            THEN Yield(mask_base_offset + bit)
            ELSE UNCHANGED <<emitted, yields, pc>>
  BY DEF ConsumeBit, ClearLowest
<1>. DEFINE idx == mask_base_offset + bit
            half == half_block_stride(tier)
<1>2. /\ mask_base_offset' = mask_base_offset /\ next_mask_cache' = next_mask_cache
      /\ half_block_stride(tier') = half
  BY DEF ConsumeBit, config
<1>3. /\ mask_base_offset \in Nat /\ half \in Nat /\ bit \in Nat
      /\ current_mask \subseteq Nat /\ next_mask_cache \subseteq Nat
      /\ next_mask_cache # {} => bit < half
  BY <1>1, Strides DEF TypeOK, MaskGeometry
<1>4. idx \in Candidates /\ idx \in Nat
  BY <1>3 DEF Candidates
<1>5. Candidates' = {mask_base_offset + c : c \in current_mask \ {bit}}
                       \cup {mask_base_offset + half + c : c \in next_mask_cache}
  BY <1>1, <1>2 DEF Candidates
<1>6. Candidates' \subseteq Candidates /\ Candidates \subseteq Candidates' \cup {idx}
  BY <1>5 DEF Candidates
<1>7. \A c \in Candidates' : idx < c
  <2>1. ASSUME NEW c \in current_mask \ {bit}
        PROVE  idx < mask_base_offset + c
    BY <1>1, <1>3 DEF LowestBit
  <2>2. ASSUME NEW c \in next_mask_cache
        PROVE  idx < mask_base_offset + half + c
    BY <1>3
  <2>. QED  BY <1>5, <2>1, <2>2
<1>8. MatchAt(haystack, patterns, case_insensitive, idx) <=> idx \in matches
  BY <1>4, MatchesAreOffsets
<1>. QED  BY <1>1, <1>4, <1>6, <1>7, <1>8 DEF Yield

LEMMA ConsumeBitKeepsIInv ==
    ASSUME IInv, ConsumeBit
    PROVE  IInv'
<1>. USE DEF IInv
<1>1. PICK idx \in Candidates :
              /\ Candidates' \subseteq Candidates
              /\ Candidates \subseteq Candidates' \cup {idx}
              /\ \A c \in Candidates' : idx < c
              /\ \/ /\ idx \in matches
                    /\ emitted' = emitted \cup {idx}
                    /\ yields' = yields + 1
                    /\ pc' = "idle"
                 \/ /\ idx \notin matches
                    /\ UNCHANGED <<emitted, yields, pc>>
  BY ConsumeBitTakesLeast
<1>2. /\ pc = "loop" /\ current_mask' \subseteq current_mask
      /\ UNCHANGED <<config, offset, next_mask_cache, mask_base_offset, done>>
  BY DEF ConsumeBit, ClearLowest
<1>3. matches' = matches /\ matches \subseteq Nat /\ idx \in Nat /\ idx < offset
      /\ offset \in Nat
  BY <1>2, SameConfig, MatchesAreOffsets, CandidatesBehindOffset DEF TypeOK
<1>4. emitted' \subseteq Nat /\ yields' \in Nat /\ pc' \in {"idle", "loop"}
  <2>1. emitted \subseteq Nat /\ yields \in Nat
    BY DEF TypeOK
  <2>2. emitted' \subseteq Nat
    BY <1>1, <1>3, <2>1
  <2>3. yields' \in Nat
    BY <1>1, <2>1
  <2>4. pc' \in {"idle", "loop"}
    BY <1>1, <1>2
  <2>. QED  BY <2>2, <2>3, <2>4
<1>5. TypeOK' /\ MaxLenBounds' /\ SingleIsDual'
  <2>1. current_mask' \subseteq 0..(MaskWidth(tier') - 1)
    BY <1>2, SameConfig DEF TypeOK
  <2>. QED  BY <1>2, <1>4, <2>1, SameConfig DEF TypeOK, SingleIsDual
<1>6. MaskGeometry'
  BY <1>2, SameConfig DEF MaskGeometry
<1>7. Drained'
  <2>1. ~done
    BY <1>1 DEF Drained
  <2>. QED  BY <1>2, <1>4, <2>1 DEF Drained
<1>8. emitted' \cup (matches' \cap Candidates') = {m \in matches' : m < offset'}
  <2>1. idx \in matches => idx \in emitted'
    BY <1>1
  <2>2. emitted' \subseteq emitted \cup (matches \cap {idx}) /\ emitted \subseteq emitted'
    BY <1>1
  <2>3. emitted' \cup (matches \cap Candidates') = emitted \cup (matches \cap Candidates)
    BY <1>1, <2>1, <2>2
  <2>. QED  BY <1>2, <1>3, <2>3 DEF Frontier
<1>9. \A e \in emitted', c \in Candidates' : e < c
  BY <1>1 DEF Frontier
<1>. QED  BY <1>5, <1>6, <1>7, <1>8, <1>9 DEF Frontier

(* Going on with the second half leaves the candidates what they were.     *)
LEMMA SwitchHalfKeepsCandidates ==
    ASSUME IInv, SwitchHalf
    PROVE  Candidates' = Candidates
<1>1. tier' = tier /\ current_mask = {} /\ mask_base_offset \in Nat
  BY DEF SwitchHalf, config, IInv, TypeOK
<1>2. Candidates = {mask_base_offset + half_block_stride(tier) + c : c \in next_mask_cache}
  BY <1>1 DEF Candidates
<1>3. Candidates' = {(mask_base_offset + half_block_stride(tier)) + c : c \in next_mask_cache}
  BY <1>1 DEF Candidates, SwitchHalf
<1>. QED  BY <1>2, <1>3

LEMMA SwitchHalfKeepsIInv ==
    ASSUME IInv, SwitchHalf
    PROVE  IInv'
<1>. USE DEF IInv
<1>1. /\ pc = "loop" /\ current_mask' = next_mask_cache /\ next_mask_cache' = {}
      /\ next_mask_cache # {}
      /\ mask_base_offset' = mask_base_offset + half_block_stride(tier)
      /\ UNCHANGED <<config, offset, pc, emitted, yields, done>>
  BY DEF SwitchHalf
<1>2. /\ half_stride(tier) \in Nat /\ half_block_stride(tier) = half_stride(tier)
      /\ MaskWidth(tier) = half_stride(tier)
      /\ tier' = tier /\ matches' = matches
  BY <1>1, Strides, SameConfig DEF TypeOK, MaskGeometry
<1>3. TypeOK' /\ MaxLenBounds' /\ SingleIsDual'
  <2>1. mask_base_offset' \in Nat
    BY <1>1, <1>2 DEF TypeOK
  <2>. QED  BY <1>1, <1>2, <2>1, SameConfig DEF TypeOK, SingleIsDual
<1>4. MaskGeometry'
  BY <1>1, <1>2 DEF MaskGeometry, TypeOK
<1>5. Drained' /\ Frontier'
  BY <1>1, <1>2, SwitchHalfKeepsCandidates, SameConfig DEF Drained, Frontier
<1>. QED  BY <1>3, <1>4, <1>5

(* Steps of next() and of its caller that only move the program counter.   *)
LEMMA ControlKeepsIInv ==
    ASSUME IInv, Poll \/ FetchCall \/ UNCHANGED vars
    PROVE  IInv'
<1>. USE DEF IInv
<1>1. /\ UNCHANGED <<config, scan, emitted, yields, done>>
      /\ pc' # pc => pc' = "loop" \/ (pc' = "pump" /\ Candidates = {})
  BY NoCandidates DEF Poll, FetchCall, vars
<1>2. TypeOK' /\ MaxLenBounds' /\ SingleIsDual' /\ MaskGeometry'
  BY <1>1 DEF config, scan, TypeOK, MaxLenBounds, SingleIsDual, MaskGeometry
<1>3. matches' = matches /\ Candidates' = Candidates
  BY <1>1 DEF config, scan, matches, Candidates
<1>4. Drained' /\ Frontier'
  BY <1>1, <1>3 DEF config, scan, Drained, Frontier
<1>. QED  BY <1>2, <1>4

LEMMA TailStepKeepsIInv ==
    ASSUME IInv, TailStep
    PROVE  IInv'
<1>. USE DEF IInv
<1>1. /\ pc = "tail" /\ offset < Len(haystack) /\ offset' = offset + 1
      /\ UNCHANGED <<config, current_mask, next_mask_cache, mask_base_offset, done>>
  BY DEF TailStep, TailLeft
<1>2. matches' = matches /\ matches \subseteq Nat /\ offset \in Nat /\ haystack' = haystack
      /\ tier' = tier /\ Len(haystack) \in Nat
  BY <1>1, SameConfig, MatchesAreOffsets DEF TypeOK
<1>3. Candidates = {} /\ current_mask = {} /\ next_mask_cache = {} /\ ~done
  BY <1>1, <1>2, NoCandidates DEF Drained
<1>4. Candidates' = {}
  BY <1>1, <1>3 DEF Candidates
<1>5. \/ /\ offset \in matches /\ emitted' = emitted \cup {offset}
         /\ yields' = yields + 1 /\ pc' = "idle"
      \/ offset \notin matches /\ UNCHANGED <<emitted, yields, pc>>
  BY <1>2, MatchesAreOffsets DEF TailStep, Yield
<1>6. TypeOK' /\ MaxLenBounds' /\ SingleIsDual'
  <2>1. offset' \in 0..Len(haystack')
    BY <1>1, <1>2
  <2>2. emitted' \subseteq Nat /\ yields' \in Nat /\ pc' \in {"idle", "tail"}
    <3>1. emitted \subseteq Nat /\ yields \in Nat
      BY DEF TypeOK
    <3>2. emitted' \subseteq Nat
      BY <1>2, <1>5, <3>1
    <3>3. yields' \in Nat
      BY <1>5, <3>1
    <3>4. pc' \in {"idle", "tail"}
      BY <1>1, <1>5
    <3>. QED  BY <3>2, <3>3, <3>4
  <2>. QED  BY <1>1, <1>3, <2>1, <2>2, SameConfig DEF TypeOK, SingleIsDual
<1>7. MaskGeometry' /\ Drained'
  BY <1>1, <1>3, <1>4 DEF MaskGeometry, Drained
<1>8. emitted' = {m \in matches : m < offset'}
  <2>1. emitted = {m \in matches : m < offset}
    BY <1>3 DEF Frontier
  <2>2. ASSUME NEW m \in matches
        PROVE  m < offset' <=> m < offset \/ m = offset
    BY <1>1, <1>2
  <2>. QED  BY <1>5, <2>1, <2>2
<1>. QED  BY <1>2, <1>4, <1>6, <1>7, <1>8 DEF Frontier

LEMMA FinishKeepsIInv ==
    ASSUME IInv, Finish
    PROVE  IInv'
<1>. USE DEF IInv
<1>1. /\ pc = "tail" /\ ~(offset < Len(haystack)) /\ done' = TRUE /\ pc' = "idle"
      /\ UNCHANGED <<config, scan, emitted, yields>>
  BY DEF Finish, TailLeft
<1>2. offset = Len(haystack)
  BY <1>1, MatchesAreOffsets DEF TypeOK
<1>3. TypeOK' /\ MaxLenBounds' /\ SingleIsDual' /\ MaskGeometry'
  BY <1>1 DEF config, scan, TypeOK, MaxLenBounds, SingleIsDual, MaskGeometry
<1>4. matches' = matches /\ Candidates' = Candidates
  BY <1>1 DEF config, scan, matches, Candidates
<1>5. Drained' /\ Frontier'
  BY <1>1, <1>2, <1>4 DEF config, scan, Drained, Frontier
<1>. QED  BY <1>3, <1>5

(* Nothing has been scanned: no candidates, no match before offset 0.      *)
LEMMA InitIInv == ASSUME Init PROVE IInv
<1>1. TypeOK
  <2>1. haystack \in Seq(Byte) /\ patterns \in Seq(Seq(Byte) \ {<<>>})
    BY InputAssumption DEF Init, IsMaxLen, ScanStart
  <2>2. offset \in 0..Len(haystack)
    BY <2>1, LenProperties DEF Init, IsMaxLen, ScanStart
  <2>. QED  BY <2>1, <2>2 DEF TypeOK, Init, IsMaxLen, ScanStart
<1>2. Candidates = {}
  BY NoCandidates DEF Init, IsMaxLen, ScanStart
<1>3. MaxLenBounds /\ SingleIsDual /\ MaskGeometry /\ Drained
  BY <1>2 DEF Init, IsMaxLen, ScanStart, MaxLenBounds, SingleIsDual, MaskGeometry, Drained
<1>4. Frontier
  BY <1>1, <1>2, MatchesAreOffsets DEF Init, IsMaxLen, ScanStart, Frontier
<1>. QED  BY <1>1, <1>3, <1>4 DEF IInv

-----------------------------------------------------------------------------
(* Every step of next() and of its caller preserves the invariant.         *)
LEMMA NextKeepsIInv ==
    ASSUME IInv, [Next]_vars
    PROVE  IInv'
<1>1. CASE Poll \/ FetchCall \/ UNCHANGED vars
  BY <1>1, ControlKeepsIInv
<1>2. CASE ConsumeBit
  BY <1>2, ConsumeBitKeepsIInv
<1>3. CASE SwitchHalf
  BY <1>3, SwitchHalfKeepsIInv
<1>4. CASE FetchStep
  BY <1>4, FetchKeepsIInv
<1>5. CASE TailStep
  BY <1>5, TailStepKeepsIInv
<1>6. CASE Finish
  BY <1>6, FinishKeepsIInv
<1>. QED  BY <1>1, <1>2, <1>3, <1>4, <1>5, <1>6 DEF Next, Step

(* The inductive invariant holds throughout every scan.                    *)
THEOREM Invariance == Spec => []IInv
<1>1. Init => IInv
  BY InitIInv
<1>2. IInv /\ [Next]_vars => IInv'
  BY NextKeepsIInv
<1>. QED  BY <1>1, <1>2, PTL DEF Spec

(* The fields keep their types; the scan stays inside the haystack.        *)
THEOREM TypeCorrect == Spec => []TypeOK
<1>1. IInv => TypeOK
  BY DEF IInv
<1>. QED  BY <1>1, Invariance, PTL

(* Masks, base offset and scan offset describe the same bytes.             *)
THEOREM MasksMatchScan == Spec => []MaskGeometry
<1>1. IInv => MaskGeometry
  BY DEF IInv
<1>. QED  BY <1>1, Invariance, PTL

(* No block is fetched over candidates not yet looked at.                  *)
THEOREM NothingOverwritten == Spec => []Drained
<1>1. IInv => Drained
  BY DEF IInv
<1>. QED  BY <1>1, Invariance, PTL

(* No match is lost and none invented, at any point of any scan.           *)
THEOREM FrontierHolds == Spec => []Frontier
<1>1. IInv => Frontier
  BY DEF IInv
<1>. QED  BY <1>1, Invariance, PTL

(* next() never underflows a length nor reaches unreachable!().            *)
THEOREM NeverPanics == Spec => []NoPanic
<1>1. ASSUME IInv PROVE NoPanic
  <2>1. \A c \in Candidates : c < Len(haystack)
    BY <1>1, CandidatesBehindOffset, MatchesAreOffsets DEF IInv, TypeOK
  <2>2. next_mask_cache # {} => tier # "Scalar"
    BY <1>1 DEF IInv, MaskGeometry, DualTiers
  <2>. QED  BY <2>1, <2>2 DEF NoPanic
<1>. QED  BY <1>1, Invariance, PTL

-----------------------------------------------------------------------------
(* A step of next() goes on, or ends it with the least match not returned  *)
(* yet, or ends it with None when there is none left.                      *)
LEMMA StepAnswers ==
    ASSUME IInv, Step
    PROVE  \/ pc' # "idle" /\ UNCHANGED <<emitted, yields, done>>
           \/ /\ pc' = "idle" /\ ~done /\ yields' = yields + 1 /\ UNCHANGED done
              /\ \E i \in matches :
                    /\ \A e \in emitted : e < i
                    /\ \A m \in matches : m < i => m \in emitted
                    /\ emitted' = emitted \cup {i}
           \/ pc' = "idle" /\ matches = emitted /\ done' = TRUE /\ UNCHANGED <<emitted, yields>>
<1>1. /\ TypeOK /\ MaxLenBounds /\ matches \subseteq Nat
      /\ emitted \cup (matches \cap Candidates) = {m \in matches : m < offset}
      /\ \A e \in emitted, c \in Candidates : e < c
  BY MatchesAreOffsets DEF IInv, Frontier
<1>2. CASE SwitchHalf \/ FetchCall \/ FetchStep
  <2>1. pc' # "idle" /\ UNCHANGED <<emitted, yields, done>>
    BY <1>2 DEF SwitchHalf, FetchCall, FetchStep, fetch_next_chunk, DualPump,
                DualPumpDone, SinglePump, SinglePumpSkipped, ScalarPump, ScalarPumpDone,
                MaskBlock
  <2>. QED  BY <2>1
<1>3. CASE ConsumeBit
  <2>1. PICK idx \in Candidates :
              /\ Candidates \subseteq Candidates' \cup {idx}
              /\ \A c \in Candidates' : idx < c
              /\ \/ /\ idx \in matches
                    /\ emitted' = emitted \cup {idx} /\ yields' = yields + 1
                    /\ pc' = "idle"
                 \/ UNCHANGED <<emitted, yields, pc>>
    BY <1>3, ConsumeBitTakesLeast
  <2>2. done' = done /\ pc = "loop"
    BY <1>3 DEF ConsumeBit
  <2>3. CASE /\ idx \in matches
            /\ emitted' = emitted \cup {idx} /\ yields' = yields + 1 /\ pc' = "idle"
    <3>1. ~done
      BY DEF IInv, Drained
    <3>2. idx \in Nat /\ idx < offset /\ offset \in Nat
      BY CandidatesBehindOffset DEF IInv, TypeOK
    <3>3. ASSUME NEW j \in matches, j < idx PROVE j \in emitted
      <4>1. j \in Nat /\ j < offset
        BY <1>1, <3>2, <3>3
      <4>2. j \notin Candidates
        BY <2>1, <3>2, <3>3, <4>1
      <4>. QED  BY <1>1, <4>1, <4>2
    <3>. QED  BY <1>1, <2>2, <2>3, <3>1, <3>3
  <2>. QED  BY <2>1, <2>2, <2>3
<1>4. CASE TailStep
  <2>1. done' = done /\ pc = "tail" /\ offset < Len(haystack)
    BY <1>4 DEF TailStep, TailLeft
  <2>2. offset \in Nat /\ Len(haystack) \in Nat
    BY <1>1, MatchesAreOffsets DEF TypeOK
  <2>3. Candidates = {} /\ ~done
    BY <2>1, <2>2 DEF IInv, Drained
  <2>4. \/ /\ offset \in matches /\ pc' = "idle"
           /\ emitted' = emitted \cup {offset} /\ yields' = yields + 1
        \/ UNCHANGED <<emitted, yields, pc>>
    BY <1>1, <1>4, <2>2, MatchesAreOffsets DEF TailStep, Yield
  <2>5. emitted = {m \in matches : m < offset}
    BY <1>1, <2>3
  <2>. QED  BY <2>1, <2>3, <2>4, <2>5
<1>5. CASE Finish
  <2>1. /\ UNCHANGED <<emitted, yields>> /\ done' = TRUE /\ pc' = "idle"
        /\ pc = "tail" /\ ~(offset < Len(haystack))
    BY <1>5 DEF Finish, TailLeft
  <2>2. Candidates = {}
    BY <2>1 DEF IInv, Drained
  <2>3. \A m \in matches : m < offset
    BY <1>1, <2>1, MatchesAreOffsets DEF TypeOK
  <2>. QED  BY <1>1, <2>1, <2>2, <2>3
<1>. QED  BY <1>2, <1>3, <1>4, <1>5 DEF Step

(* So it is a step of the promised stream, or invisible in it.             *)
LEMMA StepImplements ==
    ASSUME IInv, [Next]_vars
    PROVE  [Stream!Next]_(Stream!vars)
<1>. USE DEF Stream!vars
<1>1. UNCHANGED config
  BY DEF Next, Step, Poll, ConsumeBit, SwitchHalf, FetchCall, FetchStep, TailStep, Finish,
         fetch_next_chunk, DualPump, DualPumpDone, SinglePump, SinglePumpSkipped,
         ScalarPump, ScalarPumpDone, MaskBlock, vars
<1>2. matches' = matches
  BY <1>1, SameConfig DEF IInv
<1>3. CASE Poll \/ UNCHANGED vars
  BY <1>2, <1>3 DEF Poll, vars
<1>4. CASE Step
  <2>1. CASE pc' # "idle" /\ UNCHANGED <<emitted, yields, done>>
    BY <1>2, <2>1
  <2>2. CASE /\ ~done /\ yields' = yields + 1 /\ UNCHANGED done
            /\ \E i \in matches :
                  /\ \A e \in emitted : e < i
                  /\ \A m \in matches : m < i => m \in emitted
                  /\ emitted' = emitted \cup {i}
    BY <1>2, <2>2 DEF Stream!Next, Stream!Emit
  <2>3. CASE matches = emitted /\ done' = TRUE /\ UNCHANGED <<emitted, yields>>
    BY <1>2, <2>3 DEF Stream!Next, Stream!Exhaust
  <2>. QED  BY <1>4, <2>1, <2>2, <2>3, StepAnswers
<1>. QED  BY <1>3, <1>4 DEF Next

(* A sieve of any tier over any haystack yields exactly its matches, in    *)
(* ascending order, each once, and None for ever after the last.           *)
THEOREM SieveImplementsStream == Spec => StreamSpec
<1>1. Init => Stream!Init
  <2>. SUFFICES ASSUME Init PROVE Stream!Init
    OBVIOUS
  <2>1. matches \subseteq Nat
    BY InitIInv, MatchesAreOffsets DEF IInv
  <2>. QED  BY <2>1 DEF Init, Stream!Init
<1>2. IInv /\ [Next]_vars => [Stream!Next]_(Stream!vars)
  BY StepImplements
<1>. QED  BY <1>1, <1>2, Invariance, PTL DEF Spec, StreamSpec, Stream!Spec
=============================================================================
