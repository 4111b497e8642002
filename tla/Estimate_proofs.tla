-------------------------- MODULE Estimate_proofs ---------------------------
(***************************************************************************)
(* Proofs about Estimate: for every window, block size, haystack and list, *)
(* the estimate counts the prefix hits of the bytes it has consumed, each  *)
(* once, slices no prefix out of bounds, and is never below the number of  *)
(* matches.                                                                *)
(***************************************************************************)
EXTENDS Estimate, PatternSets_proofs

(* A scan runs over the distinct patterns of a list a sieve can be built   *)
(* from, and max_len bounds their prefixes.                                *)
SieveBuilt ==
    pc \in {"pump", "single", "loop", "tail"} \/ compiled =>
        /\ Buildable(raw)
        /\ patterns = Unique(raw)
        /\ max_len \in 1..PREFIX
        /\ IsMaxLen(patterns, max_len)

(* Masks hold candidates only until they are counted, nothing is counted   *)
(* before the scan, and only the SIMD tiers fall through to a half block.  *)
Phases ==
    /\ pc # "loop" => current_mask = {} /\ next_mask_cache = {}
    /\ pc = "call" => offset = 0 /\ count = 0
    /\ pc # "done" => result = -1
    /\ pc = "single" => tier \in DualTiers

IInv == TypeOK /\ SieveBuilt /\ Phases /\ CountIsExact /\ RecallPreserved

-----------------------------------------------------------------------------
NonEmpty == Seq(Byte) \ {<<>>}

LEMMA Strides ==
    ASSUME NEW t \in HardwareTier
    PROVE  /\ half_stride(t) \in Nat \ {0}
           /\ ScalarBlock \in Nat \ {0}
           /\ MaskWidth(t) \in Nat \ {0}
           /\ t \in DualTiers => MaskWidth(t) = half_stride(t)
           /\ t \notin DualTiers => t = "Scalar" /\ MaskWidth(t) = ScalarBlock
  BY LanesAssumption DEF HardwareTier, DualTiers, half_stride, ScalarBlock, MaskWidth

(* The longest prefix bounds all of them.                                  *)
LEMMA LongestPrefix ==
    ASSUME TypeOK, SieveBuilt, pc \in {"pump", "single", "loop", "tail"}
    PROVE  /\ max_len \in Nat \ {0}
           /\ \A k \in DOMAIN patterns :
                 eval_len(patterns[k]) \in Nat \ {0} /\ eval_len(patterns[k]) <= max_len
<1>1. max_len \in 1..PREFIX /\ IsMaxLen(patterns, max_len)
  BY DEF SieveBuilt
<1>2. \A k \in DOMAIN patterns : eval_len(patterns[k]) \in Nat \ {0}
  BY EvalLenOfPattern DEF TypeOK
<1>. QED  BY <1>1, <1>2, PrefixAssumption DEF IsMaxLen

-----------------------------------------------------------------------------
(* The prefix hits before n, the bytes a scan has consumed.                *)
HitsBefore(n) == {i \in HitPositions : i < n}

LEMMA HitsAreOffsets ==
    ASSUME TypeOK
    PROVE  /\ Len(haystack) \in Nat
           /\ HitPositions \subseteq 0..(Len(haystack) - 1)
           /\ IsFiniteSet(HitPositions)
           /\ \A n \in Nat : /\ IsFiniteSet(HitsBefore(n))
                             /\ Cardinality(HitsBefore(n)) \in Nat
<1>1. Len(haystack) \in Nat
  BY LenProperties DEF TypeOK
<1>2. HitPositions \in SUBSET (0..(Len(haystack) - 1))
  BY DEF HitPositions
<1>3. IsFiniteSet(0..(Len(haystack) - 1))
  BY <1>1, FS_Interval
<1>4. IsFiniteSet(HitPositions)
  BY <1>2, <1>3, FS_Subset
<1>5. ASSUME NEW n \in Nat
      PROVE  IsFiniteSet(HitsBefore(n)) /\ Cardinality(HitsBefore(n)) \in Nat
  <2>1. HitsBefore(n) \in SUBSET HitPositions
    BY DEF HitsBefore
  <2>. QED  BY <1>4, <2>1, FS_Subset, FS_CardinalityType
<1>. QED  BY <1>1, <1>2, <1>4, <1>5

(* A filter reports exactly the hits of the positions it is asked about.   *)
LEMMA CheckIsExact ==
    ASSUME TypeOK, SieveBuilt, pc \in {"pump", "single"},
           NEW size \in Nat, HasRoom(size),
           NEW lo \in Nat, NEW width \in Nat, lo + width <= size,
           NEW b \in 0..(width - 1)
    PROVE  b \in check(chunk(size), lo, width) <=> offset + lo + b \in HitPositions
<1>. DEFINE n == size + (max_len - 1)
            pos == lo + b
<1>1. /\ haystack \in Seq(Byte) /\ patterns \in Seq(Seq(Byte) \ {<<>>})
      /\ case_insensitive \in BOOLEAN /\ offset \in Nat /\ Len(haystack) \in Nat
      /\ max_len \in Nat \ {0}
      /\ \A k \in DOMAIN patterns :
            eval_len(patterns[k]) \in Nat \ {0} /\ eval_len(patterns[k]) <= max_len
  BY LongestPrefix, LenProperties DEF TypeOK
<1>2. /\ n \in Nat /\ offset + n <= Len(haystack) /\ pos \in Nat /\ pos <= size - 1
      /\ offset + lo + b = offset + pos
      /\ offset + pos \in 0..(Len(haystack) - 1)
  <2>1. offset + size + (max_len - 1) <= Len(haystack)
    BY DEF HasRoom
  <2>. QED  BY <1>1, <2>1
<1>3. \A k \in DOMAIN patterns : pos + eval_len(patterns[k]) <= n
  BY <1>1, <1>2
<1>. HIDE DEF n, pos
<1>4. PrefixAt(Slice(haystack, offset, n), patterns, case_insensitive, pos)
        <=> PrefixAt(haystack, patterns, case_insensitive, offset + pos)
  BY <1>1, <1>2, <1>3, SlicedHits
<1>5. chunk(size) = Slice(haystack, offset, n)
  BY DEF chunk, n
<1>6. b \in check(chunk(size), lo, width)
        <=> PrefixAt(Slice(haystack, offset, n), patterns, case_insensitive, pos)
  BY <1>5 DEF check, PrefixHits, pos
<1>. QED  BY <1>2, <1>4, <1>6 DEF HitPositions

(* So that counting the bits of its mask is counting those hits.           *)
LEMMA MaskCountsHits ==
    ASSUME TypeOK, SieveBuilt, pc \in {"pump", "single"},
           NEW size \in Nat, HasRoom(size),
           NEW lo \in Nat, NEW width \in Nat, lo + width <= size
    PROVE  LET mask == check(chunk(size), lo, width)
           IN  /\ mask \subseteq 0..(width - 1)
               /\ Cardinality(mask) \in Nat
               /\ Cardinality(HitsBefore(offset + lo + width)) =
                     Cardinality(HitsBefore(offset + lo)) + Cardinality(mask)
<1>. DEFINE mask == check(chunk(size), lo, width)
            base == offset + lo
            block == {i \in HitPositions : base <= i /\ i < base + width}
            shift == [b \in mask |-> base + b]
<1>1. base \in Nat /\ HitPositions \subseteq Nat
  BY HitsAreOffsets DEF TypeOK
<1>2. mask \in SUBSET (0..(width - 1))
  BY DEF check, PrefixHits
<1>3. \A b \in 0..(width - 1) : b \in mask <=> base + b \in HitPositions
  BY CheckIsExact
<1>. HIDE DEF mask, base
<1>4. IsFiniteSet(mask) /\ Cardinality(mask) \in Nat
  <2>1. IsFiniteSet(0..(width - 1))
    BY FS_Interval
  <2>. QED  BY <1>2, <2>1, FS_Subset, FS_CardinalityType
<1>5. shift \in Bijection(mask, block)
  <2>1. ASSUME NEW b \in mask PROVE base + b \in block
    BY <1>1, <1>2, <1>3
  <2>2. ASSUME NEW b \in mask, NEW c \in mask, base + b = base + c PROVE b = c
    BY <1>1, <1>2, <2>2
  <2>3. ASSUME NEW i \in block PROVE \E b \in mask : base + b = i
    <3>1. i - base \in 0..(width - 1) /\ base + (i - base) = i /\ i \in HitPositions
      BY <1>1
    <3>. QED  BY <1>3, <3>1
  <2>. QED  BY <2>1, <2>2, <2>3 DEF Bijection, Injection, Surjection, IsInjective
<1>6. IsFiniteSet(block) /\ Cardinality(block) = Cardinality(mask)
  <2>1. ExistsBijection(mask, block)
    BY <1>5 DEF ExistsBijection
  <2>. QED  BY <1>4, <2>1, FS_Bijection
<1>7. /\ HitsBefore(base + width) = HitsBefore(base) \cup block
      /\ HitsBefore(base) \cap block = {}
  <2>1. \A i \in HitPositions :
           i < base + width <=> i < base \/ (base <= i /\ i < base + width)
    BY <1>1
  <2>2. \A i \in HitPositions : ~(i < base /\ base <= i)
    BY <1>1
  <2>. QED  BY ONLY <2>1, <2>2 DEF HitsBefore, block
<1>8. IsFiniteSet(HitsBefore(base)) /\ Cardinality(HitsBefore(base)) \in Nat
  BY <1>1, HitsAreOffsets
<1>. HIDE DEF block
<1>9. Cardinality(HitsBefore(base) \cup block) =
        Cardinality(HitsBefore(base)) + Cardinality(block)
  <2>1. Cardinality(HitsBefore(base) \cap block) = 0
    BY <1>7, FS_EmptySet
  <2>2. Cardinality(HitsBefore(base) \cup block) =
          Cardinality(HitsBefore(base)) + Cardinality(block)
            - Cardinality(HitsBefore(base) \cap block)
    BY <1>6, <1>8, FS_Union
  <2>. QED  BY <1>4, <1>6, <1>8, <2>1, <2>2
<1>. QED  BY <1>2, <1>4, <1>6, <1>7, <1>9 DEF mask, base

(* Verifying at one byte counts the hit there, if there is one.            *)
LEMMA TailCountsHit ==
    ASSUME TypeOK, offset < Len(haystack), NEW hit \in BOOLEAN,
           hit <=> PrefixAt(haystack, patterns, case_insensitive, offset)
    PROVE  Cardinality(HitsBefore(offset + 1)) =
               Cardinality(HitsBefore(offset)) + (IF hit THEN 1 ELSE 0)
<1>1. /\ offset \in Nat /\ HitPositions \subseteq Nat /\ Len(haystack) \in Nat
      /\ IsFiniteSet(HitsBefore(offset)) /\ Cardinality(HitsBefore(offset)) \in Nat
  BY HitsAreOffsets DEF TypeOK
<1>2. hit <=> offset \in HitPositions
  <2>1. offset \in 0..(Len(haystack) - 1)
    BY <1>1
  <2>. QED  BY <2>1 DEF HitPositions
<1>3. offset \notin HitsBefore(offset)
  BY <1>1 DEF HitsBefore
<1>6. \A i \in HitPositions : i < offset + 1 <=> i < offset \/ i = offset
  BY <1>1
<1>4. CASE hit
  <2>1. HitsBefore(offset + 1) = HitsBefore(offset) \cup {offset}
    BY <1>2, <1>4, <1>6 DEF HitsBefore
  <2>. QED  BY <1>1, <1>3, <1>4, <2>1, FS_AddElement
<1>5. CASE ~hit
  <2>1. HitsBefore(offset + 1) = HitsBefore(offset)
    BY <1>2, <1>5, <1>6 DEF HitsBefore
  <2>. QED  BY <1>1, <1>5, <2>1
<1>. QED  BY <1>4, <1>5

-----------------------------------------------------------------------------
(* A list without empty patterns.                                          *)
LEMMA NonEmptyList ==
    ASSUME NEW ps \in Seq(Seq(Byte)), EmptyAt(ps) = {}
    PROVE  /\ ps \in Seq(NonEmpty)
           /\ Unique(ps) \in Seq(NonEmpty)
           /\ Range(Unique(ps)) = Range(ps)
<1>1. Len(ps) \in Nat /\ DOMAIN ps = 1..Len(ps)
  BY LenProperties
<1>2. ASSUME NEW k \in 1..Len(ps) PROVE ps[k] \in NonEmpty
  <2>1. k - 1 \in 0..(Len(ps) - 1) /\ (k - 1) + 1 = k
    BY <1>1
  <2>2. ps[k] # <<>>
    BY <2>1 DEF EmptyAt
  <2>. QED  BY <2>2, ElementOfSeq DEF NonEmpty
<1>3. ps \in Seq(NonEmpty)
  BY <1>1, <1>2, SeqDef
<1>. QED  BY <1>3, UniqueFacts

(* The positions a match can have are finitely many.                       *)
LEMMA MatchesAreOffsets ==
    ASSUME TypeOK
    PROVE  /\ IsFiniteSet(MatchPositions)
           /\ Cardinality(MatchPositions) \in Nat
           /\ Cardinality(MatchPositions) <= Len(haystack)
<1>1. Len(haystack) \in Nat
  BY LenProperties DEF TypeOK
<1>2. MatchPositions \in SUBSET (0..(Len(haystack) - 1))
  BY DEF MatchPositions
<1>3. IsFiniteSet(0..(Len(haystack) - 1)) /\ Cardinality(0..(Len(haystack) - 1)) = Len(haystack)
  <2>. DEFINE last == Len(haystack) - 1
  <2>1. 0 \in Int /\ last \in Int
    BY <1>1
  <2>2. /\ IsFiniteSet(0..last)
        /\ Cardinality(0..last) = IF 0 > last THEN 0 ELSE last - 0 + 1
    BY ONLY <2>1, FS_Interval
  <2>3. (IF 0 > last THEN 0 ELSE last - 0 + 1) = Len(haystack)
    BY <1>1
  <2>. QED  BY <2>2, <2>3
<1>4. Cardinality(MatchPositions) <= Len(haystack)
  BY <1>2, <1>3, FS_Subset
<1>. QED  BY <1>2, <1>3, <1>4, FS_Subset, FS_CardinalityType

(* Leaving the repetitions out loses no match.                             *)
LEMMA UniqueMatches ==
    ASSUME TypeOK, EmptyAt(raw) = {}
    PROVE  MatchPositions = Matches(haystack, Unique(raw), case_insensitive)
<1>1. /\ raw \in Seq(NonEmpty) /\ Unique(raw) \in Seq(NonEmpty)
      /\ Range(Unique(raw)) = Range(raw)
  BY NonEmptyList DEF TypeOK
<1>2. \A k \in DOMAIN raw : raw[k] # <<>>
  BY <1>1, ElementOfSeq, LenProperties DEF NonEmpty
<1>3. ASSUME NEW i \in 0..(Len(haystack) - 1)
      PROVE  (\E k \in DOMAIN raw : raw[k] # <<>> /\ PatternAt(haystack, raw[k], case_insensitive, i))
               <=> MatchAt(haystack, Unique(raw), case_insensitive, i)
  <2>1. MatchAt(haystack, Unique(raw), case_insensitive, i)
          <=> \E p \in Range(Unique(raw)) : PatternAt(haystack, p, case_insensitive, i)
    BY DEF MatchAt, Range
  <2>2. (\E k \in DOMAIN raw : raw[k] # <<>> /\ PatternAt(haystack, raw[k], case_insensitive, i))
          <=> \E p \in Range(raw) : PatternAt(haystack, p, case_insensitive, i)
    BY <1>2 DEF Range
  <2>. QED  BY <1>1, <2>1, <2>2
<1>. QED  BY <1>3 DEF MatchPositions, Matches

-----------------------------------------------------------------------------
Scanning == {"pump", "single", "loop", "tail"}

LEMMA SameSearch ==
    ASSUME UNCHANGED <<haystack, case_insensitive>>
    PROVE  /\ raw' = raw => MatchPositions' = MatchPositions
           /\ patterns' = patterns => HitPositions' = HitPositions
  BY DEF MatchPositions, HitPositions

LEMMA NothingHit == Cardinality(HitsBefore(0)) = 0
<1>1. \A i \in HitPositions : ~(i < 0)
  BY DEF HitPositions
<1>2. HitsBefore(0) = {}
  BY <1>1 DEF HitsBefore
<1>. QED  BY <1>2, FS_EmptySet

(* What a step of the count owes the invariant.                            *)
LEMMA ScanStep ==
    ASSUME IInv, pc \in Scanning \/ compiled, pc # "done",
           UNCHANGED <<config, compiled, raw, result>>,
           pc' \in Scanning,
           offset' \in 0..Len(haystack),
           current_mask' \subseteq 0..(MaskWidth(tier) - 1),
           next_mask_cache' \subseteq 0..(MaskWidth(tier) - 1),
           mask_base_offset' \in Nat,
           count' \in Nat,
           pc' # "loop" => current_mask' = {} /\ next_mask_cache' = {},
           pc' = "single" => tier \in DualTiers,
           count' + Cardinality(current_mask') + Cardinality(next_mask_cache')
               = Cardinality(HitsBefore(offset'))
    PROVE  IInv'
<1>1. /\ haystack' = haystack /\ patterns' = patterns /\ max_len' = max_len
      /\ case_insensitive' = case_insensitive /\ tier' = tier
      /\ raw' = raw /\ compiled' = compiled /\ result' = result
  BY DEF config
<1>2. HitPositions' = HitPositions
  BY <1>1, SameSearch
<1>3. result = -1
  BY DEF IInv, Phases
<1>4. TypeOK'
  BY <1>1 DEF IInv, TypeOK, Scanning
<1>5. SieveBuilt'
  BY <1>1 DEF IInv, SieveBuilt, Scanning
<1>6. Phases'
  BY <1>1, <1>3 DEF Phases, Scanning
<1>7. CountIsExact'
  BY <1>2 DEF CountIsExact, HitsBefore
<1>8. RecallPreserved'
  BY <1>1, <1>3 DEF RecallPreserved
<1>. QED  BY <1>4, <1>5, <1>6, <1>7, <1>8 DEF IInv

(* And what returning owes it.                                             *)
LEMMA ReturnStep ==
    ASSUME IInv, pc \in {"call", "tail"}, NEW value \in Nat, Return(value),
           value >= Cardinality(MatchPositions)
    PROVE  IInv'
<1>1. /\ haystack' = haystack /\ patterns' = patterns /\ max_len' = max_len
      /\ case_insensitive' = case_insensitive /\ tier' = tier
      /\ offset' = offset /\ current_mask' = current_mask
      /\ next_mask_cache' = next_mask_cache /\ mask_base_offset' = mask_base_offset
      /\ raw' = raw /\ compiled' = compiled /\ count' = count
      /\ result' = value /\ pc' = "done"
  BY DEF Return, config, scan
<1>2. HitPositions' = HitPositions /\ MatchPositions' = MatchPositions
  BY <1>1, SameSearch
<1>3. TypeOK'
  BY <1>1 DEF IInv, TypeOK
<1>4. SieveBuilt'
  BY <1>1 DEF IInv, SieveBuilt
<1>5. Phases'
  BY <1>1 DEF IInv, Phases
<1>6. CountIsExact'
  BY <1>1, <1>2 DEF IInv, CountIsExact
<1>7. RecallPreserved'
  BY <1>1, <1>2 DEF RecallPreserved
<1>. QED  BY <1>3, <1>4, <1>5, <1>6, <1>7 DEF IInv

-----------------------------------------------------------------------------
LEMMA WindowFits ==
    ASSUME NEW input \in Inputs
    PROVE  window(input) \in Seq(Byte) /\ Len(window(input)) <= WINDOW
<1>1. input \in Seq(Byte) /\ WINDOW \in Nat /\ Len(input) \in Nat
  BY EstimateAssumption, LenProperties
<1>2. CASE Len(input) > WINDOW
  <2>1. \A k \in 1..WINDOW : input[k] \in Byte
    <3>1. \A k \in 1..Len(input) : input[k] \in Byte
      BY <1>1, ElementOfSeq
    <3>. QED  BY <1>1, <1>2, <3>1
  <2>2. SubSeq(input, 1, WINDOW) \in Seq(Byte) /\ Len(SubSeq(input, 1, WINDOW)) = WINDOW
    BY <1>1, <2>1, SubSeqProperties
  <2>. QED  BY <1>1, <1>2, <2>2 DEF window
<1>. QED  BY <1>1, <1>2 DEF window

LEMMA InitIInv == Init => IInv
<1>. SUFFICES ASSUME Init PROVE IInv
  OBVIOUS
<1>1. /\ haystack \in Seq(Byte) /\ Len(haystack) <= WINDOW /\ Len(haystack) \in Nat
  BY WindowFits, LenProperties DEF Init
<1>2. raw \in Seq(Seq(Byte))
  BY EstimateAssumption DEF Init
<1>3. /\ patterns \in Seq(NonEmpty) /\ max_len \in 0..PREFIX
      /\ SieveBuilt
  <2>1. CASE compiled
    <3>1. EmptyAt(raw) = {} /\ patterns = Unique(raw)
      BY <2>1 DEF Init, Buildable
    <3>. QED  BY <1>2, <2>1, <3>1, NonEmptyList, PrefixAssumption DEF Init, SieveBuilt
  <2>2. CASE ~compiled
    <3>1. patterns = <<>> /\ max_len = 0 /\ pc = "call"
      BY <2>2 DEF Init
    <3>. QED  BY <2>2, <3>1, EmptySeq, PrefixAssumption DEF SieveBuilt
  <2>. QED  BY <2>1, <2>2 DEF Init
<1>4. TypeOK
  BY <1>1, <1>2, <1>3 DEF Init, ScanStart, TypeOK, NonEmpty
<1>5. Phases
  BY DEF Init, ScanStart, Phases
<1>6. CountIsExact
  <2>1. count = 0 /\ current_mask = {} /\ next_mask_cache = {} /\ offset = 0
    BY DEF Init, ScanStart
  <2>. QED  BY <2>1, NothingHit, FS_EmptySet DEF CountIsExact, HitsBefore
<1>7. RecallPreserved
  BY DEF Init, RecallPreserved
<1>. QED  BY <1>3, <1>4, <1>5, <1>6, <1>7 DEF IInv

-----------------------------------------------------------------------------
(* The actions, one by one.                                                *)
LEMMA NoPatternsStep ==
    ASSUME IInv, NoPatterns
    PROVE  IInv'
<1>1. MatchPositions = {}
  BY DEF NoPatterns, MatchPositions
<1>2. Cardinality(MatchPositions) = 0
  BY <1>1, FS_EmptySet
<1>. QED  BY <1>2, ReturnStep DEF NoPatterns

LEMMA FailSafeStep ==
    ASSUME IInv, pc = "call", Return(fail_safe_density(haystack))
    PROVE  IInv'
<1>1. TypeOK
  BY DEF IInv
<1>2. Len(haystack) \in Nat
  BY <1>1, LenProperties DEF TypeOK
<1>. QED  BY <1>1, <1>2, MatchesAreOffsets, ReturnStep DEF fail_safe_density

LEMMA ManyPatternsStep ==
    ASSUME IInv, ManyPatterns
    PROVE  IInv'
<1>1. TypeOK /\ pc = "call"
  BY DEF IInv, ManyPatterns
<1>2. CASE EmptyAt(raw) # {}
  BY <1>1, <1>2, FailSafeStep DEF ManyPatterns
<1>3. CASE EmptyAt(raw) = {}
  <2>1. Return(Cardinality(MatchPositions))
    BY <1>1, <1>3, UniqueMatches DEF ManyPatterns
  <2>. QED  BY <1>1, <2>1, MatchesAreOffsets, ReturnStep
<1>. QED  BY <1>2, <1>3

LEMMA BuildStep ==
    ASSUME IInv, ~compiled, Build
    PROVE  IInv'
<1>1. /\ TypeOK /\ Phases /\ pc = "call" /\ Buildable(raw) /\ EmptyAt(raw) = {}
      /\ patterns' = Unique(raw) /\ max_len' \in 1..PREFIX /\ IsMaxLen(patterns', max_len')
      /\ pc' = "pump"
  BY DEF IInv, Build, Buildable
<1>2. /\ haystack' = haystack /\ case_insensitive' = case_insensitive /\ tier' = tier
      /\ offset' = offset /\ current_mask' = current_mask
      /\ next_mask_cache' = next_mask_cache /\ mask_base_offset' = mask_base_offset
      /\ raw' = raw /\ compiled' = compiled /\ count' = count /\ result' = result
  BY DEF Build, scan
<1>3. /\ offset = 0 /\ count = 0 /\ result = -1
      /\ current_mask = {} /\ next_mask_cache = {}
  BY <1>1 DEF Phases
<1>4. TypeOK'
  <2>1. Unique(raw) \in Seq(Seq(Byte) \ {<<>>})
    BY <1>1, NonEmptyList DEF TypeOK, NonEmpty
  <2>. QED  BY <1>1, <1>2, <2>1, PrefixAssumption DEF TypeOK
<1>5. SieveBuilt'
  BY <1>1, <1>2 DEF SieveBuilt, Buildable
<1>6. Phases'
  BY <1>1, <1>2, <1>3 DEF Phases
<1>7. CountIsExact'
  <2>1. {i \in HitPositions' : i < 0} = {}
    <3>1. \A i \in HitPositions' : ~(i < 0)
      BY DEF HitPositions
    <3>. QED  BY <3>1
  <2>. QED  BY <1>2, <1>3, <2>1, FS_EmptySet DEF CountIsExact
<1>8. RecallPreserved'
  BY <1>2, <1>3 DEF RecallPreserved
<1>. QED  BY <1>4, <1>5, <1>6, <1>7, <1>8 DEF IInv

LEMMA ScanCallStep ==
    ASSUME IInv, compiled, Scan
    PROVE  IInv'
<1>1. /\ pc = "call" /\ pc' = "pump"
      /\ UNCHANGED <<config, compiled, raw, result>>
      /\ offset' = offset /\ count' = count
      /\ current_mask' = current_mask
      /\ next_mask_cache' = next_mask_cache /\ mask_base_offset' = mask_base_offset
      /\ current_mask = {} /\ next_mask_cache = {}
  BY DEF Scan, scan, IInv, Phases
<1>2. count' + Cardinality(current_mask') + Cardinality(next_mask_cache')
        = Cardinality(HitsBefore(offset'))
  BY <1>1 DEF IInv, CountIsExact, HitsBefore
<1>3. /\ offset \in 0..Len(haystack) /\ mask_base_offset \in Nat /\ count \in Nat
      /\ current_mask \subseteq 0..(MaskWidth(tier) - 1)
      /\ next_mask_cache \subseteq 0..(MaskWidth(tier) - 1)
  BY DEF IInv, TypeOK
<1>. QED  BY <1>1, <1>2, <1>3, ScanStep DEF Scanning

(* Before a block is looked at, the count alone is the hits so far.        *)
LEMMA BeforeBlock ==
    ASSUME IInv, pc \in {"pump", "single", "tail"}
    PROVE  /\ TypeOK /\ SieveBuilt
           /\ current_mask = {} /\ next_mask_cache = {}
           /\ Cardinality({}) = 0
           /\ offset \in Nat /\ Len(haystack) \in Nat /\ count \in Nat
           /\ max_len \in Nat \ {0}
           /\ count = Cardinality(HitsBefore(offset))
<1>1. TypeOK /\ SieveBuilt /\ pc \in Scanning
  BY DEF IInv, Scanning
<1>2. current_mask = {} /\ next_mask_cache = {} /\ Cardinality({}) = 0
  BY FS_EmptySet DEF IInv, Phases
<1>3. count + 0 + 0 = Cardinality(HitsBefore(offset))
  BY <1>2 DEF IInv, CountIsExact, HitsBefore
<1>4. offset \in Nat /\ Len(haystack) \in Nat /\ count \in Nat
  BY <1>1, LenProperties DEF TypeOK
<1>. QED  BY <1>1, <1>2, <1>3, <1>4, LongestPrefix DEF Scanning

(* A step that only goes on to the next loop.                              *)
LEMMA NextLoopStep ==
    ASSUME IInv, pc \in {"pump", "single"}, pc' \in {"single", "tail"},
           pc' = "single" => tier \in DualTiers,
           UNCHANGED <<config, scan, compiled, raw, count, result>>
    PROVE  IInv'
<1>1. /\ offset' = offset /\ count' = count /\ current_mask' = current_mask
      /\ next_mask_cache' = next_mask_cache /\ mask_base_offset' = mask_base_offset
      /\ UNCHANGED <<config, compiled, raw, result>>
  BY DEF scan
<1>2. /\ TypeOK /\ current_mask = {} /\ next_mask_cache = {} /\ Cardinality({}) = 0
      /\ offset \in 0..Len(haystack) /\ mask_base_offset \in Nat /\ count \in Nat
      /\ count = Cardinality(HitsBefore(offset))
  BY BeforeBlock DEF TypeOK
<1>3. count' + Cardinality(current_mask') + Cardinality(next_mask_cache')
        = Cardinality(HitsBefore(offset'))
  BY <1>1, <1>2
<1>. QED  BY <1>1, <1>2, <1>3, ScanStep DEF Scanning

LEMMA MaskBlockStep ==
    ASSUME IInv, pc \in {"pump", "single"},
           NEW width \in Nat, width = MaskWidth(tier),
           NEW miss \in {"pump", "tail"}, MaskBlock(width, miss),
           UNCHANGED <<compiled, raw, count, result>>
    PROVE  IInv'
<1>. DEFINE mask == check(chunk(width), 0, width)
<1>1. /\ TypeOK /\ SieveBuilt /\ current_mask = {} /\ next_mask_cache = {}
      /\ Cardinality({}) = 0
      /\ offset \in Nat /\ Len(haystack) \in Nat /\ count \in Nat /\ max_len \in Nat \ {0}
      /\ count = Cardinality(HitsBefore(offset))
  BY BeforeBlock
<1>2. /\ HasRoom(width) /\ offset' = offset + width /\ UNCHANGED <<config, next_mask_cache>>
      /\ \/ mask # {} /\ current_mask' = mask /\ mask_base_offset' = offset /\ pc' = "loop"
         \/ /\ mask = {} /\ current_mask' = current_mask /\ pc' = miss
            /\ mask_base_offset' = mask_base_offset
  BY DEF MaskBlock
<1>3. /\ mask \subseteq 0..(width - 1) /\ Cardinality(mask) \in Nat
      /\ Cardinality(HitsBefore(offset + 0 + width)) =
            Cardinality(HitsBefore(offset + 0)) + Cardinality(mask)
  BY <1>1, <1>2, MaskCountsHits
<1>4. offset + 0 + width = offset + width /\ offset + 0 = offset
  BY <1>1
<1>5. /\ offset' \in 0..Len(haystack) /\ mask_base_offset' \in Nat
      /\ current_mask' = mask /\ next_mask_cache' = {}
      /\ pc' \in Scanning /\ (pc' # "loop" => current_mask' = {}) /\ pc' # "single"
  <2>1. offset + width <= Len(haystack) /\ offset + width \in Nat
    BY <1>1, <1>2 DEF HasRoom
  <2>2. mask_base_offset \in Nat
    BY <1>1 DEF TypeOK
  <2>. HIDE DEF mask
  <2>3. offset' \in 0..Len(haystack)
    BY <1>1, <1>2, <2>1
  <2>4. next_mask_cache' = {}
    BY <1>1, <1>2
  <2>5. CASE mask # {}
    BY <1>1, <1>2, <2>3, <2>4, <2>5 DEF Scanning
  <2>6. CASE mask = {}
    BY <1>1, <1>2, <2>2, <2>3, <2>4, <2>6 DEF Scanning
  <2>. QED  BY <2>5, <2>6
<1>. HIDE DEF mask
<1>6. count' + Cardinality(current_mask') + Cardinality(next_mask_cache')
        = Cardinality(HitsBefore(offset'))
  <2>1. /\ offset' = offset + width /\ current_mask' = mask /\ next_mask_cache' = {}
        /\ count' = count
    BY <1>2, <1>5
  <2>2. HitsBefore(offset') = HitsBefore(offset + 0 + width)
    BY <1>4, <2>1
  <2>3. Cardinality(HitsBefore(offset')) = count + Cardinality(mask)
    BY <1>1, <1>3, <1>4, <2>2
  <2>. QED  BY <1>1, <1>3, <2>1, <2>3
<1>. QED  BY <1>1, <1>2, <1>3, <1>5, <1>6, ScanStep DEF Scanning

LEMMA DualPumpStep ==
    ASSUME IInv, DualPump, UNCHANGED <<compiled, raw, count, result>>
    PROVE  IInv'
<1>. DEFINE half == half_stride(tier)
            block == chunk(2 * half)
            mask_a == check(block, 0, half)
            mask_b == check(block, half, half)
<1>1. /\ pc = "pump" /\ TypeOK /\ SieveBuilt /\ current_mask = {} /\ next_mask_cache = {}
      /\ Cardinality({}) = 0
      /\ offset \in Nat /\ Len(haystack) \in Nat /\ count \in Nat /\ max_len \in Nat \ {0}
      /\ count = Cardinality(HitsBefore(offset))
  BY BeforeBlock DEF DualPump
<1>2. half \in Nat /\ MaskWidth(tier) = half /\ 2 * half \in Nat
      /\ 0 + half <= 2 * half /\ half + half <= 2 * half
  <2>1. half \in Nat /\ MaskWidth(tier) = half
    BY <1>1, Strides DEF DualPump, TypeOK
  <2>. HIDE DEF half
  <2>. QED  BY <2>1
<1>3. /\ HasRoom(2 * half) /\ offset' = offset + 2 * half /\ UNCHANGED config
      /\ \/ /\ mask_a # {} /\ current_mask' = mask_a /\ mask_base_offset' = offset
            /\ next_mask_cache' = mask_b /\ pc' = "loop"
         \/ /\ mask_a = {} /\ mask_b # {} /\ current_mask' = mask_b
            /\ mask_base_offset' = offset + half /\ pc' = "loop"
            /\ next_mask_cache' = next_mask_cache
         \/ /\ mask_a = {} /\ mask_b = {} /\ current_mask' = current_mask
            /\ mask_base_offset' = mask_base_offset /\ next_mask_cache' = next_mask_cache
            /\ pc' = pc
  BY DEF DualPump
<1>. HIDE DEF half
<1>4. /\ mask_a \subseteq 0..(half - 1) /\ Cardinality(mask_a) \in Nat
      /\ Cardinality(HitsBefore(offset + 0 + half)) =
            Cardinality(HitsBefore(offset + 0)) + Cardinality(mask_a)
  BY <1>1, <1>2, <1>3, MaskCountsHits
<1>5. /\ mask_b \subseteq 0..(half - 1) /\ Cardinality(mask_b) \in Nat
      /\ Cardinality(HitsBefore(offset + half + half)) =
            Cardinality(HitsBefore(offset + half)) + Cardinality(mask_b)
  BY <1>1, <1>2, <1>3, MaskCountsHits
<1>6. /\ offset + 0 = offset /\ offset + 0 + half = offset + half
      /\ offset + half + half = offset + 2 * half
  BY <1>1, <1>2
<1>. HIDE DEF mask_a, mask_b
<1>7. Cardinality(HitsBefore(offset')) = count + Cardinality(mask_a) + Cardinality(mask_b)
  <2>1. Cardinality(HitsBefore(offset + half)) = count + Cardinality(mask_a)
    BY <1>1, <1>4, <1>6
  <2>2. HitsBefore(offset') = HitsBefore(offset + half + half)
    BY <1>3, <1>6
  <2>. QED  BY <1>5, <2>1, <2>2
<1>8. /\ current_mask' \subseteq 0..(MaskWidth(tier) - 1)
      /\ next_mask_cache' \subseteq 0..(MaskWidth(tier) - 1)
  BY <1>1, <1>2, <1>3, <1>4, <1>5
<1>9. /\ offset' \in 0..Len(haystack) /\ mask_base_offset' \in Nat
      /\ pc' \in Scanning /\ pc' # "single"
      /\ (pc' # "loop" => current_mask' = {} /\ next_mask_cache' = {})
  BY <1>1, <1>2, <1>3 DEF HasRoom, TypeOK, Scanning
<1>10. count' + Cardinality(current_mask') + Cardinality(next_mask_cache')
         = Cardinality(HitsBefore(offset'))
  <2>1. count' = count
    OBVIOUS
  <2>2. CASE mask_a # {}
    <3>1. current_mask' = mask_a /\ next_mask_cache' = mask_b
      BY <1>3, <2>2
    <3>. QED  BY <1>1, <1>4, <1>5, <1>7, <2>1, <3>1
  <2>3. CASE mask_a = {} /\ mask_b # {}
    <3>1. current_mask' = mask_b /\ next_mask_cache' = {}
      BY <1>1, <1>3, <2>3
    <3>2. Cardinality(mask_a) = 0
      BY <1>1, <2>3
    <3>. QED  BY <1>1, <1>4, <1>5, <1>7, <2>1, <3>1, <3>2
  <2>4. CASE mask_a = {} /\ mask_b = {}
    <3>1. current_mask' = {} /\ next_mask_cache' = {}
      BY <1>1, <1>3, <2>4
    <3>2. Cardinality(mask_a) = 0 /\ Cardinality(mask_b) = 0
      BY <1>1, <2>4
    <3>. QED  BY <1>1, <1>4, <1>5, <1>7, <2>1, <3>1, <3>2
  <2>. QED  BY <2>2, <2>3, <2>4
<1>. QED  BY <1>1, <1>3, <1>8, <1>9, <1>10, ScanStep DEF Scanning

LEMMA FetchKeepsIInv ==
    ASSUME IInv, FetchStep
    PROVE  IInv'
<1>1. /\ tier \in HardwareTier
      /\ tier \in DualTiers => MaskWidth(tier) = half_stride(tier)
      /\ tier = "Scalar" => MaskWidth(tier) = ScalarBlock
      /\ half_stride(tier) \in Nat /\ ScalarBlock \in Nat
  BY Strides DEF IInv, TypeOK, DualTiers
<1>2. UNCHANGED <<compiled, raw, count, result>>
  BY DEF FetchStep
<1>3. CASE DualPump
  BY <1>2, <1>3, DualPumpStep
<1>4. CASE DualPumpDone
  BY <1>2, <1>4, NextLoopStep DEF DualPumpDone
<1>5. CASE SinglePump
  <2>1. pc = "single" /\ tier \in DualTiers
    BY <1>5 DEF SinglePump, IInv, Phases
  <2>. QED  BY <1>1, <1>2, <1>5, <2>1, MaskBlockStep DEF SinglePump
<1>6. CASE SinglePumpSkipped
  BY <1>2, <1>6, NextLoopStep DEF SinglePumpSkipped
<1>7. CASE ScalarPump
  BY <1>1, <1>2, <1>7, MaskBlockStep DEF ScalarPump
<1>8. CASE ScalarPumpDone
  BY <1>2, <1>8, NextLoopStep DEF ScalarPumpDone
<1>. QED  BY <1>3, <1>4, <1>5, <1>6, <1>7, <1>8 DEF FetchStep, fetch_next_chunk

LEMMA CountMasksStep ==
    ASSUME IInv, CountMasks
    PROVE  IInv'
<1>1. /\ pc = "loop" /\ pc' = "pump"
      /\ count' = count + Cardinality(current_mask) + Cardinality(next_mask_cache)
      /\ current_mask' = {} /\ next_mask_cache' = {}
      /\ offset' = offset /\ mask_base_offset' = mask_base_offset
      /\ UNCHANGED <<config, compiled, raw, result>>
  BY DEF CountMasks
<1>2. TypeOK
  BY DEF IInv
<1>3. count' = Cardinality(HitsBefore(offset'))
  BY <1>1 DEF IInv, CountIsExact, HitsBefore
<1>4. /\ count' \in Nat /\ Cardinality({}) = 0
      /\ offset \in 0..Len(haystack) /\ mask_base_offset \in Nat
  BY <1>1, <1>2, <1>3, HitsAreOffsets, FS_EmptySet DEF TypeOK
<1>5. count' + Cardinality(current_mask') + Cardinality(next_mask_cache')
        = Cardinality(HitsBefore(offset'))
  BY <1>1, <1>3, <1>4
<1>. QED  BY <1>1, <1>4, <1>5, ScanStep DEF Scanning

(* A tail loop's step, when its hit is a prefix hit.                       *)
LEMMA TailStep ==
    ASSUME IInv, pc = "tail", offset < Len(haystack), NEW hit \in BOOLEAN,
           hit <=> PrefixAt(haystack, patterns, case_insensitive, offset),
           offset' = offset + 1, CountIf(hit)
    PROVE  IInv'
<1>1. /\ TypeOK /\ current_mask = {} /\ next_mask_cache = {} /\ Cardinality({}) = 0
      /\ offset \in Nat /\ Len(haystack) \in Nat /\ count \in Nat
      /\ count = Cardinality(HitsBefore(offset))
  BY BeforeBlock
<1>2. /\ count' = count + (IF hit THEN 1 ELSE 0)
      /\ current_mask' = current_mask /\ next_mask_cache' = next_mask_cache
      /\ mask_base_offset' = mask_base_offset /\ pc' = pc
      /\ UNCHANGED <<config, compiled, raw, result>>
  BY DEF CountIf
<1>3. Cardinality(HitsBefore(offset + 1)) = count + (IF hit THEN 1 ELSE 0)
  BY <1>1, TailCountsHit
<1>4. count' = Cardinality(HitsBefore(offset'))
  BY <1>2, <1>3
<1>5. /\ count' \in Nat /\ offset' \in 0..Len(haystack) /\ mask_base_offset' \in Nat
      /\ pc' = "tail" /\ current_mask' = {} /\ next_mask_cache' = {}
  BY <1>1, <1>2 DEF TypeOK
<1>6. count' + Cardinality(current_mask') + Cardinality(next_mask_cache')
        = Cardinality(HitsBefore(offset'))
  BY <1>1, <1>4, <1>5
<1>. QED  BY <1>2, <1>5, <1>6, ScanStep DEF Scanning

(* In the first loop every prefix fits, so no bound needs checking.        *)
LEMMA AllFit ==
    ASSUME IInv, pc = "tail", offset + max_len <= Len(haystack)
    PROVE  \A k \in DOMAIN patterns : Fits(patterns[k])
<1>1. TypeOK /\ SieveBuilt /\ offset \in Nat /\ Len(haystack) \in Nat
  BY BeforeBlock
<1>2. \A k \in DOMAIN patterns :
         eval_len(patterns[k]) \in Nat /\ eval_len(patterns[k]) <= max_len
  BY <1>1, LongestPrefix
<1>. QED  BY <1>1, <1>2, LongestPrefix DEF Fits

LEMMA VerifiedWhereFits ==
    ASSUME TypeOK, NEW k \in DOMAIN patterns
    PROVE  Fits(patterns[k]) /\ PrefixVerified(patterns[k])
             <=> PrefixOfAt(haystack, patterns[k], case_insensitive, offset)
<1>1. /\ haystack \in Seq(Byte) /\ patterns \in Seq(Seq(Byte) \ {<<>>})
      /\ case_insensitive \in BOOLEAN /\ offset \in Nat
  BY LenProperties DEF TypeOK
<1>2. Fits(patterns[k]) => (PrefixVerified(patterns[k])
             <=> PrefixOfAt(haystack, patterns[k], case_insensitive, offset))
  BY <1>1, VerifiedPrefix DEF Fits, PrefixVerified
<1>3. PrefixOfAt(haystack, patterns[k], case_insensitive, offset) => Fits(patterns[k])
  BY DEF PrefixOfAt, Fits
<1>. QED  BY <1>2, <1>3

LEMMA LongTailStep ==
    ASSUME IInv, LongTail
    PROVE  IInv'
<1>. DEFINE hit == \E k \in DOMAIN patterns : PrefixVerified(patterns[k])
<1>1. /\ pc = "tail" /\ offset + max_len <= Len(haystack)
      /\ offset' = offset + 1 /\ CountIf(hit) /\ hit \in BOOLEAN
  BY DEF LongTail
<1>2. /\ TypeOK /\ offset \in Nat /\ Len(haystack) \in Nat /\ max_len \in Nat \ {0}
      /\ \A k \in DOMAIN patterns : Fits(patterns[k])
  BY <1>1, BeforeBlock, AllFit
<1>3. hit <=> PrefixAt(haystack, patterns, case_insensitive, offset)
  BY <1>2, VerifiedWhereFits DEF PrefixAt
<1>4. offset < Len(haystack)
  BY <1>1, <1>2
<1>. HIDE DEF hit
<1>. QED  BY <1>1, <1>3, <1>4, TailStep

LEMMA ShortTailStep ==
    ASSUME IInv, ShortTail
    PROVE  IInv'
<1>. DEFINE hit == \E k \in DOMAIN patterns :
                      Fits(patterns[k]) /\ PrefixVerified(patterns[k])
<1>1. /\ pc = "tail" /\ offset < Len(haystack)
      /\ offset' = offset + 1 /\ CountIf(hit) /\ hit \in BOOLEAN
  BY DEF ShortTail
<1>2. TypeOK
  BY DEF IInv
<1>3. hit <=> PrefixAt(haystack, patterns, case_insensitive, offset)
  BY <1>2, VerifiedWhereFits DEF PrefixAt
<1>. HIDE DEF hit
<1>. QED  BY <1>1, <1>3, TailStep

(* Every match begins with a prefix hit, so the full count is enough.      *)
LEMMA ReturnCountStep ==
    ASSUME IInv, ReturnCount
    PROVE  IInv'
<1>1. /\ pc = "tail" /\ offset >= Len(haystack) /\ Return(count)
  BY DEF ReturnCount
<1>2. /\ TypeOK /\ SieveBuilt /\ offset \in Nat /\ count \in Nat
      /\ count = Cardinality(HitsBefore(offset))
  BY <1>1, BeforeBlock
<1>3. EmptyAt(raw) = {} /\ patterns = Unique(raw)
  BY <1>1, <1>2 DEF SieveBuilt, Buildable
<1>4. MatchPositions = Matches(haystack, patterns, case_insensitive)
  BY <1>2, <1>3, UniqueMatches
<1>5. MatchPositions \in SUBSET HitsBefore(offset)
  <2>1. ASSUME NEW i \in MatchPositions PROVE i \in HitsBefore(offset)
    <3>1. i \in 0..(Len(haystack) - 1) /\ MatchAt(haystack, patterns, case_insensitive, i)
      BY <1>4 DEF Matches
    <3>2. /\ haystack \in Seq(Byte) /\ patterns \in Seq(Seq(Byte) \ {<<>>})
          /\ case_insensitive \in BOOLEAN /\ i \in Nat /\ Len(haystack) \in Nat
      BY <1>2, <3>1, LenProperties DEF TypeOK
    <3>3. PrefixAt(haystack, patterns, case_insensitive, i)
      BY <3>1, <3>2, MatchIsPrefixHit
    <3>4. i < offset
      BY <1>1, <1>2, <3>1, <3>2
    <3>. QED  BY <3>1, <3>3, <3>4 DEF HitsBefore, HitPositions
  <2>. QED  BY <2>1
<1>6. count >= Cardinality(MatchPositions)
  <2>1. IsFiniteSet(HitsBefore(offset))
    BY <1>2, HitsAreOffsets
  <2>2. Cardinality(MatchPositions) <= Cardinality(HitsBefore(offset))
    BY <1>5, <2>1, FS_Subset
  <2>3. Cardinality(MatchPositions) \in Nat
    BY <1>2, MatchesAreOffsets
  <2>. QED  BY <1>2, <2>2, <2>3
<1>. QED  BY <1>1, <1>2, <1>6, ReturnStep

LEMMA NextKeepsIInv == IInv /\ [Next]_vars => IInv'
<1>. SUFFICES ASSUME IInv, [Next]_vars PROVE IInv'
  OBVIOUS
<1>1. CASE NoPatterns
  BY <1>1, NoPatternsStep
<1>2. CASE ManyPatterns
  BY <1>2, ManyPatternsStep
<1>3. CASE BuildFails
  BY <1>3, FailSafeStep DEF BuildFails
<1>4. CASE ~compiled /\ Build
  BY <1>4, BuildStep
<1>5. CASE compiled /\ Scan
  BY <1>5, ScanCallStep
<1>6. CASE FetchStep
  BY <1>6, FetchKeepsIInv
<1>7. CASE CountMasks
  BY <1>7, CountMasksStep
<1>8. CASE LongTail
  BY <1>8, LongTailStep
<1>9. CASE ShortTail
  BY <1>9, ShortTailStep
<1>10. CASE ReturnCount
  BY <1>10, ReturnCountStep
<1>11. CASE UNCHANGED vars
  <2>1. /\ haystack' = haystack /\ patterns' = patterns /\ max_len' = max_len
        /\ case_insensitive' = case_insensitive /\ tier' = tier
        /\ offset' = offset /\ current_mask' = current_mask
        /\ next_mask_cache' = next_mask_cache /\ mask_base_offset' = mask_base_offset
        /\ raw' = raw /\ compiled' = compiled /\ count' = count
        /\ result' = result /\ pc' = pc
    BY <1>11 DEF vars, config, scan
  <2>2. HitPositions' = HitPositions /\ MatchPositions' = MatchPositions
    BY <2>1, SameSearch
  <2>. QED
    BY <2>1, <2>2 DEF IInv, TypeOK, SieveBuilt, Phases, CountIsExact, RecallPreserved
<1>. QED
  BY <1>1, <1>2, <1>3, <1>4, <1>5, <1>6, <1>7, <1>8, <1>9, <1>10, <1>11
     DEF Next, SimdSieve_estimate_match_count, CompiledSieve_estimate_match_count, Count

-----------------------------------------------------------------------------
(* The inductive invariant holds throughout.                               *)
THEOREM Invariance == Spec => []IInv
  BY InitIInv, NextKeepsIInv, PTL DEF Spec

(* Every variable keeps the type of its field.                             *)
THEOREM TypeCorrect == Spec => []TypeOK
<1>1. IInv => TypeOK
  BY DEF IInv
<1>. QED  BY <1>1, Invariance, PTL

(* At every moment, what estimate_match_count has counted and what its     *)
(* masks hold are together the prefix hits of the bytes it has consumed:   *)
(* on every tier, no block, half block or tail byte is counted twice or    *)
(* left out.                                                               *)
THEOREM CountedExactly == Spec => []CountIsExact
<1>1. IInv => CountIsExact
  BY DEF IInv
<1>. QED  BY <1>1, Invariance, PTL

(* The estimate is never below the number of window positions where a      *)
(* non-empty pattern of the caller matches, on every return of it.         *)
THEOREM RecallHolds == Spec => []RecallPreserved
<1>1. IInv => RecallPreserved
  BY DEF IInv
<1>. QED  BY <1>1, Invariance, PTL

(* The first tail loop, which checks no bound, slices none out of bounds.  *)
THEOREM LongTailFits == Spec => []LongTailInBounds
<1>1. IInv => LongTailInBounds
  BY AllFit DEF LongTailInBounds
<1>. QED  BY <1>1, Invariance, PTL
=============================================================================
