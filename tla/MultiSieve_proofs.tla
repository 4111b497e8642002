------------------------- MODULE MultiSieve_proofs --------------------------
(***************************************************************************)
(* Proofs about MultiSieve, for every list, haystack and geometry: real    *)
(* sieves do what the merge assumes of them, whichever it polls and        *)
(* however long the others wait, and the caller gets the matches of its    *)
(* list.                                                                   *)
(*                                                                         *)
(* The lemmas about one sieve and about the merge are those of             *)
(* Collector_proofs and MultiCandidates_proofs, instantiated as MultiSieve *)
(* instantiates their modules.                                             *)
(***************************************************************************)
EXTENDS MultiSieve, PatternSets_proofs

S ==
    INSTANCE Collector_proofs
        WITH PatternLists <- UNION {Range(Chunks(Unique(r))) : r \in RawLists},
             patterns <- sieves[polled + 1].patterns,
             max_len <- sieves[polled + 1].max_len,
             pc <- sieve_pc, emitted <- returned, yields <- returns, done <- ended

M ==
    INSTANCE MultiCandidates_proofs
        WITH SieveCounts <- Nat, MatchSets <- SUBSET Nat,
             streams <- [s \in SieveIndex |-> sieves[s + 1].matches],
             drawn <- [s \in SieveIndex |-> parked[s].emitted]

-----------------------------------------------------------------------------
(* The instances of one operator are one operator.                         *)
LEMMA SameFold ==
    \A b : S!fold_byte(b) = fold_byte(b) /\ Sieve!fold_byte(b) = fold_byte(b)
  BY DEF fold_byte, Sieve!fold_byte, S!fold_byte, wrapping_sub,
         Sieve!wrapping_sub, S!wrapping_sub, wrapping_neg, Sieve!wrapping_neg,
         S!wrapping_neg, BitAnd00orFF, Sieve!BitAnd00orFF, S!BitAnd00orFF,
         ASCII_CASE_OFFSET, Sieve!ASCII_CASE_OFFSET, S!ASCII_CASE_OFFSET

LEMMA SameVerifier ==
    \A ci, left, right :
        /\ S!verifier(ci, left, right) = verifier(ci, left, right)
        /\ Sieve!verifier(ci, left, right) = verifier(ci, left, right)
  BY SameFold
     DEF verifier, Sieve!verifier, S!verifier, verify_exact,
         Sieve!verify_exact, S!verify_exact, verify_case_insensitive,
         Sieve!verify_case_insensitive, S!verify_case_insensitive

LEMMA SameMatches ==
    /\ \A h, ps, ci, i : /\ S!MatchAt(h, ps, ci, i) = MatchAt(h, ps, ci, i)
                         /\ Sieve!MatchAt(h, ps, ci, i) = MatchAt(h, ps, ci, i)
    /\ \A h, ps, ci : S!Matches(h, ps, ci) = Matches(h, ps, ci)
  BY SameVerifier
     DEF MatchAt, Sieve!MatchAt, S!MatchAt, PatternAt, Sieve!PatternAt,
         S!PatternAt, Slice, Sieve!Slice, S!Slice, Matches, S!Matches

LEMMA SamePrefixes ==
    /\ \A h, ps, ci, lo, width :
          S!PrefixHits(h, ps, ci, lo, width) = Sieve!PrefixHits(h, ps, ci, lo, width)
    /\ \A p : S!eval_len(p) = eval_len(p)
    /\ S!Byte = Byte
<1>1. \A ci, b : S!Canon(ci, b) = Sieve!Canon(ci, b)
  BY SameFold DEF S!Canon, Sieve!Canon
<1>. QED
  BY <1>1
     DEF S!PrefixHits, Sieve!PrefixHits, S!PrefixAt, Sieve!PrefixAt,
         S!PrefixOfAt, Sieve!PrefixOfAt, S!eval_len, Sieve!eval_len, eval_len,
         S!Byte, Byte

LEMMA SameStep == Sieve!Step <=> S!Step
<1>1. Sieve!fetch_next_chunk <=> S!fetch_next_chunk
  <2>1. Sieve!DualPump <=> S!DualPump
    BY SamePrefixes
       DEF S!DualPump, Sieve!DualPump, S!half_stride, Sieve!half_stride, S!chunk,
         Sieve!chunk, S!check, Sieve!check, S!DualTiers, Sieve!DualTiers,
         S!HasRoom, Sieve!HasRoom, S!config, Sieve!config, S!Slice,
         Sieve!Slice
  <2>2. \A width, miss : Sieve!MaskBlock(width, miss) <=> S!MaskBlock(width, miss)
    BY SamePrefixes
       DEF S!MaskBlock, Sieve!MaskBlock, S!chunk, Sieve!chunk, S!check,
         Sieve!check, S!HasRoom, Sieve!HasRoom, S!config, Sieve!config,
         S!Slice, Sieve!Slice
  <2>. QED
    BY <2>1, <2>2
       DEF S!fetch_next_chunk, Sieve!fetch_next_chunk, S!DualPumpDone,
         Sieve!DualPumpDone, S!SinglePump, Sieve!SinglePump,
         S!SinglePumpSkipped, Sieve!SinglePumpSkipped, S!ScalarPump,
         Sieve!ScalarPump, S!ScalarPumpDone, Sieve!ScalarPumpDone,
         S!half_stride, Sieve!half_stride, S!ScalarBlock, Sieve!ScalarBlock,
         S!DualTiers, Sieve!DualTiers, S!HasRoom, Sieve!HasRoom, S!config,
         Sieve!config, S!scan, Sieve!scan
<1>2. Sieve!ConsumeBit <=> S!ConsumeBit
  BY SameMatches DEF S!ConsumeBit, Sieve!ConsumeBit, S!LowestBit, Sieve!LowestBit,
         S!ClearLowest, Sieve!ClearLowest, S!Yield, Sieve!Yield, S!config,
         Sieve!config
<1>3. Sieve!TailStep <=> S!TailStep
  BY SameMatches DEF S!TailStep, Sieve!TailStep, S!TailLeft, Sieve!TailLeft, S!Yield,
         Sieve!Yield, S!config, Sieve!config
<1>. QED
  BY <1>1, <1>2, <1>3
     DEF S!Step, Sieve!Step, S!SwitchHalf, Sieve!SwitchHalf,
         S!half_block_stride, Sieve!half_block_stride, S!FetchCall,
         Sieve!FetchCall, S!FetchStep, Sieve!FetchStep, S!Finish, Sieve!Finish,
         S!TailLeft, Sieve!TailLeft, S!config, Sieve!config, S!scan,
         Sieve!scan

LEMMA SameMerge ==
    /\ \A e : Merge!Selected(e) <=> M!Selected(e)
    /\ Merge!Init <=> M!Init
    /\ Merge!Next <=> M!Next
    /\ Merge!vars = M!vars
<1>1. \A e : Merge!Selected(e) <=> M!Selected(e)
  BY DEF M!Selected, Merge!Selected, M!LeastOfTwo, Merge!LeastOfTwo,
         M!LeastOfThree, Merge!LeastOfThree, M!LeastOfHeap, Merge!LeastOfHeap
<1>2. \A p : Merge!IsRepeat(p) <=> M!IsRepeat(p)
  BY DEF M!IsRepeat, Merge!IsRepeat
<1>3. UNCHANGED Merge!sieves <=> UNCHANGED M!sieves
  BY DEF M!sieves, Merge!sieves
<1>4. Merge!MergeStep <=> M!MergeStep
  <2>1. UNCHANGED <<Merge!sieves, primed, done>> <=> UNCHANGED <<M!sieves, primed, done>>
    BY <1>3
  <2>. QED
    BY <1>1, <1>2, <2>1
       DEF M!MergeStep, Merge!MergeStep, M!Refill, Merge!Refill, M!NextOf,
           Merge!NextOf, M!Left, Merge!Left
<1>5. Merge!Prime <=> M!Prime
  <2>1. UNCHANGED <<Merge!sieves, last_yielded, emitted, yields, done, pc>>
          <=> UNCHANGED <<M!sieves, last_yielded, emitted, yields, done, pc>>
    BY <1>3
  <2>. QED
    BY <2>1
       DEF M!Prime, Merge!Prime, M!Refill, Merge!Refill, M!NextOf,
           Merge!NextOf, M!Left, Merge!Left
<1>. QED
  BY <1>1, <1>4, <1>5
     DEF M!Init, Merge!Init, M!Next, Merge!Next, M!Step, Merge!Step, M!Poll,
         Merge!Poll, M!Constructed, Merge!Constructed, M!Exhausted,
         Merge!Exhausted, M!sieves, Merge!sieves, M!vars, Merge!vars

-----------------------------------------------------------------------------
(* The chunks are lists a sieve can be built of.                           *)
LEMMA ChunksAreSieves ==
    ASSUME NEW r \in RawLists, NEW c \in DOMAIN Chunks(Unique(r))
    PROVE  /\ Chunks(Unique(r))[c] \in Seq(Seq(Byte) \ {<<>>})
           /\ Chunks(Unique(r))[c] # <<>>
           /\ Len(Chunks(Unique(r))[c]) \in 1..MAX_PATTERNS
<1>. DEFINE ps == Unique(r)
<1>1. r \in Seq(Seq(Byte) \ {<<>>})
  BY MultiSieveAssumption
<1>2. ps \in Seq(Seq(Byte) \ {<<>>})
  BY <1>1, UniqueFacts
<1>. HIDE DEF ps
<1>. QED  BY <1>2, ChunkFacts, MaxPatternsAssumption, EmptySeq DEF ps

LEMMA SieveAssumptions ==
    S!LanesAssumption /\ S!PrefixAssumption /\ S!MaxPatternsAssumption /\ S!InputAssumption
<1>. DEFINE lists == UNION {Range(Chunks(Unique(r))) : r \in RawLists}
<1>1. ASSUME NEW ps \in lists
      PROVE  ps \in Seq(Seq(Byte) \ {<<>>}) /\ Len(ps) \in 1..MAX_PATTERNS
  <2>1. PICK r \in RawLists : ps \in Range(Chunks(Unique(r)))
    BY <1>1
  <2>2. PICK c \in DOMAIN Chunks(Unique(r)) : ps = Chunks(Unique(r))[c]
    BY <2>1 DEF Range
  <2>. QED  BY <2>2, ChunksAreSieves
<1>2. S!Byte = Byte
  BY SamePrefixes
<1>. HIDE DEF lists
<1>3. S!InputAssumption
  <2>. USE DEF lists
  <2>. QED  BY <1>1, <1>2, MultiSieveAssumption DEF S!InputAssumption
<1>. QED
  BY <1>3, MultiSieveAssumption, PrefixAssumption, MaxPatternsAssumption
     DEF S!LanesAssumption, S!PrefixAssumption, S!MaxPatternsAssumption

LEMMA MergeAssumptions == M!MergeAssumption
  BY DEF M!MergeAssumption

LEMMA SieveNext ==
    ASSUME S!IInv, S!Step
    PROVE  S!IInv'
  BY SieveAssumptions, S!NextKeepsIInv DEF S!Next

LEMMA MergeNext ==
    ASSUME M!IInv, [M!Next]_(M!vars)
    PROVE  M!IInv'
  BY MergeAssumptions, M!NextKeepsIInv

-----------------------------------------------------------------------------
(* The inductive invariant.                                                *)

(* The sieves are those of the chunks of the list: what construction       *)
(* leaves, and nothing changes.                                            *)
SieveOK(sv) ==
    /\ sv.patterns \in Seq(Seq(Byte) \ {<<>>})
    /\ sv.max_len \in 1..PREFIX
    /\ IsMaxLen(sv.patterns, sv.max_len)
    /\ sv.matches = Matches(haystack, sv.patterns, case_insensitive)

InputOK ==
    /\ haystack \in Seq(Byte)
    /\ case_insensitive \in BOOLEAN
    /\ tier \in S!HardwareTier
    /\ sieve_count \in Nat
    /\ \A s \in SieveIndex : SieveOK(sieves[s + 1])
    /\ matches = UNION {sieves[s + 1].matches : s \in SieveIndex}

(* Sieve s, with the fields of f, is between two calls of next(): what     *)
(* Collector_proofs says of a sieve at rest.                               *)
AtRest(s, f) ==
    LET found == sieves[s + 1].matches
        half == S!half_block_stride(tier)
        candidates == {f.mask_base_offset + b : b \in f.current_mask}
                          \cup {f.mask_base_offset + half + b : b \in f.next_mask_cache}
    IN  /\ f.offset \in 0..Len(haystack)
        /\ f.current_mask \subseteq 0..(S!MaskWidth(tier) - 1)
        /\ f.next_mask_cache \subseteq 0..(S!MaskWidth(tier) - 1)
        /\ f.mask_base_offset \in Nat
        /\ f.emitted \subseteq Nat /\ f.yields \in Nat /\ f.done \in BOOLEAN
        /\ f.current_mask # {} => f.mask_base_offset + S!MaskWidth(tier) <= f.offset
        /\ f.next_mask_cache # {} =>
               /\ tier \in S!DualTiers
               /\ f.mask_base_offset + half + S!half_stride(tier) = f.offset
        /\ f.done => candidates = {} /\ f.offset = Len(haystack)
        /\ f.emitted \cup (found \cap candidates) = {m \in found : m < f.offset}
        /\ \A e \in f.emitted, c \in candidates : e < c

(* The sieves wait with what their last call left.                         *)
Waiting ==
    /\ parked = [s \in SieveIndex |-> parked[s]]
    /\ \A s \in SieveIndex : AtRest(s, parked[s])

(* A call of next() is made for the sieve new() has got to, or for that of *)
(* the entry the merge takes; until it returns, the sieve has returned     *)
(* what it had, and then its least match left, if there is one.            *)
Calling ==
    polled # -1 =>
        LET before == parked[polled].emitted
            found == sieves[polled + 1].matches
        IN  /\ polled \in SieveIndex
            /\ S!IInv
            /\ pc = "new" => polled = primed
            /\ pc # "new" => /\ pc = "loop"
                             /\ \E e \in held : e.sieve_index = polled /\ M!Selected(e)
            /\ \/ sieve_pc # "idle" /\ returned = before
               \/ /\ sieve_pc = "idle"
                  /\ \/ \E i \in found \ before :
                            /\ \A m \in found \ before : i <= m
                            /\ returned = before \cup {i}
                     \/ found = before /\ returned = before

IInv == InputOK /\ Waiting /\ Calling /\ M!IInv

-----------------------------------------------------------------------------
(* The inputs stay as they are.                                            *)
LEMMA SameInput ==
    ASSUME InputOK, UNCHANGED input
    PROVE  /\ InputOK'
           /\ haystack' = haystack /\ case_insensitive' = case_insensitive
           /\ tier' = tier /\ matches' = matches /\ sieves' = sieves
           /\ sieve_count' = sieve_count /\ SieveIndex' = SieveIndex
<1>1. /\ haystack' = haystack /\ case_insensitive' = case_insensitive
      /\ tier' = tier /\ matches' = matches /\ sieves' = sieves
      /\ sieve_count' = sieve_count
  BY DEF input, sieve_count
<1>. QED  BY <1>1 DEF InputOK, SieveOK, SieveIndex

(* What the running sieve is to return is what the merge expects of it.    *)
LEMMA MatchesOfRunning ==
    ASSUME InputOK, polled \in SieveIndex
    PROVE  S!matches = sieves[polled + 1].matches
  BY SameMatches DEF InputOK, SieveOK, S!matches

(* A sieve that goes on from the fields of one at rest is a sieve in a     *)
(* call of next().                                                         *)
LEMMA CalledSieve ==
    ASSUME InputOK, NEW s \in SieveIndex, AtRest(s, parked[s]), Call(s)
    PROVE  S!IInv'
<1>. DEFINE f == parked[s]
            sv == sieves[s + 1]
            half == S!half_block_stride(tier)
            candidates == {f.mask_base_offset + b : b \in f.current_mask}
                             \cup {f.mask_base_offset + half + b : b \in f.next_mask_cache}
<1>1. /\ InputOK' /\ haystack' = haystack /\ case_insensitive' = case_insensitive
      /\ tier' = tier /\ sieves' = sieves /\ SieveIndex' = SieveIndex
  BY SameInput DEF Call
<1>2. /\ polled' = s /\ sieve_pc' = "loop"
      /\ offset' = f.offset /\ current_mask' = f.current_mask
      /\ next_mask_cache' = f.next_mask_cache /\ mask_base_offset' = f.mask_base_offset
      /\ returned' = f.emitted /\ returns' = f.yields /\ ended' = f.done
      /\ sieves'[polled' + 1] = sv
  BY <1>1 DEF Call
<1>3. /\ SieveOK(sv) /\ haystack \in Seq(Byte) /\ case_insensitive \in BOOLEAN
      /\ tier \in S!HardwareTier
  BY DEF InputOK
<1>4. /\ f.offset \in 0..Len(haystack)
      /\ f.current_mask \subseteq 0..(S!MaskWidth(tier) - 1)
      /\ f.next_mask_cache \subseteq 0..(S!MaskWidth(tier) - 1)
      /\ f.mask_base_offset \in Nat
      /\ f.emitted \subseteq Nat /\ f.yields \in Nat /\ f.done \in BOOLEAN
      /\ f.current_mask # {} => f.mask_base_offset + S!MaskWidth(tier) <= f.offset
      /\ f.next_mask_cache # {} =>
             /\ tier \in S!DualTiers
             /\ f.mask_base_offset + half + S!half_stride(tier) = f.offset
      /\ f.done => candidates = {} /\ f.offset = Len(haystack)
      /\ f.emitted \cup (sv.matches \cap candidates) = {m \in sv.matches : m < f.offset}
      /\ \A e \in f.emitted, c \in candidates : e < c
  BY DEF AtRest
<1>5. S!Candidates' = candidates
  BY <1>1, <1>2 DEF S!Candidates
<1>6. S!matches' = sv.matches
  BY <1>1, <1>2, <1>3, SameMatches DEF S!matches, SieveOK
<1>. HIDE DEF candidates, half, sv, f
<1>7. S!TypeOK'
  <2>1. S!Byte = Byte
    BY SamePrefixes
  <2>2. (S!MaskWidth(tier))' = S!MaskWidth(tier)
    BY <1>1
  <2>. QED  BY <1>1, <1>2, <1>3, <1>4, <2>1, <2>2 DEF S!TypeOK, SieveOK
<1>8. S!MaxLenBounds'
  BY <1>2, <1>3, SamePrefixes DEF S!MaxLenBounds, SieveOK, IsMaxLen
<1>9. S!SingleIsDual'
  BY <1>2 DEF S!SingleIsDual
<1>10. S!MaskGeometry'
  BY <1>1, <1>2, <1>4 DEF S!MaskGeometry, half
<1>11. S!Drained'
  BY <1>1, <1>2, <1>4, <1>5 DEF S!Drained
<1>12. S!Frontier'
  BY <1>2, <1>4, <1>5, <1>6 DEF S!Frontier
<1>. QED  BY <1>7, <1>8, <1>9, <1>10, <1>11, <1>12 DEF S!IInv

(* When its next() returns, the running sieve is at rest again.            *)
LEMMA ReturnedSieve ==
    ASSUME InputOK, polled \in SieveIndex, S!IInv
    PROVE  AtRest(polled, Left)
<1>1. S!matches = sieves[polled + 1].matches
  BY MatchesOfRunning
<1>2. S!Candidates = {mask_base_offset + b : b \in current_mask}
         \cup {mask_base_offset + S!half_block_stride(tier) + b : b \in next_mask_cache}
  BY DEF S!Candidates
<1>3. /\ Left.offset = offset /\ Left.current_mask = current_mask
      /\ Left.next_mask_cache = next_mask_cache
      /\ Left.mask_base_offset = mask_base_offset
      /\ Left.emitted = returned /\ Left.yields = returns /\ Left.done = ended
  BY DEF Left
<1>4. /\ offset \in 0..Len(haystack)
      /\ current_mask \subseteq 0..(S!MaskWidth(tier) - 1)
      /\ next_mask_cache \subseteq 0..(S!MaskWidth(tier) - 1)
      /\ mask_base_offset \in Nat
      /\ returned \subseteq Nat /\ returns \in Nat /\ ended \in BOOLEAN
  BY DEF S!IInv, S!TypeOK
<1>5. /\ current_mask # {} => mask_base_offset + S!MaskWidth(tier) <= offset
      /\ next_mask_cache # {} =>
             /\ tier \in S!DualTiers
             /\ mask_base_offset + S!half_block_stride(tier) + S!half_stride(tier) = offset
  BY DEF S!IInv, S!MaskGeometry
<1>6. ended => S!Candidates = {} /\ offset = Len(haystack)
  BY DEF S!IInv, S!Drained
<1>7. /\ returned \cup (S!matches \cap S!Candidates) = {m \in S!matches : m < offset}
      /\ \A e \in returned, c \in S!Candidates : e < c
  BY DEF S!IInv, S!Frontier
<1>. DEFINE f == Left
            found == sieves[polled + 1].matches
            candidates == {f.mask_base_offset + b : b \in f.current_mask}
                \cup {f.mask_base_offset + S!half_block_stride(tier) + b : b \in f.next_mask_cache}
<1>8. candidates = S!Candidates /\ found = S!matches
  BY <1>1, <1>2, <1>3
<1>9. /\ f.done => candidates = {} /\ f.offset = Len(haystack)
      /\ f.emitted \cup (found \cap candidates) = {m \in found : m < f.offset}
      /\ \A e \in f.emitted, c \in candidates : e < c
  <2>. HIDE DEF candidates, found
  <2>. QED  BY <1>3, <1>6, <1>7, <1>8
<1>10. /\ f.offset \in 0..Len(haystack)
       /\ f.current_mask \subseteq 0..(S!MaskWidth(tier) - 1)
       /\ f.next_mask_cache \subseteq 0..(S!MaskWidth(tier) - 1)
       /\ f.mask_base_offset \in Nat
       /\ f.emitted \subseteq Nat /\ f.yields \in Nat /\ f.done \in BOOLEAN
       /\ f.current_mask # {} => f.mask_base_offset + S!MaskWidth(tier) <= f.offset
       /\ f.next_mask_cache # {} =>
              /\ tier \in S!DualTiers
              /\ f.mask_base_offset + S!half_block_stride(tier) + S!half_stride(tier) = f.offset
  BY <1>3, <1>4, <1>5
<1>. HIDE DEF f
<1>. QED  BY <1>9, <1>10, Zenon DEF AtRest, f

-----------------------------------------------------------------------------
(* The matches of a sieve are offsets into the haystack.                   *)
LEMMA SoughtAreOffsets ==
    ASSUME InputOK, NEW s \in SieveIndex
    PROVE  Len(haystack) \in Nat /\ sieves[s + 1].matches \subseteq 0..(Len(haystack) - 1)
  BY LenProperties DEF InputOK, SieveOK, Matches

(* The merge does not see what leaves its fields alone.                    *)
LEMMA Unseen ==
    ASSUME UNCHANGED <<input, merge>>
    PROVE  /\ UNCHANGED M!vars
           /\ parked' = parked /\ held' = held /\ pc' = pc /\ primed' = primed
           /\ \A e : M!Selected(e) => M!Selected(e)'
<1>1. /\ sieves' = sieves /\ sieve_count' = sieve_count /\ SieveIndex' = SieveIndex
      /\ parked' = parked /\ primed' = primed /\ held' = held
      /\ last_yielded' = last_yielded /\ emitted' = emitted /\ yields' = yields
      /\ done' = done /\ pc' = pc
  BY DEF input, merge, sieve_count, SieveIndex
<1>2. UNCHANGED M!vars
  BY <1>1 DEF M!vars, M!sieves
<1>3. \A e : M!Selected(e) => M!Selected(e)'
  BY <1>1 DEF M!Selected, M!LeastOfTwo, M!LeastOfThree, M!LeastOfHeap
<1>. QED  BY <1>1, <1>2, <1>3

(* A sieve at rest stays so while others run.                              *)
LEMMA StaysAtRest ==
    ASSUME InputOK, UNCHANGED input, NEW s, NEW f, AtRest(s, f)
    PROVE  AtRest(s, f)'
<1>1. haystack' = haystack /\ tier' = tier /\ sieves' = sieves
  BY SameInput
<1>2. /\ (S!MaskWidth(tier))' = S!MaskWidth(tier)
      /\ (S!half_block_stride(tier))' = S!half_block_stride(tier)
      /\ (S!half_stride(tier))' = S!half_stride(tier)
  BY <1>1
<1>. QED  BY <1>1, <1>2 DEF AtRest

LEMMA StillWaiting ==
    ASSUME InputOK, Waiting, UNCHANGED input, parked' = parked
    PROVE  Waiting'
<1>1. SieveIndex' = SieveIndex
  BY SameInput
<1>2. ASSUME NEW s \in SieveIndex PROVE AtRest(s, parked[s])'
  <2>1. PICK f : f = parked[s]
    OBVIOUS
  <2>2. AtRest(s, f)'
    BY <2>1, StaysAtRest DEF Waiting
  <2>. QED  BY <2>1, <2>2
<1>. QED  BY <1>1, <1>2 DEF Waiting

(* A step of the running sieve: its invariant is preserved, and a return   *)
(* is with its least match left.                                           *)
LEMMA SieveStepKeepsIInv ==
    ASSUME IInv, SieveStep
    PROVE  IInv' /\ UNCHANGED M!vars
<1>. DEFINE before == parked[polled].emitted
            found == sieves[polled + 1].matches
<1>1. /\ polled # -1 /\ polled' = polled /\ sieve_pc # "idle"
      /\ UNCHANGED <<input, merge>> /\ S!Step
  BY SameStep DEF SieveStep
<1>2. /\ InputOK' /\ tier' = tier /\ haystack' = haystack
      /\ sieves' = sieves /\ SieveIndex' = SieveIndex
  BY <1>1, SameInput DEF IInv
<1>3. /\ UNCHANGED M!vars
      /\ parked' = parked /\ held' = held /\ pc' = pc /\ primed' = primed
      /\ \A e : M!Selected(e) => M!Selected(e)'
  BY <1>1, Unseen
<1>4. /\ polled \in SieveIndex /\ S!IInv /\ returned = before
      /\ pc = "new" => polled = primed
      /\ pc # "new" => /\ pc = "loop"
                       /\ \E e \in held : e.sieve_index = polled /\ M!Selected(e)
  BY <1>1 DEF IInv, Calling
<1>5. S!matches = found
  BY <1>4, MatchesOfRunning DEF IInv
<1>6. S!IInv'
  BY <1>1, <1>4, SieveNext
<1>7. \/ sieve_pc' # "idle" /\ returned' = before
      \/ /\ sieve_pc' = "idle"
         /\ \/ \E i \in found \ before :
                   /\ \A m \in found \ before : i <= m
                   /\ returned' = before \cup {i}
            \/ found = before /\ returned' = before
  <2>1. \/ sieve_pc' # "idle" /\ UNCHANGED <<returned, returns, ended>>
        \/ /\ sieve_pc' = "idle" /\ ~ended /\ returns' = returns + 1 /\ UNCHANGED ended
           /\ \E i \in S!matches :
                 /\ \A e \in returned : e < i
                 /\ \A m \in S!matches : m < i => m \in returned
                 /\ returned' = returned \cup {i}
        \/ /\ sieve_pc' = "idle" /\ S!matches = returned /\ ended' = TRUE
           /\ UNCHANGED <<returned, returns>>
    BY <1>1, <1>4, SieveAssumptions, S!StepAnswers
  <2>2. ASSUME NEW i \in found, \A e \in before : e < i,
               \A m \in found : m < i => m \in before
        PROVE  i \notin before /\ \A m \in found \ before : i <= m
    <3>1. found \subseteq Nat
      BY <1>4, SoughtAreOffsets DEF IInv
    <3>. QED  BY <2>2, <3>1
  <2>. QED  BY <1>4, <1>5, <2>1, <2>2
<1>8. Calling'
  BY <1>1, <1>2, <1>3, <1>4, <1>6, <1>7 DEF Calling
<1>9. Waiting'
  BY <1>1, <1>3, StillWaiting DEF IInv, input
<1>10. M!IInv'
  BY <1>3, MergeNext DEF IInv
<1>. QED  BY <1>2, <1>3, <1>8, <1>9, <1>10 DEF IInv

(* A call of next() of sieve s.                                            *)
LEMMA CallKeepsIInv ==
    ASSUME IInv, NEW s \in SieveIndex, Call(s),
           pc = "new" => s = primed,
           pc # "new" => /\ pc = "loop"
                         /\ \E e \in held : e.sieve_index = s /\ M!Selected(e)
    PROVE  IInv' /\ UNCHANGED M!vars
<1>1. /\ polled' = s /\ sieve_pc' = "loop" /\ returned' = parked[s].emitted
      /\ UNCHANGED <<input, merge>>
  BY DEF Call
<1>2. /\ InputOK' /\ tier' = tier /\ haystack' = haystack
      /\ sieves' = sieves /\ SieveIndex' = SieveIndex
  BY <1>1, SameInput DEF IInv
<1>3. /\ UNCHANGED M!vars
      /\ parked' = parked /\ held' = held /\ pc' = pc /\ primed' = primed
      /\ \A e : M!Selected(e) => M!Selected(e)'
  BY <1>1, Unseen
<1>4. S!IInv'
  BY CalledSieve DEF IInv, Waiting
<1>5. Calling'
  BY <1>1, <1>2, <1>3, <1>4 DEF Calling
<1>6. Waiting'
  BY <1>1, <1>3, StillWaiting DEF IInv, input
<1>7. M!IInv'
  BY <1>3, MergeNext DEF IInv
<1>. QED  BY <1>2, <1>3, <1>5, <1>6, <1>7 DEF IInv

-----------------------------------------------------------------------------
(* What a sieve returns at the end of a call is what the merge draws.      *)
LEMMA ReturnIsRefill ==
    ASSUME IInv, NEW rest, ReturnWith(rest)
    PROVE  /\ polled \in SieveIndex
           /\ M!Refill(polled, rest)
           /\ UNCHANGED M!sieves
           /\ InputOK' /\ Waiting' /\ polled' = -1
<1>. DEFINE before == parked[polled].emitted
            found == sieves[polled + 1].matches
            drawn == [s \in SieveIndex |-> parked[s].emitted]
<1>1. /\ polled # -1 /\ sieve_pc = "idle"
      /\ parked' = [parked EXCEPT ![polled] = Left]
      /\ held' = rest \cup Answer /\ polled' = -1
      /\ UNCHANGED <<input, fields>>
  BY DEF ReturnWith
<1>2. /\ InputOK' /\ tier' = tier /\ haystack' = haystack
      /\ sieves' = sieves /\ SieveIndex' = SieveIndex /\ sieve_count' = sieve_count
  BY <1>1, SameInput DEF IInv
<1>3. /\ polled \in SieveIndex /\ S!IInv
      /\ \/ \E i \in found \ before :
                /\ \A m \in found \ before : i <= m
                /\ returned = before \cup {i}
         \/ found = before /\ returned = before
  BY <1>1 DEF IInv, Calling
<1>4. /\ parked = [s \in SieveIndex |-> parked[s]]
      /\ parked' = [s \in SieveIndex |-> parked'[s]]
      /\ parked'[polled] = Left
      /\ \A s \in SieveIndex \ {polled} : parked'[s] = parked[s]
      /\ Left.emitted = returned
  BY <1>1, <1>3 DEF IInv, Waiting, Left
<1>5. Waiting'
  <2>1. ASSUME NEW s \in SieveIndex PROVE AtRest(s, parked[s])'
    <3>1. PICK f : f = parked'[s]
      OBVIOUS
    <3>2. AtRest(s, f)
      <4>1. CASE s = polled
        BY <1>3, <1>4, <3>1, <4>1, ReturnedSieve DEF IInv
      <4>2. CASE s # polled
        BY <1>4, <3>1, <4>2 DEF IInv, Waiting
      <4>. QED  BY <4>1, <4>2
    <3>3. AtRest(s, f)'
      BY <1>1, <3>2, StaysAtRest DEF IInv
    <3>. QED  BY <3>1, <3>3
  <2>. QED  BY <1>2, <1>4, <2>1 DEF Waiting
<1>6. drawn' = [drawn EXCEPT ![polled] = returned] /\ drawn[polled] = before
  BY <1>2, <1>3, <1>4
<1>7. M!Left(polled) = found \ before
  BY <1>3 DEF M!Left
<1>8. M!Refill(polled, rest)
  <2>1. CASE found = before /\ returned = before
    <3>1. Answer = {} /\ M!Left(polled) = {} /\ drawn' = drawn
      BY <1>6, <1>7, <2>1 DEF Answer
    <3>. QED  BY <1>1, <3>1 DEF M!Refill
  <2>2. ASSUME NEW i \in found \ before, \A m \in found \ before : i <= m,
               returned = before \cup {i}
        PROVE  M!Refill(polled, rest)
    <3>1. Answer = {[position |-> i, sieve_index |-> polled]}
      BY <2>2 DEF Answer
    <3>2. i \in M!Left(polled) /\ M!NextOf(polled, i)
      BY <1>7, <2>2 DEF M!NextOf
    <3>3. drawn' = [drawn EXCEPT ![polled] = @ \cup {i}]
      BY <1>6, <2>2
    <3>. QED  BY <1>1, <3>1, <3>2, <3>3 DEF M!Refill
  <2>. QED  BY <1>3, <2>1, <2>2
<1>9. UNCHANGED M!sieves
  BY <1>2 DEF M!sieves
<1>. QED  BY <1>1, <1>2, <1>3, <1>5, <1>8, <1>9

(* new() gets its answer from a sieve.                                     *)
LEMMA PrimeReturnIsPrime ==
    ASSUME IInv, PrimeReturn
    PROVE  IInv' /\ M!Prime
<1>1. /\ pc = "new" /\ ReturnWith(held) /\ primed' = primed + 1
      /\ UNCHANGED <<last_yielded, emitted, yields, done, pc>>
  BY DEF PrimeReturn
<1>2. /\ polled \in SieveIndex /\ M!Refill(polled, held) /\ UNCHANGED M!sieves
      /\ InputOK' /\ Waiting' /\ polled' = -1
  <2>1. PICK rest : rest = held
    OBVIOUS
  <2>2. ReturnWith(rest)
    BY <1>1, <2>1 DEF ReturnWith
  <2>3. /\ polled \in SieveIndex /\ M!Refill(polled, rest) /\ UNCHANGED M!sieves
        /\ InputOK' /\ Waiting' /\ polled' = -1
    BY <2>2, ReturnIsRefill
  <2>. QED  BY <2>1, <2>3 DEF M!Refill
<1>3. polled = primed /\ primed < sieve_count
  <2>1. polled # -1 /\ sieve_count \in Nat
    BY <1>1 DEF ReturnWith, IInv, InputOK
  <2>. QED  BY <1>1, <1>2, <2>1 DEF IInv, Calling, SieveIndex
<1>4. M!Refill(primed, held)
  BY <1>2, <1>3
<1>5. M!Prime
  BY <1>1, <1>2, <1>3, <1>4 DEF M!Prime
<1>6. M!IInv'
  BY <1>5, MergeNext DEF IInv, M!Next, M!Step
<1>7. Calling'
  BY <1>2 DEF Calling
<1>. QED  BY <1>2, <1>5, <1>6, <1>7 DEF IInv

(* A turn of the merge gets its answer: the entry whose sieve was polled   *)
(* is the one selected, as it is the only entry of that sieve.             *)
LEMMA MergeReturnIsMergeStep ==
    ASSUME IInv, MergeReturn
    PROVE  IInv' /\ M!MergeStep
<1>1. PICK entry \in held :
          /\ entry.sieve_index = polled
          /\ ReturnWith(held \ {entry})
          /\ IF M!IsRepeat(entry.position)
             THEN UNCHANGED <<last_yielded, emitted, yields, pc>>
             ELSE /\ last_yielded' = entry.position
                  /\ emitted' = emitted \cup {entry.position}
                  /\ yields' = yields + 1
                  /\ pc' = "idle"
  BY DEF MergeReturn, M!IsRepeat, Merge!IsRepeat
<1>2. /\ polled \in SieveIndex /\ M!Refill(polled, held \ {entry}) /\ UNCHANGED M!sieves
      /\ InputOK' /\ Waiting' /\ polled' = -1
  <2>1. PICK rest : rest = held \ {entry}
    OBVIOUS
  <2>2. ReturnWith(rest)
    BY <1>1, <2>1 DEF ReturnWith
  <2>3. /\ polled \in SieveIndex /\ M!Refill(polled, rest) /\ UNCHANGED M!sieves
        /\ InputOK' /\ Waiting' /\ polled' = -1
    BY <2>2, ReturnIsRefill
  <2>. QED  BY <2>1, <2>3 DEF M!Refill
<1>3. pc = "loop" /\ UNCHANGED <<primed, done>>
  BY DEF MergeReturn
<1>4. M!Selected(entry)
  <2>1. PICK e \in held : e.sieve_index = polled /\ M!Selected(e)
    <3>1. polled # -1
      BY <1>1 DEF ReturnWith
    <3>. QED  BY <1>3, <3>1 DEF IInv, Calling
  <2>2. \A f, g \in held : f.sieve_index = polled /\ g.sieve_index = polled => f = g
    BY <1>2 DEF IInv, M!IInv, M!OneHeadPerSieve, SieveIndex
  <2>. QED  BY <1>1, <2>1, <2>2
<1>5. M!Refill(entry.sieve_index, held \ {entry})
  BY <1>1, <1>2
<1>6. M!MergeStep
  BY <1>1, <1>2, <1>3, <1>4, <1>5 DEF M!MergeStep
<1>7. M!IInv'
  BY <1>6, MergeNext DEF IInv, M!Next, M!Step
<1>8. Calling'
  BY <1>2 DEF Calling
<1>. QED  BY <1>2, <1>6, <1>7, <1>8 DEF IInv

(* The steps of the merge alone.                                           *)
LEMMA ControlKeepsIInv ==
    ASSUME IInv, Constructed \/ Poll \/ Exhausted
    PROVE  IInv' /\ M!Next
<1>1. /\ UNCHANGED <<input, polled, fields, parked, primed, held, last_yielded, emitted, yields>>
      /\ UNCHANGED done \/ Exhausted
  BY DEF Constructed, Poll, Exhausted
<1>2. InputOK' /\ Waiting'
  BY <1>1, SameInput, StillWaiting DEF IInv
<1>3. polled = -1
  <2>1. CASE Constructed
    <3>1. pc = "new" /\ primed = sieve_count
      BY <2>1 DEF Constructed
    <3>. QED  BY <3>1 DEF IInv, InputOK, Calling, SieveIndex
  <2>2. CASE Poll
    BY <2>2 DEF Poll, IInv, Calling
  <2>3. CASE Exhausted
    BY <2>3 DEF Exhausted
  <2>. QED  BY <2>1, <2>2, <2>3
<1>4. Calling'
  BY <1>1, <1>3 DEF Calling
<1>5. UNCHANGED M!sieves /\ UNCHANGED [s \in SieveIndex |-> parked[s].emitted]
  BY <1>1, SameInput DEF IInv, M!sieves
<1>6. M!Constructed \/ M!Poll \/ M!Exhausted
  BY <1>1, <1>5
     DEF Constructed, Poll, Exhausted, M!Constructed, M!Poll, M!Exhausted
<1>7. M!Next
  BY <1>6 DEF M!Next, M!Step
<1>8. M!IInv'
  BY <1>7, MergeNext DEF IInv
<1>. QED  BY <1>2, <1>4, <1>7, <1>8 DEF IInv

(* So every step preserves the invariant, and is one of the merge over     *)
(* abstract sieves or is invisible to it.                                  *)
LEMMA NextKeepsIInv ==
    ASSUME IInv, [Next]_vars
    PROVE  IInv' /\ [M!Next]_(M!vars)
<1>1. CASE SieveStep
  BY <1>1, SieveStepKeepsIInv
<1>2. CASE PrimeCall
  <2>1. pc = "new" /\ primed < sieve_count /\ Call(primed)
    BY <1>2 DEF PrimeCall
  <2>2. primed \in SieveIndex
    BY <2>1 DEF IInv, InputOK, M!IInv, M!TypeOK, SieveIndex
  <2>. QED  BY <2>1, <2>2, CallKeepsIInv
<1>3. CASE PrimeReturn
  BY <1>3, PrimeReturnIsPrime DEF M!Next, M!Step
<1>4. CASE MergeCall
  <2>1. PICK entry \in held : Merge!Selected(entry) /\ Call(entry.sieve_index)
    BY <1>4 DEF MergeCall
  <2>2. pc = "loop" /\ M!Selected(entry) /\ entry.sieve_index \in SieveIndex
    BY <1>4, <2>1, SameMerge DEF MergeCall, IInv, M!IInv, M!TypeOK, M!HeapEntry, SieveIndex
  <2>3. PICK s \in SieveIndex : s = entry.sieve_index
    BY <2>2
  <2>4. Call(s)
    BY <2>1, <2>3
  <2>. QED  BY <2>2, <2>3, <2>4, CallKeepsIInv
<1>5. CASE MergeReturn
  BY <1>5, MergeReturnIsMergeStep DEF M!Next, M!Step
<1>6. CASE Constructed \/ Poll \/ Exhausted
  BY <1>6, ControlKeepsIInv
<1>7. CASE UNCHANGED vars
  <2>1. /\ UNCHANGED <<input, merge>> /\ polled' = polled /\ UNCHANGED fields
    BY <1>7 DEF vars
  <2>2. /\ InputOK' /\ Waiting' /\ UNCHANGED M!vars /\ M!IInv'
    BY <2>1, SameInput, StillWaiting, Unseen, MergeNext DEF IInv, merge
  <2>3. Calling'
    <3>1. S!IInv => S!IInv'
      <4>1. UNCHANGED S!vars
        BY <2>1, SameInput DEF IInv, input, fields, S!vars, S!config, S!scan
      <4>. QED  BY <4>1, SieveAssumptions, S!NextKeepsIInv
    <3>2. /\ sieves' = sieves /\ SieveIndex' = SieveIndex /\ parked' = parked
          /\ held' = held /\ pc' = pc /\ primed' = primed
          /\ sieve_pc' = sieve_pc /\ returned' = returned
          /\ \A e : M!Selected(e) => M!Selected(e)'
      BY <2>1, SameInput, Unseen DEF IInv, fields
    <3>. QED  BY <2>1, <3>1, <3>2 DEF IInv, Calling
  <2>. QED  BY <2>2, <2>3 DEF IInv
<1>. QED  BY <1>1, <1>2, <1>3, <1>4, <1>5, <1>6, <1>7 DEF Next, Step

-----------------------------------------------------------------------------
(* A MultiSieve starts as a merge of sieves that have returned nothing.    *)
LEMMA InitIInv == ASSUME Init PROVE IInv /\ M!Init
<1>. DEFINE chunks == Chunks(Unique(raw))
<1>1. /\ haystack \in Seq(Byte) /\ case_insensitive \in BOOLEAN
      /\ raw \in RawLists /\ raw \in Seq(Seq(Byte) \ {<<>>})
      /\ tier \in S!HardwareTier
  BY MultiSieveAssumption DEF Init, S!HardwareTier, S!DualTiers
<1>2. /\ Len(chunks) \in Nat /\ DOMAIN chunks = 1..Len(chunks)
  BY <1>1, UniqueFacts, ChunksFacts
<1>3. /\ sieve_count = Len(chunks)
      /\ \A s \in SieveIndex : /\ s + 1 \in DOMAIN chunks
                               /\ sieves[s + 1] = SieveOf(chunks[s + 1])
  <2>1. sieves = [c \in 1..Len(chunks) |-> SieveOf(chunks[c])]
    BY <1>2 DEF Init
  <2>. HIDE DEF chunks
  <2>2. sieves \in Seq({SieveOf(chunks[c]) : c \in 1..Len(chunks)}) /\ Len(sieves) = Len(chunks)
    <3>1. sieves \in [1..Len(chunks) -> {SieveOf(chunks[c]) : c \in 1..Len(chunks)}]
      BY <2>1
    <3>. QED  BY <1>2, <3>1, LenProperties
  <2>3. sieve_count = Len(chunks)
    BY <2>2 DEF sieve_count
  <2>. QED  BY <1>2, <2>1, <2>3 DEF SieveIndex
<1>4. ASSUME NEW c \in DOMAIN chunks PROVE SieveOK(SieveOf(chunks[c]))
  <2>1. chunks[c] \in Seq(Seq(Byte) \ {<<>>}) /\ chunks[c] # <<>>
    BY <1>1, ChunksAreSieves
  <2>. HIDE DEF chunks
  <2>2. \E n \in 1..PREFIX : IsMaxLen(chunks[c], n)
    BY <2>1, MaxLenExists
  <2>. QED  BY <2>1, <2>2 DEF SieveOf, SieveOK
<1>5. matches = UNION {sieves[s + 1].matches : s \in SieveIndex}
  <2>1. matches = UNION {Matches(haystack, chunks[c], case_insensitive) : c \in DOMAIN chunks}
    BY <1>1, MatchesOfChunks DEF Init
  <2>. HIDE DEF chunks
  <2>2. \A s \in SieveIndex : /\ s + 1 \in DOMAIN chunks
             /\ sieves[s + 1].matches = Matches(haystack, chunks[s + 1], case_insensitive)
    <3>1. \A ps : SieveOf(ps).matches = Matches(haystack, ps, case_insensitive)
      BY DEF SieveOf
    <3>. QED  BY <1>3, <3>1
  <2>3. \A c \in DOMAIN chunks : c - 1 \in SieveIndex /\ (c - 1) + 1 = c
    BY <1>2, <1>3 DEF SieveIndex
  <2>. QED  BY <2>1, <2>2, <2>3
<1>6. InputOK
  BY <1>1, <1>2, <1>3, <1>4, <1>5 DEF InputOK
<1>7. Waiting
  <2>1. parked = [s \in SieveIndex |-> Fresh]
    BY DEF Init
  <2>2. ASSUME NEW s \in SieveIndex PROVE AtRest(s, parked[s])
    <3>1. /\ parked[s].offset = 0 /\ parked[s].current_mask = {}
          /\ parked[s].next_mask_cache = {} /\ parked[s].mask_base_offset = 0
          /\ parked[s].emitted = {} /\ parked[s].yields = 0 /\ parked[s].done = FALSE
      BY <2>1 DEF Fresh
    <3>2. \A m \in sieves[s + 1].matches : ~(m < 0)
      BY <1>6, SoughtAreOffsets
    <3>3. Len(haystack) \in Nat
      BY <1>1, LenProperties
    <3>. DEFINE f == parked[s]
                found == sieves[s + 1].matches
                half == S!half_block_stride(tier)
                candidates == {f.mask_base_offset + b : b \in f.current_mask}
                                 \cup {f.mask_base_offset + half + b : b \in f.next_mask_cache}
    <3>4. candidates = {}
      BY <3>1
    <3>5. {m \in found : m < f.offset} = {}
      BY <3>1, <3>2
    <3>. HIDE DEF candidates, found
    <3>6. /\ f.done => candidates = {} /\ f.offset = Len(haystack)
          /\ f.emitted \cup (found \cap candidates) = {m \in found : m < f.offset}
          /\ \A e \in f.emitted, c \in candidates : e < c
      BY <3>1, <3>4, <3>5
    <3>. USE DEF candidates, found
    <3>7. /\ f.offset \in 0..Len(haystack)
          /\ f.current_mask = {} /\ f.next_mask_cache = {}
          /\ f.mask_base_offset \in Nat
          /\ f.emitted \subseteq Nat /\ f.yields \in Nat
      BY <3>1, <3>3
    <3>8. f.done \in BOOLEAN
      BY <3>1, Zenon
    <3>. HIDE DEF f
    <3>. QED  BY <3>6, <3>7, <3>8, Zenon DEF AtRest, f
  <2>. QED  BY <2>1, <2>2 DEF Waiting
<1>8. Calling
  BY DEF Init, Calling
<1>9. M!Init
  <2>1. [s \in SieveIndex |-> parked[s].emitted] = [s \in 0..(sieve_count - 1) |-> {}]
    BY DEF Init, Fresh, SieveIndex
  <2>2. \A s \in SieveIndex : sieves[s + 1].matches \subseteq Nat
    BY <1>6, SoughtAreOffsets
  <2>3. [s \in SieveIndex |-> sieves[s + 1].matches] \in [0..(sieve_count - 1) -> SUBSET Nat]
    BY <2>2 DEF SieveIndex
  <2>. QED  BY <1>6, <2>1, <2>3 DEF Init, M!Init, InputOK
<1>10. M!IInv
  BY <1>9, MergeAssumptions, M!InitIInv
<1>. QED  BY <1>6, <1>7, <1>8, <1>9, <1>10 DEF IInv

(* The inductive invariant holds however the calls interleave.             *)
THEOREM Invariance == CollectSpec => []IInv
<1>1. Init => IInv
  BY InitIInv
<1>2. IInv /\ [Next]_vars => IInv'
  BY NextKeepsIInv
<1>. QED  BY <1>1, <1>2, PTL DEF CollectSpec

(* Every variable keeps its type, and no sieve, running or waiting, leaves *)
(* the haystack.                                                           *)
THEOREM TypeCorrect == CollectSpec => []TypeOK
<1>1. ASSUME IInv PROVE TypeOK
  <2>1. Len(haystack) \in Nat /\ sieve_count \in Nat
        /\ \A s \in SieveIndex : sieves[s + 1].matches \subseteq 0..(Len(haystack) - 1)
    BY <1>1, SoughtAreOffsets, LenProperties DEF IInv, InputOK
  <2>2. polled \in SieveIndex \cup {-1}
    BY <1>1 DEF IInv, Calling
  <2>3. polled # -1 => Sieve!TypeOK
    <3>1. polled # -1 => S!TypeOK
      BY <1>1 DEF IInv, Calling, S!IInv
    <3>. QED
      BY <3>1 DEF S!TypeOK, Sieve!TypeOK, S!Byte, Sieve!Byte, S!HardwareTier,
                  Sieve!HardwareTier, S!DualTiers, Sieve!DualTiers, S!MaskWidth,
                  Sieve!MaskWidth, S!half_stride, Sieve!half_stride, S!ScalarBlock,
                  Sieve!ScalarBlock
  <2>4. ASSUME NEW s \in SieveIndex
        PROVE  /\ parked[s].offset \in 0..Len(haystack)
               /\ parked[s].emitted \subseteq 0..(Len(haystack) - 1)
    <3>1. AtRest(s, parked[s])
      BY <1>1 DEF IInv, Waiting
    <3>. QED  BY <2>1, <3>1 DEF AtRest
  <2>5. held \subseteq [position : 0..(Len(haystack) - 1), sieve_index : SieveIndex]
    <3>. SUFFICES ASSUME NEW e \in held
                  PROVE  e \in [position : 0..(Len(haystack) - 1), sieve_index : SieveIndex]
      OBVIOUS
    <3>1. e \in [position : Nat, sieve_index : SieveIndex]
      BY <1>1 DEF IInv, M!IInv, M!TypeOK, M!HeapEntry, SieveIndex
    <3>2. e.position \in sieves[e.sieve_index + 1].matches
      BY <1>1, <3>1 DEF IInv, M!IInv, M!OneHeadPerSieve, SieveIndex
    <3>. QED  BY <2>1, <3>1, <3>2
  <2>6. last_yielded \in -1..(Len(haystack) - 1)
    <3>1. last_yielded \in emitted \cup {-1} /\ emitted \subseteq M!matches
      BY <1>1 DEF IInv, M!IInv, M!MergeFrontier
    <3>2. M!matches \subseteq 0..(Len(haystack) - 1)
      BY <2>1 DEF M!matches, SieveIndex
    <3>. QED  BY <2>1, <3>1, <3>2
  <2>7. primed \in 0..sieve_count /\ pc \in {"new", "idle", "loop"}
    BY <1>1 DEF IInv, M!IInv, M!TypeOK
  <2>. QED  BY <2>2, <2>3, <2>4, <2>5, <2>6, <2>7 DEF TypeOK
<1>. QED  BY <1>1, Invariance, PTL

(* Real sieves, stepped while the others wait with blocks half looked at,  *)
(* are to the merge what it assumes of them: a MultiSieve implements the   *)
(* merge over abstract sieves.                                             *)
THEOREM SievesAreStreams == CollectSpec => MergeSpec
<1>1. Init => Merge!Init
  <2>. SUFFICES ASSUME Init PROVE Merge!Init
    OBVIOUS
  <2>1. M!Init
    BY InitIInv
  <2>. QED  BY <2>1, SameMerge
<1>2. IInv /\ [Next]_vars => [Merge!Next]_(Merge!vars)
  <2>. SUFFICES ASSUME IInv, [Next]_vars PROVE [Merge!Next]_(Merge!vars)
    OBVIOUS
  <2>1. M!Next \/ UNCHANGED M!vars
    BY NextKeepsIInv
  <2>2. UNCHANGED M!vars => UNCHANGED Merge!vars
    BY DEF M!vars, Merge!vars, M!sieves, Merge!sieves
  <2>. QED  BY <2>1, <2>2, SameMerge
<1>. QED  BY <1>1, <1>2, Invariance, PTL DEF CollectSpec, MergeSpec, Merge!SafeSpec

(* The caller of a MultiSieve gets every match of its list, repeated       *)
(* patterns and all, in ascending order, each offset once, and None for    *)
(* ever after the last, for lists of any length on any tier.               *)
THEOREM MultiSieveImplementsStream == CollectSpec => StreamSpec
<1>1. Init => Stream!Init
  <2>. SUFFICES ASSUME Init PROVE Stream!Init
    OBVIOUS
  <2>1. matches \subseteq Nat
    BY InitIInv, SoughtAreOffsets DEF IInv, InputOK
  <2>. QED  BY <2>1 DEF Init, Stream!Init
<1>2. IInv /\ [Next]_vars => [Stream!Next]_(Stream!vars)
  <2>. SUFFICES ASSUME IInv, [Next]_vars PROVE [Stream!Next]_(Stream!vars)
    OBVIOUS
  <2>1. [M!Next]_(M!vars) /\ M!IInv /\ IInv'
    BY NextKeepsIInv DEF IInv
  <2>2. [M!Stream!Next]_(M!Stream!vars)
    BY <2>1, MergeAssumptions, M!StepImplements
  <2>3. matches = M!matches /\ matches' = M!matches'
    BY <2>1 DEF IInv, InputOK, M!matches, SieveIndex
  <2>. QED
    BY <2>2, <2>3
       DEF Stream!Next, Stream!vars, Stream!Emit, Stream!Exhaust,
           M!Stream!Next, M!Stream!vars, M!Stream!Emit, M!Stream!Exhaust
<1>. QED  BY <1>1, <1>2, Invariance, PTL DEF CollectSpec, StreamSpec, Stream!Spec
=============================================================================
