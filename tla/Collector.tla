----------------------------- MODULE Collector ------------------------------
(***************************************************************************)
(* src/src/sieve/collector.rs: SimdSieve as an Iterator.  next() drains    *)
(* the candidate masks, verifies each candidate, fetches more blocks when  *)
(* both masks are empty and finishes with a byte-by-byte tail scan.        *)
(*                                                                         *)
(* A call of next() is not atomic here: every turn of its loops is a step, *)
(* so that a step can be wrong about what the one before it left behind    *)
(* (the fields survive from one call to the next).  pc is "idle" between   *)
(* two calls, "loop" at the head of next()'s loop, "pump" or "single"      *)
(* inside fetch_next_chunk and "tail" in the tail scan.                    *)
(***************************************************************************)
EXTENDS Dispatch, PatternSets, FiniteSets

CONSTANTS
    Haystacks,      (* the haystacks a sieve may be built over             *)
    PatternLists    (* the deduplicated pattern lists it may be built with *)

ASSUME InputAssumption ==
    /\ Haystacks \subseteq Seq(Byte)
    /\ PatternLists \subseteq Seq(Seq(Byte) \ {<<>>})
    /\ \A ps \in PatternLists : Len(ps) \in 1..MAX_PATTERNS

VARIABLES
    emitted,    (* every offset next() has returned so far  *)
    yields,     (* how many times it has returned one       *)
    done        (* next() has returned None at least once   *)

vars == <<config, scan, pc, emitted, yields, done>>

matches == Matches(haystack, patterns, case_insensitive)

(* The haystack offsets the two masks still hold. *)
Candidates ==
    {mask_base_offset + b : b \in current_mask}
        \cup {mask_base_offset + half_block_stride(tier) + b : b \in next_mask_cache}

-----------------------------------------------------------------------------
(* A freshly built sieve, of a tier the processor has. *)
Init ==
    /\ haystack \in Haystacks
    /\ patterns \in PatternLists
    /\ case_insensitive \in BOOLEAN
    /\ tier \in HardwareTier
    /\ max_len \in 1..PREFIX
    /\ IsMaxLen(patterns, max_len)
    /\ ScanStart
    /\ pc = "idle"
    /\ emitted = {}
    /\ yields = 0
    /\ done = FALSE

(* The caller calls next(), whether or not it has returned None before. *)
Poll ==
    /\ pc = "idle"
    /\ pc' = "loop"
    /\ UNCHANGED <<config, scan, emitted, yields, done>>

(* A bug to catch: the highest bit first. *)
HighestBit(mask, b) == b \in mask /\ \A c \in mask : c <= b

(* mask.trailing_zeros() = b *)
LowestBit(mask, b) == b \in mask /\ \A c \in mask : b <= c

(* A bug to catch: the bit looked at stays set. *)
KeepLowest(mask, b) == mask

(* mask & (mask - 1), where b is the lowest bit of mask. *)
ClearLowest(mask, b) == mask \ {b}

(* next() returns Some(i). *)
Yield(i) ==
    /\ emitted' = emitted \cup {i}
    /\ yields' = yields + 1
    /\ pc' = "idle"

ConsumeBit ==
    /\ pc = "loop"
    /\ \E trailing \in current_mask :
          LET potential_idx == mask_base_offset + trailing
          IN  /\ LowestBit(current_mask, trailing)
              /\ current_mask' = ClearLowest(current_mask, trailing)
              /\ IF MatchAt(haystack, patterns, case_insensitive, potential_idx)
                 THEN Yield(potential_idx)
                 ELSE UNCHANGED <<emitted, yields, pc>>
    /\ UNCHANGED <<config, offset, next_mask_cache, mask_base_offset, done>>

(* A bug to catch: the second half keeps the base of the first. *)
SwitchHalf_SameBase ==
    /\ pc = "loop"
    /\ current_mask = {}
    /\ next_mask_cache # {}
    /\ current_mask' = next_mask_cache
    /\ next_mask_cache' = {}
    /\ UNCHANGED <<config, offset, mask_base_offset, pc, emitted, yields, done>>

(* A bug to catch: the cache is not cleared. *)
SwitchHalf_CacheKept ==
    /\ pc = "loop"
    /\ current_mask = {}
    /\ next_mask_cache # {}
    /\ current_mask' = next_mask_cache
    /\ mask_base_offset' = mask_base_offset + half_block_stride(tier)
    /\ UNCHANGED <<config, offset, next_mask_cache, pc, emitted, yields, done>>

(* Go on with the cached second half. *)
SwitchHalf ==
    /\ pc = "loop"
    /\ current_mask = {}
    /\ next_mask_cache # {}
    /\ current_mask' = next_mask_cache
    /\ next_mask_cache' = {}
    /\ mask_base_offset' = mask_base_offset + half_block_stride(tier)
    /\ UNCHANGED <<config, offset, pc, emitted, yields, done>>

(* A bug to catch: a new block is fetched while the second half waits. *)
FetchCall_CacheIgnored ==
    /\ pc = "loop"
    /\ current_mask = {}
    /\ pc' = "pump"
    /\ UNCHANGED <<config, scan, emitted, yields, done>>

(* Call fetch_next_chunk. *)
FetchCall ==
    /\ pc = "loop"
    /\ current_mask = {}
    /\ next_mask_cache = {}
    /\ pc' = "pump"
    /\ UNCHANGED <<config, scan, emitted, yields, done>>

FetchStep == fetch_next_chunk /\ UNCHANGED <<emitted, yields, done>>

(* A bug to catch: one iteration too many. *)
TailLeft_Inclusive == offset <= Len(haystack)

(* The bound of the tail scan. *)
TailLeft == offset < Len(haystack)

TailStep ==
    /\ pc = "tail"
    /\ TailLeft
    /\ offset' = offset + 1
    /\ IF MatchAt(haystack, patterns, case_insensitive, offset)
       THEN Yield(offset)
       ELSE UNCHANGED <<emitted, yields, pc>>
    /\ UNCHANGED <<config, current_mask, next_mask_cache, mask_base_offset, done>>

(* next() returns None. *)
Finish ==
    /\ pc = "tail"
    /\ ~TailLeft
    /\ done' = TRUE
    /\ pc' = "idle"
    /\ UNCHANGED <<config, scan, emitted, yields>>

(* A step of a call of next() that is under way. *)
Step == ConsumeBit \/ SwitchHalf \/ FetchCall \/ FetchStep \/ TailStep \/ Finish

Next == Poll \/ Step

(* A call that is under way keeps running; nobody has to make another. *)
Spec == Init /\ [][Next]_vars /\ WF_vars(Step)

(* A caller that polls until None, as collect() and a for loop do. *)
CollectSpec == Spec /\ WF_vars(Poll)

(* The upper bound size_hint() reports: len.saturating_sub(offset). *)
size_hint_upper ==
    IF offset <= Len(haystack) THEN Len(haystack) - offset ELSE 0

-----------------------------------------------------------------------------
(* Every field is in the range its Rust type and use allow: the scan never *)
(* runs past the haystack and a mask holds no bit beyond its width.        *)
TypeOK ==
    /\ haystack \in Seq(Byte)
    /\ patterns \in Seq(Seq(Byte) \ {<<>>})
    /\ max_len \in 1..PREFIX
    /\ case_insensitive \in BOOLEAN
    /\ tier \in HardwareTier
    /\ offset \in 0..Len(haystack)
    /\ current_mask \subseteq 0..(MaskWidth(tier) - 1)
    /\ next_mask_cache \subseteq 0..(MaskWidth(tier) - 1)
    /\ mask_base_offset \in Nat
    /\ pc \in {"idle", "loop", "pump", "single", "tail"}
    /\ emitted \subseteq Nat
    /\ yields \in Nat
    /\ done \in BOOLEAN

(* Bit positions and haystack offsets agree: current_mask covers bytes the *)
(* scan has consumed, and while the second half is cached, the two halves  *)
(* are exactly the last block fetched.                                     *)
MaskGeometry ==
    /\ current_mask # {} => mask_base_offset + MaskWidth(tier) <= offset
    /\ next_mask_cache # {} =>
          /\ tier \in DualTiers
          /\ mask_base_offset + half_block_stride(tier) + half_stride(tier) = offset

(* Nothing is fetched over candidates not yet looked at, and None is       *)
(* returned only when the haystack is used up.                             *)
Drained ==
    /\ pc \in {"pump", "single", "tail"} \/ done => Candidates = {}
    /\ done => offset = Len(haystack)

(* The sieve loses no match and invents none: the matches before offset    *)
(* are those already returned and those among the candidates, and what was *)
(* returned lies before every candidate.                                   *)
Frontier ==
    /\ emitted \cup (matches \cap Candidates) = {m \in matches : m < offset}
    /\ \A e \in emitted, c \in Candidates : e < c

(* None of the ways next() could panic is reached: it computes             *)
(* haystack.len() - potential_idx only for a candidate inside the          *)
(* haystack, and asks the scalar tier for no half-block stride.            *)
NoPanic ==
    pc = "loop" =>
        /\ \A c \in Candidates : c < Len(haystack)
        /\ next_mask_cache # {} => tier # "Scalar"

(* The sieve yields exactly its matches, ascending, each once, then None   *)
(* for ever (Iterator, FusedIterator), whatever the tier.                  *)
Stream == INSTANCE MatchStream
          WITH matches <- matches, emitted <- emitted, yields <- yields, done <- done
StreamSpec == Stream!Spec

(* A call of next() returns: its loops cannot spin. *)
NextReturns == pc # "idle" ~> pc = "idle"

(* Collecting the iterator ends with every match returned. *)
CollectCompletes == <>[](done /\ emitted = matches)

(* The contract of Iterator, which README.md says SimdSieve implements: at *)
(* no time between two calls are there more offsets to come than the upper *)
(* bound size_hint reports.                                                *)
SizeHintUpperBound ==
    pc = "idle" => Cardinality(matches \ emitted) <= size_hint_upper
=============================================================================
