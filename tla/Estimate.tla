------------------------------ MODULE Estimate ------------------------------
(***************************************************************************)
(* src/src/sieve/mod.rs and compiler.rs: estimate_match_count, the density *)
(* estimate a caller takes before it decides whether to scan.              *)
(*                                                                         *)
(* It looks at the first WINDOW bytes of the haystack.  One sieve's worth  *)
(* of patterns is counted by draining fetch_next_chunk's masks unverified  *)
(* and by two byte-wise tail loops; a longer list is counted by a          *)
(* MultiSieve; a list no sieve can be built from counts as one candidate   *)
(* per byte.                                                               *)
(*                                                                         *)
(* pc: "call", then "pump" / "single" / "loop" (in or back from            *)
(* fetch_next_chunk), "tail", and "done" once result is returned.          *)
(***************************************************************************)
EXTENDS Dispatch, PatternSets, FiniteSets

CONSTANTS
    WINDOW,     (* bytes the estimate looks at: 4096 in the code *)
    Inputs,     (* the haystacks of the callers                  *)
    RawLists    (* and their pattern lists                       *)

ASSUME EstimateAssumption ==
    /\ WINDOW \in Nat
    /\ Inputs \subseteq Seq(Byte)
    /\ RawLists \subseteq Seq(Seq(Byte))

VARIABLES
    compiled,   (* of a CompiledSieve, not of SimdSieve  *)
    raw,        (* the caller's patterns                 *)
    count,      (* global_popcnt                         *)
    result      (* what was returned; -1 until then      *)

vars == <<config, scan, pc, compiled, raw, count, result>>

(* A bug to catch: the window does not cut the haystack. *)
window_Uncut(h) == h

(* haystack[..haystack.len().min(4096)] *)
window(h) == IF Len(h) > WINDOW THEN SubSeq(h, 1, WINDOW) ELSE h

(* Construct shows when a sieve can be built from a list and what of. *)
Buildable(ps) == Len(ps) \in 1..MAX_PATTERNS /\ EmptyAt(ps) = {}

-----------------------------------------------------------------------------
(* A CompiledSieve has been built from its list before the call.           *)
Init ==
    /\ \E input \in Inputs : haystack = window(input)
    /\ raw \in RawLists
    /\ case_insensitive \in BOOLEAN
    /\ tier \in HardwareTier
    /\ compiled \in BOOLEAN
    /\ \/ ~compiled /\ patterns = <<>> /\ max_len = 0
       \/ /\ compiled /\ Buildable(raw)
          /\ patterns = Unique(raw)
          /\ max_len \in 1..PREFIX /\ IsMaxLen(patterns, max_len)
    /\ ScanStart
    /\ pc = "call"
    /\ count = 0
    /\ result = -1

Return(value) ==
    /\ result' = value
    /\ pc' = "done"
    /\ UNCHANGED <<config, scan, compiled, raw, count>>

(* A bug to catch: a list that builds no sieve reported as empty. *)
fail_safe_density_Zero(h) == 0

(* One candidate per scanned byte. *)
fail_safe_density(h) == Len(h)

NoPatterns ==
    /\ pc = "call"
    /\ raw = <<>>
    /\ Return(0)

(* More patterns than one sieve holds: the verified candidates of a        *)
(* MultiSieve over the window, or the fail-safe when it cannot be built.   *)
ManyPatterns ==
    /\ pc = "call"
    /\ Len(raw) > MAX_PATTERNS
    /\ \/ /\ EmptyAt(raw) = {}
          /\ Return(Cardinality(Matches(haystack, Unique(raw), case_insensitive)))
       \/ /\ EmptyAt(raw) # {}
          /\ Return(fail_safe_density(haystack))

BuildFails ==
    /\ pc = "call"
    /\ Len(raw) \in 1..MAX_PATTERNS
    /\ EmptyAt(raw) # {}
    /\ Return(fail_safe_density(haystack))

Build ==
    /\ pc = "call"
    /\ Buildable(raw)
    /\ patterns' = Unique(raw)
    /\ \E n \in 1..PREFIX : IsMaxLen(patterns', n) /\ max_len' = n
    /\ pc' = "pump"
    /\ UNCHANGED <<haystack, case_insensitive, tier, scan, compiled, raw, count, result>>

(* self.scan(haystack) *)
Scan ==
    /\ pc = "call"
    /\ pc' = "pump"
    /\ UNCHANGED <<config, scan, compiled, raw, count, result>>

FetchStep == fetch_next_chunk /\ UNCHANGED <<compiled, raw, count, result>>

(* A bug to catch: the second half counted but left in the cache. *)
CountMasks_CacheKept ==
    /\ pc = "loop"
    /\ count' = count + Cardinality(current_mask) + Cardinality(next_mask_cache)
    /\ current_mask' = {}
    /\ pc' = "pump"
    /\ UNCHANGED <<config, offset, next_mask_cache, mask_base_offset, compiled, raw, result>>

(* fetch_next_chunk returned true: count both halves, clear them, go on.   *)
CountMasks ==
    /\ pc = "loop"
    /\ count' = count + Cardinality(current_mask) + Cardinality(next_mask_cache)
    /\ current_mask' = {}
    /\ next_mask_cache' = {}
    /\ pc' = "pump"
    /\ UNCHANGED <<config, offset, mask_base_offset, compiled, raw, result>>

(* The verifier on the prefix of p and as many haystack bytes.             *)
PrefixVerified(p) ==
    verifier(case_insensitive, Slice(haystack, offset, eval_len(p)),
             Slice(p, 0, eval_len(p)))

(* The bound the second tail loop checks.                                  *)
Fits(p) == offset + eval_len(p) <= Len(haystack)

CountIf(hit) ==
    /\ count' = count + (IF hit THEN 1 ELSE 0)
    /\ UNCHANGED <<config, current_mask, next_mask_cache, mask_base_offset, pc,
                   compiled, raw, result>>

(* A bug to catch: a position without a hit is not passed over. *)
LongTail_Stuck ==
    /\ pc = "tail"
    /\ offset + max_len <= Len(haystack)
    /\ LET hit == \E k \in DOMAIN patterns : PrefixVerified(patterns[k])
       IN  /\ offset' = offset + (IF hit THEN 1 ELSE 0)
           /\ CountIf(hit)

(* The first tail loop: every prefix fits, and no bound is checked.        *)
LongTail ==
    /\ pc = "tail"
    /\ offset + max_len <= Len(haystack)
    /\ offset' = offset + 1
    /\ CountIf(\E k \in DOMAIN patterns : PrefixVerified(patterns[k]))

(* The second: only the shorter prefixes can still fit.                    *)
ShortTail ==
    /\ pc = "tail"
    /\ offset + max_len > Len(haystack)
    /\ offset < Len(haystack)
    /\ offset' = offset + 1
    /\ CountIf(\E k \in DOMAIN patterns : Fits(patterns[k]) /\ PrefixVerified(patterns[k]))

ReturnCount ==
    /\ pc = "tail"
    /\ offset >= Len(haystack)
    /\ Return(count)

(* Both functions count in the same way. *)
Count == FetchStep \/ CountMasks \/ LongTail \/ ShortTail \/ ReturnCount

SimdSieve_estimate_match_count ==
    /\ ~compiled
    /\ NoPatterns \/ ManyPatterns \/ BuildFails \/ Build \/ Count

CompiledSieve_estimate_match_count == compiled /\ (Scan \/ Count)

Next == SimdSieve_estimate_match_count \/ CompiledSieve_estimate_match_count

(* One call, on one thread, runs until it returns.                         *)
Spec == Init /\ [][Next]_vars /\ WF_vars(Next)

-----------------------------------------------------------------------------
HitPositions == {i \in 0..(Len(haystack) - 1) :
                  PrefixAt(haystack, patterns, case_insensitive, i)}

(* Every variable has the type of its field.                               *)
TypeOK ==
    /\ haystack \in Seq(Byte) /\ Len(haystack) <= WINDOW
    /\ raw \in Seq(Seq(Byte))
    /\ patterns \in Seq(Seq(Byte) \ {<<>>})
    /\ max_len \in 0..PREFIX
    /\ case_insensitive \in BOOLEAN
    /\ tier \in HardwareTier
    /\ offset \in 0..Len(haystack)
    /\ current_mask \subseteq 0..(MaskWidth(tier) - 1)
    /\ next_mask_cache \subseteq 0..(MaskWidth(tier) - 1)
    /\ mask_base_offset \in Nat
    /\ pc \in {"call", "pump", "single", "loop", "tail", "done"}
    /\ count \in Nat
    /\ result \in Nat \cup {-1}

(* What is counted and what the masks hold are together the prefix hits of *)
(* the bytes consumed: neither a block, a half of one, nor a tail byte is  *)
(* counted twice or left out, whatever the tier's block sizes.             *)
CountIsExact ==
    count + Cardinality(current_mask) + Cardinality(next_mask_cache)
        = Cardinality({i \in HitPositions : i < offset})

(* Where a non-empty pattern of the caller's list matches. *)
MatchPositions ==
    {i \in 0..(Len(haystack) - 1) :
        \E k \in DOMAIN raw : raw[k] # <<>> /\ PatternAt(haystack, raw[k], case_insensitive, i)}

(* A prefilter that errs only towards scanning: the estimate is at least   *)
(* the number of positions of the window where a non-empty pattern of the  *)
(* caller matches, also when no sieve can be built from the list.          *)
RecallPreserved == result # -1 => result >= Cardinality(MatchPositions)

(* Where the first tail loop compares prefixes without a bound check, they *)
(* all fit: otherwise slicing the haystack would panic.                    *)
LongTailInBounds ==
    pc = "tail" /\ offset + max_len <= Len(haystack) =>
        \A k \in DOMAIN patterns : Fits(patterns[k])

(* The estimate returns.                                                   *)
EstimateReturns == <>(pc = "done")

(* What the tests say of the count (depth_2.rs:182 "not tail-processed     *)
(* bytes", backend_parity.rs:363 "in SIMD blocks only"): the tail loops    *)
(* add nothing to it.                                                      *)
TailNotCounted == [][pc = "tail" => count' = count]_vars
=============================================================================
