---------------------------- MODULE FuzzTargets -----------------------------
(***************************************************************************)
(* src/fuzz/fuzz_targets: the harnesses that run the sieves on random data *)
(* (fuzz_16patterns, fuzz_multi, fuzz_sieve).  Each cuts the data into     *)
(* patterns and a haystack, builds a sieve of them, and asserts of every   *)
(* offset the sieve yields that some pattern is there.                     *)
(*                                                                         *)
(* A harness is there for a sieve that may be wrong, so the sieve here may *)
(* yield any offset: what is checked is that the harness panics on just    *)
(* the wrong ones, and never by its own doing.                             *)
(***************************************************************************)
EXTENDS PatternSets

CONSTANTS
    Data,       (* what the fuzzer may feed *)
    Beyond      (* bound: how far past the haystack an offset may lie *)

ASSUME FuzzAssumption == Data \subseteq Seq(Byte) /\ Beyond \in Nat

VARIABLES
    target, data,
    patterns, haystack,
    offset,             (* the data before it has been cut                 *)
    cut,                (* the last slice taken of data, from and to       *)
    case_insensitive,   (* which of the harness's two sieves               *)
    pos,                (* the offset it has just yielded                  *)
    pc

vars == <<target, data, patterns, haystack, offset, cut, case_insensitive, pos, pc>>

Min2(m, n) == IF m < n THEN m ELSE n
Max2(m, n) == IF m < n THEN n ELSE m

Return == pc' = "returned" /\ UNCHANGED <<target, data, patterns, haystack, offset, cut,
                                         case_insensitive, pos>>

(* What a slice out of bounds would hold does not matter: CutsInBounds.    *)
CutTo(end) ==
    /\ cut' = <<offset, end>>
    /\ offset' = end
    /\ UNCHANGED <<target, data, case_insensitive, pos>>

CutPattern(n) ==
    /\ CutTo(offset + n)
    /\ patterns' = Append(patterns, Slice(data, offset, Min2(n, Len(data) - offset)))
    /\ UNCHANGED <<haystack, pc>>

CutHaystack ==
    /\ CutTo(Len(data))
    /\ haystack' = Slice(data, offset, Len(data) - offset)
    /\ pc' = "new"
    /\ UNCHANGED patterns

-----------------------------------------------------------------------------
Init ==
    /\ target \in {"fuzz_16patterns", "fuzz_multi", "fuzz_sieve"}
    /\ data \in Data
    /\ patterns = <<>> /\ haystack = <<>>
    /\ offset = IF target = "fuzz_multi" THEN 2 ELSE 0
    /\ cut = <<0, 0>>
    /\ case_insensitive = FALSE
    /\ pos = 0
    /\ pc = "cut"

(* MAX_PATTERNS patterns of one byte, the limit of one sieve.              *)
fuzz_16patterns ==
    /\ target = "fuzz_16patterns" /\ pc = "cut"
    /\ \/ Len(data) < MAX_PATTERNS /\ Return
       \/ /\ Len(data) >= MAX_PATTERNS
          /\ IF Len(patterns) < MAX_PATTERNS THEN CutPattern(1) ELSE CutHaystack

(* A bug to catch: no pattern if the byte is a multiple of eight. *)
num_patterns_Zero == data[1] % 8

num_patterns == Max2(data[1] % 8, 1)
base_pat_len == Max2(data[2] % 16, 1)
min_needed == 2 + num_patterns * base_pat_len

(* The second, fourth, ... pattern is one byte longer.                     *)
multi_pat_len == IF Len(patterns) % 2 = 0 THEN base_pat_len ELSE Min2(base_pat_len + 1, 16)

(* A bug to catch: the longer patterns are not allowed for. *)
fuzz_multi_Unguarded ==
    /\ target = "fuzz_multi" /\ pc = "cut"
    /\ \/ Len(data) < 2 /\ Return
       \/ Len(data) >= 2 /\ Len(data) < min_needed /\ Return
       \/ /\ Len(data) >= 2 /\ Len(data) >= min_needed
          /\ IF Len(patterns) < num_patterns THEN CutPattern(multi_pat_len) ELSE CutHaystack

(* The first two bytes say how many patterns, and how long.                *)
fuzz_multi ==
    /\ target = "fuzz_multi" /\ pc = "cut"
    /\ \/ Len(data) < 2 /\ Return
       \/ Len(data) >= 2 /\ Len(data) < min_needed /\ Return
       \/ /\ Len(data) >= 2 /\ Len(data) >= min_needed
          /\ \/ Len(patterns) = num_patterns /\ CutHaystack
             \/ /\ Len(patterns) < num_patterns
                /\ IF offset + multi_pat_len > Len(data)
                   THEN Return ELSE CutPattern(multi_pat_len)

sieve_pat_len == Min2(Max2(data[1] % 32, 1), Len(data) - 1)

(* One pattern, whose own first byte says how long it is; of one byte of   *)
(* data it is empty, and the sieve is not built.                           *)
fuzz_sieve ==
    /\ target = "fuzz_sieve" /\ pc = "cut"
    /\ \/ data = <<>> /\ Return
       \/ /\ data # <<>>
          /\ IF patterns = <<>> THEN CutPattern(sieve_pat_len) ELSE CutHaystack

-----------------------------------------------------------------------------
(* Whether the constructor returns Ok.  Only fuzz_multi and fuzz_sieve     *)
(* build a SimdSieve, whose size is limited.                               *)
Accepted ==
    /\ patterns # <<>> /\ EmptyAt(patterns) = {}
    /\ target = "fuzz_16patterns" \/ Len(patterns) <= MAX_PATTERNS

(* The second sieve folds case; after it fuzz_multi makes sure that eight  *)
(* patterns are accepted.                                                  *)
NextSieve ==
    /\ IF target # "fuzz_16patterns" /\ ~case_insensitive
       THEN case_insensitive' = TRUE /\ pc' = "new"
       ELSE /\ UNCHANGED case_insensitive
            /\ pc' = IF target = "fuzz_multi" /\ num_patterns = 8 /\ ~Accepted
                     THEN "panicked" ELSE "returned"
    /\ UNCHANGED <<target, data, patterns, haystack, offset, cut, pos>>

Build ==
    /\ pc = "new"
    /\ IF Accepted
       THEN pc' = "loop" /\ UNCHANGED <<target, data, patterns, haystack, offset, cut,
                                        case_insensitive, pos>>
       ELSE NextSieve

Yield ==
    /\ pc = "loop"
    /\ pos' \in 0..(Len(haystack) + Beyond)
    /\ pc' = "assert"
    /\ UNCHANGED <<target, data, patterns, haystack, offset, cut, case_insensitive>>

Exhausted == pc = "loop" /\ NextSieve

to_ascii_lowercase(byte) == IF byte \in 65..90 THEN byte + 32 ELSE byte

(* zip() stops at the shorter side. *)
equal(candidate, pat) ==
    IF case_insensitive
    THEN \A k \in 1..Min2(Len(candidate), Len(pat)) :
             to_ascii_lowercase(candidate[k]) = to_ascii_lowercase(pat[k])
    ELSE candidate = pat

(* A bug to catch: the last position a pattern fits is left out. *)
found_TooStrict(pat) ==
    /\ pos + Len(pat) < Len(haystack)
    /\ equal(Slice(haystack, pos, Len(pat)), pat)

(* pat is in the haystack at pos.                                          *)
found(pat) ==
    /\ pos + Len(pat) <= Len(haystack)
    /\ equal(Slice(haystack, pos, Len(pat)), pat)

(* The assertions on pos.  fuzz_16patterns makes none.                     *)
asserted ==
    CASE target = "fuzz_16patterns" -> TRUE
      [] target = "fuzz_multi" -> pos < Len(haystack) /\ \E k \in DOMAIN patterns : found(patterns[k])
      [] target = "fuzz_sieve" -> found(patterns[1])

CheckPos ==
    /\ pc = "assert"
    /\ pc' = IF asserted THEN "loop" ELSE "panicked"
    /\ UNCHANGED <<target, data, patterns, haystack, offset, cut, case_insensitive, pos>>

Next ==
    \/ fuzz_16patterns \/ fuzz_multi \/ fuzz_sieve
    \/ Build \/ Yield \/ Exhausted \/ CheckPos

Spec == Init /\ [][Next]_vars

-----------------------------------------------------------------------------
(* Every variable has its type; a harness that gets as far as building a   *)
(* sieve has a pattern to build it of, and something to search it in       *)
(* unless all data went into patterns.                                     *)
TypeOK ==
    /\ patterns \in Seq(Seq(Byte))
    /\ haystack \in Seq(Byte)
    /\ offset \in Nat
    /\ cut \in Nat \X Nat
    /\ case_insensitive \in BOOLEAN
    /\ pos \in 0..(Len(haystack) + Beyond)
    /\ pc \in {"cut", "new", "loop", "assert", "panicked", "returned"}
    /\ pc \in {"new", "loop", "assert"} => patterns # <<>> /\ offset = Len(data)

(* A harness never panics by slicing its own data out of bounds, whatever  *)
(* the fuzzer feeds it: a crash it reports is the sieve's.                 *)
CutsInBounds == cut[1] <= cut[2] /\ cut[2] <= Len(data)

(* fuzz_multi and fuzz_sieve panic on an offset just if it is no match: no *)
(* false positive of a sieve gets past them, and no true match is reported *)
(* as a bug, although they compare in lower case and the sieve in upper    *)
(* case, and look at whole patterns where the sieve's filter takes four    *)
(* bytes.                                                                  *)
OracleIsExact ==
    [][pc = "assert" /\ target # "fuzz_16patterns" =>
          (pc' = "panicked" <=> pos \notin Matches(haystack, patterns, case_insensitive))]_vars
=============================================================================
