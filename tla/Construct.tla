----------------------------- MODULE Construct ------------------------------
(***************************************************************************)
(* src/src/sieve/compiler.rs and multi.rs: building a sieve from a         *)
(* caller's pattern list, in the crate's four forms: SimdSieve and         *)
(* CompiledSieve hold up to MAX_PATTERNS patterns, MultiSieve and          *)
(* CompiledMultiSieve any number.  The compiled forms bind the haystack    *)
(* later, with scan().                                                     *)
(*                                                                         *)
(* The build of a sieve is one loop that rejects empty patterns, drops     *)
(* repeated ones and takes the longest prefix; it then selects the filter. *)
(* The build of a multi-sieve validates the whole list, deduplicates it,   *)
(* and calls the sieve's build on chunks of the result.  The compiled and  *)
(* the direct form of each repeat the same code, and share it here; what   *)
(* they leave behind differs.  Each turn of a loop is an action.           *)
(***************************************************************************)
EXTENDS PatternSets

CONSTANTS
    RawLists,   (* the callers' pattern lists                              *)
    Cpus        (* processors: [arch, features]                            *)

ASSUME ConstructAssumption ==
    /\ RawLists \subseteq Seq(Seq(Byte))
    /\ \A cpu \in Cpus :
          /\ cpu.arch \in {"x86_64", "aarch64", "other"}
          /\ cpu.arch = "aarch64" => "neon" \in cpu.features

VARIABLES
    kind,               (* the type the caller builds                      *)
    raw,                (* its list                                        *)
    case_insensitive,   (* new() or new_case_insensitive()                 *)
    cpu,
    pc,                 (* the loop in progress, and "done"                *)
    i,                  (* its index                                       *)
    list,               (* the list the sieve's build works on             *)
    kept,               (* the patterns collected from it                  *)
    max_len,            (* their longest prefix so far                     *)
    unique,             (* the multi-sieve's deduplicated list             *)
    compiled,           (* the CompiledSieves built                        *)
    sieves,             (* the SimdSieves built, or bound by scan()        *)
    result              (* what the caller gets                            *)

call == <<kind, raw, case_insensitive, cpu>>
vars == <<call, pc, i, list, kept, max_len, unique, compiled, sieves, result>>

Multi == {"MultiSieve", "CompiledMultiSieve"}
Compiled == {"CompiledSieve", "CompiledMultiSieve"}
Kinds == {"SimdSieve"} \cup Compiled \cup Multi

Pending == [tag |-> "Pending"]
Ok == [tag |-> "Ok"]
EmptyPatternSet == [tag |-> "EmptyPatternSet"]
PatternLimitExceeded(n) == [tag |-> "PatternLimitExceeded", count |-> n]
EmptyPattern(index) == [tag |-> "EmptyPattern", index |-> index]

(* A bug to catch: AVX-512 taken without its byte instructions. *)
select_hardware_tier_NoBytes ==
    CASE cpu.arch = "x86_64" /\ "avx512f" \in cpu.features -> "Avx512"
      [] cpu.arch = "x86_64" /\ "avx512f" \notin cpu.features
            /\ "avx2" \in cpu.features -> "Avx2"
      [] cpu.arch = "aarch64" -> "Neon"
      [] OTHER -> "Scalar"

(* The best tier by detection at run time; NEON without any detection.     *)
select_hardware_tier ==
    IF cpu.arch = "x86_64" /\ {"avx512f", "avx512bw"} \subseteq cpu.features THEN "Avx512"
    ELSE IF cpu.arch = "x86_64" /\ "avx2" \in cpu.features THEN "Avx2"
    ELSE IF cpu.arch = "aarch64" THEN "Neon" ELSE "Scalar"

(* The #[target_feature]s of each filter's functions. *)
target_feature ==
    [Avx512 |-> {"avx512f", "avx512bw"}, Avx2 |-> {"avx2"}, Neon |-> {"neon"}, Scalar |-> {}]

(* verification_patterns: the slots of a SimdSieve, unused ones empty.     *)
Slots(ps) == [k \in 0..(MAX_PATTERNS - 1) |-> IF k < Len(ps) THEN ps[k + 1] ELSE <<>>]

(* A bug to catch: chunks one longer than a sieve takes. *)
chunk_size_TooLong == MAX_PATTERNS + 1

(* unique.chunks(16) *)
chunk_size == MAX_PATTERNS

Finish(value) ==
    /\ result' = value
    /\ pc' = "done"
    /\ UNCHANGED <<call, i, list, kept, max_len, unique, compiled, sieves>>

-----------------------------------------------------------------------------
Init ==
    /\ kind \in Kinds
    /\ raw \in RawLists
    /\ case_insensitive \in BOOLEAN
    /\ cpu \in Cpus
    /\ pc = IF kind \in Multi THEN "multi" ELSE "build"
    /\ i = 0
    /\ list = IF kind \in Multi THEN <<>> ELSE raw
    /\ kept = <<>> /\ max_len = 0
    /\ unique = <<>>
    /\ compiled = <<>> /\ sieves = <<>>
    /\ result = Pending

-----------------------------------------------------------------------------
(* The sieve's build, of the caller's list or of a chunk of it.  An error  *)
(* in a chunk is the multi-sieve's error (the ? operator).                 *)
BuildEntry ==
    /\ pc = "build"
    /\ \/ list = <<>> /\ Finish(EmptyPatternSet)
       \/ Len(list) > MAX_PATTERNS /\ Finish(PatternLimitExceeded(Len(list)))
       \/ /\ Len(list) \in 1..MAX_PATTERNS
          /\ pc' = "patterns"
          /\ i' = 0 /\ kept' = <<>> /\ max_len' = 0
          /\ UNCHANGED <<call, list, unique, compiled, sieves, result>>

(* A bug to catch: the bound counts the longest pattern, not its prefix. *)
Longer_Whole(n, p) == IF Len(p) > n THEN Len(p) ELSE n

Longer(n, p) == IF eval_len(p) > n THEN eval_len(p) ELSE n

Seen(p, ps) == p \in Range(ps)

BuildPattern ==
    /\ pc = "patterns"
    /\ i < Len(list)
    /\ LET p == list[i + 1]
       IN  \/ p = <<>> /\ Finish(EmptyPattern(i))
           \/ /\ p # <<>>
              /\ i' = i + 1
              /\ IF Seen(p, kept)
                 THEN UNCHANGED <<kept, max_len>>
                 ELSE kept' = Append(kept, p) /\ max_len' = Longer(max_len, p)
              /\ UNCHANGED <<call, pc, list, unique, compiled, sieves, result>>

(* The sieve is built: on to the next chunk, or back to the caller.        *)
Built ==
    /\ pc = "patterns"
    /\ i = Len(list)
    /\ IF kind \in Multi THEN pc' = "chunks" /\ UNCHANGED result
                         ELSE pc' = "done" /\ result' = Ok
    /\ UNCHANGED <<call, i, list, kept, max_len, unique>>

SimdSieve_build ==
    /\ kind \notin Compiled
    /\ \/ BuildEntry \/ BuildPattern
       \/ /\ Built
          /\ sieves' = Append(sieves,
                [patterns |-> Slots(kept), count |-> Len(kept), max_len |-> max_len,
                 tier |-> select_hardware_tier, folds |-> case_insensitive])
          /\ UNCHANGED compiled

CompiledSieve_build ==
    /\ kind \in Compiled
    /\ \/ BuildEntry \/ BuildPattern
       \/ /\ Built
          /\ compiled' = Append(compiled,
                [patterns |-> kept, max_len |-> max_len,
                 tier |-> select_hardware_tier, folds |-> case_insensitive])
          /\ UNCHANGED sieves

-----------------------------------------------------------------------------
(* The multi-sieve's build.                                                *)
MultiEntry ==
    /\ pc = "multi"
    /\ \/ raw = <<>> /\ Finish(EmptyPatternSet)
       \/ /\ raw # <<>>
          /\ pc' = "validate"
          /\ UNCHANGED <<call, i, list, kept, max_len, unique, compiled, sieves, result>>

Validate ==
    /\ pc = "validate"
    /\ \/ i < Len(raw) /\ raw[i + 1] = <<>> /\ Finish(EmptyPattern(i))
       \/ /\ i < Len(raw) /\ raw[i + 1] # <<>>
          /\ i' = i + 1
          /\ UNCHANGED <<call, pc, list, kept, max_len, unique, compiled, sieves, result>>
       \/ /\ i = Len(raw)
          /\ i' = 0
          /\ pc' = "dedup"
          /\ UNCHANGED <<call, list, kept, max_len, unique, compiled, sieves, result>>

Dedup ==
    /\ pc = "dedup"
    /\ i < Len(raw)
    /\ unique' = IF Seen(raw[i + 1], unique) THEN unique ELSE Append(unique, raw[i + 1])
    /\ i' = i + 1
    /\ UNCHANGED <<call, pc, list, kept, max_len, compiled, sieves, result>>

Deduped ==
    /\ pc = "dedup"
    /\ i = Len(raw)
    /\ pc' = "chunks"
    /\ UNCHANGED <<call, i, list, kept, max_len, unique, compiled, sieves, result>>

(* The next chunk of the deduplicated list, or Ok after the last.          *)
Chunk ==
    /\ pc = "chunks"
    /\ LET first == (Len(sieves) + Len(compiled)) * chunk_size
           last  == IF first + chunk_size < Len(unique) THEN first + chunk_size
                                                        ELSE Len(unique)
       IN  \/ /\ first < Len(unique)
              /\ list' = SubSeq(unique, first + 1, last)
              /\ pc' = "build"
              /\ UNCHANGED <<call, i, kept, max_len, unique, compiled, sieves, result>>
           \/ first >= Len(unique) /\ Finish(Ok)

MultiBuild == MultiEntry \/ Validate \/ Dedup \/ Deduped \/ Chunk

MultiSieve_build == kind = "MultiSieve" /\ MultiBuild

CompiledMultiSieve_build == kind = "CompiledMultiSieve" /\ MultiBuild

-----------------------------------------------------------------------------
(* A bug to catch: slots of an earlier sieve left in the array. *)
CompiledSieve_scan_Stale(cs) ==
    [patterns |-> [Slots(cs.patterns) EXCEPT ![MAX_PATTERNS - 1] =
                     IF sieves = <<>> THEN @ ELSE sieves[1].patterns[MAX_PATTERNS - 1]],
     count |-> Len(cs.patterns),
     max_len |-> cs.max_len, tier |-> cs.tier, folds |-> cs.folds]

(* A SimdSieve at the start of a haystack, with the filter lent to it.     *)
CompiledSieve_scan(cs) ==
    [patterns |-> Slots(cs.patterns), count |-> Len(cs.patterns),
     max_len |-> cs.max_len, tier |-> cs.tier, folds |-> cs.folds]

(* scan() of what was built, one compiled sieve after the other.           *)
CompiledMultiSieve_scan ==
    /\ pc = "done" /\ result = Ok
    /\ Len(sieves) < Len(compiled)
    /\ sieves' = Append(sieves, CompiledSieve_scan(compiled[Len(sieves) + 1]))
    /\ UNCHANGED <<call, pc, i, list, kept, max_len, unique, compiled, result>>

(* How many sieves the list was dealt out to. *)
chunk_count == IF kind \in Compiled THEN Len(compiled) ELSE Len(sieves)

Next ==
    \/ SimdSieve_build \/ CompiledSieve_build
    \/ MultiSieve_build \/ CompiledMultiSieve_build
    \/ CompiledMultiSieve_scan

Spec == Init /\ [][Next]_vars

-----------------------------------------------------------------------------
(* Every variable has the type of its field; a sieve's array of patterns   *)
(* is never written past its end, by build or by scan.                     *)
TypeOK ==
    /\ pc \in {"build", "patterns", "multi", "validate", "dedup", "chunks", "done"}
    /\ i \in 0..(Len(raw))
    /\ list \in Seq(Seq(Byte))
    /\ kept \in Seq(Seq(Byte) \ {<<>>}) /\ Len(kept) <= MAX_PATTERNS
    /\ max_len \in 0..PREFIX
    /\ unique \in Seq(Seq(Byte) \ {<<>>})
    /\ \A c \in DOMAIN compiled : Len(compiled[c].patterns) <= MAX_PATTERNS
    /\ result.tag \in {"Pending", "Ok", "EmptyPatternSet", "PatternLimitExceeded",
                       "EmptyPattern"}

(* What a construction leaves, and scan() of what it compiled: the         *)
(* caller's distinct patterns in order of first occurrence, none lost at a *)
(* chunk's edge, in sieves filled up in turn, each with empty slots behind *)
(* its patterns, its longest prefix, and the case mode asked for.  So a    *)
(* compiled and a direct sieve of the same list are the same.              *)
SievesAsAsked ==
    result = Ok =>
        LET chunks == Chunks(Unique(raw))
        IN  /\ chunk_count = Len(chunks)
            /\ \A s \in DOMAIN sieves :
                  /\ sieves[s].patterns = Slots(chunks[s])
                  /\ sieves[s].count = Len(chunks[s])
                  /\ IsMaxLen(chunks[s], sieves[s].max_len)
                  /\ sieves[s].folds = case_insensitive

(* No sieve runs instructions the processor lacks: the features detected   *)
(* in select_hardware_tier and those the filters are compiled for, stated  *)
(* in five files, agree, and on NEON they need no detection.               *)
TierIsRunnable ==
    \A s \in DOMAIN sieves : target_feature[sieves[s].tier] \subseteq cpu.features

(* The errors: the limit counts repetitions and comes before the empty     *)
(* patterns, an empty pattern is reported by its first index in the        *)
(* caller's list, and a multi-sieve has no limit and lets no error of a    *)
(* chunk escape, whatever deduplication did to the indices.                *)
ReportsCause ==
    pc = "done" =>
        LET limited == kind \notin Multi /\ Len(raw) > MAX_PATTERNS
        IN  result =
              IF raw = <<>> THEN EmptyPatternSet
              ELSE IF limited THEN PatternLimitExceeded(Len(raw))
              ELSE IF EmptyAt(raw) # {}
                   THEN EmptyPattern(CHOOSE k \in EmptyAt(raw) : \A l \in EmptyAt(raw) : k <= l)
              ELSE Ok

(* The doc comment of MultiSieve (multi.rs:21-23): "In practice, only an   *)
(* empty pattern set can fail".                                            *)
OnlyEmptySetFails ==
    kind = "MultiSieve" /\ pc = "done" => result \in {Ok, EmptyPatternSet}
=============================================================================
