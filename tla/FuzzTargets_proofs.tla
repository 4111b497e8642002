------------------------- MODULE FuzzTargets_proofs -------------------------
(***************************************************************************)
(* Proofs about the fuzzing harnesses, for all data and any number of      *)
(* patterns to a sieve: they stay within their data, and fuzz_multi and    *)
(* fuzz_sieve panic on an offset just if it is no match.                   *)
(***************************************************************************)
EXTENDS FuzzTargets, PatternSets_proofs

(* Comparing in lower case is comparing in upper case.                     *)
LEMMA LowerCaseAgrees ==
    ASSUME NEW c \in Byte, NEW p \in Byte
    PROVE  to_ascii_lowercase(c) = to_ascii_lowercase(p) <=> fold_byte(c) = fold_byte(p)
<1>1. c \in 0..255 /\ p \in 0..255
  BY DEF Byte
<1>2. /\ fold_byte(c) = IF c >= 97 /\ c <= 122 THEN c - 32 ELSE c
      /\ fold_byte(p) = IF p >= 97 /\ p <= 122 THEN p - 32 ELSE p
  BY FoldByteCases
<1>3. /\ to_ascii_lowercase(c) = IF c >= 65 /\ c <= 90 THEN c + 32 ELSE c
      /\ to_ascii_lowercase(p) = IF p >= 65 /\ p <= 90 THEN p + 32 ELSE p
  BY <1>1 DEF to_ascii_lowercase
<1>. QED  BY <1>1, <1>2, <1>3

(* The bytes that say how many patterns there are and how long they are.   *)
LEMMA Lengths ==
    ASSUME data \in Seq(Byte), data # <<>>
    PROVE  /\ Len(data) \in Nat \ {0}
           /\ num_patterns \in 1..7
           /\ sieve_pat_len \in 0..(Len(data) - 1)
           /\ Len(data) >= 2 =>
                 multi_pat_len \in 1..16 /\ multi_pat_len \in Nat
<1>1. Len(data) \in Nat \ {0}
  BY EmptySeq, LenProperties
<1>2. data[1] \in Byte /\ (Len(data) >= 2 => data[2] \in Byte)
  BY <1>1, ElementOfSeq
<1>3. \A x \in Byte : x % 8 \in 0..7 /\ x % 16 \in 0..15 /\ x % 32 \in 0..31
  BY DEF Byte
<1>4. data[1] % 8 \in 0..7 /\ data[1] % 32 \in 0..31
  BY <1>2, <1>3
<1>5. num_patterns \in 1..7
  BY <1>4 DEF num_patterns, Max2
<1>6. sieve_pat_len \in 0..(Len(data) - 1)
  <2>1. \A m \in 0..31 : Max2(m, 1) \in Nat
    BY DEF Max2
  <2>2. \A m \in Nat : Min2(m, Len(data) - 1) \in 0..(Len(data) - 1)
    BY <1>1 DEF Min2
  <2>. QED  BY <1>4, <2>1, <2>2 DEF sieve_pat_len
<1>7. ASSUME Len(data) >= 2
      PROVE  multi_pat_len \in 1..16
  <2>1. data[2] % 16 \in 0..15
    BY <1>2, <1>3, <1>7
  <2>. QED  BY <2>1 DEF multi_pat_len, base_pat_len, Max2, Min2
<1>. QED  BY <1>1, <1>5, <1>6, <1>7

(* fuzz_multi never gets to the case of eight patterns: its first byte,    *)
(* modulo eight, asks for at most seven.                                   *)
THEOREM AtMostSevenPatterns ==
    ASSUME data \in Seq(Byte), data # <<>>
    PROVE  num_patterns <= 7
BY Lengths

-----------------------------------------------------------------------------
(* How far each harness has cut its data.                                  *)
Cutting ==
    /\ data \in Seq(Byte)
    /\ pc = "cut" =>
          /\ haystack = <<>> /\ pos = 0
          /\ target = "fuzz_16patterns" =>
                offset = Len(patterns) /\ Len(patterns) <= MAX_PATTERNS
          /\ target = "fuzz_multi" =>
                /\ Len(data) >= 2 => offset <= Len(data)
                /\ patterns # <<>> => Len(data) >= 2
                /\ patterns # <<>> => Len(patterns) <= num_patterns
          /\ target = "fuzz_sieve" =>
                \/ patterns = <<>> /\ offset = 0
                \/ data # <<>> /\ Len(patterns) = 1 /\ offset = sieve_pat_len

AfterCutting ==
    /\ target \in {"fuzz_16patterns", "fuzz_multi", "fuzz_sieve"}
    /\ pc \in {"new", "loop", "assert"} /\ target = "fuzz_sieve" => Len(patterns) = 1
    /\ pc \in {"loop", "assert"} => EmptyAt(patterns) = {}

IInv == TypeOK /\ CutsInBounds /\ Cutting /\ AfterCutting

-----------------------------------------------------------------------------
LEMMA InitIInv == Init => IInv
<1>. SUFFICES ASSUME Init PROVE IInv
  OBVIOUS
<1>1. data \in Seq(Byte) /\ Len(data) \in Nat /\ Beyond \in Nat
  BY FuzzAssumption, LenProperties DEF Init
<1>2. TypeOK
  <2>1. offset \in Nat /\ cut \in Nat \X Nat
    BY DEF Init
  <2>2. patterns \in Seq(Seq(Byte)) /\ haystack \in Seq(Byte) /\ Len(haystack) = 0
    BY EmptySeq DEF Init
  <2>3. pos \in 0..(Len(haystack) + Beyond)
    BY <1>1, <2>2 DEF Init
  <2>. QED  BY <2>1, <2>2, <2>3 DEF Init, TypeOK
<1>3. CutsInBounds
  BY <1>1 DEF Init, CutsInBounds
<1>4. Cutting /\ AfterCutting
  BY <1>1, MaxPatternsAssumption DEF Init, Cutting, AfterCutting
<1>. QED  BY <1>2, <1>3, <1>4 DEF IInv

(* A pattern is cut within the data.                                       *)
LEMMA CutPatternFacts ==
    ASSUME IInv, pc = "cut", NEW n \in Nat, offset + n <= Len(data), CutPattern(n)
    PROVE  /\ TypeOK' /\ CutsInBounds'
           /\ Len(patterns') = Len(patterns) + 1 /\ patterns' # <<>>
           /\ offset' = offset + n
           /\ UNCHANGED <<target, data, haystack, case_insensitive, pos, pc>>
<1>1. /\ cut' = <<offset, offset + n>> /\ offset' = offset + n
      /\ patterns' = Append(patterns, Slice(data, offset, Min2(n, Len(data) - offset)))
      /\ UNCHANGED <<target, data, haystack, case_insensitive, pos, pc>>
  BY DEF CutPattern, CutTo
<1>2. /\ offset \in Nat /\ data \in Seq(Byte) /\ Len(data) \in Nat
      /\ patterns \in Seq(Seq(Byte)) /\ Len(patterns) \in Nat
  BY LenProperties DEF IInv, TypeOK, Cutting
<1>3. Min2(n, Len(data) - offset) = n
  BY <1>2 DEF Min2
<1>4. Slice(data, offset, n) \in Seq(Byte)
  BY <1>2, SliceBytes
<1>5. /\ patterns' \in Seq(Seq(Byte)) /\ Len(patterns') = Len(patterns) + 1
      /\ patterns' # <<>>
  BY <1>1, <1>2, <1>3, <1>4, AppendProperties
<1>6. offset' \in Nat /\ cut' \in Nat \X Nat /\ cut'[1] = offset /\ cut'[2] = offset + n
  BY <1>1, <1>2
<1>. QED  BY <1>1, <1>2, <1>5, <1>6 DEF IInv, TypeOK, CutsInBounds

(* The haystack is the rest of the data.                                   *)
LEMMA CutHaystackStep ==
    ASSUME IInv, pc = "cut", offset <= Len(data), patterns # <<>>,
           target = "fuzz_sieve" => Len(patterns) = 1, CutHaystack
    PROVE  IInv'
<1>1. /\ cut' = <<offset, Len(data)>> /\ offset' = Len(data)
      /\ haystack' = Slice(data, offset, Len(data) - offset)
      /\ pc' = "new"
      /\ UNCHANGED <<target, data, patterns, case_insensitive, pos>>
  BY DEF CutHaystack, CutTo
<1>2. offset \in Nat /\ data \in Seq(Byte) /\ Len(data) \in Nat /\ Len(data) - offset \in Nat
  BY LenProperties DEF IInv, TypeOK, Cutting
<1>3. haystack' \in Seq(Byte) /\ Len(haystack') \in Nat
  BY <1>1, <1>2, SliceBytes, LenProperties
<1>4. pos = 0 /\ Beyond \in Nat /\ cut'[1] = offset /\ cut'[2] = Len(data)
  BY <1>1, FuzzAssumption DEF IInv, Cutting
<1>5. TypeOK' /\ CutsInBounds'
  BY <1>1, <1>2, <1>3, <1>4 DEF IInv, TypeOK, CutsInBounds
<1>. QED  BY <1>1, <1>5 DEF IInv, Cutting, AfterCutting

LEMMA ReturnStep == ASSUME IInv, pc = "cut", Return PROVE IInv'
BY DEF IInv, Return, TypeOK, CutsInBounds, Cutting, AfterCutting, EmptyAt

LEMMA Fuzz16Step == ASSUME IInv, fuzz_16patterns PROVE IInv'
<1>1. target = "fuzz_16patterns" /\ pc = "cut"
  BY DEF fuzz_16patterns
<1>2. /\ offset = Len(patterns) /\ Len(patterns) <= MAX_PATTERNS
      /\ offset \in Nat /\ Len(data) \in Nat /\ MAX_PATTERNS \in Nat \ {0}
      /\ patterns \in Seq(Seq(Byte))
  BY <1>1, LenProperties, MaxPatternsAssumption DEF IInv, TypeOK, Cutting
<1>3. CASE Return
  BY <1>1, <1>3, ReturnStep
<1>4. CASE Len(data) >= MAX_PATTERNS /\ Len(patterns) < MAX_PATTERNS /\ CutPattern(1)
  <2>1. /\ TypeOK' /\ CutsInBounds' /\ offset' = Len(patterns') /\ Len(patterns') <= MAX_PATTERNS
        /\ UNCHANGED <<target, data, haystack, pos, pc>>
    BY <1>1, <1>2, <1>4, CutPatternFacts
  <2>. QED  BY <1>1, <2>1 DEF IInv, Cutting, AfterCutting
<1>5. CASE Len(data) >= MAX_PATTERNS /\ ~(Len(patterns) < MAX_PATTERNS) /\ CutHaystack
  <2>1. patterns # <<>> /\ offset <= Len(data)
    BY <1>2, <1>5
  <2>. QED  BY <1>1, <1>5, <2>1, CutHaystackStep
<1>. QED  BY <1>3, <1>4, <1>5 DEF fuzz_16patterns

LEMMA FuzzMultiStep == ASSUME IInv, fuzz_multi PROVE IInv'
<1>1. target = "fuzz_multi" /\ pc = "cut"
  BY DEF fuzz_multi
<1>2. CASE Return
  BY <1>1, <1>2, ReturnStep
<1>3. CASE /\ Len(data) >= 2
           /\ \/ Len(patterns) = num_patterns /\ CutHaystack
              \/ /\ Len(patterns) < num_patterns
                 /\ ~(offset + multi_pat_len > Len(data)) /\ CutPattern(multi_pat_len)
  <2>1. /\ data # <<>> /\ data \in Seq(Byte) /\ offset \in Nat /\ offset <= Len(data)
        /\ patterns \in Seq(Seq(Byte)) /\ Len(patterns) \in Nat
    BY <1>1, <1>3, LenProperties, EmptySeq DEF IInv, TypeOK, Cutting
  <2>2. num_patterns \in 1..7 /\ multi_pat_len \in Nat /\ Len(data) \in Nat
    BY <1>3, <2>1, Lengths
  <2>3. CASE Len(patterns) = num_patterns /\ CutHaystack
    <3>1. patterns # <<>>
      BY <2>2, <2>3, EmptySeq
    <3>. QED  BY <1>1, <2>1, <2>3, <3>1, CutHaystackStep
  <2>4. CASE /\ Len(patterns) < num_patterns
             /\ ~(offset + multi_pat_len > Len(data)) /\ CutPattern(multi_pat_len)
    <3>1. offset + multi_pat_len <= Len(data)
      BY <2>1, <2>2, <2>4
    <3>2. /\ TypeOK' /\ CutsInBounds' /\ offset' = offset + multi_pat_len
          /\ Len(patterns') = Len(patterns) + 1
          /\ UNCHANGED <<target, data, haystack, pos, pc>>
      BY <1>1, <2>2, <2>4, <3>1, CutPatternFacts
    <3>3. Len(patterns') <= num_patterns
      BY <2>1, <2>2, <2>4, <3>2
    <3>. QED  BY <1>1, <1>3, <3>1, <3>2, <3>3 DEF IInv, Cutting, AfterCutting, num_patterns
  <2>. QED  BY <1>3, <2>3, <2>4
<1>. QED  BY <1>2, <1>3 DEF fuzz_multi

LEMMA FuzzSieveStep == ASSUME IInv, fuzz_sieve PROVE IInv'
<1>1. target = "fuzz_sieve" /\ pc = "cut"
  BY DEF fuzz_sieve
<1>2. CASE Return
  BY <1>1, <1>2, ReturnStep
<1>3. CASE data # <<>> /\ (IF patterns = <<>> THEN CutPattern(sieve_pat_len) ELSE CutHaystack)
  <2>1. sieve_pat_len \in 0..(Len(data) - 1) /\ Len(data) \in Nat \ {0}
    BY <1>3, Lengths DEF IInv, Cutting
  <2>2. CASE patterns = <<>> /\ CutPattern(sieve_pat_len)
    <3>1. offset = 0 /\ Len(patterns) = 0
      BY <1>1, <2>2, EmptySeq DEF IInv, Cutting
    <3>2. offset + sieve_pat_len <= Len(data) /\ sieve_pat_len \in Nat
      BY <2>1, <3>1
    <3>3. /\ TypeOK' /\ CutsInBounds' /\ offset' = sieve_pat_len /\ Len(patterns') = 1
          /\ UNCHANGED <<target, data, haystack, pos, pc>>
      BY <1>1, <2>1, <2>2, <3>1, <3>2, CutPatternFacts
    <3>. QED  BY <1>1, <1>3, <3>3 DEF IInv, Cutting, AfterCutting, sieve_pat_len
  <2>3. CASE patterns # <<>> /\ CutHaystack
    <3>1. Len(patterns) = 1 /\ offset <= Len(data)
      BY <1>1, <2>1, <2>3 DEF IInv, Cutting
    <3>. QED  BY <1>1, <2>3, <3>1, CutHaystackStep
  <2>. QED  BY <1>3, <2>2, <2>3
<1>. QED  BY <1>2, <1>3 DEF fuzz_sieve

(* Building a sieve and polling it leave the data alone.                   *)
LEMMA OtherSteps ==
    ASSUME IInv, Build \/ Yield \/ Exhausted \/ CheckPos \/ UNCHANGED vars
    PROVE  IInv'
<1>1. CASE UNCHANGED vars
  BY <1>1 DEF IInv, vars, TypeOK, CutsInBounds, Cutting, AfterCutting, EmptyAt,
              num_patterns, sieve_pat_len
<1>2. CASE Build \/ Yield \/ Exhausted \/ CheckPos
  <2>1. /\ UNCHANGED <<target, data, patterns, haystack, offset, cut>>
        /\ pc \in {"new", "loop", "assert"}
        /\ pc' \in {"new", "loop", "assert", "panicked", "returned"}
        /\ pc' \in {"loop", "assert"} => EmptyAt(patterns) = {}
    BY <1>2 DEF IInv, AfterCutting, Build, NextSieve, Yield, Exhausted, CheckPos, Accepted
  <2>2. pos' \in 0..(Len(haystack) + Beyond) /\ case_insensitive' \in BOOLEAN
    BY <1>2 DEF IInv, TypeOK, Build, NextSieve, Yield, Exhausted, CheckPos
  <2>. QED  BY <2>1, <2>2 DEF IInv, TypeOK, CutsInBounds, Cutting, AfterCutting, EmptyAt
<1>. QED  BY <1>1, <1>2

THEOREM Invariance == Spec => []IInv
<1>1. IInv /\ [Next]_vars => IInv'
  BY Fuzz16Step, FuzzMultiStep, FuzzSieveStep, OtherSteps DEF Next
<1>. QED  BY InitIInv, <1>1, PTL DEF Spec

(* Every variable keeps its type; a sieve is built of at least one pattern *)
(* and of all the data.                                                    *)
THEOREM TypeCorrect == Spec => []TypeOK
<1>1. IInv => TypeOK
  BY DEF IInv
<1>. QED  BY Invariance, <1>1, PTL

(* No harness, whatever data it is fed, slices it out of bounds.           *)
THEOREM CutsStayInBounds == Spec => []CutsInBounds
<1>1. IInv => CutsInBounds
  BY DEF IInv
<1>. QED  BY Invariance, <1>1, PTL

-----------------------------------------------------------------------------
(* One pattern of a harness is found where the sieve's verifier finds it.  *)
LEMMA FoundIsPatternAt ==
    ASSUME IInv, NEW p \in Seq(Byte)
    PROVE  found(p) <=> PatternAt(haystack, p, case_insensitive, pos)
<1>1. /\ haystack \in Seq(Byte) /\ Len(haystack) \in Nat /\ Len(p) \in Nat
      /\ pos \in Nat /\ Beyond \in Nat
  BY LenProperties, FuzzAssumption DEF IInv, TypeOK
<1>2. pos + Len(p) <= Len(haystack) <=> Len(haystack) - pos >= Len(p)
  BY <1>1
<1>3. ASSUME pos + Len(p) <= Len(haystack)
      PROVE  equal(Slice(haystack, pos, Len(p)), p)
               <=> verifier(case_insensitive, Slice(haystack, pos, Len(p)), p)
  <2>. DEFINE s == Slice(haystack, pos, Len(p))
  <2>1. Len(s) = Len(p) /\ \A k \in 1..Len(p) : s[k] \in Byte /\ p[k] \in Byte
    BY <1>1, <1>3, SliceBytes, ElementOfSeq
  <2>. HIDE DEF s
  <2>2. Min2(Len(s), Len(p)) = Len(p)
    BY <1>1, <2>1 DEF Min2
  <2>3. \A k \in 1..Len(p) : to_ascii_lowercase(s[k]) = to_ascii_lowercase(p[k])
                               <=> fold_byte(s[k]) = fold_byte(p[k])
    BY <2>1, LowerCaseAgrees
  <2>4. CASE case_insensitive
    <3>1. equal(s, p) <=> \A k \in 1..Len(p) :
                            to_ascii_lowercase(s[k]) = to_ascii_lowercase(p[k])
      BY <2>2, <2>4 DEF equal
    <3>2. verifier(case_insensitive, s, p)
            <=> \A k \in 1..Len(p) : fold_byte(s[k]) = fold_byte(p[k])
      BY <2>1, <2>4 DEF verifier, verify_case_insensitive
    <3>. HIDE DEF to_ascii_lowercase, fold_byte
    <3>. QED  BY <2>3, <3>1, <3>2 DEF s
  <2>5. CASE ~case_insensitive
    BY <2>5 DEF equal, verifier, verify_exact, s
  <2>. QED  BY <2>4, <2>5
<1>. QED  BY <1>2, <1>3 DEF found, PatternAt

(* The assertions of fuzz_multi and fuzz_sieve hold of just the matches.   *)
LEMMA AssertedIsMatch ==
    ASSUME IInv, pc = "assert", target # "fuzz_16patterns"
    PROVE  asserted <=> pos \in Matches(haystack, patterns, case_insensitive)
<1>1. /\ haystack \in Seq(Byte) /\ Len(haystack) \in Nat /\ pos \in Nat
      /\ patterns \in Seq(Seq(Byte)) /\ DOMAIN patterns = 1..Len(patterns)
      /\ Len(patterns) \in Nat /\ Beyond \in Nat
  BY LenProperties, FuzzAssumption DEF IInv, TypeOK
<1>2. \A k \in DOMAIN patterns : patterns[k] \in Seq(Byte)
  BY <1>1, ElementOfSeq
<1>3. \A k \in DOMAIN patterns :
          found(patterns[k]) <=> PatternAt(haystack, patterns[k], case_insensitive, pos)
  BY <1>2, FoundIsPatternAt
<1>4. pos \in Matches(haystack, patterns, case_insensitive)
        <=> pos < Len(haystack) /\ \E k \in DOMAIN patterns : found(patterns[k])
  BY <1>1, <1>3 DEF Matches, MatchAt
<1>5. CASE target = "fuzz_multi"
  BY <1>4, <1>5 DEF asserted
<1>6. CASE target = "fuzz_sieve"
  <2>1. DOMAIN patterns = {1} /\ EmptyAt(patterns) = {} /\ Len(patterns) = 1
    BY <1>1, <1>6 DEF IInv, AfterCutting
  <2>2. patterns[1] \in Seq(Byte) /\ patterns[1] # <<>>
    BY <1>2, <2>1 DEF EmptyAt
  <2>3. Len(patterns[1]) \in Nat \ {0}
    BY <2>2, LenProperties, EmptySeq
  <2>4. found(patterns[1]) => pos < Len(haystack)
    BY <1>1, <2>3 DEF found
  <2>. QED  BY <1>4, <1>6, <2>1, <2>4 DEF asserted
<1>. QED  BY <1>5, <1>6 DEF IInv, AfterCutting

(* A harness panics on an offset just if it is no match: no false positive *)
(* of a sieve gets past it, and no match is reported as a bug.             *)
THEOREM OracleExact == Spec => OracleIsExact
<1>1. ASSUME IInv, Next, pc = "assert", target # "fuzz_16patterns"
      PROVE  pc' = "panicked" <=> pos \notin Matches(haystack, patterns, case_insensitive)
  <2>1. CheckPos
    BY <1>1 DEF Next, fuzz_16patterns, fuzz_multi, fuzz_sieve, Build, Yield, Exhausted
  <2>. QED  BY <1>1, <2>1, AssertedIsMatch DEF CheckPos
<1>2. IInv /\ [Next]_vars =>
        [pc = "assert" /\ target # "fuzz_16patterns" =>
           (pc' = "panicked" <=> pos \notin Matches(haystack, patterns, case_insensitive))]_vars
  BY <1>1
<1>. QED  BY Invariance, <1>2, PTL DEF Spec, OracleIsExact
=============================================================================
