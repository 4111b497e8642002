-------------------------- MODULE Construct_proofs --------------------------
(***************************************************************************)
(* Proofs about Construct: whatever the list, its length and the processor *)
(* are, the constructors deal out every distinct pattern, report the right *)
(* error and choose a tier that the processor can run.                     *)
(***************************************************************************)
EXTENDS Construct, PatternSets_proofs

(* The sieves that are built hold the chunks of this list, in turn.        *)
chunks == Chunks(Unique(raw))

Tier == {"Avx512", "Avx2", "Neon", "Scalar"}

SimdSieve ==
    [patterns : [0..(MAX_PATTERNS - 1) -> Seq(Byte)], count : Nat, max_len : Nat,
     tier : Tier, folds : BOOLEAN]

CompiledSieve ==
    [patterns : Seq(Seq(Byte) \ {<<>>}), max_len : Nat, tier : Tier, folds : BOOLEAN]

(* The call does not change, and which of the lists is in use.             *)
CallOK ==
    /\ kind \in Kinds
    /\ raw \in Seq(Seq(Byte))
    /\ case_insensitive \in BOOLEAN
    /\ cpu \in Cpus
    /\ sieves \in Seq(SimdSieve)
    /\ compiled \in Seq(CompiledSieve)

(* Each sieve built so far is made of its chunk.                           *)
BuiltAsAsked ==
    /\ \A s \in DOMAIN compiled :
          /\ compiled[s].patterns = chunks[s]
          /\ IsMaxLen(chunks[s], compiled[s].max_len)
          /\ compiled[s].tier = select_hardware_tier
          /\ compiled[s].folds = case_insensitive
    /\ \A s \in DOMAIN sieves :
          /\ sieves[s].patterns = Slots(chunks[s])
          /\ sieves[s].count = Len(chunks[s])
          /\ IsMaxLen(chunks[s], sieves[s].max_len)
          /\ sieves[s].tier = select_hardware_tier
          /\ sieves[s].folds = case_insensitive

(* How many are built, and of what kind.                                   *)
Progress ==
    /\ kind \notin Compiled => compiled = <<>>
    /\ kind \in Compiled => Len(sieves) <= Len(compiled)
    /\ kind \in Compiled /\ pc # "done" => sieves = <<>>
    /\ pc # "done" => result = Pending
    /\ pc \in {"build", "patterns"} /\ kind \notin Multi => chunk_count = 0
    /\ pc \in {"multi", "validate", "dedup"} => chunk_count = 0
    /\ pc = "chunks" => chunk_count <= Len(chunks)
    /\ result = Ok => chunk_count = Len(chunks)

(* Where the multi-sieve's build is.                                       *)
MultiLoops ==
    /\ pc \in {"multi", "validate", "dedup", "chunks"} => kind \in Multi
    /\ pc \in {"multi", "validate"} => unique = <<>>
    /\ pc = "multi" => i = 0
    /\ pc = "validate" => raw # <<>> /\ \A k \in 1..i : raw[k] # <<>>
    /\ pc = "dedup" =>
          raw # <<>> /\ EmptyAt(raw) = {} /\ unique = Unique(SubSeq(raw, 1, i))
    /\ pc \in {"chunks", "build", "patterns"} /\ kind \in Multi =>
          raw # <<>> /\ EmptyAt(raw) = {} /\ unique = Unique(raw)

(* Where the sieve's build is, in the list it works on.                    *)
SieveLoop ==
    /\ pc \in {"build", "patterns"} =>
          IF kind \in Multi
          THEN chunk_count + 1 \in DOMAIN chunks /\ list = chunks[chunk_count + 1]
          ELSE list = raw
    /\ pc = "patterns" =>
          /\ Len(list) \in 1..MAX_PATTERNS
          /\ i <= Len(list)
          /\ \A k \in 1..i : list[k] # <<>>
          /\ kept = Unique(SubSeq(list, 1, i))
          /\ IF kept = <<>> THEN max_len = 0 ELSE IsMaxLen(kept, max_len)

IInv ==
    /\ TypeOK /\ CallOK /\ Progress /\ BuiltAsAsked
    /\ MultiLoops /\ SieveLoop /\ ReportsCause

-----------------------------------------------------------------------------
NonEmpty == Seq(Byte) \ {<<>>}

LEMMA NonEmptyPrefix ==
    ASSUME NEW ps \in Seq(Seq(Byte)), NEW n \in 0..Len(ps), \A k \in 1..n : ps[k] # <<>>
    PROVE  /\ SubSeq(ps, 1, n) \in Seq(NonEmpty)
           /\ Unique(SubSeq(ps, 1, n)) \in Seq(NonEmpty)
           /\ Len(Unique(SubSeq(ps, 1, n))) \in 0..n
<1>1. \A k \in 1..n : ps[k] \in NonEmpty
  <2>1. \A k \in 1..Len(ps) : ps[k] \in Seq(Byte)
    BY ElementOfSeq
  <2>2. Len(ps) \in Nat
    BY LenProperties
  <2>. QED  BY <2>1, <2>2 DEF NonEmpty
<1>2. SubSeq(ps, 1, n) \in Seq(NonEmpty) /\ Len(SubSeq(ps, 1, n)) = n
  BY <1>1, SubSeqProperties
<1>. QED  BY <1>2, UniqueFacts

LEMMA NoneEmpty ==
    ASSUME NEW ps \in Seq(Seq(Byte))
    PROVE  EmptyAt(ps) = {} <=> \A k \in 1..Len(ps) : ps[k] # <<>>
<1>1. Len(ps) \in Nat
  BY LenProperties
<1>2. ASSUME EmptyAt(ps) = {}, NEW k \in 1..Len(ps) PROVE ps[k] # <<>>
  <2>1. k - 1 \in 0..(Len(ps) - 1) /\ (k - 1) + 1 = k
    BY <1>1
  <2>. QED  BY <1>2, <2>1 DEF EmptyAt
<1>3. ASSUME \A k \in 1..Len(ps) : ps[k] # <<>> PROVE EmptyAt(ps) = {}
  <2>1. ASSUME NEW k \in 0..(Len(ps) - 1) PROVE ps[k + 1] # <<>>
    <3>1. k + 1 \in 1..Len(ps)
      BY <1>1
    <3>. QED  BY <1>3, <3>1
  <2>. QED  BY <2>1 DEF EmptyAt
<1>. QED  BY <1>2, <1>3

(* A list without empty patterns, and what is built of it.                 *)
LEMMA NonEmptyList ==
    ASSUME NEW ps \in Seq(Seq(Byte)), \A k \in 1..Len(ps) : ps[k] # <<>>
    PROVE  /\ ps \in Seq(NonEmpty)
           /\ Unique(ps) \in Seq(NonEmpty)
           /\ Len(Unique(ps)) \in 0..Len(ps)
           /\ Unique(ps) = <<>> <=> ps = <<>>
<1>1. Len(ps) \in Nat /\ SubSeq(ps, 1, Len(ps)) = ps
  BY LenProperties, SubSeqFull
<1>2. ps \in Seq(NonEmpty)
  BY <1>1, NonEmptyPrefix
<1>. QED  BY <1>2, UniqueFacts

LEMMA EvalLenType ==
    ASSUME NEW p \in Seq(Byte)
    PROVE  eval_len(p) \in 0..PREFIX /\ (p # <<>> => eval_len(p) \in 1..PREFIX)
<1>1. Len(p) \in Nat /\ (p # <<>> => Len(p) \in Nat \ {0})
  BY LenProperties, EmptySeq
<1>. QED  BY <1>1, PrefixAssumption DEF eval_len

(* The longest prefix, kept up to date as the patterns are collected.      *)
LEMMA LongerIsMaxLen ==
    ASSUME NEW ps \in Seq(Seq(Byte)), NEW p \in Seq(Byte), NEW n \in 0..PREFIX,
           IF ps = <<>> THEN n = 0 ELSE IsMaxLen(ps, n)
    PROVE  /\ IsMaxLen(Append(ps, p), Longer(n, p))
           /\ Longer(n, p) \in 0..PREFIX
<1>. DEFINE qs == Append(ps, p)
            new == Longer(n, p)
<1>1. /\ Len(ps) \in Nat /\ DOMAIN ps = 1..Len(ps)
      /\ DOMAIN qs = 1..(Len(ps) + 1)
      /\ \A k \in 1..Len(ps) : qs[k] = ps[k]
      /\ qs[Len(ps) + 1] = p
  BY AppendProperties, LenProperties
<1>2. eval_len(p) \in 0..PREFIX /\ PREFIX \in Nat
  BY EvalLenType, PrefixAssumption
<1>3. new \in 0..PREFIX /\ new >= n /\ new >= eval_len(p) /\ (new = n \/ new = eval_len(p))
  BY <1>2 DEF Longer
<1>4. \A k \in 1..Len(ps) : eval_len(ps[k]) \in 0..PREFIX
  BY ElementOfSeq, EvalLenType
<1>5. \A k \in 1..Len(ps) : eval_len(ps[k]) <= n
  <2>1. CASE ps = <<>>
    BY <2>1, EmptySeq
  <2>2. CASE ps # <<>>
    BY <1>1, <2>2 DEF IsMaxLen
  <2>. QED  BY <2>1, <2>2
<1>. HIDE DEF new, qs
<1>6. \A k \in DOMAIN qs : eval_len(qs[k]) <= new
  <2>1. ASSUME NEW k \in 1..Len(ps) PROVE eval_len(qs[k]) <= new
    BY <1>1, <1>2, <1>3, <1>4, <1>5
  <2>2. eval_len(qs[Len(ps) + 1]) <= new
    BY <1>1, <1>3
  <2>3. \A k \in DOMAIN qs : k \in 1..Len(ps) \/ k = Len(ps) + 1
    BY <1>1
  <2>. QED  BY <2>1, <2>2, <2>3
<1>7. \E k \in DOMAIN qs : eval_len(qs[k]) = new
  <2>1. CASE new = eval_len(p)
    BY <1>1, <2>1
  <2>2. CASE new = n /\ new # eval_len(p)
    <3>1. ps # <<>>
      BY <1>2, <1>3, <2>2
    <3>2. PICK k \in 1..Len(ps) : eval_len(ps[k]) = n
      BY <1>1, <3>1 DEF IsMaxLen
    <3>3. k \in DOMAIN qs /\ qs[k] = ps[k]
      BY <1>1
    <3>. QED  BY <2>2, <3>2, <3>3
  <2>. QED  BY <1>3, <2>1, <2>2
<1>. QED  BY <1>3, <1>6, <1>7 DEF IsMaxLen, new, qs

(* A tier is selected only where its instructions were detected.           *)
LEMMA SelectedTierRuns ==
    ASSUME cpu \in Cpus
    PROVE  /\ select_hardware_tier \in Tier
           /\ target_feature[select_hardware_tier] \subseteq cpu.features
  BY ConstructAssumption DEF select_hardware_tier, target_feature, Tier

-----------------------------------------------------------------------------
(* The deduplicated list, and its chunks.                                  *)
LEMMA ChunksOfList ==
    ASSUME CallOK
    PROVE  /\ chunks \in Seq(Seq(Seq(Byte)))
           /\ Len(chunks) \in Nat /\ DOMAIN chunks = 1..Len(chunks)
           /\ \A c \in Nat \ {0} :
                 c \in DOMAIN chunks <=> (c - 1) * MAX_PATTERNS < Len(Unique(raw))
<1>1. Unique(raw) \in Seq(Seq(Byte))
  BY UniqueFacts DEF CallOK
<1>. QED  BY <1>1, ChunksFacts DEF chunks

(* A chunk has no repeated pattern, so that it loses none when a sieve is  *)
(* built of it.                                                            *)
LEMMA ChunkIsBuildable ==
    ASSUME CallOK, EmptyAt(raw) = {}, NEW c \in DOMAIN chunks
    PROVE  /\ chunks[c] \in Seq(Seq(Byte))
           /\ Len(chunks[c]) \in 1..MAX_PATTERNS
           /\ Len(chunks[c]) <= Len(raw)
           /\ \A k \in 1..Len(chunks[c]) : chunks[c][k] # <<>>
           /\ Unique(chunks[c]) = chunks[c]
<1>. DEFINE u == Unique(raw)
            chunk == chunks[c]
            first == (c - 1) * MAX_PATTERNS
<1>1. /\ u \in Seq(NonEmpty) /\ Len(u) \in 0..Len(raw) /\ Len(raw) \in Nat
      /\ \A m, n \in DOMAIN u : u[m] = u[n] => m = n
  <2>1. raw \in Seq(Seq(Byte)) /\ \A k \in 1..Len(raw) : raw[k] # <<>>
    BY NoneEmpty DEF CallOK
  <2>. QED  BY <2>1, NonEmptyList, UniqueFacts, LenProperties
<1>2. /\ first \in Nat /\ chunk \in Seq(NonEmpty) /\ Len(chunk) \in 1..MAX_PATTERNS
      /\ \A j \in 1..Len(chunk) : first + j \in 1..Len(u) /\ chunk[j] = u[first + j]
  BY <1>1, ChunkFacts DEF chunks
<1>. HIDE DEF chunk, first, u
<1>3. DOMAIN chunk = 1..Len(chunk) /\ DOMAIN u = 1..Len(u) /\ Len(chunk) \in Nat
  BY <1>1, <1>2, LenProperties
<1>4. \A j, k \in DOMAIN chunk : chunk[j] = chunk[k] => j = k
  <2>1. ASSUME NEW j \in DOMAIN chunk, NEW k \in DOMAIN chunk, chunk[j] = chunk[k]
        PROVE  j = k
    <3>1. first + j = first + k
      BY <1>1, <1>2, <1>3, <2>1
    <3>. QED  BY <1>2, <1>3, <3>1
  <2>. QED  BY <2>1
<1>5. Unique(chunk) = chunk
  BY <1>2, <1>4, UniqueOfDistinct
<1>6. Len(chunk) <= Len(raw)
  <2>1. Len(chunk) \in 1..Len(chunk)
    BY <1>2, <1>3, MaxPatternsAssumption
  <2>2. first + Len(chunk) \in 1..Len(u)
    BY <1>2, <2>1
  <2>. QED  BY <1>1, <1>2, <1>3, <2>2
<1>7. chunk \in Seq(Seq(Byte))
  <2>1. NonEmpty \subseteq Seq(Byte)
    BY DEF NonEmpty
  <2>. QED  BY <1>2, <2>1, SeqMonotonic
<1>8. \A k \in 1..Len(chunk) : chunk[k] # <<>>
  BY <1>2, ElementOfSeq DEF NonEmpty
<1>. QED  BY <1>2, <1>5, <1>6, <1>7, <1>8 DEF chunk

-----------------------------------------------------------------------------
(* The answer that ReportsCause asks for.                                  *)
Cause ==
    LET limited == kind \notin Multi /\ Len(raw) > MAX_PATTERNS
    IN  IF raw = <<>> THEN EmptyPatternSet
        ELSE IF limited THEN PatternLimitExceeded(Len(raw))
        ELSE IF EmptyAt(raw) # {}
             THEN EmptyPattern(CHOOSE k \in EmptyAt(raw) : \A l \in EmptyAt(raw) : k <= l)
        ELSE Ok

LEMMA InitIInv == ASSUME Init PROVE IInv
<1>. USE DEF Init
<1>1. raw \in Seq(Seq(Byte)) /\ Len(raw) \in Nat
  BY ConstructAssumption, LenProperties
<1>2. /\ sieves = <<>> /\ compiled = <<>> /\ kept = <<>> /\ unique = <<>>
      /\ Len(<<>>) = 0 /\ DOMAIN sieves = {} /\ DOMAIN compiled = {}
      /\ \A S : <<>> \in Seq(S)
  BY EmptySeq
<1>3. TypeOK
  BY <1>1, <1>2, MaxPatternsAssumption, PrefixAssumption DEF TypeOK, Pending
<1>4. CallOK
  BY <1>1, <1>2 DEF CallOK
<1>5. Progress
  BY <1>2 DEF Progress, chunk_count, Pending, Ok
<1>6. BuiltAsAsked
  BY <1>2 DEF BuiltAsAsked
<1>7. MultiLoops /\ SieveLoop /\ ReportsCause
  BY <1>2 DEF MultiLoops, SieveLoop, ReportsCause
<1>. QED  BY <1>3, <1>4, <1>5, <1>6, <1>7 DEF IInv

(* The caller's list is fixed, and with it the chunks and the tier.        *)
LEMMA SameCall ==
    ASSUME UNCHANGED call
    PROVE  /\ kind' = kind /\ raw' = raw /\ case_insensitive' = case_insensitive /\ cpu' = cpu
           /\ chunks' = chunks /\ Cause' = Cause /\ select_hardware_tier' = select_hardware_tier
  BY DEF call, chunks, Cause, select_hardware_tier

(* A step that builds no sieve.                                            *)
LEMMA NothingBuilt ==
    ASSUME IInv, UNCHANGED <<call, sieves, compiled>>
    PROVE  CallOK' /\ BuiltAsAsked' /\ chunk_count' = chunk_count
<1>. USE SameCall DEF IInv
<1>1. CallOK'
  BY DEF CallOK
<1>2. BuiltAsAsked'
  BY DEF BuiltAsAsked
<1>3. chunk_count' = chunk_count
  BY DEF chunk_count
<1>. QED  BY <1>1, <1>2, <1>3

(* A constructor returns what it found.                                    *)
LEMMA FinishKeepsIInv ==
    ASSUME IInv, NEW value, Finish(value), value = Cause,
           value.tag \in {"Ok", "EmptyPatternSet", "PatternLimitExceeded", "EmptyPattern"},
           value = Ok => chunk_count = Len(chunks)
    PROVE  IInv'
<1>1. /\ UNCHANGED call /\ result' = value /\ pc' = "done"
      /\ UNCHANGED <<i, list, kept, max_len, unique, compiled, sieves>>
  BY DEF Finish
<1>. USE DEF IInv
<1>2. CallOK' /\ BuiltAsAsked' /\ chunk_count' = chunk_count
  BY <1>1, NothingBuilt
<1>3. kind' = kind /\ raw' = raw /\ chunks' = chunks /\ Cause' = Cause
  BY <1>1, SameCall
<1>4. TypeOK'
  BY <1>1, <1>3 DEF TypeOK
<1>5. Progress'
  BY <1>1, <1>2, <1>3 DEF Progress
<1>6. MultiLoops' /\ SieveLoop'
  BY <1>1 DEF MultiLoops, SieveLoop
<1>7. ReportsCause'
  BY <1>1, <1>3 DEF ReportsCause, Cause
<1>. QED  BY <1>2, <1>4, <1>5, <1>6, <1>7

LEMMA FirstEmpty ==
    ASSUME NEW ps \in Seq(Seq(Byte)), NEW n \in 0..(Len(ps) - 1),
           \A k \in 1..n : ps[k] # <<>>, ps[n + 1] = <<>>
    PROVE  /\ EmptyAt(ps) # {}
           /\ n = CHOOSE k \in EmptyAt(ps) : \A l \in EmptyAt(ps) : k <= l
<1>1. Len(ps) \in Nat
  BY LenProperties
<1>2. n \in EmptyAt(ps)
  BY DEF EmptyAt
<1>3. ASSUME NEW l \in EmptyAt(ps) PROVE l \in Nat /\ n <= l
  <2>1. l \in Nat /\ ps[l + 1] = <<>>
    BY <1>1, <1>3 DEF EmptyAt
  <2>. QED  BY <1>1, <2>1
<1>4. \A k \in EmptyAt(ps) : (\A l \in EmptyAt(ps) : k <= l) => k = n
  BY <1>1, <1>2, <1>3
<1>. QED  BY <1>2, <1>3, <1>4

-----------------------------------------------------------------------------
(* The sieve's build.                                                      *)
LEMMA BuildEntryKeepsIInv ==
    ASSUME IInv, BuildEntry
    PROVE  IInv'
<1>. USE DEF IInv
<1>1. pc = "build" /\ list \in Seq(Seq(Byte)) /\ raw \in Seq(Seq(Byte))
  BY DEF BuildEntry, TypeOK, CallOK
<1>2. kind \in Multi =>
        /\ list # <<>> /\ Len(list) \in 1..MAX_PATTERNS /\ Len(list) <= Len(raw)
  <2>1. SUFFICES ASSUME kind \in Multi PROVE Len(list) \in 1..MAX_PATTERNS /\ Len(list) <= Len(raw)
    BY EmptySeq, MaxPatternsAssumption
  <2>2. chunk_count + 1 \in DOMAIN chunks /\ list = chunks[chunk_count + 1] /\ EmptyAt(raw) = {}
    BY <1>1, <2>1 DEF SieveLoop, MultiLoops
  <2>. QED  BY <2>2, ChunkIsBuildable
<1>3. kind \notin Multi => list = raw
  BY <1>1 DEF SieveLoop
<1>4. CASE list = <<>> /\ Finish(EmptyPatternSet)
  <2>1. EmptyPatternSet = Cause
    BY <1>2, <1>3, <1>4 DEF Cause
  <2>. QED  BY <1>4, <2>1, FinishKeepsIInv DEF EmptyPatternSet, Ok
<1>5. CASE Len(list) > MAX_PATTERNS /\ Finish(PatternLimitExceeded(Len(list)))
  <2>1. kind \notin Multi /\ list = raw /\ raw # <<>>
    BY <1>1, <1>2, <1>3, <1>5, EmptySeq, MaxPatternsAssumption, LenProperties
  <2>2. PatternLimitExceeded(Len(list)) = Cause
    BY <1>5, <2>1 DEF Cause
  <2>. QED  BY <1>5, <2>2, FinishKeepsIInv DEF PatternLimitExceeded, Ok
<1>6. CASE /\ Len(list) \in 1..MAX_PATTERNS
           /\ pc' = "patterns"
           /\ i' = 0 /\ kept' = <<>> /\ max_len' = 0
           /\ UNCHANGED <<call, list, unique, compiled, sieves, result>>
  <2>1. CallOK' /\ BuiltAsAsked' /\ chunk_count' = chunk_count
    BY <1>6, NothingBuilt
  <2>2. kind' = kind /\ raw' = raw /\ chunks' = chunks
    BY <1>6, SameCall
  <2>3. <<>> \in Seq(Seq(Byte) \ {<<>>}) /\ Len(<<>>) = 0 /\ Len(raw) \in Nat
    BY <1>1, EmptySeq, LenProperties
  <2>4. TypeOK'
    BY <1>6, <2>2, <2>3, MaxPatternsAssumption, PrefixAssumption DEF TypeOK
  <2>5. Progress' /\ MultiLoops'
    BY <1>1, <1>6, <2>1, <2>2 DEF Progress, MultiLoops
  <2>6. SieveLoop'
    <3>1. SubSeq(list, 1, 0) = <<>>
      BY SubSeqEmpty
    <3>2. kept' = Unique(SubSeq(list', 1, i'))
      BY <1>6, <3>1, UniqueOfEmpty
    <3>. QED  BY <1>1, <1>6, <2>1, <2>2, <3>2 DEF SieveLoop
  <2>7. ReportsCause'
    BY <1>6 DEF ReportsCause
  <2>. QED  BY <2>1, <2>4, <2>5, <2>6, <2>7
<1>. QED  BY <1>4, <1>5, <1>6 DEF BuildEntry

(* Where the loop over the patterns is.                                    *)
LEMMA InPatterns ==
    ASSUME IInv, pc = "patterns"
    PROVE  /\ list \in Seq(Seq(Byte)) /\ Len(list) \in 1..MAX_PATTERNS
           /\ Len(list) <= Len(raw) /\ Len(raw) \in Nat
           /\ i \in 0..Len(list)
           /\ kept \in Seq(NonEmpty) /\ kept \in Seq(Seq(Byte)) /\ Len(kept) \in 0..i
           /\ kind \in Multi => \A k \in 1..Len(list) : list[k] # <<>>
           /\ kind \notin Multi => list = raw
<1>. USE DEF IInv
<1>1. /\ list \in Seq(Seq(Byte)) /\ raw \in Seq(Seq(Byte)) /\ Len(raw) \in Nat
      /\ Len(list) \in 1..MAX_PATTERNS /\ i \in 0..Len(list)
      /\ \A k \in 1..i : list[k] # <<>>
      /\ kept = Unique(SubSeq(list, 1, i))
  BY LenProperties DEF TypeOK, CallOK, SieveLoop
<1>2. kept \in Seq(NonEmpty) /\ Len(kept) \in 0..i
  BY <1>1, NonEmptyPrefix
<1>3. kept \in Seq(Seq(Byte))
  BY <1>2, SeqMonotonic DEF NonEmpty
<1>4. CASE kind \in Multi
  <2>1. chunk_count + 1 \in DOMAIN chunks /\ list = chunks[chunk_count + 1] /\ EmptyAt(raw) = {}
    BY <1>4 DEF SieveLoop, MultiLoops
  <2>2. Len(list) <= Len(raw) /\ \A k \in 1..Len(list) : list[k] # <<>>
    BY <2>1, ChunkIsBuildable
  <2>. QED  BY <1>1, <1>2, <1>3, <1>4, <2>2
<1>5. CASE kind \notin Multi
  BY <1>1, <1>2, <1>3, <1>5 DEF SieveLoop
<1>. QED  BY <1>4, <1>5

LEMMA BuildPatternKeepsIInv ==
    ASSUME IInv, BuildPattern
    PROVE  IInv'
<1>. USE DEF IInv
<1>1. pc = "patterns" /\ i < Len(list)
  BY DEF BuildPattern
<1>2. /\ list \in Seq(Seq(Byte)) /\ Len(list) \in 1..MAX_PATTERNS
      /\ Len(list) <= Len(raw) /\ Len(raw) \in Nat
      /\ i \in 0..(Len(list) - 1)
      /\ kept \in Seq(NonEmpty) /\ kept \in Seq(Seq(Byte)) /\ Len(kept) \in 0..i
      /\ kind \in Multi => \A k \in 1..Len(list) : list[k] # <<>>
      /\ kind \notin Multi => list = raw
  BY <1>1, InPatterns
<1>3. /\ \A k \in 1..i : list[k] # <<>>
      /\ kept = Unique(SubSeq(list, 1, i))
      /\ IF kept = <<>> THEN max_len = 0 ELSE IsMaxLen(kept, max_len)
      /\ max_len \in 0..PREFIX
  BY <1>1 DEF SieveLoop, TypeOK
<1>. DEFINE p == list[i + 1]
<1>4. CASE p = <<>> /\ Finish(EmptyPattern(i))
  <2>1. kind \notin Multi /\ list = raw
    BY <1>2, <1>4
  <2>2. raw # <<>> /\ ~(Len(raw) > MAX_PATTERNS)
    BY <1>2, <2>1, EmptySeq, MaxPatternsAssumption
  <2>3. /\ EmptyAt(raw) # {}
        /\ i = CHOOSE k \in EmptyAt(raw) : \A l \in EmptyAt(raw) : k <= l
    BY <1>2, <1>3, <1>4, <2>1, FirstEmpty
  <2>4. EmptyPattern(i) = Cause
    BY <2>2, <2>3 DEF Cause
  <2>. QED  BY <1>4, <2>4, FinishKeepsIInv DEF EmptyPattern, Ok
<1>5. CASE /\ p # <<>>
           /\ i' = i + 1
           /\ IF Seen(p, kept)
              THEN UNCHANGED <<kept, max_len>>
              ELSE kept' = Append(kept, p) /\ max_len' = Longer(max_len, p)
           /\ UNCHANGED <<call, pc, list, unique, compiled, sieves, result>>
  <2>1. CallOK' /\ BuiltAsAsked' /\ chunk_count' = chunk_count
    BY <1>5, NothingBuilt
  <2>2. kind' = kind /\ raw' = raw /\ chunks' = chunks
    BY <1>5, SameCall
  <2>3. p \in Seq(Byte) /\ kept' = Unique(SubSeq(list, 1, i + 1))
    BY <1>2, <1>3, <1>5, UniqueOfPrefix DEF Seen
  <2>4. i' \in 0..Len(list) /\ \A k \in 1..(i + 1) : list[k] # <<>>
    BY <1>2, <1>3, <1>5
  <2>5. kept' \in Seq(NonEmpty) /\ Len(kept') <= MAX_PATTERNS
    <3>1. Unique(SubSeq(list, 1, i + 1)) \in Seq(NonEmpty)
          /\ Len(Unique(SubSeq(list, 1, i + 1))) \in 0..(i + 1)
      BY <1>2, <2>4, NonEmptyPrefix
    <3>. QED  BY <1>2, <2>3, <3>1, MaxPatternsAssumption
  <2>6. /\ IF kept' = <<>> THEN max_len' = 0 ELSE IsMaxLen(kept', max_len')
        /\ max_len' \in 0..PREFIX
    <3>1. CASE Seen(p, kept)
      BY <1>3, <1>5, <3>1
    <3>2. CASE ~Seen(p, kept)
      <4>1. kept' = Append(kept, p) /\ max_len' = Longer(max_len, p) /\ kept' # <<>>
        <5>1. Append(kept, p) # <<>>
          BY <1>2, <2>3, AppendProperties
        <5>. QED  BY <1>5, <3>2, <5>1
      <4>2. IsMaxLen(kept', max_len') /\ max_len' \in 0..PREFIX
        BY <1>2, <1>3, <2>3, <4>1, LongerIsMaxLen
      <4>. QED  BY <4>1, <4>2
    <3>. QED  BY <3>1, <3>2
  <2>7. TypeOK'
    BY <1>1, <1>2, <1>5, <2>2, <2>4, <2>5, <2>6 DEF TypeOK, NonEmpty
  <2>8. Progress' /\ MultiLoops'
    BY <1>1, <1>5, <2>1, <2>2 DEF Progress, MultiLoops
  <2>9. SieveLoop'
    <3>1. IF kind \in Multi
          THEN chunk_count + 1 \in DOMAIN chunks /\ list = chunks[chunk_count + 1]
          ELSE list = raw
      BY <1>1 DEF SieveLoop
    <3>2. /\ pc' = "patterns" /\ list' = list
      BY <1>1, <1>5
    <3>. QED  BY <1>2, <1>5, <2>1, <2>2, <2>3, <2>4, <2>6, <3>1, <3>2 DEF SieveLoop
  <2>10. ReportsCause'
    BY <1>1, <1>5 DEF ReportsCause
  <2>. QED  BY <2>1, <2>7, <2>8, <2>9, <2>10
<1>. QED  BY <1>4, <1>5 DEF BuildPattern

(* What the loop leaves is the next chunk of the distinct patterns.        *)
LEMMA KeptIsNextChunk ==
    ASSUME IInv, pc = "patterns", i = Len(list)
    PROVE  /\ chunk_count + 1 \in DOMAIN chunks
           /\ kept = chunks[chunk_count + 1]
           /\ IsMaxLen(kept, max_len)
           /\ raw # <<>> /\ EmptyAt(raw) = {}
           /\ kind \notin Multi => Len(raw) <= MAX_PATTERNS /\ chunk_count = 0 /\ Len(chunks) = 1
<1>. USE DEF IInv
<1>1. /\ list \in Seq(Seq(Byte)) /\ Len(list) \in 1..MAX_PATTERNS
      /\ kind \notin Multi => list = raw
      /\ \A k \in 1..Len(list) : list[k] # <<>>
      /\ kept = Unique(SubSeq(list, 1, Len(list)))
      /\ IF kept = <<>> THEN max_len = 0 ELSE IsMaxLen(kept, max_len)
  BY InPatterns DEF SieveLoop
<1>2. kept = Unique(list) /\ Len(Unique(list)) \in 1..MAX_PATTERNS
  <2>1. kept = Unique(list)
    BY <1>1, SubSeqFull
  <2>2. /\ Len(Unique(list)) \in 0..Len(list) /\ Unique(list) \in Seq(NonEmpty)
        /\ Unique(list) # <<>>
    BY <1>1, NonEmptyList, EmptySeq, MaxPatternsAssumption
  <2>3. Len(Unique(list)) # 0
    BY <2>2, EmptySeq
  <2>. QED  BY <1>1, <2>1, <2>2, <2>3, MaxPatternsAssumption
<1>3. IsMaxLen(kept, max_len)
  BY <1>1, <1>2, EmptySeq
<1>4. CASE kind \in Multi
  <2>1. /\ chunk_count + 1 \in DOMAIN chunks /\ list = chunks[chunk_count + 1]
        /\ EmptyAt(raw) = {} /\ raw # <<>>
    BY <1>4 DEF SieveLoop, MultiLoops
  <2>2. Unique(list) = list
    BY <2>1, ChunkIsBuildable
  <2>. QED  BY <1>2, <1>3, <1>4, <2>1, <2>2
<1>5. CASE kind \notin Multi
  <2>1. /\ list = raw /\ raw # <<>> /\ EmptyAt(raw) = {} /\ Len(raw) <= MAX_PATTERNS
    BY <1>1, <1>5, EmptySeq, NoneEmpty, MaxPatternsAssumption
  <2>2. Len(chunks) = 1 /\ chunks[1] = kept
    <3>1. Unique(raw) \in Seq(Seq(Byte))
      BY UniqueFacts DEF CallOK
    <3>. QED  BY <1>2, <2>1, <3>1, OneChunk DEF chunks
  <2>3. chunk_count = 0 /\ 1 \in DOMAIN chunks
    BY <1>5, <2>2, ChunksOfList DEF Progress
  <2>. QED  BY <1>3, <1>5, <2>1, <2>2, <2>3
<1>. QED  BY <1>4, <1>5

LEMMA SlotsType ==
    ASSUME NEW ps \in Seq(Seq(Byte))
    PROVE  Slots(ps) \in [0..(MAX_PATTERNS - 1) -> Seq(Byte)]
<1>1. ASSUME NEW k \in 0..(MAX_PATTERNS - 1)
      PROVE  (IF k < Len(ps) THEN ps[k + 1] ELSE <<>>) \in Seq(Byte)
  <2>1. Len(ps) \in Nat /\ \A j \in 1..Len(ps) : ps[j] \in Seq(Byte)
    BY LenProperties, ElementOfSeq
  <2>2. k < Len(ps) => k + 1 \in 1..Len(ps)
    BY <2>1, MaxPatternsAssumption
  <2>. QED  BY <2>1, <2>2, EmptySeq
<1>. QED  BY <1>1 DEF Slots

(* What both builds do around the sieve they append.                       *)
LEMMA BuiltKeepsIInv ==
    ASSUME IInv, Built, CallOK', BuiltAsAsked', chunk_count' = chunk_count + 1,
           kind \notin Compiled => compiled' = <<>>,
           kind \in Compiled => sieves' = sieves,
           \A c \in DOMAIN compiled' : Len(compiled'[c].patterns) <= MAX_PATTERNS
    PROVE  IInv'
<1>. USE DEF IInv
<1>1. /\ pc = "patterns" /\ i = Len(list)
      /\ UNCHANGED <<call, i, list, kept, max_len, unique>>
      /\ kind \in Multi => pc' = "chunks" /\ result' = result
      /\ kind \notin Multi => pc' = "done" /\ result' = Ok
  BY DEF Built
<1>2. kind' = kind /\ raw' = raw /\ chunks' = chunks /\ Cause' = Cause
  BY <1>1, SameCall
<1>3. /\ chunk_count + 1 \in DOMAIN chunks
      /\ raw # <<>> /\ EmptyAt(raw) = {}
      /\ kind \notin Multi => Len(raw) <= MAX_PATTERNS /\ chunk_count = 0 /\ Len(chunks) = 1
  BY <1>1, KeptIsNextChunk
<1>4. Len(chunks) \in Nat /\ DOMAIN chunks = 1..Len(chunks) /\ Len(raw) \in Nat
  BY ChunksOfList, LenProperties DEF CallOK
<1>5. TypeOK'
  BY <1>1, <1>2 DEF TypeOK, Ok
<1>6. Progress'
  <2>1. kind \in Compiled => sieves = <<>> /\ Len(sieves') <= Len(compiled')
    <3>1. kind \in Compiled => sieves' = <<>>
      BY <1>1 DEF Progress
    <3>2. Len(compiled') \in Nat
      BY LenProperties DEF CallOK
    <3>. QED  BY <1>1, <3>1, <3>2, EmptySeq DEF Progress
  <2>2. chunk_count' <= Len(chunks) /\ (kind \notin Multi => chunk_count' = Len(chunks))
    BY <1>3, <1>4
  <2>3. kind \in Multi => result' = Pending
    BY <1>1 DEF Progress
  <2>4. kind \in Multi => result' # Ok
    BY <2>3 DEF Pending, Ok
  <2>5. kind \in Compiled => sieves' = <<>>
    BY <1>1, <2>1
  <2>. QED  BY <1>1, <1>2, <2>1, <2>2, <2>3, <2>4, <2>5 DEF Progress
<1>7. MultiLoops'
  BY <1>1, <1>2, <1>3 DEF MultiLoops
<1>8. SieveLoop'
  BY <1>1 DEF SieveLoop
<1>9. ReportsCause'
  <2>1. kind \notin Multi => Cause = Ok
    BY <1>3, <1>4, MaxPatternsAssumption DEF Cause
  <2>2. pc' = "done" => result' = Cause'
    BY <1>1, <1>2, <2>1
  <2>. QED  BY <2>2 DEF ReportsCause, Cause
<1>. QED  BY <1>5, <1>6, <1>7, <1>8, <1>9

LEMMA SimdSieveBuilt ==
    ASSUME IInv, kind \notin Compiled, Built, compiled' = compiled,
           sieves' = Append(sieves,
                [patterns |-> Slots(kept), count |-> Len(kept), max_len |-> max_len,
                 tier |-> select_hardware_tier, folds |-> case_insensitive])
    PROVE  IInv'
<1>. USE DEF IInv
<1>. DEFINE sieve == [patterns |-> Slots(kept), count |-> Len(kept), max_len |-> max_len,
                      tier |-> select_hardware_tier, folds |-> case_insensitive]
<1>1. pc = "patterns" /\ i = Len(list) /\ UNCHANGED call
  BY DEF Built
<1>2. /\ kind' = kind /\ raw' = raw /\ case_insensitive' = case_insensitive /\ cpu' = cpu
      /\ chunks' = chunks /\ select_hardware_tier' = select_hardware_tier
  BY <1>1, SameCall
<1>3. /\ kept = chunks[chunk_count + 1] /\ IsMaxLen(kept, max_len)
  BY <1>1, KeptIsNextChunk
<1>4. sieve \in SimdSieve
  <2>1. kept \in Seq(Seq(Byte)) /\ Len(kept) \in Nat /\ max_len \in Nat
    BY <1>1, InPatterns, PrefixAssumption DEF TypeOK
  <2>2. Slots(kept) \in [0..(MAX_PATTERNS - 1) -> Seq(Byte)]
    BY <2>1, SlotsType
  <2>3. select_hardware_tier \in Tier /\ case_insensitive \in BOOLEAN
    BY SelectedTierRuns DEF CallOK
  <2>. QED  BY <2>1, <2>2, <2>3 DEF SimdSieve
<1>. HIDE DEF sieve
<1>5. /\ sieves' = Append(sieves, sieve) /\ sieves \in Seq(SimdSieve)
      /\ compiled = <<>> /\ Len(<<>>) = 0 /\ DOMAIN compiled = {}
  BY EmptySeq DEF sieve, CallOK, Progress
<1>6. /\ sieves' \in Seq(SimdSieve) /\ Len(sieves') = Len(sieves) + 1
      /\ DOMAIN sieves' = 1..(Len(sieves) + 1) /\ DOMAIN sieves = 1..Len(sieves)
      /\ Len(sieves) \in Nat
      /\ \A s \in 1..Len(sieves) : sieves'[s] = sieves[s]
      /\ sieves'[Len(sieves) + 1] = sieve
  <2>1. /\ Append(sieves, sieve) \in Seq(SimdSieve)
        /\ Len(Append(sieves, sieve)) = Len(sieves) + 1
        /\ \A s \in 1..Len(sieves) : Append(sieves, sieve)[s] = sieves[s]
        /\ Append(sieves, sieve)[Len(sieves) + 1] = sieve
    BY <1>4, <1>5, AppendProperties
  <2>. QED  BY <1>5, <2>1, LenProperties
<1>7. chunk_count = Len(sieves) /\ chunk_count' = chunk_count + 1
  BY <1>2, <1>6 DEF chunk_count
<1>8. CallOK'
  BY <1>1, <1>2, <1>6 DEF CallOK
<1>9. BuiltAsAsked'
  <2>1. ASSUME NEW s \in DOMAIN sieves'
        PROVE  /\ sieves'[s].patterns = Slots(chunks[s])
               /\ sieves'[s].count = Len(chunks[s])
               /\ IsMaxLen(chunks[s], sieves'[s].max_len)
               /\ sieves'[s].tier = select_hardware_tier
               /\ sieves'[s].folds = case_insensitive
    <3>1. CASE s \in 1..Len(sieves)
      BY <1>6, <3>1 DEF BuiltAsAsked
    <3>2. CASE s = Len(sieves) + 1
      BY <1>3, <1>6, <1>7, <3>2 DEF sieve
    <3>. QED  BY <1>6, <3>1, <3>2
  <2>. QED  BY <1>2, <1>5, <2>1 DEF BuiltAsAsked
<1>10. \A c \in DOMAIN compiled' : Len(compiled'[c].patterns) <= MAX_PATTERNS
  BY <1>5
<1>. QED  BY <1>5, <1>7, <1>8, <1>9, <1>10, BuiltKeepsIInv

LEMMA CompiledSieveBuilt ==
    ASSUME IInv, kind \in Compiled, Built, sieves' = sieves,
           compiled' = Append(compiled,
                [patterns |-> kept, max_len |-> max_len,
                 tier |-> select_hardware_tier, folds |-> case_insensitive])
    PROVE  IInv'
<1>. USE DEF IInv
<1>. DEFINE sieve == [patterns |-> kept, max_len |-> max_len,
                      tier |-> select_hardware_tier, folds |-> case_insensitive]
<1>1. pc = "patterns" /\ i = Len(list) /\ UNCHANGED call
  BY DEF Built
<1>2. /\ kind' = kind /\ raw' = raw /\ case_insensitive' = case_insensitive /\ cpu' = cpu
      /\ chunks' = chunks /\ select_hardware_tier' = select_hardware_tier
  BY <1>1, SameCall
<1>3. /\ kept = chunks[chunk_count + 1] /\ IsMaxLen(kept, max_len)
  BY <1>1, KeptIsNextChunk
<1>4. sieve \in CompiledSieve /\ Len(sieve.patterns) <= MAX_PATTERNS
  <2>1. kept \in Seq(NonEmpty) /\ max_len \in Nat /\ Len(kept) <= MAX_PATTERNS
    BY <1>1, InPatterns, PrefixAssumption DEF TypeOK
  <2>2. select_hardware_tier \in Tier /\ case_insensitive \in BOOLEAN
    BY SelectedTierRuns DEF CallOK
  <2>. QED  BY <2>1, <2>2 DEF CompiledSieve, NonEmpty
<1>. HIDE DEF sieve
<1>5. /\ compiled' = Append(compiled, sieve) /\ compiled \in Seq(CompiledSieve)
      /\ sieves = <<>> /\ Len(<<>>) = 0 /\ DOMAIN sieves = {}
  BY <1>1, EmptySeq DEF sieve, CallOK, Progress
<1>6. /\ compiled' \in Seq(CompiledSieve) /\ Len(compiled') = Len(compiled) + 1
      /\ DOMAIN compiled' = 1..(Len(compiled) + 1) /\ DOMAIN compiled = 1..Len(compiled)
      /\ Len(compiled) \in Nat
      /\ \A s \in 1..Len(compiled) : compiled'[s] = compiled[s]
      /\ compiled'[Len(compiled) + 1] = sieve
  <2>1. /\ Append(compiled, sieve) \in Seq(CompiledSieve)
        /\ Len(Append(compiled, sieve)) = Len(compiled) + 1
        /\ \A s \in 1..Len(compiled) : Append(compiled, sieve)[s] = compiled[s]
        /\ Append(compiled, sieve)[Len(compiled) + 1] = sieve
    BY <1>4, <1>5, AppendProperties
  <2>. QED  BY <1>5, <2>1, LenProperties
<1>7. chunk_count = Len(compiled) /\ chunk_count' = chunk_count + 1
  BY <1>2, <1>6 DEF chunk_count
<1>8. CallOK'
  BY <1>1, <1>2, <1>6 DEF CallOK
<1>9. BuiltAsAsked'
  <2>1. ASSUME NEW s \in DOMAIN compiled'
        PROVE  /\ compiled'[s].patterns = chunks[s]
               /\ IsMaxLen(chunks[s], compiled'[s].max_len)
               /\ compiled'[s].tier = select_hardware_tier
               /\ compiled'[s].folds = case_insensitive
    <3>1. CASE s \in 1..Len(compiled)
      BY <1>6, <3>1 DEF BuiltAsAsked
    <3>2. CASE s = Len(compiled) + 1
      BY <1>3, <1>6, <1>7, <3>2 DEF sieve
    <3>. QED  BY <1>6, <3>1, <3>2
  <2>. QED  BY <1>2, <1>5, <2>1 DEF BuiltAsAsked
<1>10. \A c \in DOMAIN compiled' : Len(compiled'[c].patterns) <= MAX_PATTERNS
  BY <1>4, <1>6 DEF TypeOK
<1>. QED  BY <1>5, <1>7, <1>8, <1>9, <1>10, BuiltKeepsIInv

-----------------------------------------------------------------------------
(* The multi-sieve's build.                                                *)
LEMMA MultiEntryKeepsIInv ==
    ASSUME IInv, MultiEntry, kind \in Multi
    PROVE  IInv'
<1>. USE DEF IInv
<1>1. pc = "multi"
  BY DEF MultiEntry
<1>2. CASE raw = <<>> /\ Finish(EmptyPatternSet)
  <2>1. EmptyPatternSet = Cause
    BY <1>2 DEF Cause
  <2>. QED  BY <1>2, <2>1, FinishKeepsIInv DEF EmptyPatternSet, Ok
<1>3. CASE /\ raw # <<>>
           /\ pc' = "validate"
           /\ UNCHANGED <<call, i, list, kept, max_len, unique, compiled, sieves, result>>
  <2>1. CallOK' /\ BuiltAsAsked' /\ chunk_count' = chunk_count
    BY <1>3, NothingBuilt
  <2>2. kind' = kind /\ raw' = raw /\ chunks' = chunks
    BY <1>3, SameCall
  <2>3. TypeOK' /\ ReportsCause'
    BY <1>3, <2>2 DEF TypeOK, ReportsCause
  <2>4. Progress' /\ SieveLoop'
    BY <1>1, <1>3, <2>1, <2>2 DEF Progress, SieveLoop
  <2>5. MultiLoops'
    BY <1>1, <1>3, <2>2 DEF MultiLoops
  <2>. QED  BY <2>1, <2>3, <2>4, <2>5
<1>. QED  BY <1>2, <1>3 DEF MultiEntry

LEMMA ValidateKeepsIInv ==
    ASSUME IInv, Validate, kind \in Multi
    PROVE  IInv'
<1>. USE DEF IInv
<1>1. pc = "validate" /\ raw \in Seq(Seq(Byte)) /\ Len(raw) \in Nat /\ i \in 0..Len(raw)
  BY LenProperties DEF Validate, TypeOK, CallOK
<1>2. raw # <<>> /\ (\A k \in 1..i : raw[k] # <<>>) /\ unique = <<>>
  BY <1>1 DEF MultiLoops
<1>3. CASE i < Len(raw) /\ raw[i + 1] = <<>> /\ Finish(EmptyPattern(i))
  <2>1. /\ EmptyAt(raw) # {}
        /\ i = CHOOSE k \in EmptyAt(raw) : \A l \in EmptyAt(raw) : k <= l
    <3>1. i \in 0..(Len(raw) - 1)
      BY <1>1, <1>3
    <3>. QED  BY <1>1, <1>2, <1>3, <3>1, FirstEmpty
  <2>2. EmptyPattern(i) = Cause
    BY <1>2, <2>1 DEF Cause
  <2>. QED  BY <1>3, <2>2, FinishKeepsIInv DEF EmptyPattern, Ok
<1>4. CASE /\ i < Len(raw) /\ raw[i + 1] # <<>>
           /\ i' = i + 1
           /\ UNCHANGED <<call, pc, list, kept, max_len, unique, compiled, sieves, result>>
  <2>1. CallOK' /\ BuiltAsAsked' /\ chunk_count' = chunk_count
    BY <1>4, NothingBuilt
  <2>2. kind' = kind /\ raw' = raw /\ chunks' = chunks
    BY <1>4, SameCall
  <2>3. i' \in 0..Len(raw) /\ \A k \in 1..i' : raw[k] # <<>>
    BY <1>1, <1>2, <1>4
  <2>4. TypeOK' /\ ReportsCause'
    BY <1>1, <1>4, <2>2, <2>3 DEF TypeOK, ReportsCause
  <2>5. Progress' /\ SieveLoop'
    BY <1>1, <1>4, <2>1, <2>2 DEF Progress, SieveLoop
  <2>6. MultiLoops'
    BY <1>1, <1>2, <1>4, <2>2, <2>3 DEF MultiLoops
  <2>. QED  BY <2>1, <2>4, <2>5, <2>6
<1>5. CASE /\ i = Len(raw)
           /\ i' = 0
           /\ pc' = "dedup"
           /\ UNCHANGED <<call, list, kept, max_len, unique, compiled, sieves, result>>
  <2>1. CallOK' /\ BuiltAsAsked' /\ chunk_count' = chunk_count
    BY <1>5, NothingBuilt
  <2>2. kind' = kind /\ raw' = raw /\ chunks' = chunks
    BY <1>5, SameCall
  <2>3. TypeOK' /\ ReportsCause'
    BY <1>1, <1>5, <2>2 DEF TypeOK, ReportsCause
  <2>4. Progress' /\ SieveLoop'
    BY <1>1, <1>5, <2>1, <2>2 DEF Progress, SieveLoop
  <2>5. EmptyAt(raw) = {} /\ unique = Unique(SubSeq(raw, 1, 0))
    <3>1. SubSeq(raw, 1, 0) = <<>>
      BY SubSeqEmpty
    <3>. QED  BY <1>1, <1>2, <1>5, <3>1, NoneEmpty, UniqueOfEmpty
  <2>6. MultiLoops'
    BY <1>1, <1>2, <1>5, <2>2, <2>5 DEF MultiLoops
  <2>. QED  BY <2>1, <2>3, <2>4, <2>6
<1>. QED  BY <1>3, <1>4, <1>5 DEF Validate

LEMMA DedupKeepsIInv ==
    ASSUME IInv, Dedup, kind \in Multi
    PROVE  IInv'
<1>. USE DEF IInv
<1>1. /\ pc = "dedup" /\ i < Len(raw) /\ i' = i + 1
      /\ unique' = IF Seen(raw[i + 1], unique) THEN unique ELSE Append(unique, raw[i + 1])
      /\ UNCHANGED <<call, pc, list, kept, max_len, compiled, sieves, result>>
  BY DEF Dedup
<1>2. raw \in Seq(Seq(Byte)) /\ Len(raw) \in Nat /\ i \in 0..(Len(raw) - 1)
  BY <1>1, LenProperties DEF TypeOK, CallOK
<1>3. raw # <<>> /\ EmptyAt(raw) = {} /\ unique = Unique(SubSeq(raw, 1, i))
  BY <1>1 DEF MultiLoops
<1>4. CallOK' /\ BuiltAsAsked' /\ chunk_count' = chunk_count
  BY <1>1, NothingBuilt
<1>5. kind' = kind /\ raw' = raw /\ chunks' = chunks
  BY <1>1, SameCall
<1>6. unique' = Unique(SubSeq(raw, 1, i + 1)) /\ unique' \in Seq(NonEmpty)
  <2>1. unique' = Unique(SubSeq(raw, 1, i + 1))
    BY <1>1, <1>2, <1>3, UniqueOfPrefix DEF Seen
  <2>2. \A k \in 1..(i + 1) : raw[k] # <<>>
    <3>1. \A k \in 1..Len(raw) : raw[k] # <<>>
      BY <1>2, <1>3, NoneEmpty
    <3>. QED  BY <1>2, <3>1
  <2>3. i + 1 \in 0..Len(raw)
    BY <1>2
  <2>. QED  BY <1>2, <2>1, <2>2, <2>3, NonEmptyPrefix
<1>7. TypeOK' /\ ReportsCause'
  BY <1>1, <1>2, <1>5, <1>6 DEF TypeOK, ReportsCause, NonEmpty
<1>8. Progress' /\ SieveLoop'
  BY <1>1, <1>4, <1>5 DEF Progress, SieveLoop
<1>9. MultiLoops'
  BY <1>1, <1>3, <1>5, <1>6 DEF MultiLoops
<1>. QED  BY <1>4, <1>7, <1>8, <1>9

LEMMA DedupedKeepsIInv ==
    ASSUME IInv, Deduped, kind \in Multi
    PROVE  IInv'
<1>. USE DEF IInv
<1>1. /\ pc = "dedup" /\ i = Len(raw) /\ pc' = "chunks"
      /\ UNCHANGED <<call, i, list, kept, max_len, unique, compiled, sieves, result>>
  BY DEF Deduped
<1>2. raw # <<>> /\ EmptyAt(raw) = {} /\ unique = Unique(raw)
  BY <1>1, SubSeqFull DEF MultiLoops, CallOK
<1>3. CallOK' /\ BuiltAsAsked' /\ chunk_count' = chunk_count
  BY <1>1, NothingBuilt
<1>4. kind' = kind /\ raw' = raw /\ chunks' = chunks
  BY <1>1, SameCall
<1>5. TypeOK' /\ ReportsCause'
  BY <1>1, <1>4 DEF TypeOK, ReportsCause
<1>6. Progress' /\ SieveLoop'
  BY <1>1, <1>3, <1>4, ChunksOfList DEF Progress, SieveLoop
<1>7. MultiLoops'
  BY <1>1, <1>2, <1>4 DEF MultiLoops
<1>. QED  BY <1>3, <1>5, <1>6, <1>7

LEMMA ChunkKeepsIInv ==
    ASSUME IInv, Chunk, kind \in Multi
    PROVE  IInv'
<1>. USE DEF IInv
<1>. DEFINE first == (Len(sieves) + Len(compiled)) * chunk_size
            last  == IF first + chunk_size < Len(unique) THEN first + chunk_size
                                                         ELSE Len(unique)
<1>1. /\ pc = "chunks"
      /\ \/ /\ first < Len(unique)
            /\ list' = SubSeq(unique, first + 1, last)
            /\ pc' = "build"
            /\ UNCHANGED <<call, i, kept, max_len, unique, compiled, sieves, result>>
         \/ first >= Len(unique) /\ Finish(Ok)
  BY DEF Chunk
<1>2. raw # <<>> /\ EmptyAt(raw) = {} /\ unique = Unique(raw)
  BY <1>1 DEF MultiLoops
<1>3. /\ Len(chunks) \in Nat /\ DOMAIN chunks = 1..Len(chunks)
      /\ Len(unique) \in Nat /\ unique \in Seq(Seq(Byte))
      /\ chunk_count <= Len(chunks) /\ chunk_count \in Nat
  <2>1. Len(sieves) \in Nat /\ Len(compiled) \in Nat /\ unique \in Seq(Seq(Byte))
    BY <1>2, LenProperties, UniqueFacts DEF CallOK
  <2>. QED  BY <1>1, <2>1, ChunksOfList, LenProperties DEF Progress, chunk_count
<1>4. first = chunk_count * MAX_PATTERNS
  <2>1. kind \in Compiled => Len(sieves) = 0
    BY <1>1, EmptySeq DEF Progress
  <2>2. kind \notin Compiled => Len(compiled) = 0
    BY <1>1, EmptySeq DEF Progress
  <2>3. Len(sieves) \in Nat /\ Len(compiled) \in Nat
    BY LenProperties DEF CallOK
  <2>4. Len(sieves) + Len(compiled) = chunk_count
    BY <2>1, <2>2, <2>3 DEF chunk_count
  <2>. QED  BY <2>4 DEF chunk_size
<1>. HIDE DEF first
<1>5. chunk_count + 1 \in DOMAIN chunks <=> first < Len(unique)
  <2>1. chunk_count + 1 \in Nat \ {0} /\ (chunk_count + 1) - 1 = chunk_count
    BY <1>3
  <2>. QED  BY <1>2, <1>4, <2>1, ChunksOfList
<1>6. CASE first >= Len(unique) /\ Finish(Ok)
  <2>1. first \in Nat
    BY <1>3, <1>4, MaxPatternsAssumption
  <2>2. chunk_count = Len(chunks)
    <3>1. ~(first < Len(unique))
      BY <1>3, <1>6, <2>1
    <3>2. chunk_count + 1 \notin 1..Len(chunks)
      BY <1>3, <1>5, <3>1
    <3>3. \A built, all \in Nat : built <= all /\ built + 1 \notin 1..all => built = all
      OBVIOUS
    <3>. QED  BY <1>3, <3>2, <3>3
  <2>3. Ok = Cause
    BY <1>2 DEF Cause
  <2>. QED  BY <1>6, <2>2, <2>3, FinishKeepsIInv DEF Ok
<1>7. CASE /\ first < Len(unique)
           /\ list' = SubSeq(unique, first + 1, last)
           /\ pc' = "build"
           /\ UNCHANGED <<call, i, kept, max_len, unique, compiled, sieves, result>>
  <2>1. CallOK' /\ BuiltAsAsked' /\ chunk_count' = chunk_count
    BY <1>7, NothingBuilt
  <2>2. kind' = kind /\ raw' = raw /\ chunks' = chunks
    BY <1>7, SameCall
  <2>3. chunk_count + 1 \in DOMAIN chunks
    BY <1>5, <1>7
  <2>4. list' = chunks[chunk_count + 1]
    <3>. SUFFICES ASSUME NEW c \in DOMAIN Chunks(unique), c = chunk_count + 1
                  PROVE  list' = Chunks(unique)[c]
      BY <1>2, <2>3 DEF chunks
    <3>1. (c - 1) * MAX_PATTERNS = first
      BY <1>3, <1>4
    <3>2. Chunks(unique)[c] = SubSeq(unique, first + 1,
            IF first + MAX_PATTERNS < Len(unique) THEN first + MAX_PATTERNS ELSE Len(unique))
      BY <1>3, <3>1, ChunkFacts
    <3>. QED  BY <1>7, <3>2 DEF chunk_size
  <2>5. list' \in Seq(Seq(Byte))
    BY <1>2, <2>3, <2>4, ChunkIsBuildable
  <2>6. TypeOK' /\ ReportsCause'
    BY <1>7, <2>2, <2>5 DEF TypeOK, ReportsCause
  <2>7. Progress'
    BY <1>1, <1>7, <2>1, <2>2 DEF Progress
  <2>8. MultiLoops' /\ SieveLoop'
    BY <1>2, <1>7, <2>1, <2>2, <2>3, <2>4 DEF MultiLoops, SieveLoop
  <2>. QED  BY <2>1, <2>6, <2>7, <2>8
<1>. QED  BY <1>1, <1>6, <1>7

-----------------------------------------------------------------------------
LEMMA ScanKeepsIInv ==
    ASSUME IInv, CompiledMultiSieve_scan
    PROVE  IInv'
<1>. USE DEF IInv
<1>. DEFINE n == Len(sieves) + 1
            cs == compiled[n]
            sieve == CompiledSieve_scan(cs)
<1>1. /\ pc = "done" /\ result = Ok /\ Len(sieves) < Len(compiled)
      /\ sieves' = Append(sieves, sieve)
      /\ UNCHANGED <<call, pc, i, list, kept, max_len, unique, compiled, result>>
  BY DEF CompiledMultiSieve_scan
<1>2. /\ kind' = kind /\ raw' = raw /\ case_insensitive' = case_insensitive /\ cpu' = cpu
      /\ chunks' = chunks /\ select_hardware_tier' = select_hardware_tier
      /\ Cause' = Cause
  BY <1>1, SameCall
<1>3. /\ Len(sieves) \in Nat /\ Len(compiled) \in Nat /\ n \in 1..Len(compiled)
      /\ DOMAIN sieves = 1..Len(sieves) /\ DOMAIN compiled = 1..Len(compiled)
      /\ compiled \in Seq(CompiledSieve) /\ sieves \in Seq(SimdSieve)
  BY <1>1, LenProperties DEF CallOK
<1>4. kind \in Compiled
  <2>1. kind \notin Compiled => Len(compiled) = 0
    BY EmptySeq DEF Progress
  <2>. QED  BY <1>1, <1>3, <2>1
<1>5. cs \in CompiledSieve
  BY <1>3, ElementOfSeq
<1>6. /\ cs.patterns = chunks[n] /\ IsMaxLen(chunks[n], cs.max_len)
      /\ cs.tier = select_hardware_tier /\ cs.folds = case_insensitive
  BY <1>3 DEF BuiltAsAsked
<1>. HIDE DEF n, cs
<1>7. sieve = [patterns |-> Slots(chunks[n]), count |-> Len(chunks[n]),
               max_len |-> cs.max_len, tier |-> cs.tier, folds |-> cs.folds]
  BY <1>6 DEF CompiledSieve_scan
<1>8. sieve \in SimdSieve
  <2>1. cs.patterns \in Seq(Seq(Byte)) /\ Len(cs.patterns) \in Nat
    <3>1. cs.patterns \in Seq(Seq(Byte) \ {<<>>})
      BY <1>5 DEF CompiledSieve
    <3>. QED  BY <3>1, SeqMonotonic, LenProperties
  <2>2. Slots(cs.patterns) \in [0..(MAX_PATTERNS - 1) -> Seq(Byte)]
    BY <2>1, SlotsType
  <2>. QED  BY <1>5, <2>1, <2>2 DEF CompiledSieve, SimdSieve, CompiledSieve_scan
<1>. HIDE DEF sieve
<1>9. /\ sieves' \in Seq(SimdSieve) /\ Len(sieves') = Len(sieves) + 1
      /\ DOMAIN sieves' = 1..n
      /\ \A s \in 1..Len(sieves) : sieves'[s] = sieves[s]
      /\ sieves'[n] = sieve
  <2>1. /\ Append(sieves, sieve) \in Seq(SimdSieve)
        /\ Len(Append(sieves, sieve)) = Len(sieves) + 1
        /\ \A s \in 1..Len(sieves) : Append(sieves, sieve)[s] = sieves[s]
        /\ Append(sieves, sieve)[Len(sieves) + 1] = sieve
    BY <1>3, <1>8, AppendProperties
  <2>. QED  BY <1>1, <2>1, LenProperties DEF n
<1>10. CallOK'
  BY <1>1, <1>2, <1>9 DEF CallOK
<1>11. BuiltAsAsked'
  <2>1. ASSUME NEW s \in DOMAIN sieves'
        PROVE  /\ sieves'[s].patterns = Slots(chunks[s])
               /\ sieves'[s].count = Len(chunks[s])
               /\ IsMaxLen(chunks[s], sieves'[s].max_len)
               /\ sieves'[s].tier = select_hardware_tier
               /\ sieves'[s].folds = case_insensitive
    <3>1. CASE s \in 1..Len(sieves)
      BY <1>3, <1>9, <3>1 DEF BuiltAsAsked
    <3>2. CASE s = n
      BY <1>6, <1>7, <1>9, <3>2
    <3>. QED  BY <1>3, <1>9, <3>1, <3>2 DEF n
  <2>. QED  BY <1>1, <1>2, <2>1 DEF BuiltAsAsked
<1>12. TypeOK'
  BY <1>1, <1>2 DEF TypeOK
<1>13. Progress'
  BY <1>1, <1>2, <1>3, <1>4, <1>9 DEF Progress, chunk_count
<1>14. MultiLoops' /\ SieveLoop' /\ ReportsCause'
  <2>1. ReportsCause'
    BY <1>1, <1>2 DEF ReportsCause, Cause
  <2>. QED  BY <1>1, <1>2, <2>1 DEF MultiLoops, SieveLoop
<1>. QED  BY <1>10, <1>11, <1>12, <1>13, <1>14

LEMMA NextKeepsIInv ==
    ASSUME IInv, [Next]_vars
    PROVE  IInv'
<1>1. CASE SimdSieve_build
  <2>1. CASE BuildEntry
    BY <2>1, BuildEntryKeepsIInv
  <2>2. CASE BuildPattern
    BY <2>2, BuildPatternKeepsIInv
  <2>. QED  BY <1>1, <2>1, <2>2, SimdSieveBuilt DEF SimdSieve_build
<1>2. CASE CompiledSieve_build
  <2>1. CASE BuildEntry
    BY <2>1, BuildEntryKeepsIInv
  <2>2. CASE BuildPattern
    BY <2>2, BuildPatternKeepsIInv
  <2>. QED  BY <1>2, <2>1, <2>2, CompiledSieveBuilt DEF CompiledSieve_build
<1>3. CASE MultiSieve_build \/ CompiledMultiSieve_build
  <2>1. kind \in Multi /\ MultiBuild
    BY <1>3 DEF MultiSieve_build, CompiledMultiSieve_build, Multi
  <2>. QED  BY <2>1, MultiEntryKeepsIInv, ValidateKeepsIInv, DedupKeepsIInv,
               DedupedKeepsIInv, ChunkKeepsIInv DEF MultiBuild
<1>4. CASE CompiledMultiSieve_scan
  BY <1>4, ScanKeepsIInv
<1>5. CASE UNCHANGED vars
  <2>1. /\ UNCHANGED call
        /\ UNCHANGED <<pc, i, list, kept, max_len, unique, compiled, sieves, result>>
    BY <1>5 DEF vars
  <2>2. /\ kind' = kind /\ raw' = raw /\ chunks' = chunks /\ Cause' = Cause
    BY <2>1, SameCall
  <2>3. CallOK' /\ BuiltAsAsked' /\ chunk_count' = chunk_count
    BY <2>1, NothingBuilt
  <2>4. TypeOK'
    BY <2>1, <2>2 DEF IInv, TypeOK
  <2>5. Progress' /\ MultiLoops' /\ SieveLoop'
    BY <2>1, <2>2, <2>3 DEF IInv, Progress, MultiLoops, SieveLoop
  <2>6. ReportsCause'
    BY <2>1, <2>2 DEF IInv, ReportsCause, Cause
  <2>. QED  BY <2>3, <2>4, <2>5, <2>6 DEF IInv
<1>. QED  BY <1>1, <1>2, <1>3, <1>4, <1>5 DEF Next

THEOREM Invariance == Spec => []IInv
<1>1. Init => IInv
  BY InitIInv
<1>2. IInv /\ [Next]_vars => IInv'
  BY NextKeepsIInv
<1>. QED  BY <1>1, <1>2, PTL DEF Spec

(* The arrays of patterns are never written past their end.                *)
THEOREM TypeCorrect == Spec => []TypeOK
<1>1. IInv => TypeOK
  BY DEF IInv
<1>. QED  BY <1>1, Invariance, PTL

(* A constructor that succeeds leaves the caller's distinct patterns, all  *)
(* of them, in sieves filled up in turn, in each of the crate's four forms *)
(* and after scan().                                                       *)
THEOREM NoPatternLost == Spec => []SievesAsAsked
<1>1. ASSUME IInv PROVE SievesAsAsked
  BY <1>1 DEF IInv, SievesAsAsked, chunks, Progress, BuiltAsAsked
<1>. QED  BY <1>1, Invariance, PTL

(* The processor has the instructions of every tier that is chosen.        *)
THEOREM OnlyDetectedInstructions == Spec => []TierIsRunnable
<1>1. ASSUME IInv PROVE TierIsRunnable
  BY <1>1, SelectedTierRuns DEF IInv, CallOK, BuiltAsAsked, TierIsRunnable
<1>. QED  BY <1>1, Invariance, PTL

(* The error names the cause, and the index is one of the caller's list.   *)
THEOREM ErrorsAreRight == Spec => []ReportsCause
<1>1. IInv => ReportsCause
  BY DEF IInv
<1>. QED  BY <1>1, Invariance, PTL
=============================================================================
