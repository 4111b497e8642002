------------------------- MODULE PatternSets_proofs -------------------------
(***************************************************************************)
(* What the operators the other modules are built from do, for every       *)
(* input.  Folding: fold_byte moves 'a'..'z' and no other byte, and the    *)
(* verifier that folds as it compares agrees with the exact one on folded  *)
(* slices.  Pattern lists: Unique keeps each pattern once and can be       *)
(* built one pattern at a time, and Chunks leaves none out.                *)
(***************************************************************************)
EXTENDS PatternSets, FiniteSetTheorems, SequenceTheorems, TLAPS

(* The branch-free arithmetic, as a case distinction.                      *)
LEMMA FoldByteCases ==
    ASSUME NEW byte \in Byte
    PROVE  fold_byte(byte) = IF byte >= 97 /\ byte <= 122 THEN byte - 32 ELSE byte
<1>1. byte \in Nat /\ byte <= 255
  BY DEF Byte
<1>2. CASE byte >= 97 /\ byte <= 122
  BY <1>1, <1>2 DEF fold_byte, wrapping_sub, wrapping_neg, BitAnd00orFF, ASCII_CASE_OFFSET
<1>3. CASE byte < 97
  BY <1>1, <1>3 DEF fold_byte, wrapping_sub, wrapping_neg, BitAnd00orFF, ASCII_CASE_OFFSET
<1>4. CASE byte > 122
  BY <1>1, <1>4 DEF fold_byte, wrapping_sub, wrapping_neg, BitAnd00orFF, ASCII_CASE_OFFSET
<1>. QED  BY <1>1, <1>2, <1>3, <1>4

LEMMA FoldedIsByte ==
    ASSUME NEW byte \in Byte
    PROVE  fold_byte(byte) \in Byte
<1>1. byte \in Nat /\ byte <= 255
  BY DEF Byte
<1>. QED  BY <1>1, FoldByteCases DEF Byte

LEMMA SameInitialSegment ==
    ASSUME NEW m \in Nat, NEW n \in Nat, 1..m = 1..n
    PROVE  m = n
<1>1. m \in 1..m <=> m \in 1..n
  OBVIOUS
<1>2. n \in 1..m <=> n \in 1..n
  OBVIOUS
<1>. QED  BY ONLY <1>1, <1>2, m \in Nat, n \in Nat

(* What the test verify_case_insensitive_matches_folded_exact of fold.rs   *)
(* asserts of one pair of slices: folding in place and comparing exactly   *)
(* is the same as comparing with verify_case_insensitive.                  *)
THEOREM VerifiersAgree ==
    ASSUME NEW pattern \in Seq(Byte), NEW slice \in Seq(Byte)
    PROVE  verify_case_insensitive(pattern, slice)
             <=> verify_exact(fold_slice(pattern), fold_slice(slice))
<1>1. /\ DOMAIN pattern = 1..Len(pattern) /\ Len(pattern) \in Nat
      /\ DOMAIN slice = 1..Len(slice) /\ Len(slice) \in Nat
  BY LenProperties
<1>2. /\ DOMAIN fold_slice(pattern) = 1..Len(pattern)
      /\ DOMAIN fold_slice(slice) = 1..Len(slice)
      /\ \A k \in 1..Len(pattern) : fold_slice(pattern)[k] = fold_byte(pattern[k])
      /\ \A k \in 1..Len(slice) : fold_slice(slice)[k] = fold_byte(slice[k])
  BY <1>1 DEF fold_slice
<1>3. ASSUME verify_case_insensitive(pattern, slice)
      PROVE  fold_slice(pattern) = fold_slice(slice)
  <2>1. /\ Len(pattern) = Len(slice)
        /\ \A k \in 1..Len(pattern) : fold_byte(pattern[k]) = fold_byte(slice[k])
    BY <1>3 DEF verify_case_insensitive
  <2>. QED  BY <1>1, <2>1 DEF fold_slice
<1>4. ASSUME fold_slice(pattern) = fold_slice(slice)
      PROVE  verify_case_insensitive(pattern, slice)
  <2>1. 1..Len(pattern) = 1..Len(slice)
    BY <1>2, <1>4
  <2>2. Len(pattern) = Len(slice)
    BY <1>1, <2>1, SameInitialSegment
  <2>. QED  BY <1>2, <1>4, <2>2 DEF verify_case_insensitive
<1>. QED  BY <1>3, <1>4 DEF verify_exact

-----------------------------------------------------------------------------
(* haystack[i..i + n] has n bytes, those of the haystack from i on.        *)
LEMMA SliceBytes ==
    ASSUME NEW h \in Seq(Byte), NEW i \in Nat, NEW n \in Nat, i + n <= Len(h)
    PROVE  /\ Slice(h, i, n) \in Seq(Byte)
           /\ Len(Slice(h, i, n)) = n
           /\ \A j \in 1..n : Slice(h, i, n)[j] = h[i + j] /\ h[i + j] \in Byte
<1>1. \A j \in (i + 1)..(i + n) : h[j] \in Byte
  <2>1. \A j \in 1..Len(h) : h[j] \in Byte
    BY ElementOfSeq
  <2>. QED  BY <2>1
<1>2. /\ Slice(h, i, n) \in Seq(Byte)
      /\ Len(Slice(h, i, n)) = n
      /\ \A j \in 1..((i + n) - (i + 1) + 1) : Slice(h, i, n)[j] = h[(i + 1) + j - 1]
  BY <1>1, SubSeqProperties DEF Slice
<1>3. \A j \in 1..n : h[i + j] \in Byte
  BY <1>1
<1>. QED  BY <1>2, <1>3

(* A full match starts inside the haystack and is a prefix hit.            *)
LEMMA MatchIsPrefixHit ==
    ASSUME NEW h \in Seq(Byte), NEW ps \in Seq(Seq(Byte) \ {<<>>}),
           NEW ci \in BOOLEAN, NEW i \in Nat, MatchAt(h, ps, ci, i)
    PROVE  i < Len(h) /\ PrefixAt(h, ps, ci, i)
<1>1. PICK k \in DOMAIN ps : PatternAt(h, ps[k], ci, i)
  BY DEF MatchAt
<1>. DEFINE p == ps[k]
            s == Slice(h, i, Len(p))
<1>2. p \in Seq(Byte) /\ Len(p) \in Nat \ {0}
  BY <1>1, ElementOfSeq, EmptySeq, LenProperties
<1>3. Len(h) \in Nat /\ i + Len(p) <= Len(h) /\ verifier(ci, s, p)
  BY <1>1, <1>2 DEF PatternAt
<1>4. Len(s) = Len(p) /\ \A j \in 1..Len(p) : s[j] = h[i + j]
  BY <1>2, <1>3, SliceBytes
<1>5. \A j \in 1..Len(p) : Canon(ci, h[i + j]) = Canon(ci, p[j])
  BY <1>3, <1>4 DEF verifier, verify_exact, verify_case_insensitive, Canon
<1>6. eval_len(p) \in 1..Len(p)
  BY <1>2, PrefixAssumption DEF eval_len
<1>7. PrefixOfAt(h, p, ci, i)
  <2>1. i + eval_len(p) <= Len(h) /\ \A j \in 1..eval_len(p) : j \in 1..Len(p)
    BY <1>2, <1>3, <1>6
  <2>. HIDE DEF p
  <2>. QED  BY <1>5, <2>1 DEF PrefixOfAt
<1>. QED  BY <1>1, <1>2, <1>3, <1>7 DEF PrefixAt

(* The bytes of a pattern that the filters look at.                        *)
LEMMA EvalLenOfPattern ==
    ASSUME NEW ps \in Seq(Seq(Byte) \ {<<>>}), NEW k \in DOMAIN ps
    PROVE  /\ ps[k] \in Seq(Byte) /\ Len(ps[k]) \in Nat \ {0}
           /\ eval_len(ps[k]) \in Nat \ {0}
           /\ eval_len(ps[k]) <= PREFIX /\ eval_len(ps[k]) <= Len(ps[k])
<1>1. ps[k] \in Seq(Byte) /\ ps[k] # <<>> /\ Len(ps[k]) \in Nat \ {0}
  BY ElementOfSeq, LenProperties, EmptySeq
<1>. QED  BY <1>1, PrefixAssumption DEF eval_len

(* A prefix is found in a slice where it is found in the haystack, unless  *)
(* the slice may cut it off.                                               *)
LEMMA SlicedHits ==
    ASSUME NEW h \in Seq(Byte), NEW ps \in Seq(Seq(Byte) \ {<<>>}), NEW ci \in BOOLEAN,
           NEW start \in Nat, NEW size \in Nat, start + size <= Len(h), NEW pos \in Nat,
           \A k \in DOMAIN ps : pos + eval_len(ps[k]) <= size
    PROVE  PrefixAt(Slice(h, start, size), ps, ci, pos) <=> PrefixAt(h, ps, ci, start + pos)
<1>. DEFINE slice == Slice(h, start, size)
<1>1. /\ Len(h) \in Nat /\ Len(slice) = size
      /\ \A j \in 1..size : slice[j] = h[start + j]
  BY LenProperties, SliceBytes
<1>. HIDE DEF slice
<1>2. ASSUME NEW k \in DOMAIN ps
      PROVE  PrefixOfAt(slice, ps[k], ci, pos) <=> PrefixOfAt(h, ps[k], ci, start + pos)
  <2>. DEFINE n == eval_len(ps[k])
  <2>1. n \in Nat /\ pos + n <= size
    BY EvalLenOfPattern
  <2>. HIDE DEF n
  <2>2. pos + n <= Len(slice) /\ (start + pos) + n <= Len(h)
    BY <1>1, <2>1
  <2>3. ASSUME NEW j \in 1..n PROVE slice[pos + j] = h[(start + pos) + j]
    <3>1. pos + j \in 1..size /\ start + (pos + j) = (start + pos) + j
      BY <2>1
    <3>. QED  BY <1>1, <3>1
  <2>. QED  BY <2>2, <2>3 DEF PrefixOfAt, n
<1>. QED  BY <1>2 DEF PrefixAt, slice

(* Verifying the slice a prefix may be in is finding the prefix.           *)
LEMMA VerifiedPrefix ==
    ASSUME NEW h \in Seq(Byte), NEW ps \in Seq(Seq(Byte) \ {<<>>}), NEW k \in DOMAIN ps,
           NEW ci \in BOOLEAN, NEW i \in Nat, i + eval_len(ps[k]) <= Len(h)
    PROVE  verifier(ci, Slice(h, i, eval_len(ps[k])), Slice(ps[k], 0, eval_len(ps[k])))
             <=> PrefixOfAt(h, ps[k], ci, i)
<1>. DEFINE p == ps[k]
            n == eval_len(p)
            left == Slice(h, i, n)
            right == Slice(p, 0, n)
<1>1. p \in Seq(Byte) /\ Len(p) \in Nat /\ n \in Nat /\ n <= Len(p)
  BY EvalLenOfPattern
<1>. HIDE DEF p, n
<1>2. /\ left \in Seq(Byte) /\ Len(left) = n
      /\ \A j \in 1..n : left[j] = h[i + j]
  BY <1>1, SliceBytes DEF n, p
<1>3. /\ right \in Seq(Byte) /\ Len(right) = n
      /\ \A j \in 1..n : right[j] = p[j]
  <2>1. 0 + n <= Len(p) /\ \A j \in 1..n : 0 + j = j
    BY <1>1
  <2>. QED  BY <1>1, <2>1, SliceBytes
<1>. HIDE DEF left, right
<1>4. verifier(ci, left, right) <=> \A j \in 1..n : Canon(ci, left[j]) = Canon(ci, right[j])
  <2>1. left = right <=> \A j \in 1..n : left[j] = right[j]
    BY <1>2, <1>3, SeqEqual
  <2>. QED  BY <1>2, <1>3, <2>1 DEF verifier, verify_exact, verify_case_insensitive, Canon
<1>5. PrefixOfAt(h, p, ci, i) <=> \A j \in 1..n : Canon(ci, h[i + j]) = Canon(ci, p[j])
  BY DEF PrefixOfAt, n, p
<1>. QED  BY <1>2, <1>3, <1>4, <1>5 DEF left, right, n, p

-----------------------------------------------------------------------------
(* The members of a finite set of numbers are counted off by their rank:   *)
(* no two have the same, and each number up to the size is one.            *)
LEMMA RankIsCount ==
    ASSUME NEW set \in SUBSET Nat, IsFiniteSet(set), NEW k \in set
    PROVE  /\ Rank(set, k) \in 1..Cardinality(set)
           /\ \A j \in set : j < k => Rank(set, j) < Rank(set, k)
<1>. DEFINE UpTo(j) == {l \in set : l <= j}
<1>1. ASSUME NEW j \in set
      PROVE  IsFiniteSet(UpTo(j)) /\ Rank(set, j) = Cardinality(UpTo(j)) /\ Rank(set, j) \in Nat
  <2>1. UpTo(j) \in SUBSET set
    OBVIOUS
  <2>2. IsFiniteSet(UpTo(j))
    BY <2>1, FS_Subset
  <2>. QED  BY <2>2, FS_CardinalityType DEF Rank
<1>2. /\ UpTo(k) \in SUBSET set /\ k \in UpTo(k)
      /\ \A j \in set : j < k => UpTo(j) \in SUBSET UpTo(k) /\ k \notin UpTo(j)
  <2>1. \A j \in set : j \in Nat
    OBVIOUS
  <2>2. UpTo(k) \in SUBSET set /\ k \in UpTo(k)
    BY <2>1
  <2>3. ASSUME NEW j \in set, j < k
        PROVE  UpTo(j) \in SUBSET UpTo(k) /\ k \notin UpTo(j)
    <3>1. ASSUME NEW l \in UpTo(j) PROVE l \in UpTo(k)
      BY <2>1, <2>3
    <3>2. k \notin UpTo(j)
      BY <2>1, <2>3
    <3>. QED  BY ONLY <3>1, <3>2
  <2>. QED  BY <2>2, <2>3
<1>. HIDE DEF UpTo
<1>3. Rank(set, k) \in 1..Cardinality(set)
  <2>1. Cardinality(UpTo(k)) <= Cardinality(set)
    BY <1>2, FS_Subset
  <2>2. Cardinality(UpTo(k)) # 0
    BY <1>1, <1>2, FS_EmptySet
  <2>. QED  BY <1>1, <2>1, <2>2, FS_CardinalityType
<1>4. ASSUME NEW j \in set, j < k
      PROVE  Rank(set, j) < Rank(set, k)
  <2>1. UpTo(j) \in SUBSET UpTo(k) /\ UpTo(j) # UpTo(k)
    BY <1>2, <1>4
  <2>2. /\ Cardinality(UpTo(j)) <= Cardinality(UpTo(k))
        /\ Cardinality(UpTo(j)) # Cardinality(UpTo(k))
    BY <1>1, <2>1, FS_Subset
  <2>. QED  BY <1>1, <2>2
<1>. QED  BY <1>3, <1>4

LEMMA RankIsOnto ==
    ASSUME NEW set \in SUBSET Nat, IsFiniteSet(set), NEW n \in 1..Cardinality(set)
    PROVE  \E k \in set : Rank(set, k) = n
<1>. DEFINE T == 1..Cardinality(set)
            f == [k \in set |-> Rank(set, k)]
<1>1. Cardinality(set) \in Nat
  BY FS_CardinalityType
<1>2. IsFiniteSet(T) /\ Cardinality(T) = Cardinality(set)
  BY <1>1, FS_Interval
<1>3. f \in Injection(set, T)
  <2>1. \A k \in set : Rank(set, k) \in T
    BY RankIsCount
  <2>2. ASSUME NEW j \in set, NEW k \in set, f[j] = f[k]
        PROVE  j = k
    <3>1. Rank(set, j) = Rank(set, k) /\ Rank(set, j) \in Nat
      BY <2>2, RankIsCount
    <3>2. ~(j < k) /\ ~(k < j)
      BY <3>1, RankIsCount
    <3>. QED  BY <3>2
  <2>. QED  BY <2>1, <2>2 DEF Injection, IsInjective
<1>4. f \in Surjection(set, T)
  BY <1>2, <1>3, FS_Injection
<1>5. PICK k \in set : f[k] = n
  BY <1>4 DEF Surjection
<1>. QED  BY <1>5

(* A set of numbers with a member has a least one.                         *)
LEMMA Least ==
    ASSUME NEW set \in SUBSET Nat, IsFiniteSet(set), set # {}
    PROVE  \E k \in set : \A j \in set : k <= j
<1>1. 1 \in 1..Cardinality(set)
  BY FS_EmptySet, FS_CardinalityType
<1>2. PICK k \in set : Rank(set, k) = 1
  BY <1>1, RankIsOnto
<1>3. ASSUME NEW j \in set PROVE k <= j
  <2>1. ~(j < k)
    BY <1>2, RankIsCount
  <2>. QED  BY <2>1
<1>. QED  BY <1>3

-----------------------------------------------------------------------------
LEMMA FirstAtFacts ==
    ASSUME NEW S, NEW ps \in Seq(S)
    PROVE  /\ FirstAt(ps) \in SUBSET Nat /\ FirstAt(ps) \in SUBSET (1..Len(ps))
           /\ IsFiniteSet(FirstAt(ps))
           /\ Cardinality(FirstAt(ps)) \in Nat
           /\ Cardinality(FirstAt(ps)) <= Len(ps)
<1>1. Len(ps) \in Nat /\ DOMAIN ps = 1..Len(ps)
  BY LenProperties
<1>2. FirstAt(ps) \in SUBSET (1..Len(ps))
  BY <1>1 DEF FirstAt
<1>3. IsFiniteSet(1..Len(ps)) /\ Cardinality(1..Len(ps)) = Len(ps)
  BY <1>1, FS_Interval
<1>. QED  BY <1>2, <1>3, FS_Subset, FS_CardinalityType

(* Every pattern of a list has a first occurrence.                         *)
LEMMA FirstOccurrence ==
    ASSUME NEW S, NEW ps \in Seq(S), NEW k \in DOMAIN ps
    PROVE  \E j \in FirstAt(ps) : j <= k /\ ps[j] = ps[k]
<1>. DEFINE same == {j \in 1..Len(ps) : ps[j] = ps[k]}
<1>1. Len(ps) \in Nat /\ DOMAIN ps = 1..Len(ps)
  BY LenProperties
<1>2. same \in SUBSET Nat /\ same \in SUBSET (1..Len(ps)) /\ k \in same
  BY <1>1
<1>3. IsFiniteSet(same)
  <2>1. IsFiniteSet(1..Len(ps))
    BY <1>1, FS_Interval
  <2>. HIDE DEF same
  <2>. QED  BY <1>2, <2>1, FS_Subset
<1>4. PICK j \in same : \A l \in same : j <= l
  BY <1>2, <1>3, Least
<1>5. ASSUME NEW l \in 1..(j - 1) PROVE ps[l] # ps[j]
  <2>1. l \in 1..Len(ps) /\ ~(j <= l)
    BY <1>1, <1>2
  <2>. QED  BY <1>4, <2>1
<1>. QED  BY <1>1, <1>2, <1>4, <1>5 DEF FirstAt

(* The element of Unique(ps) at a rank is the first occurrence of it.      *)
LEMMA UniqueAtRank ==
    ASSUME NEW S, NEW ps \in Seq(S)
    PROVE  LET first == FirstAt(ps)
           IN  /\ Unique(ps) \in Seq(S)
               /\ Len(Unique(ps)) = Cardinality(first)
               /\ \A k \in first :
                     /\ Rank(first, k) \in 1..Cardinality(first)
                     /\ Unique(ps)[Rank(first, k)] = ps[k]
               /\ \A n \in 1..Cardinality(first) :
                     \E k \in first : Rank(first, k) = n /\ Unique(ps)[n] = ps[k]
<1>. DEFINE first == FirstAt(ps)
            chosen(n) == CHOOSE k \in first : Rank(first, k) = n
<1>1. /\ first \in SUBSET Nat /\ first \in SUBSET (1..Len(ps)) /\ IsFiniteSet(first)
      /\ Cardinality(first) \in Nat
  BY FirstAtFacts
<1>. HIDE DEF first
<1>2. ASSUME NEW n \in 1..Cardinality(first)
      PROVE  chosen(n) \in first /\ Rank(first, chosen(n)) = n
  BY <1>1, RankIsOnto
<1>3. ASSUME NEW k \in first
      PROVE  Rank(first, k) \in 1..Cardinality(first) /\ chosen(Rank(first, k)) = k
  <2>1. Rank(first, k) \in 1..Cardinality(first)
    BY <1>1, RankIsCount
  <2>. DEFINE j == chosen(Rank(first, k))
  <2>2. j \in first /\ Rank(first, j) = Rank(first, k)
    BY <1>2, <2>1
  <2>. HIDE DEF j
  <2>3. /\ j < k => Rank(first, j) < Rank(first, k)
        /\ k < j => Rank(first, k) < Rank(first, j)
    BY <1>1, <2>2, RankIsCount
  <2>4. j = k
    BY <1>1, <2>1, <2>2, <2>3
  <2>. QED  BY <2>1, <2>4 DEF j
<1>4. Unique(ps) = [n \in 1..Cardinality(first) |-> ps[chosen(n)]]
  BY DEF Unique, first
<1>. HIDE DEF chosen
<1>5. ASSUME NEW n \in 1..Cardinality(first) PROVE ps[chosen(n)] \in S
  <2>1. chosen(n) \in 1..Len(ps)
    BY <1>1, <1>2
  <2>. QED  BY <2>1, ElementOfSeq
<1>6. Unique(ps) \in Seq(S) /\ Len(Unique(ps)) = Cardinality(first)
  <2>1. Unique(ps) \in [1..Cardinality(first) -> S]
    BY <1>4, <1>5
  <2>. QED  BY <1>1, <2>1, LenProperties
<1>7. ASSUME NEW k \in first
      PROVE  Rank(first, k) \in 1..Cardinality(first) /\ Unique(ps)[Rank(first, k)] = ps[k]
  BY <1>3, <1>4
<1>8. ASSUME NEW n \in 1..Cardinality(first)
      PROVE  \E k \in first : Rank(first, k) = n /\ Unique(ps)[n] = ps[k]
  BY <1>2, <1>4
<1>. QED  BY <1>6, <1>7, <1>8 DEF first

(* Unique keeps every pattern, in a list no longer, and none twice.        *)
LEMMA UniqueFacts ==
    ASSUME NEW S, NEW ps \in Seq(S)
    PROVE  /\ Unique(ps) \in Seq(S)
           /\ Len(Unique(ps)) \in 0..Len(ps)
           /\ Unique(ps) = <<>> <=> ps = <<>>
           /\ Range(Unique(ps)) = Range(ps)
           /\ \A m, n \in DOMAIN Unique(ps) : Unique(ps)[m] = Unique(ps)[n] => m = n
<1>. DEFINE first == FirstAt(ps)
            u == Unique(ps)
<1>1. /\ first \in SUBSET (1..Len(ps)) /\ Cardinality(first) \in Nat
      /\ Cardinality(first) <= Len(ps)
  BY FirstAtFacts
<1>2. /\ Len(ps) \in Nat /\ DOMAIN ps = 1..Len(ps)
      /\ \A k \in first : k \in DOMAIN ps /\ \A j \in 1..(k - 1) : ps[j] # ps[k]
  BY LenProperties DEF FirstAt
<1>3. /\ u \in Seq(S) /\ Len(u) = Cardinality(first)
      /\ \A k \in first : Rank(first, k) \in 1..Len(u) /\ u[Rank(first, k)] = ps[k]
      /\ \A n \in 1..Len(u) : \E k \in first : Rank(first, k) = n /\ u[n] = ps[k]
  BY UniqueAtRank
<1>4. \A k \in DOMAIN ps : \E j \in first : j <= k /\ ps[j] = ps[k]
  BY FirstOccurrence
<1>. HIDE DEF first, u
<1>5. DOMAIN u = 1..Len(u) /\ Len(u) \in Nat
  BY <1>3, LenProperties
<1>6. Range(u) = Range(ps)
  <2>1. ASSUME NEW n \in DOMAIN u PROVE \E k \in DOMAIN ps : ps[k] = u[n]
    BY <1>2, <1>3, <1>5
  <2>2. ASSUME NEW k \in DOMAIN ps PROVE \E n \in DOMAIN u : u[n] = ps[k]
    <3>1. PICK j \in first : ps[j] = ps[k]
      BY <1>4
    <3>. QED  BY <1>3, <1>5, <3>1
  <2>. QED  BY <2>1, <2>2 DEF Range
<1>7. u = <<>> <=> ps = <<>>
  <2>1. u = <<>> <=> DOMAIN u = {}
    BY <1>3, <1>5, EmptySeq
  <2>2. ps = <<>> <=> DOMAIN ps = {}
    BY <1>2, EmptySeq
  <2>3. DOMAIN u = {} <=> DOMAIN ps = {}
    BY <1>6 DEF Range
  <2>. QED  BY <2>1, <2>2, <2>3
<1>8. ASSUME NEW m \in DOMAIN u, NEW n \in DOMAIN u, u[m] = u[n]
      PROVE  m = n
  <2>1. PICK k \in first : Rank(first, k) = m /\ u[m] = ps[k]
    BY <1>3, <1>5
  <2>2. PICK l \in first : Rank(first, l) = n /\ u[n] = ps[l]
    BY <1>3, <1>5
  <2>3. k \in 1..Len(ps) /\ l \in 1..Len(ps) /\ ps[k] = ps[l]
    BY <1>1, <1>8, <2>1, <2>2
  <2>4. ~(k < l)
    BY <1>2, <2>3
  <2>5. ~(l < k)
    BY <1>2, <2>3
  <2>. QED  BY <2>1, <2>2, <2>3, <2>4, <2>5
<1>. QED  BY <1>1, <1>3, <1>5, <1>6, <1>7, <1>8 DEF u

(* A list without repetitions is left as it is.                            *)
LEMMA UniqueOfDistinct ==
    ASSUME NEW S, NEW ps \in Seq(S),
           \A j, k \in DOMAIN ps : ps[j] = ps[k] => j = k
    PROVE  Unique(ps) = ps
<1>. DEFINE first == FirstAt(ps)
<1>1. Len(ps) \in Nat /\ DOMAIN ps = 1..Len(ps)
  BY LenProperties
<1>2. first = 1..Len(ps)
  BY <1>1 DEF FirstAt
<1>3. Cardinality(first) = Len(ps)
  BY <1>1, <1>2, FS_Interval
<1>4. ASSUME NEW k \in first PROVE Rank(first, k) = k
  <2>1. {j \in first : j <= k} = 1..k
    BY <1>1, <1>2
  <2>2. Cardinality(1..k) = k
    BY <1>1, <1>2, FS_Interval
  <2>. QED  BY <2>1, <2>2 DEF Rank
<1>5. /\ Unique(ps) \in Seq(S) /\ Len(Unique(ps)) = Cardinality(first)
      /\ \A k \in first : Unique(ps)[Rank(first, k)] = ps[k]
  BY UniqueAtRank
<1>. HIDE DEF first
<1>6. \A k \in 1..Len(ps) : Unique(ps)[k] = ps[k]
  BY <1>2, <1>4, <1>5
<1>. QED  BY <1>3, <1>5, <1>6, SeqEqual

(* One more pattern is one more of the distinct ones, or none.             *)
LEMMA UniqueOfAppend ==
    ASSUME NEW S, NEW ps \in Seq(S), NEW p \in S
    PROVE  Unique(Append(ps, p)) =
               IF p \in Range(Unique(ps)) THEN Unique(ps) ELSE Append(Unique(ps), p)
<1>. DEFINE qs == Append(ps, p)
            n == Len(ps) + 1
            first == FirstAt(ps)
            firstq == FirstAt(qs)
<1>1. /\ Len(ps) \in Nat /\ DOMAIN ps = 1..Len(ps)
      /\ qs \in Seq(S) /\ Len(qs) = n /\ DOMAIN qs = 1..n
      /\ \A k \in 1..Len(ps) : qs[k] = ps[k]
      /\ qs[n] = p
  BY AppendProperties, LenProperties
<1>2. /\ first \in SUBSET (1..Len(ps)) /\ IsFiniteSet(first) /\ Cardinality(first) \in Nat
      /\ n \notin first
  BY <1>1, FirstAtFacts
<1>3. /\ firstq = IF p \in Range(ps) THEN first ELSE first \cup {n}
      /\ \A j \in firstq : j <= n
  <2>. HIDE DEF qs
  <2>1. \A k \in 1..Len(ps) : k \in firstq <=> k \in first
    BY <1>1 DEF FirstAt
  <2>2. n \in firstq <=> p \notin Range(ps)
    BY <1>1 DEF FirstAt, Range
  <2>3. firstq \in SUBSET (1..n)
    BY <1>1 DEF FirstAt
  <2>4. 1..n = 1..Len(ps) \cup {n}
    BY <1>1
  <2>5. \A j \in firstq : j <= n
    BY <1>1, <2>3
  <2>. HIDE DEF firstq, first, n
  <2>6. firstq = IF p \in Range(ps) THEN first ELSE first \cup {n}
    <3>1. \A k : k \in firstq <=> k \in first \/ (k = n /\ p \notin Range(ps))
      BY ONLY <1>2, <2>1, <2>2, <2>3, <2>4
    <3>2. p \in Range(ps) => firstq = first
      BY ONLY <3>1
    <3>3. p \notin Range(ps) => firstq = first \cup {n}
      BY ONLY <3>1
    <3>. QED  BY ONLY <3>2, <3>3
  <2>. QED  BY <2>5, <2>6
<1>4. /\ Unique(ps) \in Seq(S) /\ Len(Unique(ps)) = Cardinality(first)
      /\ \A k \in first : Rank(first, k) \in 1..Cardinality(first)
                          /\ Unique(ps)[Rank(first, k)] = ps[k]
      /\ \A r \in 1..Cardinality(first) : \E k \in first : Rank(first, k) = r
  BY UniqueAtRank
<1>5. /\ Unique(qs) \in Seq(S) /\ Len(Unique(qs)) = Cardinality(firstq)
      /\ \A k \in firstq : Unique(qs)[Rank(firstq, k)] = qs[k]
  BY <1>1, UniqueAtRank
<1>6. Range(Unique(ps)) = Range(ps)
  BY UniqueFacts
<1>. HIDE DEF first, firstq, qs
<1>7. ASSUME NEW k \in first PROVE Rank(firstq, k) = Rank(first, k)
  <2>1. {j \in firstq : j <= k} = {j \in first : j <= k}
    BY <1>1, <1>2, <1>3
  <2>. QED  BY <2>1 DEF Rank
<1>8. ASSUME NEW r \in 1..Cardinality(first) PROVE Unique(qs)[r] = Unique(ps)[r]
  <2>1. PICK k \in first : Rank(first, k) = r
    BY <1>4
  <2>2. k \in firstq /\ qs[k] = ps[k]
    BY <1>1, <1>2, <1>3
  <2>. QED  BY <1>4, <1>5, <1>7, <2>1, <2>2
<1>9. CASE p \in Range(ps)
  BY <1>3, <1>4, <1>5, <1>6, <1>8, <1>9, SeqEqual DEF qs
<1>10. CASE p \notin Range(ps)
  <2>1. Cardinality(firstq) = Cardinality(first) + 1
    BY <1>2, <1>3, <1>10, FS_AddElement
  <2>2. Rank(firstq, n) = Cardinality(first) + 1
    <3>1. {j \in firstq : j <= n} = firstq
      BY <1>3
    <3>. QED  BY <2>1, <3>1 DEF Rank
  <2>3. Unique(qs)[Cardinality(first) + 1] = p
    <3>1. n \in firstq
      BY <1>3, <1>10
    <3>. QED  BY <1>1, <1>5, <2>2, <3>1
  <2>4. /\ Append(Unique(ps), p) \in Seq(S)
        /\ Len(Append(Unique(ps), p)) = Cardinality(first) + 1
        /\ \A r \in 1..Cardinality(first) : Append(Unique(ps), p)[r] = Unique(ps)[r]
        /\ Append(Unique(ps), p)[Cardinality(first) + 1] = p
    BY <1>4, AppendProperties
  <2>5. \A r \in 1..(Cardinality(first) + 1) : Unique(qs)[r] = Append(Unique(ps), p)[r]
    BY <1>2, <1>8, <2>3, <2>4
  <2>6. Unique(qs) = Append(Unique(ps), p)
    BY <1>5, <2>1, <2>4, <2>5, SeqEqual
  <2>. QED  BY <1>6, <1>10, <2>6 DEF qs
<1>. QED  BY <1>9, <1>10

LEMMA UniqueOfEmpty == Unique(<<>>) = <<>>
<1>1. <<>> \in Seq({})
  BY EmptySeq
<1>. QED  BY <1>1, UniqueFacts

(* What a loop over ps has collected after one more turn.                  *)
LEMMA UniqueOfPrefix ==
    ASSUME NEW S, NEW ps \in Seq(S), NEW i \in 0..(Len(ps) - 1)
    PROVE  LET seen == Unique(SubSeq(ps, 1, i))
           IN  /\ ps[i + 1] \in S
               /\ seen \in Seq(S)
               /\ Unique(SubSeq(ps, 1, i + 1)) =
                     IF ps[i + 1] \in Range(seen) THEN seen ELSE Append(seen, ps[i + 1])
<1>. DEFINE s == SubSeq(ps, 1, i)
            t == SubSeq(ps, 1, i + 1)
            p == ps[i + 1]
<1>1. Len(ps) \in Nat /\ \A k \in 1..Len(ps) : ps[k] \in S
  BY LenProperties, ElementOfSeq
<1>2. p \in S
  BY <1>1
<1>3. s \in Seq(S) /\ Len(s) = i /\ \A k \in 1..i : s[k] = ps[k]
  <2>1. \A k \in 1..i : ps[k] \in S
    BY <1>1
  <2>. QED  BY <1>1, <2>1, SubSeqProperties
<1>4. t \in Seq(S) /\ Len(t) = i + 1 /\ \A k \in 1..(i + 1) : t[k] = ps[k]
  <2>1. \A k \in 1..(i + 1) : ps[k] \in S
    BY <1>1
  <2>. QED  BY <1>1, <2>1, SubSeqProperties
<1>. HIDE DEF s, t, p
<1>5. /\ Append(s, p) \in Seq(S) /\ Len(Append(s, p)) = i + 1
      /\ \A k \in 1..i : Append(s, p)[k] = s[k]
      /\ Append(s, p)[i + 1] = p
  BY <1>2, <1>3, AppendProperties
<1>6. t = Append(s, p)
  <2>1. \A k \in 1..(i + 1) : t[k] = Append(s, p)[k]
    BY <1>1, <1>3, <1>4, <1>5 DEF p
  <2>. QED  BY <1>4, <1>5, <2>1, SeqEqual
<1>7. Unique(Append(s, p)) =
        IF p \in Range(Unique(s)) THEN Unique(s) ELSE Append(Unique(s), p)
  BY <1>2, <1>3, UniqueOfAppend
<1>8. Unique(s) \in Seq(S)
  BY <1>3, UniqueFacts
<1>. QED  BY <1>2, <1>6, <1>7, <1>8 DEF s, t, p

-----------------------------------------------------------------------------
LEMMA Division ==
    ASSUME NEW n \in Nat, NEW d \in Nat \ {0}
    PROVE  LET q == n \div d IN q \in Nat /\ d * q <= n /\ n < d * q + d
  OBVIOUS

(* There is a c-th chunk just if some pattern is left for it.              *)
LEMMA ChunkCount ==
    ASSUME NEW n \in Nat, NEW m \in Nat \ {0}, NEW c \in Nat \ {0}
    PROVE  /\ (n + m - 1) \div m \in Nat
           /\ c \in 1..((n + m - 1) \div m) <=> (c - 1) * m < n
<1>. DEFINE q == (n + m - 1) \div m
<1>1. q \in Nat /\ m * q <= n + m - 1 /\ n + m - 1 < m * q + m
  BY Division
<1>. HIDE DEF q
<1>2. ASSUME c <= q PROVE (c - 1) * m < n
  <2>1. (q - c) * m >= 0
    BY <1>1, <1>2
  <2>. QED  BY <1>1, <2>1
<1>3. ASSUME c > q PROVE (c - 1) * m >= n
  <2>1. (c - 1 - q) * m >= 0
    BY <1>1, <1>3
  <2>. QED  BY <1>1, <2>1
<1>4. (c - 1) * m \in Nat
  OBVIOUS
<1>. QED  BY <1>1, <1>2, <1>3, <1>4 DEF q

LEMMA ChunksFacts ==
    ASSUME NEW S, NEW ps \in Seq(S)
    PROVE  /\ Len(Chunks(ps)) \in Nat /\ DOMAIN Chunks(ps) = 1..Len(Chunks(ps))
           /\ Chunks(ps) \in Seq(Seq(S))
           /\ \A c \in Nat \ {0} :
                 c \in DOMAIN Chunks(ps) <=> (c - 1) * MAX_PATTERNS < Len(ps)
<1>. DEFINE n == Len(ps)
            m == MAX_PATTERNS
            q == (n + m - 1) \div m
            last(c) == IF c * m <= n THEN c * m ELSE n
            chunk(c) == SubSeq(ps, (c - 1) * m + 1, last(c))
<1>1. n \in Nat /\ m \in Nat \ {0} /\ q \in Nat
  BY LenProperties, MaxPatternsAssumption, ChunkCount
<1>2. Chunks(ps) = [c \in 1..q |-> chunk(c)]
  BY DEF Chunks
<1>3. ASSUME NEW c \in 1..q PROVE chunk(c) \in Seq(S)
  <2>1. (c - 1) * m + 1 \in Int /\ last(c) \in Int /\ (c - 1) * m >= 0 /\ last(c) <= n
    <3>1. c * m \in Nat /\ (c - 1) * m \in Nat
      BY <1>1
    <3>. QED  BY <1>1, <3>1
  <2>. HIDE DEF last
  <2>2. \A k \in ((c - 1) * m + 1)..last(c) : ps[k] \in S
    BY <1>1, <2>1, ElementOfSeq
  <2>. QED  BY <2>1, <2>2, SubSeqProperties
<1>. HIDE DEF chunk
<1>4. Chunks(ps) \in Seq(Seq(S)) /\ Len(Chunks(ps)) = q /\ DOMAIN Chunks(ps) = 1..q
  <2>1. Chunks(ps) \in [1..q -> Seq(S)]
    BY <1>2, <1>3
  <2>. HIDE DEF q
  <2>. QED  BY <1>1, <2>1, LenProperties
<1>5. \A c \in Nat \ {0} : c \in 1..q <=> (c - 1) * m < n
  BY <1>1, ChunkCount
<1>. QED  BY <1>1, <1>4, <1>5

(* A chunk is the next MAX_PATTERNS patterns, or what is left of the list. *)
LEMMA ChunkFacts ==
    ASSUME NEW S, NEW ps \in Seq(S), NEW c \in DOMAIN Chunks(ps)
    PROVE  LET first == (c - 1) * MAX_PATTERNS
               chunk == Chunks(ps)[c]
           IN  /\ c \in Nat \ {0} /\ first \in Nat /\ first < Len(ps)
               /\ chunk = SubSeq(ps, first + 1,
                            IF first + MAX_PATTERNS < Len(ps) THEN first + MAX_PATTERNS
                                                              ELSE Len(ps))
               /\ chunk \in Seq(S)
               /\ Len(chunk) \in 1..MAX_PATTERNS
               /\ Len(chunk) = IF first + MAX_PATTERNS < Len(ps) THEN MAX_PATTERNS
                                                                 ELSE Len(ps) - first
               /\ \A j \in 1..Len(chunk) : first + j \in 1..Len(ps) /\ chunk[j] = ps[first + j]
<1>. DEFINE n == Len(ps)
            m == MAX_PATTERNS
            first == (c - 1) * m
            last == IF c * m <= n THEN c * m ELSE n
            chunk == SubSeq(ps, first + 1, last)
<1>1. n \in Nat /\ m \in Nat \ {0}
  BY LenProperties, MaxPatternsAssumption
<1>2. c \in Nat \ {0} /\ first < n
  BY ChunksFacts
<1>3. first \in Nat /\ c * m = first + m
  BY <1>1, <1>2
<1>4. Chunks(ps)[c] = chunk
  <2>1. c \in 1..((n + m - 1) \div m)
    BY <1>1, <1>2, ChunkCount
  <2>. QED  BY <2>1 DEF Chunks
<1>. HIDE DEF first
<1>5. /\ last \in Int /\ first + 1 \in Int /\ last <= n
      /\ last = IF first + m < n THEN first + m ELSE n
  BY <1>1, <1>3
<1>6. last - first = IF first + m < n THEN m ELSE n - first
  BY <1>1, <1>2, <1>3, <1>5
<1>. HIDE DEF last
<1>7. \A k \in (first + 1)..last : ps[k] \in S
  BY <1>1, <1>3, <1>5, ElementOfSeq
<1>8. /\ chunk \in Seq(S)
      /\ Len(chunk) = IF first + 1 <= last THEN last - (first + 1) + 1 ELSE 0
      /\ \A j \in 1..(last - (first + 1) + 1) : chunk[j] = ps[first + 1 + j - 1]
  BY <1>5, <1>7, SubSeqProperties
<1>9. Len(chunk) = last - first /\ last - first \in 1..m
  <2>1. last - first \in 1..m
    BY <1>1, <1>2, <1>3, <1>6
  <2>2. last - first = last - (first + 1) + 1 /\ first + 1 <= last
    BY <1>3, <1>5, <2>1
  <2>. HIDE DEF chunk
  <2>. QED  BY <1>8, <2>1, <2>2
<1>10. ASSUME NEW j \in 1..Len(chunk)
       PROVE  first + j \in 1..Len(ps) /\ chunk[j] = ps[first + j]
  <2>1. j \in 1..(last - (first + 1) + 1) /\ first + 1 + j - 1 = first + j
    BY <1>3, <1>5, <1>9
  <2>. QED  BY <1>1, <1>3, <1>5, <1>8, <2>1
<1>. QED  BY <1>2, <1>3, <1>4, <1>5, <1>6, <1>8, <1>9, <1>10 DEF first

(* A list that one sieve can hold is one chunk.                            *)
LEMMA OneChunk ==
    ASSUME NEW S, NEW ps \in Seq(S), Len(ps) \in 1..MAX_PATTERNS
    PROVE  Len(Chunks(ps)) = 1 /\ Chunks(ps)[1] = ps
<1>1. /\ Len(Chunks(ps)) \in Nat /\ DOMAIN Chunks(ps) = 1..Len(Chunks(ps))
      /\ \A c \in Nat \ {0} :
            c \in DOMAIN Chunks(ps) <=> (c - 1) * MAX_PATTERNS < Len(ps)
  BY ChunksFacts
<1>2. 1 \in DOMAIN Chunks(ps) /\ 2 \notin DOMAIN Chunks(ps)
  BY <1>1, MaxPatternsAssumption
<1>3. Len(Chunks(ps)) = 1
  BY <1>1, <1>2
<1>4. ASSUME NEW c \in DOMAIN Chunks(ps), c = 1
      PROVE  Chunks(ps)[c] = SubSeq(ps, 1, Len(ps))
  <2>. DEFINE first == (c - 1) * MAX_PATTERNS
  <2>1. Chunks(ps)[c] = SubSeq(ps, first + 1,
            IF first + MAX_PATTERNS < Len(ps) THEN first + MAX_PATTERNS ELSE Len(ps))
    BY ChunkFacts
  <2>2. first = 0
    BY <1>4, MaxPatternsAssumption
  <2>. HIDE DEF first
  <2>. QED  BY <2>1, <2>2, MaxPatternsAssumption
<1>. QED  BY <1>2, <1>3, <1>4, SubSeqFull

(* No pattern is left out at a chunk's edge.                               *)
LEMMA ChunksCover ==
    ASSUME NEW S, NEW ps \in Seq(S), NEW k \in DOMAIN ps
    PROVE  \E c \in DOMAIN Chunks(ps) : ps[k] \in Range(Chunks(ps)[c])
<1>. DEFINE m == MAX_PATTERNS
<1>1. m \in Nat \ {0} /\ Len(ps) \in Nat /\ k \in 1..Len(ps) /\ k - 1 \in Nat
  BY LenProperties, MaxPatternsAssumption
<1>2. PICK q \in Nat : m * q <= k - 1 /\ k - 1 < m * q + m
  BY <1>1, Division
<1>. DEFINE c == q + 1
            first == (c - 1) * m
<1>3. c \in Nat \ {0} /\ first = m * q /\ first \in Nat
  BY <1>1
<1>4. first < k /\ k <= first + m
  BY <1>1, <1>2, <1>3
<1>. HIDE DEF first, c
<1>5. c \in DOMAIN Chunks(ps)
  <2>1. first < Len(ps)
    BY <1>1, <1>3, <1>4
  <2>. QED  BY <1>3, <2>1, ChunksFacts DEF first
<1>. DEFINE chunk == Chunks(ps)[c]
<1>6. /\ chunk \in Seq(S) /\ DOMAIN chunk = 1..Len(chunk)
      /\ Len(chunk) = IF first + m < Len(ps) THEN m ELSE Len(ps) - first
      /\ \A j \in 1..Len(chunk) : chunk[j] = ps[first + j]
  BY <1>5, ChunkFacts, LenProperties DEF first
<1>. HIDE DEF chunk
<1>7. k - first \in 1..Len(chunk) /\ first + (k - first) = k
  <2>1. k - first \in 1..m /\ k - first <= Len(ps) - first /\ first + (k - first) = k
    BY <1>1, <1>3, <1>4
  <2>2. Len(chunk) \in Nat /\ k - first <= Len(chunk)
    BY <1>1, <1>3, <1>6, <2>1
  <2>. QED  BY <2>1, <2>2
<1>8. chunk[k - first] = ps[k]
  BY <1>6, <1>7
<1>. QED  BY <1>5, <1>6, <1>7, <1>8 DEF Range, chunk

(* A list of non-empty patterns has a longest prefix.                      *)
LEMMA MaxLenExists ==
    ASSUME NEW ps \in Seq(Seq(Byte) \ {<<>>}), ps # <<>>
    PROVE  \E n \in 1..PREFIX : IsMaxLen(ps, n)
<1>. DEFINE short(k) == PREFIX - eval_len(ps[k])
            T == {short(k) : k \in DOMAIN ps}
<1>1. \A k \in DOMAIN ps : /\ eval_len(ps[k]) \in 1..PREFIX
                           /\ short(k) \in 0..PREFIX
                           /\ PREFIX - short(k) = eval_len(ps[k])
  BY EvalLenOfPattern, PrefixAssumption
<1>2. T \in SUBSET Nat /\ T \in SUBSET (0..PREFIX) /\ T # {}
  <2>1. 1 \in DOMAIN ps
    BY LenProperties, EmptySeq
  <2>. QED  BY <1>1, <2>1
<1>3. IsFiniteSet(T)
  <2>1. IsFiniteSet(0..PREFIX)
    BY PrefixAssumption, FS_Interval
  <2>. HIDE DEF T
  <2>. QED  BY <1>2, <2>1, FS_Subset
<1>4. PICK t \in T : \A u \in T : t <= u
  <2>. HIDE DEF T
  <2>. QED  BY <1>2, <1>3, Least
<1>5. PICK k \in DOMAIN ps : t = short(k)
  BY <1>4
<1>6. ASSUME NEW j \in DOMAIN ps PROVE eval_len(ps[j]) <= eval_len(ps[k])
  <2>1. short(k) <= short(j)
    BY <1>4, <1>5
  <2>. HIDE DEF short
  <2>. QED  BY <1>1, <2>1, PrefixAssumption
<1>. QED  BY <1>1, <1>5, <1>6 DEF IsMaxLen

(* Dealing out the distinct patterns loses no match.                       *)
LEMMA MatchesOfChunks ==
    ASSUME NEW S, NEW ps \in Seq(S), NEW h, NEW ci
    PROVE  Matches(h, ps, ci) =
             UNION {Matches(h, Chunks(Unique(ps))[c], ci) : c \in DOMAIN Chunks(Unique(ps))}
<1>. DEFINE us == Unique(ps)
            cs == Chunks(us)
<1>1. us \in Seq(S) /\ Range(us) = Range(ps)
  BY UniqueFacts
<1>2. \A k \in DOMAIN ps : \E c \in DOMAIN cs : ps[k] \in Range(cs[c])
  <2>1. \A k \in DOMAIN ps : \E j \in DOMAIN us : us[j] = ps[k]
    BY <1>1 DEF Range
  <2>2. \A j \in DOMAIN us : \E c \in DOMAIN cs : us[j] \in Range(cs[c])
    BY <1>1, ChunksCover
  <2>. HIDE DEF us, cs
  <2>. QED  BY <2>1, <2>2
<1>3. \A c \in DOMAIN cs : \A j \in DOMAIN cs[c] : \E k \in DOMAIN ps : ps[k] = cs[c][j]
  <2>1. SUFFICES ASSUME NEW c \in DOMAIN cs, NEW j \in DOMAIN cs[c]
                 PROVE  cs[c][j] \in Range(us)
    BY <1>1 DEF Range
  <2>2. PICK i \in 1..Len(us) : cs[c][j] = us[i]
    <3>. HIDE DEF us
    <3>1. cs[c] \in Seq(S)
      BY <1>1, ChunkFacts
    <3>2. j \in 1..Len(cs[c])
      BY <3>1, LenProperties
    <3>. DEFINE i == (c - 1) * MAX_PATTERNS + j
    <3>3. i \in 1..Len(us) /\ cs[c][j] = us[i]
      BY <1>1, <3>2, ChunkFacts
    <3>. QED  BY <3>3
  <2>3. DOMAIN us = 1..Len(us)
    BY <1>1, LenProperties
  <2>. QED  BY <2>2, <2>3 DEF Range
<1>4. \A i : MatchAt(h, ps, ci, i) <=> \E c \in DOMAIN cs : MatchAt(h, cs[c], ci, i)
  <2>. HIDE DEF cs
  <2>. QED  BY <1>2, <1>3 DEF MatchAt, Range
<1>. HIDE DEF cs
<1>5. Matches(h, ps, ci) = UNION {Matches(h, cs[c], ci) : c \in DOMAIN cs}
  BY <1>4 DEF Matches
<1>. QED  BY <1>5 DEF cs
=============================================================================
