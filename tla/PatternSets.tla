---------------------------- MODULE PatternSets -----------------------------
(***************************************************************************)
(* The pattern lists a caller hands to a constructor, and what is left of  *)
(* them when construction succeeds.                                        *)
(***************************************************************************)
EXTENDS Matching, SequencesExt

CONSTANT MAX_PATTERNS   (* patterns one sieve holds: 16 in the code *)

ASSUME MaxPatternsAssumption == MAX_PATTERNS \in Nat \ {0}

(* Where ps has a pattern it did not have before.                          *)
FirstAt(ps) == {k \in DOMAIN ps : \A j \in 1..(k - 1) : ps[j] # ps[k]}

(* How many members of a set of numbers are k or less.                     *)
Rank(set, k) == Cardinality({j \in set : j <= k})

(* ps without the repetitions, in first-occurrence order. *)
Unique(ps) ==
    LET first == FirstAt(ps)
    IN  [n \in 1..Cardinality(first) |-> ps[CHOOSE k \in first : Rank(first, k) = n]]

(* The 0-based indices of the empty patterns of ps. *)
EmptyAt(ps) == {k \in 0..(Len(ps) - 1) : ps[k + 1] = <<>>}

(* A bug to catch: chunks_exact, which leaves a partial last chunk out. *)
Chunks_Exact(ps) ==
    [c \in 1..(Len(ps) \div MAX_PATTERNS) |->
        SubSeq(ps, (c - 1) * MAX_PATTERNS + 1, c * MAX_PATTERNS)]

(* ps.chunks(16): all of them full but perhaps the last.                   *)
Chunks(ps) ==
    [c \in 1..((Len(ps) + MAX_PATTERNS - 1) \div MAX_PATTERNS) |->
        SubSeq(ps, (c - 1) * MAX_PATTERNS + 1,
               IF c * MAX_PATTERNS <= Len(ps) THEN c * MAX_PATTERNS ELSE Len(ps))]
=============================================================================
