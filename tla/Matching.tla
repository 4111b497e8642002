------------------------------ MODULE Matching ------------------------------
(***************************************************************************)
(* What it means for a position of a haystack to be a prefix hit (all a    *)
(* hardware filter looks at) and a match (what a sieve yields).            *)
(*                                                                         *)
(* A haystack is a sequence of bytes; position i of the code is element    *)
(* i + 1 of the sequence.  A pattern list is a sequence of byte sequences. *)
(***************************************************************************)
EXTENDS Fold

CONSTANT PREFIX     (* prefix bytes a filter compares: 4 in the code *)

ASSUME PrefixAssumption == PREFIX \in Nat \ {0}

(* slice.len().min(4) *)
eval_len(p) == IF Len(p) > PREFIX THEN PREFIX ELSE Len(p)

(* haystack[i..i + n] *)
Slice(h, i, n) == SubSeq(h, i + 1, i + n)

(* The full pattern p fits at i and the verifier accepts it there. *)
PatternAt(h, p, ci, i) ==
    /\ Len(h) - i >= Len(p)
    /\ verifier(ci, Slice(h, i, Len(p)), p)

MatchAt(h, ps, ci, i) == \E k \in DOMAIN ps : PatternAt(h, ps[k], ci, i)

(* The first eval_len(p) bytes of p are in h from position i on. *)
PrefixOfAt(h, p, ci, i) ==
    /\ i + eval_len(p) <= Len(h)
    /\ \A j \in 1..eval_len(p) : Canon(ci, h[i + j]) = Canon(ci, p[j])

PrefixAt(h, ps, ci, i) == \E k \in DOMAIN ps : PrefixOfAt(h, ps[k], ci, i)

(* The positions of a filter's mask, out of the width positions of h from  *)
(* lo on: those where the prefix of some pattern is.                       *)
PrefixHits(h, ps, ci, lo, width) ==
    {b \in 0..(width - 1) : PrefixAt(h, ps, ci, lo + b)}

(* A bug to catch: the shortest prefix instead of the longest. *)
IsMaxLen_Shortest(ps, n) ==
    /\ \A k \in DOMAIN ps : eval_len(ps[k]) >= n
    /\ \E k \in DOMAIN ps : eval_len(ps[k]) = n

(* The max_len of a sieve: the longest prefix of any pattern.              *)
IsMaxLen(ps, n) ==
    /\ \A k \in DOMAIN ps : eval_len(ps[k]) <= n
    /\ \E k \in DOMAIN ps : eval_len(ps[k]) = n

(* The offsets a sieve over ps promises to yield for h. *)
Matches(h, ps, ci) == {i \in 0..(Len(h) - 1) : MatchAt(h, ps, ci, i)}
=============================================================================
