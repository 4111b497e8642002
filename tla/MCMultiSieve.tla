---------------------------- MODULE MCMultiSieve ----------------------------
(***************************************************************************)
(* An instance of MultiSieve for TLC: two patterns to a sieve, so that     *)
(* lists of up to eight make one to four sieves (Two, Three and two sizes  *)
(* of Heap), and one-byte half-blocks, so that a sieve waits with a block  *)
(* half looked at.                                                         *)
(***************************************************************************)
EXTENDS MultiSieve

A == 65 \* 'A'
a == 97 \* 'a'
b == 98 \* 'b'

FewTiers == {"Avx512", "Avx2", "Scalar"}

FewHaystacks == (UNION {[1..n -> {a, b}] : n \in {0, 2, 4, 5}}) \cup {<<A, b, a, a, A, b, a>>}

(* One sieve; two; three that overlap; four, after a repetition.           *)
FewLists ==
    { <<<<a>>>>, <<<<b, a>>, <<a>>, <<b, a>>, <<b, b>>>>,
      <<<<a>>, <<b, b, a>>, <<a, b>>, <<A>>, <<A, b, a>>>>,
      <<<<a, b>>, <<b>>, <<a, b>>, <<a, b, a>>, <<b, b>>, <<a, A>>, <<b, a>>, <<a>>>> }
=============================================================================
