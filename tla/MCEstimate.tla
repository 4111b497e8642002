---------------------------- MODULE MCEstimate ------------------------------
(***************************************************************************)
(* Instances of Estimate for TLC: two patterns per sieve, a window shorter *)
(* than the longest inputs, pattern lists of every kind (none, too many,   *)
(* an empty one among few and among many, repeated, of mixed lengths).     *)
(***************************************************************************)
EXTENDS Estimate

a == 97 \* 'a'
b == 98 \* 'b'
A == 65 \* 'A'

AllInputs == (UNION {[1..n -> {a, b}] : n \in 0..7}) \cup [1..3 -> {A, a}]

AllRawLists ==
    { <<>>, <<<<a>>>>, <<<<a, b>>, <<a, b>>>>, <<<<b>>, <<A, b, a>>>>, <<<<b, b>>, <<>>>>,
      <<<<a>>, <<b, a>>, <<a>>>>, <<<<a>>, <<>>, <<b>>>>, <<<<b, b, b>>, <<a, a>>>> }

FewInputs == {<<>>, <<a>>, <<b, a>>, <<a, b, a>>, <<b, b, a, a, b>>, <<a, b, a, b, a, b, a>>}
=============================================================================
