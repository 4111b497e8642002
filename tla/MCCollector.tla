---------------------------- MODULE MCCollector -----------------------------
(***************************************************************************)
(* Instances of Collector for TLC.                                         *)
(*                                                                         *)
(* "Small" has one-byte half-blocks and two-byte prefixes, so that a few   *)
(* bytes of haystack cover every block boundary, and takes every haystack. *)
(* "Real" has the code's own geometry and haystacks with a few planted     *)
(* patterns, at the boundaries of the 32-, 64- and 128-byte blocks.        *)
(***************************************************************************)
EXTENDS Collector

A == 65  \* 'A'
a == 97  \* 'a'
b == 98  \* 'b'
x == 120 \* 'x'

Words(alphabet, n) == [1..n -> alphabet]

SmallHaystacks ==
    (UNION {Words({a, b}, n) : n \in 0..8}) \cup Words({A, a, b}, 4)

(* A one-byte pattern, a two-byte one, one longer than its prefix, and     *)
(* patterns of different lengths side by side.                             *)
SmallPatternLists ==
    { <<<<a>>>>, <<<<a, b>>>>, <<<<a, a, b>>>>, <<<<b>>, <<A, b, a>>>>,
      <<<<b, b, a>>, <<a, b>>>> }

(* size bytes of filler with the word w written at each position of at.    *)
Planted(size, w, at) ==
    [k \in 1..size |->
        IF \E p \in at : k - p \in 1..Len(w)
        THEN w[k - (CHOOSE p \in at : k - p \in 1..Len(w))] ELSE x]

abAba == <<a, b, A, b, a>>

RealHaystacks ==
    {Planted(n, abAba, at) :
        n \in {0, 5, 31, 36, 64, 67, 68, 99, 131, 132, 197},
        at \in {{}, {0, 27, 59}, {31, 63}, {32, 64, 126}, {60, 124, 190}}}

RealPatternLists ==
    {<<abAba>>, <<<<a>>>>, <<<<a, b, A, b, b>>, <<b, a>>>>}

(* One block of every tier, with a match at each of its positions.         *)
Dense == {[k \in 1..64 |-> a]}
OnePattern == {<<<<a>>>>}
=============================================================================
