--------------------------- MODULE MCScalarFilter ---------------------------
(***************************************************************************)
(* An instance of ScalarFilter for TLC: every block over a few bytes, with *)
(* two-byte words, two of them per turn and four positions.                *)
(***************************************************************************)
EXTENDS ScalarFilter

A == 65  \* 'A'
a == 97  \* 'a'
b == 98  \* 'b'

SmallBlocks == UNION {[1..n -> {0, A, a, 225}] : n \in 4..5}

SmallLists ==
    {<<<<a>>>>, <<<<0>>>>, <<<<a, A>>>>, <<<<a, 0, b>>>>, <<<<A>>, <<a, a>>>>, <<<<0, A>>, <<a>>>>}
=============================================================================
