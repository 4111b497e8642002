--------------------------- MODULE MCVectorFilter ---------------------------
(***************************************************************************)
(* An instance of VectorFilter for TLC with the code's own registers of    *)
(* 64, 32 and 16 bytes: blocks that hold every byte value, and blocks with *)
(* pattern prefixes across the boundaries of registers and halves.         *)
(***************************************************************************)
EXTENDS VectorFilter

A == 65  \* 'A'
a == 97  \* 'a'
b == 98  \* 'b'

Sizes == UNION {n..(n + 3) : n \in {32, 64, 128}}

(* Every byte value from s on, in steps of one. *)
Ramp(n, s) == [k \in 1..n |-> (s + k) % 256]

(* Zeros, with the word w at each position of at and cut off by the end.   *)
Planted(n, w, at) ==
    [k \in 1..n |->
        IF \E p \in at : k - p \in 1..Len(w)
        THEN w[k - (CHOOSE p \in at : k - p \in 1..Len(w))] ELSE 0]

abAb == <<a, b, A, b>>

RealBlocks ==
    {Ramp(n, s) : n \in Sizes, s \in {0, 30, 60, 90, 120, 150, 180, 210}}
    \cup {Planted(n, abAb, at) : n \in Sizes,
             at \in {{0, 13, 30}, {7, 15, 31, 61}, {8, 16, 32, 64, 126}, {29, 63, 127}}}

RealLists ==
    {<<<<a>>>>, <<<<a, b>>>>, <<<<a, b, a>>>>, <<abAb>>, <<<<123>>>>, <<<<91, 92, 93>>>>,
     <<<<64>>, <<96, 97>>>>, <<<<128, 129>>, <<255>>, <<0, 0>>>>,
     <<<<193>>, <<225, 226, 227, 228, 229>>>>}
=============================================================================
