--------------------------- MODULE MCFuzzTargets ----------------------------
(***************************************************************************)
(* An instance of FuzzTargets for TLC: every input of up to five bytes     *)
(* over letters of both cases and a multiple of sixteen; longer ones that  *)
(* ask for two patterns of two and three bytes, for seven of one and two,  *)
(* and for as many as a sieve holds.                                       *)
(***************************************************************************)
EXTENDS FuzzTargets

Letters == {65, 97, 98}     \* 'A', 'a', 'b': 1, 1 and 2 modulo 8, 16 and 32

AOrB(lengths) == UNION {[1..n -> {65, 97}] : n \in lengths}

SmallData ==
    UNION {[1..n -> Letters \cup {96}] : n \in 0..5}
        \cup {<<98, 98>> \o s : s \in AOrB(4..8)}
        \cup {<<111, 65>> \o s : s \in AOrB({9, 10, 11})}
        \cup AOrB({8, 9})
=============================================================================
