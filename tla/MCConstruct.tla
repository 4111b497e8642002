---------------------------- MODULE MCConstruct -----------------------------
(***************************************************************************)
(* Instances of Construct for TLC: lists of up to five patterns, the empty *)
(* one among them, with two patterns to a sieve, and processors with and   *)
(* without each of the features that select a tier.                        *)
(***************************************************************************)
EXTENDS Construct

a == 97 \* 'a'
b == 98 \* 'b'

Lists(choices, n) == UNION {[1..k -> choices] : k \in 0..n}

AllLists == Lists({<<>>, <<a>>, <<b, a, b>>, <<a, b>>}, 3) \cup Lists({<<a>>, <<b>>, <<a, a>>}, 5)

FewLists == {<<>>, <<<<a>>>>, <<<<a>>, <<>>>>, <<<<a>>, <<b>>, <<a, a>>, <<a>>>>}

AllCpus ==
    {[arch |-> "x86_64", features |-> fs] : fs \in SUBSET {"avx2", "avx512f", "avx512bw"}}
        \cup {[arch |-> "aarch64", features |-> {"neon"}], [arch |-> "other", features |-> {}]}

OneCpu == {[arch |-> "other", features |-> {}]}
=============================================================================
