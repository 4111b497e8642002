------------------------------- MODULE Filter -------------------------------
(***************************************************************************)
(* What the filters of all tiers share: the block and the prefixes they    *)
(* are handed, and how new() of ScalarFilter, Avx2Filter, Avx512Filter and *)
(* NeonFilter stores a pattern's prefix.                                   *)
(*                                                                         *)
(* A machine word of PREFIX bytes is a function from the index of a byte   *)
(* (0 the least significant) to the byte.                                  *)
(***************************************************************************)
EXTENDS Matching

CONSTANTS
    Blocks,         (* the bytes fetch_next_chunk may hand over       *)
    PatternLists    (* the prefixes a filter is built of              *)

ASSUME FilterAssumption ==
    /\ Blocks \subseteq Seq(Byte)
    /\ PatternLists \subseteq Seq(Seq(Byte) \ {<<>>}) \ {<<>>}

VARIABLES
    block, prefixes, case_insensitive,
    p_idx,          (* the pattern the loop has come to               *)
    pc

input == <<block, prefixes, case_insensitive>>

(* dispatch.rs: a block of n positions comes with as many trailing bytes   *)
(* as the sieve's own max_len asks for, less one.                          *)
Handed(n) ==
    /\ block \in Blocks
    /\ prefixes \in PatternLists
    /\ case_insensitive \in BOOLEAN
    /\ \E m \in 1..PREFIX : IsMaxLen(prefixes, m) /\ Len(block) = n + m - 1

-----------------------------------------------------------------------------
Word == [0..(PREFIX - 1) -> Byte]

(* A bug to catch: the pattern is stored without folding it. *)
Packed_Unfolded(p, ci) ==
    [len  |-> eval_len(p),
     word |-> [j \in 0..(PREFIX - 1) |-> IF j < eval_len(p) THEN p[j + 1] ELSE 0]]

(* The folded prefix, zero-filled, and how many of its bytes count.        *)
Packed(p, ci) ==
    [len  |-> eval_len(p),
     word |-> [j \in 0..(PREFIX - 1) |->
                 IF j < eval_len(p) THEN Canon(ci, p[j + 1]) ELSE 0]]

(* (loaded ^ p.word) & p.mask == 0, with build_mask(p.len) for the mask.   *)
MaskedEqual(loaded, p) == \A j \in 0..(p.len - 1) : loaded[j] = p.word[j]
=============================================================================
