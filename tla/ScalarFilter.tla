---------------------------- MODULE ScalarFilter ----------------------------
(***************************************************************************)
(* src/src/scalar.rs: check_64byte_block, the filter of the scalar tier.   *)
(*                                                                         *)
(* For each pattern the code walks the block with an unrolled loop, which  *)
(* tests UNROLL positions at a time and loads them without bound checks as *)
(* long as all the loads lie in the block, and finishes with a loop that   *)
(* tests one position and zero-fills what lies beyond the block.  Every    *)
(* turn of a loop is an action.                                            *)
(***************************************************************************)
EXTENDS Filter

CONSTANTS
    BLOCK,          (* positions in a block: 64 in the code           *)
    UNROLL          (* positions per turn of the unrolled loop: 4     *)

ASSUME ScalarAssumption ==
    /\ BLOCK \in Nat \ {0}
    /\ UNROLL \in Nat \ {0}
    /\ \E n \in 1..BLOCK : BLOCK = n * UNROLL

VARIABLES i, mask

scalar_vars == <<input, p_idx, i, mask, pc>>

(* self.patterns[p_idx] *)
pattern == Packed(prefixes[p_idx + 1], case_insensitive)

(* load_u32_safe: bytes beyond the block are zero.  The unchecked loads of *)
(* the unrolled loop are the same word where all its bytes are inside.     *)
load(at) == [j \in 0..(PREFIX - 1) |-> IF at + j < Len(block) THEN block[at + j + 1] ELSE 0]

folded(at) == [j \in 0..(PREFIX - 1) |-> Canon(case_insensitive, load(at)[j])]

Tested(n) == {k \in i..(i + n - 1) : MaskedEqual(folded(k), pattern)}

-----------------------------------------------------------------------------
ScalarInit ==
    /\ Handed(BLOCK)
    /\ p_idx = 0
    /\ i = 0
    /\ mask = {}
    /\ pc = "pattern"

(* A pattern that could read beyond the block is skipped. *)
StartPattern ==
    /\ pc = "pattern"
    /\ p_idx < Len(prefixes)
    /\ IF Len(block) < BLOCK + (pattern.len - 1)
       THEN p_idx' = p_idx + 1 /\ UNCHANGED <<i, pc>>
       ELSE i' = 0 /\ pc' = "unrolled" /\ UNCHANGED p_idx
    /\ UNCHANGED <<input, mask>>

(* i + 6 < block.len(): the last byte of the last word of this turn.       *)
AllLoadsFit(at) == at + (UNROLL - 1) + (PREFIX - 1) < Len(block)

(* A bug to catch: the loop advances by more than it has tested. *)
UnrolledLoop_Gap ==
    /\ pc = "unrolled"
    /\ AllLoadsFit(i) /\ i < BLOCK
    /\ mask' = mask \cup Tested(UNROLL)
    /\ i' = i + UNROLL + 1
    /\ UNCHANGED <<input, p_idx, pc>>

UnrolledLoop ==
    /\ pc = "unrolled"
    /\ AllLoadsFit(i) /\ i < BLOCK
    /\ mask' = mask \cup Tested(UNROLL)
    /\ i' = i + UNROLL
    /\ UNCHANGED <<input, p_idx, pc>>

UnrolledLoopDone ==
    /\ pc = "unrolled"
    /\ ~(AllLoadsFit(i) /\ i < BLOCK)
    /\ pc' = "tail"
    /\ UNCHANGED <<input, p_idx, i, mask>>

(* A bug to catch: the trailing bytes are tested as positions too. *)
InTail_WholeBlock(at) == at < Len(block)

(* i < block.len().min(64) *)
InTail(at) == at < Len(block) /\ at < BLOCK

(* A bug to catch: the index stays where the pattern is not. *)
TailLoop_Stuck ==
    /\ pc = "tail"
    /\ InTail(i)
    /\ mask' = mask \cup Tested(1)
    /\ i' = IF Tested(1) = {} THEN i ELSE i + 1
    /\ UNCHANGED <<input, p_idx, pc>>

TailLoop ==
    /\ pc = "tail"
    /\ InTail(i)
    /\ mask' = mask \cup Tested(1)
    /\ i' = i + 1
    /\ UNCHANGED <<input, p_idx, pc>>

TailLoopDone ==
    /\ pc = "tail"
    /\ ~InTail(i)
    /\ p_idx' = p_idx + 1
    /\ pc' = "pattern"
    /\ UNCHANGED <<input, i, mask>>

ScalarReturn ==
    /\ pc = "pattern"
    /\ p_idx = Len(prefixes)
    /\ pc' = "done"
    /\ UNCHANGED <<input, p_idx, i, mask>>

ScalarNext ==
    \/ StartPattern \/ UnrolledLoop \/ UnrolledLoopDone
    \/ TailLoop \/ TailLoopDone \/ ScalarReturn

(* A call runs until it returns.                                           *)
ScalarSpec == ScalarInit /\ [][ScalarNext]_scalar_vars /\ WF_scalar_vars(ScalarNext)

-----------------------------------------------------------------------------
(* Every variable has the type of its field.  No shift 1 << i reaches the  *)
(* width of the mask, which would panic in a debug build and wrap in a     *)
(* release build.                                                          *)
ScalarTypeOK ==
    /\ block \in Seq(Byte)
    /\ prefixes \in Seq(Seq(Byte) \ {<<>>})
    /\ case_insensitive \in BOOLEAN
    /\ p_idx \in 0..Len(prefixes)
    /\ i \in 0..BLOCK
    /\ mask \subseteq 0..(BLOCK - 1)
    /\ pc \in {"pattern", "unrolled", "tail", "done"}

Hits(k) ==
    {b \in 0..(BLOCK - 1) : PrefixOfAt(block, prefixes[k], case_insensitive, b)}

(* The two loops hand over without a gap: the mask is what the patterns    *)
(* before p_idx have in the whole block and this one up to i.              *)
MaskSoFar ==
    mask = (UNION {Hits(k) : k \in 1..p_idx})
           \cup (IF pc \in {"unrolled", "tail"}
                 THEN {b \in Hits(p_idx + 1) : b < i} ELSE {})

(* The word comparisons, masked and folded, give exactly the prefix hits   *)
(* of the block: what Dispatch takes a filter for.                         *)
ScalarFilterIsExact ==
    pc = "done" => mask = PrefixHits(block, prefixes, case_insensitive, 0, BLOCK)

(* The loops end.                                                          *)
FilterReturns == <>(pc = "done")
=============================================================================
