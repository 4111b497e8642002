-------------------------------- MODULE Fold --------------------------------
(***************************************************************************)
(* src/src/fold.rs: ASCII folding of one byte and the two verifiers a      *)
(* sieve compares a haystack slice with.  Bytes are u8 values, and the     *)
(* arithmetic wraps at 256 as the wrapping_* operations of u8 do.          *)
(***************************************************************************)
EXTENDS Integers, Sequences

Byte == 0..255

ASCII_CASE_OFFSET == 32

wrapping_sub(a, b) == (a - b + 256) % 256
wrapping_neg(a) == (256 - a) % 256

(* A u8 & 0x00 or & 0xFF: the two values wrapping_neg gives a 0/1 flag. *)
BitAnd00orFF(a, mask) == IF mask = 255 THEN a ELSE 0

(* b.wrapping_sub(b'a') < 26 selects exactly 'a'..'z': a byte below 'a'    *)
(* wraps to a value above 25.                                              *)
fold_byte(b) ==
    LET is_lowercase == IF wrapping_sub(b, 97) < 26 THEN 1 ELSE 0
    IN  wrapping_sub(b, BitAnd00orFF(ASCII_CASE_OFFSET,
                                     wrapping_neg(is_lowercase)))

(* Folds a slice in place. *)
fold_slice(data) == [k \in DOMAIN data |-> fold_byte(data[k])]

(* The byte that filters and verifiers compare. *)
Canon(case_insensitive, b) == IF case_insensitive THEN fold_byte(b) ELSE b

verify_exact(left, right) == left = right

verify_case_insensitive(pattern, haystack) ==
    /\ Len(pattern) = Len(haystack)
    /\ \A i \in 1..Len(pattern) :
          fold_byte(pattern[i]) = fold_byte(haystack[i])

(* The function pointer a sieve stores at construction. *)
verifier(case_insensitive, left, right) ==
    IF case_insensitive THEN verify_case_insensitive(left, right)
                        ELSE verify_exact(left, right)
=============================================================================
