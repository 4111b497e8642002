---------------------------- MODULE MatchStream -----------------------------
(***************************************************************************)
(* What every match iterator of the crate promises its caller: the match   *)
(* offsets in ascending order, each of them once and none left out, and    *)
(* None for ever after the last one (Iterator + FusedIterator).            *)
(*                                                                         *)
(* The order is in Emit: an offset is returned only when every smaller     *)
(* match has been, and no offset at or above it.                           *)
(***************************************************************************)
EXTENDS Integers

VARIABLES
    matches,    (* the offsets to be yielded; fixed when the scan starts *)
    emitted,    (* the offsets next() has returned                       *)
    yields,     (* how often it returned one: a repetition shows here    *)
    done        (* next() has returned None                              *)

vars == <<matches, emitted, yields, done>>

TypeOK ==
    /\ matches \subseteq Nat
    /\ emitted \subseteq matches
    /\ yields \in Nat
    /\ done \in BOOLEAN

Init ==
    /\ matches \subseteq Nat
    /\ emitted = {}
    /\ yields = 0
    /\ done = FALSE

(* next() returns Some(i). *)
Emit(i) ==
    /\ ~done
    /\ i \in matches
    /\ \A j \in emitted : j < i
    /\ \A j \in matches : j < i => j \in emitted
    /\ emitted' = emitted \cup {i}
    /\ yields' = yields + 1
    /\ UNCHANGED <<matches, done>>

(* next() returns None. *)
Exhaust ==
    /\ matches = emitted
    /\ done' = TRUE
    /\ UNCHANGED <<matches, emitted, yields>>

Next == Exhaust \/ \E i \in matches : Emit(i)

Spec == Init /\ [][Next]_vars
=============================================================================
