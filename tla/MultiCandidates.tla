-------------------------- MODULE MultiCandidates ---------------------------
(***************************************************************************)
(* src/src/multi.rs: MultiCandidates, the k-way merge of the sieves of a   *)
(* MultiSieve into one ascending stream without repetitions.               *)
(*                                                                         *)
(* A sieve enters as what MatchStream promises of it (and Collector        *)
(* implements): each call of its next() returns its least match not yet    *)
(* returned, or None.                                                      *)
(*                                                                         *)
(* held is what MergeState holds: for Two and Three, an entry for every    *)
(* index of the array that is Some; for Heap, the entries of the heap.     *)
(***************************************************************************)
EXTENDS Integers

CONSTANTS
    SieveCounts,    (* how many sieves a MultiSieve may have   *)
    MatchSets       (* the sets of matches a sieve may yield   *)

ASSUME MergeAssumption ==
    /\ SieveCounts \subseteq Nat
    /\ MatchSets \subseteq SUBSET Nat

VARIABLES
    sieve_count,
    streams,        (* the matches of each sieve                       *)
    drawn,          (* those its next() has returned                   *)
    primed,         (* how many sieves MultiCandidates::new has polled *)
    held,           (* the entries of MergeState                       *)
    last_yielded,   (* the last offset returned; -1 for None           *)
    emitted,        (* every offset next() has returned                *)
    yields,         (* how many times it has returned one              *)
    done,           (* next() has returned None at least once          *)
    pc              (* "new", "idle" between calls of next(), "loop"   *)

sieves == <<sieve_count, streams>>
vars == <<sieves, drawn, primed, held, last_yielded, emitted, yields, done, pc>>

HeapEntry == [position : Nat, sieve_index : 0..(sieve_count - 1)]

matches == UNION {streams[s] : s \in 0..(sieve_count - 1)}

Left(s) == streams[s] \ drawn[s]

(* self.sieves[s].next(): least match not yet drawn.                       *)
NextOf(s, p) == p \in Left(s) /\ \A q \in Left(s) : p <= q

(* A bug to catch: what sieve s returned is filed under another sieve. *)
Refill_WrongSieve(s, rest) ==
    \/ \E p \in Left(s) :
          /\ NextOf(s, p)
          /\ held' = rest \cup {[position |-> p, sieve_index |-> s + 1]}
          /\ drawn' = [drawn EXCEPT ![s] = @ \cup {p}]
    \/ /\ Left(s) = {}
       /\ held' = rest
       /\ UNCHANGED drawn

(* A bug to catch: the refill is forgotten. *)
Refill_Forgotten(s, rest) ==
    /\ held' = rest
    /\ UNCHANGED drawn

(* A bug to catch: the sieve is peeked at and never advances. *)
Refill_SameAgain(s, rest) ==
    /\ held' = rest \cup {[position |-> p, sieve_index |-> s] :
                           p \in {q \in Left(s) : NextOf(s, q)}}
    /\ UNCHANGED drawn

(* Poll sieve s and keep what it returns beside the entries of rest.       *)
Refill(s, rest) ==
    \/ \E p \in Left(s) :
          /\ NextOf(s, p)
          /\ held' = rest \cup {[position |-> p, sieve_index |-> s]}
          /\ drawn' = [drawn EXCEPT ![s] = @ \cup {p}]
    \/ /\ Left(s) = {}
       /\ held' = rest
       /\ UNCHANGED drawn

-----------------------------------------------------------------------------
Init ==
    /\ sieve_count \in SieveCounts
    /\ streams \in [0..(sieve_count - 1) -> MatchSets]
    /\ drawn = [s \in 0..(sieve_count - 1) |-> {}]
    /\ primed = 0
    /\ held = {}
    /\ last_yielded = -1
    /\ emitted = {}
    /\ yields = 0
    /\ done = FALSE
    /\ pc = "new"

(* One turn of the loop of MultiCandidates::new.                           *)
Prime ==
    /\ pc = "new"
    /\ primed < sieve_count
    /\ Refill(primed, held)
    /\ primed' = primed + 1
    /\ UNCHANGED <<sieves, last_yielded, emitted, yields, done, pc>>

Constructed ==
    /\ pc = "new"
    /\ primed = sieve_count
    /\ pc' = "idle"
    /\ UNCHANGED <<sieves, drawn, primed, held, last_yielded, emitted, yields, done>>

Poll ==
    /\ pc = "idle"
    /\ pc' = "loop"
    /\ UNCHANGED <<sieves, drawn, primed, held, last_yielded, emitted, yields, done>>

(* MergeState::Two: the smaller of two, index 0 when they are equal.       *)
LeastOfTwo(e) ==
    \A f \in held : IF e.sieve_index = 0 THEN e.position <= f.position
                                         ELSE f = e \/ e.position < f.position

(* MergeState::Three: the first index whose position is the least.         *)
LeastOfThree(e) ==
    \A f \in held :
        IF f.sieve_index < e.sieve_index THEN e.position < f.position
                                         ELSE e.position <= f.position

(* A bug to catch: the heap ordered by sieve before position. *)
LeastOfHeap_IndexFirst(e) ==
    \A f \in held :
        \/ e.sieve_index < f.sieve_index
        \/ e.sieve_index = f.sieve_index /\ e.position <= f.position

(* Ord for HeapEntry, through Reverse: position, then sieve_index.         *)
LeastOfHeap(e) ==
    \A f \in held :
        \/ e.position < f.position
        \/ e.position = f.position /\ e.sieve_index <= f.sieve_index

Selected(e) ==
    /\ e \in held
    /\ IF sieve_count = 2 THEN LeastOfTwo(e)
       ELSE IF sieve_count = 3 THEN LeastOfThree(e) ELSE LeastOfHeap(e)

(* A bug to catch: what two sieves report is returned twice. *)
IsRepeat_Never(position) == FALSE

(* self.last_yielded == Some(position) *)
IsRepeat(position) == last_yielded = position

(* One turn of next()'s loop that finds an entry: refill from its sieve,   *)
(* and return its position unless it was the last one returned.            *)
MergeStep ==
    /\ pc = "loop"
    /\ \E entry \in held :
          /\ Selected(entry)
          /\ Refill(entry.sieve_index, held \ {entry})
          /\ IF IsRepeat(entry.position)
             THEN UNCHANGED <<last_yielded, emitted, yields, pc>>
             ELSE /\ last_yielded' = entry.position
                  /\ emitted' = emitted \cup {entry.position}
                  /\ yields' = yields + 1
                  /\ pc' = "idle"
    /\ UNCHANGED <<sieves, primed, done>>

(* No entry left: next() returns None.                                     *)
Exhausted ==
    /\ pc = "loop"
    /\ held = {}
    /\ done' = TRUE
    /\ pc' = "idle"
    /\ UNCHANGED <<sieves, drawn, primed, held, last_yielded, emitted, yields>>

Step == Prime \/ Constructed \/ MergeStep \/ Exhausted

Next == Poll \/ Step

(* The merge without any promise that a call is ever made or returns.      *)
SafeSpec == Init /\ [][Next]_vars

(* new() and a call of next() run to their end; nobody has to call again.  *)
Spec == SafeSpec /\ WF_vars(Step)

(* A caller that polls until None.                                         *)
CollectSpec == Spec /\ WF_vars(Poll)

-----------------------------------------------------------------------------
(* Every variable has the type of its field.                               *)
TypeOK ==
    /\ sieve_count \in Nat
    /\ streams \in [0..(sieve_count - 1) -> SUBSET Nat]
    /\ drawn \in [0..(sieve_count - 1) -> SUBSET Nat]
    /\ primed \in 0..sieve_count
    /\ held \subseteq HeapEntry
    /\ last_yielded \in Nat \cup {-1}
    /\ emitted \subseteq Nat
    /\ yields \in Nat
    /\ done \in BOOLEAN
    /\ pc \in {"new", "idle", "loop"}

(* MergeState holds at most one entry per sieve, so the heap never grows   *)
(* beyond the capacity reserved for it, and the entry is the last match    *)
(* drawn: a sieve without one has been drained or not been polled.         *)
OneHeadPerSieve ==
    \A s \in 0..(sieve_count - 1) :
        \/ \E e \in held :
              /\ e.sieve_index = s
              /\ e.position \in streams[s]
              /\ drawn[s] = {p \in streams[s] : p <= e.position}
              /\ \A f \in held : f.sieve_index = s => f = e
        \/ /\ drawn[s] = IF s < primed THEN streams[s] ELSE {}
           /\ \A e \in held : e.sieve_index # s

(* The merge has returned exactly the matches up to last_yielded, and      *)
(* nothing it holds lies before that.                                      *)
MergeFrontier ==
    /\ emitted = {m \in matches : m <= last_yielded}
    /\ \A e \in held : last_yielded <= e.position
    /\ last_yielded \in emitted \cup {-1}

(* The merge yields every match of every sieve, ascending and once, and    *)
(* then None for ever, whichever of Two, Three and Heap it uses.           *)
Stream == INSTANCE MatchStream
          WITH matches <- matches, emitted <- emitted, yields <- yields, done <- done
StreamSpec == Stream!Spec

(* A call of next() returns: skipping repetitions ends.                    *)
NextReturns == pc # "idle" ~> pc = "idle"

(* Collecting the candidates ends with every match of every sieve.         *)
CollectCompletes == <>[](done /\ emitted = matches)
=============================================================================
