----------------------- MODULE MultiCandidates_proofs -----------------------
(***************************************************************************)
(* Proofs about MultiCandidates for any number of sieves and any matches,  *)
(* finitely many or not: type correctness, one head per sieve, what the    *)
(* merge has returned at any point, and that it implements MatchStream     *)
(* over the union of the sieves' matches.                                  *)
(***************************************************************************)
EXTENDS MultiCandidates, TLAPS

Sieves == 0..(sieve_count - 1)

(* new() polls the sieves in order, all of them before the first call of   *)
(* next(), and returns nothing; None is returned once nothing is held.     *)
Primed ==
    /\ \A s \in Sieves : s >= primed => drawn[s] = {}
    /\ pc # "new" => primed = sieve_count
    /\ pc = "new" => emitted = {} /\ last_yielded = -1
    /\ done => held = {} /\ pc # "new"

(* What a sieve has returned is either held still or has been passed on:   *)
(* what a refill replaces is never lost.                                   *)
DrawnIsKept ==
    \A s \in Sieves : \A m \in drawn[s] :
        m \in emitted \/ [position |-> m, sieve_index |-> s] \in held

(* The inductive invariant: the checked invariants, and these two.         *)
IInv == TypeOK /\ Primed /\ OneHeadPerSieve /\ DrawnIsKept /\ MergeFrontier

-----------------------------------------------------------------------------
(* Whichever form MergeState has, the entry taken has the least position.  *)
LEMMA SelectedIsLeast ==
    ASSUME TypeOK, NEW e, Selected(e)
    PROVE  /\ e \in held /\ e.position \in Nat /\ e.sieve_index \in Sieves
           /\ e = [position |-> e.position, sieve_index |-> e.sieve_index]
           /\ \A f \in held : e.position <= f.position
<1>1. e \in held /\ held \subseteq HeapEntry
  BY DEF Selected, TypeOK
<1>2. \A f \in held : f.position \in Nat /\ f.sieve_index \in Int
  BY <1>1 DEF HeapEntry, TypeOK
<1>3. \A f \in held : e.position <= f.position
  BY <1>1, <1>2 DEF Selected, LeastOfTwo, LeastOfThree, LeastOfHeap
<1>. QED  BY <1>1, <1>3 DEF HeapEntry, Sieves

(* A match lies in the stream of one of the sieves.                        *)
LEMMA MatchesOfSieves ==
    ASSUME TypeOK
    PROVE  /\ matches \subseteq Nat
           /\ \A m : m \in matches <=> \E s \in Sieves : m \in streams[s]
  BY DEF TypeOK, matches, Sieves

(* Every match below all the heads has been returned.                      *)
LEMMA BelowHeadsIsReturned ==
    ASSUME IInv, primed = sieve_count,
           NEW m \in matches, \A f \in held : m < f.position
    PROVE  m \in emitted
<1>1. PICK s \in Sieves : m \in streams[s]
  BY MatchesOfSieves DEF IInv
<1>2. m \in drawn[s]
  BY <1>1 DEF IInv, OneHeadPerSieve, TypeOK, Sieves, HeapEntry
<1>3. CASE [position |-> m, sieve_index |-> s] \in held
  BY <1>3, MatchesOfSieves DEF IInv
<1>. QED  BY <1>1, <1>2, <1>3 DEF IInv, DrawnIsKept

-----------------------------------------------------------------------------
(* Sieve s has an entry, and has returned the matches up to it.            *)
Head(s) ==
    \E e \in held :
        /\ e.sieve_index = s
        /\ e.position \in streams[s]
        /\ drawn[s] = {p \in streams[s] : p <= e.position}
        /\ \A f \in held : f.sieve_index = s => f = e

(* Sieve s has returned all of its matches, and has no entry.              *)
Emptied(s) == drawn[s] = streams[s] /\ \A e \in held : e.sieve_index # s

(* Refilling from a sieve that has returned its matches up to lo, none of  *)
(* them held, gives it its next head or shows it empty; the other sieves   *)
(* keep their entries.                                                     *)
LEMMA RefillFacts ==
    ASSUME TypeOK, UNCHANGED sieves,
           NEW s \in Sieves, NEW rest \in SUBSET held, NEW lo \in Nat \cup {-1},
           drawn[s] = {p \in streams[s] : p <= lo},
           \A e \in rest : e.sieve_index # s,
           Refill(s, rest)
    PROVE  /\ held' \subseteq HeapEntry'
           /\ drawn' \in [Sieves -> SUBSET Nat]
           /\ Head(s)' \/ Emptied(s)'
           /\ rest \subseteq held'
           /\ \A e \in held' \ rest :
                  /\ e.sieve_index = s /\ e.position > lo
                  /\ e = [position |-> e.position, sieve_index |-> s]
           /\ \A m \in drawn'[s] : m \in drawn[s] \/ [position |-> m, sieve_index |-> s] \in held'
           /\ \A t \in Sieves \ {s} : drawn'[t] = drawn[t]
<1>1. /\ drawn \in [Sieves -> SUBSET Nat] /\ streams[s] \subseteq Nat
      /\ held \subseteq HeapEntry /\ HeapEntry' = HeapEntry
      /\ streams' = streams /\ sieve_count' = sieve_count /\ sieve_count \in Nat
  BY DEF TypeOK, Sieves, HeapEntry, sieves
<1>2. CASE Left(s) = {} /\ held' = rest /\ UNCHANGED drawn
  <2>1. Emptied(s)'
    BY <1>1, <1>2 DEF Emptied, Left
  <2>. QED  BY <1>1, <1>2, <2>1
<1>3. ASSUME NEW p \in Left(s), NextOf(s, p),
             held' = rest \cup {[position |-> p, sieve_index |-> s]},
             drawn' = [drawn EXCEPT ![s] = @ \cup {p}]
      PROVE  /\ held' \subseteq HeapEntry'
             /\ drawn' \in [Sieves -> SUBSET Nat]
             /\ Head(s)'
             /\ p > lo
  <2>. DEFINE e == [position |-> p, sieve_index |-> s]
  <2>1. p \in streams[s] /\ p \in Nat /\ p \notin drawn[s] /\ p > lo
    BY <1>1 DEF Left
  <2>2. e \in HeapEntry /\ e.position = p /\ e.sieve_index = s
    BY <2>1 DEF HeapEntry, Sieves
  <2>3. drawn'[s] = {q \in streams[s] : q <= p}
    <3>1. drawn'[s] = drawn[s] \cup {p}
      BY <1>1, <1>3
    <3>2. ASSUME NEW q \in streams[s]
          PROVE  q <= p <=> q \in drawn[s] \/ q = p
      <4>1. q \in Nat /\ (q \in drawn[s] <=> q <= lo)
        BY <1>1
      <4>2. q \notin drawn[s] => p <= q
        BY <1>3 DEF NextOf, Left
      <4>. QED  BY <2>1, <4>1, <4>2
    <3>. QED  BY <2>1, <3>1, <3>2
  <2>4. Head(s)'
    <3>1. e \in held' /\ \A f \in held' : f.sieve_index = s => f = e
      BY <1>3
    <3>. QED  BY <1>1, <2>1, <2>2, <2>3, <3>1 DEF Head
  <2>5. drawn' \in [Sieves -> SUBSET Nat]
    BY <1>1, <1>3, <2>1
  <2>. QED  BY <1>1, <1>3, <2>1, <2>2, <2>4, <2>5
<1>4. ASSUME NEW p \in Left(s), NextOf(s, p),
             held' = rest \cup {[position |-> p, sieve_index |-> s]},
             drawn' = [drawn EXCEPT ![s] = @ \cup {p}]
      PROVE  /\ rest \subseteq held'
             /\ \A e \in held' \ rest :
                  /\ e.sieve_index = s /\ e.position > lo
                  /\ e = [position |-> e.position, sieve_index |-> s]
             /\ \A m \in drawn'[s] : m \in drawn[s] \/ [position |-> m, sieve_index |-> s] \in held'
             /\ \A t \in Sieves \ {s} : drawn'[t] = drawn[t]
  <2>1. p > lo
    BY <1>3, <1>4
  <2>2. drawn'[s] = drawn[s] \cup {p}
    BY <1>1, <1>4
  <2>. QED  BY <1>1, <1>4, <2>1, <2>2
<1>. QED  BY <1>2, <1>3, <1>4 DEF Refill

(* A sieve whose drawn matches and entries a step leaves alone keeps its   *)
(* head, or stays empty.                                                   *)
LEMMA HeadKept ==
    ASSUME UNCHANGED sieves, NEW s, drawn'[s] = drawn[s],
           {e \in held' : e.sieve_index = s} = {e \in held : e.sieve_index = s}
    PROVE  (Head(s) => Head(s)') /\ (Emptied(s) => Emptied(s)')
<1>1. streams' = streams
  BY DEF sieves
<1>2. \A e : e \in held' /\ e.sieve_index = s <=> e \in held /\ e.sieve_index = s
  OBVIOUS
<1>. QED  BY <1>1, <1>2 DEF Head, Emptied

-----------------------------------------------------------------------------
(* Nothing is polled and nothing held.                                     *)
LEMMA InitIInv == Init => IInv
<1>. SUFFICES ASSUME Init PROVE IInv
  OBVIOUS
<1>1. TypeOK
  <2>1. sieve_count \in Nat /\ primed \in 0..sieve_count
    BY MergeAssumption DEF Init
  <2>2. streams \in [0..(sieve_count - 1) -> SUBSET Nat]
    BY MergeAssumption DEF Init
  <2>. QED  BY <2>1, <2>2 DEF Init, TypeOK
<1>2. matches \subseteq Nat
  BY <1>1, MatchesOfSieves
<1>3. MergeFrontier
  <2>1. \A m \in matches : ~(m <= -1)
    BY <1>2
  <2>. QED  BY <2>1 DEF Init, MergeFrontier
<1>4. \A s \in Sieves : drawn[s] = {} /\ s \in Int /\ ~(s < 0)
  BY <1>1 DEF Init, Sieves, TypeOK
<1>5. Primed /\ OneHeadPerSieve /\ DrawnIsKept
  BY <1>4 DEF Init, Primed, OneHeadPerSieve, DrawnIsKept, Sieves
<1>. QED  BY <1>1, <1>3, <1>5 DEF IInv

(* Polling a sieve for its first match.                                    *)
LEMMA PrimeStep == ASSUME IInv, Prime PROVE IInv'
<1>. USE DEF IInv
<1>. SUFFICES ASSUME NEW CONSTANT s, s = primed PROVE IInv'
  OBVIOUS
<1>1. /\ pc = "new" /\ s < sieve_count /\ primed' = s + 1 /\ Refill(s, held)
      /\ UNCHANGED <<sieves, last_yielded, emitted, yields, done, pc>>
      /\ sieve_count' = sieve_count /\ streams' = streams
  BY DEF Prime, sieves
<1>2. /\ sieve_count \in Nat /\ s \in Sieves /\ Sieves' = Sieves /\ ~done
      /\ drawn \in [Sieves -> SUBSET Nat] /\ streams[s] \subseteq Nat
  BY <1>1 DEF TypeOK, Sieves, Primed
<1>3. drawn[s] = {} /\ \A e \in held : e.sieve_index # s
  <2>1. ~Head(s)
    <3>. SUFFICES ASSUME Head(s) PROVE FALSE
      OBVIOUS
    <3>1. PICK e \in held : e.sieve_index = s /\ e.position \in streams[s]
                            /\ drawn[s] = {p \in streams[s] : p <= e.position}
      BY DEF Head
    <3>2. e.position \in drawn[s] /\ e.position \in Nat
      BY <1>2, <3>1
    <3>3. drawn[s] = {}
      BY <1>2 DEF Primed, TypeOK
    <3>. QED  BY <3>2, <3>3
  <2>. QED  BY <1>2, <2>1 DEF OneHeadPerSieve, Head, Sieves
<1>4. /\ held' \subseteq HeapEntry'
      /\ drawn' \in [Sieves -> SUBSET Nat]
      /\ Head(s)' \/ Emptied(s)'
      /\ held \subseteq held'
      /\ \A e \in held' \ held :
             /\ e.sieve_index = s /\ e.position > -1
             /\ e = [position |-> e.position, sieve_index |-> s]
      /\ \A m \in drawn'[s] : m \in drawn[s] \/ [position |-> m, sieve_index |-> s] \in held'
      /\ \A t \in Sieves \ {s} : drawn'[t] = drawn[t]
  <2>1. drawn[s] = {p \in streams[s] : p <= -1}
    BY <1>2, <1>3
  <2>2. -1 \in Nat \cup {-1} /\ held \in SUBSET held /\ TypeOK /\ UNCHANGED sieves
    BY <1>1
  <2>. HIDE DEF IInv
  <2>. QED  BY <1>1, <1>2, <1>3, <2>1, <2>2, RefillFacts
<1>5. TypeOK'
  <2>1. primed' \in 0..sieve_count'
    BY <1>1, <1>2 DEF TypeOK
  <2>. QED  BY <1>1, <1>2, <1>4, <2>1 DEF TypeOK, Sieves
<1>6. Primed'
  BY <1>1, <1>2, <1>4 DEF Primed, TypeOK, Sieves
<1>7. OneHeadPerSieve'
  <2>. SUFFICES ASSUME NEW t \in Sieves
                PROVE  Head(t)' \/ (/\ drawn'[t] = IF t < primed' THEN streams'[t] ELSE {}
                                   /\ \A e \in held' : e.sieve_index # t)
    BY <1>2 DEF OneHeadPerSieve, Head, Sieves
  <2>1. CASE t = s
    <3>1. t < primed'
      BY <1>1, <1>2, <2>1 DEF Sieves
    <3>. QED  BY <1>4, <2>1, <3>1 DEF Emptied
  <2>2. CASE t # s
    <3>1. {e \in held' : e.sieve_index = t} = {e \in held : e.sieve_index = t}
      BY <1>4, <2>2
    <3>2. Head(t) => Head(t)'
      BY <1>1, <1>4, <2>2, <3>1, HeadKept
    <3>3. t \in Int /\ s \in Int /\ (t < primed' <=> t < primed)
      BY <1>1, <1>2, <2>2 DEF Sieves
    <3>4. Head(t) \/ (/\ drawn[t] = IF t < primed THEN streams[t] ELSE {}
                     /\ \A e \in held : e.sieve_index # t)
      BY DEF OneHeadPerSieve, Head, Sieves
    <3>. QED  BY <1>1, <1>4, <2>2, <3>1, <3>2, <3>3, <3>4
  <2>. QED  BY <2>1, <2>2
<1>8. DrawnIsKept'
  BY <1>1, <1>2, <1>3, <1>4 DEF DrawnIsKept
<1>9. MergeFrontier'
  <2>1. matches' = matches
    BY <1>1 DEF matches
  <2>2. \A e \in held' : last_yielded <= e.position
    <3>1. last_yielded = -1
      BY <1>1 DEF Primed
    <3>. QED  BY <1>4, <3>1 DEF HeapEntry
  <2>. QED  BY <1>1, <2>1, <2>2 DEF MergeFrontier
<1>. QED  BY <1>5, <1>6, <1>7, <1>8, <1>9

(* The end of new(), and a call of next().                                 *)
LEMMA ControlStep == ASSUME IInv, Constructed \/ Poll \/ UNCHANGED vars PROVE IInv'
<1>. USE DEF IInv
<1>1. /\ UNCHANGED <<sieves, drawn, primed, held, last_yielded, emitted, yields, done>>
      /\ pc' \in {"new", "idle", "loop"}
      /\ pc' = "new" <=> pc = "new" /\ pc' = pc
      /\ pc' # "new" => primed = sieve_count
  BY DEF Constructed, Poll, vars, TypeOK, Primed
<1>2. sieve_count' = sieve_count /\ streams' = streams /\ matches' = matches /\ Sieves' = Sieves
  BY <1>1 DEF sieves, matches, Sieves
<1>3. TypeOK'
  BY <1>1, <1>2 DEF TypeOK, HeapEntry
<1>4. Primed'
  BY <1>1, <1>2 DEF Primed
<1>5. OneHeadPerSieve' /\ DrawnIsKept' /\ MergeFrontier'
  BY <1>1, <1>2 DEF OneHeadPerSieve, DrawnIsKept, MergeFrontier
<1>. QED  BY <1>3, <1>4, <1>5

(* The entry a call of next() takes: what is below it has been returned,   *)
(* and its sieve has returned the matches up to it.                        *)
LEMMA TakenEntry ==
    ASSUME IInv, pc = "loop", NEW e, Selected(e)
    PROVE  /\ e \in held /\ e.position \in Nat /\ e.sieve_index \in Sieves
           /\ e = [position |-> e.position, sieve_index |-> e.sieve_index]
           /\ \A f \in held : e.position <= f.position
           /\ e.position \in matches
           /\ last_yielded <= e.position /\ last_yielded \in Nat \cup {-1}
           /\ \A m \in matches : m < e.position => m \in emitted
           /\ drawn[e.sieve_index] = {p \in streams[e.sieve_index] : p <= e.position}
           /\ \A f \in held : f.sieve_index = e.sieve_index => f = e
           /\ ~done
<1>. USE DEF IInv
<1>1. /\ e \in held /\ e.position \in Nat /\ e.sieve_index \in Sieves
      /\ e = [position |-> e.position, sieve_index |-> e.sieve_index]
      /\ \A f \in held : e.position <= f.position
  BY SelectedIsLeast
<1>2. Head(e.sieve_index)
  BY <1>1 DEF OneHeadPerSieve, Head, Sieves
<1>3. /\ e.position \in streams[e.sieve_index]
      /\ drawn[e.sieve_index] = {p \in streams[e.sieve_index] : p <= e.position}
      /\ \A f \in held : f.sieve_index = e.sieve_index => f = e
  BY <1>1, <1>2 DEF Head
<1>4. ASSUME NEW m \in matches, m < e.position
      PROVE  m \in emitted
  <2>1. m \in Nat /\ \A f \in held : f.position \in Nat
    BY MatchesOfSieves DEF TypeOK, HeapEntry
  <2>2. \A f \in held : m < f.position
    BY <1>1, <1>4, <2>1
  <2>3. primed = sieve_count
    BY DEF Primed
  <2>. QED  BY <2>2, <2>3, BelowHeadsIsReturned
<1>5. e.position \in matches
  BY <1>1, <1>3, MatchesOfSieves
<1>6. last_yielded <= e.position /\ last_yielded \in Nat \cup {-1} /\ ~done
  BY <1>1 DEF MergeFrontier, Primed, TypeOK
<1>. QED  BY <1>1, <1>3, <1>4, <1>5, <1>6

(* A turn of the loop: whether or not the position is a repetition, after  *)
(* it everything up to it has been returned.                               *)
LEMMA MergeStepStep == ASSUME IInv, MergeStep PROVE IInv'
<1>. USE DEF IInv
<1>1. PICK e \in held :
          /\ Selected(e)
          /\ Refill(e.sieve_index, held \ {e})
          /\ IF IsRepeat(e.position)
             THEN UNCHANGED <<last_yielded, emitted, yields, pc>>
             ELSE /\ last_yielded' = e.position
                  /\ emitted' = emitted \cup {e.position}
                  /\ yields' = yields + 1
                  /\ pc' = "idle"
  BY DEF MergeStep
<1>. DEFINE s == e.sieve_index
            rest == held \ {e}
<1>2. /\ pc = "loop" /\ UNCHANGED <<sieves, primed, done>>
      /\ sieve_count' = sieve_count /\ streams' = streams
      /\ matches' = matches /\ Sieves' = Sieves
  BY DEF MergeStep, sieves, matches, Sieves
<1>3. /\ e.position \in Nat /\ s \in Sieves
      /\ e = [position |-> e.position, sieve_index |-> s]
      /\ \A f \in held : e.position <= f.position
      /\ e.position \in matches
      /\ last_yielded <= e.position /\ last_yielded \in Nat \cup {-1}
      /\ \A m \in matches : m < e.position => m \in emitted
      /\ drawn[s] = {p \in streams[s] : p <= e.position}
      /\ \A f \in rest : f.sieve_index # s
      /\ ~done
  BY <1>1, <1>2, TakenEntry
<1>4. /\ held' \subseteq HeapEntry'
      /\ drawn' \in [Sieves -> SUBSET Nat]
      /\ Head(s)' \/ Emptied(s)'
      /\ rest \subseteq held'
      /\ \A f \in held' \ rest :
             /\ f.sieve_index = s /\ f.position > e.position
             /\ f = [position |-> f.position, sieve_index |-> s]
      /\ \A m \in drawn'[s] : m \in drawn[s] \/ [position |-> m, sieve_index |-> s] \in held'
      /\ \A t \in Sieves \ {s} : drawn'[t] = drawn[t]
  <2>1. TypeOK /\ UNCHANGED sieves /\ rest \in SUBSET held /\ e.position \in Nat \cup {-1}
    BY <1>2, <1>3
  <2>. HIDE DEF IInv
  <2>. QED  BY <1>1, <1>3, <2>1, RefillFacts
<1>5. /\ last_yielded' = e.position
      /\ emitted' = emitted \cup {e.position}
      /\ yields' \in Nat /\ pc' \in {"idle", "loop"}
  <2>1. CASE IsRepeat(e.position)
    <3>1. last_yielded = e.position /\ e.position \in emitted
      BY <1>3, <2>1 DEF IsRepeat, MergeFrontier
    <3>. QED  BY <1>1, <1>2, <2>1, <3>1 DEF TypeOK
  <2>2. CASE ~IsRepeat(e.position)
    BY <1>1, <2>2 DEF TypeOK
  <2>. QED  BY <2>1, <2>2
<1>6. TypeOK'
  BY <1>2, <1>3, <1>4, <1>5 DEF TypeOK, Sieves
<1>7. Primed'
  BY <1>2, <1>3, <1>5 DEF Primed, TypeOK, Sieves
<1>8. OneHeadPerSieve'
  <2>. SUFFICES ASSUME NEW t \in Sieves
                PROVE  Head(t)' \/ (/\ drawn'[t] = IF t < primed' THEN streams'[t] ELSE {}
                                   /\ \A f \in held' : f.sieve_index # t)
    BY <1>2 DEF OneHeadPerSieve, Head, Sieves
  <2>1. t < primed /\ primed' = primed
    BY <1>2 DEF Primed, Sieves, TypeOK
  <2>2. CASE t = s
    BY <1>2, <1>4, <2>1, <2>2 DEF Emptied
  <2>3. CASE t # s
    <3>1. {f \in held' : f.sieve_index = t} = {f \in held : f.sieve_index = t}
      BY <1>4, <2>3
    <3>2. Head(t) => Head(t)'
      BY <1>2, <1>4, <2>3, <3>1, HeadKept
    <3>3. Head(t) \/ (drawn[t] = streams[t] /\ \A f \in held : f.sieve_index # t)
      BY <2>1 DEF OneHeadPerSieve, Head, Sieves
    <3>. QED  BY <1>2, <1>4, <2>1, <2>3, <3>1, <3>2, <3>3
  <2>. QED  BY <2>2, <2>3
<1>9. DrawnIsKept'
  <2>. SUFFICES ASSUME NEW t \in Sieves, NEW m \in drawn'[t]
                PROVE  m \in emitted' \/ [position |-> m, sieve_index |-> t] \in held'
    BY <1>2 DEF DrawnIsKept
  <2>1. CASE m \in drawn[t]
    <3>1. m \in emitted \/ [position |-> m, sieve_index |-> t] \in held
      BY <2>1 DEF DrawnIsKept
    <3>2. CASE [position |-> m, sieve_index |-> t] = e
      BY <1>3, <1>5, <3>2
    <3>. QED  BY <1>4, <1>5, <3>1, <3>2
  <2>2. CASE m \notin drawn[t]
    BY <1>4, <2>2
  <2>. QED  BY <2>1, <2>2
<1>10. MergeFrontier'
  <2>1. emitted' = {m \in matches : m <= e.position}
    <3>1. emitted = {m \in matches : m <= last_yielded} /\ matches \subseteq Nat
      BY MatchesOfSieves DEF MergeFrontier
    <3>2. ASSUME NEW m \in matches
          PROVE  m <= e.position <=> m \in emitted \/ m = e.position
      <4>1. m \in Nat /\ (m \in emitted => m <= last_yielded)
        BY <3>1
      <4>. QED  BY <1>3, <4>1
    <3>. QED  BY <1>3, <1>5, <3>1, <3>2
  <2>2. \A f \in held' : e.position <= f.position
    <3>1. \A f \in held' : f.position \in Nat
      BY <1>4 DEF HeapEntry
    <3>. QED  BY <1>3, <1>4, <3>1
  <2>. QED  BY <1>2, <1>3, <1>5, <2>1, <2>2 DEF MergeFrontier
<1>. QED  BY <1>6, <1>7, <1>8, <1>9, <1>10

LEMMA ExhaustedStep == ASSUME IInv, Exhausted PROVE IInv'
<1>. USE DEF IInv
<1>1. /\ UNCHANGED <<sieves, drawn, primed, held, last_yielded, emitted, yields>>
      /\ pc = "loop" /\ pc' = "idle" /\ done' = TRUE /\ held = {}
  BY DEF Exhausted
<1>2. sieve_count' = sieve_count /\ streams' = streams /\ matches' = matches /\ Sieves' = Sieves
  BY <1>1 DEF sieves, matches, Sieves
<1>3. TypeOK'
  BY <1>1, <1>2 DEF TypeOK, HeapEntry
<1>4. Primed'
  BY <1>1, <1>2 DEF Primed
<1>5. OneHeadPerSieve' /\ DrawnIsKept' /\ MergeFrontier'
  BY <1>1, <1>2 DEF OneHeadPerSieve, DrawnIsKept, MergeFrontier
<1>. QED  BY <1>3, <1>4, <1>5

-----------------------------------------------------------------------------
(* Every step of new(), of next() and of the caller preserves it.          *)
LEMMA NextKeepsIInv ==
    ASSUME IInv, [Next]_vars
    PROVE  IInv'
<1>1. CASE Prime
  BY <1>1, PrimeStep
<1>2. CASE Constructed \/ Poll \/ UNCHANGED vars
  BY <1>2, ControlStep
<1>3. CASE MergeStep
  BY <1>3, MergeStepStep
<1>4. CASE Exhausted
  BY <1>4, ExhaustedStep
<1>. QED  BY <1>1, <1>2, <1>3, <1>4 DEF Next, Step

(* The inductive invariant holds from construction on.                     *)
THEOREM Invariance == SafeSpec => []IInv
<1>1. IInv /\ [Next]_vars => IInv'
  BY NextKeepsIInv
<1>. QED  BY <1>1, InitIInv, PTL DEF SafeSpec

(* The fields keep their types, and every entry names one of the sieves.   *)
THEOREM TypeCorrect == SafeSpec => []TypeOK
<1>1. IInv => TypeOK
  BY DEF IInv
<1>. QED  BY <1>1, Invariance, PTL

(* A sieve never has two entries in MergeState, and has none only before   *)
(* new() polls it or once it is exhausted.                                 *)
THEOREM OneHead == SafeSpec => []OneHeadPerSieve
<1>1. IInv => OneHeadPerSieve
  BY DEF IInv
<1>. QED  BY <1>1, Invariance, PTL

(* What has been returned is every match up to last_yielded: comparing     *)
(* with the last offset is enough to drop all repetitions.                 *)
THEOREM FrontierHolds == SafeSpec => []MergeFrontier
<1>1. IInv => MergeFrontier
  BY DEF IInv
<1>. QED  BY <1>1, Invariance, PTL

-----------------------------------------------------------------------------
(* A step of the merge is a step of the promised stream, or invisible.     *)
LEMMA StepImplements ==
    ASSUME IInv, [Next]_vars
    PROVE  [Stream!Next]_(Stream!vars)
<1>. USE DEF Stream!vars
<1>1. CASE Prime \/ Constructed \/ Poll \/ UNCHANGED vars
  BY <1>1 DEF Prime, Constructed, Poll, vars, sieves, matches
<1>2. CASE MergeStep
  <2>1. PICK e \in held :
            /\ Selected(e)
            /\ \/ IsRepeat(e.position) /\ UNCHANGED <<emitted, yields>>
               \/ /\ ~IsRepeat(e.position)
                  /\ emitted' = emitted \cup {e.position}
                  /\ yields' = yields + 1
    BY <1>2 DEF MergeStep
  <2>2. pc = "loop" /\ matches' = matches /\ done' = done
    BY <1>2 DEF MergeStep, sieves, matches
  <2>3. /\ e.position \in Nat /\ e.position \in matches /\ ~done
        /\ last_yielded <= e.position /\ last_yielded \in Nat \cup {-1}
        /\ \A m \in matches : m < e.position => m \in emitted
    BY <2>1, <2>2, TakenEntry
  <2>4. CASE /\ last_yielded # e.position
            /\ emitted' = emitted \cup {e.position} /\ yields' = yields + 1
    <3>1. emitted = {m \in matches : m <= last_yielded} /\ matches \subseteq Nat
      BY MatchesOfSieves DEF IInv, MergeFrontier
    <3>2. \A m \in emitted : m < e.position
      BY <2>3, <2>4, <3>1
    <3>3. Stream!Emit(e.position)
      BY <2>2, <2>3, <2>4, <3>2 DEF Stream!Emit
    <3>. QED  BY <2>3, <3>3 DEF Stream!Next
  <2>. QED  BY <2>1, <2>2, <2>4 DEF IsRepeat
<1>3. CASE Exhausted
  <2>1. /\ UNCHANGED <<emitted, yields>> /\ matches' = matches /\ done' = TRUE
        /\ pc = "loop" /\ held = {}
    BY <1>3 DEF Exhausted, sieves, matches
  <2>2. primed = sieve_count /\ emitted \subseteq matches
    BY <2>1 DEF IInv, Primed, MergeFrontier
  <2>3. matches = emitted
    BY <2>1, <2>2, BelowHeadsIsReturned
  <2>. QED  BY <2>1, <2>3 DEF Stream!Next, Stream!Exhaust
<1>. QED  BY <1>1, <1>2, <1>3 DEF Next, Step

(* A merge of any number of sieves yields every match of every sieve, in   *)
(* ascending order, each offset once however many sieves report it, and    *)
(* None for ever after the last.                                           *)
THEOREM MergeImplementsStream == SafeSpec => StreamSpec
<1>1. Init => Stream!Init
  <2>. SUFFICES ASSUME Init PROVE Stream!Init
    OBVIOUS
  <2>1. matches \subseteq Nat
    BY InitIInv, MatchesOfSieves DEF IInv
  <2>. QED  BY <2>1 DEF Init, Stream!Init
<1>2. IInv /\ [Next]_vars => [Stream!Next]_(Stream!vars)
  BY StepImplements
<1>. QED  BY <1>1, <1>2, Invariance, PTL DEF SafeSpec, StreamSpec, Stream!Spec
=============================================================================
