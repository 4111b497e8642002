----------------------------- MODULE MultiSieve -----------------------------
(***************************************************************************)
(* src/src/multi.rs over src/src/sieve/: a MultiSieve at work.  The        *)
(* caller's patterns are dealt out to sieves in chunks, every sieve scans  *)
(* the haystack on its own (Collector, step by step), and MultiCandidates  *)
(* merges what they return (MultiCandidates).                              *)
(*                                                                         *)
(* Only the sieve whose next() is running takes steps.  Its fields are the *)
(* variables offset to ended; those of the others wait in parked until     *)
(* MultiCandidates polls them again.  polled is the running sieve, -1 when *)
(* there is none; pc says where MultiCandidates is, as in MultiCandidates. *)
(***************************************************************************)
EXTENDS PatternSets, FiniteSets

CONSTANTS
    LANES,          (* bytes in one AVX2 or NEON pump: 32 in the code *)
    Tiers,          (* the tiers of the processors                    *)
    Haystacks,
    RawLists        (* the callers' pattern lists                     *)

ASSUME MultiSieveAssumption ==
    /\ LANES \in Nat \ {0}
    /\ Tiers \subseteq {"Avx512", "Avx2", "Neon", "Scalar"}
    /\ Haystacks \subseteq Seq(Byte)
    /\ RawLists \subseteq Seq(Seq(Byte) \ {<<>>}) \ {<<>>}

VARIABLES
    haystack, raw, case_insensitive, tier,
    matches,    (* what the caller is to get: the matches of its list      *)
    sieves,     (* of each: patterns, max_len, the matches it is to yield  *)
    polled,
    offset, current_mask, next_mask_cache, mask_base_offset, sieve_pc,
    returned, returns, ended,   (* a sieve's emitted, yields and done   *)
    parked,
    primed, held, last_yielded, emitted, yields, done, pc

input == <<haystack, raw, case_insensitive, tier, matches, sieves>>
fields == <<offset, current_mask, next_mask_cache, mask_base_offset,
            sieve_pc, returned, returns, ended>>
merge == <<parked, primed, held, last_yielded, emitted, yields, done, pc>>
vars == <<input, polled, fields, merge>>

sieve_count == Len(sieves)
SieveIndex == 0..(sieve_count - 1)

(* The sieve that new() makes of a chunk of the list.                      *)
SieveOf(ps) ==
    [patterns |-> ps,
     max_len |-> CHOOSE n \in 1..PREFIX : IsMaxLen(ps, n),
     matches |-> Matches(haystack, ps, case_insensitive)]

(* The fields of a sieve before its first call. *)
Fresh ==
    [offset |-> 0, current_mask |-> {}, next_mask_cache |-> {}, mask_base_offset |-> 0,
     emitted |-> {}, yields |-> 0, done |-> FALSE]

-----------------------------------------------------------------------------
(* The running sieve, and the merge with its sieves seen from outside.     *)
Sieve ==
    INSTANCE Collector
        WITH PatternLists <- UNION {Range(Chunks(Unique(r))) : r \in RawLists},
             patterns <- sieves[polled + 1].patterns,
             max_len <- sieves[polled + 1].max_len,
             pc <- sieve_pc, emitted <- returned, yields <- returns, done <- ended

Merge ==
    INSTANCE MultiCandidates
        WITH SieveCounts <- Nat, MatchSets <- SUBSET Nat,
             streams <- [s \in SieveIndex |-> sieves[s + 1].matches],
             drawn <- [s \in SieveIndex |-> parked[s].emitted]

-----------------------------------------------------------------------------
Init ==
    /\ haystack \in Haystacks
    /\ raw \in RawLists
    /\ case_insensitive \in BOOLEAN
    /\ tier \in Tiers
    /\ matches = Matches(haystack, raw, case_insensitive)
    /\ sieves = [c \in DOMAIN Chunks(Unique(raw)) |-> SieveOf(Chunks(Unique(raw))[c])]
    /\ polled = -1
    /\ offset = 0 /\ current_mask = {} /\ next_mask_cache = {} /\ mask_base_offset = 0
    /\ sieve_pc = "idle"
    /\ returned = {} /\ returns = 0 /\ ended = FALSE
    /\ parked = [s \in SieveIndex |-> Fresh]
    /\ primed = 0 /\ held = {} /\ last_yielded = -1
    /\ emitted = {} /\ yields = 0 /\ done = FALSE
    /\ pc = "new"

(* self.sieves[s].next() is called: it goes on from the fields of sieve s. *)
Call(s) ==
    /\ polled = -1
    /\ polled' = s
    /\ offset' = parked[s].offset
    /\ current_mask' = parked[s].current_mask
    /\ next_mask_cache' = parked[s].next_mask_cache
    /\ mask_base_offset' = parked[s].mask_base_offset
    /\ returned' = parked[s].emitted
    /\ returns' = parked[s].yields
    /\ ended' = parked[s].done
    /\ sieve_pc' = "loop"
    /\ UNCHANGED <<input, merge>>

SieveStep ==
    /\ polled # -1
    /\ sieve_pc # "idle"
    /\ UNCHANGED <<input, polled, merge>>
    /\ Sieve!Step

(* A bug to catch: the masks of a sieve are not kept between its calls. *)
Left_MasksDropped ==
    [offset |-> offset, current_mask |-> {}, next_mask_cache |-> {},
     mask_base_offset |-> mask_base_offset,
     emitted |-> returned, yields |-> returns, done |-> ended]

(* What the running sieve leaves behind when its next() returns.           *)
Left ==
    [offset |-> offset, current_mask |-> current_mask,
     next_mask_cache |-> next_mask_cache, mask_base_offset |-> mask_base_offset,
     emitted |-> returned, yields |-> returns, done |-> ended]

(* A bug to catch: the answer is filed under the next sieve. *)
Answer_NextSieve ==
    {[position |-> p, sieve_index |-> (polled + 1) % sieve_count] :
        p \in returned \ parked[polled].emitted}

(* What it returned, as an entry of the merge; none for None.              *)
Answer ==
    {[position |-> p, sieve_index |-> polled] : p \in returned \ parked[polled].emitted}

(* Its next() returns and the answer joins the entries of rest.            *)
ReturnWith(rest) ==
    /\ polled # -1
    /\ sieve_pc = "idle"
    /\ parked' = [parked EXCEPT ![polled] = Left]
    /\ held' = rest \cup Answer
    /\ polled' = -1
    /\ UNCHANGED <<input, fields>>

-----------------------------------------------------------------------------
(* MultiCandidates::new polls every sieve once.                            *)
PrimeCall ==
    /\ pc = "new"
    /\ primed < sieve_count
    /\ Call(primed)

PrimeReturn ==
    /\ pc = "new"
    /\ ReturnWith(held)
    /\ primed' = primed + 1
    /\ UNCHANGED <<last_yielded, emitted, yields, done, pc>>

Constructed ==
    /\ pc = "new"
    /\ primed = sieve_count
    /\ pc' = "idle"
    /\ UNCHANGED <<input, polled, fields, parked, primed, held,
                   last_yielded, emitted, yields, done>>

(* The caller calls next() of the candidates.                              *)
Poll ==
    /\ pc = "idle"
    /\ pc' = "loop"
    /\ UNCHANGED <<input, polled, fields, parked, primed, held,
                   last_yielded, emitted, yields, done>>

(* A turn of its loop: the least entry is taken and its sieve polled; the  *)
(* position is returned when it is not the one returned last.              *)
MergeCall ==
    /\ pc = "loop"
    /\ \E entry \in held : Merge!Selected(entry) /\ Call(entry.sieve_index)

MergeReturn ==
    /\ pc = "loop"
    /\ \E entry \in held :
          /\ entry.sieve_index = polled
          /\ ReturnWith(held \ {entry})
          /\ IF Merge!IsRepeat(entry.position)
             THEN UNCHANGED <<last_yielded, emitted, yields, pc>>
             ELSE /\ last_yielded' = entry.position
                  /\ emitted' = emitted \cup {entry.position}
                  /\ yields' = yields + 1
                  /\ pc' = "idle"
    /\ UNCHANGED <<primed, done>>

(* No entry left: next() returns None.                                     *)
Exhausted ==
    /\ pc = "loop"
    /\ polled = -1
    /\ held = {}
    /\ done' = TRUE
    /\ pc' = "idle"
    /\ UNCHANGED <<input, polled, fields, parked, primed, held,
                   last_yielded, emitted, yields>>

Step ==
    \/ SieveStep
    \/ PrimeCall \/ PrimeReturn \/ Constructed
    \/ MergeCall \/ MergeReturn \/ Exhausted

Next == Poll \/ Step

(* Constructing and polling run to their end; the caller polls until None, *)
(* as collect() does.                                                      *)
CollectSpec == Init /\ [][Next]_vars /\ WF_vars(Step) /\ WF_vars(Poll)

-----------------------------------------------------------------------------
(* Every variable has the type of its field, those of the sieves that wait *)
(* included.                                                               *)
TypeOK ==
    /\ polled \in SieveIndex \cup {-1}
    /\ polled # -1 => Sieve!TypeOK
    /\ \A s \in SieveIndex :
          /\ parked[s].offset \in 0..Len(haystack)
          /\ parked[s].emitted \subseteq 0..(Len(haystack) - 1)
    /\ primed \in 0..sieve_count
    /\ held \subseteq [position : 0..(Len(haystack) - 1), sieve_index : SieveIndex]
    /\ last_yielded \in -1..(Len(haystack) - 1)
    /\ pc \in {"new", "idle", "loop"}

(* A sieve that takes many steps for one call, while the others wait with  *)
(* blocks half looked at, is to the merge what it assumes: each call       *)
(* returns the least match of that sieve's patterns not yet returned.      *)
MergeSpec == Merge!SafeSpec

(* The caller gets the matches of the list it passed, repeated patterns    *)
(* and all: ascending, each offset once however many chunks report it, and *)
(* then None for ever.                                                     *)
Stream ==
    INSTANCE MatchStream
        WITH matches <- matches,
             emitted <- emitted, yields <- yields, done <- done
StreamSpec == Stream!Spec

(* Collecting the candidates ends with every match of the caller's list.   *)
CollectCompletes == <>[](done /\ emitted = matches)
=============================================================================
