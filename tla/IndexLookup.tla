---------------------------- MODULE IndexLookup ----------------------------
(***************************************************************************)
(* The binary search of Index.Lookup (broker/storage/index.go), one pass   *)
(* of its loop a step, over every index the constants allow.  Positions in *)
(* the map are counted from 0 as in the code; mm[mid + 1] is the entry at  *)
(* bytes mid*8 .. mid*8+7.                                                 *)
(***************************************************************************)
EXTENDS Index

CONSTANTS
  Rels,       \* relative offsets that occur in an index or are looked up
  Positions,  \* byte positions that occur in an index
  MaxEntries  \* bound: the number of entries of an index

ASSUME LookupAssumption ==
  /\ Rels \subseteq Nat
  /\ Positions \subseteq Nat
  /\ MaxEntries \in Nat

VARIABLES
  mm,         \* Index.mmap as a sequence of entries; no step changes it
  targetRel,  \* the offset looked up, relative to the base
  low, high, bestPos,
  done        \* the search has returned bestPos

vars == <<mm, targetRel, low, high, bestPos, done>>

\* An index of at most MaxEntries entries, in the order of the appends.
Indexes ==
  {s \in UNION {[1 .. n -> [rel : Rels, pos : Positions]] : n \in 0 .. MaxEntries} :
     SortedIndex(s)}

\* An empty map has numEntries - 1 = -1 for high, and the loop body is not
\* entered: the same answer as the early return.
Init ==
  /\ mm \in Indexes
  /\ targetRel \in Rels
  /\ low = 0
  /\ high = Len(mm) - 1
  /\ bestPos = 0
  /\ done = FALSE

Mid == low + (high - low) \div 2

\* Mutant: only an entry that equals the target is remembered.
GoRightExact ==
  /\ ~done /\ low <= high
  /\ mm[Mid + 1].rel <= targetRel
  /\ bestPos' = IF mm[Mid + 1].rel = targetRel THEN mm[Mid + 1].pos ELSE bestPos
  /\ low' = Mid + 1
  /\ UNCHANGED <<mm, targetRel, high, done>>

\* rel <= targetRel: remember the entry and search behind it.
GoRight ==
  /\ ~done /\ low <= high
  /\ mm[Mid + 1].rel <= targetRel
  /\ bestPos' = mm[Mid + 1].pos
  /\ low' = Mid + 1
  /\ UNCHANGED <<mm, targetRel, high, done>>

\* Mutant: the entry just examined stays in the range.
GoLeftInclusive ==
  /\ ~done /\ low <= high
  /\ mm[Mid + 1].rel > targetRel
  /\ high' = Mid
  /\ UNCHANGED <<mm, targetRel, low, bestPos, done>>

GoLeft ==
  /\ ~done /\ low <= high
  /\ mm[Mid + 1].rel > targetRel
  /\ high' = Mid - 1
  /\ UNCHANGED <<mm, targetRel, low, bestPos, done>>

Return ==
  /\ ~done /\ low > high
  /\ done' = TRUE
  /\ UNCHANGED <<mm, targetRel, low, high, bestPos>>

Next == GoRight \/ GoLeft \/ Return

\* The loop runs to its end: it takes no lock and waits for nothing.
Spec == Init /\ [][Next]_vars /\ WF_vars(Next)

-----------------------------------------------------------------------------

\* When the search returns it has found the position of the last entry at or
\* before the target, and 0 when there is none (index.go:74-100).
LookupCorrect == done => bestPos = Lookup(mm, targetRel)

\* Every search returns.
LookupReturns == <>done
=============================================================================
