------------------------------- MODULE Index -------------------------------
(***************************************************************************)
(* The contents of one .index file and what Index.Lookup answers about it  *)
(* (broker/storage/index.go).                                              *)
(*                                                                         *)
(* An entry holds the offset of a record relative to the segment's base    *)
(* and the byte position of that record in the .log file.  Both are        *)
(* uint32 in the file; a segment is rolled at 10 MB, far below 2^32, so    *)
(* the truncation in Index.Write is not modelled.                          *)
(***************************************************************************)
EXTENDS Integers, Sequences

Entry == [rel : Nat, pos : Nat]

\* Every append writes one entry, in the order of the appends.
SortedIndex(mm) ==
  \A i, j \in DOMAIN mm : i <= j => mm[i].rel <= mm[j].rel

\* A lookup that keeps the first entry found instead of the last.
LookupFirst(mm, targetRel) ==
  LET hits == {i \in DOMAIN mm : mm[i].rel <= targetRel}
  IN  IF hits = {} THEN 0
      ELSE mm[CHOOSE i \in hits : \A j \in hits : i <= j].pos

\* What Index.Lookup returns on the mapped entries mm: the position of the
\* last entry at or before the target, and 0 when there is none (also the
\* early return for an empty map).  Module IndexLookup has the loop itself
\* and shows that it computes this.
Lookup(mm, targetRel) ==
  LET hits == {i \in DOMAIN mm : mm[i].rel <= targetRel}
  IN  IF hits = {} THEN 0
      ELSE mm[CHOOSE i \in hits : \A j \in hits : j <= i].pos
=============================================================================
