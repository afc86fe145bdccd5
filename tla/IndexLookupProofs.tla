------------------------- MODULE IndexLookupProofs -------------------------
(***************************************************************************)
(* The binary search of Index.Lookup returns the last entry at or before   *)
(* the target, for every sorted index of every length.                     *)
(***************************************************************************)
EXTENDS IndexLookup, TLAPS

\* The loop's invariant.  The entries before `low' are at or before the
\* target, those after `high' behind it; bestPos is the position of the entry
\* just before `low'; and the map is never read outside its bounds.
LoopInv ==
  /\ mm \in Seq(Entry)
  /\ SortedIndex(mm)
  /\ targetRel \in Nat
  /\ low \in 0 .. Len(mm)
  /\ high \in -1 .. Len(mm) - 1
  /\ low <= high + 1
  /\ \A i \in 1 .. low : mm[i].rel <= targetRel
  /\ \A i \in high + 2 .. Len(mm) : mm[i].rel > targetRel
  /\ bestPos = IF low = 0 THEN 0 ELSE mm[low].pos
  /\ done \in BOOLEAN
  /\ done => low = high + 1

\* Mid lies in the range that is searched.
LEMMA MidInRange ==
  ASSUME low \in Int, high \in Int, low <= high
  PROVE  Mid \in Int /\ low <= Mid /\ Mid <= high
  BY DEF Mid

\* The fields of an entry of an index.
LEMMA EntryFields ==
  ASSUME NEW s \in Seq(Entry), NEW i \in DOMAIN s
  PROVE  s[i].rel \in Nat /\ s[i].pos \in Nat
<1>1. s[i] \in Entry
  OBVIOUS
<1> QED
  BY <1>1 DEF Entry

\* An index built from the constants is a sequence of entries.
LEMMA IndexesAreSequences ==
  ASSUME NEW s \in Indexes
  PROVE  s \in Seq(Entry) /\ SortedIndex(s)
<1>1. PICK n \in 0 .. MaxEntries : s \in [1 .. n -> [rel : Rels, pos : Positions]]
  BY DEF Indexes
<1>2. [rel : Rels, pos : Positions] \subseteq Entry
  BY LookupAssumption DEF Entry
<1>3. n \in Nat
  BY LookupAssumption
<1> QED
  BY <1>1, <1>2, <1>3 DEF Indexes

\* The search starts with nothing ruled out.
LEMMA LoopInvInit == Init => LoopInv
<1> SUFFICES ASSUME Init PROVE LoopInv
  OBVIOUS
<1>1. mm \in Seq(Entry) /\ SortedIndex(mm)
  BY IndexesAreSequences DEF Init
<1>2. Len(mm) \in Nat
  BY <1>1
<1>3. \A i \in high + 2 .. Len(mm) : mm[i].rel > targetRel
  BY <1>2 DEF Init
<1>4. \A i \in 1 .. low : mm[i].rel <= targetRel
  BY DEF Init
<1>5. targetRel \in Nat
  BY LookupAssumption DEF Init
<1>6. done \in BOOLEAN /\ (done => low = high + 1)
  BY Zenon DEF Init
<1>7. low \in 0 .. Len(mm) /\ high \in -1 .. Len(mm) - 1 /\ low <= high + 1
  BY <1>2 DEF Init
<1>8. bestPos = IF low = 0 THEN 0 ELSE mm[low].pos
  BY DEF Init
<1> QED
  BY <1>1, <1>3, <1>4, <1>5, <1>6, <1>7, <1>8 DEF LoopInv

\* Every pass of the loop keeps its invariant.
LEMMA LoopInvStep == LoopInv /\ [Next]_vars => LoopInv'
<1> SUFFICES ASSUME LoopInv, [Next]_vars PROVE LoopInv'
  OBVIOUS
<1>1. CASE GoRight
  <2>1. Mid \in Int /\ low <= Mid /\ Mid <= high
    BY <1>1, MidInRange DEF GoRight, LoopInv
  <2>2. Mid + 1 \in 1 .. Len(mm)
    BY <2>1 DEF LoopInv
  <2>3. \A i \in 1 .. Mid + 1 : mm[i].rel <= targetRel
    <3> SUFFICES ASSUME NEW i \in 1 .. Mid + 1 PROVE mm[i].rel <= targetRel
      OBVIOUS
    <3>1. i \in DOMAIN mm /\ Mid + 1 \in DOMAIN mm /\ i <= Mid + 1
      BY <2>1, <2>2 DEF LoopInv
    <3>2. mm[i].rel <= mm[Mid + 1].rel
      BY <3>1 DEF LoopInv, SortedIndex
    <3>3. mm[i].rel \in Nat /\ mm[Mid + 1].rel \in Nat
      BY <3>1, EntryFields DEF LoopInv
    <3> QED
      BY <1>1, <3>2, <3>3 DEF GoRight, LoopInv
  <2> QED
    BY <1>1, <2>1, <2>2, <2>3 DEF GoRight, LoopInv
<1>2. CASE GoLeft
  <2>1. Mid \in Int /\ low <= Mid /\ Mid <= high
    BY <1>2, MidInRange DEF GoLeft, LoopInv
  <2>2. Mid + 1 \in 1 .. Len(mm)
    BY <2>1 DEF LoopInv
  <2>3. \A i \in Mid + 1 .. Len(mm) : mm[i].rel > targetRel
    <3> SUFFICES ASSUME NEW i \in Mid + 1 .. Len(mm) PROVE mm[i].rel > targetRel
      OBVIOUS
    <3>1. i \in DOMAIN mm /\ Mid + 1 \in DOMAIN mm /\ Mid + 1 <= i
      BY <2>1, <2>2 DEF LoopInv
    <3>2. mm[Mid + 1].rel <= mm[i].rel
      BY <3>1 DEF LoopInv, SortedIndex
    <3>3. mm[i].rel \in Nat /\ mm[Mid + 1].rel \in Nat
      BY <3>1, EntryFields DEF LoopInv
    <3> QED
      BY <1>2, <3>2, <3>3 DEF GoLeft, LoopInv
  <2> QED
    BY <1>2, <2>1, <2>2, <2>3 DEF GoLeft, LoopInv
<1>3. CASE Return
  BY <1>3 DEF Return, LoopInv
<1>4. CASE UNCHANGED vars
  BY <1>4 DEF vars, LoopInv
<1> QED
  BY <1>1, <1>2, <1>3, <1>4 DEF Next

\* When the range is empty, the entries at or before the target are exactly
\* those before `low', and bestPos belongs to the last of them.
LEMMA LoopInvImpliesCorrect == LoopInv => LookupCorrect
<1> SUFFICES ASSUME LoopInv, done PROVE bestPos = Lookup(mm, targetRel)
  BY DEF LookupCorrect
<1> DEFINE hits == {i \in DOMAIN mm : mm[i].rel <= targetRel}
<1>1. hits = 1 .. low
  <2>1. \A i \in DOMAIN mm : mm[i].rel \in Nat
    BY EntryFields DEF LoopInv
  <2> QED
    BY <2>1 DEF LoopInv
<1>2. CASE low = 0
  BY <1>1, <1>2 DEF Lookup, LoopInv
<1>3. CASE low # 0
  <2>1. hits # {} /\ low \in hits
    BY <1>1, <1>3 DEF LoopInv
  <2>2. (CHOOSE i \in hits : \A j \in hits : j <= i) = low
    <3>1. \A j \in hits : j <= low
      BY <1>1 DEF LoopInv
    <3>2. \A i \in hits : (\A j \in hits : j <= i) => i = low
      BY <1>1, <2>1 DEF LoopInv
    <3> HIDE DEF hits
    <3> QED
      BY <2>1, <3>1, <3>2
  <2>3. Lookup(mm, targetRel) =
          mm[CHOOSE i \in hits : \A j \in hits : j <= i].pos
    BY <2>1, Zenon DEF Lookup
  <2>4. bestPos = mm[low].pos
    BY <1>3 DEF LoopInv
  <2> HIDE DEF hits
  <2> QED
    BY <2>2, <2>3, <2>4
<1> QED
  BY <1>2, <1>3

\* The loop invariant holds in every state of the search: no read outside the
\* map, and the answer so far is right for the part already searched.
THEOREM LoopInvariant == Spec => []LoopInv
  BY LoopInvInit, LoopInvStep, PTL DEF Spec

\* Index.Lookup computes what the models of the read path use for it.
THEOREM LookupIsCorrect == Spec => []LookupCorrect
<1>1. Spec => []LoopInv
  BY LoopInvariant
<1> QED
  BY <1>1, LoopInvImpliesCorrect, PTL
=============================================================================
