--------------------------- MODULE LogReadsProofs ---------------------------
(***************************************************************************)
(* The commit log implements the log a partition promises, its counters    *)
(* are exact, and an acknowledged record is read back and fetched from at  *)
(* its offset, when only crashes, failed log writes and failed rolls       *)
(* happen.                                                                 *)
(***************************************************************************)
EXTENDS LogReads, CommitLogProofs, FunctionTheorems, SequenceTheorems

-----------------------------------------------------------------------------
(* Exact files: the index file is written whenever the log file is, a       *)
(* crash apart, so that acknowledged records are where their index entries  *)
(* say, and segments do not overlap.                                        *)

\* The failures after which the structs still match the files.
Benign == Platform = "unix" /\ Faults \subseteq {"crash", "write", "roll"}

\* The structs match the files, but for the record of an Append that has yet
\* to write its index entry.
MatchInv ==
  \A b \in DOMAIN segs :
    IF b = active /\ pend.stage = "index"
    THEN /\ segs[b].next + 1 = b + Len(logf[b])
         /\ logf[b][Len(logf[b])].id = pend.id
         /\ logf[b][Len(logf[b])].at = segs[b].size
         /\ FileEnd(logf[b]) = segs[b].size + pend.size
    ELSE /\ segs[b].next = b + Len(logf[b])
         /\ segs[b].size = FileEnd(logf[b])

\* Every index is mapped to its last entry.
MappedInv == \A b \in DOMAIN segs : segs[b].mapped = Len(idxf[b])

ExactInv ==
  OrderInv /\ MappedInv /\ MatchInv /\ SegmentsDisjoint /\ AckedIndexed

-----------------------------------------------------------------------------
(* Lemmas.                                                                  *)

\* The file b has an index entry for a, and it leads to a's own record.
IndexedIn(b, a) ==
  \E i \in DOMAIN idxf[b] :
    /\ b + idxf[b][i].rel = a.off
    /\ idxf[b][i].rel + 1 \in DOMAIN logf[b]
    /\ logf[b][idxf[b][i].rel + 1].id = a.id
    /\ logf[b][idxf[b][i].rel + 1].at = idxf[b][i].pos

\* Files that only grow keep what an entry leads to.
LEMMA IndexedStays ==
  ASSUME TypeOK, TypeOK', AppendOnly, NEW b \in DOMAIN logf, NEW a, IndexedIn(b, a)
  PROVE  b \in DOMAIN logf' /\ IndexedIn(b, a)'
<1>1. PICK i \in DOMAIN idxf[b] :
        /\ b + idxf[b][i].rel = a.off
        /\ idxf[b][i].rel + 1 \in DOMAIN logf[b]
        /\ logf[b][idxf[b][i].rel + 1].id = a.id
        /\ logf[b][idxf[b][i].rel + 1].at = idxf[b][i].pos
  BY DEF IndexedIn
<1>2. /\ b \in DOMAIN logf'
      /\ logf[b] \in Seq(Frame) /\ logf'[b] \in Seq(Frame)
      /\ idxf[b] \in Seq(Entry) /\ idxf'[b] \in Seq(Entry)
  BY DEF TypeOK, AppendOnly
<1>3. /\ Len(logf[b]) <= Len(logf'[b]) /\ Len(idxf[b]) <= Len(idxf'[b])
      /\ idxf'[b][i] = idxf[b][i]
      /\ logf'[b][idxf[b][i].rel + 1] = logf[b][idxf[b][i].rel + 1]
  BY <1>1 DEF AppendOnly
<1>4. i \in DOMAIN idxf'[b]
  BY <1>2, <1>3
<1>5. idxf[b][i].rel + 1 \in DOMAIN logf'[b]
  BY <1>1, <1>2, <1>3
<1> QED
  BY <1>1, <1>2, <1>3, <1>4, <1>5 DEF IndexedIn

\* While the files only grow, every acknowledged record stays indexed.
LEMMA AckedIndexedStays ==
  ASSUME AckedIndexed, TypeOK, TypeOK', AppendOnly, NEW a \in acked
  PROVE  \E b \in DOMAIN logf' : IndexedIn(b, a)'
<1>1. PICK b \in DOMAIN logf : IndexedIn(b, a)
  BY DEF AckedIndexed, IndexedIn
<1> QED
  BY <1>1, IndexedStays

\* A step that acknowledges nothing keeps AckedIndexed.
LEMMA NoAckKeepsIndexed ==
  ASSUME AckedIndexed, TypeOK, TypeOK', AppendOnly, UNCHANGED acked
  PROVE  AckedIndexed'
<1>1. \A a \in acked : \E b \in DOMAIN logf' : IndexedIn(b, a)'
  BY AckedIndexedStays
<1> QED
  BY <1>1 DEF AckedIndexed, IndexedIn

\* A file ends behind the frame appended last.
LEMMA FileEndAppend ==
  ASSUME NEW f \in Seq(Frame), NEW fr \in Frame
  PROVE  FileEnd(Append(f, fr)) = fr.at + fr.kept
<1>1. Append(f, fr) # <<>> /\ Len(Append(f, fr)) = Len(f) + 1
      /\ Append(f, fr)[Len(f) + 1] = fr
  BY AppendKeeps
<1> QED
  BY <1>1 DEF FileEnd

-----------------------------------------------------------------------------
(* The mapping never fails and never dangles.                               *)

\* Under benign faults the mapping of the active index is never dangling and
\* never fails.
LEMMA NoRemapFailure ==
  ASSUME Benign, TypeOK, MappedInv
  PROVE  ~RemapFails
<1> SUFFICES ASSUME RemapFails PROVE FALSE
  OBVIOUS
<1>1. running
  BY PendFields DEF RemapFails
<1>2. segs[active].mapped = Len(idxf[active]) /\ Len(idxf[active]) \in Nat
  BY <1>1, ActiveFields DEF MappedInv
<1>3. MunmapOk /\ MapFileOk
  BY <1>2 DEF Benign, MunmapOk, MapFileOk, Dangling
<1> QED
  BY <1>3 DEF RemapFails, Benign

\* Every step keeps each open index mapped in full.
LEMMA MappedStep ==
  ASSUME Benign, TypeOK, MappedInv, [Next]_vars
  PROVE  MappedInv'
<1>1. CASE Open
  <2> DEFINE dir   == IF DOMAIN logf = {} THEN Created(logf, 0) ELSE logf
             xdir  == IF DOMAIN logf = {} THEN Created(idxf, 0) ELSE idxf
             bases == DOMAIN dir
  <2>1. idxf' = xdir
    BY <1>1 DEF Open
  <2>2. PICK n \in [bases -> UNION {RecoveredCounts(dir[b]) : b \in bases}] :
          segs' = [b \in bases |-> NewSegment(b, dir[b], xdir[b], n[b])]
    BY <1>1 DEF Open
  <2> HIDE DEF dir, xdir, bases
  <2> QED
    BY <2>1, <2>2 DEF MappedInv, NewSegment
<1>2. CASE Close \/ Crash
  BY <1>2 DEF Close, Crash, Closed, MappedInv
<1>3. CASE UNCHANGED <<idxf, segs>>
  BY <1>3 DEF MappedInv
<1>4. ASSUME NEW sz \in Sizes, AppendAfterRoll(sz) PROVE MappedInv'
  <2> DEFINE b == segs[active].next
  <2>1. PICK n \in RecoveredCounts(logf'[b]) :
          segs' = [x \in DOMAIN segs \union {b} |->
                     IF x = b THEN NewSegment(b, logf'[b], idxf'[b], n)
                     ELSE segs[x]]
    BY <1>4 DEF AppendAfterRoll
  <2>2. idxf' = Created(idxf, b)
    BY <1>4 DEF AppendAfterRoll
  <2> HIDE DEF b
  <2>3. \A x \in DOMAIN segs : idxf'[x] = idxf[x]
    BY <2>2 DEF Created, TypeOK
  <2> QED
    BY <2>1, <2>3 DEF MappedInv, NewSegment
<1>5. CASE RollFails
  <2>1. segs' = segs /\ \A x \in DOMAIN segs : idxf'[x] = idxf[x]
    BY <1>5 DEF RollFails, Created, TypeOK, mem, disk
  <2> QED
    BY <2>1 DEF MappedInv
<1>6. CASE WriteIndex
  <2> DEFINE new == [next |-> segs[active].next + 1,
                     size |-> segs[active].size + pend.size,
                     mapped |-> Len(idxf'[active])]
  <2>1. running /\ IndexWritten /\ segs' = [segs EXCEPT ![active] = new]
    BY <1>6, PendFields DEF WriteIndex
  <2>2. /\ active \in DOMAIN segs /\ DOMAIN segs \subseteq DOMAIN idxf
        /\ segs \in [DOMAIN segs -> SegmentState]
    BY <2>1, ActiveFields DEF TypeOK
  <2>3. \A b \in DOMAIN idxf : b # active => idxf'[b] = idxf[b]
    BY <2>1, NewEntryType, IndexWrittenType
  <2>4. new.mapped = Len(idxf'[active])
    OBVIOUS
  <2> HIDE DEF new
  <2>5. /\ DOMAIN segs' = DOMAIN segs /\ segs'[active] = new
        /\ \A b \in DOMAIN segs : b # active => segs'[b] = segs[b]
    BY <2>1, <2>2
  <2> QED
    BY <2>2, <2>3, <2>4, <2>5 DEF MappedInv
<1>7. CASE UNCHANGED vars
  BY <1>3, <1>7 DEF vars
<1>8. ASSUME NEW sz \in Sizes, AppendToActive(sz) PROVE MappedInv'
  BY <1>3, <1>8 DEF AppendToActive, disk
<1>9. CASE WriteLog \/ WriteLogFails \/ IndexWriteFails
  BY <1>3, <1>9 DEF WriteLog, WriteLogFails, IndexWriteFails, disk, mem
<1>10. ASSUME NEW k \in TornSizes, WriteLogTorn(k) PROVE MappedInv'
  BY <1>3, <1>10 DEF WriteLogTorn, mem
<1> QED
  BY <1>1, <1>2, <1>4, <1>5, <1>6, <1>7, <1>8, <1>9, <1>10, NoRemapFailure
     DEF Next, AppendCall

-----------------------------------------------------------------------------
(* One lemma per action.                                                    *)

ExactRest == MatchInv /\ SegmentsDisjoint

\* NewCommitLog keeps each record matched with its entry and the segments
\* disjoint.
LEMMA ExactOpen ==
  ASSUME ExactInv, OrderInv', Open PROVE ExactRest'
<1>t. TypeOK /\ TypeOK'
  BY DEF ExactInv, OrderInv, DurableInv
<1> DEFINE dir   == IF DOMAIN logf = {} THEN Created(logf, 0) ELSE logf
           xdir  == IF DOMAIN logf = {} THEN Created(idxf, 0) ELSE idxf
           bases == DOMAIN dir
<1>1. logf' = dir /\ pend' = pend /\ pend.stage = "idle"
  BY <1>t DEF Open, TypeOK, Idle
<1>2. PICK n \in [bases -> UNION {RecoveredCounts(dir[b]) : b \in bases}] :
        /\ \A b \in bases : n[b] \in RecoveredCounts(dir[b])
        /\ segs' = [b \in bases |-> NewSegment(b, dir[b], xdir[b], n[b])]
  BY DEF Open
<1>3. SegmentsDisjoint'
  <2>1. CASE DOMAIN logf = {}
    BY <1>1, <2>1, CreatedInEmpty DEF SegmentsDisjoint
  <2>2. CASE DOMAIN logf # {}
    BY <1>1, <2>2 DEF ExactInv, SegmentsDisjoint
  <2> QED
    BY <2>1, <2>2
<1> HIDE DEF dir, xdir, bases
<1>4. DOMAIN logf' = bases
  BY <1>1 DEF bases
<1>5. \A b \in bases : n[b] = Len(dir[b])
  <2> SUFFICES ASSUME NEW b \in bases PROVE n[b] = Len(dir[b])
    OBVIOUS
  <2>1. \A i \in DOMAIN dir[b] : Whole(dir[b][i])
    BY <1>1, <1>4 DEF OrderInv, FilesInv, Whole
  <2> QED
    BY <1>2, <2>1, RecoveredWhole
<1>6. MatchInv'
  BY <1>1, <1>2, <1>5 DEF MatchInv, NewSegment
<1> QED
  BY <1>3, <1>6 DEF ExactRest

\* Closing or crashing changes no file.
LEMMA ExactClosed ==
  ASSUME ExactInv, Closed, UNCHANGED <<disk, nextId, acked, failed>>
  PROVE  ExactRest'
  BY DEF ExactInv, ExactRest, Closed, MatchInv, SegmentsDisjoint, disk

\* An Append begins, or fails before its record is written.
LEMMA ExactSame ==
  ASSUME ExactInv, UNCHANGED <<disk, mem>>,
         pend.stage # "index", pend'.stage # "index"
  PROVE  ExactRest'
  BY DEF ExactInv, ExactRest, MatchInv, SegmentsDisjoint, disk, mem

\* The file of the next segment is opened.
LEMMA DisjointCreated ==
  ASSUME ExactInv, running, IsFull(segs[active]), pend.stage = "idle",
         NEW b \in Nat, b = segs[active].next,
         logf' = Created(logf, b), idxf' = Created(idxf, b)
  PROVE  SegmentsDisjoint'
<1>t. TypeOK
  BY DEF ExactInv, OrderInv, DurableInv
<1>1. /\ DOMAIN logf' = DOMAIN logf \union {b}
      /\ \A c \in DOMAIN logf : logf'[c] = logf[c]
      /\ logf'[b] = <<>>
      /\ \A c \in DOMAIN logf' : c <= active \/ c = b
  BY OrderCreated DEF ExactInv
<1>2. /\ active \in DOMAIN logf /\ active \in Nat /\ DOMAIN logf \subseteq Nat
      /\ active < b
  BY <1>t, ActiveFields, FullHasMessage DEF TypeOK, ExactInv, OrderInv
<1>3. b = active + Len(logf[active])
  BY <1>t, ActiveFields DEF ExactInv, MatchInv
<1>4. \A c \in DOMAIN logf : Len(logf[c]) \in Nat
  BY <1>t, Lengths
<1> SUFFICES ASSUME NEW c \in DOMAIN logf', NEW d \in DOMAIN logf', c < d
             PROVE  c + Len(logf'[c]) <= d
  BY DEF SegmentsDisjoint
<1>5. c \in DOMAIN logf /\ c <= active
  BY <1>1, <1>2
<1>6. CASE d = b
  <2>1. CASE c = active
    BY <1>1, <1>2, <1>3, <1>4, <1>6, <2>1
  <2>2. CASE c # active
    <3>1. c + Len(logf[c]) <= active
      BY <1>2, <1>5, <2>2 DEF ExactInv, SegmentsDisjoint
    <3> QED
      BY <1>1, <1>2, <1>4, <1>5, <1>6, <3>1
  <2> QED
    BY <2>1, <2>2
<1>7. CASE d # b
  BY <1>1, <1>5, <1>7 DEF ExactInv, SegmentsDisjoint
<1> QED
  BY <1>6, <1>7

\* A roll that fails leaves at most an empty file behind the last segment.
LEMMA ExactRollFails ==
  ASSUME ExactInv, RollFails PROVE ExactRest'
<1>t. TypeOK
  BY DEF ExactInv, OrderInv, DurableInv
<1>1. /\ running /\ IsFull(segs[active]) /\ pend.stage = "idle"
      /\ UNCHANGED <<mem, pend>> /\ segs[active].next \in Nat
  BY <1>t, ActiveFields DEF RollFails
<1>2. CASE UNCHANGED disk
  BY <1>1, <1>2, ExactSame
<1>3. CASE /\ logf' = Created(logf, segs[active].next)
           /\ idxf' = Created(idxf, segs[active].next)
  <2>1. \A b \in Nat : b = segs[active].next => SegmentsDisjoint'
    BY <1>1, <1>3, DisjointCreated
  <2>2. \A c \in DOMAIN logf : logf'[c] = logf[c]
    BY <1>3 DEF Created
  <2>3. DOMAIN segs \subseteq DOMAIN logf
    BY <1>t DEF TypeOK
  <2>4. MatchInv'
    BY <1>1, <2>2, <2>3 DEF ExactInv, MatchInv, mem
  <2> QED
    BY <1>1, <2>1, <2>4 DEF ExactRest
<1> QED
  BY <1>2, <1>3 DEF RollFails

\* A roll opens the next segment behind the records of the full one.
LEMMA ExactRoll ==
  ASSUME ExactInv, NEW sz \in Sizes, AppendAfterRoll(sz) PROVE ExactRest'
<1>t. TypeOK
  BY DEF ExactInv, OrderInv, DurableInv
<1> DEFINE b == segs[active].next
<1>1. /\ running /\ IsFull(segs[active]) /\ b \in Nat /\ active' = b
      /\ pend.stage = "idle" /\ pend'.stage = "write"
  BY <1>t, TypeBegin, ActiveFields DEF AppendAfterRoll, Begin
<1>2. logf' = Created(logf, b) /\ idxf' = Created(idxf, b)
  BY DEF AppendAfterRoll
<1>3. PICK n \in RecoveredCounts(logf'[b]) :
        segs' = [x \in DOMAIN segs \union {b} |->
                   IF x = b THEN NewSegment(b, logf'[b], idxf'[b], n) ELSE segs[x]]
  BY DEF AppendAfterRoll
<1> HIDE DEF b
<1>4. \A c \in Nat : c = b => SegmentsDisjoint'
  BY <1>1, <1>2, DisjointCreated DEF b
<1>5. logf'[b] = <<>>
  BY <1>1, <1>2, OrderCreated DEF ExactInv, b
<1>6. n = 0
  BY <1>3, <1>5, RecoveredWhole
<1>7. \A x \in DOMAIN segs : logf'[x] = logf[x]
  BY <1>t, <1>2 DEF Created, TypeOK
<1>8. MatchInv'
  <2> SUFFICES ASSUME NEW x \in DOMAIN segs'
               PROVE  /\ segs'[x].next = x + Len(logf'[x])
                      /\ segs'[x].size = FileEnd(logf'[x])
    BY <1>1 DEF MatchInv
  <2>1. CASE x = b
    BY <1>1, <1>3, <1>5, <1>6, <2>1 DEF NewSegment
  <2>2. CASE x # b
    BY <1>1, <1>3, <1>7, <2>2 DEF ExactInv, MatchInv
  <2> QED
    BY <2>1, <2>2
<1> QED
  BY <1>1, <1>4, <1>8 DEF ExactRest

\* The write of the record puts it where the entry to come will point.
LEMMA ExactWriteLog ==
  ASSUME ExactInv, WriteLog PROVE ExactRest'
<1>t. TypeOK
  BY DEF ExactInv, OrderInv, DurableInv
<1>1. /\ running /\ pend.size \in Nat /\ logf' = Written(pend.size)
      /\ pend.stage = "write" /\ pend'.stage = "index" /\ pend'.id = pend.id
      /\ pend'.size = pend.size /\ UNCHANGED <<segs, active>>
  BY <1>t, PendFields DEF WriteLog, mem, TypeOK, Pending
<1> DEFINE fr == [at |-> FileEnd(logf[active]), size |-> pend.size,
                  kept |-> pend.size, id |-> pend.id]
<1>2. /\ fr \in Frame /\ DOMAIN logf' = DOMAIN logf
      /\ logf'[active] = Append(logf[active], fr)
      /\ \A b \in DOMAIN logf : b # active => logf'[b] = logf[b]
  BY <1>t, <1>1, WrittenType
<1>3. fr.at = FileEnd(logf[active]) /\ fr.kept = pend.size /\ fr.id = pend.id
  OBVIOUS
<1> HIDE DEF fr
<1>4. /\ active \in DOMAIN logf /\ active \in DOMAIN segs /\ active \in Nat
      /\ logf[active] \in Seq(Frame) /\ Len(logf[active]) \in Nat
      /\ segs[active].next \in Nat /\ segs[active].size \in Nat
      /\ DOMAIN segs \subseteq DOMAIN logf
  BY <1>t, <1>1, ActiveFields DEF TypeOK
<1>5. /\ Len(logf'[active]) = Len(logf[active]) + 1
      /\ logf'[active][Len(logf[active]) + 1] = fr
      /\ FileEnd(logf'[active]) = fr.at + fr.kept
  BY <1>2, <1>4, AppendKeeps, FileEndAppend
<1>6. /\ segs[active].next = active + Len(logf[active])
      /\ segs[active].size = FileEnd(logf[active])
  BY <1>1, <1>4 DEF ExactInv, MatchInv
<1>7. MatchInv'
  <2> SUFFICES ASSUME NEW b \in DOMAIN segs
               PROVE  IF b = active
                      THEN /\ segs[b].next + 1 = b + Len(logf'[b])
                           /\ logf'[b][Len(logf'[b])].id = pend.id
                           /\ logf'[b][Len(logf'[b])].at = segs[b].size
                           /\ FileEnd(logf'[b]) = segs[b].size + pend.size
                      ELSE /\ segs[b].next = b + Len(logf'[b])
                           /\ segs[b].size = FileEnd(logf'[b])
    BY <1>1 DEF MatchInv
  <2>1. CASE b = active
    BY <1>3, <1>4, <1>5, <1>6, <2>1, SMTT(60)
  <2>2. CASE b # active
    BY <1>2, <1>4, <2>2 DEF ExactInv, MatchInv
  <2> QED
    BY <2>1, <2>2
<1>8. \A c \in DOMAIN logf : c <= active
  BY <1>1 DEF ExactInv, OrderInv, PendInv, ActiveInv, Leftover
<1>9. SegmentsDisjoint'
  <2> SUFFICES ASSUME NEW c \in DOMAIN logf, NEW d \in DOMAIN logf, c < d
               PROVE  c + Len(logf'[c]) <= d
    BY <1>2 DEF SegmentsDisjoint
  <2>1. c # active
    BY <1>t, <1>4, <1>8 DEF TypeOK
  <2> QED
    BY <1>2, <2>1 DEF ExactInv, SegmentsDisjoint
<1> QED
  BY <1>7, <1>9 DEF ExactRest

\* The index write completes the match of the record just written.
LEMMA ExactWriteIndex ==
  ASSUME ExactInv, TypeOK', WriteIndex PROVE ExactRest' /\ AckedIndexed'
<1>t. TypeOK /\ running /\ pend.stage = "index"
  BY PendFields DEF ExactInv, OrderInv, DurableInv, WriteIndex
<1> DEFINE new == [next |-> segs[active].next + 1,
                   size |-> segs[active].size + pend.size,
                   mapped |-> Len(idxf'[active])]
<1>1. /\ IndexWritten /\ UNCHANGED <<logf, running, active>>
      /\ segs' = [segs EXCEPT ![active] = new]
      /\ acked' = acked \union {[off |-> segs[active].next, id |-> pend.id]}
      /\ pend'.stage = "idle"
  BY DEF WriteIndex, Idle
<1>2. /\ active \in DOMAIN logf /\ active \in DOMAIN segs /\ active \in Nat
      /\ segs[active].next \in Nat /\ active <= segs[active].next
      /\ Len(logf[active]) \in Nat /\ segs \in [DOMAIN segs -> SegmentState]
      /\ logf[active] \in Seq(Frame)
      /\ idxf[active] \in Seq(Entry) /\ Len(idxf[active]) \in Nat
  <2>1. /\ active \in DOMAIN logf /\ active \in DOMAIN segs /\ active \in Nat
        /\ segs[active].next \in Nat /\ active <= segs[active].next
        /\ segs \in [DOMAIN segs -> SegmentState]
    BY <1>t, SegFields, ActiveFields DEF TypeOK
  <2>2. logf[active] \in Seq(Frame) /\ idxf[active] \in Seq(Entry)
    BY <1>t, <2>1 DEF TypeOK
  <2> QED
    BY <2>1, <2>2
<1>3. /\ DOMAIN segs' = DOMAIN segs
      /\ segs'[active].next = segs[active].next + 1
      /\ segs'[active].size = segs[active].size + pend.size
      /\ \A b \in DOMAIN segs : b # active => segs'[b] = segs[b]
  BY <1>1, <1>2
<1> HIDE DEF new
<1>4. /\ segs[active].next + 1 = active + Len(logf[active])
      /\ logf[active][Len(logf[active])].id = pend.id
      /\ logf[active][Len(logf[active])].at = segs[active].size
      /\ FileEnd(logf[active]) = segs[active].size + pend.size
  BY <1>t, <1>2 DEF ExactInv, MatchInv
<1>5. MatchInv'
  <2> SUFFICES ASSUME NEW b \in DOMAIN segs
               PROVE  /\ segs'[b].next = b + Len(logf[b])
                      /\ segs'[b].size = FileEnd(logf[b])
    BY <1>1, <1>3 DEF MatchInv
  <2>1. CASE b = active
    BY <1>3, <1>4, <2>1
  <2>2. CASE b # active
    BY <1>3, <2>2 DEF ExactInv, MatchInv
  <2> QED
    BY <2>1, <2>2
<1>6. SegmentsDisjoint'
  BY <1>1 DEF ExactInv, SegmentsDisjoint
<1>7. AppendOnly
  BY <1>t, <1>1, IdxWrittenGrows
<1>8. \A a \in acked : \E b \in DOMAIN logf' : IndexedIn(b, a)'
  BY <1>t, <1>7, AckedIndexedStays DEF ExactInv
<1>9. /\ NewEntry \in Entry
      /\ NewEntry.rel = segs[active].next - active
      /\ NewEntry.pos = segs[active].size
      /\ idxf'[active] = Append(idxf[active], NewEntry)
  BY <1>t, <1>1, NewEntryType, IndexWrittenType DEF NewEntry
<1>10. /\ Len(idxf[active]) + 1 \in DOMAIN idxf'[active]
       /\ idxf'[active][Len(idxf[active]) + 1] = NewEntry
  BY <1>2, <1>9, AppendKeeps
<1>11. /\ active + NewEntry.rel = segs[active].next
       /\ NewEntry.rel + 1 = Len(logf[active])
       /\ NewEntry.rel + 1 \in DOMAIN logf[active]
  BY <1>2, <1>4, <1>9
<1>12. ASSUME NEW a, a = [off |-> segs[active].next, id |-> pend.id],
              NEW b, b = active
       PROVE  b \in DOMAIN logf' /\ IndexedIn(b, a)'
  BY <1>1, <1>2, <1>4, <1>9, <1>10, <1>11, <1>12 DEF IndexedIn
<1>13. \A a \in acked' : \E b \in DOMAIN logf' : IndexedIn(b, a)'
  BY <1>1, <1>8, <1>12
<1> QED
  BY <1>5, <1>6, <1>13 DEF ExactRest, AckedIndexed, IndexedIn

-----------------------------------------------------------------------------
(* The invariant and the theorems.                                          *)

\* The empty partition satisfies the invariant.
LEMMA ExactInit == Init => ExactInv
<1> SUFFICES ASSUME Init PROVE ExactInv
  OBVIOUS
<1>1. DOMAIN logf = {} /\ DOMAIN segs = {} /\ acked = {}
  BY DEF Init
<1> QED
  BY <1>1, OrderInit DEF ExactInv, MappedInv, MatchInv, SegmentsDisjoint, AckedIndexed

\* Every step keeps the invariant.
LEMMA ExactStep ==
  ASSUME Benign
  PROVE  ExactInv /\ [Next]_vars => ExactInv'
<1> SUFFICES ASSUME ExactInv, [Next]_vars PROVE ExactInv'
  OBVIOUS
<1>1. NoTornStep
  BY DEF Benign, NoTornStep, WriteLogTorn
<1>2. OrderInv /\ OrderInv' /\ TypeOK /\ TypeOK' /\ AppendOnly
  BY <1>1, OrderStep, StepAppendOnly DEF ExactInv, OrderInv, DurableInv
<1>m. MappedInv' /\ ~RemapFails
  BY <1>2, MappedStep, NoRemapFailure DEF ExactInv
<1>3. UNCHANGED acked => AckedIndexed'
  BY <1>2, NoAckKeepsIndexed DEF ExactInv
<1>4. CASE Open
  BY <1>m, <1>2, <1>3, <1>4, ExactOpen DEF ExactInv, ExactRest, Open
<1>5. CASE Close \/ Crash
  <2>1. Closed /\ UNCHANGED <<disk, nextId, acked, failed>>
    BY <1>5 DEF Close, Crash
  <2> QED
    BY <1>m, <1>2, <1>3, <2>1, ExactClosed DEF ExactInv, ExactRest
<1>6. ASSUME NEW sz \in Sizes, AppendToActive(sz) PROVE ExactInv'
  <2>1. /\ UNCHANGED <<disk, mem, acked>> /\ pend.stage # "index"
        /\ pend'.stage # "index"
    BY <1>6 DEF AppendToActive, Begin, mem
  <2> QED
    BY <1>m, <1>2, <1>3, <2>1, ExactSame DEF ExactInv, ExactRest
<1>7. ASSUME NEW sz \in Sizes, AppendAfterRoll(sz) PROVE ExactInv'
  BY <1>m, <1>2, <1>3, <1>7, ExactRoll DEF ExactInv, ExactRest, AppendAfterRoll, Begin
<1>8. CASE RollFails
  BY <1>m, <1>2, <1>3, <1>8, ExactRollFails DEF ExactInv, ExactRest, RollFails
<1>9. CASE WriteLog
  BY <1>m, <1>2, <1>3, <1>9, ExactWriteLog DEF ExactInv, ExactRest, WriteLog
<1>10. CASE WriteLogFails
  <2>1. /\ UNCHANGED <<disk, mem, acked>> /\ pend.stage # "index"
        /\ pend'.stage # "index"
    BY <1>10 DEF WriteLogFails, Fail, Idle
  <2> QED
    BY <1>m, <1>2, <1>3, <2>1, ExactSame DEF ExactInv, ExactRest
<1>11. CASE WriteIndex
  BY <1>m, <1>2, <1>11, ExactWriteIndex DEF ExactInv, ExactRest
<1>12. ~IndexWriteFails /\ \A k \in TornSizes : ~WriteLogTorn(k)
  BY DEF Benign, IndexWriteFails, WriteLogTorn
<1>13. CASE UNCHANGED vars
  <2>1. MatchInv' /\ SegmentsDisjoint'
    BY <1>13 DEF ExactInv, MatchInv, SegmentsDisjoint, vars
  <2> QED
    BY <1>m, <1>2, <1>3, <1>13, <2>1 DEF ExactInv, vars
<1> QED
  BY <1>m, <1>4, <1>5, <1>6, <1>7, <1>8, <1>9, <1>10, <1>11, <1>12, <1>13
     DEF Next, AppendCall

\* If only crashes, failed log writes and failed rolls happen, the structs agree
\* with the files record by record (segment.go:90-120): the invariant behind the
\* theorems below.
THEOREM ExactInvariant == ASSUME Benign PROVE Spec => []ExactInv
<1>1. ExactInv /\ [Next]_vars => ExactInv'
  BY ExactStep
<1> QED
  BY <1>1, ExactInit, PTL DEF Spec

\* If only crashes, failed log writes and failed rolls happen, every
\* acknowledged record has an index entry that leads to it, at all times.
THEOREM AckedIsIndexed == ASSUME Benign PROVE Spec => []AckedIndexed
<1>1. ExactInv => AckedIndexed
  BY DEF ExactInv
<1> QED
  BY <1>1, ExactInvariant, PTL

\* Under the same failures, no two segments claim the same offset.
THEOREM SegmentsAreDisjoint == ASSUME Benign PROVE Spec => []SegmentsDisjoint
<1>1. ExactInv => SegmentsDisjoint
  BY DEF ExactInv
<1> QED
  BY <1>1, ExactInvariant, PTL

\* No Append has returned an error.
NoSpuriousErrors == failed = {}

\* On unix, if the operating system refuses nothing and the process does not
\* die, no Append fails.
THEOREM AppendsSucceed ==
  ASSUME Platform = "unix", Faults = {} PROVE Spec => []NoSpuriousErrors
<1> DEFINE I == ExactInv /\ NoSpuriousErrors
<1>1. Benign
  BY DEF Benign
<1>2. Init => I
  BY ExactInit DEF Init, NoSpuriousErrors
<1>3. I /\ [Next]_vars => I'
  <2> SUFFICES ASSUME I, [Next]_vars PROVE I'
    OBVIOUS
  <2>1. ExactInv' /\ ~RemapFails
    BY <1>1, ExactStep, NoRemapFailure DEF ExactInv, OrderInv, DurableInv
  <2>2. failed' = failed
    BY <2>1 DEF Next, AppendCall, Open, Close, Crash, AppendToActive,
       AppendAfterRoll, Begin, RollFails, WriteLog, WriteLogFails, WriteLogTorn,
       WriteIndex, IndexWriteFails, vars
  <2> QED
    BY <2>1, <2>2 DEF NoSpuriousErrors
<1> QED
  BY <1>2, <1>3, PTL DEF Spec

-----------------------------------------------------------------------------
(* What the theorems need beyond ExactInv, part by part.                    *)

\* The files leave no offset out: what lies before the end of one of them is in
\* one of them.
CoverInv ==
  \A b \in DOMAIN logf : \A o \in 0 .. b + Len(logf[b]) - 1 :
    \E c \in DOMAIN logf : c <= o /\ o < c + Len(logf[c])

\* A record to be written is newer than all in the files.
IdsInv ==
  /\ nextId <= MaxAppends
  /\ \A b \in DOMAIN logf : \A i \in DOMAIN logf[b] :
       /\ logf[b][i].id < nextId
       /\ pend.stage = "write" => logf[b][i].id < pend.id
  /\ pend.stage = "write" => pend.size > 0

\* An open log has a segment for every file with a record.
LoadedInv ==
  running => \A b \in DOMAIN logf : logf[b] # <<>> => b \in DOMAIN segs

\* Records lie one behind the other.
PlacesInv ==
  \A b \in DOMAIN logf : \A i \in DOMAIN logf[b] :
    /\ logf[b][i].at < FileEnd(logf[b])
    /\ \A j \in DOMAIN logf[b] : i < j => logf[b][i].at < logf[b][j].at

\* Every index entry leads to the record it is about, and no record has two.
EntriesInv ==
  \A b \in DOMAIN logf : \A i \in DOMAIN idxf[b] :
    /\ logf[b][idxf[b][i].rel + 1].at = idxf[b][i].pos
    /\ \A j \in DOMAIN idxf[b] : i < j => idxf[b][i].rel < idxf[b][j].rel

\* The record that waits for its entry has none yet.
FreshInv ==
  pend.stage = "index" =>
    \A i \in DOMAIN idxf[active] : idxf[active][i].rel < segs[active].next - active

ReadInv ==
  /\ ExactInv /\ CoverInv /\ IdsInv /\ LoadedInv
  /\ PlacesInv /\ EntriesInv /\ FreshInv

\* The parts of the invariant the lemmas below use most.
LEMMA ReadTypes ==
  ASSUME ReadInv
  PROVE  ExactInv /\ OrderInv /\ TypeOK
  BY DEF ReadInv, ExactInv, OrderInv, DurableInv

-----------------------------------------------------------------------------
(* Steps that write no record.                                              *)

\* The log files keep their records; a new file is empty and begins at 0 or
\* where another one ends.
LogKept ==
  /\ \A b \in DOMAIN logf : b \in DOMAIN logf' /\ logf'[b] = logf[b]
  /\ \A b \in DOMAIN logf' : b \notin DOMAIN logf =>
       /\ logf'[b] = <<>>
       /\ b = 0 \/ \E c \in DOMAIN logf : b = c + Len(logf[c])

\* The index files keep their entries, a new one is empty.
IdxKept ==
  \A b \in DOMAIN logf' :
    idxf'[b] = IF b \in DOMAIN logf THEN idxf[b] ELSE <<>>

\* The files of a roll.
LEMMA RollKeeps ==
  ASSUME ExactInv, running, pend.stage = "idle", IsFull(segs[active]),
         logf' = Created(logf, segs[active].next),
         idxf' = Created(idxf, segs[active].next)
  PROVE  LogKept /\ IdxKept
<1>t. TypeOK
  BY DEF ExactInv, OrderInv, DurableInv
<1> DEFINE n == segs[active].next
<1>1. n \in Nat /\ active \in DOMAIN logf /\ active \in DOMAIN segs
  BY <1>t, ActiveFields
<1>2. n = active + Len(logf[active])
  BY <1>1 DEF ExactInv, MatchInv
<1>3. DOMAIN idxf = DOMAIN logf
  BY <1>t DEF TypeOK
<1> HIDE DEF n
<1>4. /\ logf' = [x \in DOMAIN logf \union {n} |-> IF x \in DOMAIN logf THEN logf[x] ELSE <<>>]
      /\ idxf' = [x \in DOMAIN logf \union {n} |-> IF x \in DOMAIN logf THEN idxf[x] ELSE <<>>]
  BY <1>3 DEF Created, n
<1> QED
  BY <1>1, <1>2, <1>4 DEF LogKept, IdxKept

\* Every step but the write of a record keeps the log files, and every step but
\* that and the write of an entry the index files.
LEMMA QuietStep ==
  ASSUME Benign, ExactInv, [Next]_vars, ~WriteLog
  PROVE  LogKept /\ (WriteIndex \/ IdxKept)
<1>t. TypeOK
  BY DEF ExactInv, OrderInv, DurableInv
<1>1. CASE UNCHANGED <<logf, idxf>>
  BY <1>1 DEF LogKept, IdxKept
<1>2. CASE Open
  <2>1. CASE DOMAIN logf = {}
    <3>1. logf' = Created(logf, 0) /\ idxf' = Created(idxf, 0) /\ DOMAIN idxf = {}
      BY <1>t, <1>2, <2>1 DEF Open, TypeOK
    <3> QED
      BY <2>1, <3>1 DEF LogKept, IdxKept, Created
  <2>2. CASE DOMAIN logf # {}
    BY <1>1, <1>2, <2>2 DEF Open
  <2> QED
    BY <2>1, <2>2
<1>3. ASSUME NEW sz \in Sizes, AppendAfterRoll(sz) PROVE LogKept /\ IdxKept
  BY <1>3, RollKeeps DEF AppendAfterRoll, Begin
<1>4. CASE RollFails
  BY <1>1, <1>4, RollKeeps DEF RollFails, disk
<1>5. CASE WriteIndex
  BY <1>5 DEF WriteIndex, LogKept
<1>6. ~RemapFails /\ ~IndexWriteFails /\ \A k \in TornSizes : ~WriteLogTorn(k)
  BY <1>t, NoRemapFailure DEF Benign, IndexWriteFails, WriteLogTorn, ExactInv
<1>7. CASE Close \/ Crash \/ WriteLogFails
  BY <1>1, <1>7 DEF Close, Crash, WriteLogFails, disk
<1>8. ASSUME NEW sz \in Sizes, AppendToActive(sz) PROVE LogKept /\ (WriteIndex \/ IdxKept)
  BY <1>1, <1>8 DEF AppendToActive, disk
<1>9. CASE UNCHANGED vars
  BY <1>1, <1>9 DEF vars
<1> QED
  BY <1>2, <1>3, <1>4, <1>5, <1>6, <1>7, <1>8, <1>9 DEF Next, AppendCall

\* The write of a record: which file, which bytes.
LEMMA StoreStep ==
  ASSUME ExactInv, WriteLog
  PROVE  /\ running /\ active \in DOMAIN logf /\ active \in DOMAIN segs
         /\ pend.stage = "write" /\ pend'.stage = "index"
         /\ UNCHANGED <<idxf, running, segs, active, nextId, acked>>
         /\ DOMAIN logf' = DOMAIN logf
         /\ \A b \in DOMAIN logf : b # active => logf'[b] = logf[b]
         /\ \E fr \in Frame :
              /\ fr.at = FileEnd(logf[active]) /\ fr.kept = pend.size /\ fr.id = pend.id
              /\ logf'[active] = Append(logf[active], fr)
         /\ segs[active].next = active + Len(logf[active])
         /\ \A c \in DOMAIN logf : c <= active
<1>t. TypeOK
  BY DEF ExactInv, OrderInv, DurableInv
<1>1. /\ running /\ pend.size \in Nat /\ logf' = Written(pend.size)
      /\ pend.stage = "write" /\ pend'.stage = "index"
      /\ UNCHANGED <<idxf, running, segs, active, nextId, acked>>
  BY <1>t, PendFields DEF WriteLog, mem, TypeOK, Pending
<1> DEFINE fr == [at |-> FileEnd(logf[active]), size |-> pend.size,
                  kept |-> pend.size, id |-> pend.id]
<1>2. /\ fr \in Frame /\ DOMAIN logf' = DOMAIN logf
      /\ logf'[active] = Append(logf[active], fr)
      /\ \A b \in DOMAIN logf : b # active => logf'[b] = logf[b]
  BY <1>t, <1>1, WrittenType
<1>3. fr.at = FileEnd(logf[active]) /\ fr.kept = pend.size /\ fr.id = pend.id
  OBVIOUS
<1> HIDE DEF fr
<1>4. active \in DOMAIN logf /\ active \in DOMAIN segs
  BY <1>t, <1>1, ActiveFields
<1>5. segs[active].next = active + Len(logf[active])
  BY <1>1, <1>4 DEF ExactInv, MatchInv
<1>6. \A c \in DOMAIN logf : c <= active
  BY <1>1 DEF ExactInv, OrderInv, PendInv, ActiveInv, Leftover
<1> QED
  BY <1>1, <1>2, <1>3, <1>4, <1>5, <1>6

-----------------------------------------------------------------------------
(* The invariant, part by part.                                             *)

\* No offset is left out.
LEMMA CoverStep ==
  ASSUME Benign, ReadInv, [Next]_vars, TypeOK'
  PROVE  CoverInv'
<1>t. ExactInv /\ TypeOK /\ CoverInv
  BY ReadTypes DEF ReadInv
<1>n. /\ DOMAIN logf \subseteq Nat /\ DOMAIN logf' \subseteq Nat
      /\ \A b \in DOMAIN logf : Len(logf[b]) \in Nat
      /\ \A b \in DOMAIN logf' : Len(logf'[b]) \in Nat
  BY <1>t, Lengths DEF TypeOK
<1>1. CASE LogKept
  <2> SUFFICES ASSUME NEW b \in DOMAIN logf', NEW o \in 0 .. b + Len(logf'[b]) - 1
               PROVE  \E c \in DOMAIN logf' : c <= o /\ o < c + Len(logf'[c])
    BY DEF CoverInv
  <2>1. PICK d \in DOMAIN logf : o \in 0 .. d + Len(logf[d]) - 1
    <3>1. CASE b \in DOMAIN logf
      BY <1>1, <3>1 DEF LogKept
    <3>2. CASE b \notin DOMAIN logf
      <4>1. Len(logf'[b]) = 0 /\ (b = 0 \/ \E c \in DOMAIN logf : b = c + Len(logf[c]))
        BY <1>1, <3>2 DEF LogKept
      <4> QED
        BY <1>n, <4>1
    <3> QED
      BY <3>1, <3>2
  <2>2. PICK c \in DOMAIN logf : c <= o /\ o < c + Len(logf[c])
    BY <1>t, <2>1 DEF CoverInv
  <2> QED
    BY <1>1, <2>2 DEF LogKept
<1>2. CASE WriteLog
  <2>1. PICK fr \in Frame : logf'[active] = Append(logf[active], fr)
    BY <1>t, <1>2, StoreStep
  <2>2. /\ DOMAIN logf' = DOMAIN logf /\ active \in DOMAIN logf
        /\ \A b \in DOMAIN logf : b # active => logf'[b] = logf[b]
        /\ Len(logf'[active]) = Len(logf[active]) + 1
    <3>1. active \in DOMAIN logf /\ logf[active] \in Seq(Frame)
      BY <1>t, <1>2, StoreStep DEF TypeOK
    <3> QED
      BY <1>t, <1>2, <2>1, <3>1, StoreStep, AppendKeeps
  <2> SUFFICES ASSUME NEW b \in DOMAIN logf, NEW o \in 0 .. b + Len(logf'[b]) - 1
               PROVE  \E c \in DOMAIN logf : c <= o /\ o < c + Len(logf'[c])
    BY <2>2 DEF CoverInv
  <2>3. CASE o \in 0 .. b + Len(logf[b]) - 1
    <3>1. PICK c \in DOMAIN logf : c <= o /\ o < c + Len(logf[c])
      BY <1>t, <2>3 DEF CoverInv
    <3>2. c \in Nat /\ Len(logf[c]) \in Nat /\ Len(logf[c]) <= Len(logf'[c])
          /\ Len(logf'[c]) \in Nat
      BY <1>n, <2>2
    <3> QED
      BY <3>1, <3>2
  <2>4. CASE ~(o \in 0 .. b + Len(logf[b]) - 1)
    <3>1. b \in Nat /\ Len(logf[b]) \in Nat /\ Len(logf'[b]) \in Nat
          /\ Len(logf'[b]) <= Len(logf[b]) + 1
      BY <1>n, <2>2
    <3>2. b <= o /\ o < b + Len(logf'[b])
      BY <2>4, <3>1
    <3> QED
      BY <3>2
  <2> QED
    BY <2>3, <2>4
<1> QED
  BY <1>t, <1>1, <1>2, QuietStep

\* What a step does to the running Append.
LEMMA PendMoves ==
  ASSUME Benign, TypeOK, [Next]_vars
  PROVE  \/ UNCHANGED <<pend, nextId>>
         \/ /\ pend'.stage # "write"
            /\ nextId' = nextId \/ (nextId < MaxAppends /\ nextId' = nextId + 1)
         \/ \E sz \in Sizes : Begin(sz)
<1>1. Idle.stage # "write"
  BY DEF Idle
<1>2. CASE Open \/ RollFails
  <2>1. pend' = pend
    BY <1>2 DEF Open, RollFails
  <2>2. CASE Open
    BY <2>2 DEF Open
  <2>3. CASE RollFails
    BY <2>1, <2>3 DEF RollFails
  <2> QED
    BY <1>2, <2>2, <2>3
<1>3. CASE Close \/ Crash \/ WriteLogFails \/ WriteIndex \/ IndexWriteFails \/ RemapFails
  BY <1>1, <1>3 DEF Close, Crash, Closed, WriteLogFails, WriteIndex, IndexWriteFails,
                    RemapFails, Fail
<1>4. CASE WriteLog
  <2>1. pend'.stage = "index" /\ nextId' = nextId
    BY <1>4 DEF WriteLog, TypeOK, Pending
  <2> QED
    BY <2>1
<1>5. CASE AppendCall
  BY <1>5 DEF AppendCall, AppendToActive, AppendAfterRoll
<1>6. ~(\E k \in TornSizes : WriteLogTorn(k))
  BY DEF Benign, WriteLogTorn
<1>7. CASE UNCHANGED vars
  BY <1>7 DEF vars
<1> QED
  BY <1>2, <1>3, <1>4, <1>5, <1>6, <1>7 DEF Next

\* Ids are given out in order.
LEMMA IdsStep ==
  ASSUME Benign, ReadInv, [Next]_vars
  PROVE  IdsInv'
<1>t. ExactInv /\ TypeOK /\ IdsInv /\ PendInv
  BY ReadTypes DEF ReadInv, OrderInv
<1>n. nextId \in Nat /\ pend.id \in Nat /\ pend.size \in Nat /\ MaxAppends \in Nat
  BY <1>t, PendFields, ConfigAssumption DEF TypeOK
<1>f. \A b \in DOMAIN logf : \A i \in DOMAIN logf[b] :
        logf[b] \in Seq(Frame) /\ logf[b][i].id \in Nat
  BY <1>t, FrameFields DEF TypeOK
<1>1. CASE WriteLog
  <2>1. PICK fr \in Frame :
          /\ fr.at = FileEnd(logf[active]) /\ fr.kept = pend.size /\ fr.id = pend.id
          /\ logf'[active] = Append(logf[active], fr)
    BY <1>t, <1>1, StoreStep
  <2>2. /\ DOMAIN logf' = DOMAIN logf /\ active \in DOMAIN logf /\ nextId' = nextId
        /\ \A b \in DOMAIN logf : b # active => logf'[b] = logf[b]
        /\ pend.stage = "write" /\ pend'.stage = "index" /\ logf[active] \in Seq(Frame)
    BY <1>t, <1>1, StoreStep DEF TypeOK
  <2>3. pend.id < nextId
    BY <1>t, <2>2 DEF PendInv
  <2>4. ASSUME NEW b \in DOMAIN logf, NEW i \in DOMAIN logf'[b] PROVE logf'[b][i].id < nextId
    <3>1. CASE b = active /\ i = Len(logf[active]) + 1
      BY <2>1, <2>2, <2>3, <3>1, AppendKeeps
    <3>2. CASE ~(b = active /\ i = Len(logf[active]) + 1)
      <4>1. i \in DOMAIN logf[b] /\ logf'[b][i] = logf[b][i]
        BY <2>1, <2>2, <3>2
      <4> QED
        BY <1>t, <4>1 DEF IdsInv
    <3> QED
      BY <3>1, <3>2
  <2> QED
    BY <1>t, <2>2, <2>4 DEF IdsInv
<1>2. CASE LogKept
  <2>1. \A b \in DOMAIN logf' : \A i \in DOMAIN logf'[b] :
          b \in DOMAIN logf /\ i \in DOMAIN logf[b] /\ logf'[b][i] = logf[b][i]
    BY <1>2 DEF LogKept
  <2>2. CASE UNCHANGED <<pend, nextId>>
    BY <1>t, <2>1, <2>2 DEF IdsInv
  <2>3. CASE /\ pend'.stage # "write"
             /\ nextId' = nextId \/ (nextId < MaxAppends /\ nextId' = nextId + 1)
    <3>1. nextId' \in Nat /\ nextId <= nextId' /\ nextId' <= MaxAppends
      BY <1>t, <1>n, <2>3 DEF IdsInv
    <3> QED
      BY <1>t, <1>n, <1>f, <2>1, <2>3, <3>1 DEF IdsInv
  <2>4. ASSUME NEW sz \in Sizes, Begin(sz) PROVE IdsInv'
    <3>1. /\ nextId < MaxAppends /\ nextId' = nextId + 1
          /\ pend'.id = nextId /\ pend'.size = sz
      BY <2>4 DEF Begin
    <3>2. sz > 0
      BY ConfigAssumption DEF MinRecord
    <3> QED
      BY <1>t, <1>n, <1>f, <2>1, <3>1, <3>2 DEF IdsInv
  <2> QED
    BY <1>t, <2>2, <2>3, <2>4, PendMoves
<1> QED
  BY <1>t, <1>1, <1>2, QuietStep
\* Every file with a record is loaded.
LEMMA LoadedStep ==
  ASSUME Benign, ReadInv, [Next]_vars
  PROVE  LoadedInv'
<1>t. ExactInv /\ TypeOK /\ LoadedInv
  BY ReadTypes DEF ReadInv
<1>1. CASE WriteLog
  <2>1. /\ active \in DOMAIN segs /\ running /\ UNCHANGED segs
        /\ DOMAIN logf' = DOMAIN logf
        /\ \A b \in DOMAIN logf : b # active => logf'[b] = logf[b]
    BY <1>t, <1>1, StoreStep
  <2> QED
    BY <1>t, <2>1 DEF LoadedInv
<1>2. CASE LogKept
  <2>1. \A b \in DOMAIN logf' : logf'[b] # <<>> => b \in DOMAIN logf /\ logf[b] # <<>>
    BY <1>2 DEF LogKept
  <2>2. CASE running /\ DOMAIN segs \subseteq DOMAIN segs'
    BY <1>t, <2>1, <2>2 DEF LoadedInv
  <2>3. CASE Open
    <3> DEFINE dir   == IF DOMAIN logf = {} THEN Created(logf, 0) ELSE logf
               xdir  == IF DOMAIN logf = {} THEN Created(idxf, 0) ELSE idxf
               bases == DOMAIN dir
    <3>1. logf' = dir
      BY <2>3 DEF Open
    <3>2. PICK n \in [bases -> UNION {RecoveredCounts(dir[b]) : b \in bases}] :
            segs' = [b \in bases |-> NewSegment(b, dir[b], xdir[b], n[b])]
      BY <2>3 DEF Open
    <3> HIDE DEF dir, xdir
    <3> QED
      BY <3>1, <3>2 DEF LoadedInv
  <2>4. CASE Close \/ Crash
    BY <2>4 DEF Close, Crash, Closed, LoadedInv
  <2>5. ASSUME NEW sz \in Sizes, AppendToActive(sz) \/ AppendAfterRoll(sz) PROVE LoadedInv'
    <3>1. running /\ DOMAIN segs \subseteq DOMAIN segs'
      BY <2>5 DEF AppendToActive, AppendAfterRoll, Begin
    <3> QED
      BY <2>2, <3>1
  <2>6. CASE RollFails
    BY <2>2, <2>6 DEF RollFails, mem
  <2>7. CASE WriteLogFails \/ IndexWriteFails
    BY <1>t, <2>2, <2>7, PendFields DEF WriteLogFails, IndexWriteFails, mem
  <2>8. CASE WriteIndex
    <3>1. running /\ DOMAIN segs' = DOMAIN segs
      BY <1>t, <2>8, PendFields DEF WriteIndex
    <3> QED
      BY <2>2, <3>1
  <2>9. CASE UNCHANGED vars
    BY <1>t, <2>9 DEF vars, LoadedInv
  <2>10. ~RemapFails /\ \A k \in TornSizes : ~WriteLogTorn(k)
    BY <1>t, NoRemapFailure DEF Benign, WriteLogTorn, ExactInv
  <2>11. CASE WriteLog
    BY <1>1, <2>11
  <2> QED
    BY <2>3, <2>4, <2>5, <2>6, <2>7, <2>8, <2>9, <2>10, <2>11 DEF Next, AppendCall
<1> QED
  BY <1>t, <1>1, <1>2, QuietStep

\* A record is written behind all others of its file.
LEMMA PlacesStep ==
  ASSUME Benign, ReadInv, [Next]_vars
  PROVE  PlacesInv'
<1>t. ExactInv /\ TypeOK /\ PlacesInv
  BY ReadTypes DEF ReadInv
<1>1. CASE WriteLog
  <2>1. PICK fr \in Frame :
          /\ fr.at = FileEnd(logf[active]) /\ fr.kept = pend.size /\ fr.id = pend.id
          /\ logf'[active] = Append(logf[active], fr)
    BY <1>t, <1>1, StoreStep
  <2>2. /\ DOMAIN logf' = DOMAIN logf /\ active \in DOMAIN logf
        /\ \A b \in DOMAIN logf : b # active => logf'[b] = logf[b]
        /\ pend.stage = "write" /\ logf[active] \in Seq(Frame)
    BY <1>t, <1>1, StoreStep DEF TypeOK
  <2>3. pend.size > 0 /\ pend.size \in Nat
    BY <1>t, <2>2, PendFields DEF ReadInv, IdsInv
  <2> DEFINE f == logf[active]
             g == logf'[active]
             n == Len(f) + 1
             e == FileEnd(f)
  <2>4. /\ f \in Seq(Frame) /\ Len(f) \in Nat /\ e \in Nat
        /\ DOMAIN g = 1 .. n /\ g[n].at = e /\ FileEnd(g) = e + pend.size
        /\ \A i \in DOMAIN f : g[i] = f[i]
    BY <2>1, <2>2, AppendKeeps, FileEndAppend, FileEndType
  <2>5. \A i \in DOMAIN f : /\ f[i].at \in Nat /\ f[i].at < e
                            /\ \A j \in DOMAIN f : i < j => f[i].at < f[j].at
    BY <1>t, <2>2, FrameFields DEF PlacesInv
  <2>6. DOMAIN f = 1 .. Len(f)
    BY <2>4
  <2>7. \A i \in DOMAIN g : /\ g[i].at < FileEnd(g)
                            /\ \A j \in DOMAIN g : i < j => g[i].at < g[j].at
    <3> HIDE DEF f, g, e
    <3> SUFFICES ASSUME NEW i \in DOMAIN g
                 PROVE  /\ g[i].at < FileEnd(g)
                        /\ \A j \in DOMAIN g : i < j => g[i].at < g[j].at
      OBVIOUS
    <3>1. CASE i = n
      BY <2>3, <2>4, <3>1
    <3>2. CASE i # n
      <4>1. i \in DOMAIN f /\ g[i].at = f[i].at
        BY <2>4, <2>6, <3>2
      <4>2. ASSUME NEW j \in DOMAIN g, i < j PROVE g[i].at < g[j].at
        <5>1. CASE j = n
          BY <2>4, <2>5, <4>1, <5>1
        <5>2. CASE j # n
          <6>1. j \in DOMAIN f /\ g[j].at = f[j].at
            BY <2>4, <2>6, <5>2
          <6> QED
            BY <2>5, <4>1, <4>2, <6>1
        <5> QED
          BY <5>1, <5>2
      <4> QED
        BY <2>3, <2>4, <2>5, <4>1, <4>2
    <3> QED
      BY <3>1, <3>2
  <2> QED
    BY <1>t, <2>2, <2>7 DEF PlacesInv
<1>2. CASE LogKept
  BY <1>t, <1>2 DEF LogKept, PlacesInv
<1> QED
  BY <1>t, <1>1, <1>2, QuietStep

\* An entry is written only for a record that is there.
LEMMA EntriesStep ==
  ASSUME Benign, ReadInv, [Next]_vars
  PROVE  EntriesInv'
<1>t. ExactInv /\ TypeOK /\ EntriesInv /\ FilesInv /\ MatchInv
  BY ReadTypes DEF ReadInv, ExactInv, OrderInv
<1>e. \A b \in DOMAIN logf : \A i \in DOMAIN idxf[b] :
        /\ idxf[b][i].rel \in Nat /\ logf[b] \in Seq(Frame)
        /\ idxf[b][i].rel + 1 \in DOMAIN logf[b]
  <2> SUFFICES ASSUME NEW b \in DOMAIN logf, NEW i \in DOMAIN idxf[b]
               PROVE  /\ idxf[b][i].rel \in Nat /\ logf[b] \in Seq(Frame)
                      /\ idxf[b][i].rel + 1 \in DOMAIN logf[b]
    OBVIOUS
  <2>1. idxf[b] \in Seq(Entry) /\ logf[b] \in Seq(Frame)
    BY <1>t DEF TypeOK
  <2>2. idxf[b][i] \in Entry
    BY <2>1
  <2>3. idxf[b][i].rel < Len(logf[b])
    BY <1>t DEF FilesInv
  <2> QED
    BY <2>1, <2>2, <2>3 DEF Entry
<1>1. CASE WriteLog
  <2>1. PICK fr \in Frame : logf'[active] = Append(logf[active], fr)
    BY <1>t, <1>1, StoreStep
  <2>2. /\ DOMAIN logf' = DOMAIN logf /\ idxf' = idxf
        /\ \A b \in DOMAIN logf : b # active => logf'[b] = logf[b]
    BY <1>t, <1>1, StoreStep
  <2>3. \A b \in DOMAIN logf : \A i \in DOMAIN logf[b] :
          logf[b] \in Seq(Frame) => logf'[b][i] = logf[b][i]
    BY <2>1, <2>2, AppendKeeps
  <2> QED
    BY <1>t, <1>e, <2>2, <2>3 DEF EntriesInv
<1>2. CASE WriteIndex
  <2>1. /\ running /\ IndexWritten /\ pend.stage = "index" /\ logf' = logf
    BY <1>t, <1>2, PendFields DEF WriteIndex
  <2>2. /\ NewEntry \in Entry /\ idxf'[active] = Append(idxf[active], NewEntry)
        /\ \A b \in DOMAIN logf : b # active => idxf'[b] = idxf[b]
    BY <1>t, <2>1, NewEntryType, IndexWrittenType DEF TypeOK
  <2>3. /\ active \in DOMAIN segs /\ active \in DOMAIN logf /\ idxf[active] \in Seq(Entry)
        /\ active \in Nat /\ segs[active].next \in Nat /\ Len(logf[active]) \in Nat
    BY <1>t, <2>1, ActiveFields DEF TypeOK
  <2>4. /\ NewEntry.rel + 1 = Len(logf[active])
        /\ logf[active][Len(logf[active])].at = NewEntry.pos
    BY <1>t, <2>1, <2>3 DEF MatchInv, NewEntry
  <2>5. \A i \in DOMAIN idxf[active] : idxf[active][i].rel < NewEntry.rel
    BY <2>1 DEF ReadInv, FreshInv, NewEntry
  <2> DEFINE x == idxf[active]
             y == idxf'[active]
             n == Len(x) + 1
  <2>6. /\ x \in Seq(Entry) /\ Len(x) \in Nat /\ DOMAIN x = 1 .. Len(x)
        /\ DOMAIN y = 1 .. n /\ y[n] = NewEntry /\ \A i \in DOMAIN x : y[i] = x[i]
    BY <2>2, <2>3, AppendKeeps
  <2>7. \A i \in DOMAIN y : logf[active][y[i].rel + 1].at = y[i].pos
    <3>1. \A i \in DOMAIN x : logf[active][x[i].rel + 1].at = x[i].pos
      BY <1>t, <2>3 DEF EntriesInv
    <3> HIDE DEF x, y
    <3> QED
      BY <2>4, <2>6, <3>1
  <2>8. \A i, j \in DOMAIN y : i < j => y[i].rel < y[j].rel
    <3>1. \A i, j \in DOMAIN x : i < j => x[i].rel < x[j].rel
      BY <1>t, <2>3 DEF EntriesInv
    <3>2. \A i \in DOMAIN x : x[i].rel < NewEntry.rel
      BY <2>5
    <3> HIDE DEF x, y
    <3> SUFFICES ASSUME NEW i \in DOMAIN y, NEW j \in DOMAIN y, i < j
                 PROVE  y[i].rel < y[j].rel
      OBVIOUS
    <3>3. i \in DOMAIN x /\ y[i] = x[i]
      BY <2>6
    <3>4. CASE j = n
      BY <2>6, <3>2, <3>3, <3>4
    <3>5. CASE j # n
      BY <2>6, <3>1, <3>3, <3>5
    <3> QED
      BY <3>4, <3>5
  <2> SUFFICES ASSUME NEW b \in DOMAIN logf, NEW i \in DOMAIN idxf'[b]
               PROVE  /\ logf[b][idxf'[b][i].rel + 1].at = idxf'[b][i].pos
                      /\ \A j \in DOMAIN idxf'[b] : i < j => idxf'[b][i].rel < idxf'[b][j].rel
    BY <2>1 DEF EntriesInv
  <2>9. CASE b = active
    BY <2>7, <2>8, <2>9
  <2>10. CASE b # active
    BY <1>t, <2>2, <2>10 DEF EntriesInv
  <2> QED
    BY <2>9, <2>10
<1>3. CASE LogKept /\ IdxKept
  BY <1>t, <1>3 DEF LogKept, IdxKept, EntriesInv
<1> QED
  BY <1>t, <1>1, <1>2, <1>3, QuietStep

\* An Append writes its record before its entry.
LEMMA FreshStep ==
  ASSUME Benign, ReadInv, [Next]_vars
  PROVE  FreshInv'
<1>t. ExactInv /\ TypeOK /\ FreshInv /\ FilesInv
  BY ReadTypes DEF ReadInv, ExactInv, OrderInv
<1>1. CASE WriteLog
  <2>1. /\ segs[active].next = active + Len(logf[active]) /\ active \in DOMAIN logf
        /\ UNCHANGED <<idxf, segs, active>>
    BY <1>t, <1>1, StoreStep
  <2>2. active \in Nat /\ Len(logf[active]) \in Nat
    BY <1>t, <2>1, Lengths DEF TypeOK
  <2>3. \A i \in DOMAIN idxf[active] : idxf[active][i].rel < Len(logf[active])
    BY <1>t, <2>1 DEF FilesInv
  <2>4. segs[active].next - active = Len(logf[active])
    BY <2>1, <2>2
  <2> QED
    BY <2>1, <2>3, <2>4 DEF FreshInv
<1>2. CASE UNCHANGED vars
  BY <1>t, <1>2 DEF vars, FreshInv
<1>3. CASE Open \/ RollFails
  <2>1. pend'.stage # "index"
    BY <1>t, <1>3 DEF Open, RollFails, TypeOK, Idle
  <2> QED
    BY <2>1 DEF FreshInv
<1>4. CASE AppendCall
  <2>1. pend'.stage = "write"
    BY <1>4 DEF AppendCall, AppendToActive, AppendAfterRoll, Begin
  <2> QED
    BY <2>1 DEF FreshInv
<1>5. CASE Close \/ Crash \/ WriteLogFails \/ WriteIndex \/ IndexWriteFails \/ RemapFails
  <2>1. pend'.stage = "idle"
    BY <1>5 DEF Close, Crash, Closed, WriteLogFails, WriteIndex, IndexWriteFails,
                RemapFails, Fail, Idle
  <2> QED
    BY <2>1 DEF FreshInv
<1>6. ~(\E k \in TornSizes : WriteLogTorn(k))
  BY DEF Benign, WriteLogTorn
<1> QED
  BY <1>1, <1>2, <1>3, <1>4, <1>5, <1>6 DEF Next

\* An empty directory satisfies the invariant.
LEMMA ReadInit == Init => ReadInv
<1> SUFFICES ASSUME Init PROVE ReadInv
  OBVIOUS
<1>1. DOMAIN logf = {} /\ nextId = 0 /\ pend.stage = "idle"
  BY DEF Init, Idle
<1> QED
  BY <1>1, ExactInit, ConfigAssumption
     DEF ReadInv, CoverInv, IdsInv, LoadedInv, PlacesInv, EntriesInv, FreshInv

\* Every step keeps the invariant.
LEMMA ReadStep == ASSUME Benign PROVE ReadInv /\ [Next]_vars => ReadInv'
<1> SUFFICES ASSUME ReadInv, [Next]_vars PROVE ReadInv'
  OBVIOUS
<1>1. ExactInv'
  BY ReadTypes, ExactStep
<1>2. TypeOK'
  BY <1>1 DEF ExactInv, OrderInv, DurableInv
<1> QED
  BY <1>1, <1>2, CoverStep, IdsStep, LoadedStep, PlacesStep, EntriesStep,
     FreshStep DEF ReadInv
-----------------------------------------------------------------------------
(* Refinement: what a caller can tell of each step.                         *)

\* A record is in the log exactly if it is in a file.
LEMMA RecordsHas ==
  ASSUME NEW r
  PROVE  r \in Records <=>
           \E b \in DOMAIN logf : \E i \in DOMAIN logf[b] :
             r = [off |-> b + i - 1, id |-> logf[b][i].id]
  BY DEF Records

\* Steps that write no record leave the log as it is.
LEMMA RecordsKept == ASSUME LogKept PROVE Records' = Records
<1>1. ASSUME NEW b \in DOMAIN logf', NEW i \in DOMAIN logf'[b]
      PROVE  b \in DOMAIN logf /\ logf'[b] = logf[b]
  <2>1. logf'[b] # <<>>
    BY <1>1
  <2> QED
    BY <2>1 DEF LogKept
<1>2. Records' \subseteq Records
  BY <1>1 DEF Records
<1>3. Records \subseteq Records'
  BY DEF Records, LogKept
<1> QED
  BY <1>2, <1>3

\* The write of a record adds it at the offset the log hands out next.
LEMMA RecordsStored ==
  ASSUME ReadInv, WriteLog
  PROVE  Records' = Records \union {[off |-> segs[active].next, id |-> pend.id]}
<1>t. ExactInv /\ TypeOK
  BY ReadTypes
<1>1. PICK fr \in Frame :
        fr.id = pend.id /\ logf'[active] = Append(logf[active], fr)
  BY <1>t, StoreStep
<1>2. /\ DOMAIN logf' = DOMAIN logf /\ active \in DOMAIN logf
      /\ \A b \in DOMAIN logf : b # active => logf'[b] = logf[b]
      /\ segs[active].next = active + Len(logf[active])
      /\ logf[active] \in Seq(Frame) /\ active \in Nat
  BY <1>t, StoreStep DEF TypeOK
<1> DEFINE n == Len(logf[active]) + 1
           new == [off |-> segs[active].next, id |-> pend.id]
<1>3. /\ n \in DOMAIN logf'[active] /\ logf'[active][n] = fr
      /\ active + n - 1 = segs[active].next
      /\ DOMAIN logf'[active] = 1 .. n /\ DOMAIN logf[active] = 1 .. n - 1
      /\ \A i \in DOMAIN logf[active] : i \in DOMAIN logf'[active]
                                        /\ logf'[active][i] = logf[active][i]
  BY <1>1, <1>2, AppendKeeps
<1>4. new \in Records'
  <2>1. new = [off |-> active + n - 1, id |-> logf'[active][n].id]
    BY <1>1, <1>3
  <2> QED
    BY <1>2, <1>3, <2>1 DEF Records
<1>5. Records \subseteq Records'
  <2> SUFFICES ASSUME NEW b \in DOMAIN logf, NEW i \in DOMAIN logf[b]
               PROVE  i \in DOMAIN logf'[b] /\ logf'[b][i] = logf[b][i]
    BY <1>2 DEF Records
  <2> QED
    BY <1>2, <1>3
<1>6. ASSUME NEW r \in Records' PROVE r \in Records \union {new}
  <2>1. PICK b \in DOMAIN logf : \E i \in DOMAIN logf'[b] :
          r = [off |-> b + i - 1, id |-> logf'[b][i].id]
    BY <1>2, <1>6 DEF Records
  <2>2. PICK i \in DOMAIN logf'[b] : r = [off |-> b + i - 1, id |-> logf'[b][i].id]
    BY <2>1
  <2>3. CASE b = active /\ i = n
    BY <1>1, <1>3, <2>2, <2>3
  <2>4. CASE ~(b = active /\ i = n)
    <3>1. i \in DOMAIN logf[b] /\ logf'[b][i] = logf[b][i]
      BY <1>2, <1>3, <2>4
    <3> QED
      BY <2>2, <3>1 DEF Records
  <2> QED
    BY <2>3, <2>4
<1> QED
  BY <1>4, <1>5, <1>6

\* The stored offsets are those below the end of the last file.
LEMMA OffsetsStored ==
  ASSUME ReadInv, NEW top \in DOMAIN logf, \A b \in DOMAIN logf : b <= top
  PROVE  {r.off : r \in Records} = 0 .. top + Len(logf[top]) - 1
<1>t. ExactInv /\ TypeOK /\ CoverInv /\ SegmentsDisjoint
  BY ReadTypes DEF ReadInv, ExactInv
<1>n. DOMAIN logf \subseteq Nat /\ \A b \in DOMAIN logf : Len(logf[b]) \in Nat
                                                           /\ DOMAIN logf[b] = 1 .. Len(logf[b])
  BY <1>t, Lengths DEF TypeOK
<1> DEFINE e == top + Len(logf[top])
<1>1. ASSUME NEW b \in DOMAIN logf PROVE b + Len(logf[b]) <= e
  <2>1. CASE b = top
    BY <1>n, <2>1
  <2>2. CASE b # top
    <3>1. b < top
      BY <1>n, <2>2
    <3>2. b + Len(logf[b]) <= top
      BY <1>t, <3>1 DEF SegmentsDisjoint
    <3> QED
      BY <1>n, <3>2
  <2> QED
    BY <2>1, <2>2
<1>2. ASSUME NEW r \in Records PROVE r.off \in 0 .. e - 1
  <2>1. PICK b \in DOMAIN logf : \E i \in DOMAIN logf[b] :
          r = [off |-> b + i - 1, id |-> logf[b][i].id]
    BY RecordsHas
  <2>2. PICK i \in DOMAIN logf[b] : r = [off |-> b + i - 1, id |-> logf[b][i].id]
    BY <2>1
  <2>3. r.off = b + i - 1 /\ b \in Nat /\ Len(logf[b]) \in Nat /\ i \in 1 .. Len(logf[b])
        /\ b + Len(logf[b]) <= e /\ e \in Nat
    BY <1>n, <1>1, <2>2
  <2> HIDE DEF e
  <2> QED
    BY <2>3
<1>3. ASSUME NEW o \in 0 .. e - 1 PROVE \E r \in Records : r.off = o
  <2>1. PICK c \in DOMAIN logf : c <= o /\ o < c + Len(logf[c])
    BY <1>t DEF CoverInv
  <2> DEFINE i == o - c + 1
             r == [off |-> c + i - 1, id |-> logf[c][i].id]
  <2>2. i \in DOMAIN logf[c] /\ c + i - 1 = o
    BY <1>n, <2>1
  <2>3. r \in Records /\ r.off = o
    BY <2>2 DEF Records
  <2> QED
    BY <2>3
<1> HIDE DEF e
<1>4. {r.off : r \in Records} = 0 .. e - 1
  <2> DEFINE offs == {r.off : r \in Records}
  <2>1. offs \subseteq 0 .. e - 1
    BY <1>2
  <2>2. 0 .. e - 1 \subseteq offs
    BY <1>3
  <2> QED
    BY <2>1, <2>2
<1>5. 0 .. e - 1 = 0 .. top + Len(logf[top]) - 1
  BY DEF e
<1> QED
  BY <1>4, <1>5, Zenon

\* An empty partition is an empty log that is closed.
LEMMA InitImplements == Init => Log!Init
<1> SUFFICES ASSUME Init PROVE Log!Init
  OBVIOUS
<1>1. DOMAIN logf = {} /\ ~running /\ acked = {}
  BY DEF Init
<1>2. Records = {} /\ Visible = -1
  BY <1>1 DEF Records, Visible
<1> QED
  BY <1>1, <1>2 DEF Log!Init, Log!Shut

\* NewCommitLog opens the log with all that is stored.
LEMMA OpenImplements ==
  ASSUME ReadInv, ReadInv', LogKept, Open PROVE Log!Open
<1>t. ExactInv /\ TypeOK /\ ExactInv' /\ TypeOK'
  BY ReadTypes DEF ReadInv, ExactInv, OrderInv, DurableInv
<1>1. /\ ~running /\ running' /\ UNCHANGED <<pend, acked>> /\ pend = Idle
      /\ active' \in DOMAIN logf' /\ \A b \in DOMAIN logf' : b <= active'
  BY <1>t DEF Open, TypeOK
<1>2. pend'.stage # "index" /\ active' \in DOMAIN segs'
  BY <1>t, <1>1 DEF Idle, TypeOK
<1>3. segs'[active'].next = active' + Len(logf'[active'])
  BY <1>t, <1>2 DEF ExactInv, MatchInv
<1>4. Records' = Records
  BY RecordsKept
<1>5. {r.off : r \in Records} = 0 .. segs'[active'].next - 1
  <2>1. CASE DOMAIN logf = {}
    <3>1. logf' = Created(logf, 0) /\ Records = {}
      BY <2>1 DEF Open, Records
    <3>2. segs'[active'].next = 0
      BY <1>1, <1>3, <2>1, <3>1, CreatedInEmpty
    <3> QED
      BY <3>1, <3>2
  <2>2. CASE DOMAIN logf # {}
    <3>1. logf' = logf
      BY <2>2 DEF Open
    <3>2. \A top \in DOMAIN logf : (\A b \in DOMAIN logf : b <= top) =>
            {r.off : r \in Records} = 0 .. top + Len(logf[top]) - 1
      BY OffsetsStored
    <3>3. PICK top \in DOMAIN logf : top = active' /\ \A b \in DOMAIN logf : b <= top
      BY <1>1, <3>1
    <3>4. {r.off : r \in Records} = 0 .. top + Len(logf[top]) - 1
      BY <3>2, <3>3
    <3>5. top \in Nat /\ Len(logf[top]) \in Nat
      BY <1>t DEF TypeOK
    <3>6. PICK e \in Nat : e = top + Len(logf[top])
      BY <3>5
    <3>7. segs'[active'].next = e
      BY <1>3, <3>1, <3>3, <3>6
    <3>8. 0 .. top + Len(logf[top]) - 1 = 0 .. e - 1
      BY <3>5, <3>6
    <3>9. {r.off : r \in Records} = 0 .. e - 1
      BY <3>4, <3>8, Zenon
    <3> QED
      BY <3>7, <3>9, Zenon
  <2> QED
    BY <2>1, <2>2
<1>6. Visible = -1 /\ Visible' = segs'[active'].next /\ Visible' \in Nat
  BY <1>t, <1>1, <1>2, SegFields DEF Visible, TypeOK, SegmentState
<1> QED
  BY <1>1, <1>4, <1>5, <1>6 DEF Log!Open, Log!Shut

\* The write of a record stores it.
LEMMA WriteImplements ==
  ASSUME ReadInv, WriteLog PROVE \E id \in 0 .. MaxAppends - 1 : Log!Store(id)
<1>t. ExactInv /\ TypeOK /\ SegmentsDisjoint /\ IdsInv /\ PendInv
  BY ReadTypes DEF ReadInv, ExactInv, OrderInv
<1>1. /\ running /\ active \in DOMAIN logf /\ pend.stage = "write"
      /\ UNCHANGED <<running, segs, active, acked>>
      /\ segs[active].next = active + Len(logf[active])
      /\ \A c \in DOMAIN logf : c <= active
  BY <1>t, StoreStep
<1>2. Visible = segs[active].next /\ Visible' = Visible /\ Visible \in Nat
  BY <1>t, <1>1, ActiveFields DEF Visible
<1>3. pend.id \in 0 .. MaxAppends - 1
  <2>1. pend.id \in Nat /\ nextId \in Nat /\ MaxAppends \in Nat
    BY <1>t, PendFields, ConfigAssumption DEF TypeOK
  <2> QED
    BY <1>t, <1>1, <2>1 DEF IdsInv, PendInv
<1>4. ASSUME NEW r \in Records PROVE r.off < Visible /\ r.id < pend.id
  <2>1. PICK b \in DOMAIN logf : \E i \in DOMAIN logf[b] :
          r = [off |-> b + i - 1, id |-> logf[b][i].id]
    BY <1>4, RecordsHas
  <2>2. PICK i \in DOMAIN logf[b] : r = [off |-> b + i - 1, id |-> logf[b][i].id]
    BY <2>1
  <2>3. logf[b][i].id < pend.id
    BY <1>t, <1>1 DEF IdsInv
  <2>4. /\ b \in Nat /\ active \in Nat /\ Len(logf[b]) \in Nat
        /\ Len(logf[active]) \in Nat /\ i \in 1 .. Len(logf[b])
    BY <1>t, <1>1, Lengths DEF TypeOK
  <2>5. b + Len(logf[b]) <= active + Len(logf[active])
    <3>1. CASE b = active
      BY <2>4, <3>1
    <3>2. CASE b # active
      <4>1. b < active
        BY <1>1, <2>4, <3>2
      <4> QED
        BY <1>t, <1>1, <2>4, <4>1 DEF SegmentsDisjoint
    <3> QED
      BY <3>1, <3>2
  <2> QED
    BY <1>1, <1>2, <2>2, <2>3, <2>4, <2>5
<1>5. Records' = Records \union {[off |-> Visible, id |-> pend.id]}
  BY <1>2, RecordsStored
<1>6. PICK id \in 0 .. MaxAppends - 1 : id = pend.id
  BY <1>3
<1>7. Log!Store(id)
  BY <1>1, <1>2, <1>4, <1>5, <1>6 DEF Log!Store, Log!Shut
<1> QED
  BY <1>7

\* The write of the entry acknowledges the record stored last.
LEMMA IndexImplements ==
  ASSUME ReadInv, LogKept, WriteIndex PROVE Log!Acknowledge
<1>t. ExactInv /\ TypeOK /\ MatchInv
  BY ReadTypes DEF ReadInv, ExactInv
<1> DEFINE new == [next |-> segs[active].next + 1,
                   size |-> segs[active].size + pend.size,
                   mapped |-> Len(idxf'[active])]
<1>1. /\ running /\ pend.stage = "index" /\ UNCHANGED <<running, active>>
      /\ segs' = [segs EXCEPT ![active] = new]
      /\ acked' = acked \union {[off |-> segs[active].next, id |-> pend.id]}
  BY <1>t, PendFields DEF WriteIndex
<1>2. /\ active \in DOMAIN segs /\ active \in DOMAIN logf /\ active \in Nat
      /\ segs[active].next \in Nat /\ Len(logf[active]) \in Nat
      /\ logf[active] \in Seq(Frame) /\ active <= segs[active].next
  BY <1>t, <1>1, ActiveFields, SegFields DEF TypeOK
<1>3. segs'[active].next = segs[active].next + 1
  BY <1>1, <1>2
<1> HIDE DEF new
<1>4. /\ segs[active].next + 1 = active + Len(logf[active])
      /\ logf[active][Len(logf[active])].id = pend.id
  BY <1>t, <1>1, <1>2 DEF MatchInv
<1> DEFINE n == Len(logf[active])
           r == [off |-> segs[active].next, id |-> pend.id]
<1>5. n \in DOMAIN logf[active] /\ active + n - 1 = segs[active].next
  BY <1>2, <1>4
<1>6. r \in Records
  BY <1>2, <1>4, <1>5 DEF Records
<1>7. Visible = segs[active].next /\ Visible' = segs[active].next + 1
  BY <1>1, <1>3 DEF Visible
<1>8. Records' = Records
  BY RecordsKept
<1>9. r.off = Visible /\ acked' = acked \union {r}
  BY <1>1, <1>7
<1> HIDE DEF r
<1> QED
  BY <1>6, <1>7, <1>8, <1>9 DEF Log!Acknowledge

\* Every other step of an open log goes unnoticed.
LEMMA SilentStep ==
  ASSUME ReadInv, LogKept,
         \/ \E sz \in Sizes : AppendToActive(sz) \/ AppendAfterRoll(sz)
         \/ RollFails \/ WriteLogFails \/ UNCHANGED vars
  PROVE  UNCHANGED <<Records, Visible, acked>>
<1>t. ExactInv /\ TypeOK
  BY ReadTypes
<1>1. Records' = Records
  BY RecordsKept
<1>2. ASSUME NEW sz \in Sizes, AppendAfterRoll(sz)
      PROVE  Visible' = Visible /\ acked' = acked
  <2> DEFINE b == segs[active].next
  <2>1. /\ running /\ running' = running /\ IsFull(segs[active]) /\ b \in Nat
        /\ active' = b /\ acked' = acked
        /\ logf' = Created(logf, b) /\ idxf' = Created(idxf, b)
    BY <1>t, <1>2, TypeBegin, ActiveFields DEF AppendAfterRoll, Begin
  <2>2. PICK n \in RecoveredCounts(logf'[b]) :
          segs' = [x \in DOMAIN segs \union {b} |->
                     IF x = b THEN NewSegment(b, logf'[b], idxf'[b], n) ELSE segs[x]]
    BY <1>2 DEF AppendAfterRoll
  <2>3. logf'[b] = <<>>
    BY <1>t, <2>1, OrderCreated DEF ExactInv
  <2>4. n = 0
    BY <2>2, <2>3, RecoveredWhole
  <2>5. segs'[b].next = b
    <3> HIDE DEF b
    <3> QED
      BY <2>1, <2>2, <2>4 DEF NewSegment
  <2> QED
    BY <2>1, <2>5 DEF Visible
<1>3. ASSUME NEW sz \in Sizes, AppendToActive(sz)
      PROVE  Visible' = Visible /\ acked' = acked
  BY <1>3 DEF AppendToActive, Begin, Visible
<1>4. CASE RollFails \/ WriteLogFails \/ UNCHANGED vars
  BY <1>1, <1>4 DEF RollFails, WriteLogFails, mem, vars, Visible
<1> QED
  BY <1>1, <1>2, <1>3, <1>4

\* Every step is one of PartitionLog or changes nothing a caller can tell.
LEMMA StepImplements ==
  ASSUME Benign, ReadInv, ReadInv', [Next]_vars PROVE [Log!Next]_(Log!vars)
<1>t. ExactInv /\ TypeOK
  BY ReadTypes
<1>1. CASE WriteLog
  BY <1>1, WriteImplements DEF Log!Next
<1>2. CASE ~WriteLog
  <2>1. LogKept
    BY <1>t, <1>2, QuietStep
  <2>2. CASE Open
    BY <2>1, <2>2, OpenImplements DEF Log!Next
  <2>3. CASE Close \/ Crash
    <3>1. Records' = Records
      BY <2>1, RecordsKept
    <3>2. Visible' = -1 /\ acked' = acked
      BY <2>3 DEF Close, Crash, Closed, Visible
    <3>3. Log!Close
      BY <3>1, <3>2 DEF Log!Close, Log!Shut
    <3> QED
      BY <3>3 DEF Log!Next
  <2>4. CASE WriteIndex
    BY <2>1, <2>4, IndexImplements DEF Log!Next
  <2>5. ~RemapFails /\ ~IndexWriteFails /\ \A k \in TornSizes : ~WriteLogTorn(k)
    BY <1>t, NoRemapFailure DEF Benign, IndexWriteFails, WriteLogTorn, ExactInv
  <2>6. CASE \/ \E sz \in Sizes : AppendToActive(sz) \/ AppendAfterRoll(sz)
             \/ RollFails \/ WriteLogFails \/ UNCHANGED vars
    BY <2>1, <2>6, SilentStep DEF Log!vars
  <2> QED
    BY <1>2, <2>2, <2>3, <2>4, <2>5, <2>6 DEF Next, AppendCall
<1> QED
  BY <1>1, <1>2

-----------------------------------------------------------------------------
(* Reading back.                                                            *)

\* The maximum of a set that has one.
LEMMA MaxIs ==
  ASSUME NEW S, S \subseteq Int, NEW m \in S, \A x \in S : x <= m
  PROVE  Max(S) = m
<1>1. \A x \in S : (\A y \in S : x >= y) <=> x = m
  OBVIOUS
<1> QED
  BY <1>1 DEF Max

\* The minimum of a set that has one.
LEMMA MinIs ==
  ASSUME NEW S, S \subseteq Int, NEW m \in S, \A x \in S : m <= x
  PROVE  Min(S) = m
<1>1. \A x \in S : (\A y \in S : x =< y) <=> x = m
  OBVIOUS
<1> QED
  BY <1>1 DEF Min

\* In an index that has one entry for the target, Lookup returns the position
\* in that entry.
LEMMA LookupExact ==
  ASSUME NEW x \in Seq(Entry), NEW k \in DOMAIN x,
         \A i, j \in DOMAIN x : i < j => x[i].rel < x[j].rel
  PROVE  Lookup(x, x[k].rel) = x[k].pos
<1> DEFINE hits == {i \in DOMAIN x : x[i].rel <= x[k].rel}
<1>1. \A i \in DOMAIN x : x[i].rel \in Nat
  <2>1. \A i \in DOMAIN x : x[i] \in Entry
    OBVIOUS
  <2> QED
    BY <2>1 DEF Entry
<1>2. k \in hits /\ hits \subseteq 1 .. Len(x) /\ Len(x) \in Nat /\ hits # {}
  BY <1>1
<1>3. \A j \in hits : j <= k
  BY <1>1, <1>2
<1>4. Lookup(x, x[k].rel) = x[CHOOSE i \in hits : \A j \in hits : j <= i].pos
  BY <1>2, Zenon DEF Lookup
<1>5. (CHOOSE i \in hits : \A j \in hits : j <= i) = k
  <2>1. \A i \in hits : (\A j \in hits : j <= i) <=> i = k
    <3> HIDE DEF hits
    <3> QED
      BY <1>2, <1>3
  <2> HIDE DEF hits
  <2> QED
    BY <1>2, <2>1
<1> HIDE DEF hits
<1> QED
  BY <1>4, <1>5

\* Positions tell records apart.
LEMMA PlaceExact ==
  ASSUME ReadInv, NEW b \in DOMAIN logf, NEW k \in DOMAIN logf[b]
  PROVE  (CHOOSE i \in DOMAIN logf[b] : logf[b][i].at = logf[b][k].at) = k
<1>1. \A i \in DOMAIN logf[b] : logf[b][i].at \in Nat
  BY ReadTypes, FrameFields DEF TypeOK
<1>2. \A i, j \in DOMAIN logf[b] : i < j => logf[b][i].at < logf[b][j].at
  BY DEF ReadInv, PlacesInv
<1>3. DOMAIN logf[b] \subseteq Nat
  BY ReadTypes DEF TypeOK
<1>4. \A i \in DOMAIN logf[b] : logf[b][i].at = logf[b][k].at <=> i = k
  BY <1>1, <1>2, <1>3
<1> QED
  BY <1>4

\* Segment.ReadFrom for one message that has an index entry returns it.
LEMMA SegmentReadsBack ==
  ASSUME ReadInv, Readable, NEW b \in DOMAIN segs, NEW k \in DOMAIN idxf[b]
  PROVE  LET rel == idxf[b][k].rel
         IN  /\ b + rel < segs[b].next
             /\ SegmentReadFrom(b, b + rel, 1) =
                  <<[off |-> b + rel, id |-> logf[b][rel + 1].id]>>
<1>t. ExactInv /\ TypeOK /\ MatchInv /\ MappedInv /\ FilesInv /\ EntriesInv
  BY ReadTypes DEF ReadInv, ExactInv, OrderInv
<1> DEFINE rel == idxf[b][k].rel
           o   == b + rel
           l   == Len(logf[b])
<1>1. /\ b \in Nat /\ b \in DOMAIN logf /\ logf[b] \in Seq(Frame) /\ idxf[b] \in Seq(Entry)
      /\ l \in Nat
  BY <1>t, SegFields
<1>2. rel \in Nat /\ rel < l /\ idxf[b][k] \in Entry
  <2>1. idxf[b][k] \in Entry
    BY <1>1
  <2> QED
    BY <1>t, <1>1, <2>1 DEF FilesInv, Entry
<1>3. segs[b].next = b + l /\ segs[b].mapped = Len(idxf[b])
  BY <1>t DEF MatchInv, MappedInv, Readable
<1>4. Mapped(b) = idxf[b]
  BY <1>1, <1>3 DEF Mapped
<1>5. rel + 1 \in DOMAIN logf[b] /\ logf[b][rel + 1].at = idxf[b][k].pos
  BY <1>t, <1>1, <1>2 DEF EntriesInv
<1>6. o - b = rel /\ o \in Nat
  BY <1>1, <1>2
<1>7. Lookup(Mapped(b), o - b) = logf[b][rel + 1].at
  <2>1. \A i, j \in DOMAIN idxf[b] : i < j => idxf[b][i].rel < idxf[b][j].rel
    BY <1>t, <1>1 DEF EntriesInv
  <2>2. Lookup(idxf[b], rel) = idxf[b][k].pos
    BY <1>1, <2>1, LookupExact
  <2> HIDE DEF rel, o
  <2> QED
    BY <1>4, <1>5, <1>6, <2>2
<1>8. (CHOOSE i \in DOMAIN logf[b] : logf[b][i].at = logf[b][rel + 1].at) = rel + 1
  BY <1>1, <1>5, PlaceExact
<1>9. Max({o, b}) = o
  <2>1. {o, b} \subseteq Int /\ \A x \in {o, b} : x <= o
    BY <1>1, <1>2
  <2> HIDE DEF o
  <2> QED
    BY <2>1, MaxIs
<1> DEFINE pos  == logf[b][rel + 1].at
           skip == IF pos > 0 THEN 0 ELSE o - b
<1>10. skip = 0
  <2>1. CASE pos > 0
    BY <2>1
  <2>2. CASE ~(pos > 0)
    <3>1. pos \in Nat /\ \A i \in DOMAIN logf[b] : logf[b][i].at \in Nat
      BY <1>1, <1>5, FrameFields
    <3>2. pos = 0
      BY <2>2, <3>1
    <3>3. rel = 0
      <4>1. SUFFICES ASSUME rel # 0 PROVE FALSE
        OBVIOUS
      <4>2. 1 \in DOMAIN logf[b] /\ 1 < rel + 1
        BY <1>1, <1>2, <1>5, <4>1
      <4>3. logf[b][1].at < pos
        BY <1>1, <1>5, <4>2 DEF ReadInv, PlacesInv
      <4> QED
        BY <3>1, <3>2, <4>2, <4>3
    <3> QED
      BY <1>6, <2>2, <3>3
  <2> QED
    BY <2>1, <2>2
<1>11. Min({1, segs[b].next - o, l - (rel + 1 + skip - 1)}) = 1 /\ o < segs[b].next
  <2> DEFINE S == {1, segs[b].next - o, l - (rel + 1 + skip - 1)}
  <2> HIDE DEF skip, rel, l
  <2>1. S \subseteq Int /\ 1 \in S /\ (\A x \in S : 1 <= x) /\ o < segs[b].next
    BY <1>1, <1>2, <1>3, <1>6, <1>10
  <2> HIDE DEF S
  <2>2. Min(S) = 1
    BY <2>1, MinIs
  <2> QED
    BY <2>1, <2>2 DEF S
<1>12. Max({1, 0}) = 1
  BY MaxIs
<1> DEFINE r == [off |-> o, id |-> logf[b][rel + 1].id]
           R == [i \in 1 .. 1 |-> [off |-> o + i - 1, id |-> logf[b][rel + 1 + skip + i - 1].id]]
<1>13. SegmentReadFrom(b, o, 1) = R
  <2>1. ~(o >= segs[b].next)
    <3> HIDE DEF o, rel, l
    <3> QED
      BY <1>1, <1>3, <1>6, <1>11
  <2> HIDE DEF rel, o
  <2> QED
    BY <1>7, <1>8, <1>9, <1>11, <1>12, <2>1 DEF SegmentReadFrom, l
<1>14. R = <<r>>
  <2> HIDE DEF skip
  <2>1. R = [i \in 1 .. 1 |-> r]
    <3> SUFFICES ASSUME NEW i \in 1 .. 1
                 PROVE  [off |-> o + i - 1, id |-> logf[b][rel + 1 + skip + i - 1].id] = r
      BY Zenon
    <3>1. i = 1
      OBVIOUS
    <3>2. o + i - 1 = o /\ rel + 1 + skip + i - 1 = rel + 1
      <4> HIDE DEF o, rel
      <4> QED
        BY <1>2, <1>6, <1>10, <3>1
    <3> HIDE DEF o, rel
    <3> QED
      BY <3>2
  <2> HIDE DEF R, r
  <2> QED
    BY <2>1
<1> HIDE DEF R
<1> QED
  BY <1>11, <1>13, <1>14

\* CommitLog.Read finds the segment of an acknowledged record and in it the
\* record.
LEMMA ReadsBack == ReadInv => AckedReadable
<1> SUFFICES ASSUME ReadInv, Readable, NEW a \in acked PROVE Read(a.off) = <<a>>
  BY DEF AckedReadable
<1>t. ExactInv /\ TypeOK /\ SegmentsDisjoint /\ AckedIndexed /\ LoadedInv
  BY ReadTypes DEF ReadInv, ExactInv
<1>1. PICK b \in DOMAIN logf : IndexedIn(b, a)
  BY <1>t DEF AckedIndexed, IndexedIn
<1>2. PICK k \in DOMAIN idxf[b] :
        /\ b + idxf[b][k].rel = a.off
        /\ idxf[b][k].rel + 1 \in DOMAIN logf[b]
        /\ logf[b][idxf[b][k].rel + 1].id = a.id
  BY <1>1 DEF IndexedIn
<1>3. b \in DOMAIN segs /\ running
  <2>1. logf[b] # <<>>
    BY <1>2
  <2> QED
    BY <1>t, <2>1 DEF LoadedInv, Readable
<1>4. /\ a.off < segs[b].next
      /\ SegmentReadFrom(b, a.off, 1) = <<[off |-> a.off, id |-> a.id]>>
  BY <1>2, <1>3, SegmentReadsBack
<1>5. a = [off |-> a.off, id |-> a.id] /\ a.off \in Nat
  BY <1>t DEF TypeOK
<1>6. b \in Nat /\ b <= a.off /\ a.off < b + Len(logf[b]) /\ segs[b].next \in Nat
  <2>1. idxf[b] \in Seq(Entry) /\ logf[b] \in Seq(Frame) /\ b \in Nat /\ segs[b].next \in Nat
    BY <1>t, <1>3, SegFields
  <2>2. idxf[b][k] \in Entry
    BY <2>1
  <2> QED
    BY <1>2, <2>1, <2>2, SMTT(60) DEF Entry
<1> DEFINE below == {c \in DOMAIN segs : c <= a.off}
<1>7. /\ below \subseteq Int /\ b \in below
      /\ \A c \in below : c <= b
  <2>1. DOMAIN segs \subseteq DOMAIN logf /\ DOMAIN logf \subseteq Nat
    BY <1>t DEF TypeOK
  <2>2. ASSUME NEW c \in below PROVE c <= b
    <3>1. SUFFICES ASSUME b < c PROVE FALSE
      BY <1>6, <2>1
    <3>2. b + Len(logf[b]) <= c
      BY <1>t, <2>1, <3>1 DEF SegmentsDisjoint
    <3> QED
      BY <1>5, <1>6, <2>1, <3>2, Lengths, <1>t
  <2> QED
    BY <1>3, <1>6, <2>1, <2>2
<1>8. Max(below) = b /\ below # {}
  <2> HIDE DEF below
  <2> QED
    BY <1>7, MaxIs
<1>9. Read(a.off) = SegmentRead(b, a.off)
  BY <1>8 DEF Read
<1>10. ~(a.off < b \/ a.off >= segs[b].next)
  BY <1>4, <1>5, <1>6
<1> QED
  BY <1>4, <1>5, <1>9, <1>10 DEF SegmentRead

-----------------------------------------------------------------------------
(* Induction on naturals, from their well-foundedness.                      *)

\* Every set of naturals that is not empty has a least member.
LEMMA Least ==
  ASSUME NEW T \in SUBSET Nat, T # {}
  PROVE  \E x \in T : \A y \in T : x <= y
<1> DEFINE R == OpToRel(<, Nat)
<1>1. IsWellFoundedOn(R, Nat)
  BY NatLessThanWellFounded, Zenon
<1> HIDE DEF R
<1>2. PICK x \in T : \A y \in T : ~(<<y, x>> \in R)
  BY <1>1, WFMin
<1>3. \A y \in T : ~(y < x)
  <2> SUFFICES ASSUME NEW y \in T, y < x PROVE <<y, x>> \in R
    BY <1>2
  <2> QED
    BY DEF R, OpToRel
<1> QED
  BY <1>3

\* A set of naturals with 0 and the successor of each of its members is all of
\* them.
LEMMA AllNat ==
  ASSUME NEW T \in SUBSET Nat, 0 \in T, \A n \in T : n + 1 \in T
  PROVE  T = Nat
<1> DEFINE U == Nat \ T
<1>1. SUFFICES ASSUME U # {} PROVE FALSE
  OBVIOUS
<1>2. PICK x \in U : \A y \in U : x <= y
  BY <1>1, Least
<1>3. x # 0 /\ x - 1 \in Nat /\ x - 1 \notin U /\ (x - 1) + 1 = x
  BY <1>2
<1> QED
  BY <1>2, <1>3

\* A set that is numbered from 0 to n - 1, each of its members once, has n
\* members.
LEMMA Counted ==
  ASSUME NEW S, NEW n \in Nat,
         \E f \in [S -> 0 .. n - 1] :
           /\ \A x, y \in S : f[x] = f[y] => x = y
           /\ \A k \in 0 .. n - 1 : \E x \in S : f[x] = k
  PROVE  Cardinality(S) = n
<1>1. PICK f \in [S -> 0 .. n - 1] :
        /\ \A x, y \in S : f[x] = f[y] => x = y
        /\ \A k \in 0 .. n - 1 : \E x \in S : f[x] = k
  OBVIOUS
<1>2. f \in Bijection(S, 0 .. n - 1)
  BY <1>1 DEF Bijection, Injection, Surjection, IsInjective
<1>3. ExistsBijection(0 .. n - 1, S)
  BY <1>2, Fun_ExistsBijSymmetric DEF ExistsBijection
<1>4. IsFiniteSet(0 .. n - 1) /\ Cardinality(0 .. n - 1) = n
  BY FS_Interval
<1> QED
  BY <1>3, <1>4, FS_Bijection

-----------------------------------------------------------------------------
(* The stream: the records in the order of the log.                         *)

\* The offset of the record at a place.
OffsetOf(p) == p[1] + p[2] - 1

\* An idle open log: the segments are contiguous.
LEMMA Contiguous ==
  ASSUME ReadInv, Readable
  PROVE  /\ DOMAIN segs \subseteq Nat /\ active \in DOMAIN segs
         /\ \A b \in DOMAIN segs :
              /\ segs[b].next = b + Len(logf[b]) /\ Len(logf[b]) \in Nat
              /\ segs[b].next \in Nat
              /\ DOMAIN logf[b] = 1 .. Len(logf[b])
              /\ segs[b].next <= segs[active].next
         /\ \A b, c \in DOMAIN segs : b < c => segs[b].next <= c
         /\ \A o \in Nat : o < segs[active].next =>
              \E c \in DOMAIN segs : c <= o /\ o < segs[c].next
<1>t. ExactInv /\ TypeOK /\ MatchInv /\ SegmentsDisjoint /\ CoverInv /\ LoadedInv /\ ActiveInv
  BY ReadTypes DEF ReadInv, ExactInv, OrderInv
<1>1. DOMAIN segs \subseteq Nat /\ active \in DOMAIN segs /\ DOMAIN segs \subseteq DOMAIN logf
  BY <1>t DEF TypeOK, Readable
<1>2. ASSUME NEW b \in DOMAIN segs
      PROVE  /\ segs[b].next = b + Len(logf[b]) /\ Len(logf[b]) \in Nat
             /\ DOMAIN logf[b] = 1 .. Len(logf[b])
             /\ segs[b].next \in Nat
  <2>1. logf[b] \in Seq(Frame) /\ b \in Nat
    BY <1>t, SegFields
  <2> QED
    BY <1>t, <2>1 DEF MatchInv, Readable
<1>3. ASSUME NEW b \in DOMAIN segs, NEW c \in DOMAIN segs, b < c
      PROVE  segs[b].next <= c
  BY <1>t, <1>1, <1>2, <1>3 DEF SegmentsDisjoint
<1>4. ASSUME NEW b \in DOMAIN segs
      PROVE  segs[b].next <= segs[active].next
  <2>1. CASE b < active
    BY <1>1, <1>2, <1>3, <2>1
  <2>2. CASE b = active
    BY <1>1, <1>2, <2>2
  <2>3. CASE active < b
    <3>1. Leftover(b)
      BY <1>t, <1>1, <2>3 DEF ActiveInv, Readable
    <3>2. b = segs[active].next /\ Len(logf[b]) = 0
      BY <3>1 DEF Leftover
    <3> QED
      BY <1>1, <1>2, <3>2
  <2> QED
    BY <1>1, <2>1, <2>2, <2>3
<1>5. ASSUME NEW o \in Nat, o < segs[active].next
      PROVE  \E c \in DOMAIN segs : c <= o /\ o < segs[c].next
  <2>1. o \in 0 .. active + Len(logf[active]) - 1 /\ active \in DOMAIN logf
    BY <1>1, <1>2, <1>5
  <2>2. PICK c \in DOMAIN logf : c <= o /\ o < c + Len(logf[c])
    BY <1>t, <2>1 DEF CoverInv
  <2>3. logf[c] # <<>>
    <3>1. SUFFICES ASSUME Len(logf[c]) = 0 PROVE FALSE
      OBVIOUS
    <3>2. c \in Nat
      BY <1>t DEF TypeOK
    <3> QED
      BY <2>2, <3>1, <3>2
  <2>4. c \in DOMAIN segs
    BY <1>t, <2>3 DEF LoadedInv, Readable
  <2> QED
    BY <1>2, <2>2, <2>4
<1> QED
  BY <1>1, <1>2, <1>3, <1>4, <1>5

\* A place is that of a record of a segment.
LEMMA PlacesHave ==
  ASSUME NEW p
  PROVE  p \in Places <=> \E b \in DOMAIN segs : \E i \in DOMAIN logf[b] : p = <<b, i>>
  BY DEF Places

\* Places and offsets correspond, and the order of the log is that of the
\* offsets.
LEMMA PlaceOffsets ==
  ASSUME ReadInv, Readable
  PROVE  /\ \A p \in Places : OffsetOf(p) \in 0 .. segs[active].next - 1
         /\ \A p, q \in Places : q \in Before(p) <=> OffsetOf(q) < OffsetOf(p)
         /\ \A p, q \in Places : OffsetOf(p) = OffsetOf(q) => p = q
         /\ \A o \in 0 .. segs[active].next - 1 : \E p \in Places : OffsetOf(p) = o
<1> DEFINE N == segs[active].next
<1>c. /\ DOMAIN segs \subseteq Nat /\ active \in DOMAIN segs
      /\ \A b \in DOMAIN segs :
           /\ segs[b].next = b + Len(logf[b]) /\ Len(logf[b]) \in Nat
           /\ segs[b].next \in Nat
           /\ DOMAIN logf[b] = 1 .. Len(logf[b])
           /\ segs[b].next <= N
      /\ \A b, c \in DOMAIN segs : b < c => segs[b].next <= c
      /\ N \in Nat
  BY Contiguous
<1>1. ASSUME NEW p \in Places
      PROVE  /\ p[1] \in DOMAIN segs /\ p[1] \in Nat /\ p[2] \in 1 .. Len(logf[p[1]])
             /\ p[2] \in Nat
             /\ OffsetOf(p) \in Nat /\ p[1] <= OffsetOf(p) /\ OffsetOf(p) < segs[p[1]].next
             /\ segs[p[1]].next \in Nat /\ segs[p[1]].next <= N
             /\ p = <<p[1], p[2]>>
             /\ OffsetOf(p) = p[1] + p[2] - 1
  <2>1. PICK b \in DOMAIN segs : \E i \in DOMAIN logf[b] : p = <<b, i>>
    BY PlacesHave
  <2>2. PICK i \in 1 .. Len(logf[b]) : p = <<b, i>>
    BY <1>c, <2>1
  <2>3. b \in Nat /\ i \in Nat
    BY <1>c
  <2> QED
    BY <1>c, <2>2, <2>3 DEF OffsetOf
<1>2. ASSUME NEW p \in Places, NEW q \in Places, q[1] < p[1] PROVE OffsetOf(q) < OffsetOf(p)
  <2>1. segs[q[1]].next <= p[1]
    BY <1>c, <1>1, <1>2
  <2> QED
    BY <1>1, <2>1
<1>3. ASSUME NEW p \in Places, NEW q \in Places, q[1] = p[1]
      PROVE  q[2] < p[2] <=> OffsetOf(q) < OffsetOf(p)
  BY <1>1, <1>3
<1>4. ASSUME NEW p \in Places, NEW q \in Places
      PROVE  q \in Before(p) <=> OffsetOf(q) < OffsetOf(p)
  <2>1. q \in Before(p) <=> q[1] < p[1] \/ (q[1] = p[1] /\ q[2] < p[2])
    BY DEF Before
  <2>2. CASE q[1] < p[1]
    BY <1>2, <2>1, <2>2
  <2>3. CASE q[1] = p[1]
    BY <1>1, <1>3, <2>1, <2>3
  <2>4. CASE p[1] < q[1]
    <3>1. OffsetOf(p) < OffsetOf(q)
      BY <1>2, <2>4
    <3> QED
      BY <1>1, <2>1, <2>4, <3>1
  <2> QED
    BY <1>1, <2>2, <2>3, <2>4
<1>5. ASSUME NEW p \in Places, NEW q \in Places, OffsetOf(p) = OffsetOf(q) PROVE p = q
  <2>1. p[1] = q[1]
    BY <1>1, <1>2, <1>5
  <2>2. p[2] = q[2]
    BY <1>1, <1>5, <2>1
  <2> QED
    BY <1>1, <2>1, <2>2, Zenon
<1>6. ASSUME NEW o \in 0 .. N - 1 PROVE \E p \in Places : OffsetOf(p) = o
  <2>1. PICK c \in DOMAIN segs : c <= o /\ o < segs[c].next
    BY <1>c, Contiguous
  <2>2. o - c + 1 \in DOMAIN logf[c] /\ c \in Nat
    BY <1>c, <2>1
  <2>3. <<c, o - c + 1>> \in Places
    BY <2>2, PlacesHave
  <2>4. OffsetOf(<<c, o - c + 1>>) = o
    BY <2>2 DEF OffsetOf
  <2> QED
    BY <2>3, <2>4
<1>7. \A p \in Places : OffsetOf(p) \in 0 .. N - 1
  BY <1>c, <1>1
<1> HIDE DEF N
<1> QED
  BY <1>4, <1>5, <1>6, <1>7 DEF N

\* As many records come before a place as its offset says.
LEMMA PlaceCounts ==
  ASSUME ReadInv, Readable
  PROVE  /\ Cardinality(Places) = segs[active].next
         /\ \A p \in Places : Cardinality(Before(p)) = OffsetOf(p)
<1> DEFINE N == segs[active].next
<1>n. N \in Nat
  BY Contiguous
<1> HIDE DEF N
<1>1. /\ \A p \in Places : OffsetOf(p) \in 0 .. N - 1
      /\ \A p, q \in Places : q \in Before(p) <=> OffsetOf(q) < OffsetOf(p)
      /\ \A p, q \in Places : OffsetOf(p) = OffsetOf(q) => p = q
      /\ \A o \in 0 .. N - 1 : \E p \in Places : OffsetOf(p) = o
  BY PlaceOffsets DEF N
<1>2. Cardinality(Places) = N
  <2> DEFINE f == [p \in Places |-> OffsetOf(p)]
  <2>1. /\ f \in [Places -> 0 .. N - 1]
        /\ \A x, y \in Places : f[x] = f[y] => x = y
        /\ \A k \in 0 .. N - 1 : \E x \in Places : f[x] = k
    BY <1>1, Zenon
  <2> HIDE DEF f
  <2> QED
    BY <1>n, <2>1, Counted
<1>3. ASSUME NEW p \in Places PROVE Cardinality(Before(p)) = OffsetOf(p)
  <2> DEFINE n == OffsetOf(p)
             S == Before(p)
             f == [q \in S |-> OffsetOf(q)]
  <2>1. n \in Nat /\ n < N
    BY <1>n, <1>1
  <2>2. S \subseteq Places /\ \A q \in Places : q \in S <=> OffsetOf(q) < n
    BY <1>1 DEF Before
  <2> HIDE DEF n, S
  <2>3. \A q \in S : OffsetOf(q) \in 0 .. n - 1
    BY <1>n, <1>1, <2>1, <2>2
  <2>4. \A k \in 0 .. n - 1 : \E q \in S : OffsetOf(q) = k
    <3> SUFFICES ASSUME NEW k \in 0 .. n - 1 PROVE \E q \in S : OffsetOf(q) = k
      OBVIOUS
    <3>1. k \in 0 .. N - 1 /\ k < n
      BY <1>n, <2>1
    <3> QED
      BY <1>1, <2>2, <3>1
  <2>5. \E g \in [S -> 0 .. n - 1] :
          /\ \A x, y \in S : g[x] = g[y] => x = y
          /\ \A k \in 0 .. n - 1 : \E x \in S : g[x] = k
    <3>1. /\ f \in [S -> 0 .. n - 1]
          /\ \A x, y \in S : f[x] = f[y] => x = y
          /\ \A k \in 0 .. n - 1 : \E x \in S : f[x] = k
      BY <1>1, <2>2, <2>3, <2>4, Zenon
    <3> QED
      BY <3>1, Zenon
  <2>6. Cardinality(S) = n
    BY <2>1, <2>5, Counted
  <2> QED
    BY <2>6 DEF S, n
<1> QED
  BY <1>2, <1>3 DEF N

\* The place with as many records before it as an offset says is the one of
\* that offset.
LEMMA PlaceAt ==
  ASSUME ReadInv, Readable, NEW p \in Places, NEW o, o = OffsetOf(p)
  PROVE  PlaceOf(o) = p
<1>1. \A q \in Places : Cardinality(Before(q)) = o <=> q = p
  BY PlaceCounts, PlaceOffsets
<1> QED
  BY <1>1 DEF PlaceOf

\* The stream has the record of every segment at the place its offset gives.
LEMMA StreamIs ==
  ASSUME ReadInv, Readable
  PROVE  /\ Len(Stream) = segs[active].next
         /\ DOMAIN Stream = 1 .. segs[active].next
         /\ \A k \in DOMAIN Stream : Stream[k].off = k - 1
         /\ \A b \in DOMAIN segs : \A i \in DOMAIN logf[b] :
              Stream[b + i] = [off |-> b + i - 1, id |-> logf[b][i].id]
<1> DEFINE N == segs[active].next
<1>1. Stream = [k \in 1 .. N |-> [off |-> k - 1,
                                 id  |-> logf[PlaceOf(k - 1)[1]][PlaceOf(k - 1)[2]].id]]
  <2>1. Cardinality(Places) = N
    BY PlaceCounts
  <2> QED
    BY <2>1, Zenon DEF Stream
<1>2. N \in Nat
  BY Contiguous
<1>3. ASSUME NEW b \in DOMAIN segs, NEW i \in DOMAIN logf[b]
      PROVE  Stream[b + i] = [off |-> b + i - 1, id |-> logf[b][i].id]
  <2>1. <<b, i>> \in Places /\ b + i - 1 = OffsetOf(<<b, i>>)
    BY PlacesHave DEF OffsetOf
  <2>2. b \in Nat /\ i \in Nat /\ b + i \in 1 .. N
    <3>1. OffsetOf(<<b, i>>) \in 0 .. N - 1
      BY <2>1, PlaceOffsets
    <3>2. b \in Nat /\ i \in Nat
      BY Contiguous
    <3> HIDE DEF N
    <3> QED
      BY <1>2, <2>1, <3>1, <3>2
  <2>3. PlaceOf(b + i - 1) = <<b, i>>
    BY <2>1, PlaceAt, Zenon
  <2> HIDE DEF N
  <2> QED
    BY <1>1, <2>2, <2>3
<1>4. ASSUME NEW k \in 1 .. N PROVE Stream[k].off = k - 1
  BY <1>1
<1>5. DOMAIN Stream = 1 .. N /\ Len(Stream) = N
  <2> HIDE DEF N
  <2> QED
    BY <1>1, <1>2
<1> HIDE DEF N
<1> QED
  BY <1>3, <1>4, <1>5 DEF N

\* The counters are those of the stream.
LEMMA StatsHold == ReadInv /\ FirstInv => StatsExact
<1> SUFFICES ASSUME ReadInv, FirstInv, Readable
             PROVE  /\ MessageCount = Len(Stream)
                    /\ OldestOffset = 0
                    /\ Stream # <<>> => NewestOffset = Stream[Len(Stream)].off
  BY DEF StatsExact
<1> DEFINE N == segs[active].next
<1>1. /\ Len(Stream) = N /\ DOMAIN Stream = 1 .. N
      /\ \A k \in DOMAIN Stream : Stream[k].off = k - 1
  BY StreamIs
<1>2. N \in Nat /\ DOMAIN segs \subseteq Nat
  BY Contiguous
<1>3. OldestOffset = 0
  <2>1. 0 \in DOMAIN segs /\ \A x \in DOMAIN segs : 0 <= x
    BY <1>2 DEF FirstInv, Readable
  <2> QED
    BY <1>2, <2>1, MinIs DEF OldestOffset
<1>4. ASSUME Stream # <<>> PROVE NewestOffset = Stream[N].off
  <2>1. N # 0
    <3>1. SUFFICES ASSUME N = 0 PROVE Stream = <<>>
      BY <1>4
    <3>2. Stream = [k \in 1 .. Cardinality(Places) |-> Stream[k]] /\ Cardinality(Places) = 0
      BY PlaceCounts, <3>1 DEF Stream
    <3> HIDE DEF N
    <3> QED
      BY <3>2
  <2>2. N \in DOMAIN Stream /\ NewestOffset = N - 1
    BY <1>1, <1>2, <2>1 DEF NewestOffset
  <2> QED
    BY <1>1, <2>2
<1> QED
  BY <1>1, <1>3, <1>4 DEF MessageCount

-----------------------------------------------------------------------------
(* CommitLog.ReadFrom, round by round.                                      *)

\* A record that an index entry leads to, or the first of a segment, is where
\* the scan of Segment.ReadFrom starts.
LEMMA ScanStart ==
  ASSUME ReadInv, FirstInv, Readable, NEW b \in DOMAIN segs, NEW o \in Nat,
         b <= o, o < segs[b].next,
         o = b \/ \E k \in DOMAIN idxf[b] : idxf[b][k].rel = o - b
  PROVE  LET pos   == Lookup(Mapped(b), o - b)
             first == CHOOSE i \in DOMAIN logf[b] : logf[b][i].at = pos
             skip  == IF pos > 0 THEN 0 ELSE o - b
         IN  first = o - b + 1 /\ skip = 0
<1>t. ExactInv /\ TypeOK /\ MappedInv /\ FilesInv /\ EntriesInv /\ PlacesInv
  BY ReadTypes DEF ReadInv, ExactInv, OrderInv
<1> DEFINE n == o - b
<1>1. /\ b \in Nat /\ b \in DOMAIN logf /\ logf[b] \in Seq(Frame) /\ idxf[b] \in Seq(Entry)
      /\ Len(logf[b]) \in Nat /\ DOMAIN logf[b] = 1 .. Len(logf[b])
      /\ segs[b].next = b + Len(logf[b])
  BY <1>t, SegFields, Contiguous
<1>2. Mapped(b) = idxf[b]
  BY <1>t, <1>1 DEF Mapped, MappedInv
<1>3. \A i \in DOMAIN logf[b] : logf[b][i].at \in Nat
  BY <1>1, FrameFields
<1>4. n + 1 \in DOMAIN logf[b] /\ n \in Nat /\ 1 \in DOMAIN logf[b]
  BY <1>1
<1>5. logf[b][1].at = 0
  BY <1>1, <1>4 DEF FirstInv
<1> HIDE DEF n
<1>6. Lookup(idxf[b], n) = logf[b][n + 1].at
  <2>1. CASE \E k \in DOMAIN idxf[b] : idxf[b][k].rel = n
    <3>1. PICK k \in DOMAIN idxf[b] : idxf[b][k].rel = n
      BY <2>1
    <3>2. \A i, j \in DOMAIN idxf[b] : i < j => idxf[b][i].rel < idxf[b][j].rel
      BY <1>t, <1>1 DEF EntriesInv
    <3>3. Lookup(idxf[b], n) = idxf[b][k].pos
      BY <1>1, <3>1, <3>2, LookupExact
    <3> QED
      BY <1>t, <1>1, <3>1, <3>3 DEF EntriesInv
  <2>2. CASE ~ \E k \in DOMAIN idxf[b] : idxf[b][k].rel = n
    <3>1. n = 0
      BY <1>1, <2>2 DEF n
    <3>2. \A k \in DOMAIN idxf[b] : idxf[b][k].rel \in Nat
      <4>1. \A k \in DOMAIN idxf[b] : idxf[b][k] \in Entry
        BY <1>1
      <4> QED
        BY <4>1 DEF Entry
    <3>3. {k \in DOMAIN idxf[b] : idxf[b][k].rel <= n} = {}
      BY <2>2, <3>1, <3>2
    <3>4. Lookup(idxf[b], n) = 0
      BY <3>3, Zenon DEF Lookup
    <3> QED
      BY <1>5, <3>1, <3>4
  <2> QED
    BY <2>1, <2>2
<1>7. (CHOOSE i \in DOMAIN logf[b] : logf[b][i].at = logf[b][n + 1].at) = n + 1
  BY <1>1, <1>4, PlaceExact
<1>8. ~(logf[b][n + 1].at > 0) => n = 0
  <2>1. ASSUME n # 0 PROVE logf[b][1].at < logf[b][n + 1].at
    BY <1>t, <1>1, <1>4, <2>1 DEF PlacesInv
  <2> QED
    BY <1>3, <1>4, <1>5, <2>1
<1> QED
  BY <1>2, <1>6, <1>7, <1>8 DEF n

\* Segment.ReadFrom from such an offset returns the records from there on.
LEMMA SegmentFetch ==
  ASSUME ReadInv, FirstInv, Readable, NEW b \in DOMAIN segs, NEW o \in Nat, NEW m \in Nat,
         b <= o, o < segs[b].next,
         o = b \/ \E k \in DOMAIN idxf[b] : idxf[b][k].rel = o - b
  PROVE  \E n \in Nat :
           /\ n = Min({m, segs[b].next - o})
           /\ SegmentReadFrom(b, o, m) = [i \in 1 .. n |-> Stream[o + i]]
<1> DEFINE next  == segs[b].next
           l     == Len(logf[b])
           pos   == Lookup(Mapped(b), o - b)
           first == CHOOSE i \in DOMAIN logf[b] : logf[b][i].at = pos
           skip  == IF pos > 0 THEN 0 ELSE o - b
           n     == IF m <= next - o THEN m ELSE next - o
           R     == [i \in 1 .. n |-> [off |-> o + i - 1, id |-> logf[b][first + skip + i - 1].id]]
<1>1. /\ b \in Nat /\ l \in Nat /\ DOMAIN logf[b] = 1 .. l /\ next = b + l /\ next \in Nat
  BY Contiguous
<1>2. first = o - b + 1 /\ skip = 0
  BY ScanStart, Zenon
<1>3. Max({o, b}) = o
  <2>1. {o, b} \subseteq Int /\ \A x \in {o, b} : x <= o
    BY <1>1
  <2> QED
    BY <2>1, MaxIs
<1> HIDE DEF first, skip, next, l
<1>4. n \in Nat /\ n <= m /\ n <= next - o /\ n \in {m, next - o}
  BY <1>1 DEF next
<1>5. Min({m, next - o}) = n
  <2> DEFINE S == {m, next - o}
  <2>1. S \subseteq Int /\ n \in S /\ \A x \in S : n <= x
    BY <1>1, <1>4
  <2> HIDE DEF S, n
  <2>2. Min(S) = n
    BY <2>1, MinIs
  <2> QED
    BY <2>2 DEF S
<1>6. Min({m, next - o, l - (first + skip - 1)}) = n
  <2>1. l - (first + skip - 1) = next - o
    BY <1>1, <1>2
  <2>2. {m, next - o, l - (first + skip - 1)} = {m, next - o}
    BY <2>1, Zenon
  <2> HIDE DEF n
  <2> QED
    BY <1>5, <2>2, Zenon
<1>7. Max({n, 0}) = n
  <2> HIDE DEF n
  <2> QED
    BY <1>4, MaxIs
<1>8. SegmentReadFrom(b, o, m) = R
  <2>1. ~(o >= next)
    BY <1>1 DEF next
  <2> HIDE DEF n
  <2> QED
    BY <1>3, <1>6, <1>7, <2>1, Zenon DEF SegmentReadFrom, first, skip, next, l
<1>9. R = [i \in 1 .. n |-> Stream[o + i]]
  <2> SUFFICES ASSUME NEW i \in 1 .. n
               PROVE  [off |-> o + i - 1, id |-> logf[b][first + skip + i - 1].id] = Stream[o + i]
    BY Zenon
  <2> DEFINE j == o - b + i
  <2> HIDE DEF n
  <2>0. i \in Nat /\ 1 <= i /\ i <= n
    BY <1>4
  <2>1. j \in DOMAIN logf[b] /\ b + j = o + i /\ first + skip + i - 1 = j /\ b + j - 1 = o + i - 1
    <3>1. j \in 1 .. l
      BY <1>1, <1>4, <2>0
    <3>2. first + skip + i - 1 = j
      BY <1>1, <1>2, <2>0
    <3> QED
      BY <1>1, <2>0, <3>1, <3>2
  <2> HIDE DEF j
  <2>2. Stream[b + j] = [off |-> b + j - 1, id |-> logf[b][j].id]
    BY <2>1, StreamIs
  <2> QED
    BY <2>1, <2>2
<1> HIDE DEF n, R
<1> QED
  BY <1>4, <1>5, <1>8, <1>9 DEF next

\* What ReadFrom starts its rounds with.
Start(o) == [result |-> <<>>, currentOff |-> o]

\* The rounds g satisfy the equations of the loop.
Loops(g, o, m) ==
  g = [b \in Nat |-> IF b = 0 THEN Start(o) ELSE Visit(g[b - 1], b - 1, m)]

\* If the equations have a solution then what ReadFrom returns is one.
LEMMA LoopIs ==
  ASSUME NEW o, NEW m, \E f : Loops(f, o, m)
  PROVE  \E g : Loops(g, o, m) /\ ReadFrom(o, m) = g[Max(DOMAIN segs) + 1].result
<1> DEFINE g == CHOOSE h : h = [b \in Nat |-> IF b = 0 THEN Start(o) ELSE Visit(h[b - 1], b - 1, m)]
<1>1. ReadFrom(o, m) = g[Max(DOMAIN segs) + 1].result
  BY Zenon DEF ReadFrom, Start
<1>2. Loops(g, o, m)
  BY Zenon DEF Loops
<1> HIDE DEF g
<1> QED
  BY <1>1, <1>2, Zenon

\* What ReadFrom has collected from offset o on when it has n messages.
Got(o, n) == [result |-> [i \in 1 .. n |-> Stream[o + i]], currentOff |-> o + n]

\* When the segments with a base below b are visited there are n messages: either
\* enough, or the segments end there; and no later segment begins earlier.
Visited(o, m, b, n) ==
  /\ n \in 0 .. m
  /\ o + n <= segs[active].next
  /\ n = m \/ \A d \in DOMAIN segs : d < b => segs[d].next <= o + n
  /\ n > 0 => \A d \in DOMAIN segs : b <= d => o + n <= d

\* The offset o is that of a record with an index entry.
Entered(o) ==
  \E c \in DOMAIN segs :
    /\ c <= o /\ o < segs[c].next
    /\ \E k \in DOMAIN idxf[c] : idxf[c][k].rel = o - c

\* There is only one number of messages after each round.
LEMMA VisitedOnce ==
  ASSUME ReadInv, Readable, NEW o \in Nat, NEW m \in Nat, NEW b \in Nat,
         NEW x, NEW y, Visited(o, m, b, x), Visited(o, m, b, y)
  PROVE  x = y
<1>1. ASSUME NEW p, NEW q, Visited(o, m, b, p), Visited(o, m, b, q), p < q PROVE FALSE
  <2>1. /\ p \in Nat /\ q \in Nat /\ q <= m /\ p # m
        /\ \A d \in DOMAIN segs : d < b => segs[d].next <= o + p
        /\ \A d \in DOMAIN segs : b <= d => o + q <= d
        /\ o + q <= segs[active].next
    BY <1>1 DEF Visited
  <2>2. DOMAIN segs \subseteq Nat /\ active \in DOMAIN segs
        /\ \A d \in DOMAIN segs : segs[d].next \in Nat
    BY Contiguous
  <2>3. o + p \in Nat /\ o + p < segs[active].next
    BY <1>1, <2>1, <2>2
  <2>4. PICK c \in DOMAIN segs : c <= o + p /\ o + p < segs[c].next
    BY <2>3, Contiguous
  <2> QED
    BY <1>1, <2>1, <2>2, <2>4
<1>2. x \in Nat /\ y \in Nat
  BY DEF Visited
<1> QED
  BY <1>1, <1>2

\* Two runs of a function, one behind the other, are one run.
LEMMA JoinRuns ==
  ASSUME NEW f, NEW o \in Nat, NEW n \in Nat, NEW k \in Nat
  PROVE  [i \in 1 .. n |-> f[o + i]] \o [i \in 1 .. k |-> f[o + n + i]]
           = [i \in 1 .. n + k |-> f[o + i]]
<1> DEFINE V == {f[j] : j \in Nat}
           A == [i \in 1 .. n |-> f[o + i]]
           B == [i \in 1 .. k |-> f[o + n + i]]
           C == A \o B
<1>1. A \in Seq(V) /\ B \in Seq(V) /\ Len(A) = n /\ Len(B) = k
  OBVIOUS
<1>2. C \in Seq(V) /\ Len(C) = n + k
  <2> HIDE DEF A, B, V
  <2> QED
    BY <1>1
<1>3. ASSUME NEW i \in 1 .. n + k PROVE C[i] = f[o + i]
  <2>1. C[i] = IF i <= n THEN A[i] ELSE B[i - n]
    <3> HIDE DEF A, B, V
    <3> QED
      BY <1>1
  <2>2. CASE i <= n
    BY <2>1, <2>2
  <2>3. CASE ~(i <= n)
    <3>1. i - n \in 1 .. k /\ o + n + (i - n) = o + i
      BY <2>3
    <3>2. B[i - n] = f[o + n + (i - n)]
      BY <3>1
    <3> HIDE DEF B
    <3> QED
      BY <2>1, <2>3, <3>1, <3>2
  <2> QED
    BY <2>2, <2>3
<1>4. DOMAIN C = 1 .. n + k /\ C = [i \in DOMAIN C |-> C[i]]
  <2> HIDE DEF C, V
  <2> QED
    BY <1>2
<1> HIDE DEF C
<1>5. C = [i \in 1 .. n + k |-> f[o + i]]
  BY <1>3, <1>4, Zenon
<1> QED
  BY <1>5 DEF C

\* One round of the loop.
LEMMA VisitStep ==
  ASSUME ReadInv, FirstInv, Readable, NEW o \in Nat, NEW m \in Nat, NEW b \in Nat,
         NEW n, Visited(o, m, b, n), Entered(o)
  PROVE  \E k : Visited(o, m, b + 1, k) /\ Visit(Got(o, n), b, m) = Got(o, k)
<1> DEFINE acc == Got(o, n)
           R   == [i \in 1 .. n |-> Stream[o + i]]
           N   == segs[active].next
<1>v. /\ n \in Nat /\ n <= m /\ o + n <= N
      /\ n = m \/ \A d \in DOMAIN segs : d < b => segs[d].next <= o + n
      /\ n > 0 => \A d \in DOMAIN segs : b <= d => o + n <= d
  BY DEF Visited
<1>c. /\ DOMAIN segs \subseteq Nat /\ active \in DOMAIN segs
      /\ \A d \in DOMAIN segs : segs[d].next \in Nat /\ segs[d].next <= N /\ d <= segs[d].next
      /\ \A d, c \in DOMAIN segs : d < c => segs[d].next <= c
      /\ N \in Nat
  BY Contiguous
<1>1. /\ acc.result = R /\ acc.currentOff = o + n
      /\ Len(acc.result) = n
  <2>1. Len(R) = n
    BY <1>v
  <2> HIDE DEF R
  <2> QED
    BY <2>1 DEF Got, R
<1> HIDE DEF acc, R
<1>2. CASE b \notin DOMAIN segs \/ n >= m \/ segs[b].next <= o + n
  <2>1. Visit(acc, b, m) = acc
    BY <1>1, <1>2 DEF Visit
  <2>2. Visited(o, m, b + 1, n)
    <3>1. n = m \/ \A d \in DOMAIN segs : d < b + 1 => segs[d].next <= o + n
      BY <1>v, <1>c, <1>2
    <3>2. n > 0 => \A d \in DOMAIN segs : b + 1 <= d => o + n <= d
      BY <1>v, <1>c
    <3> QED
      BY <1>v, <3>1, <3>2 DEF Visited
  <2> QED
    BY <2>1, <2>2 DEF acc
<1>3. CASE ~(b \notin DOMAIN segs \/ n >= m \/ segs[b].next <= o + n)
  <2>1. /\ b \in DOMAIN segs /\ n < m /\ o + n < segs[b].next /\ segs[b].next \in Nat
        /\ \A d \in DOMAIN segs : d < b => segs[d].next <= o + n
    BY <1>v, <1>c, <1>3
  <2>2. ASSUME NEW c \in DOMAIN segs, c <= o + n, o + n < segs[c].next PROVE c = b
    <3>1. ~(c < b)
      BY <1>v, <1>c, <2>1, <2>2
    <3>2. ~(b < c)
      BY <1>v, <1>c, <2>1, <2>2
    <3> QED
      BY <1>c, <3>1, <3>2
  <2>3. b <= o + n
    <3>1. o + n \in Nat /\ o + n < N
      BY <1>v, <1>c, <2>1
    <3>2. PICK c \in DOMAIN segs : c <= o + n /\ o + n < segs[c].next
      BY <3>1, Contiguous
    <3> QED
      BY <2>2, <3>2
  <2> DEFINE e == o + n
  <2>4. e = b \/ \E k \in DOMAIN idxf[b] : idxf[b][k].rel = e - b
    <3>1. CASE n > 0
      BY <1>v, <1>c, <2>1, <2>3, <3>1
    <3>2. CASE n = 0
      <4>1. PICK c \in DOMAIN segs :
              /\ c <= o /\ o < segs[c].next
              /\ \E k \in DOMAIN idxf[c] : idxf[c][k].rel = o - c
        BY DEF Entered
      <4>2. o + n = o
        BY <3>2
      <4>3. c = b
        BY <2>2, <4>1, <4>2
      <4>4. \E k \in DOMAIN idxf[b] : idxf[b][k].rel = o - b
        BY <4>1, <4>3
      <4>5. e - b = o - b
        BY <4>2
      <4> QED
        BY <4>4, <4>5, Zenon
    <3> QED
      BY <1>v, <3>1, <3>2
  <2> DEFINE msgs == SegmentReadFrom(b, e, m - n)
  <2>5. e \in Nat /\ m - n \in Nat /\ b <= e /\ e < segs[b].next
    BY <1>v, <2>1, <2>3
  <2>6. PICK k \in Nat : /\ k = Min({m - n, segs[b].next - e})
                         /\ msgs = [i \in 1 .. k |-> Stream[e + i]]
    <3> HIDE DEF e
    <3> QED
      BY <2>1, <2>4, <2>5, SegmentFetch, Zenon
  <2>7. /\ k <= m - n /\ k <= segs[b].next - e
        /\ k = m - n \/ k = segs[b].next - e
    <3> DEFINE p == m - n
               q == segs[b].next - e
    <3>1. p \in Int /\ q \in Int
      BY <2>1, <2>5
    <3> HIDE DEF p, q
    <3>2. CASE p <= q
      <4>1. Min({p, q}) = p
        <5>1. {p, q} \subseteq Int /\ \A x \in {p, q} : p <= x
          BY <3>1, <3>2
        <5> QED
          BY <5>1, MinIs
      <4> QED
        BY <2>6, <3>1, <3>2, <4>1 DEF p, q
    <3>3. CASE ~(p <= q)
      <4>1. Min({p, q}) = q
        <5>1. {p, q} \subseteq Int /\ \A x \in {p, q} : q <= x
          BY <3>1, <3>3
        <5> QED
          BY <5>1, MinIs
      <4> QED
        BY <2>6, <3>1, <3>3, <4>1 DEF p, q
    <3> QED
      BY <3>2, <3>3
  <2> HIDE DEF e, msgs
  <2>8. Len(msgs) = k
    BY <2>6
  <2>9. R \o msgs = [i \in 1 .. n + k |-> Stream[o + i]]
    <3>1. msgs = [i \in 1 .. k |-> Stream[o + n + i]]
      BY <2>6 DEF e
    <3> QED
      BY <1>v, <3>1, JoinRuns DEF R
  <2>10. Visit(acc, b, m) = Got(o, n + k)
    <3>1. Visit(acc, b, m) = [result |-> R \o msgs, currentOff |-> o + n + k]
      BY <1>1, <1>3, <2>8, Zenon DEF Visit, msgs, e
    <3>2. o + n + k = o + (n + k)
      BY <1>v
    <3> QED
      BY <2>9, <3>1, <3>2, Zenon DEF Got
  <2>11. Visited(o, m, b + 1, n + k)
    <3>1. n + k \in 0 .. m /\ o + (n + k) <= segs[b].next /\ o + (n + k) <= N
      BY <1>v, <1>c, <2>1, <2>7 DEF e
    <3>2. n + k = m \/ o + (n + k) = segs[b].next
      BY <1>v, <1>c, <2>1, <2>7 DEF e
    <3>3. ASSUME o + (n + k) = segs[b].next, NEW d \in DOMAIN segs, d < b + 1
          PROVE  segs[d].next <= o + (n + k)
      BY <1>v, <1>c, <2>1, <3>3
    <3>4. ASSUME NEW d \in DOMAIN segs, b + 1 <= d PROVE o + (n + k) <= d
      <4>1. segs[b].next <= d
        BY <1>c, <2>1, <3>4
      <4> QED
        BY <1>v, <1>c, <2>1, <3>1, <4>1
    <3> QED
      BY <3>1, <3>2, <3>3, <3>4 DEF Visited
  <2> QED
    BY <2>10, <2>11 DEF acc
<1> QED
  BY <1>2, <1>3

\* A subsequence is a run of the sequence.
LEMMA SubSeqRun ==
  ASSUME NEW s, NEW o \in Nat, NEW n \in Nat
  PROVE  SubSeq(s, o + 1, o + n) = [i \in 1 .. n |-> s[o + i]]
<1> DEFINE V == {s[k] : k \in Nat}
           C == SubSeq(s, o + 1, o + n)
<1>1. \A i \in o + 1 .. o + n : s[i] \in V
  OBVIOUS
<1> HIDE DEF V
<1>2. /\ C \in Seq(V)
      /\ Len(C) = IF o + 1 <= o + n THEN (o + n) - (o + 1) + 1 ELSE 0
      /\ \A i \in 1 .. (o + n) - (o + 1) + 1 : C[i] = s[(o + 1) + i - 1]
  <2>1. o + 1 \in Int /\ o + n \in Int
    OBVIOUS
  <2> QED
    BY <1>1, <2>1, SubSeqProperties
<1> HIDE DEF C
<1>3. Len(C) = n /\ \A i \in 1 .. n : C[i] = s[o + i]
  <2>1. (o + n) - (o + 1) + 1 = n /\ (~(o + 1 <= o + n) => n = 0)
    OBVIOUS
  <2>2. \A i \in 1 .. n : (o + 1) + i - 1 = o + i
    OBVIOUS
  <2> QED
    BY <1>2, <2>1, <2>2
<1>4. DOMAIN C = 1 .. n /\ C = [i \in DOMAIN C |-> C[i]]
  BY <1>2, <1>3
<1>5. C = [i \in 1 .. n |-> s[o + i]]
  BY <1>3, <1>4, Zenon
<1> QED
  BY <1>5 DEF C

\* The segments of an idle open log have a last one.
LEMMA LastSegment ==
  ASSUME ReadInv, Readable
  PROVE  Max(DOMAIN segs) \in Nat /\ \A b \in DOMAIN segs : b <= Max(DOMAIN segs)
<1>1. DOMAIN segs \subseteq Nat /\ active \in DOMAIN segs /\ DOMAIN segs \subseteq DOMAIN logf
  BY ReadTypes DEF TypeOK, Readable
<1>2. \A c \in DOMAIN segs : c <= active \/ c = segs[active].next
  BY <1>1, ReadTypes DEF OrderInv, ActiveInv, Leftover, Readable
<1>3. PICK top \in DOMAIN segs : \A c \in DOMAIN segs : c <= top
  BY <1>1, <1>2
<1>4. Max(DOMAIN segs) = top
  BY <1>1, <1>3, MaxIs
<1> QED
  BY <1>1, <1>3, <1>4

\* Every round of the loop has a number of messages, and the rounds are those of
\* ReadFrom.
LEMMA LoopVisits ==
  ASSUME ReadInv, FirstInv, Readable, NEW o \in Nat, NEW m \in Nat, Entered(o)
  PROVE  \E n : /\ Visited(o, m, Max(DOMAIN segs) + 1, n)
                /\ ReadFrom(o, m) = [i \in 1 .. n |-> Stream[o + i]]
<1> DEFINE num(b) == CHOOSE n : Visited(o, m, b, n)
           f == [b \in Nat |-> Got(o, num(b))]
<1>1. Got(o, 0) = Start(o) /\ Visited(o, m, 0, 0)
  <2>1. [i \in 1 .. 0 |-> Stream[o + i]] = <<>>
    OBVIOUS
  <2>2. o + 0 = o
    OBVIOUS
  <2>3. o <= segs[active].next /\ DOMAIN segs \subseteq Nat
    BY Contiguous DEF Entered
  <2>4. Visited(o, m, 0, 0)
    BY <2>3 DEF Visited
  <2> QED
    BY <2>1, <2>2, <2>4 DEF Got, Start
<1>2. ASSUME NEW b \in Nat PROVE \E n : Visited(o, m, b, n)
  <2> DEFINE T == {x \in Nat : \E n : Visited(o, m, x, n)}
  <2>1. T \in SUBSET Nat /\ 0 \in T
    BY <1>1
  <2>2. ASSUME NEW x \in T PROVE x + 1 \in T
    BY <2>2, VisitStep
  <2> HIDE DEF T
  <2>3. T = Nat
    BY <2>1, <2>2, AllNat
  <2> QED
    BY <2>3 DEF T
<1>3. ASSUME NEW b \in Nat PROVE Visited(o, m, b, num(b))
  BY <1>2, Zenon
<1>4. ASSUME NEW b \in Nat, NEW n, Visited(o, m, b, n) PROVE num(b) = n
  <2> HIDE DEF num
  <2> QED
    BY <1>3, <1>4, VisitedOnce
<1> HIDE DEF num
<1>5. ASSUME NEW b \in Nat PROVE Visit(Got(o, num(b)), b, m) = Got(o, num(b + 1))
  <2>1. PICK k : Visited(o, m, b + 1, k) /\ Visit(Got(o, num(b)), b, m) = Got(o, k)
    BY <1>3, VisitStep
  <2>2. num(b + 1) = k
    BY <1>4, <2>1
  <2> QED
    BY <2>1, <2>2
<1>6. Loops(f, o, m)
  <2>1. ASSUME NEW b \in Nat
        PROVE  f[b] = IF b = 0 THEN Start(o) ELSE Visit(f[b - 1], b - 1, m)
    <3>1. f[b] = Got(o, num(b))
      OBVIOUS
    <3>2. CASE b = 0
      <4>1. num(0) = 0
        BY <1>1, <1>4
      <4> QED
        BY <1>1, <3>1, <3>2, <4>1
    <3>3. CASE b # 0
      <4>1. b - 1 \in Nat /\ (b - 1) + 1 = b
        BY <3>3
      <4>2. f[b - 1] = Got(o, num(b - 1))
        BY <4>1
      <4> HIDE DEF f
      <4> QED
        BY <1>5, <3>1, <3>3, <4>1, <4>2
    <3> QED
      BY <3>2, <3>3
  <2>2. f = [b \in Nat |-> f[b]]
    OBVIOUS
  <2> HIDE DEF f
  <2> QED
    BY <2>1, <2>2, Zenon DEF Loops
<1> HIDE DEF f
<1>7. PICK g : Loops(g, o, m) /\ ReadFrom(o, m) = g[Max(DOMAIN segs) + 1].result
  BY <1>6, LoopIs, Zenon
<1>8. ASSUME NEW b \in Nat PROVE g[b] = Got(o, num(b))
  <2> DEFINE T == {x \in Nat : g[x] = Got(o, num(x))}
  <2>1. \A x \in Nat : g[x] = IF x = 0 THEN Start(o) ELSE Visit(g[x - 1], x - 1, m)
    BY <1>7, Zenon DEF Loops
  <2>2. T \in SUBSET Nat /\ 0 \in T
    <3>1. num(0) = 0
      BY <1>1, <1>4
    <3> QED
      BY <1>1, <2>1, <3>1
  <2>3. ASSUME NEW x \in T PROVE x + 1 \in T
    <3>1. x + 1 \in Nat /\ x + 1 # 0 /\ (x + 1) - 1 = x
      OBVIOUS
    <3>2. g[x + 1] = Visit(g[x], x, m)
      BY <2>1, <3>1
    <3> QED
      BY <1>5, <3>1, <3>2
  <2> HIDE DEF T
  <2>4. T = Nat
    BY <2>2, <2>3, AllNat
  <2> QED
    BY <2>4 DEF T
<1>9. Max(DOMAIN segs) + 1 \in Nat
  BY LastSegment
<1>10. g[Max(DOMAIN segs) + 1].result = [i \in 1 .. num(Max(DOMAIN segs) + 1) |-> Stream[o + i]]
  <2>1. \A n : Got(o, n).result = [i \in 1 .. n |-> Stream[o + i]]
    BY DEF Got
  <2> QED
    BY <1>8, <1>9, <2>1, Zenon
<1> QED
  BY <1>3, <1>7, <1>9, <1>10

\* A fetch from the offset of an acknowledged record returns the stream from there.
LEMMA FetchHolds == ReadInv /\ FirstInv => FetchFromAcked
<1> SUFFICES ASSUME ReadInv, FirstInv, Readable, NEW a \in acked, NEW m \in FetchSizes
             PROVE  ReadFrom(a.off, m) =
                      SubSeq(Stream, a.off + 1, Min({a.off + m, Len(Stream)}))
  BY DEF FetchFromAcked
<1>t. ExactInv /\ TypeOK /\ AckedIndexed /\ LoadedInv
  BY ReadTypes DEF ReadInv, ExactInv
<1> DEFINE o == a.off
           N == segs[active].next
<1>1. o \in Nat /\ m \in Nat
  BY <1>t, FetchAssumption DEF TypeOK
<1>2. Entered(o)
  <2>1. PICK b \in DOMAIN logf : \E i \in DOMAIN idxf[b] :
          b + idxf[b][i].rel = o /\ idxf[b][i].rel + 1 \in DOMAIN logf[b]
    BY <1>t DEF AckedIndexed
  <2>2. PICK i \in DOMAIN idxf[b] :
          b + idxf[b][i].rel = o /\ idxf[b][i].rel + 1 \in DOMAIN logf[b]
    BY <2>1
  <2>3. b \in DOMAIN segs
    <3>1. logf[b] # <<>>
      BY <2>2
    <3> QED
      BY <1>t, <3>1 DEF LoadedInv, Readable
  <2>4. idxf[b][i].rel \in Nat
    <3>1. idxf[b] \in Seq(Entry)
      BY <1>t, <2>3, SegFields
    <3>2. idxf[b][i] \in Entry
      BY <3>1
    <3> QED
      BY <3>2 DEF Entry
  <2>5. b \in Nat /\ segs[b].next = b + Len(logf[b]) /\ DOMAIN logf[b] = 1 .. Len(logf[b])
        /\ Len(logf[b]) \in Nat
    BY <2>3, Contiguous
  <2>6. idxf[b][i].rel = o - b /\ b <= o /\ o < segs[b].next
    <3> DEFINE r == idxf[b][i].rel
               l == Len(logf[b])
    <3>1. r \in Nat /\ b + r = o /\ r + 1 \in 1 .. l /\ l \in Nat /\ segs[b].next = b + l
      BY <2>2, <2>4, <2>5
    <3> HIDE DEF r, l
    <3>2. r = o - b /\ b <= o /\ o < segs[b].next
      BY <2>5, <3>1
    <3> QED
      BY <3>2 DEF r
  <2> QED
    BY <2>3, <2>6 DEF Entered
<1> HIDE DEF o
<1>3. PICK n : /\ Visited(o, m, Max(DOMAIN segs) + 1, n)
               /\ ReadFrom(o, m) = [i \in 1 .. n |-> Stream[o + i]]
  BY <1>1, <1>2, LoopVisits
<1>4. n \in Nat /\ n <= m /\ o + n <= N /\ (n = m \/ N <= o + n) /\ N \in Nat
  <2>1. active \in DOMAIN segs /\ N \in Nat /\ active \in Nat
    BY Contiguous
  <2>2. active < Max(DOMAIN segs) + 1
    BY <2>1, LastSegment
  <2> QED
    BY <1>1, <1>3, <2>1, <2>2 DEF Visited
<1>5. Len(Stream) = N
  BY StreamIs
<1> HIDE DEF N
<1>6. Min({o + m, N}) = o + n
  <2>1. {o + m, N} \subseteq Int /\ o + n \in {o + m, N} /\ \A x \in {o + m, N} : o + n <= x
    BY <1>1, <1>4
  <2> DEFINE S == {o + m, N}
  <2> HIDE DEF S
  <2> QED
    BY <2>1, MinIs
<1>7. SubSeq(Stream, o + 1, o + n) = [i \in 1 .. n |-> Stream[o + i]]
  BY <1>1, <1>4, SubSeqRun
<1>8. ReadFrom(o, m) = SubSeq(Stream, o + 1, Min({o + m, Len(Stream)}))
  BY <1>3, <1>5, <1>6, <1>7
<1> QED
  BY <1>8 DEF o

-----------------------------------------------------------------------------
(* The theorems.                                                            *)

\* The inductive invariant holds in every reachable state if only crashes,
\* failed log writes and failed rolls happen.
THEOREM ReadInvariant == ASSUME Benign PROVE Spec => []ReadInv
<1>1. ReadInv /\ [Next]_vars => ReadInv'
  BY ReadStep
<1> QED
  BY <1>1, ReadInit, PTL DEF Spec

\* Under these failures, segment files, indexes, rolls, failed Appends, crashes
\* and the recovery scan together implement the log a partition promises
\* (log.go:20-87, segment.go:31-120), for every segment size, all record sizes
\* and any number of Appends.
THEOREM LogImplemented == ASSUME Benign PROVE Spec => ImplementsLog
<1>1. Init => Log!Init
  BY InitImplements
<1>2. ReadInv /\ ReadInv' /\ [Next]_vars => [Log!Next]_(Log!vars)
  BY StepImplements
<1> QED
  BY <1>1, <1>2, ReadInvariant, PTL DEF Spec, ImplementsLog, Log!Spec

\* Under the same failures, a successful Append can be read back at the offset it
\* returned, from then on, across segment rolls, crashes and restarts
\* (log.go:89-104).
THEOREM AckedIsReadable == ASSUME Benign PROVE Spec => []AckedReadable
  BY ReadInvariant, ReadsBack, PTL

\* Under the failures of ReadInvariant the counters describe the log: as many
\* messages as there are records in all segments together, the oldest and the
\* newest offset those of its first and last record (log.go:130-149).
THEOREM StatsAreExact == ASSUME Benign PROVE Spec => []StatsExact
  BY ReadInvariant, FirstInvariant, StatsHold, PTL

\* Under the same failures, a fetch of any size that starts at the offset of a
\* successful Append returns the records of the log from there on, in order,
\* none twice and none left out, however many segments it crosses
\* (log.go:106-128, segment.go:136-203).
THEOREM FetchesAreExact == ASSUME Benign PROVE Spec => []FetchFromAcked
  BY ReadInvariant, FirstInvariant, FetchHolds, PTL
=============================================================================
