-------------------------- MODULE CommitLogProofs --------------------------
(***************************************************************************)
(* Proofs about CommitLog for every segment size, every set of record      *)
(* sizes, every set of failures and every number of Appends.               *)
(***************************************************************************)
EXTENDS CommitLog, FiniteSetTheorems, TLAPS

-----------------------------------------------------------------------------
(* Lemmas about the operators on files.                                     *)

\* The fields of a frame of a log file.
LEMMA FrameFields ==
  ASSUME NEW f \in Seq(Frame), NEW i \in DOMAIN f
  PROVE  /\ f[i] \in Frame
         /\ f[i].at \in Nat /\ f[i].size \in Nat
         /\ f[i].kept \in Nat /\ f[i].id \in Nat
<1>1. f[i] \in Frame
  OBVIOUS
<1> QED
  BY <1>1 DEF Frame

\* A file ends at a natural position.
LEMMA FileEndType ==
  ASSUME NEW f \in Seq(Frame)
  PROVE  FileEnd(f) \in Nat
<1>1. CASE f = <<>>
  BY <1>1 DEF FileEnd
<1>2. CASE f # <<>>
  <2>1. Len(f) \in DOMAIN f
    BY <1>2
  <2>2. f[Len(f)].at \in Nat /\ f[Len(f)].kept \in Nat
    BY <2>1, FrameFields
  <2> QED
    BY <1>2, <2>2 DEF FileEnd
<1> QED
  BY <1>1, <1>2

\* The scan counts a natural number of messages.
LEMMA RecoveredCountsType ==
  ASSUME NEW f \in Seq(Frame)
  PROVE  RecoveredCounts(f) \subseteq Nat
<1> DEFINE torn == {i \in DOMAIN f : ~Whole(f[i])}
<1>1. CASE torn = {}
  BY <1>1 DEF RecoveredCounts
<1>2. CASE torn # {}
  <2>1. RecoveredCounts(f) \subseteq 1 .. Len(f) + FileEnd(f)
    BY <1>2, Zenon DEF RecoveredCounts
  <2>2. Len(f) \in Nat /\ FileEnd(f) \in Nat
    BY FileEndType
  <2> QED
    BY <2>1, <2>2
<1> QED
  BY <1>1, <1>2

\* Opening a file keeps the contents of every file and adds an empty one.
LEMMA CreatedType ==
  ASSUME NEW S, NEW files, NEW b \in Nat,
         DOMAIN files \subseteq Nat, files \in [DOMAIN files -> Seq(S)]
  PROVE  /\ DOMAIN Created(files, b) = DOMAIN files \union {b}
         /\ DOMAIN Created(files, b) \subseteq Nat
         /\ Created(files, b) \in [DOMAIN files \union {b} -> Seq(S)]
         /\ \A x \in DOMAIN files : Created(files, b)[x] = files[x]
         /\ Created(files, b)[b] = IF b \in DOMAIN files THEN files[b] ELSE <<>>
  BY DEF Created

\* The directory of a new partition gets one empty file.
LEMMA CreatedInEmpty ==
  ASSUME NEW S, NEW files, DOMAIN files = {}
  PROVE  /\ DOMAIN Created(files, 0) = {0}
         /\ Created(files, 0) \in [{0} -> Seq(S)]
         /\ Created(files, 0)[0] = <<>>
<1>1. Created(files, 0) = [x \in {0} |-> <<>>]
  BY DEF Created
<1>2. <<>> \in Seq(S)
  OBVIOUS
<1> QED
  BY <1>1, <1>2

\* NewSegment returns a segment that does not count down from its base.
LEMMA NewSegmentType ==
  ASSUME NEW b \in Nat, NEW f \in Seq(Frame), NEW x \in Seq(Entry), NEW n \in Nat
  PROVE  NewSegment(b, f, x, n) \in SegmentState
<1>1. FileEnd(f) \in Nat /\ Len(x) \in Nat /\ b + n \in Nat
  BY FileEndType
<1> QED
  BY <1>1 DEF NewSegment, SegmentState

\* The fields of the active segment and of the running Append.
LEMMA ActiveFields ==
  ASSUME TypeOK, running
  PROVE  /\ active \in DOMAIN segs /\ active \in DOMAIN logf
         /\ logf[active] \in Seq(Frame) /\ idxf[active] \in Seq(Entry)
         /\ segs[active] \in SegmentState
         /\ segs[active].next \in Nat /\ segs[active].size \in Nat
         /\ segs[active].mapped \in Nat \union {Dangling}
<1>1. active \in DOMAIN segs /\ active \in DOMAIN logf
  BY DEF TypeOK
<1>2. logf[active] \in Seq(Frame) /\ idxf[active] \in Seq(Entry)
  BY <1>1 DEF TypeOK
<1>3. segs[active] \in SegmentState
  BY <1>1 DEF TypeOK
<1> QED
  BY <1>1, <1>2, <1>3 DEF SegmentState

\* The fields of the running Append.
LEMMA PendFields ==
  ASSUME TypeOK
  PROVE  /\ pend.id \in Nat /\ pend.size \in Nat
         /\ pend.stage \in {"idle", "write", "index"}
         /\ pend.stage # "idle" => running
<1>1. pend \in Pending
  BY DEF TypeOK
<1>2. Idle.stage = "idle"
  BY DEF Idle
<1> QED
  BY <1>1, <1>2 DEF Pending, TypeOK

-----------------------------------------------------------------------------
(* Type correctness.                                                        *)

\* What file.Write of k bytes of the pending record does to the log files.
LEMMA WrittenType ==
  ASSUME TypeOK, running, NEW k \in Nat
  PROVE  LET fr == [at |-> FileEnd(logf[active]), size |-> pend.size,
                    kept |-> k, id |-> pend.id]
         IN  /\ fr \in Frame
             /\ Written(k) \in [DOMAIN logf -> Seq(Frame)]
             /\ DOMAIN Written(k) = DOMAIN logf
             /\ Written(k)[active] = Append(logf[active], fr)
             /\ \A b \in DOMAIN logf : b # active => Written(k)[b] = logf[b]
<1> DEFINE fr == [at |-> FileEnd(logf[active]), size |-> pend.size,
                  kept |-> k, id |-> pend.id]
<1>1. fr \in Frame
  BY ActiveFields, PendFields, FileEndType DEF Frame
<1>2. Append(logf[active], fr) \in Seq(Frame)
  BY <1>1, ActiveFields
<1>3. Written(k) = [logf EXCEPT ![active] = Append(logf[active], fr)]
  BY DEF Written
<1>4. logf \in [DOMAIN logf -> Seq(Frame)] /\ active \in DOMAIN logf
  BY ActiveFields DEF TypeOK
<1> HIDE DEF fr
<1>5. /\ Written(k) \in [DOMAIN logf -> Seq(Frame)]
      /\ DOMAIN Written(k) = DOMAIN logf
      /\ Written(k)[active] = Append(logf[active], fr)
      /\ \A b \in DOMAIN logf : b # active => Written(k)[b] = logf[b]
  BY <1>2, <1>3, <1>4
<1> QED
  BY <1>1, <1>5 DEF fr

\* What Index.file.WriteAt does to the index files, given that the entry is
\* well formed.
LEMMA IndexWrittenType ==
  ASSUME TypeOK, running, IndexWritten, NewEntry \in Entry
  PROVE  /\ idxf' \in [DOMAIN logf -> Seq(Entry)]
         /\ DOMAIN idxf' = DOMAIN idxf
         /\ idxf'[active] = Append(idxf[active], NewEntry)
         /\ \A b \in DOMAIN idxf : b # active => idxf'[b] = idxf[b]
<1>1. Append(idxf[active], NewEntry) \in Seq(Entry)
  BY ActiveFields
<1>2. idxf \in [DOMAIN logf -> Seq(Entry)] /\ active \in DOMAIN logf
  BY ActiveFields DEF TypeOK
<1>3. idxf' = [idxf EXCEPT ![active] = Append(idxf[active], NewEntry)]
  BY DEF IndexWritten
<1> QED
  BY <1>1, <1>2, <1>3

\* The entry of the running Append is well formed.
LEMMA NewEntryType ==
  ASSUME TypeOK, running
  PROVE  NewEntry \in Entry
<1>1. active <= segs[active].next /\ active \in Nat
  BY ActiveFields DEF TypeOK
<1> QED
  BY <1>1, ActiveFields DEF NewEntry, Entry

\* The empty partition has the right shapes.
LEMMA TypeInit == Init => TypeOK
<1> SUFFICES ASSUME Init PROVE TypeOK
  OBVIOUS
<1>1. DOMAIN logf = {} /\ DOMAIN segs = {} /\ DOMAIN idxf = {}
  BY DEF Init
<1>2. logf \in [DOMAIN logf -> Seq(Frame)] /\ idxf \in [DOMAIN logf -> Seq(Entry)]
  BY <1>1 DEF Init
<1>3. segs \in [DOMAIN segs -> SegmentState]
  BY <1>1 DEF Init
<1>4. pend \in Pending /\ pend = Idle
  BY DEF Init, Idle, Pending
<1>5. running \in BOOLEAN /\ ~running
  BY Zenon DEF Init
<1> QED
  BY <1>1, <1>2, <1>3, <1>4, <1>5 DEF Init, TypeOK

\* Closing keeps the shapes.
LEMMA ClosedType ==
  ASSUME TypeOK, Closed, UNCHANGED <<disk, nextId, acked, failed>>
  PROVE  TypeOK'
  BY DEF TypeOK, Closed, disk, Idle, Pending

\* Returning an error keeps the shapes.
LEMMA FailType ==
  ASSUME TypeOK, Fail
  PROVE  failed' \subseteq Nat /\ pend' \in Pending /\ pend' = Idle
  BY PendFields DEF Fail, TypeOK, Idle, Pending

\* Adding or replacing one segment.
LEMMA SegmentAdded ==
  ASSUME TypeOK, NEW b \in Nat, NEW s \in SegmentState, b <= s.next,
         segs' = [x \in DOMAIN segs \union {b} |-> IF x = b THEN s ELSE segs[x]]
  PROVE  /\ segs' \in [DOMAIN segs' -> SegmentState]
         /\ DOMAIN segs' = DOMAIN segs \union {b}
         /\ \A x \in DOMAIN segs' : x <= segs'[x].next
  BY DEF TypeOK

\* Changing the active segment keeps the shapes of the segments.
LEMMA SegmentReplaced ==
  ASSUME TypeOK, running, NEW s \in SegmentState, active <= s.next,
         segs' = [segs EXCEPT ![active] = s]
  PROVE  /\ segs' \in [DOMAIN segs -> SegmentState]
         /\ DOMAIN segs' = DOMAIN segs
         /\ segs'[active] = s
         /\ \A b \in DOMAIN segs : b # active => segs'[b] = segs[b]
         /\ \A b \in DOMAIN segs : b <= segs'[b].next
<1>1. active \in DOMAIN segs /\ segs \in [DOMAIN segs -> SegmentState]
  BY ActiveFields DEF TypeOK
<1>2. /\ segs' \in [DOMAIN segs -> SegmentState]
      /\ DOMAIN segs' = DOMAIN segs
      /\ segs'[active] = s
      /\ \A b \in DOMAIN segs : b # active => segs'[b] = segs[b]
  BY <1>1
<1>3. ASSUME NEW b \in DOMAIN segs PROVE b <= segs'[b].next
  <2>1. CASE b = active
    BY <1>2, <2>1
  <2>2. CASE b # active
    BY <1>2, <2>2 DEF TypeOK
  <2> QED
    BY <2>1, <2>2
<1> QED
  BY <1>2, <1>3

\* NewCommitLog keeps the shapes.
LEMMA TypeOpen == ASSUME TypeOK, Open PROVE TypeOK'
<1> DEFINE dir   == IF DOMAIN logf = {} THEN Created(logf, 0) ELSE logf
           xdir  == IF DOMAIN logf = {} THEN Created(idxf, 0) ELSE idxf
           bases == DOMAIN dir
<1>1. /\ bases \subseteq Nat
      /\ dir \in [bases -> Seq(Frame)]
      /\ xdir \in [bases -> Seq(Entry)]
  <2>1. CASE DOMAIN logf = {}
    <3>1. DOMAIN idxf = {}
      BY <2>1 DEF TypeOK
    <3>2. /\ DOMAIN Created(logf, 0) = {0}
          /\ Created(logf, 0) \in [{0} -> Seq(Frame)]
      BY <2>1, CreatedInEmpty
    <3>3. Created(idxf, 0) \in [{0} -> Seq(Entry)]
      BY <3>1, CreatedInEmpty
    <3> QED
      BY <2>1, <3>2, <3>3
  <2>2. CASE DOMAIN logf # {}
    BY <2>2 DEF TypeOK
  <2> QED
    BY <2>1, <2>2
<1>2. logf' = dir /\ idxf' = xdir
  BY DEF Open
<1>3. PICK n \in [bases -> UNION {RecoveredCounts(dir[b]) : b \in bases}] :
        /\ \A b \in bases : n[b] \in RecoveredCounts(dir[b])
        /\ segs' = [b \in bases |-> NewSegment(b, dir[b], xdir[b], n[b])]
  BY DEF Open
<1>4. PICK top \in bases : active' = top
  BY DEF Open
<1>5. running' = TRUE /\ UNCHANGED <<pend, nextId, acked, failed>>
  BY DEF Open
<1> HIDE DEF dir, xdir, bases
<1>6. \A b \in bases : b \in Nat /\ dir[b] \in Seq(Frame) /\ xdir[b] \in Seq(Entry)
  BY <1>1
<1>7. \A b \in bases : n[b] \in Nat
  BY <1>3, <1>6, RecoveredCountsType
<1>8. \A b \in bases : segs'[b] \in SegmentState /\ b <= segs'[b].next
  <2> SUFFICES ASSUME NEW b \in bases
               PROVE  segs'[b] \in SegmentState /\ b <= segs'[b].next
    OBVIOUS
  <2>1. segs'[b] = NewSegment(b, dir[b], xdir[b], n[b])
    BY <1>3
  <2>2. NewSegment(b, dir[b], xdir[b], n[b]) \in SegmentState
    BY <1>6, <1>7, NewSegmentType
  <2>3. segs'[b].next = b + n[b]
    BY <2>1 DEF NewSegment
  <2> QED
    BY <1>6, <1>7, <2>1, <2>2, <2>3
<1>9. DOMAIN segs' = bases /\ segs' \in [bases -> SegmentState]
  BY <1>3, <1>8
<1>10. DOMAIN logf' = bases
  BY <1>2 DEF bases
<1> QED
  BY <1>1, <1>2, <1>4, <1>5, <1>8, <1>9, <1>10 DEF TypeOK

\* The beginning of an Append keeps the shapes.
LEMMA TypeBegin ==
  ASSUME TypeOK, NEW sz \in Sizes, Begin(sz)
  PROVE  /\ running /\ running' /\ pend' \in Pending /\ pend'.stage = "write"
         /\ nextId' \in Nat /\ UNCHANGED <<running, acked, failed>>
  BY ConfigAssumption DEF Begin, TypeOK, Pending

\* A roll keeps the shapes.
LEMMA TypeRoll ==
  ASSUME TypeOK, NEW sz \in Sizes, AppendAfterRoll(sz) PROVE TypeOK'
<1> DEFINE b == segs[active].next
<1>1. b \in Nat /\ running
  BY TypeBegin, ActiveFields DEF AppendAfterRoll
<1>2. logf' = Created(logf, b) /\ idxf' = Created(idxf, b) /\ active' = b
  BY DEF AppendAfterRoll
<1>3. PICK n \in RecoveredCounts(logf'[b]) :
        segs' = [x \in DOMAIN segs \union {b} |->
                   IF x = b THEN NewSegment(b, logf'[b], idxf'[b], n) ELSE segs[x]]
  BY DEF AppendAfterRoll
<1> HIDE DEF b
<1>4. /\ DOMAIN logf' = DOMAIN logf \union {b} /\ DOMAIN logf' \subseteq Nat
      /\ logf' \in [DOMAIN logf \union {b} -> Seq(Frame)]
  BY <1>1, <1>2, CreatedType DEF TypeOK
<1>5. DOMAIN idxf = DOMAIN logf /\ DOMAIN idxf \subseteq Nat
  BY DEF TypeOK
<1>6. idxf' \in [DOMAIN logf \union {b} -> Seq(Entry)]
  BY <1>1, <1>2, <1>5, CreatedType DEF TypeOK
<1>7. logf'[b] \in Seq(Frame) /\ idxf'[b] \in Seq(Entry)
  BY <1>4, <1>6
<1>8. n \in Nat
  BY <1>3, <1>7, RecoveredCountsType
<1>9. NewSegment(b, logf'[b], idxf'[b], n) \in SegmentState
  BY <1>1, <1>7, <1>8, NewSegmentType
<1>10. b <= NewSegment(b, logf'[b], idxf'[b], n).next
  BY <1>1, <1>8 DEF NewSegment
<1>11. /\ segs' \in [DOMAIN segs' -> SegmentState]
       /\ DOMAIN segs' = DOMAIN segs \union {b}
       /\ \A x \in DOMAIN segs' : x <= segs'[x].next
  BY <1>1, <1>3, <1>9, <1>10, SegmentAdded
<1>12. DOMAIN segs' \subseteq DOMAIN logf'
  BY <1>4, <1>11 DEF TypeOK
<1>13. Begin(sz)
  BY DEF AppendAfterRoll
<1>14. /\ running' \in BOOLEAN /\ pend' \in Pending /\ nextId' \in Nat
       /\ acked' \subseteq [off : Nat, id : Nat] /\ failed' \subseteq Nat
       /\ running'
  BY <1>13, TypeBegin DEF TypeOK
<1>15. active' \in Nat /\ active' \in DOMAIN segs'
  BY <1>1, <1>2, <1>11
<1> QED
  BY <1>4, <1>6, <1>11, <1>12, <1>14, <1>15 DEF TypeOK

\* Every step keeps the shapes.
LEMMA TypeStep == TypeOK /\ [Next]_vars => TypeOK'
<1> SUFFICES ASSUME TypeOK, [Next]_vars PROVE TypeOK'
  OBVIOUS
<1>1. CASE Open
  BY <1>1, TypeOpen
<1>2. CASE Close
  BY <1>2, ClosedType DEF Close
<1>3. CASE Crash
  BY <1>3, ClosedType DEF Crash
<1>4. ASSUME NEW sz \in Sizes, AppendToActive(sz) PROVE TypeOK'
  BY <1>4, TypeBegin DEF AppendToActive, TypeOK, disk
<1>5. ASSUME NEW sz \in Sizes, AppendAfterRoll(sz) PROVE TypeOK'
  BY <1>5, TypeRoll
<1>6. CASE RollFails
  <2> DEFINE b == segs[active].next
  <2>1. b \in Nat /\ running /\ UNCHANGED <<running, segs, active, pend, acked>>
    BY <1>6, ActiveFields DEF RollFails, mem
  <2>2. nextId' \in Nat /\ failed' \subseteq Nat
    BY <1>6 DEF RollFails, TypeOK
  <2>3. CASE UNCHANGED disk
    BY <2>1, <2>2, <2>3 DEF TypeOK, disk
  <2>4. CASE logf' = Created(logf, b) /\ idxf' = Created(idxf, b)
    <3> HIDE DEF b
    <3>1. /\ DOMAIN logf' = DOMAIN logf \union {b} /\ DOMAIN logf' \subseteq Nat
          /\ logf' \in [DOMAIN logf \union {b} -> Seq(Frame)]
      BY <2>1, <2>4, CreatedType DEF TypeOK
    <3>2. DOMAIN idxf = DOMAIN logf /\ DOMAIN idxf \subseteq Nat
      BY DEF TypeOK
    <3>3. idxf' \in [DOMAIN logf \union {b} -> Seq(Entry)]
      BY <2>1, <2>4, <3>2, CreatedType DEF TypeOK
    <3> QED
      BY <2>1, <2>2, <3>1, <3>3 DEF TypeOK
  <2> QED
    BY <1>6, <2>3, <2>4 DEF RollFails
<1>7. CASE WriteLog
  <2>1. running /\ pend.size \in Nat /\ logf' = Written(pend.size)
    BY <1>7, PendFields DEF WriteLog
  <2>2. logf' \in [DOMAIN logf -> Seq(Frame)] /\ DOMAIN logf' = DOMAIN logf
    BY <2>1, WrittenType
  <2>3. pend' \in Pending
    BY <1>7 DEF WriteLog, TypeOK, Pending
  <2> QED
    BY <1>7, <2>1, <2>2, <2>3 DEF WriteLog, TypeOK, mem
<1>8. CASE WriteLogFails
  BY <1>8, FailType DEF WriteLogFails, TypeOK, disk, mem
<1>9. ASSUME NEW k \in TornSizes, WriteLogTorn(k) PROVE TypeOK'
  <2>1. running /\ k \in Nat /\ logf' = Written(k)
    BY <1>9, PendFields, ConfigAssumption DEF WriteLogTorn
  <2>2. logf' \in [DOMAIN logf -> Seq(Frame)] /\ DOMAIN logf' = DOMAIN logf
    BY <2>1, WrittenType
  <2> QED
    BY <1>9, <2>1, <2>2, FailType DEF WriteLogTorn, TypeOK, mem
<1>10. CASE WriteIndex
  <2>1. running /\ pend.size \in Nat /\ pend.id \in Nat
    BY <1>10, PendFields DEF WriteIndex
  <2>2. NewEntry \in Entry
    BY <2>1, NewEntryType
  <2>3. idxf' \in [DOMAIN logf -> Seq(Entry)] /\ Len(idxf'[active]) \in Nat
    BY <1>10, <2>1, <2>2, IndexWrittenType, ActiveFields DEF WriteIndex
  <2>4. /\ segs' \in [DOMAIN segs -> SegmentState]
        /\ \A b \in DOMAIN segs : b <= segs'[b].next
    <3> DEFINE new == [next |-> segs[active].next + 1,
                       size |-> segs[active].size + pend.size,
                       mapped |-> Len(idxf'[active])]
    <3>1. segs' = [segs EXCEPT ![active] = new]
      BY <1>10 DEF WriteIndex
    <3>2. new \in SegmentState
      BY <2>1, <2>3, ActiveFields DEF SegmentState
    <3>3. active <= new.next
      BY <2>1, ActiveFields DEF TypeOK
    <3> HIDE DEF new
    <3> QED
      BY <2>1, <3>1, <3>2, <3>3, SegmentReplaced
  <2>5. acked' \subseteq [off : Nat, id : Nat]
    BY <1>10, <2>1, ActiveFields DEF WriteIndex, TypeOK
  <2>6. pend' \in Pending /\ pend' = Idle
    BY <1>10 DEF WriteIndex, Idle, Pending
  <2> QED
    BY <1>10, <2>3, <2>4, <2>5, <2>6 DEF WriteIndex, TypeOK
<1>11. CASE IndexWriteFails
  BY <1>11, FailType DEF IndexWriteFails, TypeOK, disk, mem
<1>12. CASE RemapFails
  <2>1. running
    BY <1>12, PendFields DEF RemapFails
  <2>2. idxf' \in [DOMAIN logf -> Seq(Entry)]
    BY <1>12, <2>1, NewEntryType, IndexWrittenType DEF RemapFails
  <2>3. /\ segs' \in [DOMAIN segs -> SegmentState]
        /\ \A b \in DOMAIN segs : b <= segs'[b].next
    <3> DEFINE new == [next |-> segs[active].next, size |-> segs[active].size,
                       mapped |-> IF Platform = "unix" /\ segs[active].mapped # 0
                                  THEN Dangling ELSE segs[active].mapped]
    <3>1. segs' = [segs EXCEPT ![active] = new]
      BY <1>12 DEF RemapFails
    <3>2. new \in SegmentState
      BY <2>1, ActiveFields DEF SegmentState
    <3>3. active <= new.next
      BY <2>1, ActiveFields DEF TypeOK
    <3> HIDE DEF new
    <3> QED
      BY <2>1, <3>1, <3>2, <3>3, SegmentReplaced
  <2> QED
    BY <1>12, <2>2, <2>3, FailType DEF RemapFails, TypeOK
<1>13. CASE UNCHANGED vars
  BY <1>13 DEF vars, TypeOK
<1> QED
  BY <1>1, <1>2, <1>3, <1>4, <1>5, <1>6, <1>7, <1>8, <1>9, <1>10, <1>11,
     <1>12, <1>13 DEF Next, AppendCall

\* Type correctness: the files and structs keep their shapes through every
\* sequence of Appends, failures, crashes and restarts.
THEOREM TypeCorrect == Spec => []TypeOK
  BY TypeInit, TypeStep, PTL DEF Spec

-----------------------------------------------------------------------------
(* Files only grow.                                                         *)

\* Appending to a sequence keeps its elements.
LEMMA AppendKeeps ==
  ASSUME NEW S, NEW s \in Seq(S), NEW e \in S
  PROVE  /\ Len(Append(s, e)) = Len(s) + 1
         /\ Append(s, e)[Len(s) + 1] = e
         /\ \A i \in DOMAIN s : i \in DOMAIN Append(s, e) /\ Append(s, e)[i] = s[i]
  OBVIOUS

\* A step changes and removes no bytes already in a log or an index file
\* (segment.go:35, O_APPEND; index.go:55, WriteAt at Index.size).
AppendOnly ==
  \A b \in DOMAIN logf :
    /\ b \in DOMAIN logf'
    /\ Len(logf[b]) <= Len(logf'[b])
    /\ \A i \in DOMAIN logf[b] : logf'[b][i] = logf[b][i]
    /\ Len(idxf[b]) <= Len(idxf'[b])
    /\ \A i \in DOMAIN idxf[b] : idxf'[b][i] = idxf[b][i]

\* AppendOnly for the log files alone, and for the index files alone.
LogOnlyGrows ==
  \A b \in DOMAIN logf :
    /\ b \in DOMAIN logf'
    /\ Len(logf[b]) <= Len(logf'[b])
    /\ \A i \in DOMAIN logf[b] : logf'[b][i] = logf[b][i]

IdxOnlyGrows ==
  \A b \in DOMAIN logf :
    /\ Len(idxf[b]) <= Len(idxf'[b])
    /\ \A i \in DOMAIN idxf[b] : idxf'[b][i] = idxf[b][i]

\* The lengths of the files are numbers.
LEMMA Lengths ==
  ASSUME TypeOK
  PROVE  \A b \in DOMAIN logf : Len(logf[b]) \in Nat /\ Len(idxf[b]) \in Nat
<1>1. \A b \in DOMAIN logf : logf[b] \in Seq(Frame) /\ idxf[b] \in Seq(Entry)
  BY DEF TypeOK
<1> QED
  BY <1>1

\* file.Write makes one log file longer and changes nothing else.
LEMMA WrittenGrows ==
  ASSUME TypeOK, running, NEW k \in Nat, logf' = Written(k)
  PROVE  LogOnlyGrows
<1> DEFINE fr == [at |-> FileEnd(logf[active]), size |-> pend.size,
                  kept |-> k, id |-> pend.id]
<1>1. fr \in Frame /\ DOMAIN logf' = DOMAIN logf
      /\ logf'[active] = Append(logf[active], fr)
      /\ \A b \in DOMAIN logf : b # active => logf'[b] = logf[b]
  BY WrittenType
<1> HIDE DEF fr
<1> SUFFICES ASSUME NEW b \in DOMAIN logf
             PROVE  /\ Len(logf[b]) <= Len(logf'[b])
                    /\ \A i \in DOMAIN logf[b] : logf'[b][i] = logf[b][i]
  BY <1>1 DEF LogOnlyGrows
<1>2. CASE b = active
  <2>1. logf[active] \in Seq(Frame) /\ Len(logf[active]) \in Nat
    BY ActiveFields
  <2> QED
    BY <1>1, <1>2, <2>1, AppendKeeps
<1>3. CASE b # active
  BY <1>1, <1>3, Lengths
<1> QED
  BY <1>2, <1>3

\* WriteAt makes one index file longer and changes nothing else.
LEMMA IndexWrittenGrows ==
  ASSUME TypeOK, running, IndexWritten
  PROVE  IdxOnlyGrows
<1>1. /\ NewEntry \in Entry
      /\ idxf'[active] = Append(idxf[active], NewEntry)
      /\ \A b \in DOMAIN logf : b # active => idxf'[b] = idxf[b]
  BY NewEntryType, IndexWrittenType DEF TypeOK
<1> SUFFICES ASSUME NEW b \in DOMAIN logf
             PROVE  /\ Len(idxf[b]) <= Len(idxf'[b])
                    /\ \A i \in DOMAIN idxf[b] : idxf'[b][i] = idxf[b][i]
  BY DEF IdxOnlyGrows
<1>2. CASE b = active
  <2>1. idxf[active] \in Seq(Entry) /\ Len(idxf[active]) \in Nat
    BY ActiveFields
  <2> QED
    BY <1>1, <1>2, <2>1, AppendKeeps
<1>3. CASE b # active
  BY <1>1, <1>3, Lengths
<1> QED
  BY <1>2, <1>3

\* Opening a file changes no existing one.
LEMMA CreatedGrows ==
  ASSUME TypeOK, NEW b \in Nat, logf' = Created(logf, b), idxf' = Created(idxf, b)
  PROVE  AppendOnly
<1>1. /\ \A x \in DOMAIN logf : x \in DOMAIN logf' /\ logf'[x] = logf[x]
      /\ \A x \in DOMAIN logf : idxf'[x] = idxf[x]
  BY DEF TypeOK, Created
<1> QED
  BY <1>1, Lengths DEF AppendOnly

\* A step that leaves the files alone is append-only.
LEMMA DiskUnchangedGrows ==
  ASSUME TypeOK, UNCHANGED disk
  PROVE  AppendOnly
  BY Lengths DEF AppendOnly, disk

\* A step that only writes the record is append-only.
LEMMA LogWrittenGrows ==
  ASSUME TypeOK, running, NEW k \in Nat, logf' = Written(k), UNCHANGED idxf
  PROVE  AppendOnly
  BY WrittenGrows, Lengths DEF AppendOnly, LogOnlyGrows

\* A step that only writes the entry is append-only.
LEMMA IdxWrittenGrows ==
  ASSUME TypeOK, running, IndexWritten, UNCHANGED logf
  PROVE  AppendOnly
  BY IndexWrittenGrows, Lengths DEF AppendOnly, IdxOnlyGrows

\* Every step is append-only.
LEMMA StepAppendOnly == TypeOK /\ [Next]_vars => AppendOnly
<1> SUFFICES ASSUME TypeOK, [Next]_vars PROVE AppendOnly
  OBVIOUS
<1>1. CASE Open
  <2>1. CASE DOMAIN logf = {}
    BY <2>1 DEF AppendOnly
  <2>2. CASE DOMAIN logf # {}
    BY <1>1, <2>2, DiskUnchangedGrows DEF Open, disk
  <2> QED
    BY <2>1, <2>2
<1>2. CASE Close \/ Crash \/ WriteLogFails \/ IndexWriteFails
  BY <1>2, DiskUnchangedGrows DEF Close, Crash, WriteLogFails, IndexWriteFails
<1>3. ASSUME NEW sz \in Sizes, AppendToActive(sz) PROVE AppendOnly
  BY <1>3, DiskUnchangedGrows DEF AppendToActive
<1>4. ASSUME NEW sz \in Sizes, AppendAfterRoll(sz) PROVE AppendOnly
  BY <1>4, TypeBegin, ActiveFields, CreatedGrows DEF AppendAfterRoll
<1>5. CASE RollFails
  BY <1>5, ActiveFields, CreatedGrows, DiskUnchangedGrows DEF RollFails
<1>6. CASE WriteLog
  BY <1>6, PendFields, LogWrittenGrows DEF WriteLog
<1>7. ASSUME NEW k \in TornSizes, WriteLogTorn(k) PROVE AppendOnly
  BY <1>7, PendFields, ConfigAssumption, LogWrittenGrows DEF WriteLogTorn
<1>8. CASE WriteIndex
  BY <1>8, PendFields, IdxWrittenGrows DEF WriteIndex
<1>9. CASE RemapFails
  BY <1>9, PendFields, IdxWrittenGrows DEF RemapFails
<1>10. CASE UNCHANGED vars
  BY <1>10, DiskUnchangedGrows DEF vars, disk
<1> QED
  BY <1>1, <1>2, <1>3, <1>4, <1>5, <1>6, <1>7, <1>8, <1>9, <1>10
     DEF Next, AppendCall

\* A complete record stays at its place in its file, whatever fails
\* (segment.go:35): no step, Open after a crash included, rewrites, moves or
\* removes one, although Append reckons with Segment.size and not the file's end.
THEOREM RecordsNeverMove == Spec => RecordsStay
<1>1. ASSUME TypeOK, TypeOK', [Next]_vars PROVE IntactKept
  <2>1. AppendOnly
    BY <1>1, StepAppendOnly
  <2> SUFFICES ASSUME NEW b \in DOMAIN logf, NEW i \in Intact(logf[b])
               PROVE  b \in DOMAIN logf' /\ i \in DOMAIN logf'[b] /\ logf'[b][i] = logf[b][i]
    BY <2>1 DEF IntactKept, AppendOnly
  <2>2. /\ i \in DOMAIN logf[b] /\ b \in DOMAIN logf'
        /\ Len(logf[b]) <= Len(logf'[b]) /\ logf'[b][i] = logf[b][i]
    BY <2>1 DEF AppendOnly, Intact
  <2>3. logf[b] \in Seq(Frame) /\ logf'[b] \in Seq(Frame)
    BY <1>1, <2>2 DEF TypeOK
  <2>4. i \in DOMAIN logf'[b]
    BY <2>2, <2>3, Lengths
  <2> QED
    BY <2>2, <2>4
<1>2. TypeOK /\ TypeOK' /\ [Next]_vars => [IntactKept]_vars
  BY <1>1
<1> QED
  BY <1>2, TypeCorrect, PTL DEF Spec, RecordsStay

-----------------------------------------------------------------------------
(* Acknowledged records are in the files, whatever fails.                   *)

\* The record of id n is complete in the log file of base b.
Stored(b, n) ==
  \E i \in DOMAIN logf[b] : logf[b][i].id = n /\ Whole(logf[b][i])

\* AckedDurable is not inductive: an Append that has written its record but
\* not yet its index entry must have stored it too.
DurableInv ==
  /\ TypeOK
  /\ \A a \in acked : \E b \in DOMAIN logf : Stored(b, a.id)
  /\ pend.stage = "index" => Stored(active, pend.id)

\* A record that is stored stays stored under append-only steps.
LEMMA StoredStays ==
  ASSUME AppendOnly, NEW b \in DOMAIN logf, NEW n, Stored(b, n),
         TypeOK, TypeOK'
  PROVE  b \in DOMAIN logf' /\ Stored(b, n)'
<1>1. PICK i \in DOMAIN logf[b] : logf[b][i].id = n /\ Whole(logf[b][i])
  BY DEF Stored
<1>2. logf[b] \in Seq(Frame) /\ b \in DOMAIN logf' /\ logf'[b] \in Seq(Frame)
  BY DEF AppendOnly, TypeOK
<1>3. Len(logf[b]) <= Len(logf'[b]) /\ logf'[b][i] = logf[b][i]
  BY DEF AppendOnly
<1>4. i \in DOMAIN logf'[b]
  BY <1>2, <1>3
<1> QED
  BY <1>1, <1>2, <1>3, <1>4 DEF Stored, Whole

\* Every step keeps acknowledged records stored.
LEMMA DurableStep == DurableInv /\ [Next]_vars => DurableInv'
<1> SUFFICES ASSUME DurableInv, [Next]_vars PROVE DurableInv'
  OBVIOUS
<1>1. TypeOK /\ TypeOK' /\ AppendOnly
  BY TypeStep, StepAppendOnly DEF DurableInv
<1>2. \A a \in acked : \E b \in DOMAIN logf' : Stored(b, a.id)'
  BY <1>1, StoredStays DEF DurableInv
<1>3. CASE WriteIndex
  <2>1. running /\ active \in DOMAIN logf /\ active' = active
    BY <1>1, <1>3, PendFields, ActiveFields DEF WriteIndex
  <2>2. \A b \in DOMAIN logf, n \in Nat :
          Stored(b, n) => b \in DOMAIN logf' /\ Stored(b, n)'
    BY <1>1, StoredStays
  <2>3. Stored(active, pend.id) /\ pend.id \in Nat
    BY <1>1, <1>3, PendFields DEF WriteIndex, DurableInv
  <2>4. \A n \in Nat : n = pend.id => \E b \in DOMAIN logf' : Stored(b, n)'
    BY <2>1, <2>2, <2>3
  <2>5. acked' = acked \union {[off |-> segs[active].next, id |-> pend.id]}
    BY <1>3 DEF WriteIndex
  <2>6. \A a \in acked' : a \in acked \/ a.id = pend.id
    BY <2>5
  <2>7. \A a \in acked' : \E b \in DOMAIN logf' : Stored(b, a.id)'
    BY <1>2, <2>3, <2>4, <2>6
  <2>8. pend'.stage = "idle"
    BY <1>3 DEF WriteIndex, Idle
  <2> QED
    BY <1>1, <2>7, <2>8 DEF DurableInv
<1>4. CASE WriteLog
  <2>1. running /\ pend.size \in Nat /\ logf' = Written(pend.size)
        /\ active' = active /\ pend'.id = pend.id /\ acked' = acked
    BY <1>1, <1>4, PendFields DEF WriteLog, mem, TypeOK, Pending
  <2> DEFINE fr == [at |-> FileEnd(logf[active]), size |-> pend.size,
                    kept |-> pend.size, id |-> pend.id]
  <2>2. fr \in Frame /\ logf'[active] = Append(logf[active], fr)
    BY <1>1, <2>1, WrittenType
  <2>3. fr.id = pend.id /\ Whole(fr)
    BY DEF Whole
  <2>4. logf[active] \in Seq(Frame) /\ Len(logf[active]) \in Nat
    BY <1>1, <2>1, ActiveFields
  <2> HIDE DEF fr
  <2>5. /\ Len(logf[active]) + 1 \in DOMAIN logf'[active]
        /\ logf'[active][Len(logf[active]) + 1] = fr
    BY <2>2, <2>4, AppendKeeps
  <2>6. Stored(active, pend.id)'
    BY <2>1, <2>3, <2>5 DEF Stored, Whole
  <2> QED
    BY <1>1, <1>2, <2>1, <2>6 DEF DurableInv
<1>5. CASE UNCHANGED vars
  BY <1>1, <1>2, <1>5 DEF vars, DurableInv, Stored
<1>6. CASE acked' = acked /\ pend'.stage # "index"
  BY <1>1, <1>2, <1>6 DEF DurableInv
<1>7. ASSUME Next, ~WriteIndex, ~WriteLog, ~RollFails, ~Open
      PROVE  acked' = acked /\ pend'.stage # "index"
  BY <1>7 DEF Next, AppendCall, Close, Crash, Closed, AppendToActive,
     AppendAfterRoll, Begin, WriteLogFails, WriteLogTorn, IndexWriteFails,
     RemapFails, Fail, Idle
<1>8. CASE RollFails \/ Open
  <2>1. pend.stage = "idle" /\ pend' = pend /\ acked' = acked
    <3>1. CASE RollFails
      BY <3>1 DEF RollFails
    <3>2. CASE Open
      BY <1>1, <3>2 DEF Open, TypeOK, Idle
    <3> QED
      BY <1>8, <3>1, <3>2
  <2> QED
    BY <1>6, <2>1
<1> QED
  BY <1>3, <1>4, <1>5, <1>6, <1>7, <1>8

\* A record whose Append succeeded is in a log file, complete, ever after.
THEOREM AckedIsDurable == Spec => []AckedDurable
<1>1. Init => DurableInv
  BY TypeInit DEF Init, DurableInv, Idle
<1>2. DurableInv => AckedDurable
  BY DEF DurableInv, AckedDurable, Stored
<1> QED
  BY <1>1, <1>2, DurableStep, PTL DEF Spec

-----------------------------------------------------------------------------
(* Order, until a torn write leaves a fragment of a record: offsets are     *)
(* handed out in order, the index files stay sorted, and an open log        *)
(* counts no message without a record.  Crashes and every other failure     *)
(* may happen at any time.                                                  *)

\* Every write is whole or leaves nothing.
NoTornStep == \A k \in TornSizes : ~WriteLogTorn(k)

-----------------------------------------------------------------------------
(* The inductive invariant, part by part.                                   *)

\* The files: no fragments, indexes sorted and pointing at records.
FilesInv ==
  \A b \in DOMAIN logf :
    /\ \A i \in DOMAIN logf[b] : Whole(logf[b][i])
    /\ SortedIndex(idxf[b])
    /\ \A i \in DOMAIN idxf[b] : idxf[b][i].rel < Len(logf[b])

\* The segments: nextOffset does not run ahead of the file, and a segment
\* that is not empty has a message.
SegsInv ==
  \A b \in DOMAIN segs :
    /\ segs[b].next <= b + Len(logf[b])
    /\ segs[b].size > 0 => b < segs[b].next

\* A file above the active segment is what a failed roll left: empty, and
\* where the next roll will look for it.
Leftover(c) ==
  /\ c = segs[active].next
  /\ IsFull(segs[active])
  /\ logf[c] = <<>>

\* The active segment is the last, and nextOffset is above all that was
\* acknowledged.
ActiveInv ==
  running =>
    /\ \A c \in DOMAIN logf : c <= active \/ Leftover(c)
    /\ \A i \in DOMAIN idxf[active] :
         idxf[active][i].rel <= segs[active].next - active
    /\ \A a \in acked : a.off < segs[active].next

\* The Append in progress: its segment has room, its id is the newest, and
\* once its record is written the file is ahead of nextOffset.
PendInv ==
  /\ pend.stage # "idle" =>
       /\ ~IsFull(segs[active])
       /\ pend.id < nextId
       /\ \A a \in acked : a.id < pend.id
  /\ pend.stage = "index" => segs[active].next < active + Len(logf[active])

\* Later Appends got larger offsets.
OffsetsOrdered == \A a, b \in acked : a.id < b.id => a.off < b.off

\* What was acknowledged, and what the next Open will find.
AckInv ==
  /\ \A a \in acked : a.id < nextId
  /\ OffsetsOrdered
  /\ \A top \in DOMAIN logf :
       (\A b \in DOMAIN logf : b <= top) =>
         \A a \in acked : a.off < top + Len(logf[top])

OrderInv ==
  DurableInv /\ FilesInv /\ SegsInv /\ ActiveInv /\ PendInv /\ AckInv

-----------------------------------------------------------------------------
(* Lemmas.                                                                  *)

\* Over whole records the scan of NewSegment counts each one.
LEMMA RecoveredWhole ==
  ASSUME NEW f, \A i \in DOMAIN f : Whole(f[i])
  PROVE  RecoveredCounts(f) = {Len(f)}
  BY DEF RecoveredCounts

\* Appending an entry at or behind the last one keeps an index sorted.
LEMMA SortedAppend ==
  ASSUME NEW x \in Seq(Entry), NEW e \in Entry, SortedIndex(x),
         \A i \in DOMAIN x : x[i].rel <= e.rel
  PROVE  SortedIndex(Append(x, e))
<1> DEFINE y == Append(x, e)
<1>1. Len(x) \in Nat /\ DOMAIN x = 1 .. Len(x) /\ DOMAIN y = 1 .. Len(x) + 1
  OBVIOUS
<1>2. y[Len(x) + 1] = e /\ \A i \in DOMAIN x : y[i] = x[i]
  OBVIOUS
<1>3. e.rel \in Nat
  BY DEF Entry
<1> HIDE DEF y
<1>4. ASSUME NEW i \in DOMAIN y, NEW j \in DOMAIN y, i <= j
      PROVE  y[i].rel <= y[j].rel
  <2>1. CASE j = Len(x) + 1 /\ i = Len(x) + 1
    BY <1>2, <1>3, <2>1
  <2>2. CASE j = Len(x) + 1 /\ i # Len(x) + 1
    BY <1>1, <1>2, <2>2
  <2>3. CASE j # Len(x) + 1
    <3>1. i \in DOMAIN x /\ j \in DOMAIN x
      BY <1>1, <1>4, <2>3
    <3> QED
      BY <1>2, <1>4, <3>1 DEF SortedIndex
  <2> QED
    BY <2>1, <2>2, <2>3
<1> QED
  BY <1>4 DEF SortedIndex, y

\* The open log's files and numbers.
LEMMA SegFields ==
  ASSUME TypeOK, NEW b \in DOMAIN segs
  PROVE  /\ b \in Nat /\ b \in DOMAIN logf
         /\ segs[b].next \in Nat /\ segs[b].size \in Nat
         /\ logf[b] \in Seq(Frame) /\ idxf[b] \in Seq(Entry)
         /\ Len(logf[b]) \in Nat /\ b <= segs[b].next
<1>1. b \in Nat /\ b \in DOMAIN logf /\ segs[b] \in SegmentState
      /\ logf[b] \in Seq(Frame) /\ idxf[b] \in Seq(Entry) /\ b <= segs[b].next
  BY DEF TypeOK
<1> QED
  BY <1>1 DEF SegmentState

\* A full segment has a message, so the next roll opens a file above it.
LEMMA FullHasMessage ==
  ASSUME TypeOK, SegsInv, running, IsFull(segs[active])
  PROVE  active < segs[active].next
<1>1. active \in DOMAIN segs /\ segs[active].size \in Nat
  BY ActiveFields
<1>2. segs[active].size > 0
  BY <1>1, ConfigAssumption DEF IsFull
<1> QED
  BY <1>1, <1>2 DEF SegsInv

\* Opening the file at nextOffset of a full active segment creates it, or
\* finds the empty one a failed roll left.
LEMMA RollFile ==
  ASSUME TypeOK, OrderInv, running, IsFull(segs[active]),
         NEW b \in Nat, b = segs[active].next
  PROVE  /\ Created(logf, b)[b] = <<>>
         /\ b \in DOMAIN logf => logf[b] = <<>>
         /\ \A c \in DOMAIN Created(logf, b) : c <= active \/ c = b
         /\ active < b
<1>1. active < b
  BY FullHasMessage DEF OrderInv
<1>2. active \in Nat
  BY DEF TypeOK
<1>3. \A c \in DOMAIN logf : c <= active \/ (c = b /\ logf[c] = <<>>)
  BY DEF OrderInv, ActiveInv, Leftover
<1>4. b \in DOMAIN logf => logf[b] = <<>>
  BY <1>1, <1>2, <1>3
<1>5. Created(logf, b)[b] = <<>> /\ DOMAIN Created(logf, b) = DOMAIN logf \union {b}
  BY <1>4 DEF Created
<1> QED
  BY <1>1, <1>3, <1>4, <1>5

-----------------------------------------------------------------------------
(* One lemma per action.  DurableInv has its own step lemma; the rest is    *)

OtherInv == FilesInv /\ SegsInv /\ ActiveInv /\ PendInv /\ AckInv

\* NewCommitLog rebuilds structs that agree with the files.
LEMMA OrderOpen ==
  ASSUME OrderInv, TypeOK', Open PROVE OtherInv'
<1> USE DEF OrderInv
<1>t. TypeOK
  BY DEF DurableInv
<1> DEFINE dir   == IF DOMAIN logf = {} THEN Created(logf, 0) ELSE logf
           xdir  == IF DOMAIN logf = {} THEN Created(idxf, 0) ELSE idxf
           bases == DOMAIN dir
<1>1. logf' = dir /\ idxf' = xdir
  BY DEF Open
<1>2. PICK n \in [bases -> UNION {RecoveredCounts(dir[b]) : b \in bases}] :
        /\ \A b \in bases : n[b] \in RecoveredCounts(dir[b])
        /\ segs' = [b \in bases |-> NewSegment(b, dir[b], xdir[b], n[b])]
  BY DEF Open
<1>3. PICK top \in bases : active' = top /\ \A b \in bases : b <= top
  BY DEF Open
<1>4. UNCHANGED <<pend, nextId, acked, failed>> /\ pend.stage = "idle"
  BY <1>t DEF Open, TypeOK, Idle
<1>5. FilesInv'
  <2>1. CASE DOMAIN logf = {}
    <3>1. DOMAIN idxf = {}
      BY <1>t, <2>1 DEF TypeOK
    <3>2. DOMAIN logf' = {0} /\ logf'[0] = <<>> /\ idxf'[0] = <<>>
      BY <1>1, <2>1, <3>1, CreatedInEmpty
    <3> QED
      BY <3>2 DEF FilesInv, SortedIndex
  <2>2. CASE DOMAIN logf # {}
    BY <1>1, <2>2 DEF FilesInv
  <2> QED
    BY <2>1, <2>2
<1> HIDE DEF dir, xdir, bases
<1>6. DOMAIN logf' = bases
  BY <1>1 DEF bases
<1>7. \A b \in bases : n[b] = Len(dir[b])
  <2> SUFFICES ASSUME NEW b \in bases PROVE n[b] = Len(dir[b])
    OBVIOUS
  <2>1. \A i \in DOMAIN dir[b] : Whole(dir[b][i])
    BY <1>1, <1>5, <1>6 DEF FilesInv, Whole
  <2> QED
    BY <1>2, <2>1, RecoveredWhole
<1>8. \A b \in bases : /\ segs'[b].next = b + Len(logf'[b])
                       /\ segs'[b].size = FileEnd(logf'[b])
  BY <1>1, <1>2, <1>7 DEF NewSegment
<1>9. \A b \in bases : b \in Nat /\ logf'[b] \in Seq(Frame) /\ Len(logf'[b]) \in Nat
  BY <1>6 DEF TypeOK
<1>10. SegsInv'
  <2> SUFFICES ASSUME NEW b \in bases
               PROVE  /\ segs'[b].next <= b + Len(logf'[b])
                      /\ segs'[b].size > 0 => b < segs'[b].next
    BY <1>2, <1>6 DEF SegsInv
  <2>1. segs'[b].size > 0 => logf'[b] # <<>>
    BY <1>8 DEF FileEnd
  <2>2. logf'[b] # <<>> => Len(logf'[b]) > 0
    BY <1>9, SMTT(60)
  <2>3. /\ segs'[b].next = b + Len(logf'[b]) /\ b \in Nat /\ Len(logf'[b]) \in Nat
    BY <1>8, <1>9
  <2> PICK m \in Nat : m = Len(logf'[b])
    BY <2>3
  <2>4. segs'[b].next = b + m /\ (segs'[b].size > 0 => m > 0)
    BY <2>1, <2>2, <2>3
  <2> QED
    BY <2>3, <2>4, SMTT(60)
<1>11. \A a \in acked : a.off < top + Len(logf'[top])
  <2>1. CASE DOMAIN logf = {}
    BY <2>1 DEF DurableInv
  <2>2. CASE DOMAIN logf # {}
    BY <1>1, <1>3, <2>2 DEF AckInv, bases, dir
  <2> QED
    BY <2>1, <2>2
<1>12. ActiveInv'
  <2>1. \A i \in DOMAIN idxf'[top] : idxf'[top][i].rel <= segs'[top].next - top
    <3> SUFFICES ASSUME NEW i \in DOMAIN idxf'[top]
                 PROVE  idxf'[top][i].rel <= segs'[top].next - top
      OBVIOUS
    <3>1. idxf'[top][i].rel < Len(logf'[top])
      BY <1>5, <1>6 DEF FilesInv
    <3>2. idxf'[top][i] \in Entry
      BY <1>6 DEF TypeOK
    <3>3. idxf'[top][i].rel \in Nat
      BY <3>2 DEF Entry
    <3> QED
      BY <1>8, <1>9, <3>1, <3>3, SMTT(60)
  <2> QED
    BY <1>3, <1>4, <1>6, <1>8, <1>11, <2>1 DEF ActiveInv
<1>13. PendInv'
  BY <1>4 DEF PendInv
<1>14. AckInv'
  <2>1. \A t \in bases : (\A b \in bases : b <= t) => t = top
    BY <1>3, <1>9
  <2> QED
    BY <1>4, <1>6, <1>11, <2>1 DEF AckInv, OffsetsOrdered
<1> QED
  BY <1>5, <1>10, <1>12, <1>13, <1>14 DEF OtherInv

\* Closing or crashing leaves nothing that could disagree.
LEMMA OrderClosed ==
  ASSUME OrderInv, Closed, UNCHANGED <<disk, nextId, acked, failed>>
  PROVE  OtherInv'
<1>1. FilesInv'
  BY DEF OrderInv, FilesInv, disk
<1>2. SegsInv'
  BY DEF Closed, SegsInv
<1>3. ActiveInv' /\ PendInv'
  BY DEF Closed, ActiveInv, PendInv, Idle
<1>4. AckInv'
  BY DEF OrderInv, AckInv, OffsetsOrdered, disk
<1> QED
  BY <1>1, <1>2, <1>3, <1>4 DEF OtherInv

\* An Append that fails without touching a file or a segment.
LEMMA OrderFail ==
  ASSUME OrderInv, Fail, UNCHANGED <<disk, mem, nextId, acked>>
  PROVE  OtherInv'
<1>1. FilesInv' /\ SegsInv'
  BY DEF OrderInv, FilesInv, SegsInv, disk, mem
<1>2. ActiveInv'
  BY DEF OrderInv, ActiveInv, Leftover, IsFull, disk, mem
<1>3. PendInv'
  BY DEF Fail, PendInv, Idle
<1>4. AckInv'
  BY DEF OrderInv, AckInv, OffsetsOrdered, disk
<1> QED
  BY <1>1, <1>2, <1>3, <1>4 DEF OtherInv

\* An Append that finds room begins.
LEMMA OrderAppendToActive ==
  ASSUME OrderInv, NEW sz \in Sizes, AppendToActive(sz)
  PROVE  OtherInv'
<1>t. TypeOK
  BY DEF OrderInv, DurableInv
<1>1. UNCHANGED <<logf, idxf, segs, active, running, acked>>
  BY DEF AppendToActive, Begin, disk
<1>2. FilesInv' /\ SegsInv'
  BY <1>1 DEF OrderInv, FilesInv, SegsInv
<1>3. ActiveInv'
  BY <1>1 DEF OrderInv, ActiveInv, Leftover, IsFull
<1>4. nextId \in Nat /\ nextId' = nextId + 1 /\ pend'.id = nextId
      /\ pend'.stage = "write" /\ ~IsFull(segs[active])
  BY <1>t DEF AppendToActive, Begin, TypeOK
<1>5. PendInv'
  BY <1>1, <1>4 DEF OrderInv, AckInv, PendInv, IsFull
<1>6. \A a \in acked : a.id \in Nat
  BY <1>t DEF TypeOK
<1>7. AckInv'
  BY <1>1, <1>4, <1>6 DEF OrderInv, AckInv, OffsetsOrdered
<1> QED
  BY <1>2, <1>3, <1>5, <1>7 DEF OtherInv

\* The files and the acknowledgements after the file of the next segment has
\* been opened, by a roll that succeeds or by one that fails.
LEMMA OrderCreated ==
  ASSUME OrderInv, running, IsFull(segs[active]),
         NEW b \in Nat, b = segs[active].next,
         logf' = Created(logf, b), idxf' = Created(idxf, b)
  PROVE  /\ FilesInv'
         /\ DOMAIN logf' = DOMAIN logf \union {b}
         /\ \A c \in DOMAIN logf : logf'[c] = logf[c]
         /\ logf'[b] = <<>>
         /\ \A c \in DOMAIN logf' : c <= active \/ c = b
         /\ \A top \in DOMAIN logf' :
              (\A c \in DOMAIN logf' : c <= top) => top = b
         /\ \A a \in acked : a.off < b
<1>t. TypeOK
  BY DEF OrderInv, DurableInv
<1>1. DOMAIN logf' = DOMAIN logf \union {b} /\ DOMAIN logf \subseteq Nat
      /\ \A c \in DOMAIN logf : logf'[c] = logf[c]
  BY <1>t DEF Created, TypeOK
<1>2. DOMAIN idxf' = DOMAIN logf \union {b}
      /\ \A c \in DOMAIN logf : idxf'[c] = idxf[c]
  BY <1>t DEF Created, TypeOK
<1>3. /\ logf'[b] = <<>> /\ (b \in DOMAIN logf => logf[b] = <<>>)
      /\ \A c \in DOMAIN logf' : c <= active \/ c = b
      /\ active < b
  BY <1>t, RollFile
<1>4. b \notin DOMAIN logf => idxf'[b] = <<>>
  BY <1>t DEF Created, TypeOK
<1>5. FilesInv'
  <2> SUFFICES ASSUME NEW c \in DOMAIN logf'
               PROVE  /\ \A i \in DOMAIN logf'[c] : Whole(logf'[c][i])
                      /\ SortedIndex(idxf'[c])
                      /\ \A i \in DOMAIN idxf'[c] : idxf'[c][i].rel < Len(logf'[c])
    BY DEF FilesInv, Whole, SortedIndex
  <2>1. CASE c \in DOMAIN logf
    BY <1>1, <1>2, <2>1 DEF OrderInv, FilesInv
  <2>2. CASE c \notin DOMAIN logf
    <3>1. c = b /\ logf'[c] = <<>> /\ idxf'[c] = <<>>
      BY <1>1, <1>3, <1>4, <2>2
    <3> QED
      BY <3>1 DEF SortedIndex
  <2> QED
    BY <2>1, <2>2
<1>6. active \in Nat
  BY <1>t DEF TypeOK
<1>7. \A top \in DOMAIN logf' : (\A c \in DOMAIN logf' : c <= top) => top = b
  BY <1>1, <1>3, <1>6
<1>8. \A a \in acked : a.off < b
  BY DEF OrderInv, ActiveInv
<1> QED
  BY <1>1, <1>3, <1>5, <1>7, <1>8

\* A roll that fails keeps the invariant.
LEMMA OrderRollFails ==
  ASSUME OrderInv, RollFails PROVE OtherInv'
<1>t. TypeOK
  BY DEF OrderInv, DurableInv
<1> DEFINE b == segs[active].next
<1>1. /\ running /\ IsFull(segs[active]) /\ pend.stage = "idle" /\ b \in Nat
      /\ nextId' = nextId + 1 /\ nextId \in Nat
      /\ UNCHANGED <<running, segs, active, pend, acked>>
  BY <1>t, ActiveFields DEF RollFails, mem, TypeOK
<1>2. \A a \in acked : a.id \in Nat /\ a.id < nextId'
  BY <1>t, <1>1 DEF TypeOK, OrderInv, AckInv
<1>3. PendInv'
  BY <1>1 DEF PendInv
<1>4. CASE UNCHANGED disk
  <2>1. FilesInv' /\ SegsInv'
    BY <1>1, <1>4 DEF OrderInv, FilesInv, SegsInv, disk
  <2>2. ActiveInv'
    BY <1>1, <1>4 DEF OrderInv, ActiveInv, Leftover, IsFull, disk
  <2>3. AckInv'
    BY <1>1, <1>2, <1>4 DEF OrderInv, AckInv, OffsetsOrdered, disk
  <2> QED
    BY <1>3, <2>1, <2>2, <2>3 DEF OtherInv
<1>5. CASE logf' = Created(logf, b) /\ idxf' = Created(idxf, b)
  <2> HIDE DEF b
  <2>1. /\ FilesInv'
        /\ DOMAIN logf' = DOMAIN logf \union {b}
        /\ \A c \in DOMAIN logf : logf'[c] = logf[c]
        /\ logf'[b] = <<>>
        /\ \A c \in DOMAIN logf' : c <= active \/ c = b
        /\ \A top \in DOMAIN logf' :
             (\A c \in DOMAIN logf' : c <= top) => top = b
        /\ \A a \in acked : a.off < b
    BY <1>1, <1>5, OrderCreated DEF b
  <2>2. SegsInv'
    BY <1>1, <1>t, <2>1 DEF OrderInv, SegsInv, TypeOK
  <2>3. ActiveInv'
    <3>1. idxf'[active] = idxf[active]
      BY <1>t, <1>1, <1>5, ActiveFields DEF Created, TypeOK
    <3>2. \A c \in DOMAIN logf' : c <= active \/ Leftover(c)'
      BY <1>1, <2>1 DEF Leftover, IsFull, b
    <3> QED
      BY <1>1, <3>1, <3>2 DEF OrderInv, ActiveInv
  <2>4. AckInv'
    BY <1>1, <1>2, <2>1 DEF OrderInv, AckInv, OffsetsOrdered
  <2> QED
    BY <1>3, <2>1, <2>2, <2>3, <2>4 DEF OtherInv
<1> QED
  BY <1>4, <1>5 DEF RollFails

\* A roll that succeeds makes the new segment the last one.
LEMMA OrderRoll ==
  ASSUME OrderInv, TypeOK', NEW sz \in Sizes, AppendAfterRoll(sz) PROVE OtherInv'
<1>t. TypeOK
  BY DEF OrderInv, DurableInv
<1> DEFINE b == segs[active].next
<1>1. /\ running /\ IsFull(segs[active]) /\ b \in Nat
      /\ pend'.stage = "write" /\ pend'.id = nextId
      /\ nextId' = nextId + 1 /\ nextId \in Nat
      /\ UNCHANGED <<running, acked>> /\ active' = b
  BY <1>t, ActiveFields DEF AppendAfterRoll, Begin, TypeOK
<1>2. logf' = Created(logf, b) /\ idxf' = Created(idxf, b)
  BY DEF AppendAfterRoll
<1>3. PICK n \in RecoveredCounts(logf'[b]) :
        segs' = [x \in DOMAIN segs \union {b} |->
                   IF x = b THEN NewSegment(b, logf'[b], idxf'[b], n) ELSE segs[x]]
  BY DEF AppendAfterRoll
<1> HIDE DEF b
<1>4. /\ FilesInv'
      /\ DOMAIN logf' = DOMAIN logf \union {b}
      /\ \A c \in DOMAIN logf : logf'[c] = logf[c]
      /\ logf'[b] = <<>>
      /\ \A c \in DOMAIN logf' : c <= active \/ c = b
      /\ \A top \in DOMAIN logf' :
           (\A c \in DOMAIN logf' : c <= top) => top = b
      /\ \A a \in acked : a.off < b
  BY <1>1, <1>2, OrderCreated DEF b
<1>5. n = 0
  BY <1>3, <1>4, RecoveredWhole
<1>6. segs'[b].next = b /\ segs'[b].size = 0
  BY <1>1, <1>3, <1>4, <1>5 DEF NewSegment, FileEnd
<1>7. \A x \in DOMAIN segs : x # b => segs'[x] = segs[x]
  BY <1>3
<1>8. SegsInv'
  <2> SUFFICES ASSUME NEW x \in DOMAIN segs'
               PROVE  /\ segs'[x].next <= x + Len(logf'[x])
                      /\ segs'[x].size > 0 => x < segs'[x].next
    BY DEF SegsInv
  <2>1. CASE x = b
    BY <1>1, <1>4, <1>6, <2>1
  <2>2. CASE x # b
    <3>1. x \in DOMAIN segs /\ segs'[x] = segs[x]
      BY <1>3, <2>2
    <3>2. logf'[x] = logf[x]
      BY <1>t, <1>4, <3>1 DEF TypeOK
    <3> QED
      BY <3>1, <3>2 DEF OrderInv, SegsInv
  <2> QED
    BY <2>1, <2>2
<1>9. active < b /\ active \in Nat
  BY <1>t, <1>1, FullHasMessage DEF OrderInv, b, TypeOK
<1>10. ActiveInv'
  <2>1. \A c \in DOMAIN logf' : c <= b
    BY <1>t, <1>1, <1>4, <1>9 DEF TypeOK
  <2>2. idxf'[b] \in Seq(Entry)
    BY <1>4 DEF TypeOK
  <2>3. DOMAIN idxf'[b] = {}
    <3> SUFFICES ASSUME NEW i \in DOMAIN idxf'[b] PROVE FALSE
      OBVIOUS
    <3>1. idxf'[b][i].rel < 0
      BY <1>4 DEF FilesInv
    <3>2. idxf'[b][i] \in Entry
      BY <2>2
    <3> QED
      BY <3>1, <3>2 DEF Entry
  <2> QED
    BY <1>1, <1>4, <1>6, <2>1, <2>3 DEF ActiveInv
<1>11. ~IsFull(segs'[b])
  BY <1>6, ConfigAssumption DEF IsFull
<1>12. PendInv'
  BY <1>1, <1>11 DEF OrderInv, AckInv, PendInv, IsFull
<1>13. \A a \in acked : a.id \in Nat /\ a.off \in Nat
  BY <1>t DEF TypeOK
<1>14. AckInv'
  BY <1>1, <1>4, <1>13 DEF OrderInv, AckInv, OffsetsOrdered
<1> QED
  BY <1>4, <1>8, <1>10, <1>12, <1>14 DEF OtherInv

\* The write of the record leaves one record more than is counted.
LEMMA OrderWriteLog ==
  ASSUME OrderInv, TypeOK', WriteLog PROVE OtherInv'
<1>t. TypeOK
  BY DEF OrderInv, DurableInv
<1>1. /\ running /\ pend.size \in Nat /\ logf' = Written(pend.size)
      /\ pend.stage = "write" /\ pend'.stage = "index" /\ pend'.id = pend.id
      /\ UNCHANGED <<idxf, running, segs, active, nextId, acked>>
  BY <1>t, PendFields DEF WriteLog, mem, TypeOK, Pending
<1> DEFINE fr == [at |-> FileEnd(logf[active]), size |-> pend.size,
                  kept |-> pend.size, id |-> pend.id]
<1>2. /\ fr \in Frame /\ DOMAIN logf' = DOMAIN logf
      /\ logf'[active] = Append(logf[active], fr)
      /\ \A b \in DOMAIN logf : b # active => logf'[b] = logf[b]
  BY <1>t, <1>1, WrittenType
<1>3. Whole(fr)
  BY DEF Whole
<1> HIDE DEF fr
<1>4. /\ active \in DOMAIN logf /\ active \in DOMAIN segs /\ active \in Nat
      /\ logf[active] \in Seq(Frame) /\ Len(logf[active]) \in Nat
      /\ segs[active].next \in Nat
  BY <1>t, <1>1, ActiveFields DEF TypeOK
<1>5. Len(logf'[active]) = Len(logf[active]) + 1
  BY <1>2, <1>4, AppendKeeps
<1>6. \A b \in DOMAIN logf : Len(logf[b]) \in Nat /\ Len(logf[b]) <= Len(logf'[b])
                             /\ Len(logf'[b]) \in Nat
  BY <1>t, <1>2, <1>4, <1>5, Lengths
<1>7. \A b \in DOMAIN logf : \A i \in DOMAIN logf'[b] : Whole(logf'[b][i])
  <2> SUFFICES ASSUME NEW b \in DOMAIN logf, NEW i \in DOMAIN logf'[b]
               PROVE  Whole(logf'[b][i])
    OBVIOUS
  <2>1. CASE b = active
    <3>1. i \in 1 .. Len(logf[active]) + 1
      BY <1>2, <1>4, <1>5, <2>1
    <3>2. CASE i = Len(logf[active]) + 1
      BY <1>2, <1>3, <1>4, <2>1, <3>2, AppendKeeps
    <3>3. CASE i # Len(logf[active]) + 1
      <4>1. i \in DOMAIN logf[active] /\ logf'[b][i] = logf[active][i]
        BY <1>2, <1>4, <2>1, <3>1, <3>3, AppendKeeps
      <4> QED
        BY <1>4, <4>1 DEF OrderInv, FilesInv
    <3> QED
      BY <3>2, <3>3
  <2>2. CASE b # active
    BY <1>2, <2>2 DEF OrderInv, FilesInv
  <2> QED
    BY <2>1, <2>2
<1>8. FilesInv'
  <2>1. \A b \in DOMAIN logf : \A i \in DOMAIN idxf[b] : idxf[b][i].rel \in Nat
    <3> SUFFICES ASSUME NEW b \in DOMAIN logf, NEW i \in DOMAIN idxf[b]
                 PROVE  idxf[b][i].rel \in Nat
      OBVIOUS
    <3>1. idxf[b][i] \in Entry
      BY <1>t DEF TypeOK
    <3> QED
      BY <3>1 DEF Entry
  <2>2. \A b \in DOMAIN logf : \A i \in DOMAIN idxf[b] :
          idxf[b][i].rel < Len(logf'[b])
    BY <1>6, <2>1 DEF OrderInv, FilesInv
  <2>3. \A b \in DOMAIN logf : SortedIndex(idxf'[b])
    BY <1>1 DEF OrderInv, FilesInv
  <2> QED
    BY <1>1, <1>2, <1>7, <2>2, <2>3 DEF FilesInv, Whole, SortedIndex
<1>9. SegsInv'
  <2> SUFFICES ASSUME NEW b \in DOMAIN segs
               PROVE  /\ segs[b].next <= b + Len(logf'[b])
                      /\ segs[b].size > 0 => b < segs[b].next
    BY <1>1 DEF SegsInv
  <2>1. b \in Nat /\ b \in DOMAIN logf /\ segs[b].next \in Nat
    BY <1>t, SegFields
  <2> QED
    BY <1>6, <2>1 DEF OrderInv, SegsInv
<1>10. ActiveInv'
  <2>1. ~IsFull(segs[active])
    BY <1>1 DEF OrderInv, PendInv
  <2>2. \A c \in DOMAIN logf : c <= active
    BY <1>1, <2>1 DEF OrderInv, ActiveInv, Leftover
  <2> QED
    BY <1>1, <1>2, <2>2 DEF OrderInv, ActiveInv
<1>11. PendInv'
  <2>1. segs[active].next < active + Len(logf'[active])
    BY <1>4, <1>5 DEF OrderInv, SegsInv
  <2> QED
    BY <1>1, <2>1 DEF OrderInv, PendInv, IsFull
<1>12. AckInv'
  <2>1. ASSUME NEW top \in DOMAIN logf, \A b \in DOMAIN logf : b <= top,
               NEW a \in acked
        PROVE  a.off < top + Len(logf'[top])
    <3>1. a.off < top + Len(logf[top])
      BY <2>1 DEF OrderInv, AckInv
    <3>2. a.off \in Nat /\ top \in Nat
      BY <1>t DEF TypeOK
    <3> QED
      BY <1>6, <3>1, <3>2
  <2> QED
    BY <1>1, <1>2, <2>1 DEF OrderInv, AckInv, OffsetsOrdered
<1> QED
  BY <1>8, <1>9, <1>10, <1>11, <1>12 DEF OtherInv

\* The new entry follows the entries before it and points at a record.
LEMMA OrderIndexWritten ==
  ASSUME OrderInv, pend.stage = "index", IndexWritten, UNCHANGED logf
  PROVE  /\ FilesInv'
         /\ \A i \in DOMAIN idxf'[active] :
              idxf'[active][i].rel <= segs[active].next - active
<1>t. TypeOK /\ running
  BY PendFields DEF OrderInv, DurableInv
<1>1. /\ active \in DOMAIN logf /\ active \in Nat /\ segs[active].next \in Nat
      /\ idxf[active] \in Seq(Entry) /\ Len(idxf[active]) \in Nat
      /\ Len(logf[active]) \in Nat
  BY <1>t, ActiveFields DEF TypeOK
<1>2. NewEntry \in Entry /\ NewEntry.rel = segs[active].next - active
  BY <1>t, NewEntryType DEF NewEntry
<1>3. /\ DOMAIN idxf' = DOMAIN idxf /\ DOMAIN idxf = DOMAIN logf
      /\ idxf'[active] = Append(idxf[active], NewEntry)
      /\ \A b \in DOMAIN logf : b # active => idxf'[b] = idxf[b]
  BY <1>t, <1>2, IndexWrittenType DEF TypeOK
<1>4. \A i \in DOMAIN idxf[active] : idxf[active][i].rel <= NewEntry.rel
  BY <1>t, <1>2 DEF OrderInv, ActiveInv
<1>5. SortedIndex(idxf'[active])
  BY <1>1, <1>2, <1>3, <1>4, SortedAppend DEF OrderInv, FilesInv
<1>6. \A i \in DOMAIN idxf'[active] :
        \/ i \in DOMAIN idxf[active] /\ idxf'[active][i] = idxf[active][i]
        \/ idxf'[active][i] = NewEntry
  BY <1>1, <1>2, <1>3
<1>7. \A i \in DOMAIN idxf'[active] :
        idxf'[active][i].rel <= segs[active].next - active
  BY <1>1, <1>2, <1>4, <1>6
<1>8. \A i \in DOMAIN idxf'[active] : idxf'[active][i].rel < Len(logf[active])
  <2>1. NewEntry.rel < Len(logf[active])
    BY <1>1, <1>2 DEF OrderInv, PendInv
  <2> QED
    BY <1>1, <1>6, <2>1 DEF OrderInv, FilesInv
<1>9. FilesInv'
  <2> SUFFICES ASSUME NEW b \in DOMAIN logf
               PROVE  /\ \A i \in DOMAIN logf[b] : Whole(logf[b][i])
                      /\ SortedIndex(idxf'[b])
                      /\ \A i \in DOMAIN idxf'[b] : idxf'[b][i].rel < Len(logf[b])
    BY DEF FilesInv, Whole, SortedIndex
  <2>1. CASE b = active
    BY <1>5, <1>8, <2>1 DEF OrderInv, FilesInv
  <2>2. CASE b # active
    BY <1>3, <2>2 DEF OrderInv, FilesInv
  <2> QED
    BY <2>1, <2>2
<1> QED
  BY <1>7, <1>9

\* Index.Write and the increments of Segment.Append hand out a new largest
\* offset.
LEMMA OrderWriteIndex ==
  ASSUME OrderInv, WriteIndex PROVE OtherInv'
<1>t. TypeOK /\ running /\ pend.stage = "index"
  BY PendFields DEF OrderInv, DurableInv, WriteIndex
<1> DEFINE new == [next |-> segs[active].next + 1,
                   size |-> segs[active].size + pend.size,
                   mapped |-> Len(idxf'[active])]
<1>1. /\ IndexWritten /\ UNCHANGED <<logf, running, active, nextId, failed>>
      /\ segs' = [segs EXCEPT ![active] = new]
      /\ acked' = acked \union {[off |-> segs[active].next, id |-> pend.id]}
      /\ pend'.stage = "idle"
  BY DEF WriteIndex, Idle
<1>2. /\ active \in DOMAIN logf /\ active \in DOMAIN segs /\ active \in Nat
      /\ segs[active].next \in Nat /\ active <= segs[active].next
      /\ Len(logf[active]) \in Nat /\ segs \in [DOMAIN segs -> SegmentState]
  BY <1>t, SegFields, ActiveFields DEF TypeOK
<1>3. /\ DOMAIN segs' = DOMAIN segs /\ segs'[active].next = segs[active].next + 1
      /\ \A b \in DOMAIN segs : b # active => segs'[b] = segs[b]
  BY <1>1, <1>2
<1> HIDE DEF new
<1>4. /\ FilesInv'
      /\ \A i \in DOMAIN idxf'[active] :
           idxf'[active][i].rel <= segs[active].next - active
  BY <1>t, <1>1, OrderIndexWritten
<1>5. SegsInv'
  <2> SUFFICES ASSUME NEW b \in DOMAIN segs
               PROVE  /\ segs'[b].next <= b + Len(logf[b])
                      /\ segs'[b].size > 0 => b < segs'[b].next
    BY <1>1, <1>3 DEF SegsInv
  <2>1. CASE b = active
    BY <1>t, <1>2, <1>3, <2>1 DEF OrderInv, PendInv
  <2>2. CASE b # active
    BY <1>3, <2>2 DEF OrderInv, SegsInv
  <2> QED
    BY <2>1, <2>2
<1>6. \A c \in DOMAIN logf : c <= active
  BY <1>t DEF OrderInv, PendInv, ActiveInv, Leftover
<1>7. \A a \in acked : /\ a.off \in Nat /\ a.id \in Nat /\ a.id < pend.id
                       /\ a.off < segs[active].next
  BY <1>t DEF OrderInv, PendInv, ActiveInv, TypeOK
<1>8. ActiveInv'
  <2>1. \A i \in DOMAIN idxf'[active] :
          idxf'[active][i].rel <= segs'[active].next - active
    <3> SUFFICES ASSUME NEW i \in DOMAIN idxf'[active]
                 PROVE  idxf'[active][i].rel <= segs'[active].next - active
      OBVIOUS
    <3>1. idxf' \in [DOMAIN logf -> Seq(Entry)]
      BY <1>t, <1>1, NewEntryType, IndexWrittenType
    <3>2. idxf'[active][i] \in Entry
      BY <1>2, <3>1
    <3>3. idxf'[active][i].rel \in Nat
      BY <3>2 DEF Entry
    <3> QED
      BY <1>2, <1>3, <1>4, <3>3
  <2>2. \A a \in acked' : a.off < segs'[active].next
    BY <1>1, <1>2, <1>3, <1>7
  <2> QED
    BY <1>1, <1>6, <2>1, <2>2 DEF ActiveInv
<1>9. PendInv'
  BY <1>1 DEF PendInv
<1>10. AckInv'
  <2>1. pend.id \in Nat /\ pend.id < nextId
    BY <1>t, PendFields DEF OrderInv, PendInv
  <2>2. \A a \in acked' : a.id < nextId
    BY <1>1, <2>1 DEF OrderInv, AckInv
  <2>3. OffsetsOrdered'
    <3> SUFFICES ASSUME NEW a \in acked', NEW b \in acked', a.id < b.id
                 PROVE  a.off < b.off
      BY DEF OffsetsOrdered
    <3>1. CASE a \in acked /\ b \in acked
      BY <3>1 DEF OrderInv, AckInv, OffsetsOrdered
    <3>2. CASE a \in acked /\ b \notin acked
      BY <1>1, <1>7, <3>2
    <3>3. CASE a \notin acked
      BY <1>1, <1>7, <2>1, <3>3
    <3> QED
      BY <3>1, <3>2, <3>3
  <2>4. ASSUME NEW top \in DOMAIN logf, \A b \in DOMAIN logf : b <= top,
               NEW a \in acked'
        PROVE  a.off < top + Len(logf[top])
    <3>1. top = active
      BY <1>t, <1>2, <1>6, <2>4 DEF TypeOK
    <3>2. CASE a \in acked
      BY <2>4, <3>2 DEF OrderInv, AckInv
    <3>3. CASE a \notin acked
      BY <1>t, <1>1, <3>1, <3>3 DEF OrderInv, PendInv
    <3> QED
      BY <3>2, <3>3
  <2> QED
    BY <1>1, <2>2, <2>3, <2>4 DEF AckInv
<1> QED
  BY <1>4, <1>5, <1>8, <1>9, <1>10 DEF OtherInv

\* A failed remap leaves an entry that the next one does not fall behind.
LEMMA OrderRemapFails ==
  ASSUME OrderInv, RemapFails PROVE OtherInv'
<1>t. TypeOK /\ running /\ pend.stage = "index"
  BY PendFields DEF OrderInv, DurableInv, RemapFails
<1> DEFINE new == [next |-> segs[active].next, size |-> segs[active].size,
                   mapped |-> IF Platform = "unix" /\ segs[active].mapped # 0
                              THEN Dangling ELSE segs[active].mapped]
<1>1. /\ IndexWritten /\ UNCHANGED <<logf, running, active, nextId, acked>>
      /\ segs' = [segs EXCEPT ![active] = new]
      /\ pend'.stage = "idle"
  BY DEF RemapFails, Fail, Idle
<1>2. active \in DOMAIN segs /\ segs \in [DOMAIN segs -> SegmentState]
  BY <1>t, ActiveFields DEF TypeOK
<1>3. /\ DOMAIN segs' = DOMAIN segs
      /\ \A b \in DOMAIN segs : segs'[b].next = segs[b].next
                                /\ segs'[b].size = segs[b].size
  BY <1>1, <1>2
<1> HIDE DEF new
<1>4. /\ FilesInv'
      /\ \A i \in DOMAIN idxf'[active] :
           idxf'[active][i].rel <= segs[active].next - active
  BY <1>t, <1>1, OrderIndexWritten
<1>5. SegsInv'
  BY <1>1, <1>3 DEF OrderInv, SegsInv
<1>6. \A c \in DOMAIN logf : c <= active
  BY <1>t DEF OrderInv, PendInv, ActiveInv, Leftover
<1>7. ActiveInv'
  BY <1>t, <1>1, <1>2, <1>3, <1>4, <1>6 DEF OrderInv, ActiveInv
<1>8. PendInv'
  BY <1>1 DEF PendInv
<1>9. AckInv'
  BY <1>1 DEF OrderInv, AckInv, OffsetsOrdered
<1> QED
  BY <1>4, <1>5, <1>7, <1>8, <1>9 DEF OtherInv

-----------------------------------------------------------------------------
(* The invariant and the theorems.                                          *)

\* The empty partition satisfies the invariant.
LEMMA OrderInit == Init => OrderInv
<1> SUFFICES ASSUME Init PROVE OrderInv
  OBVIOUS
<1>1. DOMAIN logf = {} /\ DOMAIN segs = {} /\ acked = {} /\ pend.stage = "idle"
  BY DEF Init, Idle
<1>2. ~running
  BY Zenon DEF Init
<1>3. DurableInv
  BY <1>1, TypeInit DEF DurableInv
<1> QED
  BY <1>1, <1>2, <1>3 DEF OrderInv, FilesInv, SegsInv, ActiveInv, PendInv,
     AckInv, OffsetsOrdered

\* Every step that leaves no fragment keeps the invariant.
LEMMA OrderStep ==
  OrderInv /\ [Next]_vars /\ NoTornStep => OrderInv'
<1> SUFFICES ASSUME OrderInv, [Next]_vars, NoTornStep PROVE OrderInv'
  OBVIOUS
<1>1. DurableInv' /\ TypeOK'
  BY DurableStep DEF OrderInv, DurableInv
<1> SUFFICES OtherInv'
  BY <1>1 DEF OrderInv, OtherInv
<1>2. CASE Open
  BY <1>1, <1>2, OrderOpen
<1>3. CASE Close \/ Crash
  BY <1>3, OrderClosed DEF Close, Crash
<1>4. ASSUME NEW sz \in Sizes, AppendToActive(sz) PROVE OtherInv'
  BY <1>4, OrderAppendToActive
<1>5. ASSUME NEW sz \in Sizes, AppendAfterRoll(sz) PROVE OtherInv'
  BY <1>1, <1>5, OrderRoll
<1>6. CASE RollFails
  BY <1>6, OrderRollFails
<1>7. CASE WriteLog
  BY <1>1, <1>7, OrderWriteLog
<1>8. CASE WriteLogFails \/ IndexWriteFails
  BY <1>8, OrderFail DEF WriteLogFails, IndexWriteFails
<1>9. ASSUME NEW k \in TornSizes, WriteLogTorn(k) PROVE OtherInv'
  BY <1>9 DEF NoTornStep
<1>10. CASE WriteIndex
  BY <1>10, OrderWriteIndex
<1>11. CASE RemapFails
  BY <1>11, OrderRemapFails
<1>12. CASE UNCHANGED vars
  <2>1. FilesInv' /\ SegsInv' /\ PendInv'
    BY <1>12 DEF OrderInv, FilesInv, SegsInv, PendInv, IsFull, vars
  <2>2. ActiveInv' /\ AckInv'
    BY <1>12 DEF OrderInv, ActiveInv, Leftover, IsFull, AckInv, OffsetsOrdered, vars
  <2> QED
    BY <2>1, <2>2 DEF OtherInv
<1> QED
  BY <1>2, <1>3, <1>4, <1>5, <1>6, <1>7, <1>8, <1>9, <1>10, <1>11, <1>12
     DEF Next, AppendCall

\* A step that leaves the files without fragments starts from such files and
\* is no torn write.
LEMMA UnfragmentedBefore ==
  TypeOK /\ TypeOK' /\ [Next]_vars /\ Unfragmented' => Unfragmented /\ NoTornStep
<1> SUFFICES ASSUME TypeOK, TypeOK', [Next]_vars, Unfragmented'
             PROVE  Unfragmented /\ NoTornStep
  OBVIOUS
<1>1. AppendOnly
  BY StepAppendOnly
<1>2. ASSUME NEW b \in DOMAIN logf, NEW i \in DOMAIN logf[b]
      PROVE  Whole(logf[b][i])
  <2>1. logf[b] \in Seq(Frame) /\ b \in DOMAIN logf' /\ logf'[b] \in Seq(Frame)
    BY <1>1 DEF AppendOnly, TypeOK
  <2>2. Len(logf[b]) <= Len(logf'[b]) /\ logf'[b][i] = logf[b][i]
    BY <1>1 DEF AppendOnly
  <2>3. i \in DOMAIN logf'[b]
    BY <2>1, <2>2
  <2> QED
    BY <2>1, <2>2, <2>3 DEF Unfragmented, Whole
<1>3. ASSUME NEW k \in TornSizes, WriteLogTorn(k) PROVE FALSE
  <2>1. running /\ active \in DOMAIN logf /\ logf[active] \in Seq(Frame)
    BY <1>3, PendFields DEF WriteLogTorn, TypeOK
  <2> DEFINE fr == [at |-> FileEnd(logf[active]), size |-> pend.size, kept |-> k,
                    id |-> pend.id]
             n  == Len(logf[active]) + 1
  <2>2. logf' = [logf EXCEPT ![active] = Append(logf[active], fr)]
    BY <1>3 DEF WriteLogTorn, Written
  <2>3. logf'[active] = Append(logf[active], fr) /\ active \in DOMAIN logf'
    BY <2>1, <2>2
  <2>4. n \in DOMAIN logf'[active] /\ logf'[active][n] = fr
    BY <2>1, <2>3
  <2>5. Whole(fr)
    BY <2>3, <2>4 DEF Unfragmented, Whole
  <2>6. k < pend.size /\ k \in Nat /\ pend.size \in Nat
    BY <1>3, PendFields, ConfigAssumption DEF WriteLogTorn
  <2> QED
    BY <2>5, <2>6 DEF Whole
<1> QED
  BY <1>2, <1>3 DEF Unfragmented, NoTornStep

\* Whatever fails, until a torn write leaves a fragment, the counts of the
\* segments, the entries of the indexes and the offsets handed out never run
\* ahead of the records in the files (segment.go:61-120): the invariant behind
\* the theorems below.
THEOREM OrderInvariant == Spec => [](Unfragmented => OrderInv)
<1> DEFINE I == TypeOK /\ (Unfragmented => OrderInv)
<1>1. Init => I
  BY OrderInit, TypeInit
<1>2. I /\ [Next]_vars => I'
  <2> SUFFICES ASSUME I, [Next]_vars PROVE I'
    OBVIOUS
  <2>1. TypeOK'
    BY TypeStep
  <2>2. ASSUME Unfragmented' PROVE OrderInv'
    BY <2>1, <2>2, UnfragmentedBefore, OrderStep
  <2> QED
    BY <2>1, <2>2
<1> QED
  BY <1>1, <1>2, PTL DEF Spec

\* Offsets are handed out in the order of the Appends, through failed Appends,
\* crashes and restarts, until a torn write leaves a fragment.
THEOREM OffsetsInOrder == Spec => []AckedOrdered
<1>1. (Unfragmented => OrderInv) => AckedOrdered
  BY DEF OrderInv, AckInv, AckedOrdered, OffsetsOrdered
<1> QED
  BY <1>1, OrderInvariant, PTL

\* Until a torn write leaves a fragment, every index file is sorted at all
\* times: what the binary search of Index.Lookup assumes (theorem
\* LookupIsCorrect).
THEOREM IndexesStaySorted == Spec => []IndexesSorted
<1>1. (Unfragmented => OrderInv) => IndexesSorted
  BY DEF OrderInv, FilesInv, DurableInv, TypeOK, IndexesSorted
<1> QED
  BY <1>1, OrderInvariant, PTL

\* Until a torn write leaves a fragment, an open log counts no message that has
\* no record.
THEOREM CountedIsRecorded == Spec => []OffsetsHaveRecords
<1>1. ASSUME OrderInv PROVE OffsetsHaveRecords
  <2> SUFFICES ASSUME NEW b \in DOMAIN segs
               PROVE  Cardinality({i \in DOMAIN logf[b] : Whole(logf[b][i])})
                        >= segs[b].next - b
    BY DEF OffsetsHaveRecords
  <2>1. b \in Nat /\ b \in DOMAIN logf /\ Len(logf[b]) \in Nat
        /\ logf[b] \in Seq(Frame) /\ segs[b].next \in Nat
    BY <1>1, SegFields DEF OrderInv, DurableInv
  <2>2. {i \in DOMAIN logf[b] : Whole(logf[b][i])} = 1 .. Len(logf[b])
    BY <1>1, <2>1 DEF OrderInv, FilesInv
  <2> DEFINE n == Len(logf[b])
  <2>3. Cardinality(1 .. n) = n
    <3>1. \A k \in Int : Cardinality(1 .. k) = IF 1 > k THEN 0 ELSE k - 1 + 1
      BY FS_Interval
    <3>2. n \in Nat
      BY <2>1
    <3> HIDE DEF n
    <3> QED
      BY <3>1, <3>2
  <2>4. segs[b].next <= b + Len(logf[b])
    BY <1>1 DEF OrderInv, SegsInv
  <2>5. n >= segs[b].next - b
    BY <2>1, <2>4
  <2> QED
    BY <2>2, <2>3, <2>5
<1>2. (Unfragmented => OrderInv) => OffsetsHaveRecords
  BY <1>1 DEF OffsetsHaveRecords
<1> QED
  BY <1>2, OrderInvariant, PTL

-----------------------------------------------------------------------------
(* The first segment and the first record of each.                          *)

\* A log that has files has the one for offset 0, and an open one its segment;
\* the first record of every file is at its beginning.
FirstInv ==
  /\ DOMAIN logf # {} => 0 \in DOMAIN logf
  /\ running => 0 \in DOMAIN segs
  /\ \A b \in DOMAIN logf : logf[b] # <<>> => logf[b][1].at = 0

\* A step that creates at most empty files.
LEMMA FirstKept ==
  ASSUME FirstInv, DOMAIN logf \subseteq DOMAIN logf', 0 \in DOMAIN logf,
         \A b \in DOMAIN logf' : logf'[b] = IF b \in DOMAIN logf THEN logf[b] ELSE <<>>,
         running' => 0 \in DOMAIN segs'
  PROVE  FirstInv'
  BY DEF FirstInv

\* The record an Append writes to an empty file is at its beginning.
LEMMA FirstWritten ==
  ASSUME TypeOK, FirstInv, NEW k \in Nat, pend.stage = "write", logf' = Written(k),
         UNCHANGED <<running, segs>>
  PROVE  FirstInv'
<1>1. active \in DOMAIN logf /\ logf[active] \in Seq(Frame)
  BY DEF TypeOK, Idle
<1> DEFINE f == logf[active]
           r == [at |-> FileEnd(f), size |-> pend.size, kept |-> k, id |-> pend.id]
<1>2. logf' = [logf EXCEPT ![active] = Append(f, r)]
  BY <1>1 DEF Written
<1>3. ASSUME f = <<>> PROVE r.at = 0
  BY <1>3 DEF FileEnd
<1> HIDE DEF r
<1>4. Append(f, r)[1] = IF f = <<>> THEN r ELSE f[1]
  BY <1>1
<1>5. f # <<>> => f[1].at = 0
  BY <1>1 DEF FirstInv
<1>6. Append(f, r)[1].at = 0
  BY <1>3, <1>4, <1>5
<1> HIDE DEF f
<1>7. ASSUME NEW b \in DOMAIN logf', logf'[b] # <<>> PROVE logf'[b][1].at = 0
  <2>1. CASE b = active
    BY <1>1, <1>2, <1>6, <2>1
  <2>2. CASE b # active
    BY <1>1, <1>2, <1>7, <2>2 DEF FirstInv
  <2> QED
    BY <2>1, <2>2
<1> QED
  BY <1>1, <1>2, <1>7 DEF FirstInv

\* Every step, whatever fails, keeps the first segment and the first records.
LEMMA FirstStep == TypeOK /\ FirstInv /\ [Next]_vars => FirstInv'
<1> SUFFICES ASSUME TypeOK, FirstInv, [Next]_vars PROVE FirstInv'
  OBVIOUS
<1>1. CASE Open
  <2>1. /\ 0 \in DOMAIN logf' /\ DOMAIN segs' = DOMAIN logf'
        /\ \A b \in DOMAIN logf' : logf'[b] = IF b \in DOMAIN logf THEN logf[b] ELSE <<>>
    BY <1>1, Zenon DEF Open, Created, FirstInv
  <2> QED
    BY <2>1 DEF FirstInv
<1>2. CASE Closed /\ UNCHANGED disk
  BY <1>2 DEF FirstInv, Closed, disk
<1>3. ASSUME NEW sz \in Sizes, AppendAfterRoll(sz) PROVE FirstInv'
  <2>1. /\ DOMAIN logf \subseteq DOMAIN logf' /\ DOMAIN segs \subseteq DOMAIN segs' /\ running
        /\ \A b \in DOMAIN logf' : logf'[b] = IF b \in DOMAIN logf THEN logf[b] ELSE <<>>
    BY <1>3, Zenon DEF AppendAfterRoll, Begin, Created
  <2>2. 0 \in DOMAIN segs /\ 0 \in DOMAIN logf
    BY <2>1 DEF FirstInv, TypeOK
  <2> QED
    BY <2>1, <2>2, FirstKept
<1>4. CASE RollFails
  <2>1. /\ DOMAIN logf \subseteq DOMAIN logf' /\ segs' = segs /\ running
        /\ \A b \in DOMAIN logf' : logf'[b] = IF b \in DOMAIN logf THEN logf[b] ELSE <<>>
    BY <1>4, Zenon DEF RollFails, Created, disk, mem
  <2>2. 0 \in DOMAIN segs /\ 0 \in DOMAIN logf
    BY <2>1 DEF FirstInv, TypeOK
  <2> QED
    BY <2>1, <2>2, FirstKept
<1>5. CASE logf' = logf /\ DOMAIN segs' = DOMAIN segs /\ running' = running
  BY <1>5 DEF FirstInv
<1>6. CASE \E sz \in Sizes : AppendToActive(sz)
  BY <1>5, <1>6 DEF AppendToActive, Begin, disk
<1>7. CASE WriteLog
  <2>1. pend.size \in Nat
    BY DEF TypeOK, Pending
  <2> QED
    BY <1>7, <2>1, FirstWritten DEF WriteLog, mem
<1>8. ASSUME NEW k \in TornSizes, WriteLogTorn(k) PROVE FirstInv'
  BY <1>8, FirstWritten, ConfigAssumption DEF WriteLogTorn, mem
<1>9. CASE WriteLogFails \/ IndexWriteFails
  BY <1>5, <1>9 DEF WriteLogFails, IndexWriteFails, disk, mem
<1>10. CASE WriteIndex \/ RemapFails
  BY <1>5, <1>10, Zenon DEF WriteIndex, RemapFails
<1>11. CASE UNCHANGED vars
  BY <1>5, <1>11 DEF vars
<1> QED
  BY <1>1, <1>2, <1>3, <1>4, <1>6, <1>7, <1>8, <1>9, <1>10, <1>11
     DEF Next, AppendCall, Close, Crash

\* Whatever fails, a log with files has the one for offset 0, an open log has
\* its segment, and every file has its first record at its beginning
\* (log.go:53-59, segment.go:90-108).
THEOREM FirstInvariant == Spec => []FirstInv
<1>1. Init => FirstInv
  BY DEF Init, FirstInv
<1>2. TypeOK /\ FirstInv /\ [Next]_vars => FirstInv'
  BY FirstStep
<1> QED
  BY <1>1, <1>2, TypeCorrect, PTL DEF Spec
=============================================================================
