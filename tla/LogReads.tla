------------------------------ MODULE LogReads ------------------------------
(***************************************************************************)
(* What the read side of the commit log answers in a state of CommitLog:   *)
(* Segment.Read and ReadFrom (segment.go), CommitLog.Read and ReadFrom     *)
(* (log.go).  They change no file and no struct (other than the file       *)
(* cursor, the subject of module SegmentReaders), so they are operators on *)
(* the state rather than actions.  They are defined for log files without  *)
(* fragments and for a mapped index, which every run of this module has.   *)
(***************************************************************************)
EXTENDS CommitLog, FiniteSetsExt

CONSTANT FetchSizes  \* the values of maxCount a caller may pass

ASSUME FetchAssumption ==
  /\ FetchSizes \subseteq Nat
  /\ "torn" \notin Faults
  /\ "remap" \notin Faults

Mapped(b) == SubSeq(idxf[b], 1, segs[b].mapped)

\* Mutant: the record found is labelled with the segment's base even when the
\* index led to a later one.
SegmentReadFromBase(b, offset, maxCount) ==
  LET from  == Max({offset, b})
      pos   == Lookup(Mapped(b), from - b)
      first == CHOOSE i \in DOMAIN logf[b] : logf[b][i].at = pos
      skip  == from - b
      n     == Min({maxCount, segs[b].next - from,
                    Len(logf[b]) - (first + skip - 1)})
  IN  IF from >= segs[b].next THEN <<>>
      ELSE [i \in 1 .. Max({n, 0}) |->
              [off |-> from + i - 1, id |-> logf[b][first + skip + i - 1].id]]

\* Segment.ReadFrom.  The scan starts at the record the index names.  If its
\* position is 0 the record is taken to have the base offset and the scan
\* skips to the target; if not, it is taken to be the target itself.  From
\* there on the scan labels the records one by one, up to nextOffset or the
\* end of the file.
SegmentReadFrom(b, offset, maxCount) ==
  LET from  == Max({offset, b})
      pos   == Lookup(Mapped(b), from - b)
      first == CHOOSE i \in DOMAIN logf[b] : logf[b][i].at = pos
      skip  == IF pos > 0 THEN 0 ELSE from - b
      n     == Min({maxCount, segs[b].next - from,
                    Len(logf[b]) - (first + skip - 1)})
  IN  IF from >= segs[b].next THEN <<>>
      ELSE [i \in 1 .. Max({n, 0}) |->
              [off |-> from + i - 1, id |-> logf[b][first + skip + i - 1].id]]

\* Segment.Read; the empty sequence is ErrNotFound.
SegmentRead(b, offset) ==
  IF offset < b \/ offset >= segs[b].next THEN <<>>
  ELSE SegmentReadFrom(b, offset, 1)

\* CommitLog.Read: the last segment whose base is not after the offset.
Read(offset) ==
  LET below == {b \in DOMAIN segs : b <= offset}
  IN  IF below = {} THEN <<>> ELSE SegmentRead(Max(below), offset)

\* One round of the loop of CommitLog.ReadFrom, with what the rounds before it
\* collected: a segment that ends at or before the current offset is skipped,
\* and nothing is read once there are maxCount messages.  The current offset
\* advances by the number of messages read.
Visit(acc, b, maxCount) ==
  IF \/ b \notin DOMAIN segs
     \/ Len(acc.result) >= maxCount
     \/ segs[b].next <= acc.currentOff
  THEN acc
  ELSE LET msgs == SegmentReadFrom(b, acc.currentOff, maxCount - Len(acc.result))
       IN  [result     |-> acc.result \o msgs,
            currentOff |-> acc.currentOff + Len(msgs)]

\* CommitLog.ReadFrom: the segments in the order of their base offsets, to which
\* NewCommitLog sorts them; visit[b] is what those with a base below b gave.
ReadFrom(offset, maxCount) ==
  LET visit[b \in Nat] ==
        IF b = 0 THEN [result |-> <<>>, currentOff |-> offset]
        ELSE Visit(visit[b - 1], b - 1, maxCount)
  IN  visit[Max(DOMAIN segs) + 1].result

\* Mutant: only the messages of the active segment are counted.
ActiveCount == segs[active].next - active

\* What LIST_TOPICS, the HTTP API and the dashboard's lag are computed from.
MessageCount == segs[active].next

NewestOffset == IF segs[active].next = 0 THEN 0 ELSE segs[active].next - 1

OldestOffset == Min(DOMAIN segs)

-----------------------------------------------------------------------------
(* Properties.  Readers wait for the lock of a running Append.              *)

Readable == running /\ pend.stage = "idle"

\* Where the records of all segments are, and which of them come before one of
\* them in the order of the log.
Places == UNION {{<<b, i>> : i \in DOMAIN logf[b]} : b \in DOMAIN segs}

Before(p) == {q \in Places : q[1] < p[1] \/ (q[1] = p[1] /\ q[2] < p[2])}

PlaceOf(n) == CHOOSE p \in Places : Cardinality(Before(p)) = n

\* The records of all segments in the order of the log, with the offsets that
\* follow from that order.
Stream ==
  [k \in 1 .. Cardinality(Places) |->
     [off |-> k - 1,
      id  |-> logf[PlaceOf(k - 1)[1]][PlaceOf(k - 1)[2]].id]]

\* The counters describe the log: as many messages as there are records in all
\* segments together, the oldest and the newest offset those of its first and
\* last record, through rolls, failed Appends, crashes and restarts
\* (log.go:130-149).
StatsExact ==
  Readable =>
    /\ MessageCount = Len(Stream)
    /\ OldestOffset = 0
    /\ Stream # <<>> => NewestOffset = Stream[Len(Stream)].off

\* The records in the files under the offsets their places give them, and the
\* offset the next one will get.
Records ==
  UNION {{[off |-> b + i - 1, id |-> logf[b][i].id] : i \in DOMAIN logf[b]}
         : b \in DOMAIN logf}

Visible == IF running THEN segs[active].next ELSE -1

Log == INSTANCE PartitionLog
         WITH Ids <- 0 .. MaxAppends - 1, log <- Records, visible <- Visible

\* Segment files, indexes, rolls, failed Appends, crashes and the recovery scan
\* together implement the log a partition promises (log.go:20-87,
\* segment.go:31-120): each step of theirs is one of PartitionLog or changes
\* nothing a caller can tell.
ImplementsLog == Log!Spec

\* A successful Append can be read back at the offset it returned, from then
\* on, across segment rolls, crashes and restarts (log.go:89-104).
AckedReadable ==
  Readable => \A a \in acked : Read(a.off) = <<a>>

\* A fetch that starts at the offset of a successful Append returns the records
\* of the log from there on, in order, none twice and none left out, however
\* many segments it crosses (log.go:106-128).
FetchFromAcked ==
  Readable =>
    \A a \in acked, m \in FetchSizes :
      ReadFrom(a.off, m) =
        SubSeq(Stream, a.off + 1, Min({a.off + m, Len(Stream)}))

\* A fetch from any offset returns the records of the log from there on, which
\* is what the comments in Segment.ReadFrom rely on: every message is indexed,
\* so the lookup "is exact for offsets that exist" (segment.go:153-162).
FetchExact ==
  Readable =>
    \A o \in 0 .. Len(Stream), m \in FetchSizes :
      ReadFrom(o, m) = SubSeq(Stream, o + 1, Min({o + m, Len(Stream)}))
=============================================================================
