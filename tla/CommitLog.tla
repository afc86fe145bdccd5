----------------------------- MODULE CommitLog -----------------------------
(***************************************************************************)
(* One partition's commit log: the .log and .index files in its directory  *)
(* and the CommitLog, Segment and Index structs the broker keeps over them *)
(* (broker/storage/log.go, segment.go, index.go, mmap_*.go).               *)
(*                                                                         *)
(* Append runs under CommitLog.mu from its first to its last line, so only *)
(* a crash or an I/O error comes between its steps: `pend' says how far    *)
(* the running Append has got.  Files outlive the process; everything else *)
(* is lost by Crash and Close and rebuilt by Open.  A crash is the death   *)
(* of the process: what write(2) accepted stays.                           *)
(*                                                                         *)
(* Positions and sizes are bytes.  The key, value and timestamp of a       *)
(* record are abstracted to `id', the number of the Append that wrote it.  *)
(***************************************************************************)
EXTENDS Index, FiniteSets

CONSTANTS
  MaxSegmentBytes,  \* CommitLog.maxSegmentBytes
  Sizes,            \* the lengths an encoded record may have, header included
  TornSizes,        \* the lengths a partial write may leave behind
  Faults,           \* the failures that may happen, a subset of FaultKinds
  Platform,         \* which of mmap_unix.go and mmap_windows.go is built
  MaxAppends        \* bound: the number of Append calls in a behaviour

HeaderLen == 4      \* the uint32 totalLen in front of every record
MinRecord == 18     \* 4 + 8 + 2 + 4: the encoding of an empty key and value

\* crash: the process dies.  write: file.Write of the record fails and leaves
\* nothing.  torn: it fails and leaves a prefix.  roll: NewSegment fails in
\* Append.  index: Index.file.WriteAt fails.  remap: mapFile fails.
FaultKinds == {"crash", "write", "torn", "roll", "index", "remap"}

ASSUME ConfigAssumption ==
  /\ MaxSegmentBytes \in Nat \ {0}
  /\ Sizes \subseteq {n \in Nat : n >= MinRecord}
  /\ TornSizes \subseteq Nat \ {0}
  /\ Faults \subseteq FaultKinds
  /\ Platform \in {"unix", "windows"}
  /\ MaxAppends \in Nat

VARIABLES
  logf,     \* base offset -> the records in <base>.log
  idxf,     \* base offset -> the entries in <base>.index
  running,  \* the partition is open
  segs,     \* CommitLog.segments by base offset: nextOffset, size and the
            \* number of entries of Index.mmap
  active,   \* the base offset of CommitLog.activeSegment
  pend,     \* the Append in progress
  nextId,   \* the number of Append calls so far
  acked,    \* offset and id of every Append that returned without an error
  failed    \* the ids of the Appends that returned an error

disk == <<logf, idxf>>
mem  == <<running, segs, active>>
vars == <<logf, idxf, running, segs, active, pend, nextId, acked, failed>>

-----------------------------------------------------------------------------
(* The files.  A frame is what one file.Write left: `kept' of its `size'    *)
(* bytes, starting at byte `at'.                                            *)

Frame == [at : Nat, size : Nat, kept : Nat, id : Nat]

Whole(fr) == fr.kept = fr.size

FileEnd(f) == IF f = <<>> THEN 0 ELSE f[Len(f)].at + f[Len(f)].kept

\* Mutant: the scan is left out and every file opened as an empty one.
ScanLeftOut(f) == {0}

\* The number of messages NewSegment's scan of the file can count.  It follows
\* the length headers: over whole records it counts each one.  A fragment at
\* the end of the file is counted when its header is complete (the seek past
\* the end succeeds) and makes the scan fail when it is not.  Behind a
\* fragment inside the file the scan reads payload bytes as headers: any count
\* that consumes four bytes a time, or a failure.
RecoveredCounts(f) ==
  LET torn == {i \in DOMAIN f : ~Whole(f[i])}
  IN  IF torn = {} THEN {Len(f)}
      ELSE {n \in 1 .. Len(f) + FileEnd(f) :
              \E k \in torn :
                /\ \A j \in torn : k <= j
                /\ k = Len(f) => n = k /\ f[k].kept >= HeaderLen
                /\ k < Len(f) =>
                     n \in k .. k + (FileEnd(f) - f[k].at) \div HeaderLen}

\* What O_CREATE makes of the files when the file of base b is opened.
Created(files, b) ==
  [x \in DOMAIN files \union {b} |->
     IF x \in DOMAIN files THEN files[x] ELSE <<>>]

-----------------------------------------------------------------------------
(* The structs.                                                             *)

Dangling == -1  \* Index.mmap still holds a slice that was unmapped

SegmentState == [next : Nat, size : Nat, mapped : Nat \union {Dangling}]

\* NewSegment over the log file f and the index file x, whose scan counted n.
NewSegment(b, f, x, n) ==
  [next |-> b + n, size |-> FileEnd(f), mapped |-> Len(x)]

IsFull(s) == s.size >= MaxSegmentBytes

Idle == [stage |-> "idle", id |-> 0, size |-> 0]

Pending ==
  [stage : {"idle", "write", "index"}, id : Nat, size : Nat]

Closed ==
  /\ running' = FALSE
  /\ segs' = [b \in {} |-> 0]
  /\ active' = 0
  /\ pend' = Idle

\* Append returns an error to its caller.
Fail ==
  /\ failed' = failed \union {pend.id}
  /\ pend' = Idle

-----------------------------------------------------------------------------
(* Opening and closing.                                                     *)

\* NewCommitLog: every *.log file becomes a segment, in the order of the base
\* offsets, the last one active; an empty directory gets a segment at 0.
\* When the scan of a file fails there is no such step: the partition stays
\* closed.
Open ==
  /\ ~running
  /\ LET dir   == IF DOMAIN logf = {} THEN Created(logf, 0) ELSE logf
         xdir  == IF DOMAIN logf = {} THEN Created(idxf, 0) ELSE idxf
         bases == DOMAIN dir
     IN  /\ logf' = dir
         /\ idxf' = xdir
         /\ \E n \in [bases -> UNION {RecoveredCounts(dir[b]) : b \in bases}] :
              /\ \A b \in bases : n[b] \in RecoveredCounts(dir[b])
              /\ segs' = [b \in bases |-> NewSegment(b, dir[b], xdir[b], n[b])]
         /\ \E top \in bases :
              /\ \A b \in bases : b <= top
              /\ active' = top
  /\ running' = TRUE
  /\ UNCHANGED <<pend, nextId, acked, failed>>

\* CommitLog.Close, which waits for the lock of a running Append.
Close ==
  /\ running
  /\ pend.stage = "idle"
  /\ Closed
  /\ UNCHANGED <<disk, nextId, acked, failed>>

Crash ==
  /\ "crash" \in Faults
  /\ running
  /\ Closed
  /\ UNCHANGED <<disk, nextId, acked, failed>>

-----------------------------------------------------------------------------
(* Append, step by step.                                                    *)

\* Append is called with a record of sz bytes.
Begin(sz) ==
  /\ running
  /\ pend.stage = "idle"
  /\ nextId < MaxAppends
  /\ nextId' = nextId + 1
  /\ pend' = [stage |-> "write", id |-> nextId, size |-> sz]
  /\ UNCHANGED <<running, acked, failed>>

\* There is room in the active segment.
AppendToActive(sz) ==
  /\ Begin(sz)
  /\ ~IsFull(segs[active])
  /\ UNCHANGED <<disk, segs, active>>

\* Mutant: the new segment is not added to CommitLog.segments.
RollNotAdded(sz) ==
  /\ Begin(sz)
  /\ IsFull(segs[active])
  /\ LET b == segs[active].next
     IN  /\ logf' = Created(logf, b)
         /\ idxf' = Created(idxf, b)
         /\ active' = b
  /\ UNCHANGED segs

\* Mutant: the new segment is opened at the last offset of the full one.
RollAtNewest(sz) ==
  /\ Begin(sz)
  /\ IsFull(segs[active])
  /\ LET b == segs[active].next - 1
     IN  /\ logf' = Created(logf, b)
         /\ idxf' = Created(idxf, b)
         /\ segs' = [x \in DOMAIN segs \union {b} |->
                       IF x = b THEN NewSegment(b, <<>>, <<>>, 0) ELSE segs[x]]
         /\ active' = b

\* The active segment is full: the next one starts at its nextOffset.
AppendAfterRoll(sz) ==
  /\ Begin(sz)
  /\ IsFull(segs[active])
  /\ LET b == segs[active].next
     IN  /\ logf' = Created(logf, b)
         /\ idxf' = Created(idxf, b)
         /\ \E n \in RecoveredCounts(logf'[b]) :
              segs' = [x \in DOMAIN segs \union {b} |->
                         IF x = b THEN NewSegment(b, logf'[b], idxf'[b], n)
                         ELSE segs[x]]
         /\ active' = b

\* NewSegment fails; its files may have been created before it did.
RollFails ==
  /\ "roll" \in Faults
  /\ running
  /\ pend.stage = "idle"
  /\ nextId < MaxAppends
  /\ IsFull(segs[active])
  /\ LET b == segs[active].next
     IN  \/ UNCHANGED disk
         \/ /\ logf' = Created(logf, b)
            /\ idxf' = Created(idxf, b)
  /\ nextId' = nextId + 1
  /\ failed' = failed \union {nextId}
  /\ UNCHANGED <<mem, pend, acked>>

\* The bytes of the pending record that file.Write leaves.  The file is open
\* with O_APPEND: they go to its end, wherever the struct thinks that is.
Written(k) ==
  [logf EXCEPT ![active] =
     Append(@, [at |-> FileEnd(@), size |-> pend.size, kept |-> k,
                id |-> pend.id])]

\* Mutant: the file is opened without O_APPEND and written at Segment.size.
WriteLogAtSize ==
  /\ pend.stage = "write"
  /\ logf' = [logf EXCEPT ![active] =
       Append(SelectSeq(@, LAMBDA fr : fr.at < segs[active].size),
              [at |-> segs[active].size, size |-> pend.size,
               kept |-> pend.size, id |-> pend.id])]
  /\ pend' = [pend EXCEPT !.stage = "index"]
  /\ UNCHANGED <<idxf, mem, nextId, acked, failed>>

WriteLog ==
  /\ pend.stage = "write"
  /\ logf' = Written(pend.size)
  /\ pend' = [pend EXCEPT !.stage = "index"]
  /\ UNCHANGED <<idxf, mem, nextId, acked, failed>>

\* Mutant: the error of file.Write is not looked at.
WriteLogFailureIgnored ==
  /\ "write" \in Faults
  /\ pend.stage = "write"
  /\ pend' = [pend EXCEPT !.stage = "index"]
  /\ UNCHANGED <<disk, mem, nextId, acked, failed>>

WriteLogFails ==
  /\ "write" \in Faults
  /\ pend.stage = "write"
  /\ Fail
  /\ UNCHANGED <<disk, mem, nextId, acked>>

\* A short write: Append returns the error and leaves the fragment.  (A crash
\* in the middle of a write is this step followed by Crash.)
WriteLogTorn(k) ==
  /\ "torn" \in Faults
  /\ pend.stage = "write"
  /\ k < pend.size
  /\ logf' = Written(k)
  /\ Fail
  /\ UNCHANGED <<idxf, mem, nextId, acked>>

\* Mutant: the position is taken after Segment.size has been increased.
EntryAfterBump == [rel |-> segs[active].next - active,
                   pos |-> segs[active].size + pend.size]

\* The entry Segment.Append hands to Index.Write: the position is
\* Segment.size, not the end of the file.
NewEntry == [rel |-> segs[active].next - active, pos |-> segs[active].size]

IndexWritten == idxf' = [idxf EXCEPT ![active] = Append(@, NewEntry)]

\* On Windows mapFile reads the file from the cursor, which the previous call
\* left behind the entries it read: only the first call finds enough bytes.
MapFileOk == Platform = "unix" \/ idxf[active] = <<>>

\* munmapFile refuses a slice that was unmapped before.
MunmapOk == segs[active].mapped # Dangling

\* Mutant: nextOffset is not advanced.
WriteIndexNoBump ==
  /\ pend.stage = "index"
  /\ MunmapOk
  /\ MapFileOk
  /\ IndexWritten
  /\ segs' = [segs EXCEPT ![active] =
       [next |-> @.next, size |-> @.size + pend.size,
        mapped |-> Len(idxf'[active])]]
  /\ acked' = acked \union {[off |-> segs[active].next, id |-> pend.id]}
  /\ pend' = Idle
  /\ UNCHANGED <<logf, running, active, nextId, failed>>

\* Index.Write succeeds, the struct is advanced and Append returns the offset.
WriteIndex ==
  /\ pend.stage = "index"
  /\ MunmapOk
  /\ MapFileOk
  /\ IndexWritten
  /\ segs' = [segs EXCEPT ![active] =
       [next |-> @.next + 1, size |-> @.size + pend.size,
        mapped |-> Len(idxf'[active])]]
  /\ acked' = acked \union {[off |-> segs[active].next, id |-> pend.id]}
  /\ pend' = Idle
  /\ UNCHANGED <<logf, running, active, nextId, failed>>

IndexWriteFails ==
  /\ "index" \in Faults
  /\ pend.stage = "index"
  /\ Fail
  /\ UNCHANGED <<disk, mem, nextId, acked>>

\* The entry is in the file but munmapFile or mapFile fails.  A unix mapping
\* that was unmapped stays in Index.mmap.
RemapFails ==
  /\ pend.stage = "index"
  /\ ~MunmapOk \/ ~MapFileOk \/ (Platform = "unix" /\ "remap" \in Faults)
  /\ IndexWritten
  /\ segs' = [segs EXCEPT ![active] =
       [next |-> @.next, size |-> @.size,
        mapped |-> IF Platform = "unix" /\ @.mapped # 0 THEN Dangling
                   ELSE @.mapped]]
  /\ Fail
  /\ UNCHANGED <<logf, running, active, nextId, acked>>

-----------------------------------------------------------------------------

Init ==
  /\ logf = [b \in {} |-> <<>>]
  /\ idxf = [b \in {} |-> <<>>]
  /\ running = FALSE
  /\ segs = [b \in {} |-> 0]
  /\ active = 0
  /\ pend = Idle
  /\ nextId = 0
  /\ acked = {}
  /\ failed = {}

AppendCall ==
  \E sz \in Sizes : AppendToActive(sz) \/ AppendAfterRoll(sz)

Next ==
  \/ Open
  \/ Close
  \/ Crash
  \/ AppendCall
  \/ RollFails
  \/ WriteLog
  \/ WriteLogFails
  \/ \E k \in TornSizes : WriteLogTorn(k)
  \/ WriteIndex
  \/ IndexWriteFails
  \/ RemapFails

Spec == Init /\ [][Next]_vars

-----------------------------------------------------------------------------
(* Properties.                                                              *)

\* The files, the structs and the running Append have the shapes the code
\* gives them; an open log has an active segment among its segments, each
\* segment has its two files, and none counts down from its base.
TypeOK ==
  /\ DOMAIN logf \subseteq Nat
  /\ logf \in [DOMAIN logf -> Seq(Frame)]
  /\ idxf \in [DOMAIN logf -> Seq(Entry)]
  /\ running \in BOOLEAN
  /\ segs \in [DOMAIN segs -> SegmentState]
  /\ DOMAIN segs \subseteq DOMAIN logf
  /\ \A b \in DOMAIN segs : b <= segs[b].next
  /\ active \in Nat
  /\ running => active \in DOMAIN segs
  /\ pend \in Pending
  /\ ~running => pend = Idle
  /\ nextId \in Nat
  /\ acked \subseteq [off : Nat, id : Nat]
  /\ failed \subseteq Nat

\* The records of a file in front of its first fragment.
Intact(f) == {i \in DOMAIN f : \A j \in 1 .. i : Whole(f[j])}

\* A complete record stays in its file and at its place, acknowledged or not,
\* through every later Append, failure, crash and restart (segment.go:35,
\* O_APPEND, although Segment.size may have fallen behind the file's end), as
\* long as no fragment is in front of it.  A recovery that cuts a file at its
\* first fragment, which PROJECT_REPORT.md:431-435 describes and the code does not
\* have, may change no more than this allows.
IntactKept ==
  \A b \in DOMAIN logf :
    /\ b \in DOMAIN logf'
    /\ \A i \in Intact(logf[b]) : i \in DOMAIN logf'[b] /\ logf'[b][i] = logf[b][i]

RecordsStay == [][IntactKept]_vars

\* A record whose Append returned without an error is in a log file, complete
\* (log.go:65-87), whatever failed or crashed before or since.
AckedDurable ==
  \A a \in acked :
    \E b \in DOMAIN logf : \E i \in DOMAIN logf[b] :
      logf[b][i].id = a.id /\ Whole(logf[b][i])

\* No log file holds a fragment of a record.
Unfragmented ==
  \A b \in DOMAIN logf : \A i \in DOMAIN logf[b] : Whole(logf[b][i])

\* Append hands out increasing offsets, across restarts and failed Appends
\* too: no two successful Appends get the same offset, and the later one gets
\* the larger (segment.go:116, and the scan at segment.go:61-85), until a torn
\* write leaves a fragment.
AckedOrdered ==
  Unfragmented => \A a, b \in acked : a.id < b.id => a.off < b.off

\* A successful Append leaves an index entry that leads to its own record:
\* the record is where its offset says, counted from the segment's base, and
\* the entry holds the position at which it starts (segment.go:106-112).
AckedIndexed ==
  \A a \in acked :
    \E b \in DOMAIN logf : \E i \in DOMAIN idxf[b] :
      /\ b + idxf[b][i].rel = a.off
      /\ idxf[b][i].rel + 1 \in DOMAIN logf[b]
      /\ logf[b][idxf[b][i].rel + 1].id = a.id
      /\ logf[b][idxf[b][i].rel + 1].at = idxf[b][i].pos

\* The entries of every index file are in the order Index.Lookup's binary
\* search needs (index.go:85-97), also after failed Appends whose entry or
\* record stayed in a file, until a torn write leaves a fragment.
IndexesSorted == Unfragmented => \A b \in DOMAIN idxf : SortedIndex(idxf[b])

\* Two segment files never claim the same offset: a segment's records end
\* before the next base offset (log.go:70).
SegmentsDisjoint ==
  \A b, c \in DOMAIN logf : b < c => b + Len(logf[b]) <= c

\* Every message an open log counts is a complete record in its file: the
\* count NewSegment takes from the length headers (segment.go:61-85) and the
\* increments of Append never run ahead of the records, until a torn write
\* leaves a fragment, which the scan may count.
OffsetsHaveRecords ==
  Unfragmented =>
    \A b \in DOMAIN segs :
      Cardinality({i \in DOMAIN logf[b] : Whole(logf[b][i])}) >= segs[b].next - b
=============================================================================
