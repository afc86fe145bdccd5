--------------------------- MODULE SegmentReaders ---------------------------
(***************************************************************************)
(* Goroutines that fetch from and append to one segment.                   *)
(*                                                                         *)
(* CommitLog.mu is held shared by ReadFrom and exclusively by Append.  All *)
(* of them use the one *os.File of the segment, and with it one file       *)
(* cursor: ReadFrom seeks it and then reads a header and a payload at a    *)
(* time (broker/storage/segment.go), Append leaves it at the end.          *)
(*                                                                         *)
(* The file is counted in cells: record i has its header in cell 2i and    *)
(* its payload in cell 2i+1.  The index is exact here (module CommitLog is *)
(* about when it is), so a lookup leads to the record asked for.           *)
(***************************************************************************)
EXTENDS Integers, Sequences, FiniteSets

CONSTANTS
  Readers, Writers,  \* goroutines
  MaxRecords,        \* bound: records in the segment
  MaxCounts,         \* values of maxCount
  NoWriter           \* no goroutine

ASSUME ReadersAssumption ==
  /\ MaxRecords \in Nat
  /\ MaxCounts \subseteq Nat
  /\ NoWriter \notin Writers
  /\ Readers \intersect Writers = {}

VARIABLES
  next,     \* Segment.nextOffset; the base offset is 0
  cursor,   \* the file cursor, in cells
  rlock,    \* goroutines that hold CommitLog.mu shared
  rwait,    \* goroutines that wait in RLock
  writer,   \* the goroutine that holds or waits in front for the lock
  pc,       \* where each goroutine is
  call,     \* each reader's arguments
  hdr,      \* the record whose header the reader read last
  msgs,     \* the messages the reader has collected: offset and record
  shared    \* readers that met another one inside during their call

vars == <<next, cursor, rlock, rwait, writer, pc, call, hdr, msgs, shared>>
locks == <<rlock, rwait, writer, shared>>

Garbage == -1  \* bytes that are not one record's payload

NoCall == [offset |-> 0, maxCount |-> 0]

Cells == 0 .. 2 * next

-----------------------------------------------------------------------------
(* sync.RWMutex: a writer in front keeps new readers out, and when it       *)
(* leaves, the readers that came meanwhile enter before the next writer.    *)

\* Those who have company among the readers that are inside now.
Meet(inside) ==
  shared' = IF Cardinality(inside) > 1 THEN shared \union inside ELSE shared

\* RLock, on entering ReadFrom.
RLock(r) ==
  /\ IF writer = NoWriter
     THEN /\ rlock' = rlock \union {r}
          /\ pc' = [pc EXCEPT ![r] = "seek"]
          /\ UNCHANGED rwait
     ELSE /\ rwait' = rwait \union {r}
          /\ pc' = [pc EXCEPT ![r] = "blocked"]
          /\ UNCHANGED rlock
  /\ Meet(rlock')
  /\ UNCHANGED writer

RUnlock(r) ==
  /\ rlock' = rlock \ {r}
  /\ shared' = shared \ {r}
  /\ UNCHANGED <<rwait, writer>>

\* Lock: first in front of the other writers, then after the readers inside.
LockQueue(w) ==
  /\ pc[w] = "lock"
  /\ writer = NoWriter
  /\ writer' = w
  /\ UNCHANGED <<next, cursor, rlock, rwait, shared, pc, call, hdr, msgs>>

LockEnter(w) ==
  /\ pc[w] = "lock"
  /\ writer = w
  /\ rlock = {}
  /\ pc' = [pc EXCEPT ![w] = "append"]
  /\ UNCHANGED <<next, cursor, locks, call, hdr, msgs>>

-----------------------------------------------------------------------------
(* Append.                                                                  *)

AppendCall(w) ==
  /\ pc[w] = "idle"
  /\ pc' = [pc EXCEPT ![w] = "lock"]
  /\ UNCHANGED <<next, cursor, locks, call, hdr, msgs>>

\* Mutant: a reader that waited is not woken.
UnlockForgetsReaders(w) ==
  /\ pc[w] = "append"
  /\ IF next < MaxRecords
     THEN next' = next + 1 /\ cursor' = 2 * (next + 1)
     ELSE UNCHANGED <<next, cursor>>
  /\ writer' = NoWriter
  /\ pc' = [pc EXCEPT ![w] = "idle"]
  /\ UNCHANGED <<rlock, rwait, shared, call, hdr, msgs>>

\* The write (O_APPEND moves the cursor to the end) and Unlock, which lets
\* the waiting readers in.  Appends beyond the bound leave the segment alone:
\* they go to the next one.
AppendRecord(w) ==
  /\ pc[w] = "append"
  /\ IF next < MaxRecords
     THEN next' = next + 1 /\ cursor' = 2 * (next + 1)
     ELSE UNCHANGED <<next, cursor>>
  /\ writer' = NoWriter
  /\ rlock' = rlock \union rwait
  /\ rwait' = {}
  /\ Meet(rlock')
  /\ pc' = [g \in DOMAIN pc |-> IF g = w THEN "idle"
                                ELSE IF g \in rwait THEN "seek" ELSE pc[g]]
  /\ UNCHANGED <<call, hdr, msgs>>

-----------------------------------------------------------------------------
(* ReadFrom.                                                                *)

FetchCall(r) ==
  /\ pc[r] = "idle"
  /\ \E offset \in 0 .. MaxRecords, maxCount \in MaxCounts :
       call' = [call EXCEPT ![r] = [offset |-> offset, maxCount |-> maxCount]]
  /\ RLock(r)
  /\ UNCHANGED <<next, cursor, hdr, msgs>>

\* Nothing to read: no seek.
SeekNone(r) ==
  /\ pc[r] = "seek"
  /\ call[r].offset >= next
  /\ pc' = [pc EXCEPT ![r] = "return"]
  /\ UNCHANGED <<next, cursor, locks, call, hdr, msgs>>

\* Mutant: the cursor is used as the last call left it.
NoSeek(r) ==
  /\ pc[r] = "seek"
  /\ call[r].offset < next
  /\ pc' = [pc EXCEPT ![r] = "header"]
  /\ UNCHANGED <<next, cursor, locks, call, hdr, msgs>>

Seek(r) ==
  /\ pc[r] = "seek"
  /\ call[r].offset < next
  /\ cursor' = 2 * call[r].offset
  /\ pc' = [pc EXCEPT ![r] = "header"]
  /\ UNCHANGED <<next, locks, call, hdr, msgs>>

CurrentOff(r) == call[r].offset + Len(msgs[r])

\* The condition of the loop.
WantsMore(r) == Len(msgs[r]) < call[r].maxCount /\ CurrentOff(r) < next

\* The loop ends, by its condition or at the end of the file.
LoopEnds(r) ==
  /\ pc[r] = "header"
  /\ ~WantsMore(r) \/ cursor = 2 * next
  /\ pc' = [pc EXCEPT ![r] = "return"]
  /\ UNCHANGED <<next, cursor, locks, call, hdr, msgs>>

\* binary.Read of the four bytes at the cursor.
ReadHeader(r) ==
  /\ pc[r] = "header"
  /\ WantsMore(r)
  /\ cursor < 2 * next
  /\ IF cursor % 2 = 0
     THEN hdr' = [hdr EXCEPT ![r] = cursor \div 2]
     ELSE hdr' = [hdr EXCEPT ![r] = Garbage]
  /\ cursor' = cursor + 1
  /\ pc' = [pc EXCEPT ![r] = "payload"]
  /\ UNCHANGED <<next, locks, call, msgs>>

\* io.ReadFull of as many bytes as the header said.
ReadPayload(r) ==
  /\ pc[r] = "payload"
  /\ hdr[r] # Garbage
  /\ cursor = 2 * hdr[r] + 1
  /\ msgs' = [msgs EXCEPT ![r] =
                Append(@, [off |-> CurrentOff(r), id |-> hdr[r]])]
  /\ cursor' = cursor + 1
  /\ pc' = [pc EXCEPT ![r] = "header"]
  /\ UNCHANGED <<next, locks, call, hdr>>

\* The bytes at the cursor are not the payload the header belongs to: what is
\* read is some mixture, a message or an error, and the cursor ends anywhere.
ReadScrambled(r) ==
  /\ pc[r] = "payload"
  /\ hdr[r] = Garbage \/ cursor # 2 * hdr[r] + 1
  /\ msgs' = [msgs EXCEPT ![r] =
                Append(@, [off |-> CurrentOff(r), id |-> Garbage])]
  /\ cursor' \in Cells
  /\ pc' \in {[pc EXCEPT ![r] = "header"], [pc EXCEPT ![r] = "return"]}
  /\ UNCHANGED <<next, locks, call, hdr>>

\* The variables of the call go with it.
ForgetCall(r) ==
  /\ call' = [call EXCEPT ![r] = NoCall]
  /\ hdr' = [hdr EXCEPT ![r] = Garbage]
  /\ msgs' = [msgs EXCEPT ![r] = <<>>]

\* Mutant: the shared lock is kept on return.
ReturnLocked(r) ==
  /\ pc[r] = "return"
  /\ pc' = [pc EXCEPT ![r] = "idle"]
  /\ ForgetCall(r)
  /\ UNCHANGED <<next, cursor, locks>>

FetchReturn(r) ==
  /\ pc[r] = "return"
  /\ RUnlock(r)
  /\ pc' = [pc EXCEPT ![r] = "idle"]
  /\ ForgetCall(r)
  /\ UNCHANGED <<next, cursor>>

-----------------------------------------------------------------------------

\* A segment may be opened with any number of records in it.
Init ==
  /\ next \in 0 .. MaxRecords
  /\ cursor = 2 * next
  /\ rlock = {}
  /\ rwait = {}
  /\ writer = NoWriter
  /\ pc = [g \in Readers \union Writers |-> "idle"]
  /\ call = [r \in Readers |-> NoCall]
  /\ hdr = [r \in Readers |-> Garbage]
  /\ msgs = [r \in Readers |-> <<>>]
  /\ shared = {}

ReaderStep(r) ==
  \/ SeekNone(r) \/ Seek(r) \/ LoopEnds(r) \/ ReadHeader(r)
  \/ ReadPayload(r) \/ ReadScrambled(r) \/ FetchReturn(r)

WriterStep(w) == LockEnter(w) \/ AppendRecord(w)

Next ==
  \/ \E r \in Readers : FetchCall(r) \/ ReaderStep(r)
  \/ \E w \in Writers : AppendCall(w) \/ LockQueue(w) \/ WriterStep(w)

\* The scheduler runs every goroutine that can run; the mutex inside RWMutex
\* hands itself over to a writer that has waited long (its starvation mode).
\* Nothing makes a client call.
Fairness ==
  /\ \A r \in Readers : WF_vars(ReaderStep(r))
  /\ \A w \in Writers : WF_vars(WriterStep(w)) /\ SF_vars(LockQueue(w))

Spec == Init /\ [][Next]_vars /\ Fairness

-----------------------------------------------------------------------------

\* Shapes of the variables; the lock is never held shared and exclusively.
TypeOK ==
  /\ next \in 0 .. MaxRecords
  /\ cursor \in Cells
  /\ rlock \subseteq Readers
  /\ rwait \subseteq Readers
  /\ shared \subseteq rlock
  /\ writer \in Writers \union {NoWriter}
  /\ \A r \in Readers :
       /\ pc[r] \in {"idle", "blocked", "seek", "header", "payload", "return"}
       /\ r \in rlock <=> pc[r] \in {"seek", "header", "payload", "return"}
       /\ r \in rwait <=> pc[r] = "blocked"
  /\ \A w \in Writers :
       /\ pc[w] \in {"idle", "lock", "append"}
       /\ pc[w] = "append" => writer = w /\ rlock = {}

\* The records from the call's offset on, as many as it asked for and the
\* segment has, each under its own offset.
Expected(r) ==
  LET n == IF call[r].offset >= next THEN 0
           ELSE IF call[r].offset + call[r].maxCount <= next
                THEN call[r].maxCount ELSE next - call[r].offset
  IN  [i \in 1 .. n |-> [off |-> call[r].offset + i - 1,
                         id  |-> call[r].offset + i - 1]]

\* Every fetch returns what it asked for (segment.go:136-203).
FetchExact ==
  \A r \in Readers : pc[r] = "return" => msgs[r] = Expected(r)

\* A fetch that had no other fetch beside it returns what it asked for, wherever
\* earlier fetches and Appends left the cursor.
LoneFetchExact ==
  \A r \in Readers :
    pc[r] = "return" /\ r \notin shared => msgs[r] = Expected(r)

\* An Append that waits for the lock gets it and returns, however many fetches
\* go on (log.go:66).
AppendReturns == \A w \in Writers : pc[w] = "lock" ~> pc[w] = "idle"

\* A fetch returns, however many Appends go on (log.go:107).
FetchReturns == \A r \in Readers : pc[r] # "idle" ~> pc[r] = "idle"
=============================================================================
