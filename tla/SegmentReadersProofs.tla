------------------------ MODULE SegmentReadersProofs ------------------------
(***************************************************************************)
(* The lock keeps Appends out of fetches, and a fetch without another one  *)
(* beside it is exact: the theorems about module SegmentReaders, for any   *)
(* number of goroutines and records.                                       *)
(***************************************************************************)
EXTENDS SegmentReaders, FiniteSetTheorems, TLAPS

-----------------------------------------------------------------------------
(* The inductive invariant, part by part.                                   *)

Message == [off : Nat, id : Int]

\* Shapes of what a goroutine keeps; only finitely many hold or await the lock.
ShapeInv ==
  /\ pc \in [Readers \union Writers ->
               {"idle", "blocked", "seek", "header", "payload", "return", "lock", "append"}]
  /\ call \in [Readers -> [offset : Nat, maxCount : Nat]]
  /\ hdr \in [Readers -> Int]
  /\ msgs \in [Readers -> Seq(Message)]
  /\ IsFiniteSet(rlock) /\ IsFiniteSet(rwait)

\* Who is not alone inside knows.
Met == \A r, s \in rlock : r # s => r \in shared

\* The first n records from offset o on, each under its own offset.
Run(o, n) == [i \in 1 .. n |-> [off |-> o + i - 1, id |-> o + i - 1]]

\* What a reader has collected is a run from its offset on, no longer than it
\* asked for and the segment has.
OnTrack(r) ==
  /\ msgs[r] = Run(call[r].offset, Len(msgs[r]))
  /\ Len(msgs[r]) <= call[r].maxCount
  /\ CurrentOff(r) <= next

\* A reader that has had no other beside it: the cursor is where it left it.
Lone(r) ==
  /\ pc[r] \in {"idle", "blocked", "seek"} => msgs[r] = <<>>
  /\ pc[r] = "header" => OnTrack(r) /\ cursor = 2 * CurrentOff(r)
  /\ pc[r] = "payload" => /\ OnTrack(r) /\ WantsMore(r)
                          /\ hdr[r] = CurrentOff(r)
                          /\ cursor = 2 * CurrentOff(r) + 1
  /\ pc[r] = "return" => msgs[r] = Expected(r)

LoneInv == \A r \in Readers \ shared : Lone(r)

ReadersInv == TypeOK /\ ShapeInv /\ Met /\ LoneInv

-----------------------------------------------------------------------------
(* Lemmas.                                                                  *)

\* A run is a sequence of its length, and one record more makes the next run.
LEMMA RunFacts ==
  ASSUME NEW o \in Nat, NEW n \in Nat
  PROVE  /\ Run(o, n) \in Seq(Message)
         /\ Len(Run(o, n)) = n
         /\ Append(Run(o, n), [off |-> o + n, id |-> o + n]) = Run(o, n + 1)
<1>1. \A i \in 1 .. n : [off |-> o + i - 1, id |-> o + i - 1] \in Message
  BY DEF Message
<1>2. Run(o, n) \in [1 .. n -> Message]
  BY <1>1 DEF Run
<1>3. Run(o, n) \in Seq(Message) /\ Len(Run(o, n)) = n
  BY <1>2
<1>4. DOMAIN Run(o, n + 1) = 1 .. n + 1
  BY DEF Run
<1> DEFINE e == [off |-> o + n, id |-> o + n]
           a == Append(Run(o, n), e)
<1>5. e \in Message
  BY DEF Message
<1>6. a \in Seq(Message) /\ DOMAIN a = 1 .. n + 1
  BY <1>3, <1>5
<1>7. \A i \in 1 .. n + 1 : a[i] = Run(o, n + 1)[i]
  <2> SUFFICES ASSUME NEW i \in 1 .. n + 1 PROVE a[i] = Run(o, n + 1)[i]
    OBVIOUS
  <2>1. CASE i \in 1 .. n
    BY <1>3, <2>1 DEF Run
  <2>2. CASE i = n + 1
    <3>1. a[i] = e
      BY <1>3, <2>2
    <3>2. Run(o, n + 1)[i] = [off |-> o + i - 1, id |-> o + i - 1]
      BY DEF Run
    <3>3. o + i - 1 = o + n
      BY <2>2
    <3> QED
      BY <3>1, <3>2, <3>3
  <2> HIDE DEF a, e
  <2> QED
    BY <2>1, <2>2
<1>8. a = Run(o, n + 1)
  <2>1. Run(o, n + 1) = [i \in 1 .. n + 1 |-> Run(o, n + 1)[i]]
    BY DEF Run
  <2>2. a = [i \in 1 .. n + 1 |-> a[i]]
    BY <1>6
  <2> HIDE DEF a
  <2> QED
    BY <1>7, <2>1, <2>2
<1> QED
  BY <1>3, <1>8

\* What a fetch is expected to return is a run.
LEMMA ExpectedIsRun ==
  ASSUME NEW r, NEW n,
         n = IF call[r].offset >= next THEN 0
             ELSE IF call[r].offset + call[r].maxCount <= next
                  THEN call[r].maxCount ELSE next - call[r].offset
  PROVE  Expected(r) = Run(call[r].offset, n)
  BY DEF Expected, Run

\* Meet marks those inside exactly if they are several.
LEMMA MeetMarks ==
  ASSUME NEW inside, IsFiniteSet(inside), Meet(inside)
  PROVE  /\ shared \subseteq shared'
         /\ shared' \subseteq shared \union inside
         /\ \A r, s \in inside : r # s => r \in shared'
<1>1. ASSUME NEW r \in inside, NEW s \in inside, r # s PROVE Cardinality(inside) > 1
  <2>1. {r, s} \subseteq inside /\ IsFiniteSet({r, s})
    BY FS_Subset
  <2>2. Cardinality({r, s}) = 2
    <3>1. /\ IsFiniteSet({s}) /\ Cardinality({s}) = 1 /\ r \notin {s}
          /\ {r, s} = {s} \union {r}
      BY <1>1, FS_Singleton
    <3> QED
      BY <3>1, FS_AddElement
  <2>3. Cardinality({r, s}) <= Cardinality(inside) /\ Cardinality(inside) \in Nat
    BY <2>1, FS_Subset, FS_CardinalityType
  <2> QED
    BY <2>2, <2>3
<1> QED
  BY <1>1 DEF Meet

\* Readers and writers are different goroutines.
LEMMA Goroutines ==
  /\ \A r \in Readers : r \in Readers \union Writers /\ r \notin Writers
  /\ \A w \in Writers : w \in Readers \union Writers /\ w \notin Readers /\ w # NoWriter
  /\ MaxRecords \in Nat
  BY ReadersAssumption

\* The values of pc inside and outside the shared lock.
LEMMA InsideOutside ==
  ASSUME TypeOK, NEW r \in Readers
  PROVE  /\ pc[r] \in {"seek", "header", "payload", "return"} => r \in rlock
         /\ r \notin rlock => pc[r] \in {"idle", "blocked"} /\ r \notin shared
  BY DEF TypeOK

-----------------------------------------------------------------------------
(* The lock.                                                                *)

LockInv == TypeOK /\ ShapeInv /\ Met

\* The variables of a call stay well formed.
CallShape ==
  /\ call' \in [Readers -> [offset : Nat, maxCount : Nat]]
  /\ hdr' \in [Readers -> Int]
  /\ msgs' \in [Readers -> Seq(Message)]

\* A reader inside moves on and stays inside.
LEMMA InsideStep ==
  ASSUME LockInv, CallShape, NEW r \in Readers,
         pc[r] \in {"seek", "header", "payload"},
         NEW to \in {"header", "payload", "return"}, pc' = [pc EXCEPT ![r] = to],
         UNCHANGED <<next, locks>>, cursor' \in Cells
  PROVE  LockInv'
<1> USE Goroutines DEF LockInv, locks
<1>1. pc'[r] = to /\ \A g \in Readers \union Writers : g # r => pc'[g] = pc[g]
  BY DEF ShapeInv
<1>2. ShapeInv'
  BY DEF ShapeInv, CallShape
<1>3. TypeOK'
  BY <1>1 DEF TypeOK, Cells
<1> QED
  BY <1>2, <1>3 DEF Met

\* RLock: inside at once, or behind a writer.
LEMMA EnterStep ==
  ASSUME LockInv, NEW r \in Readers, FetchCall(r) PROVE LockInv' /\ shared \subseteq shared'
<1> USE Goroutines DEF LockInv
<1>1. /\ pc[r] = "idle" /\ r \notin rlock /\ r \notin rwait
      /\ RLock(r) /\ Meet(rlock')
      /\ UNCHANGED <<next, cursor, hdr, msgs, writer>>
  BY DEF FetchCall, RLock, TypeOK
<1>2. CallShape
  <2>1. PICK offset \in 0 .. MaxRecords, maxCount \in MaxCounts :
          call' = [call EXCEPT ![r] = [offset |-> offset, maxCount |-> maxCount]]
    BY DEF FetchCall
  <2>2. offset \in Nat /\ maxCount \in Nat
    BY ReadersAssumption
  <2> QED
    BY <1>1, <2>1, <2>2 DEF CallShape, ShapeInv
<1>3. CASE writer = NoWriter
  <2>1. /\ rlock' = rlock \union {r} /\ rwait' = rwait /\ pc' = [pc EXCEPT ![r] = "seek"]
    BY <1>1, <1>3 DEF RLock
  <2>2. pc'[r] = "seek" /\ \A g \in Readers \union Writers : g # r => pc'[g] = pc[g]
    BY <2>1 DEF ShapeInv
  <2>3. IsFiniteSet(rlock')
    BY <2>1, FS_AddElement DEF ShapeInv
  <2>4. /\ shared \subseteq shared' /\ shared' \subseteq shared \union rlock'
        /\ \A q, s \in rlock' : q # s => q \in shared'
    BY <1>1, <2>3, MeetMarks
  <2>5. ShapeInv'
    BY <1>2, <2>1, <2>3 DEF ShapeInv, CallShape
  <2>6. TypeOK'
    BY <1>1, <1>3, <2>1, <2>2, <2>4 DEF TypeOK, Cells
  <2> QED
    BY <2>4, <2>5, <2>6 DEF Met
<1>4. CASE writer # NoWriter
  <2>1. /\ rwait' = rwait \union {r} /\ rlock' = rlock /\ pc' = [pc EXCEPT ![r] = "blocked"]
    BY <1>1, <1>4 DEF RLock
  <2>2. pc'[r] = "blocked" /\ \A g \in Readers \union Writers : g # r => pc'[g] = pc[g]
    BY <2>1 DEF ShapeInv
  <2>3. IsFiniteSet(rwait') /\ IsFiniteSet(rlock')
    BY <2>1, FS_AddElement DEF ShapeInv
  <2>4. /\ shared \subseteq shared' /\ shared' \subseteq shared \union rlock'
        /\ \A q, s \in rlock' : q # s => q \in shared'
    BY <1>1, <2>3, MeetMarks
  <2>5. ShapeInv'
    BY <1>2, <2>1, <2>3 DEF ShapeInv, CallShape
  <2>6. TypeOK'
    BY <1>1, <2>1, <2>2, <2>4 DEF TypeOK, Cells
  <2> QED
    BY <2>4, <2>5, <2>6 DEF Met
<1> QED
  BY <1>3, <1>4

\* RUnlock.
LEMMA ReturnStep ==
  ASSUME LockInv, NEW r \in Readers, FetchReturn(r) PROVE LockInv'
<1> USE Goroutines DEF LockInv
<1>1. /\ pc[r] = "return" /\ pc' = [pc EXCEPT ![r] = "idle"]
      /\ rlock' = rlock \ {r} /\ shared' = shared \ {r}
      /\ UNCHANGED <<next, cursor, rwait, writer>> /\ ForgetCall(r)
  BY DEF FetchReturn, RUnlock
<1>2. pc'[r] = "idle" /\ \A g \in Readers \union Writers : g # r => pc'[g] = pc[g]
  BY <1>1 DEF ShapeInv
<1>3. CallShape
  <2>1. NoCall \in [offset : Nat, maxCount : Nat] /\ Garbage \in Int /\ <<>> \in Seq(Message)
    BY DEF NoCall, Garbage
  <2> QED
    BY <1>1, <2>1 DEF ForgetCall, CallShape, ShapeInv
<1>4. IsFiniteSet(rlock')
  BY <1>1, FS_RemoveElement DEF ShapeInv
<1>5. ShapeInv'
  BY <1>1, <1>3, <1>4 DEF ShapeInv, CallShape
<1>6. TypeOK'
  BY <1>1, <1>2 DEF TypeOK, Cells
<1> QED
  BY <1>1, <1>5, <1>6 DEF Met

\* Append waits for the lock and gets it when no reader is left inside.
LEMMA WaitStep ==
  ASSUME LockInv, NEW w \in Writers, AppendCall(w) \/ LockQueue(w) \/ LockEnter(w)
  PROVE  LockInv'
<1> USE Goroutines DEF LockInv
<1>1. UNCHANGED <<next, cursor, rlock, rwait, shared, call, hdr, msgs>>
  BY DEF AppendCall, LockQueue, LockEnter, locks
<1>2. /\ pc'[w] \in {"lock", "append"}
      /\ \A g \in Readers \union Writers : g # w => pc'[g] = pc[g]
      /\ ShapeInv'
  BY <1>1 DEF AppendCall, LockQueue, LockEnter, ShapeInv
<1>3. /\ writer' \in Writers \union {NoWriter}
      /\ \A v \in Writers : pc'[v] = "append" => writer' = v /\ rlock = {}
  BY <1>1, <1>2 DEF AppendCall, LockQueue, LockEnter, locks, TypeOK, ShapeInv
<1>4. TypeOK'
  BY <1>1, <1>2, <1>3 DEF TypeOK, Cells
<1> QED
  BY <1>1, <1>2, <1>4 DEF Met

\* Append writes its record while nobody reads and lets the readers in that
\* came meanwhile.
LEMMA AppendStep ==
  ASSUME LockInv, NEW w \in Writers, AppendRecord(w)
  PROVE  LockInv' /\ rlock = {} /\ UNCHANGED <<call, hdr, msgs>>
         /\ \A r \in Readers : pc'[r] \in {"idle", "blocked", "seek"}
<1> USE Goroutines DEF LockInv
<1>1. /\ pc[w] = "append" /\ writer = w /\ rlock = {}
      /\ writer' = NoWriter /\ rlock' = rwait /\ rwait' = {}
      /\ UNCHANGED <<call, hdr, msgs>> /\ Meet(rlock')
      /\ pc' = [g \in Readers \union Writers |->
                  IF g = w THEN "idle" ELSE IF g \in rwait THEN "seek" ELSE pc[g]]
  BY DEF AppendRecord, TypeOK, ShapeInv
<1>2. next' \in 0 .. MaxRecords /\ cursor' \in 0 .. 2 * next'
  BY DEF AppendRecord, TypeOK, Cells
<1>3. /\ shared' \subseteq shared \union rlock'
      /\ \A q, s \in rlock' : q # s => q \in shared'
  BY <1>1, MeetMarks DEF ShapeInv
<1>4. shared = {}
  BY <1>1 DEF TypeOK
<1>5. ShapeInv'
  BY <1>1, FS_EmptySet DEF ShapeInv
<1>6. /\ \A r \in Readers : pc'[r] = IF r \in rwait THEN "seek" ELSE pc[r]
      /\ \A v \in Writers : v # w => pc'[v] = pc[v]
      /\ pc'[w] = "idle"
  BY <1>1 DEF TypeOK
<1>7. \A r \in Readers : pc[r] = "idle" \/ pc[r] = "blocked"
  BY <1>1 DEF TypeOK
<1>8. TypeOK'
  BY <1>1, <1>2, <1>3, <1>4, <1>6, <1>7 DEF TypeOK, Cells
<1> QED
  BY <1>1, <1>3, <1>5, <1>6, <1>7, <1>8 DEF Met
-----------------------------------------------------------------------------
(* A fetch with nobody beside it.                                           *)

\* When a reader is inside, every other one that is not marked is outside.
LEMMA OthersOutside ==
  ASSUME LockInv, NEW r \in rlock, NEW s \in Readers \ shared, s # r
  PROVE  pc[s] \in {"idle", "blocked"}
  BY InsideOutside DEF LockInv, Met

\* A reader outside, or just let in, has collected nothing yet, wherever the
\* cursor and the end of the segment go.
LEMMA LoneOutside ==
  ASSUME NEW s, Lone(s), pc[s] \in {"idle", "blocked", "seek"},
         pc'[s] \in {"idle", "blocked", "seek"}, msgs'[s] = msgs[s]
  PROVE  Lone(s)'
  BY DEF Lone

\* A step of reader r inside disturbs no other unmarked reader.
LEMMA InsideLone ==
  ASSUME ReadersInv, NEW r \in Readers, r \in rlock, LockInv',
         NEW to, pc' = [pc EXCEPT ![r] = to], UNCHANGED locks,
         \A s \in Readers : s # r => msgs'[s] = msgs[s],
         r \notin shared => Lone(r)'
  PROVE  ReadersInv'
<1>1. ASSUME NEW s \in Readers \ shared, s # r PROVE Lone(s)'
  <2>1. pc[s] \in {"idle", "blocked"}
    BY <1>1, OthersOutside DEF ReadersInv, LockInv
  <2>2. pc'[s] = pc[s]
    BY <1>1 DEF ReadersInv, ShapeInv
  <2> QED
    BY <1>1, <2>1, <2>2, LoneOutside DEF ReadersInv, LoneInv
<1> QED
  BY <1>1 DEF ReadersInv, LockInv, LoneInv, locks

\* ReadFrom's seek: nothing to read, or the cursor goes to the record asked for.
LEMMA SeekLone ==
  ASSUME ReadersInv, NEW r \in Readers, SeekNone(r) \/ Seek(r) PROVE ReadersInv'
<1> USE Goroutines
<1>1. /\ pc[r] = "seek" /\ r \in rlock /\ LockInv
      /\ UNCHANGED <<next, locks, call, hdr, msgs>>
      /\ call[r].offset \in Nat /\ call[r].maxCount \in Nat /\ next \in Nat
  BY DEF SeekNone, Seek, ReadersInv, TypeOK, LockInv, ShapeInv
<1>2. CallShape
  BY <1>1 DEF CallShape, LockInv, ShapeInv
<1>3. r \notin shared => msgs[r] = <<>>
  BY <1>1 DEF ReadersInv, LoneInv, Lone
<1>4. Run(call[r].offset, 0) = <<>>
  BY DEF Run
<1>5. CASE SeekNone(r)
  <2>1. /\ pc' = [pc EXCEPT ![r] = "return"] /\ cursor' = cursor /\ call[r].offset >= next
        /\ pc'[r] = "return"
    BY <1>1, <1>5 DEF SeekNone, LockInv, ShapeInv
  <2>2. LockInv'
    <3>1. cursor' \in Cells
      BY <2>1 DEF ReadersInv, TypeOK
    <3> QED
      BY <1>1, <1>2, <2>1, <3>1, InsideStep
  <2>3. Expected(r) = <<>>
    BY <1>4, <2>1, ExpectedIsRun
  <2>4. Expected(r)' = Expected(r)
    BY <1>1 DEF Expected
  <2>5. r \notin shared => Lone(r)'
    BY <1>1, <1>3, <2>1, <2>3, <2>4 DEF Lone
  <2> QED
    BY <1>1, <2>1, <2>2, <2>5, InsideLone
<1>6. CASE Seek(r)
  <2>1. /\ pc' = [pc EXCEPT ![r] = "header"] /\ cursor' = 2 * call[r].offset
        /\ call[r].offset < next /\ pc'[r] = "header"
    BY <1>1, <1>6 DEF Seek, LockInv, ShapeInv
  <2>2. LockInv'
    <3>1. cursor' \in Cells
      BY <1>1, <2>1 DEF Cells
    <3> QED
      BY <1>1, <1>2, <2>1, <3>1, InsideStep
  <2>3. ASSUME r \notin shared PROVE Lone(r)'
    <3>1. msgs'[r] = <<>> /\ Len(msgs'[r]) = 0
      BY <1>1, <1>3, <2>3
    <3>2. OnTrack(r)' /\ cursor' = 2 * CurrentOff(r)'
      BY <1>1, <1>4, <2>1, <3>1 DEF OnTrack, CurrentOff
    <3> QED
      BY <2>1, <3>2 DEF Lone
  <2> QED
    BY <1>1, <2>1, <2>2, <2>3, InsideLone
<1> QED
  BY <1>5, <1>6

\* The loop ends with all that was asked for.
LEMMA EndLone ==
  ASSUME ReadersInv, NEW r \in Readers, LoopEnds(r) PROVE ReadersInv'
<1> USE Goroutines
<1>1. /\ pc[r] = "header" /\ r \in rlock /\ LockInv
      /\ UNCHANGED <<next, cursor, locks, call, hdr, msgs>>
      /\ pc' = [pc EXCEPT ![r] = "return"] /\ pc'[r] = "return"
      /\ ~WantsMore(r) \/ cursor = 2 * next
      /\ call[r].offset \in Nat /\ call[r].maxCount \in Nat /\ next \in Nat
      /\ msgs[r] \in Seq(Message)
  BY DEF LoopEnds, ReadersInv, TypeOK, LockInv, ShapeInv
<1>2. CallShape
  BY <1>1 DEF CallShape, LockInv, ShapeInv
<1>3. LockInv'
  <2>1. cursor' \in Cells
    BY <1>1 DEF ReadersInv, TypeOK
  <2> QED
    BY <1>1, <1>2, <2>1, InsideStep
<1>4. ASSUME r \notin shared PROVE Lone(r)'
  <2>1. OnTrack(r) /\ cursor = 2 * CurrentOff(r)
    BY <1>1, <1>4 DEF ReadersInv, LoneInv, Lone
  <2> DEFINE l == Len(msgs[r])
             o == call[r].offset
             m == call[r].maxCount
             n == IF o >= next THEN 0 ELSE IF o + m <= next THEN m ELSE next - o
  <2>2. l \in Nat /\ o \in Nat /\ m \in Nat
    BY <1>1
  <2>3. l <= m /\ o + l <= next /\ cursor = 2 * (o + l) /\ msgs[r] = Run(o, l)
    BY <2>1 DEF OnTrack, CurrentOff
  <2>4. l = m \/ o + l = next
    <3>1. ~(l < m /\ o + l < next) \/ cursor = 2 * next
      BY <1>1 DEF WantsMore, CurrentOff
    <3> HIDE DEF l, o, m
    <3> QED
      BY <1>1, <2>2, <2>3, <3>1, SMTT(60)
  <2>5. l = n
    <3> HIDE DEF l, o, m
    <3> QED
      BY <1>1, <2>2, <2>3, <2>4
  <2>6. Expected(r) = Run(o, n)
    BY ExpectedIsRun
  <2>7. Expected(r)' = Expected(r)
    BY <1>1 DEF Expected
  <2>8. msgs'[r] = Expected(r)'
    <3> HIDE DEF l, o, m, n
    <3> QED
      BY <1>1, <2>3, <2>5, <2>6, <2>7
  <2> QED
    BY <1>1, <2>8 DEF Lone
<1> QED
  BY <1>1, <1>3, <1>4, InsideLone

\* The header read is the one of the next record.
LEMMA HeaderLone ==
  ASSUME ReadersInv, NEW r \in Readers, ReadHeader(r) PROVE ReadersInv'
<1> USE Goroutines
<1>1. /\ pc[r] = "header" /\ r \in rlock /\ LockInv
      /\ UNCHANGED <<next, locks, call, msgs>> /\ cursor' = cursor + 1
      /\ pc' = [pc EXCEPT ![r] = "payload"] /\ pc'[r] = "payload"
      /\ WantsMore(r) /\ cursor < 2 * next
      /\ call[r].offset \in Nat /\ call[r].maxCount \in Nat /\ next \in Nat
      /\ msgs[r] \in Seq(Message) /\ cursor \in 0 .. 2 * next
  BY DEF ReadHeader, ReadersInv, TypeOK, LockInv, ShapeInv, Cells
<1>2. /\ hdr' \in [Readers -> Int]
      /\ hdr'[r] = IF cursor % 2 = 0 THEN cursor \div 2 ELSE Garbage
  <2>1. cursor \div 2 \in Int /\ Garbage \in Int
    BY <1>1 DEF Garbage
  <2> QED
    BY <2>1 DEF ReadHeader, ReadersInv, ShapeInv
<1>3. CallShape
  BY <1>1, <1>2 DEF CallShape, LockInv, ShapeInv
<1>4. LockInv'
  <2>1. cursor' \in Cells
    BY <1>1 DEF Cells
  <2> QED
    BY <1>1, <1>3, <2>1, InsideStep
<1>5. ASSUME r \notin shared PROVE Lone(r)'
  <2>1. OnTrack(r) /\ cursor = 2 * CurrentOff(r)
    BY <1>1, <1>5 DEF ReadersInv, LoneInv, Lone
  <2>2. CurrentOff(r) \in Nat
    BY <1>1 DEF CurrentOff
  <2>3. hdr'[r] = CurrentOff(r)
    BY <1>2, <2>1, <2>2
  <2>4. CurrentOff(r)' = CurrentOff(r) /\ OnTrack(r)' /\ WantsMore(r)'
    BY <1>1, <2>1 DEF CurrentOff, OnTrack, WantsMore
  <2> QED
    BY <1>1, <2>1, <2>2, <2>3, <2>4 DEF Lone
<1> QED
  BY <1>1, <1>4, <1>5, InsideLone

\* The payload read is the one its header belongs to.
LEMMA PayloadLone ==
  ASSUME ReadersInv, NEW r \in Readers, ReadPayload(r) PROVE ReadersInv'
<1> USE Goroutines
<1> DEFINE m == [off |-> CurrentOff(r), id |-> hdr[r]]
<1>1. /\ pc[r] = "payload" /\ r \in rlock /\ LockInv
      /\ UNCHANGED <<next, locks, call, hdr>> /\ cursor' = cursor + 1
      /\ pc' = [pc EXCEPT ![r] = "header"] /\ pc'[r] = "header"
      /\ cursor = 2 * hdr[r] + 1
      /\ msgs' = [msgs EXCEPT ![r] = Append(@, m)]
      /\ call[r].offset \in Nat /\ call[r].maxCount \in Nat /\ next \in Nat
      /\ msgs[r] \in Seq(Message) /\ cursor \in 0 .. 2 * next /\ hdr[r] \in Int
  BY SMTT(60) DEF ReadPayload, ReadersInv, TypeOK, LockInv, ShapeInv, Cells
<1>2. m \in Message /\ CurrentOff(r) \in Nat
  BY <1>1, SMTT(60) DEF Message, CurrentOff
<1>3. /\ msgs' \in [Readers -> Seq(Message)] /\ msgs'[r] = Append(msgs[r], m)
      /\ \A s \in Readers : s # r => msgs'[s] = msgs[s]
  BY <1>1, <1>2 DEF ReadersInv, ShapeInv
<1>4. CallShape
  BY <1>1, <1>3 DEF CallShape, LockInv, ShapeInv
<1>5. LockInv'
  <2>1. cursor' \in Cells
    BY <1>1 DEF Cells
  <2> QED
    BY <1>1, <1>4, <2>1, InsideStep
<1>6. ASSUME r \notin shared PROVE Lone(r)'
  <2>1. OnTrack(r) /\ WantsMore(r) /\ hdr[r] = CurrentOff(r) /\ cursor = 2 * CurrentOff(r) + 1
    BY <1>1, <1>6 DEF ReadersInv, LoneInv, Lone
  <2> DEFINE l == Len(msgs[r])
             o == call[r].offset
  <2>2. l \in Nat /\ o \in Nat
    BY <1>1
  <2>3. l < call[r].maxCount /\ o + l < next /\ msgs[r] = Run(o, l) /\ CurrentOff(r) = o + l
    BY <2>1 DEF OnTrack, WantsMore, CurrentOff
  <2>4. m = [off |-> o + l, id |-> o + l]
    BY <2>1, <2>3
  <2>5. Append(Run(o, l), [off |-> o + l, id |-> o + l]) = Run(o, l + 1)
        /\ Len(Run(o, l + 1)) = l + 1
    <3> HIDE DEF l, o
    <3> QED
      BY <2>2, RunFacts, SMTT(60)
  <2>6. msgs'[r] = Run(o, l + 1) /\ Len(msgs'[r]) = l + 1
    <3> HIDE DEF l, o, m
    <3> QED
      BY <1>3, <2>3, <2>4, <2>5
  <2>7. call' = call /\ next' = next /\ cursor' = 2 * (o + (l + 1))
    <3> HIDE DEF l, o
    <3> QED
      BY <1>1, <2>1, <2>2, <2>3
  <2>8. CurrentOff(r)' = o + (l + 1)
    BY <2>6, <2>7 DEF CurrentOff
  <2>9. OnTrack(r)'
    <3>1. msgs'[r] = Run(call'[r].offset, Len(msgs'[r]))
      BY <2>6, <2>7
    <3>2. Len(msgs'[r]) <= call'[r].maxCount /\ CurrentOff(r)' <= next'
      <4> HIDE DEF l, o
      <4> QED
        BY <1>1, <2>2, <2>3, <2>6, <2>7, <2>8, SMTT(60)
    <3> QED
      BY <3>1, <3>2 DEF OnTrack
  <2> QED
    BY <1>1, <2>7, <2>8, <2>9 DEF Lone
<1> QED
  BY <1>1, <1>3, <1>5, <1>6, InsideLone

\* Only a reader that met another reads bytes that are not its header's.
LEMMA ScrambledShared ==
  ASSUME ReadersInv, NEW r \in Readers, ReadScrambled(r) PROVE ReadersInv' /\ r \in shared
<1> USE Goroutines
<1> DEFINE m == [off |-> CurrentOff(r), id |-> Garbage]
<1>1. /\ pc[r] = "payload" /\ r \in rlock /\ LockInv
      /\ UNCHANGED <<next, locks, call, hdr>> /\ cursor' \in Cells
      /\ hdr[r] = Garbage \/ cursor # 2 * hdr[r] + 1
      /\ msgs' = [msgs EXCEPT ![r] = Append(@, m)]
      /\ call[r].offset \in Nat /\ msgs[r] \in Seq(Message)
  BY DEF ReadScrambled, ReadersInv, TypeOK, LockInv, ShapeInv
<1>2. m \in Message /\ CurrentOff(r) \in Nat
  BY <1>1 DEF Message, CurrentOff, Garbage
<1>3. /\ msgs' \in [Readers -> Seq(Message)]
      /\ \A s \in Readers : s # r => msgs'[s] = msgs[s]
  BY <1>1, <1>2 DEF ReadersInv, ShapeInv
<1>4. CallShape
  BY <1>1, <1>3 DEF CallShape, LockInv, ShapeInv
<1>5. r \in shared
  <2>1. SUFFICES ASSUME r \notin shared PROVE FALSE
    OBVIOUS
  <2>2. hdr[r] = CurrentOff(r) /\ cursor = 2 * CurrentOff(r) + 1
    BY <1>1, <2>1 DEF ReadersInv, LoneInv, Lone
  <2> QED
    BY <1>1, <1>2, <2>2 DEF Garbage
<1>6. PICK to \in {"header", "return"} : pc' = [pc EXCEPT ![r] = to]
  BY DEF ReadScrambled
<1>7. LockInv'
  BY <1>1, <1>4, <1>6, InsideStep
<1> QED
  BY <1>1, <1>3, <1>5, <1>6, <1>7, InsideLone

\* A call begins: with nothing collected, and marking whom it meets inside.
LEMMA CallLone ==
  ASSUME ReadersInv, NEW r \in Readers, FetchCall(r) PROVE ReadersInv'
<1> USE Goroutines
<1>1. /\ LockInv /\ LockInv' /\ shared \subseteq shared' /\ pc[r] = "idle"
      /\ UNCHANGED <<next, cursor, hdr, msgs>>
  BY EnterStep DEF FetchCall, ReadersInv, LockInv
<1>2. /\ pc'[r] \in {"seek", "blocked"}
      /\ \A s \in Readers : s # r => pc'[s] = pc[s] /\ call'[s] = call[s]
  BY DEF FetchCall, RLock, ReadersInv, ShapeInv
<1>3. ASSUME NEW s \in Readers \ shared' PROVE Lone(s)'
  <2>1. s \notin shared /\ Lone(s)
    BY <1>1, <1>3 DEF ReadersInv, LoneInv
  <2>2. CASE s = r
    BY <1>1, <1>2, <2>1, <2>2, LoneOutside
  <2>3. CASE s # r
    <3>1. pc'[s] = pc[s] /\ call'[s] = call[s] /\ UNCHANGED <<next, cursor, hdr, msgs>>
      BY <1>1, <1>2, <2>3
    <3> QED
      BY <2>1, <3>1 DEF Lone, OnTrack, WantsMore, CurrentOff, Expected
  <2> QED
    BY <2>2, <2>3
<1> QED
  BY <1>1, <1>3 DEF ReadersInv, LockInv, LoneInv

\* A call returns, and leaves nothing behind.
LEMMA ReturnLone ==
  ASSUME ReadersInv, NEW r \in Readers, FetchReturn(r) PROVE ReadersInv'
<1> USE Goroutines
<1>1. /\ LockInv /\ LockInv' /\ pc[r] = "return" /\ r \in rlock /\ shared' = shared \ {r}
  BY ReturnStep DEF FetchReturn, RUnlock, ReadersInv, LockInv, TypeOK
<1>2. /\ pc'[r] = "idle" /\ msgs'[r] = <<>>
      /\ \A s \in Readers : s # r => pc'[s] = pc[s] /\ msgs'[s] = msgs[s]
  BY DEF FetchReturn, ForgetCall, ReadersInv, ShapeInv
<1>3. ASSUME NEW s \in Readers \ shared' PROVE Lone(s)'
  <2>1. CASE s = r
    BY <1>2, <2>1 DEF Lone
  <2>2. CASE s # r
    <3>1. pc[s] \in {"idle", "blocked"} /\ Lone(s)
      BY <1>1, <1>3, <2>2, OthersOutside DEF ReadersInv, LoneInv
    <3> QED
      BY <1>2, <2>2, <3>1, LoneOutside
  <2> QED
    BY <2>1, <2>2
<1> QED
  BY <1>1, <1>3 DEF ReadersInv, LockInv, LoneInv

\* Append: its record is written while no reader is inside.
LEMMA WriterLone ==
  ASSUME ReadersInv, NEW w \in Writers,
         AppendCall(w) \/ LockQueue(w) \/ LockEnter(w) \/ AppendRecord(w)
  PROVE  ReadersInv'
<1> USE Goroutines
<1>1. LockInv
  BY DEF ReadersInv, LockInv
<1>2. CASE AppendCall(w) \/ LockQueue(w) \/ LockEnter(w)
  <2>1. UNCHANGED <<next, cursor, rlock, shared, call, hdr, msgs>>
    BY <1>2 DEF AppendCall, LockQueue, LockEnter, locks
  <2>2. \A s \in Readers : pc'[s] = pc[s]
    BY <1>2 DEF AppendCall, LockQueue, LockEnter, ReadersInv, ShapeInv
  <2>3. LoneInv'
    BY <2>1, <2>2 DEF ReadersInv, LoneInv, Lone, OnTrack, WantsMore, CurrentOff, Expected
  <2> QED
    BY <1>1, <1>2, <2>3, WaitStep DEF ReadersInv, LockInv
<1>3. CASE AppendRecord(w)
  <2>1. /\ LockInv' /\ rlock = {} /\ UNCHANGED <<call, hdr, msgs>>
        /\ \A r \in Readers : pc'[r] \in {"idle", "blocked", "seek"}
    BY <1>1, <1>3, AppendStep
  <2>2. ASSUME NEW s \in Readers PROVE Lone(s)'
    <3>1. pc[s] \in {"idle", "blocked"} /\ Lone(s)
      BY <2>1, InsideOutside DEF ReadersInv, LoneInv
    <3> QED
      BY <2>1, <3>1, LoneOutside
  <2> QED
    BY <2>1, <2>2 DEF ReadersInv, LockInv, LoneInv
<1> QED
  BY <1>2, <1>3

LEMMA ReadersInit == Init => ReadersInv
<1> SUFFICES ASSUME Init PROVE ReadersInv
  OBVIOUS
<1> USE Goroutines
<1>1. ShapeInv
  <2>1. NoCall \in [offset : Nat, maxCount : Nat] /\ Garbage \in Int /\ <<>> \in Seq(Message)
    BY DEF NoCall, Garbage
  <2> QED
    BY <2>1, FS_EmptySet DEF Init, ShapeInv
<1>2. TypeOK
  BY DEF Init, TypeOK, Cells
<1>3. Met /\ LoneInv
  BY DEF Init, Met, LoneInv, Lone
<1> QED
  BY <1>1, <1>2, <1>3 DEF ReadersInv

-----------------------------------------------------------------------------
(* The theorems.                                                            *)

\* The inductive invariant holds in every reachable state.
THEOREM ReadersInvariant == Spec => []ReadersInv
<1>1. ReadersInv /\ [Next]_vars => ReadersInv'
  <2> SUFFICES ASSUME ReadersInv, [Next]_vars PROVE ReadersInv'
    OBVIOUS
  <2>1. ASSUME NEW r \in Readers, FetchCall(r) \/ ReaderStep(r) PROVE ReadersInv'
    BY <2>1, CallLone, SeekLone, EndLone, HeaderLone, PayloadLone, ScrambledShared, ReturnLone
       DEF ReaderStep
  <2>2. ASSUME NEW w \in Writers, AppendCall(w) \/ LockQueue(w) \/ WriterStep(w)
        PROVE  ReadersInv'
    BY <2>2, WriterLone DEF WriterStep
  <2>3. ASSUME UNCHANGED vars PROVE ReadersInv'
    BY <2>3 DEF vars, ReadersInv, TypeOK, Cells, ShapeInv, Met, LoneInv, Lone, OnTrack,
                WantsMore, CurrentOff, Expected
  <2> QED
    BY <2>1, <2>2, <2>3 DEF Next
<1> QED
  BY <1>1, ReadersInit, PTL DEF Spec

\* CommitLog.mu: an Append is never inside together with a fetch, every fetch
\* inside holds the lock and every fetch outside has given it back, whatever the
\* interleaving of any number of goroutines (log.go:66, 107).
THEOREM LockExcludes == Spec => []TypeOK
  BY ReadersInvariant, PTL DEF ReadersInv

\* A fetch that had no other fetch beside it returns exactly the records it asked
\* for, wherever the fetches and Appends before it left the shared file cursor
\* (segment.go:136-203).
THEOREM LoneFetchIsExact == Spec => []LoneFetchExact
<1>1. ReadersInv => LoneFetchExact
  BY DEF ReadersInv, LoneInv, Lone, LoneFetchExact
<1> QED
  BY <1>1, ReadersInvariant, PTL
=============================================================================
