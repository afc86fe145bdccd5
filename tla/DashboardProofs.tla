-------------------------- MODULE DashboardProofs ---------------------------
(***************************************************************************)
(* The page shows a window of its topic: the theorems about module         *)
(* Dashboard, for any number of topics, polls, clicks and failures and     *)
(* any limits.                                                             *)
(***************************************************************************)
EXTENDS Dashboard, SequenceTheorems, TLAPS

Message == [topic : Topics \cup {none}, offset : Nat]

\* The messages of topic t with offsets from `from' on and below `to'.
Window(t, from, to) == [i \in 1 .. to - from |-> [topic |-> t, offset |-> from + i - 1]]

-----------------------------------------------------------------------------
(* The inductive invariant, part by part.                                   *)

Stages == {"idle", "heads", "list", "select", "ask", "answer"}

Poll == [at : Stages, list : SUBSET Topics, topic : Topics \cup {none}, offset : Nat,
         msgs : Seq(Message), clicks : Nat, stale : BOOLEAN]

\* A poll that has read the refs and waits for messages.
Waits(p) == poll[p].at \in {"ask", "answer"}

ShapeInv ==
  /\ existing \subseteq Topics /\ log \in [Topics -> Nat]
  /\ selected \in existing \cup {none} /\ ref \in existing \cup {none}
  /\ last \in Nat /\ shown \in Seq(Message) /\ Len(shown) <= Keep
  /\ mixed \in BOOLEAN /\ selects \in Nat
  /\ poll \in [Polls -> Poll]
  /\ \A p \in Polls : poll[p].list \subseteq existing

\* As long as the ref is empty no poll has asked for messages, so the selection
\* may still change; later the ref is the selection.
RefInv ==
  IF ref = none
  THEN last = 0 /\ shown = <<>> /\ ~mixed /\ \A p \in Polls : ~Waits(p)
  ELSE ref = selected

\* A poll that is not stale asks for what the page shows next.
FreshInv ==
  \A p \in Polls : Waits(p) =>
    /\ poll[p].topic \in Topics
    /\ ~poll[p].stale => poll[p].topic = selected /\ poll[p].offset = last

\* An answer is a window of the topic, in the bounds of its log.
AnswerInv ==
  \A p \in Polls : poll[p].at = "answer" /\ poll[p].msgs # <<>> =>
    \E to \in 0 .. log[poll[p].topic] :
      /\ poll[p].offset < to
      /\ poll[p].msgs = Window(poll[p].topic, poll[p].offset, to)

\* The page is a window of the selected topic.
PageInv ==
  ~mixed => /\ selected # none => last <= log[selected]
            /\ shown = LastKept(Window(selected, 0, last))

PollsInv == ShapeInv /\ RefInv /\ FreshInv /\ AnswerInv /\ PageInv

-----------------------------------------------------------------------------
(* Windows.                                                                 *)

LEMMA WindowSeq ==
  ASSUME NEW t \in Topics \cup {none}, NEW from \in Nat, NEW to \in Nat, from <= to
  PROVE  /\ Window(t, from, to) \in Seq(Message) /\ Len(Window(t, from, to)) = to - from
         /\ \A i \in 1 .. to - from :
              Window(t, from, to)[i] = [topic |-> t, offset |-> from + i - 1]
<1> PICK n \in Nat : n = to - from
  OBVIOUS
<1> DEFINE w == Window(t, from, to)
<1>1. \A i \in 1 .. n : [topic |-> t, offset |-> from + i - 1] \in Message
  BY DEF Message
<1>2. w = [i \in 1 .. n |-> [topic |-> t, offset |-> from + i - 1]]
  BY DEF Window
<1>3. w \in [1 .. n -> Message]
  BY <1>1, <1>2
<1>4. \A i \in 1 .. n : w[i] = [topic |-> t, offset |-> from + i - 1]
  BY <1>2
<1> HIDE DEF w
<1>5. w \in Seq(Message) /\ Len(w) = n
  BY <1>3
<1> QED
  BY <1>4, <1>5 DEF w

\* How many messages of n go.
Dropped(n) == IF n > Keep THEN n - Keep ELSE 0

LEMMA KeptSeq ==
  ASSUME NEW s \in Seq(Message)
  PROVE  /\ LastKept(s) \in Seq(Message)
         /\ Dropped(Len(s)) \in Nat /\ Len(LastKept(s)) = Len(s) - Dropped(Len(s))
         /\ Len(LastKept(s)) <= Keep
         /\ \A i \in 1 .. Len(s) - Dropped(Len(s)) :
              LastKept(s)[i] = s[i + Dropped(Len(s))]
<1> PICK n : n = Len(s)
  OBVIOUS
<1> PICK k : k = Dropped(n)
  OBVIOUS
<1>1. n \in Nat
  OBVIOUS
<1>2. k \in 0 .. n /\ n - k <= Keep /\ Keep \in Nat
  BY <1>1, DashboardAssumption DEF Dropped
<1>3. LastKept(s) = SubSeq(s, 1 + k, n)
  BY DEF LastKept, Dropped
<1>4. SubSeq(s, 1 + k, n) \in Seq(Message) /\ Len(SubSeq(s, 1 + k, n)) = n - k
      /\ \A i \in 1 .. n - k : SubSeq(s, 1 + k, n)[i] = s[i + k]
  BY <1>1, <1>2, SubSeqProperties
<1> QED
  BY <1>2, <1>3, <1>4

LEMMA DroppedTwice ==
  ASSUME NEW n \in Nat, NEW l \in Nat, NEW k, k = Dropped(n)
  PROVE  /\ k \in 0 .. n
         /\ Dropped((n - k) + l) \in 0 .. (n - k) + l
         /\ Dropped(n + l) = k + Dropped((n - k) + l)
<1>1. Keep \in Nat
  BY DashboardAssumption
<1>2. CASE n > Keep
  BY <1>1, <1>2 DEF Dropped
<1>3. CASE ~(n > Keep)
  BY <1>1, <1>3 DEF Dropped
<1> QED
  BY <1>2, <1>3

\* What is behind k messages cut off is the same with more behind.
LEMMA CutTwice ==
  ASSUME NEW s \in Seq(Message), NEW m \in Seq(Message), NEW kept \in Seq(Message),
         NEW k \in Nat, k <= Len(s), Len(kept) = Len(s) - k,
         \A i \in 1 .. Len(s) - k : kept[i] = s[i + k],
         NEW i \in 1 .. Len(kept) + Len(m)
  PROVE  (kept \o m)[i] = (s \o m)[i + k]
<1>1. Len(s) \in Nat /\ Len(m) \in Nat /\ Len(kept) \in Nat
  OBVIOUS
<1>2. (kept \o m)[i] = IF i <= Len(kept) THEN kept[i] ELSE m[i - Len(kept)]
  BY ConcatProperties
<1>3. i + k \in 1 .. Len(s) + Len(m)
  BY <1>1
<1>4. (s \o m)[i + k] = IF i + k <= Len(s) THEN s[i + k] ELSE m[(i + k) - Len(s)]
  BY <1>3, ConcatProperties
<1>5. (i <= Len(kept) <=> i + k <= Len(s)) /\ i - Len(kept) = (i + k) - Len(s)
  BY <1>1
<1>6. i <= Len(kept) => kept[i] = s[i + k]
  BY <1>1
<1> QED
  BY <1>2, <1>4, <1>5, <1>6

\* The ends of two sequences, one k messages longer, are the same.
LEMMA SameKept ==
  ASSUME NEW a \in Seq(Message), NEW b \in Seq(Message), NEW k \in Nat,
         Len(b) = Len(a) + k, Dropped(Len(b)) = k + Dropped(Len(a)),
         \A i \in 1 .. Len(a) : a[i] = b[i + k]
  PROVE  LastKept(a) = LastKept(b)
<1>1. PICK n \in Nat : n = Len(a)
  OBVIOUS
<1>2. PICK c \in Nat : c = Dropped(n)
  BY <1>1, KeptSeq
<1>3. /\ LastKept(a) \in Seq(Message) /\ Len(LastKept(a)) = n - c
      /\ \A i \in 1 .. n - c : LastKept(a)[i] = a[i + c]
  BY <1>1, <1>2, KeptSeq
<1>4. (n + k) - (k + c) = n - c
  OBVIOUS
<1>5. /\ LastKept(b) \in Seq(Message) /\ Len(LastKept(b)) = n - c
      /\ \A i \in 1 .. n - c : LastKept(b)[i] = b[i + (k + c)]
  <2>1. Len(b) = n + k /\ Dropped(Len(b)) = k + c
    BY <1>1, <1>2
  <2>2. /\ LastKept(b) \in Seq(Message) /\ Len(LastKept(b)) = Len(b) - Dropped(Len(b))
        /\ \A i \in 1 .. Len(b) - Dropped(Len(b)) :
             LastKept(b)[i] = b[i + Dropped(Len(b))]
    BY KeptSeq
  <2>3. Len(b) - Dropped(Len(b)) = n - c
    BY <1>4, <2>1
  <2> QED
    BY <2>1, <2>2, <2>3
<1>6. ASSUME NEW i \in 1 .. n - c PROVE LastKept(a)[i] = LastKept(b)[i]
  <2>1. i + c \in 1 .. n /\ (i + c) + k = i + (k + c)
    OBVIOUS
  <2>2. a[i + c] = b[(i + c) + k]
    BY <1>1, <2>1
  <2> QED
    BY <1>3, <1>5, <2>1, <2>2
<1> QED
  BY <1>3, <1>5, <1>6, SeqEqual

\* Cutting before more messages come makes no difference to what is kept.
LEMMA KeptTwice ==
  ASSUME NEW s \in Seq(Message), NEW m \in Seq(Message)
  PROVE  LastKept(LastKept(s) \o m) = LastKept(s \o m)
<1>1. PICK n \in Nat : n = Len(s)
  OBVIOUS
<1>2. PICK l \in Nat : l = Len(m)
  OBVIOUS
<1>3. PICK k \in Nat : k = Dropped(n) /\ k <= n
  <2>1. PICK k : k = Dropped(n)
    OBVIOUS
  <2>2. k \in 0 .. n
    BY <2>1, DroppedTwice
  <2> QED
    BY <2>1, <2>2
<1>4. Dropped(n + l) = k + Dropped((n - k) + l)
  BY <1>3, DroppedTwice
<1>5. PICK kept \in Seq(Message) : /\ kept = LastKept(s) /\ Len(kept) = n - k
                                   /\ \A i \in 1 .. n - k : kept[i] = s[i + k]
  BY <1>1, <1>3, KeptSeq
<1>6. kept \o m \in Seq(Message) /\ Len(kept \o m) = (n - k) + l
  BY <1>2, <1>5, ConcatProperties
<1>7. s \o m \in Seq(Message) /\ Len(s \o m) = n + l
  BY <1>1, <1>2, ConcatProperties
<1>8. \A i \in 1 .. (n - k) + l : (kept \o m)[i] = (s \o m)[i + k]
  <2>1. k <= Len(s) /\ Len(kept) = Len(s) - k
    BY <1>1, <1>3, <1>5
  <2>2. \A i \in 1 .. Len(s) - k : kept[i] = s[i + k]
    BY <1>1, <1>5
  <2>3. \A i \in 1 .. Len(kept) + Len(m) : (kept \o m)[i] = (s \o m)[i + k]
    BY <2>1, <2>2, CutTwice
  <2> QED
    BY <1>2, <1>5, <2>3
<1>9. n + l = ((n - k) + l) + k
  OBVIOUS
<1>10. LastKept(kept \o m) = LastKept(s \o m)
  <2>1. PICK a \in Seq(Message) : a = kept \o m
    BY <1>6
  <2>2. PICK b \in Seq(Message) : b = s \o m
    BY <1>7
  <2>3. Len(b) = Len(a) + k /\ Dropped(Len(b)) = k + Dropped(Len(a))
    BY <1>4, <1>6, <1>7, <1>9, <2>1, <2>2
  <2>4. \A i \in 1 .. Len(a) : a[i] = b[i + k]
    BY <1>6, <1>8, <2>1, <2>2
  <2> QED
    BY <2>1, <2>2, <2>3, <2>4, SameKept, ZenonT(60)
<1> QED
  BY <1>5, <1>10

LEMMA WindowsJoin ==
  ASSUME NEW t \in Topics \cup {none}, NEW from \in Nat, NEW to \in Nat, from <= to
  PROVE  Window(t, 0, from) \o Window(t, from, to) = Window(t, 0, to)
<1> DEFINE a == Window(t, 0, from)
           b == Window(t, from, to)
           c == Window(t, 0, to)
<1>1. /\ a \in Seq(Message) /\ Len(a) = from
      /\ \A i \in 1 .. from : a[i] = [topic |-> t, offset |-> 0 + i - 1]
  BY WindowSeq
<1>2. /\ b \in Seq(Message) /\ Len(b) = to - from
      /\ \A i \in 1 .. to - from : b[i] = [topic |-> t, offset |-> from + i - 1]
  BY WindowSeq
<1>3. /\ c \in Seq(Message) /\ Len(c) = to
      /\ \A i \in 1 .. to : c[i] = [topic |-> t, offset |-> 0 + i - 1]
  <2>1. 0 \in Nat /\ 0 <= to /\ to - 0 = to
    OBVIOUS
  <2>2. /\ c \in Seq(Message) /\ Len(c) = to - 0
        /\ \A i \in 1 .. to - 0 : c[i] = [topic |-> t, offset |-> 0 + i - 1]
    BY <2>1, WindowSeq
  <2> QED
    BY <2>1, <2>2
<1>4. /\ a \o b \in Seq(Message) /\ Len(a \o b) = from + (to - from)
      /\ \A i \in 1 .. from + (to - from) :
           (a \o b)[i] = IF i <= from THEN a[i] ELSE b[i - from]
  BY <1>1, <1>2, ConcatProperties
<1> HIDE DEF a, b, c
<1>5. ASSUME NEW i \in 1 .. to PROVE (a \o b)[i] = c[i]
  <2>1. CASE i <= from
    BY <1>1, <1>3, <1>4, <2>1
  <2>2. CASE ~(i <= from)
    <3>1. i - from \in 1 .. to - from /\ from + (i - from) - 1 = 0 + i - 1
      BY <2>2
    <3>2. (a \o b)[i] = b[i - from]
      BY <1>4, <2>2
    <3>3. b[i - from] = [topic |-> t, offset |-> from + (i - from) - 1]
      BY <1>2, <3>1
    <3> QED
      BY <1>3, <3>1, <3>2, <3>3
  <2> QED
    BY <2>1, <2>2
<1>6. a \o b = c
  BY <1>3, <1>4, <1>5, SeqEqual, SMTT(60)
<1> QED
  BY <1>6 DEF a, b, c
LEMMA NothingShown ==
  ASSUME NEW t \in Topics \cup {none} PROVE LastKept(Window(t, 0, 0)) = <<>>
<1>0. 0 \in Nat /\ 0 <= 0 /\ 0 - 0 = 0
  OBVIOUS
<1>1. Window(t, 0, 0) \in Seq(Message) /\ Len(Window(t, 0, 0)) = 0
  BY <1>0, WindowSeq
<1>2. Dropped(0) = 0
  BY DashboardAssumption DEF Dropped
<1>3. LastKept(Window(t, 0, 0)) \in Seq(Message) /\ Len(LastKept(Window(t, 0, 0))) = 0
  BY <1>1, <1>2, KeptSeq
<1> QED
  BY <1>3, EmptySeq

-----------------------------------------------------------------------------
(* The steps.                                                               *)

LEMMA IdleIsPoll ==
  /\ Idle \in Poll /\ Idle.list = {} /\ Idle.at = "idle" /\ Idle.msgs = <<>>
  /\ Idle.stale = FALSE /\ Idle.topic = none /\ Idle.offset = 0 /\ Idle.clicks = 0
<1>1. <<>> \in Seq(Message)
  BY EmptySeq
<1> QED
  BY <1>1 DEF Idle, Poll, Stages

\* A poll moves to a place where it does not wait for messages.
LEMMA PollMoves ==
  ASSUME PollsInv, NEW p \in Polls, NEW b \in Poll, b.list \subseteq existing,
         b.at \notin {"ask", "answer"}, poll' = [poll EXCEPT ![p] = b],
         UNCHANGED <<broker, page, selects>>
  PROVE  PollsInv'
<1>1. UNCHANGED <<existing, log, selected, ref, last, shown, mixed, selects>>
  BY DEF broker, page
<1>2. /\ poll' \in [Polls -> Poll] /\ poll'[p] = b
      /\ \A q \in Polls : q # p => poll'[q] = poll[q]
  BY DEF PollsInv, ShapeInv
<1>3. ShapeInv'
  BY <1>1, <1>2 DEF PollsInv, ShapeInv
<1>4. \A q \in Polls : Waits(q)' => q # p /\ Waits(q) /\ poll'[q] = poll[q]
  BY <1>2 DEF Waits
<1>5. RefInv'
  BY <1>1, <1>4 DEF PollsInv, RefInv
<1>6. FreshInv'
  BY <1>1, <1>4 DEF PollsInv, FreshInv
<1>7. AnswerInv'
  <2>1. \A q \in Polls : poll'[q].at = "answer" => poll'[q] = poll[q]
    BY <1>2
  <2> QED
    BY <1>1, <2>1 DEF PollsInv, AnswerInv
<1>8. PageInv'
  BY <1>1 DEF PollsInv, PageInv
<1> QED
  BY <1>3, <1>5, <1>6, <1>7, <1>8 DEF PollsInv

LEMMA DoFetchData == ASSUME PollsInv, NEW p \in Polls, FetchData(p) PROVE PollsInv'
<1> PICK b : b = [Idle EXCEPT !.at = "heads"]
  OBVIOUS
<1>1. b \in Poll /\ b.list = {} /\ b.at = "heads"
  BY IdleIsPoll DEF Poll, Stages
<1>2. poll' = [poll EXCEPT ![p] = b] /\ UNCHANGED <<broker, page, selects>>
  BY DEF FetchData, Step
<1> QED
  BY <1>1, <1>2, PollMoves

LEMMA DoListTopics == ASSUME PollsInv, NEW p \in Polls, ListTopics(p) PROVE PollsInv'
<1> PICK l : l = existing
  OBVIOUS
<1> PICK b : b = [Idle EXCEPT !.at = "list", !.list = l]
  OBVIOUS
<1>0. l \in SUBSET Topics
  BY DEF PollsInv, ShapeInv
<1>1. b \in Poll /\ b.list = l /\ b.at = "list"
  BY <1>0, IdleIsPoll DEF Poll, Stages
<1>2. poll' = [poll EXCEPT ![p] = b] /\ UNCHANGED <<broker, page, selects>>
  BY DEF ListTopics, Step
<1> QED
  BY <1>1, <1>2, PollMoves

LEMMA SelectIsPoll ==
  ASSUME NEW b, b = [Idle EXCEPT !.at = "select"]
  PROVE  b \in Poll /\ b.list = {} /\ b.at = "select"
  BY IdleIsPoll DEF Poll, Stages

LEMMA DoFetchFails == ASSUME PollsInv, NEW p \in Polls, FetchFails(p) PROVE PollsInv'
<1> PICK b : b = [Idle EXCEPT !.at = "select"]
  OBVIOUS
<1>1. b \in Poll /\ b.list = {} /\ b.at = "select"
  BY SelectIsPoll
<1>2. (poll' = [poll EXCEPT ![p] = b] \/ poll' = [poll EXCEPT ![p] = Idle])
      /\ UNCHANGED <<broker, page, selects>>
  BY DEF FetchFails, Step
<1>3. CASE poll' = [poll EXCEPT ![p] = b]
  BY <1>1, <1>2, <1>3, PollMoves
<1>4. CASE poll' = [poll EXCEPT ![p] = Idle]
  BY <1>2, <1>4, PollMoves, IdleIsPoll
<1> QED
  BY <1>2, <1>3, <1>4

\* The selection changes only while nothing is shown and nothing asked for.
LEMMA DoSelectFirst == ASSUME PollsInv, NEW p \in Polls, SelectFirst(p) PROVE PollsInv'
<1> PICK b : b = [Idle EXCEPT !.at = "select"]
  OBVIOUS
<1>1. b \in Poll /\ b.list = {} /\ b.at = "select"
  BY SelectIsPoll
<1>2. /\ poll' = [poll EXCEPT ![p] = b]
      /\ UNCHANGED <<existing, log, ref, last, shown, mixed, seen, crossed, selects>>
      /\ selected' = selected \/ (ref = none /\ selected' \in poll[p].list)
  BY DEF SelectFirst, Step, broker
<1>3. CASE selected' = selected
  <2>1. UNCHANGED <<broker, page, selects>>
    BY <1>2, <1>3 DEF broker, page
  <2> QED
    BY <1>1, <1>2, <2>1, PollMoves
<1>4. CASE ref = none /\ selected' \in poll[p].list
  <2>1. selected' \in existing /\ selected' \in Topics
    BY <1>4 DEF PollsInv, ShapeInv
  <2>2. /\ poll' \in [Polls -> Poll] /\ poll'[p] = b
        /\ \A q \in Polls : q # p => poll'[q] = poll[q]
    BY <1>1, <1>2 DEF PollsInv, ShapeInv
  <2>3. ShapeInv'
    BY <1>1, <1>2, <2>1, <2>2 DEF PollsInv, ShapeInv
  <2>4. last = 0 /\ shown = <<>> /\ ~mixed /\ \A q \in Polls : ~Waits(q)
    BY <1>4 DEF PollsInv, RefInv
  <2>5. \A q \in Polls : ~Waits(q)'
    BY <1>1, <2>2, <2>4 DEF Waits
  <2>6. RefInv'
    BY <1>2, <1>4, <2>4, <2>5 DEF RefInv
  <2>7. FreshInv' /\ AnswerInv'
    BY <2>5 DEF FreshInv, AnswerInv, Waits
  <2>8. PageInv'
    <3>1. LastKept(Window(selected', 0, 0)) = <<>>
      BY <2>1, NothingShown
    <3>2. log[selected'] \in Nat
      BY <2>1 DEF PollsInv, ShapeInv
    <3> QED
      BY <1>2, <2>4, <3>1, <3>2 DEF PageInv
  <2> QED
    BY <2>3, <2>6, <2>7, <2>8 DEF PollsInv
<1> QED
  BY <1>2, <1>3, <1>4

\* The refs a poll reads are those of the page.
LEMMA DoAskMessages == ASSUME PollsInv, NEW p \in Polls, AskMessages(p) PROVE PollsInv'
<1>1. UNCHANGED <<broker, page, selects>>
  BY DEF AskMessages
<1>2. CASE ref = none
  <2>1. poll' = [poll EXCEPT ![p] = Idle]
    BY <1>2 DEF AskMessages, Step
  <2> QED
    BY <1>1, <2>1, PollMoves, IdleIsPoll
<1>3. CASE ref # none
  <2> PICK t : t = ref
    OBVIOUS
  <2> PICK o : o = last
    OBVIOUS
  <2> PICK c : c = selects
    OBVIOUS
  <2> PICK b : b = [Idle EXCEPT !.at = "ask", !.topic = t, !.offset = o, !.clicks = c]
    OBVIOUS
  <2>1. t \in Topics /\ o \in Nat /\ c \in Nat /\ t = selected
    BY <1>3 DEF PollsInv, ShapeInv, RefInv
  <2>2. b \in Poll /\ b.list = {} /\ b.at = "ask" /\ b.topic = t /\ b.offset = o
    BY <2>1, IdleIsPoll DEF Poll, Stages
  <2>3. poll' = [poll EXCEPT ![p] = b]
    BY <1>3 DEF AskMessages, Step
  <2>4. UNCHANGED <<existing, log, selected, ref, last, shown, mixed, selects>>
    BY <1>1 DEF broker, page
  <2>5. /\ poll' \in [Polls -> Poll] /\ poll'[p] = b
        /\ \A q \in Polls : q # p => poll'[q] = poll[q]
    BY <2>2, <2>3 DEF PollsInv, ShapeInv
  <2>6. ShapeInv'
    BY <2>2, <2>4, <2>5 DEF PollsInv, ShapeInv
  <2>7. RefInv'
    BY <1>3, <2>4 DEF PollsInv, RefInv
  <2>8. FreshInv'
    BY <2>1, <2>2, <2>4, <2>5 DEF PollsInv, FreshInv, Waits
  <2>9. AnswerInv'
    <3>1. \A q \in Polls : poll'[q].at = "answer" => poll'[q] = poll[q]
      BY <2>2, <2>5
    <3> QED
      BY <2>4, <3>1 DEF PollsInv, AnswerInv
  <2>10. PageInv'
    BY <2>4 DEF PollsInv, PageInv
  <2> QED
    BY <2>6, <2>7, <2>8, <2>9, <2>10 DEF PollsInv
<1> QED
  BY <1>2, <1>3
\* The broker answers with a window of the log.
LEMMA DoHandleMessages ==
  ASSUME PollsInv, NEW p \in Polls, HandleMessages(p) PROVE PollsInv'
<1>1. UNCHANGED <<existing, log, selected, ref, last, shown, mixed, selects>> /\ poll[p].at = "ask"
  BY DEF HandleMessages, Step, broker, page
<1> PICK t : t = poll[p].topic
  OBVIOUS
<1> PICK o : o = poll[p].offset
  OBVIOUS
<1> PICK k : k = IF log[t] - o < Limit THEN log[t] - o ELSE Limit
  OBVIOUS
<1> PICK m : m = [i \in 1 .. k |-> [topic |-> t, offset |-> o + i - 1]]
  OBVIOUS
<1> PICK b : b = [poll[p] EXCEPT !.at = "answer", !.msgs = m]
  OBVIOUS
<1>2. poll' = [poll EXCEPT ![p] = b]
  BY DEF HandleMessages, Step
<1>3. poll[p] \in Poll /\ t \in Topics /\ o \in Nat /\ log[t] \in Nat /\ Limit \in Nat
  <2>1. poll[p] \in Poll
    BY DEF PollsInv, ShapeInv
  <2>2. t \in Topics
    BY <1>1 DEF PollsInv, FreshInv, Waits
  <2>3. log[t] \in Nat
    BY <2>2 DEF PollsInv, ShapeInv
  <2> QED
    BY <2>1, <2>2, <2>3, DashboardAssumption DEF Poll
<1>4. /\ m \in Seq(Message)
      /\ m # <<>> => \E to \in 0 .. log[t] : o < to /\ m = Window(t, o, to)
  <2>1. k \in Int /\ o + k <= log[t]
    BY <1>3
  <2>2. CASE k <= 0
    <3>1. 1 .. k = {}
      BY <2>1, <2>2
    <3>2. m = <<>>
      BY <3>1
    <3> QED
      BY <3>2, EmptySeq
  <2>3. CASE ~(k <= 0)
    <3>1. PICK to \in 0 .. log[t] : to = o + k
      BY <1>3, <2>1, <2>3
    <3>2. o < to /\ to - o = k /\ to \in Nat
      BY <1>3, <2>1, <2>3, <3>1
    <3>3. m = Window(t, o, to)
      BY <3>2 DEF Window
    <3>4. o \in Nat /\ to \in Nat /\ o <= to /\ t \in Topics \cup {none}
      BY <1>3, <3>2
    <3>5. Window(t, o, to) \in Seq(Message)
      BY <3>4, WindowSeq, SMTT(60)
    <3> QED
      BY <3>2, <3>3, <3>5
  <2> QED
    BY <2>2, <2>3
<1>5. /\ b \in Poll /\ b.at = "answer" /\ b.msgs = m /\ b.topic = t /\ b.offset = o
      /\ b.list = poll[p].list
  BY <1>3, <1>4 DEF Poll, Stages
<1>6. b.stale = poll[p].stale
  BY <1>3 DEF Poll
<1>7. /\ poll' \in [Polls -> Poll] /\ poll'[p] = b
      /\ \A q \in Polls : q # p => poll'[q] = poll[q]
  BY <1>2, <1>5 DEF PollsInv, ShapeInv
<1>8. ShapeInv'
  <2>1. \A q \in Polls : poll'[q].list \subseteq existing
    BY <1>5, <1>7, ZenonT(60) DEF PollsInv, ShapeInv
  <2> QED
    BY <1>1, <1>7, <2>1 DEF PollsInv, ShapeInv
<1>9. RefInv'
  <2>1. ref # none
    BY <1>1 DEF PollsInv, RefInv, Waits
  <2> QED
    BY <1>1, <2>1 DEF PollsInv, RefInv
<1>10. FreshInv'
  <2>1. Waits(p)
    BY <1>1 DEF Waits
  <2>2. ASSUME NEW q \in Polls, Waits(q)'
        PROVE  /\ poll'[q].topic \in Topics
               /\ ~poll'[q].stale => poll'[q].topic = selected /\ poll'[q].offset = last
    <3>1. CASE q = p
      BY <1>3, <1>5, <1>6, <1>7, <2>1, <3>1 DEF PollsInv, FreshInv
    <3>2. CASE q # p
      BY <1>7, <2>2, <3>2 DEF PollsInv, FreshInv, Waits
    <3> QED
      BY <3>1, <3>2
  <2> QED
    BY <1>1, <2>2 DEF FreshInv
<1>11. AnswerInv'
  <2> SUFFICES ASSUME NEW q \in Polls, poll'[q].at = "answer", poll'[q].msgs # <<>>
               PROVE  \E to \in 0 .. log[poll'[q].topic] :
                        /\ poll'[q].offset < to
                        /\ poll'[q].msgs = Window(poll'[q].topic, poll'[q].offset, to)
    BY <1>1 DEF AnswerInv
  <2>1. CASE q = p
    <3>1. poll'[q].topic = t /\ poll'[q].offset = o /\ poll'[q].msgs = m
      BY <1>5, <1>7, <2>1
    <3>2. PICK to \in 0 .. log[t] : o < to /\ m = Window(t, o, to)
      BY <1>4, <3>1
    <3> QED
      BY <3>1, <3>2
  <2>2. CASE q # p
    BY <1>7, <2>2 DEF PollsInv, AnswerInv
  <2> QED
    BY <2>1, <2>2
<1>12. PageInv'
  BY <1>1 DEF PollsInv, PageInv
<1> QED
  BY <1>8, <1>9, <1>10, <1>11, <1>12 DEF PollsInv

\* After the page has changed, a poll that waits is stale.
LEMMA OutdatedFacts ==
  ASSUME NEW ps \in [Polls -> Poll]
  PROVE  /\ Outdated(ps) \in [Polls -> Poll]
         /\ \A q \in Polls :
              /\ Outdated(ps)[q].at = ps[q].at /\ Outdated(ps)[q].list = ps[q].list
              /\ Outdated(ps)[q].topic = ps[q].topic /\ Outdated(ps)[q].msgs = ps[q].msgs
              /\ Outdated(ps)[q].offset = ps[q].offset /\ Outdated(ps)[q].clicks = ps[q].clicks
              /\ ps[q].at \in {"ask", "answer"} => Outdated(ps)[q].stale
<1>1. \A q \in Polls : /\ ps[q] \in Poll
                       /\ (ps[q].stale \/ ps[q].at \in {"ask", "answer"}) \in BOOLEAN
                       /\ Outdated(ps)[q] = [ps[q] EXCEPT !.stale =
                            ps[q].stale \/ ps[q].at \in {"ask", "answer"}]
  BY Zenon DEF Outdated
<1>2. ASSUME NEW q \in Polls
      PROVE  /\ Outdated(ps)[q] \in Poll
             /\ Outdated(ps)[q].at = ps[q].at /\ Outdated(ps)[q].list = ps[q].list
             /\ Outdated(ps)[q].topic = ps[q].topic /\ Outdated(ps)[q].msgs = ps[q].msgs
             /\ Outdated(ps)[q].offset = ps[q].offset /\ Outdated(ps)[q].clicks = ps[q].clicks
             /\ Outdated(ps)[q].stale = (ps[q].stale \/ ps[q].at \in {"ask", "answer"})
  <2> PICK r : r = ps[q]
    OBVIOUS
  <2> PICK s : s = (r.stale \/ r.at \in {"ask", "answer"})
    OBVIOUS
  <2> PICK x : x = Outdated(ps)[q]
    OBVIOUS
  <2>1. r \in Poll /\ s \in BOOLEAN /\ x = [r EXCEPT !.stale = s]
    BY <1>1, Zenon
  <2>2. /\ x \in Poll /\ x.at = r.at /\ x.list = r.list /\ x.topic = r.topic
        /\ x.msgs = r.msgs /\ x.offset = r.offset /\ x.clicks = r.clicks /\ x.stale = s
    BY <2>1, Zenon DEF Poll
  <2> QED
    BY <2>2, Zenon
<1>3. Outdated(ps) = [q \in Polls |-> Outdated(ps)[q]]
  BY Zenon DEF Outdated
<1>4. Outdated(ps) \in [Polls -> Poll]
  BY <1>2, <1>3
<1> QED
  BY <1>2, <1>4
\* An answer that was asked for by this page goes behind what it shows.
LEMMA NextWindow ==
  ASSUME NEW t \in Topics, NEW from \in Nat, NEW to \in Nat, from < to,
         NEW old, old = LastKept(Window(t, 0, from)), NEW m, m = Window(t, from, to)
  PROVE  LastKept(old \o m) = LastKept(Window(t, 0, to)) /\ Last(m).offset + 1 = to
<1>1. from <= to /\ 0 \in Nat /\ 0 <= from /\ t \in Topics \cup {none}
  OBVIOUS
<1>2. Window(t, 0, from) \in Seq(Message)
  BY <1>1, WindowSeq
<1>3. /\ m \in Seq(Message) /\ Len(m) = to - from
      /\ \A i \in 1 .. to - from : m[i] = [topic |-> t, offset |-> from + i - 1]
  BY <1>1, WindowSeq
<1>4. LastKept(old \o m) = LastKept(Window(t, 0, from) \o m)
  BY <1>2, <1>3, KeptTwice
<1>5. Window(t, 0, from) \o m = Window(t, 0, to)
  BY <1>1, WindowsJoin
<1>6. to - from \in 1 .. to - from /\ from + (to - from) - 1 = to - 1
  OBVIOUS
<1>7. Last(m) = [topic |-> t, offset |-> to - 1]
  BY <1>3, <1>6 DEF Last
<1>8. Last(m).offset = to - 1
  BY <1>7
<1>9. (to - 1) + 1 = to
  OBVIOUS
<1>10. Last(m).offset + 1 = to
  BY <1>8, <1>9, Zenon
<1> QED
  BY <1>4, <1>5, <1>10, Zenon

LEMMA DoShowMessages == ASSUME PollsInv, NEW p \in Polls, ShowMessages(p) PROVE PollsInv'
<1> PICK m : m = poll[p].msgs
  OBVIOUS
<1>1. CASE m = <<>>
  <2>1. poll' = [poll EXCEPT ![p] = Idle] /\ UNCHANGED <<broker, page, selects>>
    BY <1>1 DEF ShowMessages, Show, Later
  <2> QED
    BY <2>1, PollMoves, IdleIsPoll
<1>2. CASE m # <<>>
  <2> DEFINE ps == [poll EXCEPT ![p] = Idle]
  <2>1. /\ shown' = LastKept(shown \o m)
        /\ last' = IF last < Last(m).offset + 1 THEN Last(m).offset + 1 ELSE last
        /\ mixed' = (mixed \/ poll[p].stale)
        /\ poll' = Outdated(ps) /\ UNCHANGED <<existing, log, selected, ref, selects>>
        /\ poll[p].at = "answer"
    BY <1>2 DEF ShowMessages, Show, Later, broker
  <2>2. ps \in [Polls -> Poll] /\ ps[p] = Idle /\ \A q \in Polls : q # p => ps[q] = poll[q]
    BY IdleIsPoll DEF PollsInv, ShapeInv
  <2> HIDE DEF ps
  <2>3. /\ poll' \in [Polls -> Poll]
        /\ \A q \in Polls :
             /\ poll'[q].at = ps[q].at /\ poll'[q].list = ps[q].list
             /\ poll'[q].topic = ps[q].topic /\ poll'[q].msgs = ps[q].msgs
             /\ poll'[q].offset = ps[q].offset
             /\ ps[q].at \in {"ask", "answer"} => poll'[q].stale
    BY <2>1, <2>2, OutdatedFacts
  <2>4. poll[p] \in Poll /\ m \in Seq(Message) /\ poll[p].topic \in Topics /\ ref # none
    BY <2>1 DEF PollsInv, ShapeInv, Poll, FreshInv, RefInv, Waits
  <2>5. shown' \in Seq(Message) /\ Len(shown') <= Keep
    <3>1. shown \o m \in Seq(Message)
      BY <2>4, ConcatProperties DEF PollsInv, ShapeInv
    <3> QED
      BY <2>1, <3>1, KeptSeq
  <2>6. last' \in Nat
    <3>1. Len(m) \in 1 .. Len(m) /\ m[Len(m)] \in Message
      BY <1>2, <2>4
    <3>2. Last(m).offset \in Nat
      BY <3>1 DEF Last, Message
    <3> QED
      BY <2>1, <3>2 DEF PollsInv, ShapeInv
  <2>7. ShapeInv'
    <3>1. \A q \in Polls : poll'[q].list \subseteq existing
      BY <2>2, <2>3, IdleIsPoll DEF PollsInv, ShapeInv
    <3>2. mixed' \in BOOLEAN
      BY <2>1
    <3> QED
      BY <2>1, <2>3, <2>5, <2>6, <3>1, <3>2 DEF PollsInv, ShapeInv
  <2>8. RefInv'
    BY <2>1, <2>4 DEF PollsInv, RefInv
  <2>9. \A q \in Polls : Waits(q)' => q # p /\ Waits(q) /\ ps[q] = poll[q] /\ poll'[q].stale
    BY <2>2, <2>3, IdleIsPoll DEF Waits
  <2>10. FreshInv'
    BY <2>3, <2>9 DEF PollsInv, FreshInv
  <2>11. AnswerInv'
    <3>1. \A q \in Polls : poll'[q].at = "answer" =>
            /\ poll[q].at = "answer" /\ poll'[q].topic = poll[q].topic
            /\ poll'[q].msgs = poll[q].msgs /\ poll'[q].offset = poll[q].offset
      BY <2>2, <2>3, IdleIsPoll
    <3> QED
      BY <2>1, <3>1 DEF PollsInv, AnswerInv
  <2>12. PageInv'
    <3> SUFFICES ASSUME ~mixed, ~poll[p].stale
                 PROVE  /\ last' <= log[selected]
                        /\ shown' = LastKept(Window(selected, 0, last'))
      BY <2>1 DEF PageInv
    <3> PICK t : t = selected
      OBVIOUS
    <3> PICK from : from = last
      OBVIOUS
    <3>1. poll[p].topic = t /\ poll[p].offset = from /\ t \in Topics /\ from \in Nat
      BY <2>1, <2>4 DEF PollsInv, FreshInv, Waits, ShapeInv
    <3>2. PICK to \in 0 .. log[t] : from < to /\ m = Window(t, from, to)
      BY <1>2, <2>1, <3>1 DEF PollsInv, AnswerInv
    <3>3. to \in Nat /\ log[t] \in Nat /\ to <= log[t]
      BY <3>1 DEF PollsInv, ShapeInv
    <3>4. shown = LastKept(Window(t, 0, from))
      BY DEF PollsInv, PageInv
    <3>5. LastKept(shown \o m) = LastKept(Window(t, 0, to)) /\ Last(m).offset + 1 = to
      BY <3>1, <3>2, <3>3, <3>4, NextWindow
    <3>6. last' = to
      BY <2>1, <3>2, <3>5
    <3> QED
      BY <2>1, <3>3, <3>5, <3>6
  <2> QED
    BY <2>7, <2>8, <2>10, <2>11, <2>12 DEF PollsInv
<1> QED
  BY <1>1, <1>2

\* A click begins a new page, and every poll that waits is stale for it.
LEMMA DoSelectTopic ==
  ASSUME PollsInv, NEW t \in Topics, HandleSelectTopic(t) PROVE PollsInv'
<1>1. /\ t \in existing /\ selected' = t /\ ref' = t /\ shown' = <<>> /\ last' = 0
      /\ mixed' = FALSE /\ poll' = Outdated(poll) /\ UNCHANGED <<existing, log>>
      /\ selects' = selects + 1
  BY DEF HandleSelectTopic, Select, broker
<1>2. poll \in [Polls -> Poll]
  BY DEF PollsInv, ShapeInv
<1>3. /\ poll' \in [Polls -> Poll]
      /\ \A q \in Polls :
           /\ poll'[q].at = poll[q].at /\ poll'[q].list = poll[q].list
           /\ poll'[q].topic = poll[q].topic /\ poll'[q].msgs = poll[q].msgs
           /\ poll'[q].offset = poll[q].offset
           /\ poll[q].at \in {"ask", "answer"} => poll'[q].stale
  BY <1>1, <1>2, OutdatedFacts
<1>4. <<>> \in Seq(Message) /\ Len(<<>>) <= Keep
  BY EmptySeq, DashboardAssumption
<1>5. ShapeInv'
  <2>a. selects \in Nat
    BY DEF PollsInv, ShapeInv
  <2>b. selects' \in Nat /\ last' \in Nat
    BY <1>1, <2>a
  <2>1. selects' \in Nat /\ last' \in Nat /\ mixed' \in BOOLEAN
    BY <1>1, <2>b, Zenon
  <2>2. \A q \in Polls : poll'[q].list \subseteq existing'
    BY <1>1, <1>3 DEF PollsInv, ShapeInv
  <2> QED
    BY <1>1, <1>3, <1>4, <2>1, <2>2 DEF PollsInv, ShapeInv
<1>6. RefInv'
  BY <1>1, DashboardAssumption DEF RefInv
<1>7. FreshInv'
  BY <1>3 DEF PollsInv, FreshInv, Waits
<1>8. AnswerInv'
  BY <1>1, <1>3 DEF PollsInv, AnswerInv
<1>9. PageInv'
  <2>1. LastKept(Window(t, 0, 0)) = <<>> /\ log[t] \in Nat
    BY NothingShown DEF PollsInv, ShapeInv
  <2> QED
    BY <1>1, <2>1 DEF PageInv
<1> QED
  BY <1>5, <1>6, <1>7, <1>8, <1>9 DEF PollsInv

LEMMA DoEffect == ASSUME PollsInv, Effect PROVE PollsInv'
<1>1. /\ ref # selected /\ ref' = selected
      /\ UNCHANGED <<existing, log, selected, last, shown, mixed, selects, poll>>
  BY DEF Effect, broker
<1>2. ref = none
  BY <1>1 DEF PollsInv, RefInv
<1>3. ShapeInv' /\ RefInv'
  BY <1>1, <1>2 DEF PollsInv, ShapeInv, RefInv
<1>4. FreshInv' /\ AnswerInv' /\ PageInv'
  BY <1>1 DEF PollsInv, FreshInv, AnswerInv, PageInv, Waits
<1> QED
  BY <1>3, <1>4 DEF PollsInv

\* New topics and messages: the logs only grow.
LEMMA LogsGrow ==
  ASSUME PollsInv, UNCHANGED <<page, selects, poll>>, existing \subseteq existing',
         existing' \subseteq Topics, log' \in [Topics -> Nat],
         \A t \in Topics : log[t] <= log'[t]
  PROVE  PollsInv'
<1>1. UNCHANGED <<selected, ref, last, shown, mixed, selects, poll>>
  BY DEF page
<1>2. ShapeInv' /\ RefInv' /\ FreshInv'
  BY <1>1 DEF PollsInv, ShapeInv, RefInv, FreshInv, Waits
<1>3. log \in [Topics -> Nat] /\ existing \subseteq Topics
  BY DEF PollsInv, ShapeInv
<1>4. AnswerInv'
  <2> SUFFICES ASSUME NEW p \in Polls, poll[p].at = "answer", poll[p].msgs # <<>>
               PROVE  \E to \in 0 .. log'[poll[p].topic] :
                        /\ poll[p].offset < to
                        /\ poll[p].msgs = Window(poll[p].topic, poll[p].offset, to)
    BY <1>1 DEF AnswerInv
  <2>1. PICK to \in 0 .. log[poll[p].topic] :
          /\ poll[p].offset < to
          /\ poll[p].msgs = Window(poll[p].topic, poll[p].offset, to)
    BY DEF PollsInv, AnswerInv
  <2>2. poll[p].topic \in Topics
    BY DEF PollsInv, FreshInv, Waits
  <2>3. to \in 0 .. log'[poll[p].topic]
    BY <1>3, <2>2
  <2> QED
    BY <2>1, <2>3
<1>5. PageInv'
  <2>1. selected # none => selected \in Topics
    BY DEF PollsInv, ShapeInv
  <2>2. last \in Nat
    BY DEF PollsInv, ShapeInv
  <2> QED
    BY <1>1, <1>3, <2>1, <2>2 DEF PollsInv, PageInv
<1> QED
  BY <1>2, <1>4, <1>5 DEF PollsInv

LEMMA DoBroker ==
  ASSUME PollsInv, NEW t \in Topics, CreateTopic(t) \/ Produce(t) PROVE PollsInv'
<1>1. log \in [Topics -> Nat] /\ existing \subseteq Topics
  BY DEF PollsInv, ShapeInv
<1>2. CASE CreateTopic(t)
  BY <1>1, <1>2, LogsGrow DEF CreateTopic
<1>3. CASE Produce(t)
  <2>1. log' = [log EXCEPT ![t] = log[t] + 1] /\ UNCHANGED <<page, selects, poll, existing>>
    BY <1>3 DEF Produce
  <2>2. log' \in [Topics -> Nat] /\ \A u \in Topics : log[u] <= log'[u]
    BY <1>1, <2>1
  <2> QED
    BY <1>1, <2>1, <2>2, LogsGrow
<1> QED
  BY <1>2, <1>3

LEMMA PollsNext == ASSUME PollsInv, [Next]_vars PROVE PollsInv'
<1>1. CASE \E t \in Topics : CreateTopic(t) \/ Produce(t)
  BY <1>1, DoBroker
<1>2. CASE \E t \in Topics : HandleSelectTopic(t)
  BY <1>2, DoSelectTopic
<1>3. CASE \E p \in Polls : Polling(p)
  BY <1>3, DoFetchData, DoListTopics, DoSelectFirst, DoAskMessages, DoHandleMessages,
     DoShowMessages DEF Polling
<1>4. CASE \E p \in Polls : FetchFails(p)
  BY <1>4, DoFetchFails
<1>5. CASE Effect
  BY <1>5, DoEffect
<1>6. CASE UNCHANGED vars
  BY <1>6 DEF vars, broker, page, PollsInv, ShapeInv, RefInv, FreshInv, AnswerInv, PageInv,
              Waits
<1> QED
  BY <1>1, <1>2, <1>3, <1>4, <1>5, <1>6 DEF Next

LEMMA PollsInit == ASSUME Init PROVE PollsInv
<1>1. <<>> \in Seq(Message) /\ Len(<<>>) <= Keep
  BY EmptySeq, DashboardAssumption
<1>2. LastKept(Window(none, 0, 0)) = <<>>
  BY NothingShown
<1>3. ShapeInv
  BY <1>1, IdleIsPoll DEF Init, ShapeInv
<1>4. RefInv /\ FreshInv /\ AnswerInv
  BY IdleIsPoll DEF Init, RefInv, FreshInv, AnswerInv, Waits
<1>5. PageInv
  BY <1>2 DEF Init, PageInv
<1> QED
  BY <1>3, <1>4, <1>5 DEF PollsInv

\* The parts together: a poll that is not stale was asked for by the page as it
\* is, and the ref is the selection from the first poll for messages on.
THEOREM PollsInvariant == Spec => []PollsInv
<1>1. PollsInv /\ [Next]_vars => PollsInv'
  BY PollsNext
<1> QED
  BY <1>1, PollsInit, PTL DEF Spec

\* The page selects only topics the broker has and never keeps more than Keep
\* messages (page.tsx:98-106, 123-128).
THEOREM PageIsBounded == Spec => []TypeOK
<1>1. PollsInv => TypeOK
  BY DEF PollsInv, ShapeInv, TypeOK, Poll, Stages
<1> QED
  BY <1>1, PollsInvariant, PTL

\* The page shows the last Keep messages of its topic up to the last one seen,
\* each once and in order, unless an answer came for a page that had changed
\* since it was asked for (page.tsx:87-128): for any number of polls under way,
\* clicks and failures, and any limits.
THEOREM PageIsWindow == Spec => []ShownIsWindow
<1>1. ASSUME PollsInv PROVE ShownIsWindow
  <2>1. last \in Nat /\ selected \in Topics \cup {none}
    BY <1>1 DEF PollsInv, ShapeInv
  <2>2. Window(selected, 0, last) = [i \in 1 .. last |-> [topic |-> selected, offset |-> i - 1]]
    <3>1. last - 0 = last /\ \A i \in 1 .. last : 0 + i - 1 = i - 1
      BY <2>1
    <3> QED
      BY <3>1 DEF Window
  <2> QED
    BY <1>1, <2>2 DEF PollsInv, PageInv, ShownIsWindow
<1> QED
  BY <1>1, PollsInvariant, PTL

-----------------------------------------------------------------------------
(* No message is jumped over.                                               *)

\* A poll asked for after the last click is for the selected topic, from a place
\* the page has reached; it may have been overtaken since.
AskedInv ==
  \A p \in Polls : Waits(p) =>
    /\ poll[p].clicks <= selects
    /\ poll[p].clicks = selects => poll[p].topic = selected /\ poll[p].offset <= last

JumpInv == crossed \in BOOLEAN /\ AskedInv /\ NothingJumped

\* A step that shows nothing and asks for nothing.
LEMMA JumpKept ==
  ASSUME PollsInv, JumpInv, UNCHANGED <<selected, last, seen, crossed, selects>>,
         \A q \in Polls : Waits(q)' => Waits(q) /\ poll'[q].clicks = poll[q].clicks
           /\ poll'[q].topic = poll[q].topic /\ poll'[q].offset = poll[q].offset
  PROVE  JumpInv'
<1>1. AskedInv'
  BY DEF JumpInv, AskedInv
<1>2. NothingJumped'
  BY DEF JumpInv, NothingJumped
<1> QED
  BY <1>1, <1>2 DEF JumpInv

LEMMA JumpMoves ==
  ASSUME PollsInv, JumpInv, NEW p \in Polls, NEW b, b.at \notin {"ask", "answer"},
         poll' = [poll EXCEPT ![p] = b],
         UNCHANGED <<selected, last, seen, crossed, selects>>
  PROVE  JumpInv'
<1>1. poll'[p] = b /\ \A q \in Polls : q # p => poll'[q] = poll[q]
  BY DEF PollsInv, ShapeInv
<1>2. \A q \in Polls : Waits(q)' => q # p /\ Waits(q) /\ poll'[q] = poll[q]
  BY <1>1 DEF Waits
<1> QED
  BY <1>2, JumpKept

LEMMA JumpAsk == ASSUME PollsInv, JumpInv, NEW p \in Polls, AskMessages(p) PROVE JumpInv'
<1>1. UNCHANGED <<selected, last, seen, crossed, selects>>
  BY DEF AskMessages, page
<1>2. CASE ref = none
  <2>1. poll' = [poll EXCEPT ![p] = Idle]
    BY <1>2 DEF AskMessages, Step
  <2> QED
    BY <1>1, <2>1, JumpMoves, IdleIsPoll
<1>3. CASE ref # none
  <2> PICK b : b = [Idle EXCEPT !.at = "ask", !.topic = ref, !.offset = last,
                                !.clicks = selects]
    OBVIOUS
  <2>1. poll' = [poll EXCEPT ![p] = b]
    BY <1>3 DEF AskMessages, Step
  <2>2. poll'[p] = b /\ \A q \in Polls : q # p => poll'[q] = poll[q]
    BY <2>1 DEF PollsInv, ShapeInv
  <2>3. b.topic = ref /\ b.offset = last /\ b.clicks = selects
    BY DEF Idle
  <2>4. ref = selected /\ selects \in Nat /\ last \in Nat
    BY <1>3 DEF PollsInv, RefInv, ShapeInv
  <2>5. AskedInv'
    <3> SUFFICES ASSUME NEW q \in Polls, Waits(q)'
                 PROVE  /\ poll'[q].clicks <= selects
                        /\ poll'[q].clicks = selects =>
                             poll'[q].topic = selected /\ poll'[q].offset <= last
      BY <1>1 DEF AskedInv
    <3>1. CASE q = p
      <4>1. poll'[q].clicks = selects /\ poll'[q].topic = selected /\ poll'[q].offset = last
        BY <2>2, <2>3, <2>4, <3>1, Zenon
      <4>2. selects <= selects /\ last <= last
        BY <2>4
      <4> QED
        BY <4>1, <4>2, Zenon
    <3>2. CASE q # p
      BY <2>2, <3>2 DEF JumpInv, AskedInv, Waits
    <3> QED
      BY <3>1, <3>2
  <2>6. NothingJumped'
    BY <1>1 DEF JumpInv, NothingJumped
  <2> QED
    BY <1>1, <2>5, <2>6 DEF JumpInv
<1> QED
  BY <1>2, <1>3

LEMMA JumpAnswer ==
  ASSUME PollsInv, JumpInv, NEW p \in Polls, HandleMessages(p) PROVE JumpInv'
<1>1. UNCHANGED <<selected, last, seen, crossed, selects>> /\ poll[p].at = "ask"
  BY DEF HandleMessages, Step, page
<1> PICK m : poll' = [poll EXCEPT ![p] = [poll[p] EXCEPT !.at = "answer", !.msgs = m]]
  BY DEF HandleMessages, Step
<1>2. poll[p] \in Poll /\ poll \in [Polls -> Poll]
  BY DEF PollsInv, ShapeInv
<1>3. \A q \in Polls : q # p => poll'[q] = poll[q]
  BY <1>2
<1>4. /\ poll'[p].topic = poll[p].topic /\ poll'[p].offset = poll[p].offset
      /\ poll'[p].clicks = poll[p].clicks
  BY <1>2 DEF Poll
<1>5. Waits(p)
  BY <1>1 DEF Waits
<1>6. \A q \in Polls : Waits(q)' => Waits(q) /\ poll'[q].clicks = poll[q].clicks
        /\ poll'[q].topic = poll[q].topic /\ poll'[q].offset = poll[q].offset
  BY <1>3, <1>4, <1>5 DEF Waits
<1> QED
  BY <1>1, <1>6, JumpKept

\* What a window holds is shown with it.
LEMMA WindowShown ==
  ASSUME NEW t \in Topics, NEW from \in Nat, NEW to \in Nat, from < to,
         NEW m, m = Window(t, from, to), NEW o \in Nat, from <= o, o < to
  PROVE  [topic |-> t, offset |-> o] \in ToSet(m)
<1>1. /\ m \in Seq(Message) /\ Len(m) = to - from
      /\ \A i \in 1 .. to - from : m[i] = [topic |-> t, offset |-> from + i - 1]
  <2>1. t \in Topics \cup {none} /\ from <= to
    OBVIOUS
  <2> QED
    BY <2>1, WindowSeq
<1>2. PICK i \in 1 .. to - from : from + i - 1 = o
  <2>1. (o - from) + 1 \in 1 .. to - from /\ from + ((o - from) + 1) - 1 = o
    OBVIOUS
  <2> QED
    BY <2>1
<1>3. i \in DOMAIN m
  BY <1>1
<1>4. m[i] = [topic |-> t, offset |-> o]
  BY <1>1, <1>2
<1> QED
  BY <1>3, <1>4 DEF ToSet

LEMMA OffsetBelow ==
  \A l \in Nat : \A o \in 0 .. l - 1 : o \in Nat /\ o < l
  OBVIOUS

LEMMA JumpShow == ASSUME PollsInv, JumpInv, NEW p \in Polls, ShowMessages(p) PROVE JumpInv'
<1> PICK m : m = poll[p].msgs
  OBVIOUS
<1>1. CASE m = <<>>
  <2>1. poll' = [poll EXCEPT ![p] = Idle] /\ UNCHANGED <<broker, page, selects>>
    BY <1>1 DEF ShowMessages, Show, Later
  <2> QED
    BY <2>1, JumpMoves, IdleIsPoll DEF page
<1>2. CASE m # <<>>
  <2> DEFINE ps == [poll EXCEPT ![p] = Idle]
  <2>1. /\ last' = IF last < Last(m).offset + 1 THEN Last(m).offset + 1 ELSE last
        /\ seen' = seen \cup ToSet(m) /\ crossed' = (crossed \/ poll[p].clicks # selects)
        /\ poll' = Outdated(ps) /\ UNCHANGED <<selected, selects>>
        /\ poll[p].at = "answer"
    BY <1>2 DEF ShowMessages, Show, Later
  <2>2. ps \in [Polls -> Poll] /\ ps[p] = Idle /\ \A q \in Polls : q # p => ps[q] = poll[q]
    BY IdleIsPoll DEF PollsInv, ShapeInv
  <2> HIDE DEF ps
  <2>3. \A q \in Polls :
          /\ poll'[q].at = ps[q].at /\ poll'[q].topic = ps[q].topic
          /\ poll'[q].offset = ps[q].offset /\ poll'[q].clicks = ps[q].clicks
    BY <2>1, <2>2, OutdatedFacts
  <2> PICK t : t = poll[p].topic
    OBVIOUS
  <2> PICK from : from = poll[p].offset
    OBVIOUS
  <2>4. Waits(p) /\ t \in Topics /\ from \in Nat /\ last \in Nat /\ log[t] \in Nat
    <3>1. Waits(p) /\ t \in Topics
      BY <2>1 DEF PollsInv, FreshInv, Waits
    <3>2. poll[p] \in Poll
      BY DEF PollsInv, ShapeInv
    <3> QED
      BY <3>1, <3>2 DEF PollsInv, ShapeInv, Poll
  <2>5. PICK to \in 0 .. log[t] : from < to /\ m = Window(t, from, to)
    BY <1>2, <2>1 DEF PollsInv, AnswerInv
  <2>6. to \in Nat
    BY <2>4
  <2>7. Last(m).offset + 1 = to
    BY <2>4, <2>5, <2>6, NextWindow
  <2>8. last' \in Nat /\ last <= last' /\ (last' = last \/ last' = to)
    BY <2>1, <2>4, <2>6, <2>7
  <2>9. AskedInv'
    <3>1. ASSUME NEW q \in Polls, Waits(q)'
          PROVE  /\ Waits(q) /\ poll'[q].topic = poll[q].topic
                 /\ poll'[q].offset = poll[q].offset /\ poll'[q].clicks = poll[q].clicks
      BY <2>2, <2>3, <3>1, IdleIsPoll DEF Waits
    <3>2. \A q \in Polls : poll[q].offset \in Nat
      BY DEF PollsInv, ShapeInv, Poll
    <3> QED
      BY <2>1, <2>4, <2>8, <3>1, <3>2 DEF JumpInv, AskedInv
  <2>10. NothingJumped'
    <3> SUFFICES ASSUME ~crossed', NEW o \in 0 .. last' - 1
                 PROVE  [topic |-> selected, offset |-> o] \in seen'
      BY <2>1 DEF NothingJumped
    <3>1. ~crossed /\ poll[p].clicks = selects
      BY <2>1
    <3>2. t = selected /\ from <= last
      BY <2>4, <3>1 DEF JumpInv, AskedInv
    <3>3. CASE o < last
      BY <2>1, <2>4, <2>8, <3>1, <3>3 DEF JumpInv, NothingJumped
    <3>4. CASE ~(o < last)
      <4>a. o \in Nat /\ o < last'
        <5> PICK l : l = last'
          OBVIOUS
        <5>1. l \in Nat /\ o \in 0 .. l - 1
          BY <2>8, Zenon
        <5> QED
          BY <5>1, OffsetBelow, Zenon
      <4>b. last' = to
        BY <2>8, <3>4, <4>a
      <4>1. o \in Nat /\ from <= o /\ o < to
        BY <2>4, <2>6, <3>2, <3>4, <4>a, <4>b
      <4>2. [topic |-> t, offset |-> o] \in ToSet(m)
        BY <2>4, <2>5, <2>6, <4>1, WindowShown
      <4> QED
        BY <2>1, <3>2, <4>2
    <3> QED
      BY <3>3, <3>4
  <2>11. crossed' \in BOOLEAN
    BY <2>1
  <2> QED
    BY <2>9, <2>10, <2>11 DEF JumpInv
<1> QED
  BY <1>1, <1>2

\* After a click no poll under way was asked for since.
LEMMA JumpSelect ==
  ASSUME PollsInv, JumpInv, NEW t \in Topics, HandleSelectTopic(t) PROVE JumpInv'
<1>1. /\ last' = 0 /\ crossed' = FALSE /\ selects' = selects + 1 /\ poll' = Outdated(poll)
  BY DEF HandleSelectTopic, Select
<1>2. poll \in [Polls -> Poll] /\ selects \in Nat
  BY DEF PollsInv, ShapeInv
<1>3. \A q \in Polls : poll'[q].at = poll[q].at /\ poll'[q].clicks = poll[q].clicks
                         /\ poll[q].clicks \in Nat
  BY <1>1, <1>2, OutdatedFacts DEF Poll
<1>4. \A q \in Polls : Waits(q)' => poll'[q].clicks <= selects' /\ poll'[q].clicks # selects'
  BY <1>1, <1>2, <1>3 DEF JumpInv, AskedInv, Waits
<1>5. AskedInv'
  BY <1>4 DEF AskedInv
<1>6. NothingJumped'
  BY <1>1 DEF NothingJumped
<1> QED
  BY <1>1, <1>5, <1>6 DEF JumpInv

LEMMA JumpSelectFirst ==
  ASSUME PollsInv, JumpInv, NEW p \in Polls, SelectFirst(p) PROVE JumpInv'
<1> PICK b : b = [Idle EXCEPT !.at = "select"]
  OBVIOUS
<1>1. b.at = "select"
  BY SelectIsPoll
<1>2. /\ poll' = [poll EXCEPT ![p] = b] /\ UNCHANGED <<last, seen, crossed, selects>>
      /\ selected' = selected \/ ref = none
  BY DEF SelectFirst, Step
<1>3. CASE selected' = selected
  BY <1>1, <1>2, <1>3, JumpMoves
<1>4. CASE ref = none
  <2>1. last = 0 /\ \A q \in Polls : ~Waits(q)
    BY <1>4 DEF PollsInv, RefInv
  <2>2. \A q \in Polls : ~Waits(q)'
    BY <1>1, <1>2, <2>1 DEF Waits, PollsInv, ShapeInv
  <2>3. AskedInv' /\ NothingJumped'
    BY <1>2, <2>1, <2>2 DEF AskedInv, NothingJumped
  <2> QED
    BY <1>2, <2>3 DEF JumpInv
<1> QED
  BY <1>2, <1>3, <1>4

LEMMA JumpNext == ASSUME PollsInv, JumpInv, [Next]_vars PROVE JumpInv'
<1>1. CASE \E t \in Topics : CreateTopic(t) \/ Produce(t)
  <2>1. UNCHANGED <<page, selects, poll>>
    BY <1>1 DEF CreateTopic, Produce
  <2> QED
    BY <2>1, JumpKept DEF page, Waits
<1>2. CASE \E t \in Topics : HandleSelectTopic(t)
  BY <1>2, JumpSelect
<1>3. ASSUME NEW p \in Polls, Polling(p) PROVE JumpInv'
  <2>1. CASE FetchData(p) \/ ListTopics(p)
    <3>1. PICK b : b.at \notin {"ask", "answer"} /\ poll' = [poll EXCEPT ![p] = b]
      <4>1. CASE FetchData(p)
        <5> PICK b : b = [Idle EXCEPT !.at = "heads"]
          OBVIOUS
        <5>1. b.at = "heads" /\ poll' = [poll EXCEPT ![p] = b]
          BY <4>1 DEF FetchData, Step, Idle
        <5> QED
          BY <5>1
      <4>2. CASE ListTopics(p)
        <5> PICK b : b = [Idle EXCEPT !.at = "list", !.list = existing]
          OBVIOUS
        <5>1. b.at = "list" /\ poll' = [poll EXCEPT ![p] = b]
          BY <4>2 DEF ListTopics, Step, Idle
        <5> QED
          BY <5>1
      <4> QED
        BY <2>1, <4>1, <4>2
    <3>2. UNCHANGED <<page, selects>>
      BY <2>1 DEF FetchData, ListTopics
    <3> QED
      BY <3>1, <3>2, JumpMoves DEF page
  <2> QED
    BY <1>3, <2>1, JumpSelectFirst, JumpAsk, JumpAnswer, JumpShow DEF Polling
<1>4. ASSUME NEW p \in Polls, FetchFails(p) PROVE JumpInv'
  <2> PICK b : b = [Idle EXCEPT !.at = "select"]
    OBVIOUS
  <2>1. b.at = "select" /\ Idle.at = "idle"
    BY DEF Idle
  <2>2. (poll' = [poll EXCEPT ![p] = b] \/ poll' = [poll EXCEPT ![p] = Idle])
        /\ UNCHANGED <<page, selects>>
    BY <1>4 DEF FetchFails, Step
  <2> QED
    BY <2>1, <2>2, JumpMoves DEF page
<1>5. CASE Effect
  <2>1. UNCHANGED <<selected, last, seen, crossed, selects, poll>>
    BY <1>5 DEF Effect
  <2> QED
    BY <2>1, JumpKept DEF Waits
<1>6. CASE UNCHANGED vars
  <2>1. UNCHANGED <<selected, last, seen, crossed, selects, poll>>
    BY <1>6 DEF vars, page
  <2> QED
    BY <2>1, JumpKept DEF Waits
<1> QED
  BY <1>1, <1>2, <1>3, <1>4, <1>5, <1>6 DEF Next

\* However many polls overlap and whichever fail, every message before the offset
\* the page asks for next was shown since the last click, unless an answer asked
\* for before that click came after it (page.tsx:87-128).
THEOREM NoMessageJumped == Spec => []NothingJumped
<1>1. Init => JumpInv
  <2>1. ASSUME Init PROVE crossed \in BOOLEAN /\ AskedInv /\ NothingJumped
    <3>1. AskedInv
      BY <2>1, IdleIsPoll DEF Init, AskedInv, Waits
    <3>2. last = 0
      BY <2>1 DEF Init
    <3>3. NothingJumped
      BY <3>2 DEF NothingJumped
    <3>4. crossed = FALSE
      BY <2>1 DEF Init
    <3> QED
      BY <3>1, <3>3, <3>4, Zenon
  <2> QED
    BY <2>1 DEF JumpInv
<1>2. PollsInv /\ JumpInv /\ [Next]_vars => JumpInv'
  BY JumpNext
<1>3. JumpInv => NothingJumped
  BY DEF JumpInv
<1> QED
  BY <1>1, <1>2, <1>3, PollsInvariant, PTL DEF Spec
=============================================================================
