----------------------------- MODULE Dashboard ------------------------------
(***************************************************************************)
(* The dashboard's page (dashboard/src/app/page.tsx) and the HTTP handlers *)
(* it polls (broker/api/http.go).  Every two seconds fetchData asks for    *)
(* topics and then for the messages behind the last one it saw; a slow     *)
(* answer makes polls overlap, and the user may select another topic at    *)
(* any time.                                                               *)
(*                                                                         *)
(* A topic has one partition and its messages are their offsets.  React is *)
(* external: the state set in fetchData reaches the refs with the next     *)
(* render, the state set by a click before anything else runs.  What is    *)
(* only displayed (statistics, consumer groups) is left out.               *)
(***************************************************************************)
EXTENDS Integers, Sequences, SequencesExt, FiniteSets

CONSTANTS
  Topics,
  Polls,         \* runs of fetchData that may be under way at once
  Limit,         \* messages per request, 50 in the code
  Keep,          \* messages kept on the page, 100 in the code
  MaxMessages,   \* bound: messages produced
  MaxSelects,    \* bound: clicks on a topic
  MaxFailures,   \* bound: failed fetches of messages
  none

ASSUME DashboardAssumption == {Limit, Keep} \subseteq Nat \ {0} /\ none \notin Topics

VARIABLES
  existing,      \* topics the broker has
  log,           \* per topic: how many messages it has
  selected,      \* selectedTopic
  ref,           \* selectedTopicRef
  last,          \* lastOffsetRef
  shown,         \* messages
  poll,          \* per poll: where it is and what it holds
  mixed,         \* history: an answer came to a page that was no longer the one
                 \* it was asked for
  seen,          \* history: the messages that were shown since the last click
  crossed,       \* history: one of them was asked for before that click
  selects,       \* the number of clicks
  failures

broker == <<existing, log>>
page == <<selected, ref, last, shown, mixed, seen, crossed>>
vars == <<broker, page, poll, selects, failures>>

Idle == [at |-> "idle", list |-> {}, topic |-> none, offset |-> 0, msgs |-> <<>>,
         clicks |-> 0, stale |-> FALSE]

\* Poll p moves on; b is what it holds then.
Step(p, from, b) == poll[p].at = from /\ poll' = [poll EXCEPT ![p] = b]

Produced == FoldLeft(LAMBDA n, t : n + log[t], 0, SetToSeq(Topics))

-----------------------------------------------------------------------------
(* The broker: topics and messages come from any client.                    *)

\* handleTopics, POST.
CreateTopic(t) ==
  /\ t \notin existing
  /\ existing' = existing \cup {t}
  /\ UNCHANGED <<log, page, poll, selects, failures>>

\* handleProduce, or a producer that uses TCP.
Produce(t) ==
  /\ t \in existing /\ Produced < MaxMessages
  /\ log' = [log EXCEPT ![t] = @ + 1]
  /\ UNCHANGED <<existing, page, poll, selects, failures>>

\* handleTopics, GET.
ListTopics(p) ==
  /\ Step(p, "heads", [Idle EXCEPT !.at = "list", !.list = existing])
  /\ UNCHANGED <<broker, page, selects, failures>>

\* handleMessages: at most Limit messages from the offset on.
HandleMessages(p) ==
  /\ LET n == log[poll[p].topic] - poll[p].offset
     IN  Step(p, "ask", [poll[p] EXCEPT !.at = "answer",
           !.msgs = [i \in 1 .. (IF n < Limit THEN n ELSE Limit) |->
                       [topic |-> poll[p].topic, offset |-> poll[p].offset + i - 1]]])
  /\ UNCHANGED <<broker, page, selects, failures>>

-----------------------------------------------------------------------------
(* fetchData.                                                               *)

\* setInterval does not wait for the poll before.
FetchData(p) ==
  /\ Step(p, "idle", [Idle EXCEPT !.at = "heads"])
  /\ UNCHANGED <<broker, page, selects, failures>>

\* The answers are there.  Without a selection the first topic of the list is
\* taken, which a Go map puts in any order.
SelectFirst(p) ==
  /\ Step(p, "list", [Idle EXCEPT !.at = "select"])
  /\ selected' \in IF ref = none /\ poll[p].list # {} THEN poll[p].list ELSE {selected}
  /\ UNCHANGED <<broker, ref, last, shown, mixed, seen, crossed, selects, failures>>

\* The refs are read after all awaits.
AskMessages(p) ==
  /\ Step(p, "select", IF ref = none THEN Idle
                       ELSE [Idle EXCEPT !.at = "ask", !.topic = ref, !.offset = last,
                                         !.clicks = selects])
  /\ UNCHANGED <<broker, page, selects, failures>>

\* The fetch of topics or of messages fails, or is answered with an error.
FetchFails(p) ==
  /\ failures < MaxFailures
  /\ \/ Step(p, "list", [Idle EXCEPT !.at = "select"])
     \/ Step(p, "ask", Idle)
  /\ failures' = failures + 1
  /\ UNCHANGED <<broker, page, selects>>

\* Mutant: the page keeps all messages.
AllKept(s) == s

\* The last Keep messages of s.
LastKept(s) == SubSeq(s, 1 + (IF Len(s) > Keep THEN Len(s) - Keep ELSE 0), Len(s))

\* The page changes under the polls that still wait for messages.
Outdated(ps) == [q \in Polls |-> [ps[q] EXCEPT !.stale = @ \/ ps[q].at \in {"ask", "answer"}]]

\* An answer is put on the page, which asks for offset `next' then.
Show(p, next) ==
  /\ poll[p].at = "answer"
  /\ LET msgs == poll[p].msgs
     IN  IF msgs = <<>> THEN poll' = [poll EXCEPT ![p] = Idle] /\ UNCHANGED page
         ELSE /\ shown' = LastKept(shown \o msgs)
              /\ last' = next
              /\ mixed' = (mixed \/ poll[p].stale)
              /\ seen' = seen \cup ToSet(msgs)
              /\ crossed' = (crossed \/ poll[p].clicks # selects)
              /\ poll' = Outdated([poll EXCEPT ![p] = Idle])
              /\ UNCHANGED <<selected, ref>>
  /\ UNCHANGED <<broker, selects, failures>>

Later(o) == IF last < o THEN o ELSE last

\* Mutants: the last message is asked for again; the messages are counted.
ShowAgain(p) == Show(p, Later(Last(poll[p].msgs).offset))
ShowCounted(p) == Show(p, last + Len(poll[p].msgs))

ShowMessages(p) == Show(p, Later(Last(poll[p].msgs).offset + 1))

-----------------------------------------------------------------------------
(* React and the user.                                                      *)

\* The effect that copies the selection to the ref.
Effect ==
  /\ ref # selected
  /\ ref' = selected
  /\ UNCHANGED <<broker, selected, last, shown, mixed, seen, crossed, poll, selects,
                 failures>>

\* A click on topic t: the page begins with the message at `from'.
Select(t, from) ==
  /\ t \in existing /\ selects < MaxSelects
  /\ selected' = t
  /\ ref' = t
  /\ shown' = <<>>
  /\ last' = from
  /\ mixed' = FALSE
  /\ seen' = {} /\ crossed' = FALSE
  /\ poll' = Outdated(poll)
  /\ selects' = selects + 1
  /\ UNCHANGED <<broker, failures>>

\* Mutant: the last offset is not reset.
SelectKeeps(t) == Select(t, last)

HandleSelectTopic(t) == Select(t, 0)

-----------------------------------------------------------------------------

Init ==
  /\ existing = {}
  /\ log = [t \in Topics |-> 0]
  /\ selected = none /\ ref = none
  /\ last = 0
  /\ shown = <<>>
  /\ poll = [p \in Polls |-> Idle]
  /\ mixed = FALSE
  /\ seen = {} /\ crossed = FALSE
  /\ selects = 0 /\ failures = 0

Polling(p) ==
  \/ FetchData(p) \/ ListTopics(p) \/ SelectFirst(p) \/ AskMessages(p)
  \/ HandleMessages(p) \/ ShowMessages(p)

Next ==
  \/ \E t \in Topics : CreateTopic(t) \/ Produce(t) \/ HandleSelectTopic(t)
  \/ \E p \in Polls : Polling(p) \/ FetchFails(p)
  \/ Effect

\* Fetches are answered or fail, the interval goes on, React renders.
Fairness == WF_vars(Effect) /\ \A p \in Polls : WF_vars(Polling(p))

Spec == Init /\ [][Next]_vars /\ Fairness

-----------------------------------------------------------------------------

\* Shapes of the variables; a selection is a topic the broker has.
TypeOK ==
  /\ {selected, ref} \subseteq existing \cup {none}
  /\ Len(shown) <= Keep
  /\ \A p \in Polls : poll[p].at \in {"idle", "heads", "list", "select", "ask", "answer"}

\* Unless an answer came for a page that another answer or a click had changed
\* since it was asked for, the page shows the last Keep messages of the selected
\* topic up to the last one seen, each once and in order, however polls overlap
\* before and whichever fail (page.tsx:87-128).
ShownIsWindow ==
  ~mixed =>
    /\ selected # none => last <= log[selected]
    /\ shown = LastKept([i \in 1 .. last |-> [topic |-> selected, offset |-> i - 1]])

\* However polls overlap and whichever fail, the page jumps over no message: all
\* of the selected topic before the offset it asks for next were shown since the
\* last click (page.tsx:87-128).  Only an answer asked for before that click and
\* arriving after it can bring the page beyond messages it never showed.
NothingJumped ==
  ~crossed => \A o \in 0 .. last - 1 : [topic |-> selected, offset |-> o] \in seen

\* Once a topic exists and no more messages come, the page selects a topic and
\* every message of it comes onto the page after the last click, however polls
\* overlap and whichever fail, so none is jumped over (page.tsx:71-77, 108-109,
\* 118-119): unless an answer asked for before that click arrives after it, which
\* may move the last offset past messages that are then never asked for.
CatchesUp ==
  <>[](existing # {} =>
         /\ selected # none
         /\ \/ crossed
            \/ \A o \in 0 .. log[selected] - 1 : [topic |-> selected, offset |-> o] \in seen)
=============================================================================
