---------------------------- MODULE TopicManager ----------------------------
(***************************************************************************)
(* The topics of a broker (broker/topic/topic.go, partition.go): a map     *)
(* from names to lists of partitions under Manager.mu, rebuilt at start    *)
(* from the directories <dataDir>/<topic>/partition-<n>.                   *)
(*                                                                         *)
(* A producer is told a partition by its position in Topic.Partitions, and *)
(* a consumer names one in the same way; the directory carries the number  *)
(* the partition was created with.                                         *)
(*                                                                         *)
(* A partition's log is the sequence of its records here, appended to in   *)
(* one step; module CommitLog is about the steps inside.  CreateTopic      *)
(* holds Manager.mu to its end; Produce and Consume give it back before    *)
(* they use the partition, but no published topic ever changes its list,   *)
(* so they are single steps.                                               *)
(***************************************************************************)
EXTENDS Integers, Sequences, FiniteSets

CONSTANTS
  Topics,       \* names
  Hidden,       \* those that start with a dot
  Counts,       \* values of numPartitions a client may ask for
  Keys,         \* keys of messages, each the FNV-1a hash of its bytes
  NoKey,        \* the empty key
  Faults,       \* the failures that may happen, a subset of FaultKinds
  MaxProduces   \* bound: the number of successful or failed appends

\* crash: the process dies.  create: NewPartition fails in CreateTopic.
\* readdir, open: os.ReadDir of a topic and NewPartition fail in NewManager.
\* append: Partition.Append fails.
FaultKinds == {"crash", "create", "readdir", "open", "append"}

\* Partition numbers have at most two digits; a hash is a uint32 and int has
\* 64 bits.
ASSUME TopicsAssumption ==
  /\ Hidden \subseteq Topics
  /\ Counts \subseteq -1 .. 100
  /\ Keys \subseteq Nat
  /\ NoKey \notin Nat
  /\ Faults \subseteq FaultKinds
  /\ MaxProduces \in Nat

VARIABLES
  running,   \* the broker is up
  dirs,      \* topic directory -> partition directory -> the records in it
  topics,    \* Manager.topics: Topic.Partitions as directory numbers, rrCounter
  create,    \* the CreateTopic that holds the lock, and how far it is
  produces,  \* the number of appends so far
  wanted,    \* per topic, the values of numPartitions CreateTopic was called with
  leftOut,   \* history: topics that do not have all their partitions since the start
  moved,     \* history: topics a message was produced to, or a directory added to
             \* beside records, while left out
  acked      \* where Produce told its caller each record is, in a topic that had
             \* all its partitions then

vars == <<running, dirs, topics, create, produces, wanted, leftOut, moved, acked>>
ghost == <<produces, wanted, leftOut, moved, acked>>

Record == [id : Nat, key : Keys \union {NoKey}]

Idle == [stage |-> "idle"]

NoTopics == [t \in {} |-> 0]

-----------------------------------------------------------------------------
(* The directories.                                                         *)

\* The decimal digits of a partition number.
Digits(n) == IF n < 10 THEN <<n>> ELSE <<n \div 10, n % 10>>

\* "partition-<i>" comes before "partition-<j>" in the order of strings.
NameBefore(i, j) ==
  LET a == Digits(i)
      b == Digits(j)
  IN  \/ \E k \in DOMAIN a \intersect DOMAIN b :
           /\ a[k] < b[k]
           /\ \A l \in 1 .. k - 1 : a[l] = b[l]
      \/ /\ Len(a) < Len(b)
         /\ \A k \in DOMAIN a : a[k] = b[k]

\* os.ReadDir: the entries in the order of their names.
ReadDir(ids) ==
  [k \in 1 .. Cardinality(ids) |->
     CHOOSE i \in ids : Cardinality({j \in ids : NameBefore(j, i)}) = k - 1]

\* MkdirAll and NewCommitLog for partition i of topic t.  A directory that is
\* there already is opened with what it holds.
Opened(t, i) ==
  [dirs EXCEPT ![t] = [x \in DOMAIN @ \union {i} |->
                         IF x \in DOMAIN @ THEN @[x] ELSE <<>>]]

-----------------------------------------------------------------------------
(* Starting and stopping.                                                   *)

\* The sets of partitions of t that NewPartition may succeed for in NewManager.
Openable(t) ==
  IF "open" \in Faults THEN SUBSET DOMAIN dirs[t] ELSE {DOMAIN dirs[t]}

\* NewManager.  A topic whose directory cannot be read is skipped, and its name
\* is free.  A partition that does not open is left out of the list, and those
\* behind it move up.
Start ==
  /\ ~running
  /\ running' = TRUE
  /\ \E skipped \in (IF "readdir" \in Faults THEN SUBSET (DOMAIN dirs \ Hidden) ELSE {{}}) :
       LET found == (DOMAIN dirs \ Hidden) \ skipped
       IN  \E opened \in [found -> UNION {Openable(t) : t \in found}] :
             /\ \A t \in found : opened[t] \in Openable(t)
             /\ topics' = [t \in found |-> [parts |-> ReadDir(opened[t]), rr |-> 0]]
             /\ leftOut' = skipped \union {t \in found : opened[t] # DOMAIN dirs[t]}
  /\ UNCHANGED <<dirs, create, produces, wanted, moved, acked>>

Down ==
  /\ running' = FALSE
  /\ topics' = NoTopics
  /\ create' = Idle

\* Manager.Close, which waits for the lock of a running CreateTopic.
Close ==
  /\ running
  /\ create = Idle
  /\ Down
  /\ UNCHANGED <<dirs, ghost>>

Crash ==
  /\ "crash" \in Faults
  /\ running
  /\ Down
  /\ UNCHANGED <<dirs, ghost>>

-----------------------------------------------------------------------------
(* CreateTopic, under the exclusive lock.                                   *)

\* Mutant: the name may be taken.
CreateTopicTwice(t, n) ==
  /\ running
  /\ create = Idle
  /\ dirs' = [x \in DOMAIN dirs \union {t} |->
                IF x \in DOMAIN dirs THEN dirs[x] ELSE [i \in {} |-> <<>>]]
  /\ create' = [stage |-> "parts", t |-> t, n |-> n, parts |-> <<>>]
  /\ wanted' = [wanted EXCEPT ![t] = @ \union {n}]
  /\ UNCHANGED <<running, topics, produces, leftOut, moved, acked>>

\* The name is free: its directory is made, or found from an earlier attempt.
CreateTopic(t, n) ==
  /\ running
  /\ create = Idle
  /\ t \notin DOMAIN topics
  /\ dirs' = [x \in DOMAIN dirs \union {t} |->
                IF x \in DOMAIN dirs THEN dirs[x] ELSE [i \in {} |-> <<>>]]
  /\ create' = [stage |-> "parts", t |-> t, n |-> n, parts |-> <<>>]
  /\ wanted' = [wanted EXCEPT ![t] = @ \union {n}]
  /\ UNCHANGED <<running, topics, produces, leftOut, moved, acked>>

\* Another partition is to be made.
MorePartitions == create # Idle /\ Len(create.parts) < create.n

\* History: the topics moved after directory i of t is made.
MovedBy(t, i) ==
  IF /\ t \in leftOut
     /\ i \notin DOMAIN dirs[t]
     /\ \E c \in DOMAIN dirs[t] : dirs[t][c] # <<>>
  THEN moved \union {t}
  ELSE moved

\* Mutant: the partitions are put in front of the list.
NewPartitionPrepended ==
  /\ MorePartitions
  /\ LET i == Len(create.parts)
     IN  /\ dirs' = Opened(create.t, i)
         /\ moved' = MovedBy(create.t, i)
         /\ create' = [create EXCEPT !.parts = <<i>> \o @]
  /\ UNCHANGED <<running, topics, produces, wanted, leftOut, acked>>

\* Mutant: the partitions are numbered from 1.
NewPartitionFromOne ==
  /\ MorePartitions
  /\ LET i == Len(create.parts) + 1
     IN  /\ dirs' = Opened(create.t, i)
         /\ moved' = MovedBy(create.t, i)
         /\ create' = [create EXCEPT !.parts = Append(@, i)]
  /\ UNCHANGED <<running, topics, produces, wanted, leftOut, acked>>

NewPartition ==
  /\ MorePartitions
  /\ LET i == Len(create.parts)
     IN  /\ dirs' = Opened(create.t, i)
         /\ moved' = MovedBy(create.t, i)
         /\ create' = [create EXCEPT !.parts = Append(@, i)]
  /\ UNCHANGED <<running, topics, produces, wanted, leftOut, acked>>

\* CreateTopic returns the error; the directories made so far stay, perhaps
\* with that of the partition that failed.
NewPartitionFails ==
  /\ "create" \in Faults
  /\ MorePartitions
  /\ LET i == Len(create.parts)
     IN  \/ UNCHANGED <<dirs, moved>>
         \/ dirs' = Opened(create.t, i) /\ moved' = MovedBy(create.t, i)
  /\ create' = Idle
  /\ UNCHANGED <<running, topics, produces, wanted, leftOut, acked>>

\* The topic is published.  One that was skipped at start has all its partitions
\* again when the list covers its directories.
CreateDone ==
  /\ create # Idle
  /\ Len(create.parts) >= create.n
  /\ topics' = [x \in DOMAIN topics \union {create.t} |->
                  IF x = create.t THEN [parts |-> create.parts, rr |-> 0]
                  ELSE topics[x]]
  /\ create' = Idle
  /\ leftOut' = IF DOMAIN dirs[create.t] \subseteq 0 .. Len(create.parts) - 1
                THEN leftOut \ {create.t}
                ELSE leftOut
  /\ UNCHANGED <<running, dirs, produces, wanted, moved, acked>>

-----------------------------------------------------------------------------
(* Produce and Consume.                                                     *)

\* GetTopic finds t, which needs the shared lock.
Found(t) == running /\ create = Idle /\ t \in DOMAIN topics

\* The value rrCounter.Add returns in this call; a keyed message leaves it.
Counter(t, key) == topics[t].rr + (IF key = NoKey THEN 1 ELSE 0)

\* Mutant: the hash moves with the counter.
PartitionMoves(t, key) ==
  (IF key = NoKey THEN Counter(t, key) ELSE key + topics[t].rr)
    % Len(topics[t].parts)

\* The position in Topic.Partitions a message goes to.
PartitionFor(t, key) ==
  (IF key = NoKey THEN Counter(t, key) ELSE key) % Len(topics[t].parts)

\* Common to a successful and a failed append: a topic without partitions is
\* refused before anything changes.
Routed(t, key) ==
  /\ Found(t)
  /\ topics[t].parts # <<>>
  /\ produces < MaxProduces
  /\ produces' = produces + 1
  /\ topics' = [topics EXCEPT ![t].rr = Counter(t, key)]
  /\ UNCHANGED <<running, create, wanted, leftOut>>

Produce(t, key) ==
  /\ Routed(t, key)
  /\ LET pID == PartitionFor(t, key)
         d   == topics[t].parts[pID + 1]
     IN  /\ dirs' = [dirs EXCEPT ![t][d] = Append(@, [id |-> produces, key |-> key])]
         /\ IF t \in leftOut
            THEN moved' = moved \union {t} /\ UNCHANGED acked
            ELSE /\ acked' = acked \union {[t |-> t, pID |-> pID, id |-> produces,
                                             off |-> Len(dirs[t][d])]}
                 /\ UNCHANGED moved

ProduceFails(t, key) ==
  /\ "append" \in Faults
  /\ Routed(t, key)
  /\ UNCHANGED <<dirs, moved, acked>>

\* The records Consume returns; none also for an unknown topic or partition.
Consume(t, pID, off, maxCount) ==
  IF Found(t) /\ pID \in 0 .. Len(topics[t].parts) - 1
  THEN LET log == dirs[t][topics[t].parts[pID + 1]]
           to  == IF off + maxCount <= Len(log) THEN off + maxCount ELSE Len(log)
       IN  SubSeq(log, off + 1, to)
  ELSE <<>>

-----------------------------------------------------------------------------

Init ==
  /\ running = FALSE
  /\ dirs = NoTopics
  /\ topics = NoTopics
  /\ create = Idle
  /\ produces = 0
  /\ wanted = [t \in Topics |-> {}]
  /\ leftOut = {} /\ moved = {}
  /\ acked = {}

Next ==
  \/ Start \/ Close \/ Crash
  \/ \E t \in Topics, n \in Counts : CreateTopic(t, n)
  \/ NewPartition \/ NewPartitionFails \/ CreateDone
  \/ \E t \in Topics, key \in Keys \union {NoKey} :
       Produce(t, key) \/ ProduceFails(t, key)

Spec == Init /\ [][Next]_vars

-----------------------------------------------------------------------------

\* Shapes of the variables; a published topic refers to directories that
\* exist, none of them twice, and the partitions of a topic directory are
\* numbered from 0 without a gap.
TypeOK ==
  /\ running \in BOOLEAN
  /\ DOMAIN topics \subseteq DOMAIN dirs
  /\ DOMAIN dirs \subseteq Topics
  /\ \A t \in DOMAIN dirs :
       /\ DOMAIN dirs[t] = 0 .. Cardinality(DOMAIN dirs[t]) - 1
       /\ \A i \in DOMAIN dirs[t] : dirs[t][i] \in Seq(Record)
  /\ \A t \in DOMAIN topics :
       /\ topics[t].rr \in Nat
       /\ \A i \in DOMAIN topics[t].parts :
            /\ topics[t].parts[i] \in DOMAIN dirs[t]
            /\ \A j \in DOMAIN topics[t].parts :
                 topics[t].parts[i] = topics[t].parts[j] => i = j

\* A message is consumed from the partition and offset its producer was told,
\* after restarts too and whatever CreateTopic calls failed meanwhile, unless
\* the topic's name hides it (topic.go:123-156, and the order in which
\* NewManager finds the partitions, topic.go:58-69).  A topic that a start skips
\* (topic.go:49-52), or some partitions of which do not open, is served from
\* other places or not at all; but only until it is created anew with at least
\* as many partitions or a start loads all of it.  What was produced in between
\* does not get in the way.
AckedConsumable ==
  running /\ create = Idle =>
    \A a \in acked :
      a.t \notin Hidden \union leftOut =>
        LET got == Consume(a.t, a.pID, a.off, 1)
        IN  Len(got) = 1 /\ got[1].id = a.id

\* All messages of one key are in one partition's log, hence in order, also
\* those produced before and after a CreateTopic that failed or crashed half-way
\* and the restart that follows, provided every CreateTopic for the name asked
\* for the same number of partitions (topic.go:133-137).  Left out are topics
\* that, while they did not have all their partitions, were produced to or,
\* skipped with records by a start (topic.go:49-52), were given another
\* partition by a CreateTopic.
SameKeySameLog ==
  \A t \in DOMAIN dirs \ moved : Cardinality(wanted[t]) <= 1 =>
    \A c, d \in DOMAIN dirs[t] :
      \A i \in DOMAIN dirs[t][c], j \in DOMAIN dirs[t][d] :
        dirs[t][c][i].key # NoKey /\ dirs[t][c][i].key = dirs[t][d][j].key
          => c = d
=============================================================================
