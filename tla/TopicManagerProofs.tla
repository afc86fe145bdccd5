------------------------- MODULE TopicManagerProofs -------------------------
(***************************************************************************)
(* Partitions keep their places: the theorems about module TopicManager,   *)
(* for any topics, keys, failures and number of messages.  Where a theorem *)
(* needs that a restart finds the partitions in the order of their         *)
(* numbers, it assumes at most ten of them.                                *)
(***************************************************************************)
EXTENDS TopicManager, FiniteSetTheorems, FunctionTheorems, SequenceTheorems, TLAPS

\* The names of at most ten partitions sort as their numbers do.
FewPartitions == Counts \subseteq -1 .. 10

-----------------------------------------------------------------------------
(* The inductive invariant, part by part.                                   *)

Creation == [stage : {"parts"}, t : Topics, n : Counts, parts : Seq(Nat)]

Topic == [parts : Seq(Nat), rr : Nat]

\* The partitions of a topic directory are numbered from 0 without a gap, and
\* no number is beyond what some CreateTopic asked for.
DirsInv ==
  /\ DOMAIN topics \subseteq DOMAIN dirs /\ DOMAIN dirs \subseteq Topics
  /\ wanted \in [Topics -> SUBSET Counts] /\ produces \in Nat
  /\ \A t \in DOMAIN dirs :
       /\ wanted[t] # {}
       /\ \E n \in 0 .. 100 : DOMAIN dirs[t] = 0 .. n - 1
       /\ \A i \in DOMAIN dirs[t] :
            dirs[t][i] \in Seq(Record) /\ \E n \in wanted[t] : i < n

\* A published topic refers to directories that exist, none of them twice.
TopicsInv ==
  \A t \in DOMAIN topics :
    /\ topics[t] \in Topic
    /\ \A k \in DOMAIN topics[t].parts :
         /\ topics[t].parts[k] \in DOMAIN dirs[t]
         /\ \A l \in DOMAIN topics[t].parts :
              topics[t].parts[k] = topics[t].parts[l] => k = l

\* A list that has each partition at the place its number says.
InPlace(parts) == \A k \in DOMAIN parts : parts[k] = k - 1

\* The CreateTopic in progress: its topic is not published, and it goes through
\* the partitions one by one.
CreateInv ==
  \/ create = Idle
  \/ /\ create \in Creation
     /\ running
     /\ create.t \in DOMAIN dirs \ DOMAIN topics
     /\ create.n \in wanted[create.t]
     /\ InPlace(create.parts)
     /\ \A k \in DOMAIN create.parts : k - 1 \in DOMAIN dirs[create.t]

ShapeInv == running \in BOOLEAN /\ DirsInv /\ TopicsInv /\ CreateInv

\* Every topic that has all its partitions has them in place.
PlacesInv ==
  /\ leftOut \intersect Hidden = {}
  /\ \A t \in DOMAIN topics \ leftOut : InPlace(topics[t].parts)

\* A record is in the partition with the number its producer was told.
AckedRecord(a) ==
  /\ a.t \in DOMAIN dirs
  /\ a.pID \in DOMAIN dirs[a.t]
  /\ a.off \in Nat /\ a.off < Len(dirs[a.t][a.pID])
  /\ dirs[a.t][a.pID][a.off + 1].id = a.id

\* So is every acknowledged one, and a topic that has all its partitions can be
\* asked for that one.
AckedInv ==
  \A a \in acked :
    /\ AckedRecord(a)
    /\ running /\ a.t \notin Hidden \union leftOut =>
         a.t \in DOMAIN topics /\ a.pID < Len(topics[a.t].parts)

\* Every CreateTopic for t asked for the same number.
OneCount(t) == \A m, n \in wanted[t] : m = n

\* A topic that has all its partitions has all its directories, and a hidden one
\* as many as were asked for.
FullInv ==
  \A t \in DOMAIN topics \ leftOut : OneCount(t) =>
    /\ DOMAIN dirs[t] = 0 .. Len(topics[t].parts) - 1
    /\ t \in Hidden => \A n \in wanted[t] : n <= Len(topics[t].parts)

\* A topic with a record gets no further directory unless it is left out: a
\* restart finds it, or it is hidden and has all that were asked for.
SettledInv ==
  \A t \in DOMAIN dirs : OneCount(t) =>
    \A c \in DOMAIN dirs[t] : dirs[t][c] # <<>> =>
      IF t \in Hidden THEN \A n \in wanted[t] : n - 1 \in DOMAIN dirs[t]
      ELSE running => t \in DOMAIN topics \union leftOut

\* The hash key goes to partition c of ids.
HashedTo(key, c, ids) == \E n \in 1 .. 100 : ids = 0 .. n - 1 /\ c = key % n

\* A record with a key is where its hash says.
KeysInv ==
  \A t \in DOMAIN dirs \ moved : OneCount(t) =>
    \A c \in DOMAIN dirs[t] : \A i \in DOMAIN dirs[t][c] :
      dirs[t][c][i].key # NoKey => HashedTo(dirs[t][c][i].key, c, DOMAIN dirs[t])

LogsInv == FullInv /\ SettledInv /\ KeysInv

TopicInv == ShapeInv /\ PlacesInv /\ AckedInv /\ LogsInv

-----------------------------------------------------------------------------
(* The order of the directories.                                            *)

\* A number that grows with the name.
NameKey(n) == IF n < 10 THEN 11 * n ELSE 11 * (n \div 10) + (n % 10) + 1

LEMMA NameOrder ==
  ASSUME NEW i \in 0 .. 99, NEW j \in 0 .. 99
  PROVE  NameBefore(i, j) <=> NameKey(i) < NameKey(j)
<1> DEFINE a == Digits(i)
           b == Digits(j)
<1>1. /\ i < 10 => Len(a) = 1 /\ DOMAIN a = {1} /\ a[1] = i
      /\ ~(i < 10) => Len(a) = 2 /\ DOMAIN a = {1, 2} /\ a[1] = i \div 10 /\ a[2] = i % 10
  BY DEF Digits
<1>2. /\ j < 10 => Len(b) = 1 /\ DOMAIN b = {1} /\ b[1] = j
      /\ ~(j < 10) => Len(b) = 2 /\ DOMAIN b = {1, 2} /\ b[1] = j \div 10 /\ b[2] = j % 10
  BY DEF Digits
<1>3. NameBefore(i, j) <=>
        \/ \E k \in DOMAIN a \intersect DOMAIN b :
             a[k] < b[k] /\ \A l \in 1 .. k - 1 : a[l] = b[l]
        \/ Len(a) < Len(b) /\ \A k \in DOMAIN a : a[k] = b[k]
  BY DEF NameBefore
<1>4. /\ i \div 10 \in 0 .. 9 /\ i % 10 \in 0 .. 9
      /\ j \div 10 \in 0 .. 9 /\ j % 10 \in 0 .. 9
  OBVIOUS
<1> HIDE DEF a, b
<1>5. CASE i < 10 /\ j < 10
  BY <1>1, <1>2, <1>3, <1>5 DEF NameKey
<1>6. CASE i < 10 /\ ~(j < 10)
  <2>1. DOMAIN a \intersect DOMAIN b = {1}
    <3>1. DOMAIN a = {1} /\ DOMAIN b = {1, 2}
      BY <1>1, <1>2, <1>6
    <3> QED
      BY <3>1
  <2>a. Len(a) < Len(b) /\ a[1] = i /\ b[1] = j \div 10
    <3>1. Len(a) = 1 /\ Len(b) = 2 /\ a[1] = i
      BY <1>1, <1>2, <1>6
    <3>2. b[1] = j \div 10
      BY <1>2, <1>6
    <3> QED
      BY <3>1, <3>2
  <2>2. NameBefore(i, j) <=> i < j \div 10 \/ i = j \div 10
    BY <1>1, <1>3, <1>6, <2>1, <2>a
  <2>3. NameKey(i) = 11 * i /\ NameKey(j) = 11 * (j \div 10) + (j % 10) + 1
    BY <1>6 DEF NameKey
  <2> QED
    BY <1>4, <2>2, <2>3
<1>7. CASE ~(i < 10) /\ j < 10
  <2>1. DOMAIN a \intersect DOMAIN b = {1}
    <3>1. DOMAIN a = {1, 2} /\ DOMAIN b = {1}
      BY <1>1, <1>2, <1>7
    <3> QED
      BY <3>1
  <2>a. ~(Len(a) < Len(b)) /\ b[1] = j /\ a[1] = i \div 10
    <3>1. Len(a) = 2 /\ Len(b) = 1 /\ b[1] = j
      BY <1>1, <1>2, <1>7
    <3>2. a[1] = i \div 10
      BY <1>1, <1>7
    <3> QED
      BY <3>1, <3>2
  <2>2. NameBefore(i, j) <=> i \div 10 < j
    <3>1. NameBefore(i, j) <=>
            \E k \in {1} : a[k] < b[k] /\ \A l \in 1 .. k - 1 : a[l] = b[l]
      BY <1>3, <2>1, <2>a, Zenon
    <3>2. 1 .. 1 - 1 = {}
      OBVIOUS
    <3>3. NameBefore(i, j) <=> a[1] < b[1]
      BY <3>1, <3>2
    <3> QED
      BY <2>a, <3>3
  <2>3. NameKey(j) = 11 * j /\ NameKey(i) = 11 * (i \div 10) + (i % 10) + 1
    BY <1>7 DEF NameKey
  <2> QED
    BY <1>4, <2>2, <2>3
<1>8. CASE ~(i < 10) /\ ~(j < 10)
  BY <1>1, <1>2, <1>3, <1>4, <1>8, SMTT(60) DEF NameKey
<1> QED
  BY <1>5, <1>6, <1>7, <1>8

LEMMA NameKeyTells ==
  ASSUME NEW i \in 0 .. 99, NEW j \in 0 .. 99
  PROVE  NameKey(i) \in Nat /\ (NameKey(i) = NameKey(j) => i = j)
  BY DEF NameKey

\* The number of entries in front of i.
Rank(ids, i) == Cardinality({j \in ids : NameBefore(j, i)})

\* Every place in the order is that of exactly one entry.
LEMMA Ranks ==
  ASSUME NEW ids, ids \subseteq 0 .. 99
  PROVE  /\ IsFiniteSet(ids) /\ Cardinality(ids) \in Nat
         /\ \A k \in 1 .. Cardinality(ids) : \E i \in ids : Rank(ids, i) = k - 1
         /\ \A i \in ids : Rank(ids, i) + 1 \in 1 .. Cardinality(ids)
         /\ \A i, j \in ids : Rank(ids, i) = Rank(ids, j) => i = j
<1>1. IsFiniteSet(ids) /\ Cardinality(ids) \in Nat
  <2>1. ids \in SUBSET Nat /\ 99 \in Nat /\ \A s \in ids : s <= 99
    OBVIOUS
  <2>2. IsFiniteSet(ids)
    BY <2>1, FS_BoundedSetOfNaturals
  <2> QED
    BY <2>2, FS_CardinalityType
<1>o. \A i, j \in ids : /\ NameBefore(i, j) <=> NameKey(i) < NameKey(j)
                        /\ NameKey(i) \in Nat
                        /\ NameKey(i) = NameKey(j) => i = j
  <2> SUFFICES ASSUME NEW i \in ids, NEW j \in ids
               PROVE  /\ NameBefore(i, j) <=> NameKey(i) < NameKey(j)
                      /\ NameKey(i) \in Nat
                      /\ NameKey(i) = NameKey(j) => i = j
    OBVIOUS
  <2>1. i \in 0 .. 99 /\ j \in 0 .. 99
    OBVIOUS
  <2> QED
    BY <2>1, NameOrder, NameKeyTells
<1> DEFINE N == Cardinality(ids)
           Before(i) == {j \in ids : NameBefore(j, i)}
<1>2. \A i \in ids : IsFiniteSet(Before(i)) /\ Rank(ids, i) = Cardinality(Before(i))
                     /\ Rank(ids, i) \in Nat
  BY <1>1, FS_Subset, FS_CardinalityType DEF Rank
<1>3. \A i \in ids : i \notin Before(i)
  BY <1>o
<1>4. ASSUME NEW i \in ids PROVE Rank(ids, i) \in 0 .. N - 1
  <2>1. Before(i) \in SUBSET ids /\ Before(i) # ids
    BY <1>3
  <2>2. Cardinality(Before(i)) <= N /\ Cardinality(Before(i)) # N
    BY <1>1, <2>1, FS_Subset
  <2> QED
    BY <1>1, <1>2, <2>2, SMTT(60)
<1>5. ASSUME NEW i \in ids, NEW j \in ids, NameKey(i) < NameKey(j)
      PROVE  Rank(ids, i) < Rank(ids, j)
  <2>1. Before(i) \in SUBSET Before(j) /\ i \in Before(j)
    <3>1. ASSUME NEW x \in Before(i) PROVE x \in Before(j)
      <4>1. x \in ids /\ NameKey(x) < NameKey(i)
        BY <1>o
      <4>2. NameKey(x) < NameKey(j)
        BY <1>o, <1>5, <4>1
      <4> QED
        BY <1>o, <4>1, <4>2
    <3>2. i \in Before(j)
      BY <1>o, <1>5
    <3> QED
      BY <3>1, <3>2
  <2>2. Before(i) # Before(j)
    BY <1>3, <2>1
  <2>3. Cardinality(Before(i)) <= Cardinality(Before(j))
        /\ Cardinality(Before(i)) # Cardinality(Before(j))
    BY <1>2, <2>1, <2>2, FS_Subset
  <2> QED
    BY <1>2, <2>3
<1>6. \A i, j \in ids : Rank(ids, i) = Rank(ids, j) => i = j
  <2> SUFFICES ASSUME NEW i \in ids, NEW j \in ids, i # j PROVE Rank(ids, i) # Rank(ids, j)
    OBVIOUS
  <2>1. NameKey(i) < NameKey(j) \/ NameKey(j) < NameKey(i)
    BY <1>o
  <2>2. Rank(ids, i) < Rank(ids, j) \/ Rank(ids, j) < Rank(ids, i)
    BY <1>5, <2>1
  <2>3. Rank(ids, i) \in Nat /\ Rank(ids, j) \in Nat
    BY <1>2
  <2> QED
    BY <2>2, <2>3
<1> DEFINE f == [i \in ids |-> Rank(ids, i)]
<1>7. f \in Injection(ids, 0 .. N - 1)
  BY <1>4, <1>6 DEF Injection, IsInjective
<1>8. IsFiniteSet(0 .. N - 1) /\ Cardinality(0 .. N - 1) = N
  <2> HIDE DEF N
  <2>1. N \in Nat
    BY <1>1 DEF N
  <2>2. 0 \in Int /\ N - 1 \in Int /\ (IF 0 > N - 1 THEN 0 ELSE N - 1 - 0 + 1) = N
    BY <2>1
  <2> QED
    BY <2>2, FS_Interval
<1>9. f \in Surjection(ids, 0 .. N - 1)
  <2> HIDE DEF f
  <2> QED
    BY <1>7, <1>8, FS_Injection
<1>10. \A k \in 0 .. N - 1 : \E i \in ids : f[i] = k
  BY <1>9 DEF Surjection
<1>11. \A k \in 1 .. N : \E i \in ids : Rank(ids, i) = k - 1
  <2> SUFFICES ASSUME NEW k \in 1 .. N PROVE \E i \in ids : Rank(ids, i) = k - 1
    OBVIOUS
  <2>1. k - 1 \in 0 .. N - 1
    BY <1>1
  <2> QED
    BY <1>10, <2>1
<1> QED
  BY <1>1, <1>4, <1>6, <1>11

\* ReadDir lists every entry once.
LEMMA ReadDirLists ==
  ASSUME NEW ids, ids \subseteq 0 .. 99
  PROVE  /\ ReadDir(ids) \in Seq(Nat) /\ Len(ReadDir(ids)) = Cardinality(ids)
         /\ \A k \in DOMAIN ReadDir(ids) :
              ReadDir(ids)[k] \in ids /\ Rank(ids, ReadDir(ids)[k]) = k - 1
         /\ \A k, l \in DOMAIN ReadDir(ids) : ReadDir(ids)[k] = ReadDir(ids)[l] => k = l
<1> DEFINE N == Cardinality(ids)
           r == ReadDir(ids)
<1>1. N \in Nat /\ \A k \in 1 .. N : \E i \in ids : Rank(ids, i) = k - 1
  BY Ranks
<1>2. r = [k \in 1 .. N |-> CHOOSE i \in ids : Rank(ids, i) = k - 1]
  BY DEF ReadDir, Rank
<1>3. \A k \in 1 .. N : r[k] \in ids /\ Rank(ids, r[k]) = k - 1
  BY <1>1, <1>2
<1>4. r \in [1 .. N -> Nat]
  <2>1. ids \subseteq Nat
    OBVIOUS
  <2>2. r = [k \in 1 .. N |-> r[k]]
    BY <1>2
  <2> HIDE DEF r, N
  <2> QED
    BY <1>3, <2>1, <2>2
<1>5. r \in Seq(Nat) /\ Len(r) = N /\ DOMAIN r = 1 .. N
  BY <1>1, <1>4
<1>6. \A k, l \in DOMAIN r : r[k] = r[l] => k = l
  BY <1>3, <1>5
<1> QED
  BY <1>3, <1>5, <1>6

\* At most ten partitions are listed in the order of their numbers.
LEMMA ReadDirInPlace ==
  ASSUME NEW n \in 0 .. 10
  PROVE  InPlace(ReadDir(0 .. n - 1)) /\ Len(ReadDir(0 .. n - 1)) = n
<1> DEFINE ids == 0 .. n - 1
<1>1. ids \subseteq 0 .. 9 /\ ids \subseteq 0 .. 99 /\ Cardinality(ids) = n
  BY FS_Interval
<1>2. ASSUME NEW i \in ids PROVE Rank(ids, i) = i
  <2>1. {j \in ids : NameBefore(j, i)} = 0 .. i - 1
    <3>1. \A j \in ids : NameBefore(j, i) <=> j < i
      <4> SUFFICES ASSUME NEW j \in ids PROVE NameBefore(j, i) <=> j < i
        OBVIOUS
      <4>1. i \in 0 .. 9 /\ j \in 0 .. 9 /\ i \in 0 .. 99 /\ j \in 0 .. 99
        OBVIOUS
      <4>2. NameBefore(j, i) <=> NameKey(j) < NameKey(i)
        BY <4>1, NameOrder
      <4> HIDE DEF ids
      <4> QED
        BY <4>1, <4>2 DEF NameKey
    <3> QED
      BY <3>1
  <2>2. Cardinality(0 .. i - 1) = i
    BY FS_Interval
  <2> QED
    BY <2>1, <2>2 DEF Rank
<1>3. \A k \in DOMAIN ReadDir(ids) : ReadDir(ids)[k] \in ids /\ Rank(ids, ReadDir(ids)[k]) = k - 1
  BY <1>1, ReadDirLists
<1>4. Len(ReadDir(ids)) = n
  BY <1>1, ReadDirLists
<1> HIDE DEF ids
<1>5. InPlace(ReadDir(ids))
  BY <1>2, <1>3 DEF InPlace
<1> QED
  BY <1>4, <1>5 DEF ids
-----------------------------------------------------------------------------
(* Shapes, for any number of partitions.                                    *)

\* The fields of the CreateTopic in progress.
LEMMA CreateFields ==
  ASSUME ShapeInv, create # Idle
  PROVE  /\ create \in Creation /\ running
         /\ create.t \in DOMAIN dirs /\ create.t \notin DOMAIN topics /\ create.t \in Topics
         /\ create.n \in wanted[create.t] /\ create.n \in -1 .. 100 /\ create.n \in Counts
         /\ create.parts \in Seq(Nat) /\ Len(create.parts) \in Nat
         /\ InPlace(create.parts)
         /\ \A k \in DOMAIN create.parts : k - 1 \in DOMAIN dirs[create.t]
  BY TopicsAssumption DEF ShapeInv, CreateInv, Creation

\* What a new partition does to the directories.
LEMMA OpenedFacts ==
  ASSUME NEW t \in DOMAIN dirs, NEW i, dirs' = Opened(t, i)
  PROVE  /\ DOMAIN dirs' = DOMAIN dirs
         /\ \A x \in DOMAIN dirs : x # t => dirs'[x] = dirs[x]
         /\ DOMAIN dirs'[t] = DOMAIN dirs[t] \union {i}
         /\ \A x \in DOMAIN dirs[t] : dirs'[t][x] = dirs[t][x]
         /\ i \notin DOMAIN dirs[t] => dirs'[t][i] = <<>>
  BY DEF Opened

LEMMA NumberBelow ==
  ASSUME NEW i \in Nat, NEW c \in -1 .. 100, i < c
  PROVE  i \in 0 .. 99
  OBVIOUS

LEMMA NumberWithin ==
  ASSUME NEW i \in Nat, NEW c \in -1 .. 100, NEW m \in 0 .. 100, i < c, c - 1 <= m - 1
  PROVE  i \in 0 .. m - 1
  BY SMTT(60)

\* The partition made next is the first that is not there yet, or it is there.
LEMMA NextPartition ==
  ASSUME ShapeInv, MorePartitions, NEW t, t = create.t, NEW i, i = Len(create.parts)
  PROVE  /\ create # Idle /\ t \in DOMAIN dirs /\ t \notin DOMAIN topics /\ i \in 0 .. 99
         /\ i < create.n /\ create.n \in wanted[t]
         /\ \E n \in 0 .. 100 :
              DOMAIN dirs[t] \union {i} = 0 .. n - 1 /\ (n - 1 = i \/ i \in DOMAIN dirs[t])
<1>1. create # Idle /\ i < create.n
  BY DEF MorePartitions
<1>2. /\ t \in DOMAIN dirs /\ t \notin DOMAIN topics /\ create.n \in -1 .. 100
      /\ i \in Nat /\ create.n \in wanted[t]
      /\ \A k \in DOMAIN create.parts : k - 1 \in DOMAIN dirs[t]
      /\ DOMAIN create.parts = 1 .. i
  BY <1>1, CreateFields
<1>3. PICK m \in 0 .. 100 : DOMAIN dirs[t] = 0 .. m - 1
  BY <1>2 DEF ShapeInv, DirsInv
<1>4. i <= m
  <2>1. CASE i = 0
    BY <2>1
  <2>2. CASE i # 0
    <3>1. i \in DOMAIN create.parts
      BY <1>2, <2>2
    <3>2. i - 1 \in 0 .. m - 1
      BY <1>2, <1>3, <3>1
    <3> QED
      BY <1>2, <3>2
  <2> QED
    BY <2>1, <2>2
<1>5. i \in 0 .. 99
  BY <1>1, <1>2, NumberBelow
<1>6. CASE i = m
  <2>1. DOMAIN dirs[t] \union {i} = 0 .. (m + 1) - 1 /\ (m + 1) - 1 = i /\ m + 1 \in 0 .. 100
    BY <1>3, <1>5, <1>6
  <2> QED
    BY <1>1, <1>2, <1>5, <2>1
<1>7. CASE i # m
  <2>1. i \in DOMAIN dirs[t] /\ DOMAIN dirs[t] \union {i} = 0 .. m - 1
    <3>1. i \in 0 .. m - 1
      BY <1>4, <1>5, <1>7
    <3> QED
      BY <1>3, <3>1
  <2> QED
    BY <1>1, <1>2, <1>5, <2>1
<1> QED
  BY <1>6, <1>7

\* Making a partition keeps the shapes of the directories.
LEMMA OpenedShape ==
  ASSUME ShapeInv, MorePartitions, dirs' = Opened(create.t, Len(create.parts)),
         UNCHANGED <<running, topics, produces, wanted>>
  PROVE  /\ DirsInv' /\ TopicsInv' /\ DOMAIN dirs' = DOMAIN dirs
         /\ \A x \in DOMAIN dirs : DOMAIN dirs[x] \subseteq DOMAIN dirs'[x]
         /\ Len(create.parts) \in DOMAIN dirs'[create.t]
<1> PICK t : t = create.t
  OBVIOUS
<1> PICK i : i = Len(create.parts)
  OBVIOUS
<1>1. /\ create # Idle /\ t \in DOMAIN dirs /\ t \notin DOMAIN topics /\ i \in 0 .. 99
      /\ i < create.n /\ create.n \in wanted[t]
      /\ \E n \in 0 .. 100 :
           DOMAIN dirs[t] \union {i} = 0 .. n - 1 /\ (n - 1 = i \/ i \in DOMAIN dirs[t])
  BY NextPartition, ZenonT(60)
<1>2. PICK n \in 0 .. 100 : DOMAIN dirs[t] \union {i} = 0 .. n - 1
  BY <1>1
<1>3. dirs' = Opened(t, i)
  OBVIOUS
<1>4. /\ DOMAIN dirs' = DOMAIN dirs
      /\ \A x \in DOMAIN dirs : x # t => dirs'[x] = dirs[x]
      /\ DOMAIN dirs'[t] = DOMAIN dirs[t] \union {i}
      /\ \A x \in DOMAIN dirs[t] : dirs'[t][x] = dirs[t][x]
      /\ i \notin DOMAIN dirs[t] => dirs'[t][i] = <<>>
  BY <1>1, <1>3, OpenedFacts
<1>5. \A x \in DOMAIN dirs : DOMAIN dirs[x] \subseteq DOMAIN dirs'[x]
  BY <1>4
<1>6. ASSUME NEW j \in DOMAIN dirs'[t]
      PROVE  dirs'[t][j] \in Seq(Record) /\ \E c \in wanted[t] : j < c
  <2>1. CASE j \in DOMAIN dirs[t]
    BY <1>1, <1>4, <2>1 DEF ShapeInv, DirsInv
  <2>2. CASE j \notin DOMAIN dirs[t]
    <3>1. j = i /\ dirs'[t][j] = <<>>
      BY <1>4, <1>6, <2>2, SMTT(60)
    <3> QED
      BY <1>1, <3>1
  <2> QED
    BY <2>1, <2>2
<1>7. DirsInv'
  <2> SUFFICES ASSUME NEW x \in DOMAIN dirs
               PROVE  /\ wanted[x] # {}
                      /\ \E m \in 0 .. 100 : DOMAIN dirs'[x] = 0 .. m - 1
                      /\ \A j \in DOMAIN dirs'[x] :
                           dirs'[x][j] \in Seq(Record) /\ \E c \in wanted[x] : j < c
    BY <1>4 DEF ShapeInv, DirsInv
  <2>1. CASE x = t
    BY <1>2, <1>4, <1>6, <2>1 DEF ShapeInv, DirsInv
  <2>2. CASE x # t
    <3>1. dirs'[x] = dirs[x]
      BY <1>4, <2>2
    <3>2. /\ wanted[x] # {}
          /\ \E m \in 0 .. 100 : DOMAIN dirs[x] = 0 .. m - 1
          /\ \A j \in DOMAIN dirs[x] :
               dirs[x][j] \in Seq(Record) /\ \E c \in wanted[x] : j < c
      BY DEF ShapeInv, DirsInv
    <3> QED
      BY <3>1, <3>2, Zenon
  <2> QED
    BY <2>1, <2>2
<1>8. TopicsInv'
  BY <1>4, <1>5 DEF ShapeInv, TopicsInv, DirsInv
<1> QED
  BY <1>4, <1>5, <1>7, <1>8

\* NewManager lists only what is there, and each once.
LEMMA ShapeStart == ASSUME ShapeInv, Start PROVE ShapeInv'
<1>1. /\ ~running /\ running' = TRUE /\ UNCHANGED <<dirs, create, produces, wanted>>
  BY DEF Start
<1>2. PICK skipped, opened :
        LET found == (DOMAIN dirs \ Hidden) \ skipped
        IN  /\ \A t \in found : opened[t] \in Openable(t)
            /\ topics' = [t \in found |-> [parts |-> ReadDir(opened[t]), rr |-> 0]]
  BY DEF Start
<1> DEFINE found == (DOMAIN dirs \ Hidden) \ skipped
<1>3. create = Idle
  BY <1>1 DEF ShapeInv, CreateInv
<1>4. ASSUME NEW t \in found
      PROVE  /\ topics'[t].parts = ReadDir(opened[t]) /\ topics'[t] \in Topic
             /\ \A k \in DOMAIN topics'[t].parts :
                  /\ topics'[t].parts[k] \in DOMAIN dirs[t]
                  /\ \A l \in DOMAIN topics'[t].parts :
                       topics'[t].parts[k] = topics'[t].parts[l] => k = l
  <2>1. opened[t] \subseteq DOMAIN dirs[t]
    BY <1>2, <1>4 DEF Openable
  <2>2. DOMAIN dirs[t] \subseteq 0 .. 99
    <3>1. PICK n \in 0 .. 100 : DOMAIN dirs[t] = 0 .. n - 1
      BY DEF ShapeInv, DirsInv
    <3> HIDE DEF found
    <3>2. 0 .. n - 1 \subseteq 0 .. 99
      OBVIOUS
    <3> QED
      BY <3>1, <3>2
  <2>3. opened[t] \subseteq 0 .. 99
    BY <2>1, <2>2
  <2> DEFINE r == ReadDir(opened[t])
  <2>4. /\ r \in Seq(Nat) /\ \A k \in DOMAIN r : r[k] \in opened[t]
        /\ \A k, l \in DOMAIN r : r[k] = r[l] => k = l
    BY <2>3, ReadDirLists
  <2> HIDE DEF r
  <2>5. topics'[t] = [parts |-> r, rr |-> 0]
    BY <1>2 DEF r
  <2>6. topics'[t] \in Topic /\ topics'[t].parts = r
    BY <2>4, <2>5 DEF Topic
  <2> QED
    BY <2>1, <2>4, <2>6 DEF r
<1>5. DOMAIN topics' = found
  BY <1>2
<1>6. TopicsInv'
  BY <1>1, <1>4, <1>5 DEF TopicsInv
<1>7. DirsInv'
  BY <1>1, <1>5 DEF ShapeInv, DirsInv
<1>8. CreateInv'
  BY <1>1, <1>3 DEF CreateInv
<1> QED
  BY <1>1, <1>6, <1>7, <1>8 DEF ShapeInv

\* Manager.Close and a crash lose the memory and keep the directories.
LEMMA ShapeDown == ASSUME ShapeInv, Down, UNCHANGED <<dirs, ghost>> PROVE ShapeInv'
<1>1. DOMAIN topics' = {} /\ create' = Idle /\ running' = FALSE
  BY DEF Down, NoTopics
<1>2. DirsInv'
  BY <1>1 DEF ShapeInv, DirsInv, ghost
<1> QED
  BY <1>1, <1>2 DEF ShapeInv, TopicsInv, CreateInv

\* CreateTopic begins with an empty directory or one from an earlier attempt.
LEMMA CreateTopicFacts ==
  ASSUME ShapeInv, NEW t \in Topics, NEW n \in Counts, CreateTopic(t, n)
  PROVE  /\ running /\ create = Idle /\ t \notin DOMAIN topics
         /\ UNCHANGED <<running, topics, produces, leftOut, moved, acked>>
         /\ DOMAIN dirs' = DOMAIN dirs \union {t}
         /\ \A x \in DOMAIN dirs : dirs'[x] = dirs[x]
         /\ t \notin DOMAIN dirs => DOMAIN dirs'[t] = {}
         /\ wanted' \in [Topics -> SUBSET Counts]
         /\ wanted'[t] = wanted[t] \union {n}
         /\ \A x \in Topics : x # t => wanted'[x] = wanted[x]
         /\ create' = [stage |-> "parts", t |-> t, n |-> n, parts |-> <<>>]
  BY DEF CreateTopic, ShapeInv, DirsInv

LEMMA ShapeCreateTopic ==
  ASSUME ShapeInv, NEW t \in Topics, NEW n \in Counts, CreateTopic(t, n)
  PROVE  ShapeInv'
<1>1. /\ running /\ create = Idle /\ t \notin DOMAIN topics
      /\ UNCHANGED <<running, topics, produces>>
      /\ DOMAIN dirs' = DOMAIN dirs \union {t}
      /\ \A x \in DOMAIN dirs : dirs'[x] = dirs[x]
      /\ t \notin DOMAIN dirs => DOMAIN dirs'[t] = {}
      /\ wanted' \in [Topics -> SUBSET Counts]
      /\ wanted'[t] = wanted[t] \union {n}
      /\ \A x \in Topics : x # t => wanted'[x] = wanted[x]
      /\ create' = [stage |-> "parts", t |-> t, n |-> n, parts |-> <<>>]
  BY CreateTopicFacts
<1>2. ASSUME NEW x \in DOMAIN dirs'
      PROVE  /\ wanted'[x] # {}
             /\ \E m \in 0 .. 100 : DOMAIN dirs'[x] = 0 .. m - 1
             /\ \A j \in DOMAIN dirs'[x] :
                  dirs'[x][j] \in Seq(Record) /\ \E c \in wanted'[x] : j < c
  <2>1. CASE x \in DOMAIN dirs
    <3>1. dirs'[x] = dirs[x] /\ wanted[x] \subseteq wanted'[x]
      BY <1>1, <2>1 DEF ShapeInv, DirsInv
    <3>2. /\ wanted[x] # {} /\ \E m \in 0 .. 100 : DOMAIN dirs[x] = 0 .. m - 1
          /\ \A j \in DOMAIN dirs[x] :
               dirs[x][j] \in Seq(Record) /\ \E c \in wanted[x] : j < c
      BY <2>1 DEF ShapeInv, DirsInv
    <3> QED
      BY <3>1, <3>2
  <2>2. CASE x \notin DOMAIN dirs
    <3>1. x = t /\ DOMAIN dirs'[x] = {} /\ n \in wanted'[x]
      BY <1>1, <1>2, <2>2
    <3>2. {} = 0 .. 0 - 1
      OBVIOUS
    <3> QED
      BY <3>1, <3>2
  <2> QED
    BY <2>1, <2>2
<1>3. DirsInv'
  BY <1>1, <1>2 DEF ShapeInv, DirsInv
<1>4. TopicsInv'
  BY <1>1 DEF ShapeInv, TopicsInv, DirsInv
<1>5. CreateInv'
  <2>1. /\ create' \in Creation /\ create'.t = t /\ create'.n = n /\ create'.parts = <<>>
    BY <1>1 DEF Creation
  <2>2. InPlace(create'.parts) /\ \A k \in DOMAIN create'.parts : k - 1 \in DOMAIN dirs'[t]
    BY <2>1 DEF InPlace
  <2> QED
    BY <1>1, <2>1, <2>2 DEF CreateInv
<1> QED
  BY <1>1, <1>3, <1>4, <1>5 DEF ShapeInv
LEMMA ShapeNewPartition == ASSUME ShapeInv, NewPartition PROVE ShapeInv'
<1> PICK i : i = Len(create.parts)
  OBVIOUS
<1>1. /\ MorePartitions /\ dirs' = Opened(create.t, Len(create.parts))
      /\ create' = [create EXCEPT !.parts = Append(@, i)]
      /\ UNCHANGED <<running, topics, produces, wanted>>
  BY DEF NewPartition
<1>2. /\ DirsInv' /\ TopicsInv' /\ DOMAIN dirs' = DOMAIN dirs
      /\ \A x \in DOMAIN dirs : DOMAIN dirs[x] \subseteq DOMAIN dirs'[x]
      /\ i \in DOMAIN dirs'[create.t]
  BY <1>1, OpenedShape
<1>3. create # Idle
  BY <1>1 DEF MorePartitions
<1>4. /\ create \in Creation /\ running
      /\ create.t \in DOMAIN dirs /\ create.t \notin DOMAIN topics
      /\ create.n \in wanted[create.t]
      /\ create.parts \in Seq(Nat) /\ i \in Nat /\ InPlace(create.parts)
      /\ \A k \in DOMAIN create.parts : k - 1 \in DOMAIN dirs[create.t]
  BY <1>3, CreateFields
<1>5. /\ create' \in Creation /\ create'.t = create.t /\ create'.n = create.n
      /\ create'.parts = Append(create.parts, i)
  <2> PICK p : p = Append(create.parts, i)
    OBVIOUS
  <2>1. p \in Seq(Nat)
    BY <1>4, AppendProperties
  <2>2. create' = [create EXCEPT !.parts = p]
    BY <1>1
  <2> QED
    BY <1>4, <2>1, <2>2 DEF Creation
<1>6. ASSUME NEW k \in DOMAIN create'.parts
      PROVE  create'.parts[k] = k - 1 /\ k - 1 \in DOMAIN dirs'[create.t]
  <2>1. CASE k \in DOMAIN create.parts
    BY <1>2, <1>4, <1>5, <2>1 DEF InPlace
  <2>2. CASE k \notin DOMAIN create.parts
    <3>1. k = i + 1 /\ create'.parts[k] = i
      BY <1>4, <1>5, <1>6, <2>2
    <3> QED
      BY <1>2, <1>4, <3>1
  <2> QED
    BY <2>1, <2>2
<1>7. CreateInv'
  <2>1. InPlace(create'.parts)
    BY <1>6 DEF InPlace
  <2> QED
    BY <1>1, <1>2, <1>4, <1>5, <1>6, <2>1 DEF CreateInv
<1> QED
  BY <1>1, <1>2, <1>7 DEF ShapeInv

LEMMA ShapeNewPartitionFails == ASSUME ShapeInv, NewPartitionFails PROVE ShapeInv'
<1>1. /\ MorePartitions /\ create' = Idle /\ UNCHANGED <<running, topics, produces, wanted>>
      /\ dirs' = dirs \/ dirs' = Opened(create.t, Len(create.parts))
  BY DEF NewPartitionFails
<1>2. CreateInv' /\ (running \in BOOLEAN)'
  BY <1>1 DEF CreateInv, ShapeInv
<1>3. CASE dirs' = dirs
  BY <1>1, <1>2, <1>3, ZenonT(60) DEF ShapeInv, DirsInv, TopicsInv
<1>4. CASE dirs' = Opened(create.t, Len(create.parts))
  BY <1>1, <1>2, <1>4, OpenedShape DEF ShapeInv
<1> QED
  BY <1>1, <1>3, <1>4

\* Publishing adds one topic with the list made for it.
LEMMA CreateDoneFacts ==
  ASSUME ShapeInv, CreateDone
  PROVE  /\ create # Idle /\ Len(create.parts) >= create.n
         /\ UNCHANGED <<running, dirs, produces, wanted, moved, acked>> /\ create' = Idle
         /\ DOMAIN topics' = DOMAIN topics \union {create.t}
         /\ topics'[create.t] = [parts |-> create.parts, rr |-> 0]
         /\ \A x \in DOMAIN topics : x # create.t => topics'[x] = topics[x]
         /\ leftOut' \subseteq leftOut /\ leftOut \ {create.t} \subseteq leftOut'
         /\ create.t \in leftOut \ leftOut' =>
              DOMAIN dirs[create.t] \subseteq 0 .. Len(create.parts) - 1
  BY DEF CreateDone

LEMMA ShapeCreateDone == ASSUME ShapeInv, CreateDone PROVE ShapeInv'
<1>1. /\ create # Idle /\ UNCHANGED <<running, dirs, produces, wanted>> /\ create' = Idle
      /\ DOMAIN topics' = DOMAIN topics \union {create.t}
      /\ topics'[create.t] = [parts |-> create.parts, rr |-> 0]
      /\ \A x \in DOMAIN topics : x # create.t => topics'[x] = topics[x]
  BY CreateDoneFacts
<1>2. /\ create.t \in DOMAIN dirs /\ create.parts \in Seq(Nat) /\ InPlace(create.parts)
      /\ \A k \in DOMAIN create.parts : k - 1 \in DOMAIN dirs[create.t]
  BY <1>1, CreateFields
<1>3. DirsInv'
  BY <1>1, <1>2 DEF ShapeInv, DirsInv
<1>4. TopicsInv'
  <2> SUFFICES ASSUME NEW x \in DOMAIN topics'
               PROVE  /\ topics'[x] \in Topic
                      /\ \A k \in DOMAIN topics'[x].parts :
                           /\ topics'[x].parts[k] \in DOMAIN dirs[x]
                           /\ \A l \in DOMAIN topics'[x].parts :
                                topics'[x].parts[k] = topics'[x].parts[l] => k = l
    BY <1>1 DEF TopicsInv
  <2>1. CASE x = create.t
    <3>1. topics'[x] \in Topic /\ topics'[x].parts = create.parts
      BY <1>1, <1>2, <2>1 DEF Topic
    <3>2. \A k \in DOMAIN create.parts : k \in Nat /\ create.parts[k] = k - 1
      BY <1>2 DEF InPlace
    <3>3. \A k \in DOMAIN create.parts : create.parts[k] \in DOMAIN dirs[x]
      BY <1>2, <2>1, <3>2
    <3>4. \A k, l \in DOMAIN create.parts : create.parts[k] = create.parts[l] => k = l
      BY <3>2
    <3> QED
      BY <3>1, <3>3, <3>4
  <2>2. CASE x # create.t
    BY <1>1, <2>2 DEF ShapeInv, TopicsInv
  <2> QED
    BY <2>1, <2>2
<1> QED
  BY <1>1, <1>3, <1>4 DEF ShapeInv, CreateInv

\* What choosing a partition does, whether or not the append succeeds.
LEMMA RoutedFacts ==
  ASSUME ShapeInv, NEW t \in Topics, NEW key \in Keys \union {NoKey}, Routed(t, key)
  PROVE  /\ running /\ create = Idle /\ t \in DOMAIN topics /\ t \in DOMAIN dirs
         /\ produces' = produces + 1 /\ UNCHANGED <<running, create, wanted, leftOut>>
         /\ DOMAIN topics' = DOMAIN topics
         /\ \A x \in DOMAIN topics : /\ topics'[x].parts = topics[x].parts
                                     /\ topics'[x] \in Topic
         /\ Len(topics[t].parts) \in Nat \ {0}
         /\ PartitionFor(t, key) \in 0 .. Len(topics[t].parts) - 1
         /\ PartitionFor(t, key) + 1 \in DOMAIN topics[t].parts
         /\ topics[t].parts[PartitionFor(t, key) + 1] \in DOMAIN dirs[t]
<1>1. /\ running /\ create = Idle /\ t \in DOMAIN topics /\ topics[t].parts # <<>>
      /\ produces' = produces + 1 /\ UNCHANGED <<running, create, wanted, leftOut>>
      /\ topics' = [topics EXCEPT ![t].rr = Counter(t, key)]
  BY DEF Routed, Found
<1>2. topics[t] \in Topic /\ t \in DOMAIN dirs
  BY <1>1 DEF ShapeInv, TopicsInv, DirsInv
<1>3. Counter(t, key) \in Nat
  BY <1>2 DEF Counter, Topic
<1>4. \A x \in DOMAIN topics : topics[x] \in Topic
  BY DEF ShapeInv, TopicsInv
<1>5. /\ DOMAIN topics' = DOMAIN topics
      /\ \A x \in DOMAIN topics : /\ topics'[x].parts = topics[x].parts
                                  /\ topics'[x] \in Topic
  BY <1>1, <1>3, <1>4 DEF Topic
<1> DEFINE L == Len(topics[t].parts)
           h == IF key = NoKey THEN Counter(t, key) ELSE key
<1>6. L \in Nat \ {0} /\ DOMAIN topics[t].parts = 1 .. L
  BY <1>1, <1>2 DEF Topic
<1>7. h \in Nat
  BY <1>3, TopicsAssumption
<1>8. PartitionFor(t, key) = h % L
  BY DEF PartitionFor
<1> HIDE DEF h, L
<1>9. h % L \in 0 .. L - 1 /\ (h % L) + 1 \in 1 .. L
  BY <1>6, <1>7
<1>10. topics[t].parts[PartitionFor(t, key) + 1] \in DOMAIN dirs[t]
  BY <1>1, <1>6, <1>8, <1>9 DEF ShapeInv, TopicsInv
<1> QED
  BY <1>1, <1>2, <1>5, <1>6, <1>8, <1>9, <1>10 DEF L
\* Record r goes behind those of directory d of topic t.
Appended(t, d, r) ==
  /\ t \in DOMAIN dirs /\ d \in DOMAIN dirs[t]
  /\ DOMAIN dirs' = DOMAIN dirs
  /\ \A x \in DOMAIN dirs : DOMAIN dirs'[x] = DOMAIN dirs[x]
  /\ \A x \in DOMAIN dirs : x # t => dirs'[x] = dirs[x]
  /\ \A c \in DOMAIN dirs[t] : c # d => dirs'[t][c] = dirs[t][c]
  /\ r \in Record /\ dirs[t][d] \in Seq(Record) /\ dirs'[t][d] \in Seq(Record)
  /\ dirs'[t][d] = Append(dirs[t][d], r)

\* A record appended to a log leaves the others where they are.
LEMMA AppendKeeps ==
  ASSUME NEW s \in Seq(Record), NEW r \in Record
  PROVE  /\ Append(s, r) \in Seq(Record)
         /\ \A i \in DOMAIN s : Append(s, r)[i] = s[i]
         /\ \A i \in DOMAIN Append(s, r) : i \notin DOMAIN s => Append(s, r)[i] = r
  OBVIOUS

LEMMA ProduceFacts ==
  ASSUME ShapeInv, NEW t \in Topics, NEW key \in Keys \union {NoKey}, Produce(t, key),
         NEW d, d = topics[t].parts[PartitionFor(t, key) + 1]
  PROVE  Routed(t, key) /\ Appended(t, d, [id |-> produces, key |-> key])
<1>1. /\ Routed(t, key)
      /\ dirs' = [dirs EXCEPT ![t][d] = Append(@, [id |-> produces, key |-> key])]
  BY DEF Produce
<1>2. t \in DOMAIN dirs /\ d \in DOMAIN dirs[t]
  BY <1>1, RoutedFacts
<1>3. dirs[t][d] \in Seq(Record) /\ [id |-> produces, key |-> key] \in Record
  BY <1>2 DEF ShapeInv, DirsInv, Record
<1> PICK r : r = [id |-> produces, key |-> key]
  OBVIOUS
<1>4. dirs' = [dirs EXCEPT ![t] = [dirs[t] EXCEPT ![d] = Append(dirs[t][d], r)]]
  BY <1>1
<1>5. dirs'[t] = [dirs[t] EXCEPT ![d] = Append(dirs[t][d], r)]
  BY <1>2, <1>4
<1>6. dirs'[t][d] = Append(dirs[t][d], r)
  BY <1>2, <1>5, SMTT(60)
<1>7. dirs'[t][d] \in Seq(Record)
  <2>1. Append(dirs[t][d], r) \in Seq(Record)
    BY <1>3, AppendKeeps
  <2> QED
    BY <1>6, <2>1, Zenon
<1>8. /\ DOMAIN dirs' = DOMAIN dirs
      /\ \A x \in DOMAIN dirs : x # t => dirs'[x] = dirs[x]
  BY <1>4
<1>9. /\ DOMAIN dirs'[t] = DOMAIN dirs[t]
      /\ \A c \in DOMAIN dirs[t] : c # d => dirs'[t][c] = dirs[t][c]
  BY <1>5
<1>10. \A x \in DOMAIN dirs : DOMAIN dirs'[x] = DOMAIN dirs[x]
  BY <1>8, <1>9
<1> QED
  BY <1>1, <1>2, <1>3, <1>6, <1>7, <1>8, <1>9, <1>10 DEF Appended

LEMMA ShapeRouted ==
  ASSUME ShapeInv, NEW t \in Topics, NEW key \in Keys \union {NoKey}, Routed(t, key),
         DOMAIN dirs' = DOMAIN dirs,
         \A x \in DOMAIN dirs : DOMAIN dirs'[x] = DOMAIN dirs[x],
         \A x \in DOMAIN dirs : \A c \in DOMAIN dirs[x] : dirs'[x][c] \in Seq(Record)
  PROVE  ShapeInv'
<1>1. /\ running /\ create = Idle
      /\ produces' = produces + 1 /\ UNCHANGED <<running, create, wanted>>
      /\ DOMAIN topics' = DOMAIN topics
      /\ \A x \in DOMAIN topics : /\ topics'[x].parts = topics[x].parts
                                  /\ topics'[x] \in Topic
  BY RoutedFacts
<1>2. (produces \in Nat)'
  BY <1>1 DEF ShapeInv, DirsInv
<1>3. DirsInv'
  BY <1>1, <1>2 DEF ShapeInv, DirsInv
<1>4. TopicsInv'
  <2>1. \A x \in DOMAIN topics : x \in DOMAIN dirs
    BY DEF ShapeInv, DirsInv
  <2> QED
    BY <1>1, <2>1 DEF ShapeInv, TopicsInv
<1> QED
  BY <1>1, <1>3, <1>4 DEF ShapeInv, CreateInv

LEMMA ShapeProduce ==
  ASSUME ShapeInv, NEW t \in Topics, NEW key \in Keys \union {NoKey}, Produce(t, key)
  PROVE  ShapeInv'
<1> PICK d : d = topics[t].parts[PartitionFor(t, key) + 1]
  OBVIOUS
<1> PICK r : r = [id |-> produces, key |-> key]
  OBVIOUS
<1>1. Routed(t, key) /\ Appended(t, d, r)
  BY ProduceFacts
<1>2. \A x \in DOMAIN dirs : \A c \in DOMAIN dirs[x] : dirs'[x][c] \in Seq(Record)
  BY <1>1 DEF ShapeInv, DirsInv, Appended
<1> QED
  BY <1>1, <1>2, ShapeRouted DEF Appended

LEMMA ShapeProduceFails ==
  ASSUME ShapeInv, NEW t \in Topics, NEW key \in Keys \union {NoKey}, ProduceFails(t, key)
  PROVE  ShapeInv'
<1>1. Routed(t, key) /\ dirs' = dirs
  BY DEF ProduceFails
<1>2. \A x \in DOMAIN dirs : \A c \in DOMAIN dirs[x] : dirs'[x][c] \in Seq(Record)
  BY <1>1 DEF ShapeInv, DirsInv
<1> QED
  BY <1>1, <1>2, ShapeRouted

\* Every step keeps the shapes.
LEMMA ShapeNext == ASSUME ShapeInv, [Next]_vars PROVE ShapeInv'
<1>1. CASE Start
  BY <1>1, ShapeStart
<1>2. CASE Close
  BY <1>2, ShapeDown DEF Close
<1>3. CASE Crash
  BY <1>3, ShapeDown DEF Crash
<1>4. CASE \E t \in Topics, n \in Counts : CreateTopic(t, n)
  BY <1>4, ShapeCreateTopic
<1>5. CASE NewPartition
  BY <1>5, ShapeNewPartition
<1>6. CASE NewPartitionFails
  BY <1>6, ShapeNewPartitionFails
<1>7. CASE CreateDone
  BY <1>7, ShapeCreateDone
<1>8. CASE \E t \in Topics, key \in Keys \union {NoKey} : Produce(t, key)
  BY <1>8, ShapeProduce
<1>9. CASE \E t \in Topics, key \in Keys \union {NoKey} : ProduceFails(t, key)
  BY <1>9, ShapeProduceFails
<1>10. CASE UNCHANGED vars
  BY <1>10, ZenonT(60) DEF vars, ShapeInv, DirsInv, TopicsInv, CreateInv
<1> QED
  BY <1>1, <1>2, <1>3, <1>4, <1>5, <1>6, <1>7, <1>8, <1>9, <1>10 DEF Next

LEMMA ShapeInit == ASSUME Init PROVE ShapeInv
  BY DEF Init, NoTopics, ShapeInv, DirsInv, TopicsInv, CreateInv

\* A range of partition numbers is counted by its end.
LEMMA CountDirs ==
  ASSUME NEW n \in 0 .. 100
  PROVE  IsFiniteSet(0 .. n - 1) /\ Cardinality(0 .. n - 1) = n
<1>1. 0 \in Int /\ n - 1 \in Int /\ (IF 0 > n - 1 THEN 0 ELSE n - 1 - 0 + 1) = n
  OBVIOUS
<1> QED
  BY <1>1, FS_Interval

LEMMA ShapeTypes == ASSUME ShapeInv PROVE TypeOK
<1>1. ASSUME NEW t \in DOMAIN dirs
      PROVE  DOMAIN dirs[t] = 0 .. Cardinality(DOMAIN dirs[t]) - 1
  <2>1. PICK n \in 0 .. 100 : DOMAIN dirs[t] = 0 .. n - 1
    BY DEF ShapeInv, DirsInv
  <2> QED
    BY <2>1, CountDirs
<1>2. \A t \in DOMAIN topics : topics[t].rr \in Nat
  BY DEF ShapeInv, TopicsInv, Topic
<1> QED
  BY <1>1, <1>2 DEF ShapeInv, DirsInv, TopicsInv, TypeOK

\* The partitions of a topic directory are numbered from 0 without a gap,
\* whatever CreateTopic calls failed or crashed half-way, and a list of
\* partitions names only directories that exist, none of them twice
\* (topic.go:93-106, topic.go:45-70).  For up to a hundred partitions.
THEOREM DirectoriesInOrder == Spec => []TypeOK
<1>1. ShapeInv /\ [Next]_vars => ShapeInv'
  BY ShapeNext
<1> QED
  BY <1>1, ShapeInit, ShapeTypes, PTL DEF Spec
-----------------------------------------------------------------------------
(* Places: at most ten partitions from here on.                             *)

LEMMA FewDirs ==
  ASSUME FewPartitions, ShapeInv, NEW t \in DOMAIN dirs
  PROVE  \E n \in 0 .. 10 : DOMAIN dirs[t] = 0 .. n - 1
<1>1. PICK n \in 0 .. 100 : DOMAIN dirs[t] = 0 .. n - 1
  BY DEF ShapeInv, DirsInv
<1>2. CASE n = 0
  BY <1>1, <1>2
<1>3. CASE n # 0
  <2>1. n - 1 \in DOMAIN dirs[t]
    BY <1>1, <1>3
  <2>2. PICK c \in wanted[t] : n - 1 < c
    BY <2>1 DEF ShapeInv, DirsInv
  <2>3. c \in -1 .. 10
    BY <2>2 DEF ShapeInv, DirsInv, FewPartitions
  <2>4. n \in 0 .. 10
    BY <2>2, <2>3
  <2> QED
    BY <1>1, <2>4
<1> QED
  BY <1>2, <1>3

\* NewManager finds every topic that is not hidden or leaves it out, and one of
\* which all partitions open has them in place.
LEMMA StartFacts ==
  ASSUME FewPartitions, ShapeInv, Start
  PROVE  /\ ~running /\ running' = TRUE
         /\ UNCHANGED <<dirs, create, produces, wanted, moved, acked>>
         /\ DOMAIN topics' \union leftOut' = DOMAIN dirs \ Hidden
         /\ \A t \in DOMAIN topics' \ leftOut' :
              /\ InPlace(topics'[t].parts)
              /\ DOMAIN dirs[t] = 0 .. Len(topics'[t].parts) - 1
<1>1. /\ ~running /\ running' = TRUE
      /\ UNCHANGED <<dirs, create, produces, wanted, moved, acked>>
  BY DEF Start
<1>a. PICK skipped \in (IF "readdir" \in Faults THEN SUBSET (DOMAIN dirs \ Hidden) ELSE {{}}) :
        LET found == (DOMAIN dirs \ Hidden) \ skipped
        IN  \E opened :
              /\ topics' = [t \in found |-> [parts |-> ReadDir(opened[t]), rr |-> 0]]
              /\ leftOut' = skipped \union {t \in found : opened[t] # DOMAIN dirs[t]}
  BY ZenonT(60) DEF Start
<1>b. skipped \subseteq DOMAIN dirs \ Hidden
  BY <1>a
<1>2. PICK opened :
        LET found == (DOMAIN dirs \ Hidden) \ skipped
        IN  /\ topics' = [t \in found |-> [parts |-> ReadDir(opened[t]), rr |-> 0]]
            /\ leftOut' = skipped \union {t \in found : opened[t] # DOMAIN dirs[t]}
  BY <1>a
<1> DEFINE found == (DOMAIN dirs \ Hidden) \ skipped
<1>3. DOMAIN topics' = found /\ DOMAIN topics' \union leftOut' = DOMAIN dirs \ Hidden
  BY <1>b, <1>2
<1>4. ASSUME NEW t \in DOMAIN topics' \ leftOut'
      PROVE  /\ InPlace(topics'[t].parts)
             /\ DOMAIN dirs[t] = 0 .. Len(topics'[t].parts) - 1
  <2>1. t \in found /\ opened[t] = DOMAIN dirs[t]
    BY <1>2, <1>3, <1>4
  <2>2. topics'[t].parts = ReadDir(DOMAIN dirs[t])
    BY <1>2, <2>1
  <2>3. PICK n \in 0 .. 10 : DOMAIN dirs[t] = 0 .. n - 1
    BY <2>1, FewDirs
  <2>4. InPlace(ReadDir(0 .. n - 1)) /\ Len(ReadDir(0 .. n - 1)) = n
    BY ReadDirInPlace
  <2> QED
    BY <2>2, <2>3, <2>4
<1> QED
  BY <1>1, <1>3, <1>4

\* No record is lost or moved in a directory.
DirsKept ==
  /\ DOMAIN dirs \subseteq DOMAIN dirs'
  /\ \A x \in DOMAIN dirs : \A c \in DOMAIN dirs[x] :
       /\ c \in DOMAIN dirs'[x] /\ Len(dirs[x][c]) <= Len(dirs'[x][c])
       /\ \A k \in DOMAIN dirs[x][c] : dirs'[x][c][k] = dirs[x][c][k]

LEMMA LogLengths ==
  ASSUME ShapeInv, NEW x \in DOMAIN dirs, NEW c \in DOMAIN dirs[x]
  PROVE  Len(dirs[x][c]) \in Nat /\ DOMAIN dirs[x][c] = 1 .. Len(dirs[x][c])
<1>1. dirs[x][c] \in Seq(Record)
  BY DEF ShapeInv, DirsInv
<1> QED
  BY <1>1, LenProperties

LEMMA SameDirsKept == ASSUME ShapeInv, dirs' = dirs PROVE DirsKept
<1>1. \A x \in DOMAIN dirs : \A c \in DOMAIN dirs[x] : Len(dirs[x][c]) \in Nat
  BY LogLengths
<1> QED
  BY <1>1 DEF DirsKept

LEMMA OpenedKept ==
  ASSUME ShapeInv, MorePartitions, dirs' = Opened(create.t, Len(create.parts))
  PROVE  DirsKept
<1> PICK t : t = create.t
  OBVIOUS
<1> PICK i : i = Len(create.parts)
  OBVIOUS
<1>1. t \in DOMAIN dirs
  BY CreateFields DEF MorePartitions
<1>2. dirs' = Opened(t, i)
  OBVIOUS
<1>3. /\ DOMAIN dirs' = DOMAIN dirs
      /\ \A x \in DOMAIN dirs : x # t => dirs'[x] = dirs[x]
      /\ DOMAIN dirs'[t] = DOMAIN dirs[t] \union {i}
      /\ \A x \in DOMAIN dirs[t] : dirs'[t][x] = dirs[t][x]
  BY <1>1, <1>2, OpenedFacts
<1>4. \A x \in DOMAIN dirs : \A c \in DOMAIN dirs[x] :
        /\ c \in DOMAIN dirs'[x] /\ dirs'[x][c] = dirs[x][c] /\ Len(dirs[x][c]) \in Nat
  BY <1>3, LogLengths
<1> QED
  BY <1>3, <1>4 DEF DirsKept

LEMMA AppendedKept == 
  ASSUME ShapeInv, NEW t, NEW d, NEW r, Appended(t, d, r) PROVE DirsKept
<1>1. ASSUME NEW x \in DOMAIN dirs, NEW c \in DOMAIN dirs[x]
      PROVE  /\ c \in DOMAIN dirs'[x] /\ Len(dirs[x][c]) <= Len(dirs'[x][c])
             /\ \A k \in DOMAIN dirs[x][c] : dirs'[x][c][k] = dirs[x][c][k]
  <2>1. c \in DOMAIN dirs'[x]
    BY DEF Appended
  <2>2. Len(dirs[x][c]) \in Nat /\ DOMAIN dirs[x][c] = 1 .. Len(dirs[x][c])
    BY LogLengths
  <2>3. CASE x = t /\ c = d
    <3>1. /\ dirs[x][c] \in Seq(Record) /\ r \in Record
          /\ dirs'[x][c] = Append(dirs[x][c], r)
      BY <2>3 DEF Appended
    <3>2. Len(dirs'[x][c]) = Len(dirs[x][c]) + 1
      BY <3>1, AppendProperties
    <3>3. \A k \in DOMAIN dirs[x][c] : dirs'[x][c][k] = dirs[x][c][k]
      BY <2>2, <3>1, AppendProperties
    <3> QED
      BY <2>1, <2>2, <3>2, <3>3
  <2>4. CASE ~(x = t /\ c = d)
    <3>1. dirs'[x][c] = dirs[x][c]
      BY <2>4 DEF Appended
    <3> QED
      BY <2>1, <2>2, <3>1
  <2> QED
    BY <2>3, <2>4
<1>2. DOMAIN dirs' = DOMAIN dirs
  BY DEF Appended
<1> QED
  BY <1>1, <1>2 DEF DirsKept

LEMMA AckedKept ==
  ASSUME ShapeInv, ShapeInv', DirsKept, NEW a, AckedRecord(a) PROVE AckedRecord(a)'
<1>1. a.off + 1 \in DOMAIN dirs[a.t][a.pID] /\ Len(dirs[a.t][a.pID]) \in Nat
  BY LogLengths DEF AckedRecord
<1>2. /\ a.t \in DOMAIN dirs' /\ a.pID \in DOMAIN dirs'[a.t]
      /\ Len(dirs[a.t][a.pID]) <= Len(dirs'[a.t][a.pID])
      /\ dirs'[a.t][a.pID][a.off + 1] = dirs[a.t][a.pID][a.off + 1]
  BY <1>1 DEF AckedRecord, DirsKept
<1>3. Len(dirs'[a.t][a.pID]) \in Nat
  <2>1. dirs'[a.t][a.pID] \in Seq(Record)
    BY <1>2 DEF ShapeInv, DirsInv
  <2> QED
    BY <2>1, LenProperties
<1>4. a.off < Len(dirs'[a.t][a.pID])
  BY <1>1, <1>2, <1>3 DEF AckedRecord
<1> QED
  BY <1>2, <1>4 DEF AckedRecord
\* A start, which may move what did not open but nothing else.
LEMMA PlacesStart ==
  ASSUME FewPartitions, ShapeInv, ShapeInv', PlacesInv, AckedInv, Start
  PROVE  PlacesInv' /\ AckedInv'
<1>1. /\ UNCHANGED <<dirs, acked>>
      /\ DOMAIN topics' \union leftOut' = DOMAIN dirs \ Hidden
      /\ \A t \in DOMAIN topics' \ leftOut' :
           /\ InPlace(topics'[t].parts)
           /\ DOMAIN dirs[t] = 0 .. Len(topics'[t].parts) - 1
  BY StartFacts
<1>2. PlacesInv'
  BY <1>1 DEF PlacesInv
<1>3. ASSUME NEW a \in acked
      PROVE  /\ AckedRecord(a)'
             /\ a.t \notin Hidden \union leftOut' =>
                  a.t \in DOMAIN topics' /\ a.pID < Len(topics'[a.t].parts)
  <2>1. AckedRecord(a) /\ a.t \in DOMAIN dirs /\ a.pID \in DOMAIN dirs[a.t]
    BY DEF AckedInv, AckedRecord
  <2>2. AckedRecord(a)'
    BY <1>1, <2>1 DEF AckedRecord
  <2>3. ASSUME a.t \notin Hidden \union leftOut'
        PROVE  a.t \in DOMAIN topics' /\ a.pID < Len(topics'[a.t].parts)
    <3>1. a.t \in DOMAIN topics' \ leftOut'
      BY <1>1, <2>1, <2>3
    <3>2. Len(topics'[a.t].parts) \in Nat
      BY <3>1 DEF ShapeInv, TopicsInv, Topic
    <3>3. a.pID \in 0 .. Len(topics'[a.t].parts) - 1
      BY <1>1, <2>1, <3>1
    <3> QED
      BY <3>1, <3>2, <3>3
  <2> QED
    BY <2>2, <2>3
<1>4. AckedInv'
  BY <1>1, <1>3 DEF AckedInv
<1> QED
  BY <1>2, <1>4

LEMMA PlacesDown ==
  ASSUME PlacesInv, AckedInv, Down, UNCHANGED <<dirs, ghost>> PROVE PlacesInv' /\ AckedInv'
<1>1. DOMAIN topics' = {} /\ running' = FALSE /\ UNCHANGED <<dirs, leftOut, acked>>
  BY DEF Down, NoTopics, ghost
<1>2. \A a : AckedRecord(a) => AckedRecord(a)'
  BY <1>1 DEF AckedRecord
<1>3. AckedInv'
  BY <1>1, <1>2 DEF AckedInv
<1> QED
  BY <1>1, <1>3 DEF PlacesInv

\* The steps of CreateTopic before the topic is published.
LEMMA PlacesCreating ==
  ASSUME ShapeInv, ShapeInv', PlacesInv, AckedInv, DirsKept,
         UNCHANGED <<running, topics, leftOut, acked>>
  PROVE  PlacesInv' /\ AckedInv'
<1>1. \A a \in acked : AckedRecord(a)'
  BY AckedKept DEF AckedInv
<1> QED
  BY <1>1 DEF PlacesInv, AckedInv

LEMMA CreateTopicKept ==
  ASSUME ShapeInv, NEW t \in Topics, NEW n \in Counts, CreateTopic(t, n) PROVE DirsKept
<1>1. /\ DOMAIN dirs' = DOMAIN dirs \union {t} /\ \A x \in DOMAIN dirs : dirs'[x] = dirs[x]
  BY CreateTopicFacts
<1>2. \A x \in DOMAIN dirs : \A c \in DOMAIN dirs[x] : Len(dirs[x][c]) \in Nat
  BY LogLengths
<1> QED
  BY <1>1, <1>2 DEF DirsKept

LEMMA PlacesCreateDone ==
  ASSUME ShapeInv, ShapeInv', PlacesInv, AckedInv, CreateDone
  PROVE  PlacesInv' /\ AckedInv'
<1>1. /\ create # Idle /\ UNCHANGED <<running, dirs, acked>>
      /\ DOMAIN topics' = DOMAIN topics \union {create.t}
      /\ topics'[create.t] = [parts |-> create.parts, rr |-> 0]
      /\ \A x \in DOMAIN topics : x # create.t => topics'[x] = topics[x]
      /\ leftOut' \subseteq leftOut /\ leftOut \ {create.t} \subseteq leftOut'
      /\ create.t \in leftOut \ leftOut' =>
           DOMAIN dirs[create.t] \subseteq 0 .. Len(create.parts) - 1
  BY CreateDoneFacts
<1>2. /\ InPlace(create.parts) /\ create.t \notin DOMAIN topics
      /\ Len(create.parts) \in Nat /\ running
  BY <1>1, CreateFields
<1>3. topics'[create.t].parts = create.parts
  BY <1>1
<1>4. PlacesInv'
  <2>1. \A t \in DOMAIN topics' \ leftOut' : InPlace(topics'[t].parts)
    BY <1>1, <1>2, <1>3 DEF PlacesInv
  <2> QED
    BY <1>1, <2>1 DEF PlacesInv
<1>5. ASSUME NEW a \in acked
      PROVE  /\ AckedRecord(a)'
             /\ a.t \notin Hidden \union leftOut' =>
                  a.t \in DOMAIN topics' /\ a.pID < Len(topics'[a.t].parts)
  <2>1. AckedRecord(a)
    BY DEF AckedInv
  <2>2. AckedRecord(a)'
    BY <1>1, <2>1 DEF AckedRecord
  <2>3. CASE a.t \notin Hidden \union leftOut
    <3>1. a.t \in DOMAIN topics /\ a.pID < Len(topics[a.t].parts)
      BY <1>2, <2>3 DEF AckedInv
    <3> QED
      BY <1>1, <1>2, <2>2, <3>1
  <2>4. CASE a.t \in leftOut \ leftOut'
    <3>1. a.t = create.t
      BY <1>1, <2>4
    <3>2. a.pID \in 0 .. Len(create.parts) - 1
      BY <1>1, <2>1, <2>4, <3>1 DEF AckedRecord
    <3>3. a.pID < Len(create.parts)
      BY <1>2, <3>2
    <3> QED
      BY <1>1, <1>3, <2>2, <3>1, <3>3
  <2> QED
    BY <2>2, <2>3, <2>4
<1>6. AckedInv'
  BY <1>1, <1>5 DEF AckedInv
<1> QED
  BY <1>4, <1>6

\* A failed append has moved the counter only.
LEMMA PlacesProduceFails ==
  ASSUME ShapeInv, PlacesInv, AckedInv,
         NEW t \in Topics, NEW key \in Keys \union {NoKey}, ProduceFails(t, key)
  PROVE  PlacesInv' /\ AckedInv'
<1>1. Routed(t, key) /\ UNCHANGED <<dirs, acked>>
  BY DEF ProduceFails
<1>2. /\ UNCHANGED <<running, leftOut>> /\ DOMAIN topics' = DOMAIN topics
      /\ \A x \in DOMAIN topics : topics'[x].parts = topics[x].parts
  BY <1>1, RoutedFacts
<1>3. \A a : AckedRecord(a) => AckedRecord(a)'
  BY <1>1 DEF AckedRecord
<1> QED
  BY <1>1, <1>2, <1>3 DEF PlacesInv, AckedInv

\* A producer is told the number of the directory its record went to.
LEMMA PlacesProduce ==
  ASSUME ShapeInv, ShapeInv', PlacesInv, AckedInv,
         NEW t \in Topics, NEW key \in Keys \union {NoKey}, Produce(t, key)
  PROVE  PlacesInv' /\ AckedInv'
<1> PICK d : d = topics[t].parts[PartitionFor(t, key) + 1]
  OBVIOUS
<1> PICK r : r = [id |-> produces, key |-> key]
  OBVIOUS
<1> PICK p : p = PartitionFor(t, key)
  OBVIOUS
<1> PICK n : n = Len(dirs[t][d])
  OBVIOUS
<1>1. Routed(t, key) /\ Appended(t, d, r)
  BY ProduceFacts
<1>2. /\ UNCHANGED <<running, leftOut>> /\ DOMAIN topics' = DOMAIN topics
      /\ \A x \in DOMAIN topics : topics'[x].parts = topics[x].parts
      /\ t \in DOMAIN topics /\ Len(topics[t].parts) \in Nat
      /\ p \in 0 .. Len(topics[t].parts) - 1 /\ p + 1 \in DOMAIN topics[t].parts
  BY <1>1, RoutedFacts
<1>3. PlacesInv'
  BY <1>2 DEF PlacesInv
<1>4. DirsKept
  BY <1>1, AppendedKept
<1>5. \A a \in acked : AckedRecord(a)'
  BY <1>4, AckedKept DEF AckedInv
<1>6. CASE t \in leftOut
  <2>1. acked' = acked
    BY <1>6 DEF Produce
  <2> QED
    BY <1>2, <1>3, <1>5, <2>1 DEF AckedInv
<1>7. CASE t \notin leftOut
  <2> PICK b : b = [t |-> t, pID |-> p, id |-> produces, off |-> n]
    OBVIOUS
  <2>1. acked' = acked \union {b}
    BY <1>7 DEF Produce
  <2>2. b.t = t /\ b.pID = p /\ b.id = produces /\ b.off = n /\ r.id = produces
    OBVIOUS
  <2>3. d = p
    BY <1>2, <1>7 DEF PlacesInv, InPlace
  <2>4. /\ t \in DOMAIN dirs' /\ p \in DOMAIN dirs'[t]
        /\ dirs[t][p] \in Seq(Record) /\ dirs'[t][p] = Append(dirs[t][p], r)
    BY <1>1, <2>3 DEF Appended
  <2>5. n \in Nat /\ n < Len(dirs'[t][p]) /\ dirs'[t][p][n + 1] = r
    <3>1. n = Len(dirs[t][p])
      BY <2>3
    <3> QED
      BY <2>4, <3>1, SMTT(60)
  <2>6. AckedRecord(b)'
    BY <2>2, <2>4, <2>5 DEF AckedRecord
  <2>7. p < Len(topics'[t].parts)
    BY <1>2
  <2>8. \A a \in acked' :
          running' /\ a.t \notin Hidden \union leftOut' =>
            a.t \in DOMAIN topics' /\ a.pID < Len(topics'[a.t].parts)
    <3>1. \A a \in acked :
            running' /\ a.t \notin Hidden \union leftOut' =>
              a.t \in DOMAIN topics' /\ a.pID < Len(topics'[a.t].parts)
      BY <1>2 DEF AckedInv
    <3>2. b.t \in DOMAIN topics' /\ b.pID < Len(topics'[b.t].parts)
      BY <1>2, <2>2, <2>7
    <3> QED
      BY <2>1, <3>1, <3>2
  <2>9. \A a \in acked' : AckedRecord(a)'
    BY <1>5, <2>1, <2>6
  <2>10. AckedInv'
    BY <2>8, <2>9 DEF AckedInv
  <2> QED
    BY <1>3, <2>10
<1> QED
  BY <1>6, <1>7
LEMMA PlacesNext ==
  ASSUME FewPartitions, ShapeInv, PlacesInv, AckedInv, [Next]_vars
  PROVE  PlacesInv' /\ AckedInv'
<1>s. ShapeInv'
  BY ShapeNext
<1>1. CASE Start
  BY <1>s, <1>1, PlacesStart
<1>2. CASE Close
  BY <1>2, PlacesDown DEF Close
<1>3. CASE Crash
  BY <1>3, PlacesDown DEF Crash
<1>4. CASE \E t \in Topics, n \in Counts : CreateTopic(t, n)
  <2>1. PICK t \in Topics, n \in Counts : CreateTopic(t, n)
    BY <1>4
  <2>2. DirsKept
    BY <2>1, CreateTopicKept
  <2>3. UNCHANGED <<running, topics, leftOut, acked>>
    BY <2>1 DEF CreateTopic
  <2> QED
    BY <1>s, <2>2, <2>3, PlacesCreating
<1>5. CASE NewPartition
  <2>1. DirsKept
    BY <1>5, OpenedKept DEF NewPartition
  <2>2. UNCHANGED <<running, topics, leftOut, acked>>
    BY <1>5 DEF NewPartition
  <2> QED
    BY <1>s, <2>1, <2>2, PlacesCreating
<1>6. CASE NewPartitionFails
  <2>1. DirsKept
    BY <1>6, OpenedKept, SameDirsKept DEF NewPartitionFails
  <2>2. UNCHANGED <<running, topics, leftOut, acked>>
    BY <1>6 DEF NewPartitionFails
  <2> QED
    BY <1>s, <2>1, <2>2, PlacesCreating
<1>7. CASE CreateDone
  BY <1>s, <1>7, PlacesCreateDone
<1>8. CASE \E t \in Topics, key \in Keys \union {NoKey} : Produce(t, key)
  BY <1>s, <1>8, PlacesProduce
<1>9. CASE \E t \in Topics, key \in Keys \union {NoKey} : ProduceFails(t, key)
  BY <1>9, PlacesProduceFails
<1>10. CASE UNCHANGED vars
  <2>1. DirsKept /\ UNCHANGED <<running, topics, leftOut, acked>>
    BY <1>10, SameDirsKept DEF vars
  <2> QED
    BY <1>s, <2>1, PlacesCreating
<1> QED
  BY <1>1, <1>2, <1>3, <1>4, <1>5, <1>6, <1>7, <1>8, <1>9, <1>10 DEF Next

LEMMA OneRecord ==
  ASSUME NEW log \in Seq(Record), NEW off \in Nat, off < Len(log),
         NEW to, to = IF off + 1 <= Len(log) THEN off + 1 ELSE Len(log)
  PROVE  /\ Len(SubSeq(log, off + 1, to)) = 1
         /\ SubSeq(log, off + 1, to)[1] = log[off + 1]
<1>1. Len(log) \in Nat
  BY LenProperties
<1>2. to = off + 1 /\ off + 1 \in 1 .. Len(log)
  BY <1>1
<1> QED
  BY <1>1, <1>2

LEMMA PlacesServe == ASSUME ShapeInv, PlacesInv, AckedInv PROVE AckedConsumable
<1> SUFFICES ASSUME running, create = Idle, NEW a \in acked, a.t \notin Hidden \union leftOut
             PROVE  /\ Len(Consume(a.t, a.pID, a.off, 1)) = 1
                    /\ Consume(a.t, a.pID, a.off, 1)[1].id = a.id
  BY DEF AckedConsumable
<1>1. AckedRecord(a) /\ a.t \in DOMAIN topics /\ a.pID < Len(topics[a.t].parts)
  BY DEF AckedInv
<1>2. a.t \in DOMAIN dirs /\ a.pID \in DOMAIN dirs[a.t] /\ a.pID \in Nat
  <2>1. a.t \in DOMAIN dirs /\ a.pID \in DOMAIN dirs[a.t]
    BY <1>1 DEF AckedRecord
  <2>2. PICK n \in 0 .. 100 : DOMAIN dirs[a.t] = 0 .. n - 1
    BY <2>1 DEF ShapeInv, DirsInv
  <2> QED
    BY <2>1, <2>2
<1> PICK log : log = dirs[a.t][a.pID]
  OBVIOUS
<1> PICK to : to = IF a.off + 1 <= Len(log) THEN a.off + 1 ELSE Len(log)
  OBVIOUS
<1>3. topics[a.t].parts \in Seq(Nat) /\ Len(topics[a.t].parts) \in Nat
  BY <1>1 DEF ShapeInv, TopicsInv, Topic
<1>4. a.pID \in 0 .. Len(topics[a.t].parts) - 1 /\ a.pID + 1 \in DOMAIN topics[a.t].parts
  BY <1>1, <1>2, <1>3
<1>5. topics[a.t].parts[a.pID + 1] = a.pID
  BY <1>1, <1>2, <1>4 DEF PlacesInv, InPlace
<1>6. Consume(a.t, a.pID, a.off, 1) = SubSeq(log, a.off + 1, to)
  BY <1>1, <1>4, <1>5 DEF Consume, Found
<1>7. log \in Seq(Record) /\ a.off \in Nat /\ a.off < Len(log) /\ log[a.off + 1].id = a.id
  BY <1>1, <1>2 DEF AckedRecord, ShapeInv, DirsInv
<1>8. /\ Len(SubSeq(log, a.off + 1, to)) = 1
      /\ SubSeq(log, a.off + 1, to)[1] = log[a.off + 1]
  BY <1>7, OneRecord
<1> QED
  BY <1>6, <1>7, <1>8

-----------------------------------------------------------------------------
(* Keys.                                                                    *)

LEMMA LogsStart ==
  ASSUME FewPartitions, ShapeInv, LogsInv, Start PROVE LogsInv'
<1>1. /\ UNCHANGED <<dirs, wanted, moved>>
      /\ DOMAIN topics' \union leftOut' = DOMAIN dirs \ Hidden
      /\ \A t \in DOMAIN topics' \ leftOut' :
           DOMAIN dirs[t] = 0 .. Len(topics'[t].parts) - 1
  BY StartFacts
<1>2. FullInv'
  BY <1>1 DEF FullInv, OneCount
<1>3. SettledInv'
  BY <1>1 DEF LogsInv, SettledInv, OneCount
<1>4. KeysInv'
  BY <1>1 DEF LogsInv, KeysInv, OneCount
<1> QED
  BY <1>2, <1>3, <1>4 DEF LogsInv

LEMMA LogsDown ==
  ASSUME LogsInv, Down, UNCHANGED <<dirs, ghost>> PROVE LogsInv'
<1>1. DOMAIN topics' = {} /\ running' = FALSE /\ UNCHANGED <<dirs, wanted, moved>>
  BY DEF Down, NoTopics, ghost
<1>2. FullInv'
  BY <1>1 DEF FullInv
<1>3. SettledInv'
  BY <1>1 DEF LogsInv, SettledInv, OneCount
<1>4. KeysInv'
  BY <1>1 DEF LogsInv, KeysInv, OneCount
<1> QED
  BY <1>2, <1>3, <1>4 DEF LogsInv

\* A topic with a record that is not published is left out, or it is hidden and
\* asked for with the count it has.
LEMMA LogsCreateTopic ==
  ASSUME ShapeInv, LogsInv, NEW t \in Topics, NEW n \in Counts, CreateTopic(t, n)
  PROVE  LogsInv'
<1>1. /\ running /\ t \notin DOMAIN topics
      /\ UNCHANGED <<running, topics, leftOut, moved>>
      /\ DOMAIN dirs' = DOMAIN dirs \union {t}
      /\ \A x \in DOMAIN dirs : dirs'[x] = dirs[x]
      /\ t \notin DOMAIN dirs => DOMAIN dirs'[t] = {}
      /\ wanted'[t] = wanted[t] \union {n}
      /\ \A x \in Topics : x # t => wanted'[x] = wanted[x]
  BY CreateTopicFacts
<1>2. DOMAIN topics \subseteq DOMAIN dirs /\ DOMAIN dirs \subseteq Topics
  BY DEF ShapeInv, DirsInv
<1>3. ASSUME NEW x \in Topics, OneCount(x)' PROVE OneCount(x)
  BY <1>1, <1>3 DEF OneCount
<1>4. FullInv'
  BY <1>1, <1>2, <1>3 DEF LogsInv, FullInv
<1>5. SettledInv'
  <2> SUFFICES ASSUME NEW x \in DOMAIN dirs', OneCount(x)', NEW c \in DOMAIN dirs'[x],
                      dirs'[x][c] # <<>>
               PROVE  IF x \in Hidden THEN \A m \in wanted'[x] : m - 1 \in DOMAIN dirs'[x]
                      ELSE running' => x \in DOMAIN topics' \union leftOut'
    BY DEF SettledInv
  <2>1. x \in DOMAIN dirs /\ dirs'[x] = dirs[x]
    BY <1>1
  <2>2. OneCount(x)
    BY <1>2, <1>3, <2>1
  <2>3. IF x \in Hidden THEN \A m \in wanted[x] : m - 1 \in DOMAIN dirs[x]
        ELSE running => x \in DOMAIN topics \union leftOut
    BY <2>1, <2>2 DEF LogsInv, SettledInv
  <2>l. CASE x \notin Hidden
    BY <1>1, <2>3, <2>l
  <2>4. CASE x = t /\ x \in Hidden
    <3>1. x \in Hidden /\ wanted[x] # {}
      BY <2>1, <2>4 DEF ShapeInv, DirsInv
    <3>2. PICK m \in wanted[x] : TRUE
      BY <3>1
    <3>3. \A k \in wanted'[x] : k = m
      BY <1>1, <2>4, <3>2 DEF OneCount
    <3> QED
      BY <2>1, <2>3, <3>1, <3>2, <3>3
  <2>5. CASE x # t
    BY <1>1, <1>2, <2>1, <2>3, <2>5
  <2> QED
    BY <2>l, <2>4, <2>5
<1>6. KeysInv'
  <2> SUFFICES ASSUME NEW x \in DOMAIN dirs' \ moved, OneCount(x)', NEW c \in DOMAIN dirs'[x],
                      NEW i \in DOMAIN dirs'[x][c], dirs'[x][c][i].key # NoKey
               PROVE  HashedTo(dirs'[x][c][i].key, c, DOMAIN dirs'[x])
    BY <1>1 DEF KeysInv
  <2>1. x \in DOMAIN dirs /\ dirs'[x] = dirs[x]
    BY <1>1
  <2>2. OneCount(x)
    BY <1>2, <1>3, <2>1
  <2> QED
    BY <2>1, <2>2 DEF LogsInv, KeysInv
<1> QED
  BY <1>4, <1>5, <1>6 DEF LogsInv

\* A topic with a record gets no new directory unless it is left out.
LEMMA NoNewDir ==
  ASSUME ShapeInv, LogsInv, MorePartitions, OneCount(create.t), create.t \notin leftOut,
         NEW c \in DOMAIN dirs[create.t], dirs[create.t][c] # <<>>
  PROVE  Len(create.parts) \in DOMAIN dirs[create.t]
<1> PICK t : t = create.t
  OBVIOUS
<1> PICK i : i = Len(create.parts)
  OBVIOUS
<1> PICK n : n = create.n
  OBVIOUS
<1>1. /\ running /\ t \in DOMAIN dirs /\ t \notin DOMAIN topics
      /\ n \in wanted[t] /\ n \in -1 .. 100 /\ i \in Nat
  BY CreateFields DEF MorePartitions
<1>2. n - 1 \in DOMAIN dirs[t]
  BY <1>1 DEF LogsInv, SettledInv
<1>3. PICK m \in 0 .. 100 : DOMAIN dirs[t] = 0 .. m - 1
  BY <1>1 DEF ShapeInv, DirsInv
<1>4. i < n
  BY DEF MorePartitions
<1>5. n - 1 <= m - 1
  BY <1>2, <1>3
<1>6. i \in 0 .. m - 1
  BY <1>1, <1>4, <1>5, NumberWithin
<1> QED
  BY <1>3, <1>6

LEMMA LogsOpened ==
  ASSUME ShapeInv, LogsInv, MorePartitions, dirs' = Opened(create.t, Len(create.parts)),
         moved' = MovedBy(create.t, Len(create.parts)),
         UNCHANGED <<running, topics, wanted, leftOut>>
  PROVE  LogsInv'
<1> PICK t : t = create.t
  OBVIOUS
<1> PICK i : i = Len(create.parts)
  OBVIOUS
<1>1. t \in DOMAIN dirs /\ t \notin DOMAIN topics
  BY CreateFields DEF MorePartitions
<1>2. /\ DOMAIN dirs' = DOMAIN dirs
      /\ \A x \in DOMAIN dirs : x # t => dirs'[x] = dirs[x]
      /\ DOMAIN dirs'[t] = DOMAIN dirs[t] \union {i}
      /\ \A x \in DOMAIN dirs[t] : dirs'[t][x] = dirs[t][x]
      /\ i \notin DOMAIN dirs[t] => dirs'[t][i] = <<>>
  <2>1. dirs' = Opened(t, i)
    OBVIOUS
  <2> QED
    BY <1>1, <2>1, OpenedFacts
<1>3. /\ UNCHANGED <<running, topics, wanted, leftOut>> /\ \A x : OneCount(x)' <=> OneCount(x)
  BY DEF OneCount
<1>m. /\ moved \subseteq moved'
      /\ \A c \in DOMAIN dirs[t] :
           t \in leftOut /\ t \notin moved' /\ dirs[t][c] # <<>> => i \in DOMAIN dirs[t]
  <2>1. moved' = MovedBy(t, i)
    OBVIOUS
  <2> QED
    BY <2>1 DEF MovedBy
<1>4. DOMAIN topics \subseteq DOMAIN dirs
  BY DEF ShapeInv, DirsInv
<1>5. ASSUME NEW x \in DOMAIN dirs, NEW c \in DOMAIN dirs'[x], dirs'[x][c] # <<>>
      PROVE  /\ c \in DOMAIN dirs[x] /\ DOMAIN dirs[x] \subseteq DOMAIN dirs'[x]
             /\ dirs'[x][c] = dirs[x][c]
             /\ OneCount(x) /\ x \notin moved' => DOMAIN dirs'[x] = DOMAIN dirs[x]
  <2>1. CASE x = t
    <3>1. c \in DOMAIN dirs[t]
      BY <1>2, <1>5, <2>1
    <3>2. dirs'[t][c] = dirs[t][c]
      BY <1>2, <3>1
    <3>3. ASSUME OneCount(t), t \notin moved' PROVE i \in DOMAIN dirs[t]
      <4>1. CASE t \in leftOut
        BY <1>5, <1>m, <2>1, <3>1, <3>2, <3>3, <4>1
      <4>2. CASE t \notin leftOut
        BY <1>5, <2>1, <3>1, <3>2, <3>3, <4>2, NoNewDir
      <4> QED
        BY <4>1, <4>2
    <3> QED
      BY <1>2, <2>1, <3>1, <3>2, <3>3
  <2>2. CASE x # t
    BY <1>2, <1>5, <2>2
  <2> QED
    BY <2>1, <2>2
<1>6. FullInv'
  <2>1. \A x \in DOMAIN topics : x # t /\ dirs'[x] = dirs[x]
    BY <1>1, <1>2, <1>4
  <2> QED
    BY <1>3, <2>1 DEF LogsInv, FullInv
<1>7. SettledInv'
  <2> SUFFICES ASSUME NEW x \in DOMAIN dirs, OneCount(x), NEW c \in DOMAIN dirs'[x],
                      dirs'[x][c] # <<>>
               PROVE  IF x \in Hidden THEN \A m \in wanted[x] : m - 1 \in DOMAIN dirs'[x]
                      ELSE running => x \in DOMAIN topics \union leftOut
    BY <1>2, <1>3 DEF SettledInv
  <2> QED
    BY <1>5 DEF LogsInv, SettledInv
<1>8. KeysInv'
  <2> SUFFICES ASSUME NEW x \in DOMAIN dirs \ moved', OneCount(x), NEW c \in DOMAIN dirs'[x],
                      NEW k \in DOMAIN dirs'[x][c], dirs'[x][c][k].key # NoKey
               PROVE  HashedTo(dirs'[x][c][k].key, c, DOMAIN dirs'[x])
    BY <1>2, <1>3 DEF KeysInv
  <2>1. dirs'[x][c] # <<>>
    OBVIOUS
  <2>2. /\ c \in DOMAIN dirs[x] /\ DOMAIN dirs'[x] = DOMAIN dirs[x]
        /\ dirs'[x][c] = dirs[x][c]
    BY <1>5, <2>1
  <2> QED
    BY <1>m, <2>2 DEF LogsInv, KeysInv
<1> QED
  BY <1>6, <1>7, <1>8 DEF LogsInv
LEMMA SameEnd ==
  ASSUME NEW L \in Nat, NEW n \in -1 .. 100, NEW m \in 0 .. 100, n <= L,
         \A i \in 0 .. m - 1 : i < n, \A k \in 1 .. L : k - 1 \in 0 .. m - 1
  PROVE  L = m
<1>1. m <= L
  <2>1. CASE m = 0
    BY <2>1
  <2>2. CASE m # 0
    <3>1. m - 1 < n
      BY <2>2
    <3> QED
      BY <3>1
  <2> QED
    BY <2>1, <2>2
<1>2. L <= m
  <2>1. CASE L = 0
    BY <2>1
  <2>2. CASE L # 0
    <3>1. L - 1 \in 0 .. m - 1
      BY <2>2
    <3> QED
      BY <3>1
  <2> QED
    BY <2>1, <2>2
<1> QED
  BY <1>1, <1>2

LEMMA LastWithin ==
  ASSUME NEW L \in Nat \ {0}, NEW m \in 0 .. 100, L - 1 \in 0 .. m - 1
  PROVE  L \in 1 .. 100
  OBVIOUS

\* A topic every call for which asked for the same count is published whole.
LEMMA PublishedWhole ==
  ASSUME ShapeInv, create # Idle, Len(create.parts) >= create.n, OneCount(create.t)
  PROVE  /\ DOMAIN dirs[create.t] = 0 .. Len(create.parts) - 1
         /\ \A m \in wanted[create.t] : m <= Len(create.parts)
<1> PICK t : t = create.t
  OBVIOUS
<1> PICK L : L = Len(create.parts)
  OBVIOUS
<1> PICK n : n = create.n
  OBVIOUS
<1>1. /\ t \in DOMAIN dirs /\ n \in wanted[t] /\ n \in -1 .. 100 /\ L \in Nat
      /\ \A k \in 1 .. L : k - 1 \in DOMAIN dirs[t]
  <2>1. /\ t \in DOMAIN dirs /\ n \in wanted[t] /\ n \in -1 .. 100 /\ L \in Nat
        /\ create.parts \in Seq(Nat)
        /\ \A k \in DOMAIN create.parts : k - 1 \in DOMAIN dirs[t]
    BY CreateFields
  <2>2. DOMAIN create.parts = 1 .. L
    BY <2>1, LenProperties
  <2> QED
    BY <2>1, <2>2
<1>2. \A m \in wanted[t] : m = n
  BY <1>1 DEF OneCount
<1>3. PICK m \in 0 .. 100 : DOMAIN dirs[t] = 0 .. m - 1
  BY <1>1 DEF ShapeInv, DirsInv
<1>4. n <= L
  <2>1. L >= n
    OBVIOUS
  <2> QED
    BY <1>1, <2>1
<1>5. \A i \in DOMAIN dirs[t] : i < n
  BY <1>1, <1>2, SMTT(60) DEF ShapeInv, DirsInv
<1>6. \A i \in 0 .. m - 1 : i < n
  BY <1>3, <1>5
<1>7. \A k \in 1 .. L : k - 1 \in 0 .. m - 1
  BY <1>1, <1>3
<1>8. L = m
  BY <1>1, <1>4, <1>6, <1>7, SameEnd
<1> QED
  BY <1>2, <1>3, <1>4, <1>8

LEMMA LogsCreateDone == ASSUME ShapeInv, LogsInv, CreateDone PROVE LogsInv'
<1>1. /\ create # Idle /\ Len(create.parts) >= create.n
      /\ UNCHANGED <<running, dirs, wanted, moved>>
      /\ DOMAIN topics' = DOMAIN topics \union {create.t}
      /\ topics'[create.t] = [parts |-> create.parts, rr |-> 0]
      /\ \A x \in DOMAIN topics : x # create.t => topics'[x] = topics[x]
      /\ leftOut' \subseteq leftOut /\ leftOut \ {create.t} \subseteq leftOut'
  BY CreateDoneFacts
<1>2. topics'[create.t].parts = create.parts
  BY <1>1
<1>3. FullInv'
  <2> SUFFICES ASSUME NEW x \in DOMAIN topics' \ leftOut', OneCount(x)
               PROVE  /\ DOMAIN dirs[x] = 0 .. Len(topics'[x].parts) - 1
                      /\ x \in Hidden => \A n \in wanted[x] : n <= Len(topics'[x].parts)
    BY <1>1 DEF FullInv, OneCount
  <2>1. CASE x = create.t
    BY <1>1, <1>2, <2>1, PublishedWhole
  <2>2. CASE x # create.t
    BY <1>1, <2>2 DEF LogsInv, FullInv
  <2> QED
    BY <2>1, <2>2
<1>4. SettledInv'
  BY <1>1 DEF LogsInv, SettledInv, OneCount
<1>5. KeysInv'
  BY <1>1 DEF LogsInv, KeysInv, OneCount
<1> QED
  BY <1>3, <1>4, <1>5 DEF LogsInv

\* The list of a topic stays in a step that only moves its counter.
LEMMA FullRouted ==
  ASSUME ShapeInv, LogsInv, NEW t \in Topics, NEW key \in Keys \union {NoKey},
         Routed(t, key), \A x \in DOMAIN dirs : DOMAIN dirs'[x] = DOMAIN dirs[x]
  PROVE  FullInv'
<1>1. /\ UNCHANGED <<wanted, leftOut>> /\ DOMAIN topics' = DOMAIN topics
      /\ \A x \in DOMAIN topics : topics'[x].parts = topics[x].parts
  BY RoutedFacts
<1>2. DOMAIN topics \subseteq DOMAIN dirs
  BY DEF ShapeInv, DirsInv
<1> QED
  BY <1>1, <1>2 DEF LogsInv, FullInv, OneCount

LEMMA LogsProduceFails ==
  ASSUME ShapeInv, LogsInv,
         NEW t \in Topics, NEW key \in Keys \union {NoKey}, ProduceFails(t, key)
  PROVE  LogsInv'
<1>1. Routed(t, key) /\ UNCHANGED <<dirs, moved>>
  BY DEF ProduceFails
<1>2. UNCHANGED <<running, wanted, leftOut>> /\ DOMAIN topics' = DOMAIN topics
  BY <1>1, RoutedFacts
<1>3. FullInv'
  BY <1>1, FullRouted
<1>4. SettledInv'
  BY <1>1, <1>2 DEF LogsInv, SettledInv, OneCount
<1>5. KeysInv'
  BY <1>1, <1>2 DEF LogsInv, KeysInv, OneCount
<1> QED
  BY <1>3, <1>4, <1>5 DEF LogsInv

\* A hidden topic that can be produced to has all the partitions asked for.
LEMMA HiddenWhole ==
  ASSUME ShapeInv, PlacesInv, LogsInv, NEW t \in DOMAIN topics, t \in Hidden, OneCount(t),
         NEW d \in DOMAIN dirs[t], NEW n \in wanted[t]
  PROVE  n - 1 \in DOMAIN dirs[t]
<1>1. t \in DOMAIN dirs /\ Len(topics[t].parts) \in Nat
  BY DEF ShapeInv, DirsInv, TopicsInv, Topic
<1> PICK L : L = Len(topics[t].parts)
  OBVIOUS
<1>2. DOMAIN dirs[t] = 0 .. L - 1 /\ n <= L
  BY DEF PlacesInv, LogsInv, FullInv
<1>3. d < n
  BY <1>1 DEF ShapeInv, DirsInv, OneCount
<1>4. n \in -1 .. 100
  BY <1>1, TopicsAssumption DEF ShapeInv, DirsInv
<1>5. d \in 0 .. L - 1
  BY <1>2
<1>6. L \in Nat
  BY <1>1
<1>7. n - 1 \in 0 .. L - 1
  BY <1>2, <1>3, <1>4, <1>5, <1>6
<1> QED
  BY <1>2, <1>7

LEMMA LogsProduce ==
  ASSUME ShapeInv, PlacesInv, LogsInv,
         NEW t \in Topics, NEW key \in Keys \union {NoKey}, Produce(t, key)
  PROVE  LogsInv'
<1> PICK d : d = topics[t].parts[PartitionFor(t, key) + 1]
  OBVIOUS
<1> PICK r : r = [id |-> produces, key |-> key]
  OBVIOUS
<1>1. Routed(t, key) /\ Appended(t, d, r)
  BY ProduceFacts
<1>2. /\ UNCHANGED <<running, wanted, leftOut>> /\ DOMAIN topics' = DOMAIN topics
      /\ t \in DOMAIN topics
      /\ PartitionFor(t, key) \in 0 .. Len(topics[t].parts) - 1
      /\ PartitionFor(t, key) + 1 \in DOMAIN topics[t].parts
      /\ Len(topics[t].parts) \in Nat \ {0}
  BY <1>1, RoutedFacts
<1>3. /\ t \in DOMAIN dirs /\ d \in DOMAIN dirs[t]
      /\ DOMAIN dirs' = DOMAIN dirs
      /\ \A x \in DOMAIN dirs : DOMAIN dirs'[x] = DOMAIN dirs[x]
      /\ \A x \in DOMAIN dirs : x # t => dirs'[x] = dirs[x]
      /\ \A c \in DOMAIN dirs[t] : c # d => dirs'[t][c] = dirs[t][c]
  BY <1>1 DEF Appended
<1>4. \A x : OneCount(x)' <=> OneCount(x)
  BY <1>2 DEF OneCount
<1>5. FullInv'
  BY <1>1, <1>3, FullRouted
<1>6. SettledInv'
  <2> SUFFICES ASSUME NEW x \in DOMAIN dirs, OneCount(x), NEW c \in DOMAIN dirs[x],
                      dirs'[x][c] # <<>>
               PROVE  IF x \in Hidden THEN \A n \in wanted[x] : n - 1 \in DOMAIN dirs[x]
                      ELSE running => x \in DOMAIN topics \union leftOut
    BY <1>2, <1>3, <1>4 DEF SettledInv
  <2>1. CASE x = t
    BY <1>2, <1>3, <2>1, HiddenWhole
  <2>2. CASE x # t
    BY <1>3, <2>2 DEF LogsInv, SettledInv
  <2> QED
    BY <2>1, <2>2
<1>7. ASSUME NEW x \in DOMAIN dirs, x \notin moved', OneCount(x), NEW c \in DOMAIN dirs[x],
             NEW i \in DOMAIN dirs'[x][c], dirs'[x][c][i].key # NoKey
      PROVE  HashedTo(dirs'[x][c][i].key, c, DOMAIN dirs[x])
  <2>1. x \notin moved
    BY <1>7 DEF Produce
  <2>2. CASE dirs'[x][c] = dirs[x][c]
    BY <1>7, <2>1, <2>2 DEF LogsInv, KeysInv
  <2>3. CASE dirs'[x][c] # dirs[x][c]
    <3>1. x = t /\ c = d
      BY <1>3, <2>3
    <3>2. r \in Record /\ dirs[t][d] \in Seq(Record)
      BY <1>1 DEF Appended
    <3> PICK s \in Seq(Record) : s = dirs[t][d]
      BY <3>2
    <3>a. dirs'[t][d] = Append(s, r)
      BY <1>1 DEF Appended
    <3>3. CASE i \in DOMAIN dirs[t][d]
      <4>1. dirs'[t][d][i] = dirs[t][d][i]
        <5>1. Append(s, r)[i] = s[i]
          BY <3>2, <3>3, AppendKeeps, SMTT(60)
        <5> QED
          BY <3>a, <5>1
      <4> QED
        BY <1>7, <2>1, <3>1, <3>3, <4>1, SMTT(60) DEF LogsInv, KeysInv
    <3>4. CASE i \notin DOMAIN dirs[t][d]
      <4>1. dirs'[t][d][i] = r
        <5>1. i \in DOMAIN Append(s, r) /\ i \notin DOMAIN s
          BY <1>7, <3>1, <3>a, <3>4
        <5>2. Append(s, r)[i] = r
          BY <3>2, <5>1, AppendKeeps
        <5> QED
          BY <3>a, <5>2
      <4>2. key # NoKey /\ dirs'[x][c][i].key = key
        BY <1>7, <3>1, <4>1
      <4>3. t \notin leftOut
        BY <1>7, <3>1 DEF Produce
      <4> PICK L : L = Len(topics[t].parts)
        OBVIOUS
      <4>4. d = PartitionFor(t, key)
        BY <1>2, <4>3 DEF PlacesInv, InPlace
      <4>5. PartitionFor(t, key) = key % L
        BY <4>2 DEF PartitionFor
      <4>6. DOMAIN dirs[t] = 0 .. L - 1
        BY <1>2, <1>7, <3>1, <4>3 DEF LogsInv, FullInv
      <4>7. L \in 1 .. 100
        <5>1. PICK m \in 0 .. 100 : DOMAIN dirs[t] = 0 .. m - 1
          BY <1>3 DEF ShapeInv, DirsInv
        <5>2. L \in Nat \ {0}
          BY <1>2
        <5>3. L - 1 \in 0 .. m - 1
          BY <4>6, <5>1, <5>2
        <5> QED
          BY <5>2, <5>3, LastWithin
      <4> QED
        BY <3>1, <4>2, <4>4, <4>5, <4>6, <4>7 DEF HashedTo
    <3> QED
      BY <3>3, <3>4
  <2> QED
    BY <2>2, <2>3
<1>8. KeysInv'
  BY <1>3, <1>4, <1>7 DEF KeysInv
<1> QED
  BY <1>5, <1>6, <1>8 DEF LogsInv
LEMMA LogsNext ==
  ASSUME FewPartitions, ShapeInv, PlacesInv, LogsInv, [Next]_vars PROVE LogsInv'
<1>1. CASE Start
  BY <1>1, LogsStart
<1>2. CASE Close
  BY <1>2, LogsDown DEF Close
<1>3. CASE Crash
  BY <1>3, LogsDown DEF Crash
<1>4. CASE \E t \in Topics, n \in Counts : CreateTopic(t, n)
  BY <1>4, LogsCreateTopic
<1>5. CASE NewPartition
  BY <1>5, LogsOpened DEF NewPartition
<1>u. ASSUME UNCHANGED <<running, dirs, topics, wanted, leftOut, moved>> PROVE LogsInv'
  BY <1>u DEF LogsInv, FullInv, SettledInv, KeysInv, OneCount
<1>6. CASE NewPartitionFails
  <2>1. MorePartitions /\ UNCHANGED <<running, topics, wanted, leftOut>>
    BY <1>6 DEF NewPartitionFails
  <2>2. CASE UNCHANGED <<dirs, moved>>
    BY <1>u, <2>1, <2>2
  <2>3. CASE /\ dirs' = Opened(create.t, Len(create.parts))
             /\ moved' = MovedBy(create.t, Len(create.parts))
    BY <2>1, <2>3, LogsOpened
  <2> QED
    BY <1>6, <2>2, <2>3 DEF NewPartitionFails
<1>7. CASE CreateDone
  BY <1>7, LogsCreateDone
<1>8. CASE \E t \in Topics, key \in Keys \union {NoKey} : Produce(t, key)
  BY <1>8, LogsProduce
<1>9. CASE \E t \in Topics, key \in Keys \union {NoKey} : ProduceFails(t, key)
  BY <1>9, LogsProduceFails
<1>10. CASE UNCHANGED vars
  BY <1>u, <1>10 DEF vars
<1> QED
  BY <1>1, <1>2, <1>3, <1>4, <1>5, <1>6, <1>7, <1>8, <1>9, <1>10 DEF Next

LEMMA AtMostOne ==
  ASSUME NEW S, S \subseteq -1 .. 100, Cardinality(S) <= 1, NEW m \in S, NEW n \in S
  PROVE  m = n
<1> SUFFICES ASSUME m # n PROVE FALSE
  OBVIOUS
<1>1. IsFiniteSet(S)
  <2>1. -1 \in Int /\ 100 \in Int
    OBVIOUS
  <2>2. IsFiniteSet(-1 .. 100)
    BY <2>1, FS_Interval
  <2> QED
    BY <2>2, FS_Subset
<1>2. IsFiniteSet({m}) /\ Cardinality({m}) = 1
  BY FS_Singleton
<1>3. Cardinality({m} \union {n}) = 2
  <2>1. n \notin {m}
    OBVIOUS
  <2> QED
    BY <1>2, <2>1, FS_AddElement
<1>4. {m} \union {n} \in SUBSET S
  OBVIOUS
<1>5. 2 <= Cardinality(S) /\ Cardinality(S) \in Nat
  BY <1>1, <1>3, <1>4, FS_Subset, FS_CardinalityType
<1> QED
  BY <1>5

LEMMA OneHome ==
  ASSUME NEW key, NEW c, NEW d, NEW ids, HashedTo(key, c, ids), HashedTo(key, d, ids)
  PROVE  c = d
<1>1. PICK m \in 1 .. 100 : ids = 0 .. m - 1 /\ c = key % m
  BY DEF HashedTo
<1>2. PICK n \in 1 .. 100 : ids = 0 .. n - 1 /\ d = key % n
  BY DEF HashedTo
<1>3. m - 1 \in 0 .. n - 1 /\ n - 1 \in 0 .. m - 1
  BY <1>1, <1>2
<1>4. m = n
  BY <1>3
<1> QED
  BY <1>1, <1>2, <1>4

LEMMA LogsOfKeys == ASSUME ShapeInv, LogsInv PROVE SameKeySameLog
<1> SUFFICES ASSUME NEW t \in DOMAIN dirs \ moved, Cardinality(wanted[t]) <= 1,
                    NEW c \in DOMAIN dirs[t], NEW d \in DOMAIN dirs[t],
                    NEW i \in DOMAIN dirs[t][c], NEW j \in DOMAIN dirs[t][d],
                    dirs[t][c][i].key # NoKey, dirs[t][c][i].key = dirs[t][d][j].key
             PROVE  c = d
  BY DEF SameKeySameLog
<1>1. wanted[t] \subseteq -1 .. 100
  BY TopicsAssumption DEF ShapeInv, DirsInv
<1>2. OneCount(t)
  BY <1>1, AtMostOne DEF OneCount
<1>3. /\ HashedTo(dirs[t][c][i].key, c, DOMAIN dirs[t])
      /\ HashedTo(dirs[t][d][j].key, d, DOMAIN dirs[t])
  BY <1>2 DEF LogsInv, KeysInv
<1> QED
  BY <1>3, OneHome

\* All the parts together.
THEOREM TopicInvariant == ASSUME FewPartitions PROVE Spec => []TopicInv
<1>1. Init => TopicInv
  BY ShapeInit DEF Init, NoTopics, TopicInv, PlacesInv, AckedInv, LogsInv, FullInv,
                   SettledInv, KeysInv
<1>2. TopicInv /\ [Next]_vars => TopicInv'
  BY ShapeNext, PlacesNext, LogsNext DEF TopicInv
<1> QED
  BY <1>1, <1>2, PTL DEF Spec

\* A message is consumed from the partition and offset its producer was told,
\* after restarts and failed CreateTopic calls too, unless the topic's name hides
\* it, or the last start skipped the topic or did not open all its partitions and
\* it was not created anew with as many since (topic.go:49-69, 123-156).  For any
\* number of topics, messages, failures and restarts; the names of more than ten
\* partitions do not sort as their numbers.
THEOREM AckedStaysConsumable ==
  ASSUME FewPartitions PROVE Spec => []AckedConsumable
<1>1. TopicInv => AckedConsumable
  BY PlacesServe DEF TopicInv
<1> QED
  BY <1>1, TopicInvariant, PTL

\* All messages of one key are in one partition's log, when every CreateTopic
\* for the name asked for the same number and, while the topic did not have all
\* its partitions, none was produced and no directory added (topic.go:133-137): a
\* topic with a message gets another directory only from a CreateTopic after a
\* start that skipped it, so the hash is taken modulo the same number for ever.
THEOREM KeysStayTogether ==
  ASSUME FewPartitions PROVE Spec => []SameKeySameLog
<1>1. TopicInv => SameKeySameLog
  BY LogsOfKeys DEF TopicInv
<1> QED
  BY <1>1, TopicInvariant, PTL
=============================================================================
