# LogPulse in TLA+

This project models the LogPulse broker (a small Kafka-like message broker in Go
with a Next.js dashboard), model-checks it with TLC on small instances and proves
the central safety properties of every part but the wire format with TLAPS, for
all values of the constants. File and line references are to the repository.

## The system

| Part | State | Operations | Hard parts |
| --- | --- | --- | --- |
| Index (`storage/index.go`, `mmap_*.go`) | one `.index` file, a mapping of it, its size | Write, Lookup, Close | failed writes and remaps, the search's boundaries |
| Segment (`storage/segment.go`) | one `.log` file, `nextOffset`, `size` | Append, ReadFrom, recovery scan | crash between two writes, fragments, one cursor for all readers |
| Commit log (`storage/log.go`) | the segments of a partition, RWMutex | Append with rolls, Read, ReadFrom, counters | offsets across rolls and restarts, lock liveness |
| Topic manager (`topic/topic.go`, `partition.go`) | map of topics, directories, round-robin counters | CreateTopic, Produce, Consume, start | half-made topics, the order of directories |
| Consumer groups (`consumer/group.go`) | map of committed offsets, a JSON file per group | CommitOffset, GetOffset, ListGroups | memory before disk, live maps handed out |
| TCP server (`network/server.go`, `protocol.go`) | listener, a goroutine per connection | six requests, Stop | shutdown with idle connections, uint16 length sums |
| HTTP API (`api/http.go`) | message counter for rates | stats, topics, messages, consumers, produce | lag, shutdown after 5 s |
| `main.go` | | start, ordered shutdown | handlers that outlive the shutdown |
| Dashboard (`dashboard/src/app/page.tsx`) | selected topic, messages, last offset | polling every 2 s, topic switch | answers that arrive late or out of order |
| `benchmark.go`, `transfer.go` | | load generator; an unused copy helper | |

A PRODUCE travels TCP server or HTTP API -> `Manager.Produce` -> `CommitLog.Append`
-> `Segment.Append` -> `Index.Write`, under the partition's exclusive lock from
`CommitLog.Append` on. A FETCH travels the same way down to `Segment.ReadFrom`
under the shared lock. Everything in memory is rebuilt at start from the files;
nothing is fsynced, so the durability at stake is that of a process crash, not of
a power loss.

What makes each part correct: acknowledged records stay in the files and are read
back at the offset they were given; offsets grow; an index leads to the record it
is asked for; segments do not overlap; a message is consumed from the partition
its producer was told; the messages of a key stay in order; a committed consumer
offset survives; nobody waits for ever.

## Modules

| Module | Models | How |
| --- | --- | --- |
| `Index` | an `.index` file's entries, the answer of `Lookup` | operators |
| `IndexLookup` | the loop of `Index.Lookup` | one pass a step, from every sorted index |
| `CommitLog` | the files of a partition, `NewCommitLog`, `NewSegment`, `Append`, `Close`, the failures | `logf`/`idxf` are the disk, `segs`/`active` the structs, `pend` how far the running Append is |
| `LogReads` | `Read`, `ReadFrom`, `MessageCount`, `NewestOffset`, `OldestOffset` | operators over a state of `CommitLog`; the refinement mapping to `PartitionLog` |
| `PartitionLog` | nothing: what a partition promises | the abstract specification: stored records, the offset the next one gets, the acknowledged ones |
| `SegmentReaders` | goroutines in `ReadFrom` and `Append` on one segment | RWMutex and the shared file cursor, a header or payload a step |
| `GroupManager` | `consumer/group.go` and the walk of `handleConsumers` | map, file and temporary file per group; CommitOffset in three steps |
| `TopicManager` | `topic/topic.go`, `partition.go` | directories, published topics, CreateTopic one partition a step; a partition's log is a sequence |
| `Wire` | the decoders and encoders of `protocol.go`, the record of `segment.go`, the request of `benchmark.go` | operators on sequences of bytes, with the uint16 sums of the code |
| `TcpSession` | the six handlers of `server.go`, `sendTCPMessage` of `benchmark.go` | two byte streams between a client and a connection's goroutine; an answer is written in two steps |
| `Broker` | `main.go`, the acceptor, the connections and `Stop` of `server.go`, start and shutdown of `http.go` | the steps of main, a goroutine per connection, the WaitGroup, HTTP handlers |
| `Dashboard` | `fetchData` and the selection of `page.tsx`, topics, messages and produce of `http.go` | polls that overlap, one step between two awaits |
| `CommitLogProofs`, `LogReadsProofs`, `IndexLookupProofs`, `SegmentReadersProofs`, `GroupManagerProofs`, `TopicManagerProofs`, `BrokerProofs`, `DashboardProofs` | | theorems about the module of the name |

`LogReads` extends `CommitLog`, which extends `Index`, and instantiates
`PartitionLog`. `TcpSession` extends `Wire`. `TopicManager` uses of a partition
only what `PartitionLog` states and `LogReads` shows: an appended record is read
back at its offset. `TcpSession`, `Broker` and `Dashboard` use of the managers
only what `TopicManager` and `GroupManager` show of them.

Abstractions:
- In `CommitLog` a record is a `frame`: position, size, the bytes that reached the
  file and an id. Sizes are bytes, since the recovery scan and the index work on
  byte positions. What is inside a record is in `Wire`.
- A crash ends the process; what write(2) accepted stays. Two writes to one file
  are never reordered.
- A failing call is a step of its own: `WriteLogFails`, `WriteLogTorn`,
  `IndexWriteFails`, `RemapFails`, `RollFails`, and in the other modules likewise.
  The constant `Faults` says which may happen; the theorems quantify over it.
- Behind a fragment the scan reads payload bytes as lengths; `RecoveredCounts`
  allows every count it could arrive at, and `Open` is impossible when it would
  return an error.
- A missing `.index` file is the same as an empty one (O_CREATE).
- On unix a failed remap leaves an unmapped slice in `Index.mmap` (`Dangling`);
  what a lookup through it does is not modelled (the reads are defined without
  that failure).
- `Produce` and `Consume` are single steps of `TopicManager`: a published topic's
  list never changes, so nothing they read after giving back the lock can be stale.
- `Wire` counts in bytes below `Base` in place of 256; fields keep their widths of
  2, 4 and 8 bytes, so uint16 wraps at `Base`^2. Timestamps are 0. A key of more
  than 65535 bytes, which only HTTP can carry, is cut by `EncodeRecord` as by
  segment.go:94; no run has one.
- `TcpSession` has one client with one request at a time, as `sendTCPMessage` is
  used. A request is laid out as the broker reads it, with a payload a byte short
  (`cut`), shorter than its own header (`runt`), or as the benchmark does it
  (`bench`). The write of one may be cut off by the deadline (`SendCut`). Topics
  have at most one partition. A frame that announces more than will ever come is
  waited for; the buffer of up to 4 GB made for it beforehand is left out.
- A failed index write leaves nothing in the file: `IndexWriteFails` has no partial
  write of the 16 bytes of an entry.
- In `Broker` a request is only read, served and answered. In `Dashboard` a topic
  has one partition and a message is its offset; a click takes effect at once,
  state set inside `fetchData` reaches the refs with the next render.
- sync.RWMutex, net/http, React, the operating system's files and the death of the
  process are external.
- uint32 and uint64 positions do not overflow with 10 MB segments.

## Runs

| Run | Checks | Bounds and why they are enough |
| --- | --- | --- |
| `CommitLog` | shapes, acknowledged records durable, complete records stay at their places; until a fragment exists offsets in order, indexes sorted, no message without a record | every failure modelled; 3 Appends, rolls at 20 bytes, fragments shorter and longer than a header (2 and 10 bytes): failures before, at and after a roll, a fragment at the end of a file and with a record behind it, restarts after each |
| `LogReads` | segments disjoint, entries exact, acknowledged messages readable, fetches from them exact, counters exact, `PartitionLog` implemented | 6 Appends, three records a segment; fetches within and across segments; crashes, failed writes and rolls |
| `IndexLookup` | result, termination | every sorted index of up to 4 entries over 5 offsets and 3 positions |
| `SegmentReaders` | shapes and lock state, a lone fetch is exact, both sides return | 2 readers and 1 writer, 2 records, `maxCount` 0 and 2 |
| `GroupManager` | shapes, committed offsets on disk and served | 2 groups, 2 partitions, 2 offsets, 3 commits; crashes, failed writes and renames, files that cannot be read at start |
| `TopicManager` | shapes, acknowledged messages consumable, one log per key | an ordinary and a hidden topic, 2 or 3 partitions, 3 messages; crashes, failed creates and appends, starts that skip a topic or open only some of its partitions or none, and the CreateTopic that may follow |
| `Broker` | shapes and the WaitGroup, TCP drained before the files close, requests answered, handlers meet closed files only after 5 s, shutdown ends | 2 connections with 2 requests each, 1 HTTP request: the signal falls before, between and after any of them |
| `TcpSession` | shapes, answers belong to requests, refusals, fetches, listings and offsets carry what was stored, where the broker dies | 3 requests of all kinds, whole, cut and runts; failing reads and writes in the broker; one deadline, while the client waits or after 3, 4 or 12 bytes of a frame (inside its length, before and inside its header and payload); `Base` 6, so uint16 ends at 36: names of 33 and 34 bytes and keys of 17 and 18 are on both sides of where the sums `+2`, `+14` and `+18` wrap |
| `Dashboard` | shapes, the page is a window of the selected topic, it jumps over no message, every message comes onto it | 2 topics, 2 overlapping polls, 1 message a request and 2 on the page of 3 produced, so both limits are met; 2 clicks, 1 failure |

`CHECK_DEADLOCK FALSE`: in `CommitLog` a partition whose scan fails behind a
fragment stays closed; `IndexLookup` ends when the search has returned; `Broker`
ends with its process; in `TcpSession` the broker may be dead, and the client
stops after its last request.

Three runs state what the code's comments or documents say and show that the code
does something else (`findings` in PROJECT.json quotes the lines):

- `LogReads_unindexed`: a crash between the log write and the index write. The
  record is counted after the restart, but a fetch at its offset returns the
  record before it, labelled with the offset asked for. This contradicts a comment
  of `segment.go` and also `PROJECT_REPORT.md:431-435`, which describes a recovery
  that rebuilds the index from the log and truncates fragments: the scan of
  `NewSegment` only counts.
- `SegmentReaders_two`: two fetches of one segment share a cursor.
- `TcpSession_bench`: the benchmark's PRODUCE has no partition, the broker refuses
  it, and the benchmark counts it as delivered.

Limits of the passing properties, each with what removes it (change the
configuration to see the behaviour):

- `Platform = "windows"`: the Windows mapping reads from the file's cursor, so the
  second Append to a segment fails (`AppendsSucceed` is a theorem on unix only).
  The order properties hold on both platforms, by the theorems.
- `OffsetsHaveRecords`, `AckedOrdered`, `IndexesSorted` end with the first
  fragment: one with a complete header is counted as a message, and nothing
  truncates it, although the report says so. `AckedDurable` and `RecordsStay` hold
  with fragments too; `RecordsStay` is about the records in front of them, so a
  recovery as the report has it would keep it as well.
- `AckedIndexed` and fault `index`: after a failed index write the next record is
  indexed at the position of the one that failed.
- `AckedOnDisk` and `AckedServed` leave out the offsets of a group whose file could
  not be read at start: the next commit replaces the file with less.
- A commit whose write fails is answered with an error, but the offset stays in
  memory and is served; `AckedServed` and `OffsetsAsCommitted` allow it.
- `CommitOffset` writes a map that `handleConsumers` walks without the lock: the
  action `MapFault` is the death of the process by it. What was committed survives.
- A start skips a topic whose directory cannot be read and leaves out the partitions
  that do not open, without a word. `AckedConsumable` leaves a topic out from such a
  start until it has all its partitions again: by a later start, or by a CreateTopic
  with at least as many (a skipped topic's name is free). `SameKeySameLog` leaves
  out a topic that was produced to meanwhile, or given a further partition by that
  CreateTopic: both put later messages of a key elsewhere.
- `Counts = {11}`: a restart orders partitions by name, 10 before 2, and
  `AckedConsumable` fails.
- `SameKeySameLog` is stated for CreateTopic calls that ask for the same count: a
  failed call with a larger one leaves directories that join at the next restart.
- A crash inside CreateTopic leaves a topic with fewer partitions than asked for,
  perhaps none, and CreateTopic then answers that it exists. `handleTopics` sends a
  topic without partitions as null, not as an empty list.
- `ShutdownEnds` needs `Leaving = Conns`: an idle client keeps its goroutine in
  `ReadRequest`, which no timeout or cancellation ends, and `Stop` waits for it
  (`PROJECT_REPORT.md:438` speaks of timeouts and cancellations). A second signal
  is not looked at.
- The properties of answers in `TcpSession` hold until the first deadline passes:
  the connection is used on, and the next request takes the late answer for its own.
- `DiesOnlyAtLimit` ends when a write is cut off. The next request is then read as
  the rest of the one before: after one to three bytes of a length, the bytes of the
  next one complete it to a small number, and the broker panics on a frame without
  room for a header. It panics likewise on any frame that announces less than six
  bytes; the property names that.
- `FetchedAsProduced`: a read that fails is answered as an unknown topic, so that
  answer may come wherever there is something to read.
- `ShownIsWindow` ends when an answer comes to a page that has changed since it was
  asked for: overlapping polls show messages twice, and the answer for the topic
  selected before is shown under the new one and may move `lastOffset` past
  messages. A click on a topic starts the page anew. `NothingJumped` and `CatchesUp`
  hold with overlapping polls; they end only when an answer asked for before a click
  comes after it, since messages below the offset it leaves are never asked for.

Fairness. `IndexLookup`: the loop takes no lock, so it runs on. `SegmentReaders`:
the Go scheduler runs every runnable goroutine (weak fairness of each goroutine's
steps), and the mutex inside RWMutex is handed to a writer that has waited long
(strong fairness of getting in front). No client is assumed to call anything.
`Broker`: main, the acceptor and the connections' goroutines run when they can,
five seconds pass, and the clients in `Leaving` leave; HTTP handlers may run for
ever. `Dashboard`: each poll's steps and the render happen, since `setInterval`
goes on and a fetch is answered or fails; the bound on failures says that fetches
do not fail for ever. The other modules have safety properties only.

Every property of a passing run has a mutant of the code's model (`mutants` in
PROJECT.json) under which TLC finds it violated.

## Theorems

All constants are arbitrary within the assumptions the modules name
(`ConfigAssumption`, `FetchAssumption`, `LookupAssumption`, `ReadersAssumption`,
`GroupsAssumption`, `TopicsAssumption`, `BrokerAssumption`,
`DashboardAssumption`), the bounds included: any number of Appends, goroutines,
groups, topics, connections or polls. Each inductive invariant is a conjunction
of named parts; the module of the proofs begins with it, or with the part a
section adds, followed by a lemma per action.

- `CommitLogProofs` (every fault, both platforms): `TypeCorrect`,
  `RecordsNeverMove`, `AckedIsDurable`. The last needs `DurableInv`, which adds that the record of an
  Append waiting for its index entry is in the file. Until a torn write leaves a
  fragment: `OffsetsInOrder`, `IndexesStaySorted`, `CountedIsRecorded`, from
  `OrderInvariant`. A restart counts records, not acknowledgements, so `OrderInv`
  relates three numbers: acknowledged offsets are below `nextOffset`, `nextOffset`
  is at most the records in the file, and what the next Open will count is above
  every acknowledged offset. It also says what a failed roll leaves (an empty file
  exactly where the next roll looks), and that a full segment has a message, so a
  roll never reopens its own base. `FirstInvariant`: a log with files has the one
  for offset 0, and the first record of each is at its beginning.
- `LogReadsProofs` assumes `Benign`: unix, and of the faults only crashes, failed
  log writes and failed rolls, since the others break these properties (limits
  above). `AckedIsIndexed` and `SegmentsAreDisjoint` follow from `ExactInvariant`:
  the structs agree with the files byte for byte except for the one record whose
  index entry is still to be written. `AppendsSucceed`: on unix without faults no
  Append fails. `LogImplemented`: the specification implements `PartitionLog`. The
  mapping takes an offset for a file's base plus a place in it, so the step that
  writes a record is the abstract Append only if nothing is left out between files
  and no record is newer than the one being written (`CoverInv`, `IdsInv`).
  `AckedIsReadable`: `Read` answers an acknowledged offset with the record given
  it. Its invariant `ReadInv` adds that an open log has a segment for every file
  with a record, that records lie one behind the other and that entries grow
  strictly and lead each to its own record; with it, the last entry at or before
  an acknowledged offset is the one for it. `StatsAreExact` and `FetchesAreExact`
  compare the counters and a fetch of any size with `Stream`, which puts a record
  where the number of records before it says; `ReadInv` makes that number its
  offset (`PlaceCounts`, by a bijection between places and offsets). A fetch that
  crosses into the next segment may meet a first record without an entry: the
  lookup then gives position 0, which is where that record is (`FirstInvariant` of
  `CommitLogProofs`). The loop of `ReadFrom` is a recursive function, and
  `LoopVisits` shows by induction on the base offset that after the segments below
  a base it has either all messages asked for or all up to where those segments
  end (`Visited`). The induction is the lemma `AllNat` about sets of naturals, from
  the library's well-foundedness of `<`: it needs no operator as a parameter.
- `IndexLookupProofs`: `LookupIsCorrect` for every sorted index, from `LoopInvariant`:
  what is ruled out on both sides, and that the map is never read outside its bounds.
  With `IndexesStaySorted` this justifies the operator `Lookup` in `LogReads`.
- `SegmentReadersProofs`: `LockExcludes` (an Append and a fetch are never inside
  together) and `LoneFetchIsExact`. `ReadersInv` says that two fetches inside have
  both noticed each other, and where the cursor stands at each step of a fetch
  that has not met another.
- `GroupManagerProofs` (every fault): `GroupTypes`, `CommitsAreDurable`,
  `CommitsAreServed`. The two need each other: a rename puts on disk what is in
  memory, a start puts in memory what is on disk. `GroupInv` adds how far the
  running commit is: before the rename the temporary file is the group in memory.
- `TopicManagerProofs` (every fault): `DirectoriesInOrder` for up to a hundred
  partitions; `AckedStaysConsumable` and `KeysStayTogether` under `FewPartitions`,
  at most ten, since from eleven on names do not sort as numbers and the
  properties fail. A start may skip any topics and fail to open any partitions.
  `TopicInv` says that a topic that has all its partitions has each at the place its
  number says, that every acknowledged record is in the directory its producer was
  told, and that a topic with a message that was not changed while left out gets no
  further directory when all calls ask for one count, so that the hash of a key is
  taken modulo the same number ever after. A CreateTopic on a skipped topic is the
  one that needs care: it walks directories that hold records, and `CreateInv`
  follows how far it is.
- `BrokerProofs`: `WaitGroupCounts`, `FilesCloseLast`, `RequestsAnswered`,
  `StraysAreLate`. `BrokerInv` ties the counter `wg` to the goroutines that run; when
  Wait has returned, the acceptor is gone with the others, and nothing can start a
  goroutine any more. For the HTTP side it says which stages of main have handlers,
  for the answers that each request is answered, being served or unread.
- `DashboardProofs`: `PageIsBounded`, `PageIsWindow`, `NoMessageJumped`. A poll reads the selection and
  the last offset before it waits. `PollsInv` says that a poll that is not stale has
  asked for exactly what the page shows next, that an answer is a window of the
  topic's log, and that no poll has asked for messages while the selection's ref is
  empty. Cutting to the last `Keep` messages at every answer is the same as cutting
  the whole once. For `NoMessageJumped` it is enough that a poll asked for since the
  last click began at or below the offset the page has now: offsets never go back
  between clicks, and an answer has no gaps.

Only model-checked:
- Liveness (`LookupReturns`, `AppendReturns`, `FetchReturns`, `ShutdownEnds`,
  `CatchesUp`): fairness is out of the prover's reach.
- The invariants of `TcpSession`. They rest on decoders that invert encoders: on
  quotients and remainders by powers of an unknown `Base`, which the backends do
  not do, and on folds over lists of messages of any length.

## Not modelled

Power loss and fsync (the documents exclude it). Statistics and the lag of
`http.go`, which are only displayed. The workers, the HTTP path and the latency
figures of the benchmark (a worker that cannot connect adds its share to the
failures although the others send it: only the printed figures are wrong). The
dashboard's components, which render, and its forms, which send one request each.
`transfer.go`, which nothing calls. Build and container files.

## Plan

1. Done: storage engine, its reads, its locks and what it promises; consumer
   groups; topics; wire format and TCP sessions; start and shutdown; dashboard.
2. Done, proofs: the safety properties of all modules but the ones listed under
   "only model-checked".
3. Left, proofs: that the fields of `Wire` are read as they were written, and from
   it the parts of `TcpSession` that depend on one frame only.
