-------------------------------- MODULE Wire --------------------------------
(***************************************************************************)
(* The bytes of the TCP protocol (broker/network/protocol.go) and of the   *)
(* records in a log file (broker/storage/segment.go).                      *)
(*                                                                         *)
(* A byte is a number below Base, which is 256 in the code and smaller in  *)
(* a model: the widths of the fields stay 2, 4 and 8 bytes, so a uint16    *)
(* overflows at Base^2, and length sums that the code computes in uint16   *)
(* do so here.  Timestamps are 0.                                          *)
(***************************************************************************)
EXTENDS Integers, Sequences, SequencesExt

CONSTANT Base

\* Room for the largest constant the code adds to a uint16 length; a uint32
\* has a sign bit.
ASSUME BaseAssumption == Base \in Nat /\ Base % 2 = 0 /\ Base * Base > 18

U16 == Base ^ 2

\* Mutant: the upper bytes are not cut off.
PutUncut(w, n) == [i \in 1 .. w |-> n \div Base ^ (w - i)]

\* The big-endian digits of n, cut to w bytes.
Put(w, n) == [i \in 1 .. w |-> (n \div Base ^ (w - i)) % Base]

Get(s) == FoldLeft(LAMBDA n, d : n * Base + d, 0, s)

\* The conversion from uint32 to int32.
Signed(n) == IF n < Base ^ 4 \div 2 THEN n ELSE n - Base ^ 4

\* The slice p[a:b] of Go.
Slice(p, a, b) == SubSeq(p, a + 1, b)

\* A length of w bytes and the bytes themselves.
Prefixed(w, s) == Put(w, Len(s)) \o s

-----------------------------------------------------------------------------
(* Requests.  The broker has no encoder for them: a client writes what the  *)
(* decoders expect.                                                         *)

Blank == [api |-> "ListTopics", group |-> <<>>, topic |-> <<>>, partition |-> 0,
          offset |-> 0, count |-> 0, key |-> <<>>, value |-> <<>>]

\* Keys from 0; Other is any key the broker does not know.
APIs == <<"Produce", "Fetch", "CreateTopic", "ListTopics", "CommitOffset",
          "FetchOffset", "Other">>

APIKey(api) == (CHOOSE i \in DOMAIN APIs : APIs[i] = api) - 1

Payload(r) ==
  CASE r.api = "Produce" ->
         Prefixed(2, r.topic) \o Put(4, r.partition) \o Prefixed(2, r.key)
           \o Prefixed(4, r.value)
    [] r.api = "Fetch" ->
         Prefixed(2, r.topic) \o Put(4, r.partition) \o Put(8, r.offset)
           \o Put(4, r.count)
    [] r.api = "CreateTopic" -> Prefixed(2, r.topic) \o Put(4, r.count)
    [] r.api \in {"ListTopics", "Other"} -> <<>>
    [] r.api = "CommitOffset" ->
         Prefixed(2, r.group) \o Prefixed(2, r.topic) \o Put(4, r.partition)
           \o Put(8, r.offset)
    [] r.api = "FetchOffset" ->
         Prefixed(2, r.group) \o Prefixed(2, r.topic) \o Put(4, r.partition)

\* The PRODUCE payload of the benchmark (sendTCPMessage): no partition.  Two
\* bytes of its key stand where the length of the key is read; like those of
\* "bench_key" they are a number larger than the payload.
BenchKey == <<1, 2, Base - 1, Base - 1>>
BenchPayload(r) == Prefixed(2, r.topic) \o Prefixed(2, BenchKey) \o Prefixed(4, r.value)

Frame(api, corrID, payload) ==
  Put(4, 6 + Len(payload)) \o Put(2, APIKey(api)) \o Put(4, corrID) \o payload

-----------------------------------------------------------------------------
(* Decoders.  A slice beyond the payload, or one that ends before it begins *)
(* because the uint16 sum 2+n overflowed, is a panic.                       *)

Ok(r) == [res |-> "ok", req |-> r]
Invalid == [res |-> "invalid", req |-> Blank]
Panic == [res |-> "panic", req |-> Blank]

NameLen(p) == Get(Slice(p, 0, 2))
Name(p) == Slice(p, 2, 2 + NameLen(p))

\* The name and the `rest' bytes behind it are all there, by the sum that is
\* compared with the length of the payload.
NameThere(p, rest, sum) ==
  IF Len(p) < 2 \/ Len(p) < sum % U16 THEN Invalid
  ELSE IF 2 + NameLen(p) >= U16 \/ Len(p) < 2 + NameLen(p) + rest THEN Panic
  ELSE Ok(Blank)

\* Mutants: the fields behind the name are not counted; one byte too many is.
NameAlone(p, rest) == NameThere(p, rest, 2 + NameLen(p))
NameStrict(p, rest) == NameThere(p, rest, 2 + NameLen(p) + rest + 1)

\* What every decoder does first.
CheckName(p, rest) == NameThere(p, rest, 2 + NameLen(p) + rest)

DecodeProduceRequest(p) ==
  LET part == 2 + NameLen(p)
      k    == part + 6
      kLen == Get(Slice(p, part + 4, k))
      v    == k + kLen + 4
      vLen == Get(Slice(p, k + kLen, v))
  IN  IF CheckName(p, 6).res # "ok" THEN CheckName(p, 6)
      ELSE IF Len(p) < v \/ Len(p) < v + vLen THEN Invalid
      ELSE Ok([Blank EXCEPT !.api = "Produce", !.topic = Name(p),
                 !.partition = Signed(Get(Slice(p, part, part + 4))),
                 !.key = Slice(p, k, k + kLen), !.value = Slice(p, v, v + vLen)])

DecodeFetchRequest(p) ==
  LET part == 2 + NameLen(p)
  IN  IF CheckName(p, 16).res # "ok" THEN CheckName(p, 16)
      ELSE Ok([Blank EXCEPT !.api = "Fetch", !.topic = Name(p),
                 !.partition = Signed(Get(Slice(p, part, part + 4))),
                 !.offset = Get(Slice(p, part + 4, part + 12)),
                 !.count = Get(Slice(p, part + 12, part + 16))])

DecodeCreateTopicRequest(p) ==
  LET n == 2 + NameLen(p)
  IN  IF CheckName(p, 4).res # "ok" THEN CheckName(p, 4)
      ELSE Ok([Blank EXCEPT !.api = "CreateTopic", !.topic = Name(p),
                 !.count = Signed(Get(Slice(p, n, n + 4)))])

\* A group, a topic, a partition and, `at' bytes behind the topic, an offset if
\* `rest' has room for one.  The second length sum is computed in int.
GroupRequest(api, p, rest, at) ==
  LET t    == 2 + NameLen(p) + 2
      tLen == Get(Slice(p, t - 2, t))
      part == t + tLen
  IN  IF CheckName(p, 2).res # "ok" THEN CheckName(p, 2)
      ELSE IF Len(p) < part + rest THEN Invalid
      ELSE Ok([Blank EXCEPT !.api = api, !.group = Name(p),
                 !.topic = Slice(p, t, part),
                 !.partition = Signed(Get(Slice(p, part, part + 4))),
                 !.offset = IF rest = 4 THEN 0
                            ELSE Get(Slice(p, part + at, part + at + 8))])

\* Mutant: the offset is taken from where the partition begins.
DecodeCommitEarly(p) == GroupRequest("CommitOffset", p, 12, 0)

DecodeCommitOffsetRequest(p) == GroupRequest("CommitOffset", p, 12, 4)

DecodeFetchOffsetRequest(p) == GroupRequest("FetchOffset", p, 4, 4)

\* The switch of handleConnection.
Decode(api, p) ==
  CASE api = "Produce" -> DecodeProduceRequest(p)
    [] api = "Fetch" -> DecodeFetchRequest(p)
    [] api = "CreateTopic" -> DecodeCreateTopicRequest(p)
    [] api = "ListTopics" -> Ok(Blank)
    [] api = "CommitOffset" -> DecodeCommitOffsetRequest(p)
    [] api = "FetchOffset" -> DecodeFetchOffsetRequest(p)
    [] OTHER -> Invalid

-----------------------------------------------------------------------------
(* Responses.                                                               *)

\* Mutant: the error code before the correlation id.
HeaderSwapped(corrID, errCode, payload) ==
  Put(4, 6 + Len(payload)) \o Put(2, errCode) \o Put(4, corrID)

\* What WriteResponse writes before the payload.
ResponseHeader(corrID, errCode, payload) ==
  Put(4, 6 + Len(payload)) \o Put(4, corrID) \o Put(2, errCode)

EncodeProduceResponse(partition, offset) == Put(4, partition) \o Put(8, offset)

\* A message is [offset, key, value].
EncodeFetchResponse(msgs) ==
  Put(4, Len(msgs)) \o
  FlattenSeq([i \in DOMAIN msgs |->
    Put(8, msgs[i].offset) \o Put(8, 0) \o Prefixed(2, msgs[i].key)
      \o Prefixed(4, msgs[i].value)])

\* A topic is [name, partitions, messages].
EncodeTopics(topics) ==
  Put(4, Len(topics)) \o
  FlattenSeq([i \in DOMAIN topics |->
    Prefixed(2, topics[i].name) \o Put(4, topics[i].partitions)
      \o Put(8, topics[i].messages)])

EncodeOffset(found, offset) == Put(8, offset) \o <<IF found THEN 1 ELSE 0>>

-----------------------------------------------------------------------------
(* Records.                                                                 *)

\* Segment.Append's sums 14+keyLen and 18+keyLen are uint16: a slice of the
\* buffer that ends before it begins is a panic.
RecordPanics(key) == 18 + (Len(key) % U16) >= U16

EncodeRecord(key, value) ==
  LET keyLen == Len(key) % U16
      body   == Put(8, 0) \o Put(2, keyLen) \o Slice(key, 0, keyLen)
                  \o Prefixed(4, value)
      total  == 14 + Len(key) + Len(value)
  IN  Put(4, total) \o [i \in 1 .. total |-> IF i <= Len(body) THEN body[i] ELSE 0]

\* A record whose value begins `at' bytes behind the key.
RecordAt(rec, at) ==
  LET p      == Slice(rec, 4, Len(rec))
      keyLen == Get(Slice(p, 8, 10))
      val    == 10 + keyLen + at
      valLen == Get(Slice(p, 10 + keyLen, 14 + keyLen))
  IN  [key |-> Slice(p, 10, 10 + keyLen), value |-> Slice(p, val, val + valLen)]

\* Mutant: the value is read from where its length begins.
DecodeRecordEarly(rec) == RecordAt(rec, 0)

\* What ReadFrom makes of a record.
DecodeRecord(rec) == RecordAt(rec, 4)
=============================================================================
