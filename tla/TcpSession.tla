----------------------------- MODULE TcpSession -----------------------------
(***************************************************************************)
(* One TCP connection: a client that writes a request and waits for the    *)
(* answer (sendTCPMessage of benchmark.go, the client the repository has), *)
(* and the goroutine that serves it (broker/network/server.go).  Between   *)
(* them are two streams of bytes.                                          *)
(*                                                                         *)
(* The managers behind the handlers are what one connection can tell of    *)
(* them: topics of at most one partition, a log of encoded records in it,  *)
(* and offsets of groups.  TopicManager and GroupManager are the models of *)
(* those.                                                                  *)
(***************************************************************************)
EXTENDS Wire, Functions, FiniteSets

CONSTANTS
  NameLens,     \* lengths of topic and group names
  KeyLens,      \* lengths of keys
  Layouts,      \* how the client lays out its requests
  CutSizes,     \* how much of a frame is written when the deadline passes
  MaxRequests,  \* bound: the number of requests
  MaxTimeouts   \* bound: how often the client's deadline passes

ASSUME TcpAssumption ==
  /\ NameLens \subseteq 1 .. U16 - 1 /\ NameLens # {}
  /\ KeyLens \subseteq 0 .. U16 - 1
  /\ Layouts \subseteq {"broker", "cut", "runt", "bench"}
  /\ CutSizes \subseteq Nat

VARIABLES
  topics,    \* name -> [parts, log], the topic manager
  offsets,   \* <<group, topic, partition>> -> offset, the group manager
  server,    \* the goroutine: reading, writing a payload, or dead
  c2s, s2c,  \* bytes written by one side and not read by the other
  client,    \* where sendTCPMessage is, how many bytes it waits for, how many
             \* requests it sent, the last one and its layout, timeouts, and
             \* whether one of them cut a request off
  answer,    \* the last answer the client read
  known,     \* history: what the answers told the client
  counted    \* successCount

manager == <<topics, offsets>>
vars == <<manager, server, c2s, s2c, client, answer, known, counted>>

ErrNone == 0
ErrUnknownTopic == 1
ErrInvalidRequest == 2
ErrInternal == 3
ErrTopicExists == 4

-----------------------------------------------------------------------------
(* Requests.                                                                *)

Word(n, from) == [i \in 1 .. n |-> (i + from) % Base]

Names == {Word(n, 0) : n \in NameLens}
Keys == {Word(n, 1) : n \in KeyLens}
Short == CHOOSE t \in Names : \A u \in Names : Len(t) <= Len(u)
Value == <<1>>

Long(s) == Len(s) >= U16 - 18

\* Every API, with at most one long name or key.
Requests ==
  LET R(api) == [Blank EXCEPT !.api = api]
      all ==
        {[R("CreateTopic") EXCEPT !.topic = t, !.count = n] : t \in Names, n \in {0, 1}}
        \cup {[R("Produce") EXCEPT !.topic = t, !.key = k, !.value = Value] :
                t \in Names, k \in Keys}
        \cup {[R("Fetch") EXCEPT !.topic = t, !.partition = po[1], !.offset = po[2],
                               !.count = 1] :
                t \in Names, po \in {<<0, 0>>, <<0, 1>>, <<Base ^ 4 - 1, 0>>}}
        \cup {[R("CommitOffset") EXCEPT !.group = g, !.topic = Short, !.offset = Base] :
                g \in Names}
        \cup {[R("FetchOffset") EXCEPT !.group = g, !.topic = Short] : g \in Names}
        \cup {R("ListTopics"), R("Other")}
  IN  {r \in all : Cardinality({f \in {"group", "topic", "key"} : Long(r[f])}) <= 1}

\* A cut payload lacks its last byte; a runt announces a byte less than the API
\* key and the correlation id have, and is as long.
Laid(layout) ==
  {r \in Requests : CASE layout = "broker" -> TRUE
                      [] layout = "cut" -> Payload(r) # <<>>
                      [] layout = "runt" -> r.api = "Other"
                      [] layout = "bench" -> r.api = "Produce"}

Bytes(r, layout, corrID) ==
  CASE layout = "broker" -> Frame(r.api, corrID, Payload(r))
    [] layout = "cut" -> Frame(r.api, corrID, Front(Payload(r)))
    [] layout = "runt" -> Put(4, 5) \o Slice(Frame(r.api, corrID, <<>>), 4, 9)
    [] layout = "bench" -> Frame(r.api, corrID, BenchPayload(r))

-----------------------------------------------------------------------------
(* The client.                                                              *)

Waiting == client.at \in {"len", "body"}

Forget == [none |-> TRUE]

MaySend == client.at = "idle" /\ client.sent < MaxRequests /\ server.at # "dead"

Send(r, layout) ==
  /\ MaySend
  /\ c2s' = c2s \o Bytes(r, layout, client.sent)
  /\ client' = [client EXCEPT !.at = "len", !.want = 4, !.sent = @ + 1,
                              !.req = r, !.layout = layout]
  /\ answer' = Forget
  /\ UNCHANGED <<manager, server, s2c, known, counted>>

\* The deadline passes within conn.Write: n bytes are out, sendTCPMessage returns
\* the error, and the next request goes behind them.
SendCut(r, n) ==
  /\ MaySend /\ client.timeouts < MaxTimeouts
  /\ LET bytes == Bytes(r, "broker", client.sent)
     IN  /\ n < Len(bytes)
         /\ c2s' = c2s \o Slice(bytes, 0, n)
  /\ client' = [client EXCEPT !.sent = @ + 1, !.timeouts = @ + 1, !.cut = TRUE]
  /\ answer' = Forget
  /\ UNCHANGED <<manager, server, s2c, known, counted>>

ReadLen ==
  /\ client.at = "len" /\ Len(s2c) >= 4
  /\ client' = [client EXCEPT !.at = "body", !.want = Get(Slice(s2c, 0, 4))]
  /\ s2c' = Slice(s2c, 4, Len(s2c))
  /\ UNCHANGED <<manager, server, c2s, answer, known, counted>>

\* What an answer tells the client about topics, messages and offsets.
Learn(r, err) ==
  LET kept == known.topics[r.topic]
  IN  CASE r.api = "CreateTopic" /\ err = ErrNone ->
             [known EXCEPT !.topics = (r.topic :> [parts |-> r.count, log |-> <<>>]) @@ @]
        [] r.api = "Produce" /\ err = ErrNone ->
             [known EXCEPT !.topics[r.topic].log =
                Append(@, [offset |-> Len(kept.log), key |-> r.key, value |-> r.value])]
        [] r.api = "CommitOffset" /\ err # ErrInvalidRequest ->
             [known EXCEPT !.offsets = (<<r.group, r.topic, r.partition>> :> r.offset) @@ @]
        [] OTHER -> known

\* Any answer of the announced length is a success: the benchmark looks at
\* neither the correlation id nor the error code.
ReadBody ==
  /\ client.at = "body" /\ Len(s2c) >= client.want
  /\ LET body == Slice(s2c, 0, client.want)
         err  == Get(Slice(body, 4, 6))
     IN  IF client.timeouts > 0 THEN UNCHANGED <<answer, known>>
         ELSE /\ answer' = [none |-> FALSE, corrID |-> Get(Slice(body, 0, 4)),
                            err |-> err, payload |-> Slice(body, 6, Len(body))]
              /\ known' = Learn(client.req, err)
  /\ s2c' = Slice(s2c, client.want, Len(s2c))
  /\ client' = [client EXCEPT !.at = "idle"]
  /\ counted' = counted + 1
  /\ UNCHANGED <<manager, server, c2s>>

\* The deadline passes.  What came of an incomplete length or body is lost, or
\* was not read at all; the next message goes over the same connection.
Timeout ==
  /\ Waiting /\ client.timeouts < MaxTimeouts
  /\ s2c' \in {s2c} \cup (IF Len(s2c) < client.want THEN {<<>>} ELSE {})
  /\ client' = [client EXCEPT !.at = "idle", !.timeouts = @ + 1]
  /\ UNCHANGED <<manager, server, c2s, answer, known, counted>>

\* The broker is gone.
ReadFails ==
  /\ Waiting /\ server.at = "dead" /\ Len(s2c) < client.want
  /\ client' = [client EXCEPT !.at = "idle"]
  /\ UNCHANGED <<manager, server, c2s, s2c, answer, known, counted>>

-----------------------------------------------------------------------------
(* The server.                                                              *)

\* The frame ReadRequest returns.
FrameLen == Get(Slice(c2s, 0, 4))
API == LET key == Get(Slice(c2s, 4, 6)) IN IF key < Len(APIs) THEN APIs[key + 1] ELSE "Other"
CorrID == Get(Slice(c2s, 6, 10))

\* binary.Read and io.ReadFull wait for all of it.
FrameThere == Len(c2s) >= 4 /\ Len(c2s) >= 4 + FrameLen

\* WriteResponse: the header, and then the payload if there is one.
WriteResponse(errCode, payload) ==
  /\ c2s' = Slice(c2s, 4 + FrameLen, Len(c2s))
  /\ s2c' = s2c \o ResponseHeader(CorrID, errCode, payload)
  /\ server' = [at |-> IF payload = <<>> THEN "read" ELSE "write", pending |-> payload]
  /\ UNCHANGED <<client, answer, known, counted>>

WritePayload ==
  /\ server.at = "write"
  /\ s2c' = s2c \o server.pending
  /\ server' = [at |-> "read", pending |-> <<>>]
  /\ UNCHANGED <<manager, c2s, client, answer, known, counted>>

Refuse ==
  /\ WriteResponse(ErrInvalidRequest, <<>>)
  /\ UNCHANGED manager

\* A panic in a goroutine ends the broker.
Die ==
  /\ server' = [server EXCEPT !.at = "dead"]
  /\ UNCHANGED <<manager, c2s, s2c, client, answer, known, counted>>

Usable(r) == r.topic \in DOMAIN topics /\ topics[r.topic].parts > 0

\* Append, and its answer.
Stored(r, errCode, payload) ==
  /\ Usable(r) /\ ~RecordPanics(r.key)
  /\ topics' = [topics EXCEPT ![r.topic].log = Append(@, EncodeRecord(r.key, r.value))]
  /\ WriteResponse(errCode, payload)
  /\ UNCHANGED offsets

\* Mutant: a message is stored and answered with an error.
StoredAnyway(r) == Stored(r, ErrInternal, <<>>)

\* Produce fails on an unknown topic, one without partitions, or I/O.
HandleProduce(r) ==
  \/ Stored(r, ErrNone, EncodeProduceResponse(0, Len(topics[r.topic].log)))
  \/ Usable(r) /\ RecordPanics(r.key) /\ Die
  \/ /\ ~(Usable(r) /\ RecordPanics(r.key))
     /\ WriteResponse(ErrInternal, <<>>)
     /\ UNCHANGED manager

Consumed(r) ==
  LET log == SubSeq(topics[r.topic].log, r.offset + 1, Len(topics[r.topic].log))
  IN  [i \in 1 .. Min({r.count, Len(log)}) |->
         [offset |-> r.offset + i - 1] @@ DecodeRecord(log[i])]

PartitionThere(r) ==
  Usable(r) /\ 0 <= r.partition /\ r.partition < topics[r.topic].parts

\* Consume fails on an unknown topic or partition, and when what is there to read
\* cannot be read; the answer is the same.
HandleFetch(r) ==
  /\ \/ PartitionThere(r) /\ WriteResponse(ErrNone, EncodeFetchResponse(Consumed(r)))
     \/ /\ PartitionThere(r) => Consumed(r) # <<>>
        /\ WriteResponse(ErrUnknownTopic, <<>>)
  /\ UNCHANGED manager

\* Any error, of the file system too, is answered with ErrTopicExists.
HandleCreateTopic(r) ==
  \/ /\ r.topic \notin DOMAIN topics
     /\ topics' = (r.topic :> [parts |-> Max({0, r.count}), log |-> <<>>]) @@ topics
     /\ WriteResponse(ErrNone, <<>>)
     /\ UNCHANGED offsets
  \/ WriteResponse(ErrTopicExists, <<>>) /\ UNCHANGED manager

\* The lists a Go map of topics can be read out to.
Listings(ts) ==
  {[i \in DOMAIN order |->
      [name |-> order[i], partitions |-> ts[order[i]].parts,
       messages |-> Len(ts[order[i]].log)]] : order \in SetToSeqs(DOMAIN ts)}

HandleListTopics ==
  /\ \E list \in Listings(topics) : WriteResponse(ErrNone, EncodeTopics(list))
  /\ UNCHANGED manager

\* The map is updated before the file is written: an error comes afterwards.
HandleCommitOffset(r) ==
  /\ offsets' = (<<r.group, r.topic, r.partition>> :> r.offset) @@ offsets
  /\ \E err \in {ErrNone, ErrInternal} : WriteResponse(err, <<>>)
  /\ UNCHANGED topics

Offset(offs, r) ==
  LET k == <<r.group, r.topic, r.partition>>
  IN  IF k \in DOMAIN offs THEN EncodeOffset(TRUE, offs[k]) ELSE EncodeOffset(FALSE, 0)

HandleFetchOffset(r) ==
  /\ WriteResponse(ErrNone, Offset(offsets, r))
  /\ UNCHANGED manager

\* One round of handleConnection.  A frame that has no room for the API key and
\* the correlation id is sliced beyond its end.
Serve ==
  /\ server.at = "read" /\ FrameThere
  /\ \/ FrameLen < 6 /\ Die
     \/ /\ FrameLen >= 6
        /\ \E d \in {Decode(API, Slice(c2s, 10, 4 + FrameLen))} :
             LET Ask(api) == d.res = "ok" /\ d.req.api = api
             IN  \/ d.res = "invalid" /\ Refuse
                 \/ d.res = "panic" /\ Die
                 \/ Ask("Produce") /\ HandleProduce(d.req)
                 \/ Ask("Fetch") /\ HandleFetch(d.req)
                 \/ Ask("CreateTopic") /\ HandleCreateTopic(d.req)
                 \/ Ask("ListTopics") /\ HandleListTopics
                 \/ Ask("CommitOffset") /\ HandleCommitOffset(d.req)
                 \/ Ask("FetchOffset") /\ HandleFetchOffset(d.req)

-----------------------------------------------------------------------------

\* A topic was created before the client connects.
Init ==
  /\ topics = (Short :> [parts |-> 1, log |-> <<>>])
  /\ offsets = <<>>
  /\ server = [at |-> "read", pending |-> <<>>]
  /\ c2s = <<>> /\ s2c = <<>>
  /\ client = [at |-> "idle", want |-> 0, sent |-> 0, req |-> Blank,
               layout |-> "broker", timeouts |-> 0, cut |-> FALSE]
  /\ answer = Forget
  /\ known = [topics |-> topics, offsets |-> offsets]
  /\ counted = 0

Next ==
  \/ \E layout \in Layouts : \E r \in Laid(layout) : Send(r, layout)
  \/ \E r \in Laid("broker"), n \in CutSizes : SendCut(r, n)
  \/ ReadLen \/ ReadBody \/ Timeout \/ ReadFails
  \/ Serve \/ WritePayload

Spec == Init /\ [][Next]_vars

-----------------------------------------------------------------------------

Answered(api) == ~answer.none /\ client.req.api = api

\* Shapes of the variables.
TypeOK ==
  /\ server.at \in {"read", "write", "dead"}
  /\ client.at \in {"idle", "len", "body"} /\ client.req \in Requests \cup {Blank}
  /\ client.cut \in BOOLEAN
  /\ Range(c2s) \cup Range(s2c) \subseteq 0 .. Base - 1

\* Unless a deadline passed, the answer to a request carries its correlation id:
\* the lengths of frames keep the streams in step (protocol.go:26-63).
OwnAnswer == ~answer.none => answer.corrID = client.sent - 1

\* A request is refused as invalid exactly if its payload is cut or its API is
\* unknown: the decoders accept no less than the whole, and no wrong sum of
\* lengths refuses a request at the limit (protocol.go:65-182).
Refusals ==
  ~answer.none => (answer.err = ErrInvalidRequest
                   <=> client.layout = "cut" \/ client.req.api = "Other")

\* A fetch that succeeds returns what was acknowledged at the offset it asks for,
\* bytes and offsets, through the record in the file and both frames
\* (server.go:112-127, segment.go:90-120, 182-197).  It is an error without that
\* partition, and never where there is nothing to read.
FetchedAsProduced ==
  Answered("Fetch") /\ client.layout = "broker" =>
    LET r     == client.req
        there == r.partition = 0 /\ r.topic \in DOMAIN known.topics
                 /\ known.topics[r.topic].parts > 0
        next  == LET log == known.topics[r.topic].log
                 IN  SubSeq(log, r.offset + 1,
                            IF Len(log) > r.offset THEN r.offset + 1 ELSE r.offset)
    IN  \/ there /\ answer.err = ErrNone /\ answer.payload = EncodeFetchResponse(next)
        \/ /\ there => next # <<>>
           /\ answer.err = ErrUnknownTopic /\ answer.payload = <<>>

\* LIST_TOPICS names every topic that was created, once, with its partitions
\* and the number of messages acknowledged in it (server.go:129-174).
ListedAsProduced ==
  Answered("ListTopics") =>
    answer.payload \in {EncodeTopics(list) : list \in Listings(known.topics)}

\* FETCH_OFFSET answers with the last commit the broker could decode, be it
\* acknowledged or answered with an error (server.go:176-210).
OffsetsAsCommitted ==
  Answered("FetchOffset") /\ client.layout = "broker" =>
    answer.payload = Offset(known.offsets, client.req)

\* As long as no write is cut off, the broker dies only of a frame that is shorter
\* than its own header (protocol.go:37-39), or of a request at the limit of uint16
\* lengths: a key or a name so long that the buffer's or the decoder's sum
\* overflows, and of a name within 18 bytes of it only if the payload is cut
\* besides (protocol.go:66-69, segment.go:94-104).  That holds also when answers
\* come late and requests queue up.  A write cut off puts the stream out of step,
\* and any later request may then be read as such a frame.
DiesOnlyAtLimit ==
  server.at = "dead" =>
    \/ client.cut
    \/ \E layout \in Layouts, id \in 0 .. client.sent - 1 : \E r \in Laid(layout) :
         /\ IsPrefix(Bytes(r, layout, id), c2s)
         /\ \/ layout = "runt"
            \/ Long(r.key)
            \/ \E s \in {r.group, r.topic} :
                 Len(s) + 2 >= U16 \/ (layout = "cut" /\ Long(s))

\* Every message the benchmark counts as delivered is in a log (README.md:193,
\* "Successful Deliveries | 50,000 (100.00%)").
CountedIsStored ==
  counted <= FoldLeft(LAMBDA n, t : n + Len(topics[t].log), 0,
                      SetToSeq(DOMAIN topics))
=============================================================================
