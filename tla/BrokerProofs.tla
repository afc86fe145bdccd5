---------------------------- MODULE BrokerProofs ----------------------------
(***************************************************************************)
(* The order of the shutdown protects the files: the theorems about module *)
(* Broker, for any number of TCP clients, requests and HTTP requests.      *)
(***************************************************************************)
EXTENDS Broker, FiniteSetTheorems, TLAPS

-----------------------------------------------------------------------------
(* The inductive invariant, part by part.                                   *)

Stages == {"start", "listening", "up", "http", "cancel", "unlisten", "wait",
           "close", "done", "exit", "fatal"}

Connection ==
  [at : {"none", "queued", "read", "serve", "ended", "reset"}, open : BOOLEAN,
   sent : Nat, unread : Nat, answered : Nat, broken : BOOLEAN]

TcpServer ==
  [listening : BOOLEAN, done : BOOLEAN, accepting : BOOLEAN, wg : Int]

ShapeInv ==
  /\ main \in Stages
  /\ topicsOpen \in BOOLEAN
  /\ tcp \in TcpServer
  /\ conn \in [Conns -> Connection]
  /\ httpd \in {"none", "starting", "serving", "closed"}
  /\ call \in [Calls -> {"none", "body", "serve", "done"}]
  /\ late \in BOOLEAN
  /\ strayed \in BOOLEAN

Acceptor == IF tcp.accepting THEN 1 ELSE 0

\* The WaitGroup counts the goroutines of the TCP server.
WaitGroup == IsFiniteSet(Handling) /\ tcp.wg = Cardinality(Handling) + Acceptor

\* Nobody connects before the listener is there.
NobodyYet ==
  main = "start" => ~tcp.listening /\ ~tcp.accepting /\ \A c \in Conns : conn[c].at = "none"

\* Once Wait has returned, nothing can start a goroutine any more: a connection
\* needs the acceptor, which is one of those that were waited for.
WaitedFor ==
  main \in {"close", "done", "exit"} => Handling = {} /\ ~tcp.accepting

\* What main does with the HTTP server: before Shutdown returns, handlers are
\* refused; if it returned in time, none is left.
HttpOrder ==
  /\ main \in {"start", "listening"} =>
       httpd = "none" /\ \A h \in Calls : call[h] = "none"
  /\ httpd = "serving" => main \in {"up", "fatal"}
  /\ main \in {"cancel", "unlisten", "wait", "close", "done", "exit"} /\ ~late => ~Busy
  /\ main \in {"listening", "up", "http", "cancel", "unlisten", "wait", "close"}
       => topicsOpen
  /\ StrayOnlyIfLate

\* The requests of a connection that was not lost: answered, being served, or
\* not yet read.
RequestsKept ==
  \A c \in Conns :
    /\ conn[c].at = "none" => ~conn[c].open
    /\ conn[c].at = "ended" => conn[c].unread = 0 /\ ~conn[c].open
    /\ ~conn[c].broken =>
         conn[c].sent = conn[c].answered + conn[c].unread
                          + (IF conn[c].at = "serve" THEN 1 ELSE 0)

BrokerInv ==
  ShapeInv /\ NobodyYet /\ WaitGroup /\ WaitedFor /\ HttpOrder /\ RequestsKept

-----------------------------------------------------------------------------
(* Shapes.                                                                  *)

\* The fields of a connection.
LEMMA ConnFields ==
  ASSUME ShapeInv, NEW c \in Conns
  PROVE  /\ conn[c] \in Connection /\ conn[c].open \in BOOLEAN
         /\ conn[c].sent \in Nat /\ conn[c].unread \in Nat
         /\ conn[c].answered \in Nat /\ conn[c].broken \in BOOLEAN
  BY DEF ShapeInv, Connection

\* The record of the TCP server with an acceptor that starts or ends.
LEMMA TcpUpdates ==
  ASSUME NEW t \in TcpServer, NEW n \in Int
  PROVE  /\ [t EXCEPT !.listening = TRUE, !.accepting = TRUE, !.wg = n] \in TcpServer
         /\ [t EXCEPT !.accepting = FALSE, !.wg = n] \in TcpServer
  BY Zenon DEF TcpServer

\* Every step keeps the shapes of the variables.
LEMMA ShapeStep ==
  ASSUME ShapeInv, [Next]_vars PROVE ShapeInv'
<1> USE DEF ShapeInv, Main, http
<1>1. CASE StartTcp \/ Cancel \/ AcceptEnds
  <2>1. tcp' \in TcpServer
    <3>1. CASE StartTcp
      <4>1. /\ tcp \in TcpServer /\ 1 \in Int
            /\ tcp' = [tcp EXCEPT !.listening = TRUE, !.accepting = TRUE, !.wg = 1]
        BY <3>1 DEF StartTcp
      <4> QED
        BY <4>1, TcpUpdates, Zenon
    <3>2. CASE Cancel
      BY <3>2 DEF Cancel, TcpServer
    <3>3. CASE AcceptEnds
      <4>1. /\ tcp \in TcpServer
            /\ tcp' = [tcp EXCEPT !.accepting = FALSE, !.wg = tcp.wg - 1]
        BY <3>3 DEF AcceptEnds
      <4>2. tcp.wg - 1 \in Int
        BY <4>1 DEF TcpServer
      <4> QED
        BY <4>1, <4>2, TcpUpdates, Zenon
    <3> QED
      BY <1>1, <3>1, <3>2, <3>3
  <2> QED
    BY <1>1, <2>1 DEF StartTcp, Cancel, AcceptEnds, Stages
<1>2. CASE StartFails \/ StartHttp \/ HttpListens \/ HttpListenFails \/ Signal
  BY <1>2 DEF StartFails, StartHttp, HttpListens, HttpListenFails, Signal, Stages
<1>4. CASE HttpDrained \/ HttpTimeout \/ WaitReturns \/ CloseTopics \/ Exit
  BY <1>4 DEF HttpDrained, HttpTimeout, WaitReturns, CloseTopics, Exit, Stages
<1>3. CASE CloseListener
  <2>1. \A c \in Conns : [conn[c] EXCEPT !.at = "reset", !.open = FALSE] \in Connection
    BY DEF Connection
  <2>2. tcp' \in TcpServer
    BY <1>3 DEF CloseListener, TcpServer
  <2> QED
    BY <1>3, <2>1, <2>2 DEF CloseListener, Stages
<1>5. ASSUME NEW c \in Conns, Accept(c) \/ Handle(c) PROVE ShapeInv'
  <2>1. tcp' \in TcpServer
    BY <1>5 DEF Accept, Handle, ReadRequest, ReadEnds, Serve, Return, TcpServer
  <2>2. conn[c].unread > 0 => conn[c].unread - 1 \in Nat
    BY ConnFields
  <2>3. conn' \in [Conns -> Connection]
    BY <1>5, <2>2 DEF Accept, Handle, ReadRequest, ReadEnds, Serve, Return, Connection
  <2> QED
    BY <1>5, <2>1, <2>3 DEF Accept, Handle, ReadRequest, ReadEnds, Serve, Return
<1>6. ASSUME NEW c \in Conns, Connect(c) \/ Send(c) \/ Leave(c) \/ Break(c)
      PROVE  ShapeInv'
  <2>1. CASE Connect(c)
    <3> PICK k : k = [conn[c] EXCEPT !.at = "queued", !.open = TRUE]
      OBVIOUS
    <3>1. k \in Connection /\ conn' = [conn EXCEPT ![c] = k]
      BY <2>1, ConnFields DEF Connect, Connection
    <3> QED
      BY <2>1, <3>1 DEF Connect
  <2>2. CASE Send(c)
    <3>1. conn[c] \in Connection /\ conn[c].sent + 1 \in Nat /\ conn[c].unread + 1 \in Nat
      BY ConnFields
    <3>2. conn' \in [Conns -> Connection]
      BY <2>2, <3>1 DEF Send, Connection
    <3> QED
      BY <2>2, <3>2 DEF Send
  <2>3. CASE Leave(c)
    BY <2>3 DEF Leave, Connection
  <2>4. CASE Break(c)
    <3> PICK k : k = [conn[c] EXCEPT !.open = FALSE, !.unread = 0, !.broken = TRUE]
      OBVIOUS
    <3>1. k \in Connection /\ conn' = [conn EXCEPT ![c] = k]
      BY <2>4, ConnFields DEF Break, Connection
    <3> QED
      BY <2>4, <3>1 DEF Break
  <2> QED
    BY <1>6, <2>1, <2>2, <2>3, <2>4
<1>7. ASSUME NEW h \in Calls, HttpCall(h) \/ HttpBody(h) \/ HttpServe(h)
      PROVE  ShapeInv'
  BY <1>7 DEF HttpCall, HttpBody, HttpServe, Stages
<1>8. CASE UNCHANGED vars
  BY <1>8 DEF vars
<1> QED
  BY <1>1, <1>2, <1>3, <1>4, <1>5, <1>6, <1>7, <1>8 DEF Next, Shutdown

-----------------------------------------------------------------------------
(* The WaitGroup.                                                           *)

\* A step that leaves alone where the goroutines are keeps the count.
LEMMA SameGoroutines ==
  ASSUME ShapeInv, WaitGroup, Handling' = Handling, tcp'.accepting = tcp.accepting,
         tcp'.wg = tcp.wg
  PROVE  WaitGroup'
  BY DEF WaitGroup, Acceptor

\* A goroutine that starts is added, by Accept before it runs.
LEMMA AcceptCounts ==
  ASSUME ShapeInv, WaitGroup, NEW c \in Conns, Accept(c) PROVE WaitGroup'
<1>1. Handling' = Handling \union {c} /\ c \notin Handling
  BY DEF ShapeInv, Accept, Handling
<1>2. tcp'.wg = tcp.wg + 1 /\ tcp'.accepting = tcp.accepting
  BY DEF ShapeInv, Accept, TcpServer
<1>3. /\ IsFiniteSet(Handling')
      /\ Cardinality(Handling') = Cardinality(Handling) + 1
      /\ Cardinality(Handling) \in Nat
  BY <1>1, FS_AddElement, FS_CardinalityType DEF WaitGroup
<1> QED
  BY <1>2, <1>3 DEF WaitGroup, Acceptor

\* A goroutine that returns is taken off.
LEMMA ReturnCounts ==
  ASSUME ShapeInv, WaitGroup, NEW c \in Conns, ReadEnds(c) PROVE WaitGroup'
<1>1. Handling' = Handling \ {c} /\ c \in Handling
  BY DEF ShapeInv, ReadEnds, Return, Handling
<1>2. tcp'.wg = tcp.wg - 1 /\ tcp'.accepting = tcp.accepting
  BY DEF ShapeInv, ReadEnds, Return, TcpServer
<1>3. /\ IsFiniteSet(Handling')
      /\ Cardinality(Handling') = Cardinality(Handling) - 1
      /\ Cardinality(Handling) \in Nat
  BY <1>1, FS_RemoveElement, FS_CardinalityType DEF WaitGroup
<1> QED
  BY <1>2, <1>3 DEF WaitGroup, Acceptor

\* When the count is zero no goroutine of the TCP server is left.
LEMMA ZeroMeansNone ==
  ASSUME ShapeInv, WaitGroup, tcp.wg = 0 PROVE Handling = {} /\ ~tcp.accepting
<1>1. Cardinality(Handling) \in Nat
  BY FS_CardinalityType DEF WaitGroup
<1>2. Cardinality(Handling) = 0 /\ ~tcp.accepting
  BY <1>1 DEF WaitGroup, Acceptor
<1> QED
  BY <1>2, FS_EmptySet DEF WaitGroup

\* Every step keeps the count, and what Wait waited for stays gone.
LEMMA WaitGroupStep ==
  ASSUME ShapeInv, NobodyYet, WaitGroup, WaitedFor, [Next]_vars
  PROVE  WaitGroup' /\ WaitedFor'
<1> USE DEF Main
<1>1. CASE StartTcp
  <2>1. /\ Handling' = {} /\ tcp'.wg = 1 /\ tcp'.accepting /\ main' = "listening"
    BY <1>1 DEF StartTcp, Handling, NobodyYet, ShapeInv, TcpServer
  <2> QED
    BY <2>1, FS_EmptySet DEF WaitGroup, WaitedFor, Acceptor
<1>2. CASE /\ \/ StartFails \/ StartHttp \/ HttpListens \/ HttpListenFails \/ Signal
              \/ HttpDrained \/ HttpTimeout \/ CloseTopics \/ Exit \/ UNCHANGED vars
  <2>1. Handling' = Handling /\ tcp' = tcp
    BY <1>2 DEF StartFails, StartHttp, HttpListens, HttpListenFails, Signal, HttpDrained,
       HttpTimeout, CloseTopics, Exit, vars, Handling
  <2>2. main' \in {"close", "done", "exit"} => main \in {"close", "done", "exit"}
    BY <1>2 DEF StartFails, StartHttp, HttpListens, HttpListenFails, Signal, HttpDrained,
       HttpTimeout, CloseTopics, Exit, vars
  <2> QED
    BY <2>1, <2>2, SameGoroutines DEF WaitedFor
<1>3. CASE WaitReturns
  <2>1. Handling' = Handling /\ tcp' = tcp /\ tcp.wg = 0
    BY <1>3 DEF WaitReturns, Handling
  <2> QED
    BY <2>1, SameGoroutines, ZeroMeansNone DEF WaitedFor
<1>4. CASE Cancel \/ CloseListener
  <2>1. \A c \in Conns : (conn'[c].at = conn[c].at) \/ (conn[c].at = "queued" /\ conn'[c].at = "reset")
    <3>1. CASE Cancel
      BY <3>1 DEF Cancel
    <3>2. CASE CloseListener
      BY <3>2 DEF CloseListener, ShapeInv, Connection
    <3> QED
      BY <1>4, <3>1, <3>2
  <2>4. Handling' = Handling
    BY <2>1 DEF Handling
  <2>2. tcp'.accepting = tcp.accepting /\ tcp'.wg = tcp.wg
    BY <1>4 DEF Cancel, CloseListener, ShapeInv, TcpServer
  <2>3. main' \notin {"close", "done", "exit"}
    BY <1>4 DEF Cancel, CloseListener
  <2> QED
    BY <2>2, <2>3, <2>4, SameGoroutines DEF WaitedFor
<1>5. CASE AcceptEnds
  <2>1. /\ Handling' = Handling /\ tcp.accepting /\ ~tcp'.accepting
        /\ tcp'.wg = tcp.wg - 1 /\ main' = main
    BY <1>5 DEF AcceptEnds, Handling, ShapeInv, TcpServer
  <2>2. Cardinality(Handling) \in Nat
    BY FS_CardinalityType DEF WaitGroup
  <2> QED
    BY <2>1, <2>2 DEF WaitGroup, WaitedFor, Acceptor
<1>6. ASSUME NEW c \in Conns, Accept(c) PROVE WaitGroup' /\ WaitedFor'
  BY <1>6, AcceptCounts DEF Accept, WaitedFor
<1>7. ASSUME NEW c \in Conns, ReadEnds(c) PROVE WaitGroup' /\ WaitedFor'
  <2>1. c \in Handling /\ main' = main
    BY <1>7 DEF ReadEnds, Return, Handling
  <2> QED
    BY <1>7, <2>1, ReturnCounts DEF WaitedFor
<1>8. ASSUME NEW c \in Conns,
             \/ ReadRequest(c) \/ Serve(c) \/ Connect(c) \/ Send(c) \/ Leave(c) \/ Break(c)
      PROVE  WaitGroup' /\ WaitedFor'
  <2>1. main' = main /\ tcp' = tcp
    BY <1>8 DEF ReadRequest, Serve, Connect, Send, Leave, Break
  <2>2. Handling' = Handling
    BY <1>8 DEF ReadRequest, Serve, Connect, Send, Leave, Break, Handling, ShapeInv,
       Connection
  <2> QED
    BY <2>1, <2>2, SameGoroutines DEF WaitedFor
<1>9. ASSUME NEW h \in Calls, HttpCall(h) \/ HttpBody(h) \/ HttpServe(h)
      PROVE  WaitGroup' /\ WaitedFor'
  <2>1. Handling' = Handling /\ tcp' = tcp /\ main' \in {main, "fatal"}
    BY <1>9 DEF HttpCall, HttpBody, HttpServe, Handling
  <2> QED
    BY <2>1, SameGoroutines DEF WaitedFor
<1> QED
  BY <1>1, <1>2, <1>3, <1>4, <1>5, <1>6, <1>7, <1>8, <1>9 DEF Next, Shutdown, Handle

-----------------------------------------------------------------------------
(* The HTTP server.                                                         *)

\* Every step keeps the order of main and the HTTP handlers.
LEMMA HttpStep ==
  ASSUME ShapeInv, HttpOrder, [Next]_vars PROVE HttpOrder'
<1> USE DEF HttpOrder, StrayOnlyIfLate, Main, Busy
<1>1. CASE StartTcp \/ StartFails \/ StartHttp
  BY <1>1 DEF StartTcp, StartFails, StartHttp, http
<1>2. CASE HttpListens \/ HttpListenFails \/ Signal
  BY <1>2 DEF HttpListens, HttpListenFails, Signal, http
<1>3. CASE HttpDrained \/ HttpTimeout
  BY <1>3 DEF HttpDrained, HttpTimeout, http, ShapeInv
<1>8. CASE Cancel
  BY <1>8 DEF Cancel, http
<1>9. CASE CloseListener
  BY <1>9 DEF CloseListener, http
<1>4. CASE WaitReturns \/ CloseTopics \/ Exit \/ UNCHANGED vars
  BY <1>4 DEF WaitReturns, CloseTopics, Exit, http, vars
<1>5. CASE \/ AcceptEnds
           \/ \E c \in Conns : Accept(c) \/ Handle(c)
           \/ \E c \in Conns : Connect(c) \/ Send(c) \/ Leave(c) \/ Break(c)
  <2>1. UNCHANGED <<main, topicsOpen, http>>
    BY <1>5 DEF AcceptEnds, Accept, Handle, ReadRequest, ReadEnds, Return, Serve,
       Connect, Send, Leave, Break
  <2> QED
    BY <2>1, SMTT(60) DEF http
<1>6. ASSUME NEW h \in Calls, HttpCall(h) \/ HttpBody(h) PROVE HttpOrder'
  <2>1. /\ UNCHANGED <<main, topicsOpen, httpd, late, strayed>>
        /\ main \notin {"start", "listening"}
        /\ Busy' => httpd = "serving" \/ Busy
    BY <1>6 DEF HttpCall, HttpBody, ShapeInv
  <2> QED
    BY <2>1
<1>7. ASSUME NEW h \in Calls, HttpServe(h) PROVE HttpOrder'
  <2>1. /\ Busy /\ main \notin {"start", "listening", "exit", "fatal"}
        /\ Busy' => Busy
        /\ UNCHANGED <<topicsOpen, httpd, late>>
    BY <1>7 DEF HttpServe, Alive, ShapeInv
  <2>2. ~topicsOpen => late
    BY <2>1 DEF ShapeInv, Stages
  <2>3. strayed' => strayed \/ ~topicsOpen
    BY <1>7 DEF HttpServe
  <2>4. main' = main \/ main' = "fatal"
    BY <1>7 DEF HttpServe
  <2> QED
    BY <2>1, <2>2, <2>3, <2>4
<1> QED
  BY <1>1, <1>2, <1>3, <1>4, <1>5, <1>6, <1>7, <1>8, <1>9 DEF Next, Shutdown

-----------------------------------------------------------------------------
(* The requests of TCP clients.                                             *)

\* Every step keeps the books on every connection.
LEMMA RequestsStep ==
  ASSUME ShapeInv, RequestsKept, [Next]_vars PROVE RequestsKept'
<1>1. CASE UNCHANGED conn
  BY <1>1 DEF RequestsKept
<1>2. CASE CloseListener
  BY <1>2 DEF CloseListener, RequestsKept, ShapeInv, Connection
<1>3. ASSUME NEW c \in Conns, Accept(c) \/ Handle(c) PROVE RequestsKept'
  <2>1. \A d \in Conns : d # c => conn'[d] = conn[d]
    BY <1>3 DEF Accept, Handle, ReadRequest, ReadEnds, Return, Serve, ShapeInv
  <2>2. /\ conn[c].sent \in Nat /\ conn[c].unread \in Nat /\ conn[c].answered \in Nat
    BY ConnFields
  <2>3. CASE Accept(c)
    BY <2>1, <2>2, <2>3 DEF Accept, RequestsKept, ShapeInv, Connection
  <2>4. CASE ReadRequest(c)
    BY <2>1, <2>2, <2>4 DEF ReadRequest, RequestsKept, ShapeInv, Connection
  <2>5. CASE ReadEnds(c)
    BY <2>1, <2>2, <2>5 DEF ReadEnds, Return, RequestsKept, ShapeInv, Connection
  <2>6. CASE Serve(c)
    BY <2>1, <2>2, <2>6 DEF Serve, RequestsKept, ShapeInv, Connection
  <2> QED
    BY <1>3, <2>3, <2>4, <2>5, <2>6 DEF Handle
<1>4. ASSUME NEW c \in Conns, Connect(c) \/ Send(c) \/ Leave(c) \/ Break(c)
      PROVE  RequestsKept'
  <2>1. \A d \in Conns : d # c => conn'[d] = conn[d]
    BY <1>4 DEF Connect, Send, Leave, Break, ShapeInv
  <2>2. /\ conn[c].sent \in Nat /\ conn[c].unread \in Nat /\ conn[c].answered \in Nat
    BY ConnFields
  <2>3. CASE Connect(c)
    BY <2>1, <2>2, <2>3 DEF Connect, RequestsKept, ShapeInv, Connection
  <2>4. CASE Send(c)
    BY <2>1, <2>2, <2>4 DEF Send, RequestsKept, ShapeInv, Connection
  <2>5. CASE Leave(c)
    BY <2>1, <2>2, <2>5 DEF Leave, RequestsKept, ShapeInv, Connection
  <2>6. CASE Break(c)
    BY <2>1, <2>2, <2>6 DEF Break, RequestsKept, ShapeInv, Connection
  <2> QED
    BY <1>4, <2>3, <2>4, <2>5, <2>6
<1>5. CASE \/ StartTcp \/ StartFails \/ StartHttp \/ HttpListens \/ HttpListenFails
           \/ Signal \/ AcceptEnds \/ UNCHANGED vars
           \/ \E h \in Calls : HttpCall(h) \/ HttpBody(h) \/ HttpServe(h)
  BY <1>1, <1>5 DEF StartTcp, StartFails, StartHttp, HttpListens, HttpListenFails,
     Signal, AcceptEnds, vars, HttpCall, HttpBody, HttpServe
<1>6. CASE HttpDrained \/ HttpTimeout \/ Cancel \/ WaitReturns \/ CloseTopics \/ Exit
  BY <1>1, <1>6, SMTT(60) DEF HttpDrained, HttpTimeout, Cancel, WaitReturns, CloseTopics, Exit
<1> QED
  BY <1>2, <1>3, <1>4, <1>5, <1>6 DEF Next, Shutdown

-----------------------------------------------------------------------------
(* The invariant and the theorems.                                          *)

\* Every step keeps the listener closed to clients until main opens it.
LEMMA NobodyStep ==
  ASSUME ShapeInv, HttpOrder, NobodyYet, RequestsKept, [Next]_vars PROVE NobodyYet'
<1> SUFFICES ASSUME main' = "start" PROVE UNCHANGED <<main, tcp, conn>>
  BY DEF NobodyYet
<1>1. main = "start"
  BY DEF Next, Shutdown, vars, Handle, Main, StartTcp, StartFails, StartHttp, HttpListens,
     HttpListenFails, Signal, HttpDrained, HttpTimeout, Cancel, CloseListener,
     WaitReturns, CloseTopics, Exit, AcceptEnds, Accept, ReadRequest, ReadEnds, Return,
     Serve, Connect, Send, Leave, Break, HttpCall, HttpBody, HttpServe
<1>2. \A c \in Conns : conn[c].at = "none" /\ ~conn[c].open
  BY <1>1 DEF NobodyYet, RequestsKept
<1>3. httpd = "none" /\ ~tcp.listening /\ ~tcp.accepting
      /\ \A h \in Calls : call[h] = "none"
  BY <1>1 DEF HttpOrder, NobodyYet
<1> QED
  BY <1>1, <1>2, <1>3, ZenonT(60) DEF Next, Shutdown, vars, Handle, Main, StartTcp, StartFails,
     StartHttp, HttpListens, HttpListenFails, Signal, HttpDrained, HttpTimeout, Cancel,
     CloseListener, WaitReturns, CloseTopics, Exit, AcceptEnds, Accept, ReadRequest,
     ReadEnds, Serve, Connect, Send, Leave, Break, HttpCall, HttpBody, HttpServe

\* The process begins.
LEMMA BrokerInit == Init => BrokerInv
<1> SUFFICES ASSUME Init PROVE BrokerInv
  OBVIOUS
<1>1. ShapeInv
  <2>1. tcp \in TcpServer
    BY DEF Init, TcpServer
  <2>2. conn \in [Conns -> Connection]
    BY DEF Init, Connection
  <2> QED
    BY <2>1, <2>2 DEF Init, ShapeInv, Stages
<1>2. \A c \in Conns :
        /\ conn[c].at = "none" /\ ~conn[c].open
        /\ conn[c].sent = 0 /\ conn[c].answered = 0 /\ conn[c].unread = 0
  BY DEF Init
<1>3. NobodyYet /\ RequestsKept
  BY <1>2 DEF Init, NobodyYet, RequestsKept
<1>4. Handling = {} /\ tcp.wg = 0 /\ ~tcp.accepting
  BY <1>2 DEF Init, Handling
<1>5. WaitGroup /\ WaitedFor
  BY <1>4, FS_EmptySet DEF WaitGroup, WaitedFor, Acceptor
<1>6. HttpOrder
  BY DEF Init, HttpOrder, StrayOnlyIfLate
<1> QED
  BY <1>1, <1>3, <1>5, <1>6 DEF BrokerInv

\* The invariant behind the theorems below (main.go:26-77, server.go:37-93,
\* 212-219).
THEOREM BrokerInvariant == Spec => []BrokerInv
<1>1. BrokerInv /\ [Next]_vars => BrokerInv'
  BY ShapeStep, NobodyStep, WaitGroupStep, HttpStep, RequestsStep DEF BrokerInv
<1> QED
  BY <1>1, BrokerInit, PTL DEF Spec

\* The WaitGroup is the number of goroutines of the TCP server at all times: it
\* never goes below zero, which would end the process.
THEOREM WaitGroupCounts == Spec => []TypeOK
<1>1. BrokerInv => TypeOK
  <2> SUFFICES ASSUME BrokerInv PROVE TypeOK
    OBVIOUS
  <2>1. \A c \in Conns :
          conn[c].at \in {"none", "queued", "read", "serve", "ended", "reset"}
    BY DEF BrokerInv, ShapeInv, Connection
  <2> QED
    BY <2>1 DEF BrokerInv, ShapeInv, Stages, WaitGroup, Acceptor, TypeOK
<1> QED
  BY <1>1, BrokerInvariant, PTL

\* No goroutine of the TCP server is left when the topic manager is closed,
\* whenever connections come and the signal falls.
THEOREM FilesCloseLast == Spec => []TcpDrained
<1>1. BrokerInv => TcpDrained
  BY DEF BrokerInv, WaitedFor, TcpDrained
<1> QED
  BY <1>1, BrokerInvariant, PTL

\* A shutdown that ends has answered every request that reached the broker.
THEOREM RequestsAnswered == Spec => []EveryRequestAnswered
<1>1. BrokerInv => EveryRequestAnswered
  <2> SUFFICES ASSUME BrokerInv, NEW c \in Conns, conn[c].at = "ended", ~conn[c].broken
               PROVE  conn[c].answered = conn[c].sent
    BY DEF EveryRequestAnswered
  <2>1. conn[c].answered \in Nat
    BY ConnFields DEF BrokerInv
  <2> QED
    BY <2>1 DEF BrokerInv, RequestsKept
<1> QED
  BY <1>1, BrokerInvariant, PTL

\* Only a handler that outlived the five seconds meets the closed files.
THEOREM StraysAreLate == Spec => []StrayOnlyIfLate
<1>1. BrokerInv => StrayOnlyIfLate
  BY DEF BrokerInv, HttpOrder
<1> QED
  BY <1>1, BrokerInvariant, PTL
=============================================================================
