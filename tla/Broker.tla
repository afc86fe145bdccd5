------------------------------- MODULE Broker -------------------------------
(***************************************************************************)
(* The life of a broker process (broker/main.go): start, the TCP server's  *)
(* acceptor and one goroutine per connection (broker/network/server.go),   *)
(* the HTTP server (broker/api/http.go), and the shutdown a signal begins. *)
(*                                                                         *)
(* What a request does is left out (TopicManager, GroupManager, TcpSession *)
(* and Dashboard are about that): it is read, uses the topic manager, and  *)
(* is answered.  net/http is external: Shutdown refuses new requests and   *)
(* waits for those that run until its context ends.                        *)
(***************************************************************************)
EXTENDS Integers, FiniteSets

CONSTANTS
  Conns,        \* TCP clients, one connection each
  Calls,        \* HTTP requests
  Leaving,      \* the clients that close their connection some time
  MaxRequests   \* bound: the number of requests a TCP client sends

ASSUME BrokerAssumption == Leaving \subseteq Conns /\ MaxRequests \in Nat

VARIABLES
  main,        \* where main() is
  topicsOpen,  \* the files of the topic manager are open
  tcp,         \* Server: is the listener open, is ctx cancelled, does the
               \* acceptor run, the counter wg
  conn,        \* per connection: where its goroutine is, whether the client
               \* has it open, and how many requests were sent, are unread,
               \* were answered; broken when the network lost it
  httpd,       \* the goroutine in httpServer.Start
  call,        \* per HTTP request: where its handler is
  late,        \* Shutdown gave up waiting
  strayed      \* an HTTP handler used the topic manager after Close

http == <<httpd, call, late, strayed>>
vars == <<main, topicsOpen, tcp, conn, http>>

Alive == main \notin {"exit", "fatal"}

\* main moves on from one place to the next.
Main(from, to) == main = from /\ main' = to

-----------------------------------------------------------------------------
(* main: start.                                                             *)

\* The managers are open; tcpServer.Start listens and starts the acceptor.
StartTcp ==
  /\ Main("start", "listening")
  /\ topicsOpen' = TRUE
  /\ tcp' = [tcp EXCEPT !.listening = TRUE, !.accepting = TRUE, !.wg = 1]
  /\ UNCHANGED <<conn, http>>

\* log.Fatalf: a manager does not open, or the address is in use.
StartFails ==
  /\ Main("start", "fatal")
  /\ UNCHANGED <<topicsOpen, tcp, conn, http>>

\* The HTTP server gets a goroutine of its own, and signals are caught.
StartHttp ==
  /\ Main("listening", "up")
  /\ httpd' = "starting"
  /\ UNCHANGED <<topicsOpen, tcp, conn, call, late, strayed>>

\* ListenAndServe, which refuses when Shutdown was called before.
HttpListens ==
  /\ Alive
  /\ httpd = "starting"
  /\ httpd' = IF main = "up" THEN "serving" ELSE "closed"
  /\ UNCHANGED <<main, topicsOpen, tcp, conn, call, late, strayed>>

\* ListenAndServe fails: log.Fatalf ends the process, whoever is being served.
HttpListenFails ==
  /\ Alive
  /\ httpd = "starting"
  /\ main' = "fatal"
  /\ UNCHANGED <<topicsOpen, tcp, conn, http>>

-----------------------------------------------------------------------------
(* main: shutdown.  A second signal is caught like the first and ignored.   *)

Busy == \E h \in Calls : call[h] \in {"body", "serve"}

\* The signal comes and httpServer.Stop is called.
Signal ==
  /\ Main("up", "http")
  /\ httpd' = IF httpd = "serving" THEN "closed" ELSE httpd
  /\ UNCHANGED <<topicsOpen, tcp, conn, call, late, strayed>>

\* Mutant: http.Server.Close, which waits for no handler.
HttpClosed ==
  /\ Main("http", "cancel")
  /\ UNCHANGED <<topicsOpen, tcp, conn, http>>

HttpDrained ==
  /\ Main("http", "cancel")
  /\ ~Busy
  /\ UNCHANGED <<topicsOpen, tcp, conn, http>>

\* The five seconds are over; the error is logged.
HttpTimeout ==
  /\ Main("http", "cancel")
  /\ Busy
  /\ late' = TRUE
  /\ UNCHANGED <<topicsOpen, tcp, conn, httpd, call, strayed>>

\* tcpServer.Stop: the context first, then the listener, then wg.Wait.
Cancel ==
  /\ Main("cancel", "unlisten")
  /\ tcp' = [tcp EXCEPT !.done = TRUE]
  /\ UNCHANGED <<topicsOpen, conn, http>>

\* Mutant: Stop waits without closing the listener.
ListenerKept ==
  /\ Main("unlisten", "wait")
  /\ UNCHANGED <<topicsOpen, tcp, conn, http>>

\* Connections that nobody accepted are reset.
CloseListener ==
  /\ Main("unlisten", "wait")
  /\ tcp' = [tcp EXCEPT !.listening = FALSE]
  /\ conn' = [c \in Conns |-> IF conn[c].at = "queued"
                              THEN [conn[c] EXCEPT !.at = "reset", !.open = FALSE]
                              ELSE conn[c]]
  /\ UNCHANGED <<topicsOpen, http>>

WaitReturns ==
  /\ Main("wait", "close")
  /\ tcp.wg = 0
  /\ UNCHANGED <<topicsOpen, tcp, conn, http>>

\* topicMgr.Close: files closed, indexes unmapped.
CloseTopics ==
  /\ Main("close", "done")
  /\ topicsOpen' = FALSE
  /\ UNCHANGED <<tcp, conn, http>>

\* main returns and takes all goroutines with it.
Exit ==
  /\ Main("done", "exit")
  /\ UNCHANGED <<topicsOpen, tcp, conn, http>>

-----------------------------------------------------------------------------
(* The TCP server.                                                          *)

\* Mutant: the connection is not added to the WaitGroup.
AcceptUncounted(c) ==
  /\ Alive
  /\ tcp.accepting
  /\ conn[c].at = "queued"
  /\ conn' = [conn EXCEPT ![c].at = "read"]
  /\ UNCHANGED <<main, topicsOpen, tcp, http>>

Accept(c) ==
  /\ Alive
  /\ tcp.accepting
  /\ conn[c].at = "queued"
  /\ conn' = [conn EXCEPT ![c].at = "read"]
  /\ tcp' = [tcp EXCEPT !.wg = @ + 1]
  /\ UNCHANGED <<main, topicsOpen, http>>

\* Accept fails on the closed listener and finds the context cancelled; other
\* errors are logged and change nothing.
AcceptEnds ==
  /\ Alive
  /\ tcp.accepting
  /\ ~tcp.listening
  /\ tcp.done
  /\ tcp' = [tcp EXCEPT !.accepting = FALSE, !.wg = @ - 1]
  /\ UNCHANGED <<main, topicsOpen, conn, http>>

\* ReadRequest returns a request.
ReadRequest(c) ==
  /\ Alive
  /\ conn[c].at = "read"
  /\ conn[c].unread > 0
  /\ conn' = [conn EXCEPT ![c].at = "serve", ![c].unread = @ - 1]
  /\ UNCHANGED <<main, topicsOpen, tcp, http>>

\* The goroutine returns: conn.Close and wg.Done.
Return(c) ==
  /\ conn' = [conn EXCEPT ![c].at = "ended"]
  /\ tcp' = [tcp EXCEPT !.wg = @ - 1]
  /\ UNCHANGED <<main, topicsOpen, http>>

\* Mutant: a connection ends as soon as the context is cancelled.
EndsOnCancel(c) ==
  /\ Alive
  /\ conn[c].at = "read"
  /\ (conn[c].unread = 0 /\ ~conn[c].open) \/ tcp.done
  /\ Return(c)

\* ReadRequest finds the end of the stream or an error.
ReadEnds(c) ==
  /\ Alive
  /\ conn[c].at = "read"
  /\ conn[c].unread = 0 /\ ~conn[c].open
  /\ Return(c)

\* The handler uses a manager and writes the response; an error of the write
\* is not looked at.
Serve(c) ==
  /\ Alive
  /\ conn[c].at = "serve"
  /\ conn' = [conn EXCEPT ![c].at = "read", ![c].answered = @ + 1]
  /\ UNCHANGED <<main, topicsOpen, tcp, http>>

-----------------------------------------------------------------------------
(* TCP clients, and the network between.                                    *)

Connect(c) ==
  /\ Alive
  /\ tcp.listening
  /\ conn[c].at = "none"
  /\ conn' = [conn EXCEPT ![c].at = "queued", ![c].open = TRUE]
  /\ UNCHANGED <<main, topicsOpen, tcp, http>>

Send(c) ==
  /\ Alive
  /\ conn[c].open
  /\ conn[c].sent < MaxRequests
  /\ conn' = [conn EXCEPT ![c].sent = @ + 1, ![c].unread = @ + 1]
  /\ UNCHANGED <<main, topicsOpen, tcp, http>>

Leave(c) ==
  /\ conn[c].open
  /\ conn' = [conn EXCEPT ![c].open = FALSE]
  /\ UNCHANGED <<main, topicsOpen, tcp, http>>

\* What the server has not read is lost.
Break(c) ==
  /\ Alive
  /\ conn[c].open
  /\ conn' = [conn EXCEPT ![c].open = FALSE, ![c].unread = 0, ![c].broken = TRUE]
  /\ UNCHANGED <<main, topicsOpen, tcp, http>>

-----------------------------------------------------------------------------
(* HTTP handlers.                                                           *)

\* A request arrives; the handler first reads its body.
HttpCall(h) ==
  /\ Alive
  /\ httpd = "serving"
  /\ call[h] = "none"
  /\ call' = [call EXCEPT ![h] = "body"]
  /\ UNCHANGED <<main, topicsOpen, tcp, conn, httpd, late, strayed>>

HttpBody(h) ==
  /\ Alive
  /\ call[h] = "body"
  /\ call' = [call EXCEPT ![h] = "serve"]
  /\ UNCHANGED <<main, topicsOpen, tcp, conn, httpd, late, strayed>>

\* The handler uses a manager and answers.  Once the files are closed an Append
\* fails, and a lookup in an unmapped index ends the process.
HttpServe(h) ==
  /\ Alive
  /\ call[h] = "serve"
  /\ call' = [call EXCEPT ![h] = "done"]
  /\ strayed' = (strayed \/ ~topicsOpen)
  /\ main' \in IF topicsOpen THEN {main} ELSE {main, "fatal"}
  /\ UNCHANGED <<topicsOpen, tcp, conn, httpd, late>>

-----------------------------------------------------------------------------

Init ==
  /\ main = "start"
  /\ topicsOpen = FALSE
  /\ tcp = [listening |-> FALSE, done |-> FALSE, accepting |-> FALSE, wg |-> 0]
  /\ conn = [c \in Conns |-> [at |-> "none", open |-> FALSE, sent |-> 0,
                              unread |-> 0, answered |-> 0, broken |-> FALSE]]
  /\ httpd = "none"
  /\ call = [h \in Calls |-> "none"]
  /\ late = FALSE
  /\ strayed = FALSE

Shutdown ==
  \/ HttpDrained \/ HttpTimeout \/ Cancel \/ CloseListener \/ WaitReturns
  \/ CloseTopics \/ Exit

Handle(c) == ReadRequest(c) \/ ReadEnds(c) \/ Serve(c)

Next ==
  \/ StartTcp \/ StartFails \/ StartHttp \/ HttpListens \/ HttpListenFails
  \/ Signal \/ Shutdown \/ AcceptEnds
  \/ \E c \in Conns : Accept(c) \/ Handle(c)
  \/ \E c \in Conns : Connect(c) \/ Send(c) \/ Leave(c) \/ Break(c)
  \/ \E h \in Calls : HttpCall(h) \/ HttpBody(h) \/ HttpServe(h)

\* main, the acceptor and the goroutines of connections run on when they can,
\* and the five seconds pass.  HTTP handlers may take as long as they like, and
\* of the TCP clients only those in Leaving are known to go.
Fairness ==
  /\ WF_vars(Shutdown)
  /\ WF_vars(AcceptEnds)
  /\ \A c \in Conns : WF_vars(Handle(c))
  /\ \A c \in Leaving : WF_vars(Leave(c))

Spec == Init /\ [][Next]_vars /\ Fairness

-----------------------------------------------------------------------------

Handling == {c \in Conns : conn[c].at \in {"read", "serve"}}

\* Shapes of the variables; the WaitGroup counts the acceptor and the
\* connections' goroutines, so it never goes below zero (server.go:41-65).
TypeOK ==
  /\ main \in {"start", "listening", "up", "http", "cancel", "unlisten", "wait",
               "close", "done", "exit", "fatal"}
  /\ \A c \in Conns :
       conn[c].at \in {"none", "queued", "read", "serve", "ended", "reset"}
  /\ tcp.wg = Cardinality(Handling) + (IF tcp.accepting THEN 1 ELSE 0)

\* From the moment the topic manager is closed no goroutine of the TCP server
\* is left that could use it: Stop waits for connections accepted at any time
\* before the listener was closed (server.go:56-57, 212-219; main.go:68-74).
TcpDrained == main \in {"done", "exit"} => Handling = {} /\ ~tcp.accepting

\* A shutdown that runs to its end has answered every request that was sent
\* over an accepted connection and did not get lost on the way, also those that
\* were still unread when the signal came (server.go:67-92).
EveryRequestAnswered ==
  main = "exit" =>
    \A c \in Conns : conn[c].at = "ended" /\ ~conn[c].broken =>
                       conn[c].answered = conn[c].sent

\* An HTTP handler uses the closed topic manager only if it outlived the five
\* seconds that Shutdown was given (main.go:61-74).
StrayOnlyIfLate == strayed => late

\* The shutdown a signal begins comes to its end, or the process dies, if all
\* TCP clients leave some time, however long HTTP handlers run
\* (main.go:58-77, server.go:212-219).
ShutdownEnds == main = "http" ~> ~Alive
=============================================================================
