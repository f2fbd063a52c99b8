------------------------------- MODULE Webserver -------------------------------
(***************************************************************************)
(* main, webserver_demo and H2O_Webserver (appserver.cpp,                   *)
(* webserver_demo.cpp, webserver.cpp, webserver_handler.cpp and             *)
(* webserver_staticfile_handler.cpp): the start of the server with its error *)
(* paths, the records of the listener and of the connections, and the       *)
(* request handlers.                                                        *)
(*                                                                         *)
(* Start-up is one thread before the loop runs; afterwards everything is a  *)
(* callback of the loop.  libuv, h2o and OpenSSL are outside this repository *)
(* and appear as this code uses them.  The listener is never closed, so     *)
(* uv_run does not return.  Access logs and header fields are left out.     *)
(***************************************************************************)
EXTENDS Integers

CONSTANTS
    Records,        \* memory that malloc hands out for a uv_tcp_t
    AppHandlers     \* handlers an application registers besides the demo's

DemoHandlers == {"post_test", "chunked_test", "reproxy_test", "file"}

ASSUME AppHandlersAssumption ==
    AppHandlers \subseteq {"static_file", "static_object", "websocket"}

VARIABLES
    pc,             \* where main is; "run" inside uv_run
    rv,             \* the result of main
    handlers,       \* the handlers registered with hostconf
    ssl_ctx,        \* what accept_ctx.ssl_ctx has been given
    accept_ctx,     \* accept_ctx.ctx and accept_ctx.hosts are set
    listener,       \* the ListenerRecord of create_listener and its handle
    record,         \* TRUE for a uv_tcp_t that has been allocated
    handle,         \* what libuv knows of it
    request,        \* the request that a connection handles
    stage,          \* how far that request is
    responses       \* responses sent to it

startVars == <<pc, rv, handlers, ssl_ctx, accept_ctx, listener>>
connVars == <<record, handle>>
reqVars == <<request, stage, responses>>
vars == <<startVars, connVars, reqVars>>

(***************************************************************************)
(* Requests.  A path stands for those that lead to the same handler; the    *)
(* one with the slash is what post_test wants to see.  handshake: the       *)
(* headers that on_websocket_req asks for are there.                        *)
(***************************************************************************)
Paths == {"/", "/post-test", "/post-test/", "/chunked-test", "/reproxy-test",
          "/static_file", "/static_object", "/websocket"}
Requests == [path : Paths, method : {"GET", "POST"}, handshake : BOOLEAN]
NoRequest == [path |-> "/", method |-> "GET", handshake |-> FALSE]

TypeOK ==
    /\ pc \in {"loop_init", "construct", "register", "setup_ssl", "accept_ctx",
               "listen", "close_listener", "run", "destroy", "loop_close",
               "returned", "crashed"}
    /\ rv \in {0, -1, -4, -5}
    /\ handlers \subseteq DemoHandlers \cup AppHandlers
    /\ ssl_ctx \in {"none", "new", "certificate", "key", "complete"}
    /\ accept_ctx \in BOOLEAN
    /\ listener \in {"none", "init", "bound", "listening"}
    /\ record \in [Records -> BOOLEAN]
    /\ handle \in [Records -> {"none", "open", "closing"}]
    /\ request \in [Records -> Requests]
    /\ stage \in [Records -> {"none", "handler", "declined", "answered", "upgraded"}]
    /\ responses \in [Records -> 0 .. 1]

Init ==
    /\ pc = "loop_init"
    /\ rv = 0
    /\ handlers = {}
    /\ ssl_ctx = "none"
    /\ accept_ctx = FALSE
    /\ listener = "none"
    /\ record = [c \in Records |-> FALSE]
    /\ handle = [c \in Records |-> "none"]
    /\ request = [c \in Records |-> NoRequest]
    /\ stage = [c \in Records |-> "none"]
    /\ responses = [c \in Records |-> 0]

-------------------------------------------------------------------------------
(***************************************************************************)
(* main and webserver_demo.  Operators whose names carry a suffix are       *)
(* mistaken variants of the operator that follows; no action uses them.     *)
(***************************************************************************)

\* uv_loop_init; without a loop there is no server.
LoopInit ==
    /\ pc = "loop_init"
    /\ \/ pc' = "construct" /\ UNCHANGED rv
       \/ pc' = "loop_close" /\ rv' = -1
    /\ UNCHANGED <<handlers, ssl_ctx, accept_ctx, listener, connVars, reqVars>>

\* H2O_Webserver(loop).
Construct ==
    /\ pc = "construct"
    /\ pc' = "register"
    /\ UNCHANGED <<rv, handlers, ssl_ctx, accept_ctx, listener, connVars, reqVars>>

\* An application's own register_static_file_handler, WebServerStaticFileHandler
\* or register_websocket.
AppRegister(h) ==
    /\ pc = "register"
    /\ handlers' = handlers \cup {h}
    /\ UNCHANGED <<pc, rv, ssl_ctx, accept_ctx, listener, connVars, reqVars>>

\* The registrations of webserver_demo.
DemoRegister ==
    /\ pc = "register"
    /\ handlers' = handlers \cup DemoHandlers
    /\ pc' = "setup_ssl"
    /\ UNCHANGED <<rv, ssl_ctx, accept_ctx, listener, connVars, reqVars>>

\* setup_ssl: what ssl_ctx holds with each result.
SslContext(result) ==
    CASE result = 0  -> "complete"
      [] result = -1 -> "new"
      [] result = -2 -> "certificate"
      [] result = -3 -> "key"

\* webserver_demo gives up when setup_ssl has failed.
SslOk_Ignored(result) == TRUE
SslOk(result) == result = 0

SetupSsl(result) ==
    /\ pc = "setup_ssl"
    /\ ssl_ctx' = SslContext(result)
    /\ \/ SslOk(result) /\ pc' = "accept_ctx" /\ UNCHANGED rv
       \/ ~ SslOk(result) /\ pc' = "destroy" /\ rv' = -5
    /\ UNCHANGED <<handlers, accept_ctx, listener, connVars, reqVars>>

SetAcceptCtx ==
    /\ pc = "accept_ctx"
    /\ accept_ctx' = TRUE
    /\ pc' = "listen"
    /\ UNCHANGED <<rv, handlers, ssl_ctx, listener, connVars, reqVars>>

\* create_listener: uv_tcp_bind and uv_listen, either of which may fail.
CreateListener ==
    /\ pc = "listen"
    /\ \/ listener' \in {"init", "bound"} /\ pc' = "close_listener"
       \/ listener' = "listening" /\ pc' = "run"
    /\ UNCHANGED <<rv, handlers, ssl_ctx, accept_ctx, connVars, reqVars>>

\* uv_close gets the address of the local pointer.  Reading it as a handle,
\* libuv stops the process or leaves the real handle and its record as they are.
CloseListener ==
    /\ pc = "close_listener"
    /\ \/ pc' = "crashed" /\ UNCHANGED rv
       \/ pc' = "destroy" /\ rv' = -4
    /\ UNCHANGED <<handlers, ssl_ctx, accept_ctx, listener, connVars, reqVars>>

\* ~H2O_Webserver: the context is gone, and with it the registrations.
Destroy ==
    /\ pc = "destroy"
    /\ handlers' = {}
    /\ accept_ctx' = FALSE
    /\ pc' = "loop_close"
    /\ UNCHANGED <<rv, ssl_ctx, listener, connVars, reqVars>>

\* uv_loop_close, whose result is not looked at, and the return of main.
LoopClose ==
    /\ pc = "loop_close"
    /\ pc' = "returned"
    /\ UNCHANGED <<rv, handlers, ssl_ctx, accept_ctx, listener, connVars, reqVars>>

-------------------------------------------------------------------------------
(***************************************************************************)
(* Connections.                                                             *)
(***************************************************************************)
NewConnectionRecord(c) == ~ record[c] /\ record' = [record EXCEPT ![c] = TRUE]

\* on_accept, when uv_accept succeeds: the socket is h2o's.
OnAccept(c) ==
    /\ pc = "run"
    /\ NewConnectionRecord(c)
    /\ handle' = [handle EXCEPT ![c] = "open"]
    /\ stage' = [stage EXCEPT ![c] = "none"]
    /\ UNCHANGED <<startVars, request, responses>>

OnAcceptFails_FreedAtOnce(c) ==
    /\ pc = "run"
    /\ ~ record[c]
    /\ handle' = [handle EXCEPT ![c] = "closing"]
    /\ UNCHANGED <<startVars, record, reqVars>>

\* on_accept, when uv_accept fails: libuv keeps the handle until it calls back.
OnAcceptFails(c) ==
    /\ pc = "run"
    /\ NewConnectionRecord(c)
    /\ handle' = [handle EXCEPT ![c] = "closing"]
    /\ UNCHANGED <<startVars, reqVars>>

\* h2o closes its socket: end of the connection, timeout, failed TLS handshake,
\* or h2o_websocket_close.
SocketClose(c) ==
    /\ handle[c] = "open"
    /\ handle' = [handle EXCEPT ![c] = "closing"]
    /\ stage' = [stage EXCEPT ![c] = "none"]
    /\ request' = [request EXCEPT ![c] = NoRequest]
    /\ responses' = [responses EXCEPT ![c] = 0]
    /\ UNCHANGED <<startVars, record>>

\* close_connection, the callback of uv_close.
CloseConnection(c) ==
    /\ handle[c] = "closing"
    /\ handle' = [handle EXCEPT ![c] = "none"]
    /\ record' = [record EXCEPT ![c] = FALSE]
    /\ UNCHANGED <<startVars, reqVars>>

-------------------------------------------------------------------------------
(***************************************************************************)
(* Requests.  A handler that returns 0 has taken the request; with -1, h2o  *)
(* looks for another one and in the end answers itself.                     *)
(***************************************************************************)
Taken == [rv |-> 0, sent |-> 1]
Declined == [rv |-> -1, sent |-> 0]

StaticFile_FallsThrough(req) ==
    IF req.method = "GET" THEN [rv |-> -1, sent |-> 1] ELSE Declined

\* static_file_handler.
StaticFile(req) == IF req.method = "GET" THEN Taken ELSE Declined

\* WebServerStaticFileHandler::on_request, behind on_req_trampoline.
StaticObject(req) == IF req.method = "GET" THEN Taken ELSE Declined

PostTest(req) ==
    IF req.method = "POST" /\ req.path = "/post-test/" THEN Taken ELSE Declined

ChunkedTest(req) == IF req.method = "GET" THEN Taken ELSE Declined
ReproxyTest(req) == IF req.method = "GET" THEN Taken ELSE Declined

\* on_websocket_req: h2o_upgrade_to_websocket sends the answer, 101.
WebsocketReq(req) ==
    IF req.method = "GET" /\ req.handshake THEN Taken ELSE Declined

\* h2o's choice of the path that matches; "/" matches every path.
Route(path) ==
    CASE path \in {"/post-test", "/post-test/"} -> "post_test"
      [] path = "/chunked-test" -> "chunked_test"
      [] path = "/reproxy-test" -> "reproxy_test"
      [] path = "/static_file" /\ "static_file" \in handlers -> "static_file"
      [] path = "/static_object" /\ "static_object" \in handlers -> "static_object"
      [] path = "/websocket" /\ "websocket" \in handlers -> "websocket"
      [] OTHER -> "file"

\* What the handler may do; h2o's file handler answers if there is a file.
Results(h, req) ==
    CASE h = "post_test" -> {PostTest(req)}
      [] h = "chunked_test" -> {ChunkedTest(req)}
      [] h = "reproxy_test" -> {ReproxyTest(req)}
      [] h = "static_file" -> {StaticFile(req)}
      [] h = "static_object" -> {StaticObject(req)}
      [] h = "websocket" -> {WebsocketReq(req)}
      [] h = "file" -> {Taken, Declined}

Receive(c, req) ==
    /\ handle[c] = "open"
    /\ stage[c] \in {"none", "answered"}
    /\ request' = [request EXCEPT ![c] = req]
    /\ responses' = [responses EXCEPT ![c] = 0]
    /\ stage' = [stage EXCEPT ![c] = "handler"]
    /\ UNCHANGED <<startVars, connVars>>

\* The on_req of the handler.  A websocket takes the connection for itself.
Handle(c) ==
    LET h == Route(request[c].path) IN
    /\ stage[c] = "handler"
    /\ \E r \in Results(h, request[c]) :
        /\ responses' = [responses EXCEPT ![c] = @ + r.sent]
        /\ stage' = [stage EXCEPT ![c] =
             IF r.rv # 0 THEN "declined"
             ELSE IF h = "websocket" THEN "upgraded" ELSE "answered"]
    /\ request' = [request EXCEPT ![c] = NoRequest]
    /\ UNCHANGED <<startVars, connVars>>

\* h2o's own answer to a request that nobody took.
NotFound(c) ==
    /\ stage[c] = "declined"
    /\ responses' = [responses EXCEPT ![c] = @ + 1]
    /\ stage' = [stage EXCEPT ![c] = "answered"]
    /\ UNCHANGED <<startVars, connVars, request>>

-------------------------------------------------------------------------------
Connection(c) ==
    \/ OnAccept(c) \/ OnAcceptFails(c) \/ SocketClose(c) \/ CloseConnection(c)
    \/ \E req \in Requests : Receive(c, req)
    \/ Handle(c) \/ NotFound(c)

Main ==
    \/ LoopInit \/ Construct \/ DemoRegister
    \/ \E h \in AppHandlers : AppRegister(h)
    \/ \E r \in -3 .. 0 : SetupSsl(r)
    \/ SetAcceptCtx \/ CreateListener \/ CloseListener \/ Destroy \/ LoopClose

\* The process is over.
Ended == pc \in {"returned", "crashed"} /\ UNCHANGED vars

Next == Main \/ (\E c \in Records : Connection(c)) \/ Ended

Spec == Init /\ [][Next]_vars

-------------------------------------------------------------------------------
(***************************************************************************)
(* Correctness.                                                             *)
(***************************************************************************)

\* h2o_accept uses accept_ctx as it finds it: whatever failed during start-up, a
\* connection is accepted only with certificate, key and ciphers in place, the
\* context and hosts set, and the handlers registered.
AcceptsOnlyWhenReady ==
    \A c \in Records : handle[c] = "open" =>
        /\ ssl_ctx = "complete"
        /\ accept_ctx
        /\ DemoHandlers \subseteq handlers

\* The memory of a connection lives exactly as long as libuv knows its handle,
\* also when uv_accept fails: nothing is leaked, freed twice or freed before
\* uv_close has called back.
RecordLivesWithHandle == \A c \in Records : record[c] <=> handle[c] # "none"

\* Every request gets one answer: a handler that sends one says so by its
\* result, and one that declines has sent nothing before h2o answers.
AnsweredOnce ==
    \A c \in Records :
        /\ stage[c] \in {"answered", "upgraded"} => responses[c] = 1
        /\ stage[c] \in {"handler", "declined"} => responses[c] = 0

-------------------------------------------------------------------------------
(***************************************************************************)
(* The inductive invariant.                                                 *)
(***************************************************************************)

\* How far start-up is says what is in place, and before uv_run there are no
\* connections.
StartInv ==
    /\ pc \in {"setup_ssl", "accept_ctx", "listen", "close_listener", "run"} =>
          DemoHandlers \subseteq handlers
    /\ pc \in {"accept_ctx", "listen", "close_listener", "run"} =>
          ssl_ctx = "complete"
    /\ pc \in {"listen", "close_listener", "run"} => accept_ctx
    /\ pc # "run" => \A c \in Records : handle[c] = "none"

\* Only an open connection has a request.
RequestInv == \A c \in Records : handle[c] # "open" => stage[c] = "none"

Inv ==
    TypeOK /\ StartInv /\ RequestInv /\ RecordLivesWithHandle /\ AnsweredOnce

===============================================================================
