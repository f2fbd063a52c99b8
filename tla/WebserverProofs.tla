---------------------------- MODULE WebserverProofs ----------------------------
(***************************************************************************)
(* Proofs about Webserver, for every set of connection records and every     *)
(* choice of handlers that an application registers.                        *)
(***************************************************************************)
EXTENDS Webserver, TLAPS

\* main starts with nothing set up.
LEMMA InitInv == Init => Inv
  <1> SUFFICES ASSUME Init PROVE Inv
    OBVIOUS
  <1>1. NoRequest \in Requests
    BY DEF NoRequest, Requests, Paths
  <1>2. TypeOK
    <2>1. /\ record \in [Records -> BOOLEAN]
          /\ handle \in [Records -> {"none", "open", "closing"}]
          /\ stage \in [Records ->
                         {"none", "handler", "declined", "answered", "upgraded"}]
      BY Zenon DEF Init
    <2>2. request \in [Records -> Requests]
      BY <1>1, Zenon DEF Init
    <2>3. responses \in [Records -> 0 .. 1]
      BY DEF Init
    <2>4. /\ rv \in {0, -1, -4, -5}
          /\ handlers \subseteq DemoHandlers \cup AppHandlers
          /\ accept_ctx \in BOOLEAN
      BY DEF Init
    <2> QED
      BY <2>1, <2>2, <2>3, <2>4 DEF Init, TypeOK
  <1>3. StartInv /\ RequestInv /\ RecordLivesWithHandle /\ AnsweredOnce
    BY DEF Init, StartInv, RequestInv, RecordLivesWithHandle, AnsweredOnce
  <1> QED
    BY <1>2, <1>3 DEF Inv

\* What a handler returns fits what it has sent.
LEMMA ResultsFit ==
  ASSUME NEW req, NEW h, NEW r \in Results(h, req),
         h \in DemoHandlers \cup {"static_file", "static_object", "websocket"}
  PROVE  r = Taken \/ r = Declined
  BY DEF Results, PostTest, ChunkedTest, ReproxyTest, StaticFile, StaticObject,
         WebsocketReq, DemoHandlers

\* h2o finds a handler for every path.
LEMMA RouteFinds ==
  ASSUME NEW path \in Paths
  PROVE  Route(path) \in DemoHandlers \cup {"static_file", "static_object", "websocket"}
  BY DEF Route, Paths, DemoHandlers

\* The steps of start-up.
LEMMA MainInv ==
  ASSUME Inv, Main
  PROVE  Inv'
  <1> USE AppHandlersAssumption
      DEF Inv, TypeOK, StartInv, RequestInv, RecordLivesWithHandle, AnsweredOnce,
          connVars, reqVars
  <1>1. CASE LoopInit
    BY <1>1 DEF LoopInit
  <1>2. CASE Construct
    BY <1>2 DEF Construct
  <1>3. CASE DemoRegister
    BY <1>3 DEF DemoRegister
  <1>4. ASSUME NEW h \in AppHandlers, AppRegister(h)
        PROVE  Inv'
    BY <1>4 DEF AppRegister
  <1>5. ASSUME NEW r \in -3 .. 0, SetupSsl(r)
        PROVE  Inv'
    <2>1. SslContext(r) \in {"new", "certificate", "key", "complete"}
          /\ (r = 0 => SslContext(r) = "complete")
      <3>1. r = 0 \/ r = -1 \/ r = -2 \/ r = -3
        OBVIOUS
      <3> QED
        BY <3>1 DEF SslContext
    <2> QED
      BY <1>5, <2>1 DEF SetupSsl, SslOk
  <1>6. CASE SetAcceptCtx
    BY <1>6 DEF SetAcceptCtx
  <1>7. CASE CreateListener
    BY <1>7 DEF CreateListener
  <1>8. CASE CloseListener
    BY <1>8 DEF CloseListener
  <1>9. CASE Destroy
    BY <1>9 DEF Destroy
  <1>10. CASE LoopClose
    BY <1>10 DEF LoopClose
  <1> QED
    BY <1>1, <1>2, <1>3, <1>4, <1>5, <1>6, <1>7, <1>8, <1>9, <1>10 DEF Main

\* The life of a connection and of its requests.
LEMMA ConnectionInv ==
  ASSUME Inv, NEW c \in Records, Connection(c)
  PROVE  Inv'
  <1> USE DEF Inv, TypeOK, StartInv, RequestInv, RecordLivesWithHandle,
              AnsweredOnce, startVars, connVars, reqVars
  <1>1. CASE OnAccept(c)
    BY <1>1 DEF OnAccept, NewConnectionRecord
  <1>2. CASE OnAcceptFails(c)
    BY <1>2 DEF OnAcceptFails, NewConnectionRecord
  <1>3. CASE SocketClose(c)
    BY <1>3 DEF SocketClose, NoRequest, Requests, Paths
  <1>4. CASE CloseConnection(c)
    BY <1>4 DEF CloseConnection
  <1>5. ASSUME NEW req \in Requests, Receive(c, req)
        PROVE  Inv'
    BY <1>5 DEF Receive
  <1>6. CASE Handle(c)
    <2> DEFINE h == Route(request[c].path)
    <2>1. PICK r \in Results(h, request[c]) :
            /\ responses' = [responses EXCEPT ![c] = @ + r.sent]
            /\ stage' = [stage EXCEPT ![c] =
                 IF r.rv # 0 THEN "declined"
                 ELSE IF h = "websocket" THEN "upgraded" ELSE "answered"]
      BY <1>6 DEF Handle
    <2>2. request[c].path \in Paths
      BY DEF Requests
    <2>3. r = Taken \/ r = Declined
      BY <2>1, <2>2, RouteFinds, ResultsFit
    <2>4. (r.sent = 1 /\ r.rv = 0) \/ (r.sent = 0 /\ r.rv = -1)
      BY <2>3 DEF Taken, Declined
    <2>5. NoRequest \in Requests
      BY DEF NoRequest, Requests, Paths
    <2>6. stage[c] = "handler" /\ handle[c] = "open" /\ responses[c] = 0
      BY <1>6 DEF Handle
    <2>7. \/ responses'[c] = 1 /\ stage'[c] \in {"upgraded", "answered"}
          \/ responses'[c] = 0 /\ stage'[c] = "declined"
      BY <2>1, <2>4, <2>6
    <2>8. \A d \in Records \ {c} : responses'[d] = responses[d] /\ stage'[d] = stage[d]
      BY <2>1
    <2>9. request' \in [Records -> Requests]
      BY <1>6, <2>5 DEF Handle
    <2>10. responses' \in [Records -> 0 .. 1]
      BY <2>1, <2>7, <2>8
    <2>11. stage' \in [Records -> {"none", "handler", "declined", "answered", "upgraded"}]
      BY <2>1, <2>7, <2>8
    <2>12. UNCHANGED <<startVars, connVars>>
      BY <1>6 DEF Handle
    <2> QED
      BY <2>6, <2>7, <2>8, <2>9, <2>10, <2>11, <2>12
  <1>7. CASE NotFound(c)
    BY <1>7 DEF NotFound
  <1> QED
    BY <1>1, <1>2, <1>3, <1>4, <1>5, <1>6, <1>7 DEF Connection

\* The invariant holds in every reachable state.
THEOREM Invariance == Spec => []Inv
  <1>1. Inv /\ [Next]_vars => Inv'
    <2>1. Inv /\ UNCHANGED vars => Inv'
      BY DEF Inv, TypeOK, StartInv, RequestInv, RecordLivesWithHandle,
             AnsweredOnce, vars, startVars, connVars, reqVars
    <2> QED
      BY <2>1, MainInv, ConnectionInv DEF Next, Ended
  <1> QED
    BY InitInv, <1>1, PTL DEF Spec

\* Whatever fails in webserver_demo, on_accept runs only with a complete server.
THEOREM ReadyWhenAccepting == Spec => []AcceptsOnlyWhenReady
  <1>1. Inv => AcceptsOnlyWhenReady
    BY DEF Inv, StartInv, AcceptsOnlyWhenReady
  <1> QED
    BY <1>1, Invariance, PTL

\* A connection record is neither leaked nor freed early, with any number of
\* connections.
THEOREM RecordsAreExact == Spec => []RecordLivesWithHandle
  <1>1. Inv => RecordLivesWithHandle
    BY DEF Inv
  <1> QED
    BY <1>1, Invariance, PTL

\* Every request is answered once, whatever handlers are registered.
THEOREM OneAnswer == Spec => []AnsweredOnce
  <1>1. Inv => AnsweredOnce
    BY DEF Inv
  <1> QED
    BY <1>1, Invariance, PTL

===============================================================================
