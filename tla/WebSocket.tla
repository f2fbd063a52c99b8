------------------------------- MODULE WebSocket -------------------------------
(***************************************************************************)
(* One websocket connection (appserver_websocket.cpp): the handshake, the   *)
(* upgrade, the callbacks of the socket, h2o_websocket_proceed, and an       *)
(* AppServerWebSocket that sends back what it receives (the echo socket),   *)
(* may send at other times and may close the connection.                    *)
(*                                                                         *)
(* Everything runs on the loop thread, but the code re-enters itself: a     *)
(* message is handed to the application from inside wslay_event_recv, and   *)
(* send_websocket_message calls h2o_websocket_proceed again.  `stack' holds *)
(* the calls in progress, innermost first; events of the loop come only     *)
(* when it is empty.                                                        *)
(*                                                                         *)
(* libuv, h2o sockets and wslay are outside this repository: they appear as *)
(* this code uses them.  A message of the peer is its number, a message the *)
(* application sends on its own is a negative number, and Close is wslay's  *)
(* close frame.  A message fills one write buffer.                          *)
(***************************************************************************)
EXTENDS Integers, Sequences, SequencesExt

CONSTANTS
    MaxMsgs,        \* bound: messages of the peer
    MaxPushes,      \* bound: messages that the application sends on its own
    MaxErrors,      \* bound: errors reported by h2o and wslay
    MaxBufs,        \* the number of buffers of _write_buf
    Chunk,          \* messages that wslay asks recv_callback for at a time
    Closes          \* messages on which the application may close the connection

Close == 0
PeerMsgs == 1 .. MaxMsgs
Phases == {"none", "generator", "upgraded", "open", "freed", "crashed"}

ASSUME BoundsAssumption ==
    /\ MaxMsgs \in Nat /\ MaxPushes \in Nat /\ MaxErrors \in Nat
    /\ MaxBufs \in Nat \ {0} /\ Chunk \in Nat \ {0}
    /\ Closes \subseteq PeerMsgs

VARIABLES
    phase,          \* none; then conn without ws_ctx, without sock, complete; the end
    object,         \* the AppServerWebSocket: none, live, deleted
    stack,          \* the calls in progress, innermost first
    arrived,        \* messages of the peer that have reached sock->input
    input,          \* sock->input
    ibuf,           \* what recv_callback has given to wslay and is not parsed
    outq,           \* wslay's queue of messages to send
    closeQueued,    \* wslay has a close frame to send
    readEnabled,    \* wslay_event_want_read
    writeEnabled,   \* FALSE once wslay has sent its close frame
    bufs,           \* conn->_write_buf.bufs[0 .. cnt)
    writing,        \* h2o_socket_is_writing
    reading,        \* h2o_socket_read_start is in force
    pushes,         \* messages the application has sent on its own
    errors,         \* errors so far
    accepted,       \* history: messages that wslay_event_queue_msg accepted
    wire,           \* history: what the peer has been sent
    freedBy,        \* history: how the connection was freed
    touched,        \* history: a call in progress used the connection once freed
    late            \* history: a message was delivered after the end

connVars == <<phase, object, freedBy>>
wslayVars == <<ibuf, outq, closeQueued, readEnabled, writeEnabled, accepted>>
sockVars == <<arrived, input, bufs, writing, reading, wire>>
appVars == <<pushes, errors>>
badVars == <<touched, late>>
vars == <<connVars, stack, wslayVars, sockVars, appVars, badVars>>

\* proceed: at the head of its loop; waiting: in the call of wslay_event_recv;
\* finish: behind the loop; recv: in the loop of wslay_event_recv.
Calls == {"proceed", "waiting", "finish", "recv"}

Data == PeerMsgs \cup {0 - i : i \in 1 .. MaxPushes}

TypeOK ==
    /\ phase \in Phases
    /\ object \in {"none", "live", "deleted"}
    /\ stack \in Seq(Calls)
    /\ arrived \in 0 .. MaxMsgs + 1
    /\ input \in Seq(PeerMsgs \cup {Close})
    /\ ibuf \in Seq(PeerMsgs \cup {Close})
    /\ outq \in Seq(Data)
    /\ closeQueued \in BOOLEAN /\ readEnabled \in BOOLEAN /\ writeEnabled \in BOOLEAN
    /\ bufs \in Seq(Data \cup {Close}) /\ Len(bufs) <= MaxBufs
    /\ writing \in BOOLEAN /\ reading \in BOOLEAN
    /\ pushes \in 0 .. MaxPushes
    /\ errors \in 0 .. MaxErrors
    /\ accepted \in Seq(Data)
    /\ wire \in Seq(Data \cup {Close})
    /\ freedBy \in {"none", "event", "nested", "callback", "generator", "early", "app"}
    /\ touched \in BOOLEAN /\ late \in BOOLEAN

Init ==
    /\ phase = "none"
    /\ object = "none"
    /\ stack = <<>>
    /\ arrived = 0
    /\ input = <<>>
    /\ ibuf = <<>>
    /\ outq = <<>>
    /\ closeQueued = FALSE
    /\ readEnabled = TRUE
    /\ writeEnabled = TRUE
    /\ bufs = <<>>
    /\ writing = FALSE
    /\ reading = FALSE
    /\ pushes = 0
    /\ errors = 0
    /\ accepted = <<>>
    /\ wire = <<>>
    /\ freedBy = "none"
    /\ touched = FALSE
    /\ late = FALSE

-------------------------------------------------------------------------------
(***************************************************************************)
(* Calls and the end of a connection.  Operators whose names carry a suffix *)
(* are mistaken variants of the operator that follows; no action uses them. *)
(***************************************************************************)
Error == errors < MaxErrors /\ errors' = errors + 1

\* h2o_websocket_close: sock, the write buffers, ws_ctx and conn are freed.
WebsocketClose(how) == phase' = "freed" /\ freedBy' = how

\* on_websocket_message(conn, NULL).  rest: the calls around the closing one.
MessageNull(rest) ==
    /\ WebsocketClose(IF rest = <<>> THEN "event" ELSE "nested")
    /\ object' = "deleted"

\* on_close, after which the closing call returns.
OnClose(rest) == MessageNull(rest) /\ stack' = rest

\* What a step that only closes the connection leaves alone.
CloseFrame == UNCHANGED <<wslayVars, sockVars, pushes, badVars>>

-------------------------------------------------------------------------------
(***************************************************************************)
(* The request.                                                             *)
(***************************************************************************)
Requests == [get : BOOLEAN, upgrade : BOOLEAN, key : {"none", "short", "ok"}]

\* h2o_is_websocket_handshake: its result, and whether it found a client key.
IsHandshake(req) ==
    IF ~ (req.get /\ req.upgrade) THEN [rv |-> 0, key |-> FALSE]
    ELSE IF req.key = "none" THEN [rv |-> 0, key |-> FALSE]
    ELSE IF req.key = "short" THEN [rv |-> -1, key |-> FALSE]
    ELSE [rv |-> 0, key |-> TRUE]

\* on_websocket_req: declined, or the first half of h2o_upgrade_to_websocket,
\* up to the call of the generator.
Request(req) ==
    /\ phase = "none"
    /\ LET h == IsHandshake(req) IN h.rv = 0 /\ h.key
    /\ phase' = "generator"
    /\ UNCHANGED <<object, freedBy, stack, wslayVars, sockVars, appVars, badVars>>

\* The generator has returned: the rest of h2o_upgrade_to_websocket.
Upgrade ==
    /\ phase = "generator"
    /\ phase' = "upgraded"
    /\ object' = "live"
    /\ UNCHANGED <<freedBy, stack, wslayVars, sockVars, appVars, badVars>>

\* The same of a connection that the application has closed in its generator:
\* conn->data and ws_ctx are set in freed memory, and the upgrade is started.
UpgradeFreed ==
    /\ phase = "freed" /\ freedBy = "generator" /\ object = "none"
    /\ object' = "live"
    /\ touched' = TRUE
    /\ UNCHANGED <<phase, freedBy, stack, wslayVars, sockVars, appVars, late>>

\* The next messages of the peer: the last one may be a close frame.
Arriving(k) == [i \in 1 .. k |->
                  IF arrived + i = MaxMsgs + 1 THEN Close ELSE arrived + i]

\* on_websocket_complete.  The peer may have sent messages with its request.
Complete ==
    /\ phase = "upgraded"
    /\ phase' = "open"
    /\ stack' = <<"proceed">>
    /\ \E k \in 0 .. MaxMsgs + 1 :
        /\ input' = Arriving(k)
        /\ arrived' = k
    /\ UNCHANGED <<object, freedBy, wslayVars, bufs, writing, reading, wire,
                   appVars, badVars>>

\* on_websocket_complete, of a connection that the application has closed.
CompleteFreed ==
    /\ phase = "freed" /\ freedBy \in {"generator", "early"} /\ object = "live"
    /\ touched' = TRUE
    /\ UNCHANGED <<connVars, stack, wslayVars, sockVars, appVars, late>>

CompleteError ==
    /\ phase = "upgraded"
    /\ Error
    /\ MessageNull(<<>>)
    /\ UNCHANGED stack
    /\ CloseFrame

-------------------------------------------------------------------------------
(***************************************************************************)
(* Events of the socket.                                                    *)
(***************************************************************************)
Idle == phase = "open" /\ stack = <<>>

\* on_recv, with what h2o has read into sock->input.
OnRecv ==
    /\ Idle
    /\ reading
    /\ \E k \in 1 .. MaxMsgs + 1 - arrived :
        /\ input' = input \o Arriving(k)
        /\ arrived' = arrived + k
    /\ stack' = <<"proceed">>
    /\ UNCHANGED <<connVars, wslayVars, bufs, writing, reading, wire, appVars,
                   badVars>>

OnRecvError ==
    /\ Idle
    /\ reading
    /\ Error
    /\ OnClose(<<>>)
    /\ CloseFrame

OnWriteComplete_KeepBuffers ==
    /\ Idle
    /\ writing
    /\ wire' = wire \o bufs
    /\ writing' = FALSE
    /\ stack' = <<"proceed">>
    /\ UNCHANGED <<connVars, wslayVars, arrived, input, bufs, reading, appVars,
                   badVars>>

\* on_write_complete.
OnWriteComplete ==
    /\ Idle
    /\ writing
    /\ wire' = wire \o bufs
    /\ bufs' = <<>>
    /\ writing' = FALSE
    /\ stack' = <<"proceed">>
    /\ UNCHANGED <<connVars, wslayVars, arrived, input, reading, appVars, badVars>>

OnWriteError ==
    /\ Idle
    /\ writing
    /\ Error
    /\ OnClose(<<>>)
    /\ CloseFrame

-------------------------------------------------------------------------------
(***************************************************************************)
(* h2o_websocket_proceed.                                                   *)
(***************************************************************************)
WantWrite == writeEnabled /\ (closeQueued \/ outq # <<>>)

\* send_callback refuses while a write is in progress or no buffer is free.
Room_OffByOne == IF writing THEN 0 ELSE MaxBufs + 1 - Len(bufs)
Room == IF writing THEN 0 ELSE MaxBufs - Len(bufs)

\* wslay_event_send: the close frame first, and nothing after it; otherwise the
\* queued messages, until send_callback refuses.
Send ==
    IF closeQueued /\ Room > 0
    THEN /\ bufs' = Append(bufs, Close)
         /\ closeQueued' = FALSE
         /\ writeEnabled' = FALSE
         /\ UNCHANGED outq
    ELSE LET n == IF Room < Len(outq) THEN Room ELSE Len(outq) IN
         /\ bufs' = bufs \o SubSeq(outq, 1, n)
         /\ outq' = SubSeq(outq, n + 1, Len(outq))
         /\ UNCHANGED <<closeQueued, writeEnabled>>

\* The first half of the loop asks for another round only while a buffer is free.
Handled_Always(sent) == sent
Handled(sent) == sent /\ Len(bufs') < MaxBufs

MaySend == ~ writing /\ WantWrite

\* One round of the loop, up to the call of wslay_event_recv if there is one.
Proceed_Loop ==
    /\ phase = "open"
    /\ stack # <<>> /\ Head(stack) = "proceed"
    /\ \/ MaySend /\ Send
       \/ ~ MaySend /\ UNCHANGED <<bufs, outq, closeQueued, writeEnabled>>
    /\ stack' =
         IF input # <<>> /\ readEnabled THEN <<"recv", "waiting">> \o Tail(stack)
         ELSE IF Handled(MaySend) THEN stack
         ELSE <<"finish">> \o Tail(stack)
    /\ UNCHANGED <<connVars, ibuf, readEnabled, accepted, arrived, input, writing,
                   reading, wire, appVars, badVars>>

\* wslay_event_send fails.
Proceed_SendError ==
    /\ phase = "open"
    /\ stack # <<>> /\ Head(stack) = "proceed"
    /\ MaySend
    /\ Error
    /\ OnClose(Tail(stack))
    /\ CloseFrame

\* h2o_socket_write of what the loop has collected.
StartWrite == ~ writing /\ bufs # <<>>

\* What keeps the connection open: a read, a write, or something to write.
GoesOn_Always == TRUE
GoesOn_BeforeWrite == readEnabled \/ writing \/ WantWrite
GoesOn_WhileQueued == readEnabled \/ writing' \/ closeQueued \/ outq # <<>>
GoesOn == readEnabled \/ writing' \/ WantWrite

\* Behind the loop.
Proceed_Finish ==
    /\ phase = "open"
    /\ stack # <<>> /\ Head(stack) = "finish"
    /\ writing' = (writing \/ StartWrite)
    /\ \/ /\ GoesOn
          /\ reading' = readEnabled
          /\ stack' = Tail(stack)
          /\ UNCHANGED connVars
       \/ /\ ~ GoesOn
          /\ OnClose(Tail(stack))
          /\ UNCHANGED reading
    /\ UNCHANGED <<wslayVars, arrived, input, bufs, wire, appVars, badVars>>

-------------------------------------------------------------------------------
(***************************************************************************)
(* wslay_event_recv, and the application.                                   *)
(***************************************************************************)
InRecv == phase = "open" /\ stack # <<>> /\ Head(stack) = "recv"

\* recv_callback with data: at most as much as wslay asks for.
Recv_Callback ==
    /\ InRecv
    /\ readEnabled /\ ibuf = <<>> /\ input # <<>>
    /\ LET n == IF Chunk < Len(input) THEN Chunk ELSE Len(input) IN
        /\ ibuf' = SubSeq(input, 1, n)
        /\ input' = SubSeq(input, n + 1, Len(input))
    /\ UNCHANGED <<connVars, stack, outq, closeQueued, readEnabled, writeEnabled,
                   accepted, arrived, bufs, writing, reading, wire, appVars, badVars>>

\* recv_callback says WSLAY_ERR_WOULDBLOCK, or a close frame has been read: back
\* to h2o_websocket_proceed, with handled = 1.
Recv_Return ==
    /\ InRecv
    /\ ~ readEnabled \/ (ibuf = <<>> /\ input = <<>>)
    /\ stack' = <<"proceed">> \o SubSeq(stack, 3, Len(stack))
    /\ UNCHANGED <<connVars, wslayVars, sockVars, appVars, badVars>>

\* wslay_event_recv fails.
Recv_Error ==
    /\ InRecv
    /\ Error
    /\ OnClose(SubSeq(stack, 3, Len(stack)))
    /\ CloseFrame

\* wslay_event_queue_msg: refused once a close frame is queued or sent.
Queue(m, closing) ==
    IF closing \/ ~ writeEnabled THEN UNCHANGED <<outq, accepted>>
    ELSE outq' = Append(outq, m) /\ accepted' = Append(accepted, m)

\* A message: on_msg_callback, on_websocket_message, and the echo socket, which
\* calls send_websocket_message.  wslay answers a close frame itself, and the
\* echo of it is refused, but h2o_websocket_proceed runs all the same.
Recv_Message ==
    /\ InRecv
    /\ readEnabled /\ ibuf # <<>>
    /\ ibuf' = Tail(ibuf)
    /\ \/ /\ Head(ibuf) = Close
          /\ readEnabled' = FALSE
          /\ closeQueued' = TRUE
          /\ UNCHANGED <<outq, accepted>>
       \/ /\ Head(ibuf) # Close
          /\ Queue(Head(ibuf), closeQueued)
          /\ UNCHANGED <<readEnabled, closeQueued>>
    /\ stack' = <<"proceed">> \o stack
    /\ UNCHANGED <<connVars, writeEnabled, sockVars, appVars, badVars>>

\* A message on which the application chooses to call close_websocket(): the
\* connection is freed under wslay_event_recv, and the object is the
\* application's to delete.
Recv_AppCloses ==
    /\ InRecv
    /\ readEnabled /\ ibuf # <<>>
    /\ Head(ibuf) \in Closes
    /\ ibuf' = Tail(ibuf)
    /\ WebsocketClose("callback")
    /\ UNCHANGED <<object, stack, outq, closeQueued, readEnabled, writeEnabled,
                   accepted, sockVars, appVars, badVars>>

\* A call in progress goes on with a connection that has been freed.  Whatever
\* it finds there, wslay_event_recv may go on to the next message it has.
UseFreed ==
    /\ phase = "freed"
    /\ stack # <<>>
    /\ touched' = TRUE
    /\ late' \in {late, late \/ (Head(stack) = "recv" /\ ibuf # <<>>)}
    /\ stack' = <<>>
    /\ UNCHANGED <<connVars, wslayVars, sockVars, appVars>>

\* send_websocket_message, from outside the callbacks (a timer, another
\* connection).  Without ws_ctx it does nothing; with ws_ctx and no socket,
\* h2o_websocket_proceed asks a null socket whether it is writing.
AppSend ==
    /\ phase \in {"generator", "upgraded", "open"}
    /\ stack = <<>>
    /\ pushes < MaxPushes
    /\ pushes' = pushes + 1
    /\ \/ phase = "generator" /\ UNCHANGED <<phase, outq, accepted, stack>>
       \/ /\ phase = "upgraded"
          /\ Queue(0 - pushes', closeQueued)
          /\ phase' = "crashed"
          /\ UNCHANGED stack
       \/ /\ phase = "open"
          /\ Queue(0 - pushes', closeQueued)
          /\ stack' = <<"proceed">>
          /\ UNCHANGED phase
    /\ UNCHANGED <<object, freedBy, ibuf, closeQueued, readEnabled, writeEnabled,
                   sockVars, errors, badVars>>

\* close_websocket(), from outside wslay's callbacks: in the generator, before
\* the upgrade is complete, or later.  The object is the application's to delete.
AppClose ==
    /\ phase \in {"generator", "upgraded"} \/ Idle
    /\ WebsocketClose(CASE phase = "generator" -> "generator"
                        [] phase = "upgraded" -> "early"
                        [] OTHER -> "app")
    /\ UNCHANGED <<object, stack, wslayVars, sockVars, appVars, badVars>>

-------------------------------------------------------------------------------
\* The steps of a call in progress, but for the errors of wslay.
CallStep ==
    \/ Proceed_Loop \/ Proceed_Finish
    \/ Recv_Callback \/ Recv_Return \/ Recv_Message \/ Recv_AppCloses
    \/ UseFreed

\* The connection is over, and so are its steps.
Done == phase \in {"freed", "crashed"} /\ stack = <<>> /\ UNCHANGED vars

Next ==
    \/ \E req \in Requests : Request(req)
    \/ Upgrade \/ UpgradeFreed \/ Complete \/ CompleteFreed \/ CompleteError
    \/ OnRecv \/ OnRecvError \/ OnWriteComplete \/ OnWriteError
    \/ CallStep \/ Proceed_SendError \/ Recv_Error
    \/ AppSend \/ AppClose
    \/ Done

Spec == Init /\ [][Next]_vars

(***************************************************************************)
(* Fairness: the loop thread goes on with the call it is in.  Of the        *)
(* environment it is assumed that a write ends, well or with an error: the  *)
(* code sets no timer on it, and a peer that keeps the connection but never *)
(* reads would delay it for ever.  Nothing is assumed of what the peer      *)
(* sends.                                                                   *)
(***************************************************************************)
Fairness == WF_vars(CallStep) /\ WF_vars(OnWriteComplete \/ OnWriteError)

FairSpec == Spec /\ Fairness

-------------------------------------------------------------------------------
(***************************************************************************)
(* Correctness.                                                             *)
(***************************************************************************)
IsData(m) == m # Close

\* What has been handed to the socket, and the messages in it: all but the
\* close frame that ends it.
Written == wire \o bufs
WithoutClose(s) ==
    IF s # <<>> /\ s[Len(s)] = Close THEN SubSeq(s, 1, Len(s) - 1) ELSE s

\* The peer's messages among the first n that wslay has accepted.
Echoes(n) == {accepted[i] : i \in 1 .. n} \cap PeerMsgs

\* The echo of a message is accepted when those of all earlier ones have been,
\* and none of a later one.
EchoesInOrder ==
    \A i \in 1 .. Len(accepted) :
        accepted[i] > 0 => Echoes(i - 1) = 1 .. accepted[i] - 1

\* What wslay has accepted is on the wire, in the buffers or queued, once and
\* in order.
SentInOrder == WithoutClose(Written) \o outq = accepted

\* A close frame that overtakes the queue is the last thing written.
CloseIsLast ==
    \A i \in 1 .. Len(Written) : Written[i] = Close => i = Len(Written)

\* However often h2o_websocket_proceed is re-entered, messages are accepted in
\* the peer's order and written in the order in which they were accepted, none
\* lost or repeated, and nothing follows the close frame.
NothingReordered == EchoesInOrder /\ SentInOrder /\ CloseIsLast

\* When the loop thread goes back to its events, an open connection waits for
\* one: nothing readable is left unread, nothing queued is left unsent while no
\* write is in progress, and a read or a write is outstanding.  A write is one
\* of something, as on_write_complete asserts.
NeverStuck ==
    Idle =>
        /\ reading \/ writing
        /\ WantWrite => writing
        /\ bufs # <<>> <=> writing
        /\ readEnabled => input = <<>> /\ ibuf = <<>> /\ reading

\* The end of the close handshake ("nothing is going on... close the socket") may
\* be reached in any call of h2o_websocket_proceed, those nested in
\* wslay_event_recv too, which would go on with a freed connection.  It is not:
\* only an error frees the connection under the calls around the one it is in.
HandshakeEndsOutside == freedBy = "nested" => errors > 0

\* The comment in h2o_websocket_proceed, "avoid infinite loop when user want
\* send more bufers count than ours": every call comes to an end.
CallsReturn == (stack # <<>>) ~> (stack = <<>>)

\* A message that was accepted is written in the end or the connection closed.
\* One that wslay's close frame has overtaken stays queued and is never written:
\* it must not keep the connection open.
AcceptedIsWritten ==
    \A k \in 1 .. MaxMsgs + MaxPushes :
        (Len(accepted) >= k) ~>
            \/ Len(SelectSeq(wire, IsData)) >= k
            \/ phase \in {"freed", "crashed"}

\* What send_websocket_message promises when "We aren't initalize yet...": it
\* returns without using the connection.
EarlySendIsIgnored == phase # "crashed"

\* What appserver_websocket.hpp says of close_websocket(): "You should not
\* receive websocket messages after calling close_websocket()".
NoMessageAfterClose == freedBy = "callback" => ~ late

-------------------------------------------------------------------------------
(***************************************************************************)
(* The inductive invariant.                                                 *)
(***************************************************************************)

\* Before on_websocket_complete there is no socket: nothing has been read,
\* queued or written, and no call is in progress.
EarlyInv ==
    phase \in {"none", "generator", "upgraded"} =>
        /\ stack = <<>> /\ arrived = 0 /\ input = <<>> /\ ibuf = <<>>
        /\ outq = <<>> /\ bufs = <<>> /\ wire = <<>> /\ accepted = <<>>
        /\ readEnabled /\ ~ writing

\* The calls nest as the code re-enters itself: wslay_event_recv is called by
\* h2o_websocket_proceed, and h2o_websocket_proceed by a callback of it or by
\* the loop.
WellNested(s) ==
    /\ s # <<>> => s[1] # "waiting" /\ s[Len(s)] # "recv"
    /\ \A i \in 1 .. Len(s) - 1 :
        s[i + 1] = IF s[i] = "recv" THEN "waiting" ELSE "recv"
CallInv == WellNested(stack)

\* A freed connection with calls in progress was freed under them.
FreedInv ==
    /\ phase = "freed" /\ stack # <<>> => freedBy \in {"nested", "callback"}
    /\ touched => phase = "freed"

\* Only a call around wslay_event_recv leaves messages with wslay, and the loop
\* of h2o_websocket_proceed ends with nothing left to read, and to send only
\* what needs another write.  The close frame read, the call around still has
\* its answer to send or to write.
LoopInv ==
    /\ writing => bufs # <<>>
    /\ phase = "open" /\ Len(stack) = 1 /\ readEnabled => ibuf = <<>>
    /\ phase = "open" /\ stack # <<>> /\ stack[1] = "finish" =>
        /\ readEnabled => input = <<>>
        /\ MaySend => bufs # <<>>
    /\ phase = "open" /\ Len(stack) > 1 /\ ~ readEnabled =>
          closeQueued \/ bufs # <<>>

\* wslay reads until it gets a close frame, and writes until it has sent one.
CloseInv ==
    /\ readEnabled => writeEnabled /\ ~ closeQueued
    /\ writeEnabled => \A i \in 1 .. Len(Written) : Written[i] # Close
    /\ ~ writeEnabled => /\ ~ closeQueued
                         /\ Written # <<>> /\ Written[Len(Written)] = Close

\* What is not parsed yet continues the peer's messages where wslay is in them.
Consumed == arrived - Len(ibuf) - Len(input)
PeerMsg(n) == IF n = MaxMsgs + 1 THEN Close ELSE n
StreamInv ==
    /\ Consumed >= 0
    /\ \A i \in 1 .. Len(ibuf) : ibuf[i] = PeerMsg(Consumed + i)
    /\ \A i \in 1 .. Len(input) : input[i] = PeerMsg(Consumed + Len(ibuf) + i)
    /\ phase = "open" /\ readEnabled => Echoes(Len(accepted)) = 1 .. Consumed

ControlInv ==
    /\ EarlyInv /\ CallInv /\ FreedInv /\ LoopInv
    /\ NeverStuck /\ HandshakeEndsOutside
DataInv == CloseInv /\ StreamInv /\ NothingReordered
Inv == TypeOK /\ ControlInv /\ DataInv

===============================================================================
