-------------------------- MODULE DevToolsConnect --------------------------
(***************************************************************************)
(* DevToolsClientImpl over the transports of the repository.  The          *)
(* transport is a SyncWebSocket; the sockets are the test doubles of       *)
(* devtools_client_impl_unittest.cc and web_view_impl_unittest.cc and the   *)
(* StubSyncWebSocket, each a small scripted browser with its own faults: a *)
(* socket that never connects, one whose writes fail, one that runs dry,   *)
(* one that is lost at the first command and refuses the first reconnect,  *)
(* one whose reads return what the test tells them to, and three that keep *)
(* a handshake per session, emit an event for a session at every command   *)
(* and carry the messages of a second protocol inside those of the first.  *)
(*                                                                         *)
(* The root client owns the socket; a child attached to it is one session  *)
(* of the same socket.  A client connects, sends the two handshake         *)
(* commands of every session without waiting for their answers, and then   *)
(* serves SendCommand and HandleEventsUntil from one receive loop, one     *)
(* message per step.  What is read is handled for the session it names,    *)
(* whoever reads it.  A listener may send a command of its own when it is  *)
(* told of the connection or of an event, so calls nest: `calls` is the    *)
(* stack of the thread.  The                                               *)
(* EXPECT_ lines of the sockets and listeners are what the transport       *)
(* demands of the client; `failed` collects the ones a behaviour breaks.   *)
(***************************************************************************)
EXTENDS Integers, Sequences, SequencesExt

CONSTANTS
    SocketKinds,   \* the socket classes a behaviour may start with
    MaxId,         \* bound: the largest command id a client issues
    MaxSessionId,  \* bound: the same, on a socket that keeps sessions
    MaxViewId,     \* bound: the same, on a socket whose status the test sets
    Root,          \* the client with the socket
    Children,      \* the clients a test attaches to it
    SocketArg,     \* the session the factory binds to the socket it makes
    NumOnConnected,  \* the OnConnectedListeners of a test that has them
    None

ASSUME /\ MaxId \in Nat /\ MaxId >= 3
       /\ MaxSessionId \in 3..MaxId /\ MaxViewId \in 3..MaxId
       /\ Root \notin Children /\ SocketArg \in Children
       /\ NumOnConnected \in Nat

VARIABLES
    kind,                 \* the class the SyncWebSocketFactory creates
    sock,                 \* the members of the socket
    children_,            \* the children of the root, by what AttachTo did
    next_id_,             \* client -> the id of its next command
    response_info_map_,   \* client -> id -> ResponseInfo
    parser,               \* SetParserFuncForTesting; "default" is the real one
    first,                \* the bool the two-phase parsers are bound to
    calls,                \* the calls of the clients that run, innermost last
    status,               \* what the last call of the test returned
    result,               \* and its result
    listener,             \* the members of the listeners
    unnotified_connect_listeners_,  \* the listeners OnConnected is owed to
    closer_calls,         \* runs of the frontend closer
    failed                \* the expectations of the test doubles that broke

client == <<children_, next_id_, response_info_map_, calls, status, result,
            listener, unnotified_connect_listeners_, closer_calls>>
vars == <<kind, sock, parser, first, client, failed>>

Clients == {Root} \cup Children

-----------------------------------------------------------------------------
\* Messages, as ParseInspectorMessage tells them apart.

\* that is: an event or the response to a command, the session it names
\* (None when it names none), and of a response the result, of an event the
\* payload it carries for a binding.

Message(type, id, error, session, body) ==
    [type |-> type, id |-> id, error |-> error, session |-> session,
     body |-> body]

Event == Message("event", 0, FALSE, None, None)

Response(id, error) == Message("response", id, error, None, "param")

Unparsed == Message("bad", 0, FALSE, None, None)

CreateCdpEvent(session, payload) == Message("event", 0, FALSE, session, payload)

CreateCdpResponse(id, body, session) ==
    Message("response", id, FALSE, session, body)

\* A command as the sockets see it: the method, the ping of its params (None
\* for {param: 1}) and the command of the second protocol that its
\* expression carries.
Command(method, ping) == [method |-> method, ping |-> ping, bidi |-> None]

\* CreateBidiCommand, and the command PROTO.cdp.sendCommand with its
\* cdpMethod, cdpSession and cdpParams.
CreateBidiCommand(id, method, ping, session) ==
    [id |-> id, method |-> method, ping |-> ping, session |-> session]

\* An id no command has: expected_id + 100, and the -1 of HandleEventsUntil.
UnknownId == 0

AddScript == "Page.addScriptToEvaluateOnNewDocument"
RuntimeEvaluate == "Runtime.evaluate"
CdpSendCommand == "PROTO.cdp.sendCommand"

\* WrapBidiCommandInCdpCommand: Runtime.evaluate of onBidiMessage(command).
WrapBidiCommandInCdpCommand(bidi) ==
    [method |-> RuntimeEvaluate, ping |-> None, bidi |-> bidi]

\* WrapBidiResponseInCdpEvent: the event Runtime.bindingCalled of the
\* binding sendBidiResponse, for the session of the mapper.
WrapBidiResponseInCdpEvent(response, mapper_session) ==
    CreateCdpEvent(mapper_session,
                   [id |-> response.id, pong |-> response.body,
                    session |-> response.session])

Expect(held, name) == IF held THEN {} ELSE {name}

-----------------------------------------------------------------------------
\* The sockets.  Every operation gives the members after it, what it
\* returned and the expectations it broke.

SessionClasses ==
    {"MultiSessionMockSyncWebSocket", "MultiSessionMockSyncWebSocket2",
     "BidiMockSyncWebSocket"}

\* The MockSyncWebSocket of the tests of WebViewImpl, and its later revision.
ViewClasses == {"ViewMockSyncWebSocket", "ViewMockSyncWebSocketWithDeadline"}

Classes ==
    {"MockSyncWebSocket", "MockSyncWebSocket2", "MockSyncWebSocket3",
     "FakeSyncWebSocket", "OnConnectedSyncWebSocket", "MockSyncWebSocket5",
     "DisconnectedSyncWebSocket", "StubSyncWebSocket"}
        \cup SessionClasses \cup ViewClasses

Socket(send_returns) ==
    [connected_ |-> FALSE, handled |-> {}, connect_complete_ |-> FALSE,
     sesison_states_ |-> [c \in Clients |-> {}],
     queued_response_ |-> <<>>, connection_count_ |-> 0, command_count_ |-> 0,
     request_no_ |-> 0, send_returns_after_connect_ |-> send_returns,
     next_status_ |-> "kOk"]

\* SyncWebSocket::StatusCode.
StatusCodes == {"kOk", "kTimeout", "kDisconnected"}

Sent(s, ok, broke) == [s |-> s, ok |-> ok, broke |-> broke]

Got(s, code, message, broke) ==
    [s |-> s, code |-> code, message |-> message, broke |-> broke]

\* MockSyncWebSocket, the base of most of the others.

MockSyncWebSocket_Connect(s) == Sent([s EXCEPT !.connected_ = TRUE], TRUE, {})

Push(s, message) == [s EXCEPT !.queued_response_ = Append(@, message)]

EnqueueDefaultResponse(s, id) == Push(s, Response(id, FALSE))

\* The methods a MockSyncWebSocket takes for the handshake, and those a
\* StubSyncWebSocket does.
MockHandshake == {AddScript, RuntimeEvaluate}

StubHandshake == MockHandshake \cup {"Page.enable"}

\* A method of the handshake is answered once; a second one of it, or any
\* other method, gets no answer.
EnqueueHandshakeResponse(methods, s, id, method) ==
    LET handled == s.handled \cup {method}
        noted == [s EXCEPT !.handled = handled,
                           !.connect_complete_ = MockHandshake \subseteq handled]
    IN  IF method \in methods \ s.handled
        THEN Sent(EnqueueDefaultResponse(noted, id), TRUE, {})
        ELSE Sent(s, TRUE, {IF method \in methods THEN "HandshakeOnce"
                                                  ELSE "HandshakeMethod"})

PopMessage(s) ==
    IF s.queued_response_ = <<>>
    THEN Got(s, "kDisconnected", None, {})
    ELSE Got([s EXCEPT !.queued_response_ = Tail(@)], "kOk",
             Head(s.queued_response_), {})

\* The Send the classes share: a connected socket is expected; before the
\* handshake is complete the command is taken for one of it, after it the
\* class does what is its own.
SendTo(s, id, method, methods, own) ==
    LET open == Expect(s.connected_, "SendWhenConnected")
        sent == IF s.connect_complete_
                THEN own ELSE EnqueueHandshakeResponse(methods, s, id, method)
    IN  [sent EXCEPT !.broke = @ \cup open]

MockSyncWebSocket_Send(s, id, method) ==
    SendTo(s, id, method, MockHandshake,
           Sent(EnqueueDefaultResponse(s, id), TRUE,
                Expect(method = "method", "Method")))

MockSyncWebSocket_ReceiveNextMessage(s, expired) ==
    IF expired
    THEN Got(s, "kTimeout", None, {})
    ELSE [PopMessage(s) EXCEPT
              !.broke = Expect(s.queued_response_ # <<>>, "HasNextMessage")]

\* MockSyncWebSocket2 never connects.

MockSyncWebSocket2_Send(s) == Sent(s, FALSE, {"NeverSent"})

MockSyncWebSocket2_ReceiveNextMessage(s) ==
    Got(s, "kDisconnected", None, {"NeverReceived"})

\* MockSyncWebSocket3 answers the handshake and nothing after it.

MockSyncWebSocket3_Send(s, id, method) ==
    SendTo(s, id, method, MockHandshake,
           Sent(s, s.send_returns_after_connect_, {}))

\* FakeSyncWebSocket is opened once and always has something to read.

FakeSyncWebSocket_Connect(s) ==
    Sent([s EXCEPT !.connected_ = TRUE], TRUE,
         Expect(~s.connected_, "ConnectsOnce"))

FakeSyncWebSocket_Send(s, id, method) ==
    SendTo(s, id, method, MockHandshake, Sent(s, TRUE, {}))

FakeSyncWebSocket_ReceiveNextMessage(s) == [PopMessage(s) EXCEPT !.code = "kOk"]

\* OnConnectedSyncWebSocket follows every answer with an event.

OnConnectedSyncWebSocket_Send(s, id, method) ==
    SendTo(s, id, method, MockHandshake,
           Sent(Push(EnqueueDefaultResponse(s, id), Event), TRUE, {}))

\* MockSyncWebSocket5 takes everything and invents an event and then the
\* answers 1, 2, ...  Past MaxId every answer is one to a command never sent,
\* so request_no_ stops there.

MockSyncWebSocket5_ReceiveNextMessage(s) ==
    LET no == s.request_no_ IN
    Got([s EXCEPT !.request_no_ = IF no > MaxId THEN no ELSE no + 1], "kOk",
        IF no = 0 THEN Event ELSE Response(no, FALSE), {})

\* DisconnectedSyncWebSocket is lost at its first command and refuses the
\* connection after that.
DisconnectedSyncWebSocket_Connect(s) ==
    LET count == s.connection_count_ + 1 IN
    Sent([s EXCEPT !.connection_count_ = count, !.connected_ = (count # 2)],
         count # 2, {})

DisconnectedSyncWebSocket_Send(s, id, method) ==
    LET counted == [s EXCEPT !.command_count_ = @ + 1]
        dropped == [counted EXCEPT !.connected_ = FALSE, !.handled = {},
                                   !.connect_complete_ = FALSE,
                                   !.queued_response_ = <<>>]
    IN  SendTo(s, id, method, MockHandshake,
               IF counted.command_count_ = 1
               THEN Sent(dropped, FALSE, {})
               ELSE MockSyncWebSocket_Send(counted, id, method))

\* StubSyncWebSocket knows a third method of the handshake and answers any
\* command, with the answer of its handler or the default one.

StubSyncWebSocket_Send(s, id, method) ==
    SendTo(s, id, method, StubHandshake,
           Sent(EnqueueDefaultResponse(s, id), TRUE, {}))

StubSyncWebSocket_ReceiveNextMessage(s, expired) ==
    MockSyncWebSocket_ReceiveNextMessage(s, expired)

\* The MockSyncWebSocket of the tests of WebViewImpl answers every command,
\* the handshake like any other, and reads with the status the test has set:
\* with kOk and nothing queued the message is left empty.  Its later revision
\* looks at the deadline first.

ViewMock_Send(s, id) == Sent(EnqueueDefaultResponse(s, id), TRUE, {})

ViewMock_ReceiveNextMessage(s) ==
    IF s.next_status_ = "kOk" /\ s.queued_response_ # <<>>
    THEN PopMessage(s)
    ELSE Got(s, s.next_status_, None, {})

ViewMockWithDeadline_ReceiveNextMessage(s, expired) ==
    IF expired THEN Got(s, "kTimeout", None, {})
               ELSE ViewMock_ReceiveNextMessage(s)

\* MultiSessionMockSyncWebSocket keeps the handshake of every session, and
\* answers for the session that asked: a ping with its pong.

CreateDefaultCdpResponse(id, cmd, session) ==
    CreateCdpResponse(id, IF cmd.ping = None THEN "param" ELSE cmd.ping,
                      session)

MultiSession_EnqueueHandshakeResponse(s, c, id, method) ==
    IF method \in MockHandshake \ s.sesison_states_[c]
    THEN Sent(Push([s EXCEPT !.sesison_states_[c] = @ \cup {method}],
                   CreateCdpResponse(id, "param", c)), TRUE, {})
    ELSE Sent(s, FALSE, {IF method \in MockHandshake THEN "HandshakeOnce"
                                                       ELSE "HandshakeMethod"})

MultiSession_OnUserCommand(s, c, id, cmd) ==
    Sent(Push(s, CreateDefaultCdpResponse(id, cmd, c)), TRUE,
         Expect(cmd.method = "method", "Method"))

\* Send: the session of the command decides between handshake and command.
MultiSession_Send(s, c, id, cmd, own) ==
    LET open == Expect(s.connected_, "SendWhenConnected")
        sent == IF MockHandshake \subseteq s.sesison_states_[c]
                THEN own
                ELSE MultiSession_EnqueueHandshakeResponse(s, c, id, cmd.method)
    IN  [sent EXCEPT !.broke = @ \cup open]

\* An expired deadline counts only when nothing is queued.
MultiSession_ReceiveNextMessage(s, expired) ==
    IF s.queued_response_ = <<>> /\ expired
    THEN Got(s, "kTimeout", None, {})
    ELSE [PopMessage(s) EXCEPT
              !.broke = Expect(s.queued_response_ # <<>>, "HasNextMessage")]

\* MultiSessionMockSyncWebSocket2 puts an event for event_session_ before
\* every answer.

MultiSession2_OnUserCommand(s, c, id, cmd) ==
    MultiSession_OnUserCommand(Push(s, CreateCdpEvent(SocketArg, None)),
                               c, id, cmd)

\* BidiMockSyncWebSocket is the mapper as well: a Runtime.evaluate of
\* onBidiMessage(...) is answered at once, and the answer to the command
\* inside it follows as an event for wrapper_session_.  A command of the
\* first protocol sent through the second has a negative id.

\* The answer to a command of the second protocol goes out as an event.
BidiAnswer(s, id, bidi) ==
    Push(s, WrapBidiResponseInCdpEvent(
                CreateCdpResponse(id, IF bidi.ping = None THEN "param"
                                                          ELSE bidi.ping,
                                  bidi.session),
                SocketArg))

OnPureBidiCommand(s, bidi) ==
    Sent(BidiAnswer(s, bidi.id, bidi), TRUE,
         Expect(bidi.method = "method", "Method"))

\* The command of the first protocol is taken with the id negated, and
\* answered with the id it came with.
OnCdpOverBidiCommand(s, cmd_id, bidi) ==
    IF cmd_id >= 0 THEN Sent(BidiAnswer(s, -cmd_id, bidi), TRUE, {})
                   ELSE Sent(s, FALSE, {"NegativeId"})

OnBidiCommand(s, bidi) ==
    CASE bidi.method # CdpSendCommand -> OnPureBidiCommand(s, bidi)
      [] bidi.method = CdpSendCommand /\ bidi.id < 0 ->
           OnCdpOverBidiCommand(s, -bidi.id, bidi)
      [] OTHER -> Sent(s, FALSE, {"NegativeId"})

Bidi_OnUserCommand(s, c, id, cmd) ==
    IF cmd.bidi = None
    THEN MultiSession_OnUserCommand(s, c, id, cmd)
    ELSE [OnBidiCommand(Push(s, CreateCdpResponse(id, "undefined", c)),
                        cmd.bidi)
              EXCEPT !.broke = @ \cup Expect(c = SocketArg, "WrapperSession")]

\* The socket the factory made, by its class.

IsConnected(k, s) == k # "MockSyncWebSocket2" /\ s.connected_

Connect(k, s) ==
    CASE k = "MockSyncWebSocket2" -> Sent(s, FALSE, {})
      [] k = "FakeSyncWebSocket" -> FakeSyncWebSocket_Connect(s)
      [] k = "DisconnectedSyncWebSocket" -> DisconnectedSyncWebSocket_Connect(s)
      [] OTHER -> MockSyncWebSocket_Connect(s)

OnUserCommand(k, s, c, id, cmd) ==
    CASE k = "MultiSessionMockSyncWebSocket" ->
           MultiSession_OnUserCommand(s, c, id, cmd)
      [] k = "MultiSessionMockSyncWebSocket2" ->
           MultiSession2_OnUserCommand(s, c, id, cmd)
      [] k = "BidiMockSyncWebSocket" -> Bidi_OnUserCommand(s, c, id, cmd)

\* Send of the command cmd of client c, with the id it was given.
Send(k, s, c, id, cmd) ==
    CASE k = "MockSyncWebSocket" -> MockSyncWebSocket_Send(s, id, cmd.method)
      [] k = "MockSyncWebSocket2" -> MockSyncWebSocket2_Send(s)
      [] k = "MockSyncWebSocket3" -> MockSyncWebSocket3_Send(s, id, cmd.method)
      [] k = "FakeSyncWebSocket" -> FakeSyncWebSocket_Send(s, id, cmd.method)
      [] k = "OnConnectedSyncWebSocket" ->
           OnConnectedSyncWebSocket_Send(s, id, cmd.method)
      [] k = "MockSyncWebSocket5" -> Sent(s, TRUE, {})
      [] k = "DisconnectedSyncWebSocket" ->
           DisconnectedSyncWebSocket_Send(s, id, cmd.method)
      [] k = "StubSyncWebSocket" -> StubSyncWebSocket_Send(s, id, cmd.method)
      [] k \in ViewClasses -> ViewMock_Send(s, id)
      [] k \in SessionClasses ->
           MultiSession_Send(s, c, id, cmd, OnUserCommand(k, s, c, id, cmd))

ReceiveNextMessage(k, s, expired) ==
    CASE k \in {"MockSyncWebSocket", "DisconnectedSyncWebSocket"} ->
           MockSyncWebSocket_ReceiveNextMessage(s, expired)
      [] k = "StubSyncWebSocket" ->
           StubSyncWebSocket_ReceiveNextMessage(s, expired)
      [] k = "MockSyncWebSocket2" -> MockSyncWebSocket2_ReceiveNextMessage(s)
      [] k \in {"MockSyncWebSocket3", "OnConnectedSyncWebSocket"} ->
           PopMessage(s)
      [] k = "FakeSyncWebSocket" -> FakeSyncWebSocket_ReceiveNextMessage(s)
      [] k = "MockSyncWebSocket5" -> MockSyncWebSocket5_ReceiveNextMessage(s)
      [] k = "ViewMockSyncWebSocket" -> ViewMock_ReceiveNextMessage(s)
      [] k = "ViewMockSyncWebSocketWithDeadline" ->
           ViewMockWithDeadline_ReceiveNextMessage(s, expired)
      [] k \in SessionClasses -> MultiSession_ReceiveNextMessage(s, expired)

HasNextMessage(k, s) ==
    CASE k \in {"MockSyncWebSocket2", "MockSyncWebSocket3", "FakeSyncWebSocket"}
           -> TRUE
      [] k = "MockSyncWebSocket5" -> FALSE
      [] OTHER -> s.queued_response_ # <<>>

-----------------------------------------------------------------------------
\* The parsers a test may put in place of ParseInspectorMessage.

TwoPhase == {"ReturnUnexpectedIdThenResponse", "ReturnEventThenResponse"}

Parsers ==
    {"ReturnCommand", "ReturnBadResponse", "ReturnCommandBadId",
     "ReturnCommandError", "ReturnEvent", "ReturnError"} \cup TwoPhase

\* What the parser in place makes of a message for a caller that expects
\* expected_id.
Parse(message, expected_id) ==
    CASE parser = "default" -> IF message = None THEN Unparsed ELSE message
      [] parser = "ReturnCommand" -> Response(expected_id, FALSE)
      [] parser \in {"ReturnBadResponse", "ReturnError"} -> Unparsed
      [] parser = "ReturnCommandBadId" -> Response(UnknownId, FALSE)
      [] parser = "ReturnCommandError" -> Response(expected_id, TRUE)
      [] parser = "ReturnEvent" -> Event
      [] parser = "ReturnUnexpectedIdThenResponse" ->
           IF first THEN Response(UnknownId, TRUE)
                    ELSE Response(expected_id, FALSE)
      [] parser = "ReturnEventThenResponse" ->
           IF first THEN Event ELSE Response(expected_id, FALSE)

SetParserFuncForTesting(p) ==
    /\ calls = <<>>
    /\ kind \notin SessionClasses
    /\ parser # p
    /\ parser' = p
    /\ first' = TRUE
    /\ UNCHANGED <<kind, sock, client, failed>>


-----------------------------------------------------------------------------
\* The clients.

Ids == 1..MaxId

\* The largest id a client issues on the socket of the behaviour.
Bound ==
    CASE kind \in SessionClasses -> MaxSessionId
      [] kind \in ViewClasses -> MaxViewId
      [] OTHER -> MaxId

\* A ResponseInfo: its state, and the result it received.
Info(state, body) == [state |-> state, result |-> body]

NoInfo == Info("none", None)

Entry(c, id) == IF id \in Ids THEN response_info_map_[c][id] ELSE NoInfo

\* A call that runs: SendCommand of client c for the answer to id, or its
\* HandleEventsUntil(func).  `want` is the result the caller looks for in
\* the answer, `by` who called.
Frame(op, c, id, func, want, by) ==
    [op |-> op, client |-> c, id |-> id, func |-> func, want |-> want,
     by |-> by]

Idle == Frame("idle", Root, UnknownId, None, None, "test")

call == IF calls = <<>> THEN Idle ELSE Last(calls)

\* The clients that are not null: the root and the children attached to it.
Usable == {Root} \cup children_

\* The OnConnectedListeners of the root, in the order they were added; the
\* tests have them on an OnConnectedSyncWebSocket.
OnConnectedListeners ==
    IF kind = "OnConnectedSyncWebSocket" THEN 1..NumOnConnected ELSE {}

\* The listeners the tests add to a client: OnConnectedListeners to the
\* root, a PingingListener or a BidiEventListener to the client of the
\* session the socket was made for.
Listeners(c) ==
    CASE c = Root /\ OnConnectedListeners # {} -> {"OnConnectedListener"}
      [] c = SocketArg /\ kind = "MultiSessionMockSyncWebSocket2" ->
           {"PingingListener"}
      [] c = SocketArg /\ kind = "BidiMockSyncWebSocket" ->
           {"BidiEventListener"}
      [] OTHER -> {}

\* The ping of the PingingListener, and pong_ before the first answer.
kPing == "ping of the listener"
kNoPong == "ping + 1"

Breaks(names) == failed' = failed \cup names

\* A call of the test returns at once.
Returns(code) == status' = code /\ result' = None /\ calls' = <<>>

\* PingingListener::OnEvent after its command returned: it keeps the pong
\* and the loop that read the event goes on, or it fails and so does every
\* call below.
PingingListener_Pong(code, body, broke) ==
    LET pong == code = "kOk" /\ body \notin {None, "param", "undefined"} IN
    /\ Breaks(broke \cup Expect(code = "kOk", "PingReturnsOk")
                    \cup Expect(code # "kOk" \/ pong, "PongInResult"))
    /\ listener' = [listener EXCEPT !.pong_ = IF pong THEN body ELSE @]
    /\ IF pong
       THEN calls' = Front(calls) /\ UNCHANGED <<status, result>>
       ELSE /\ calls' = <<>> /\ result' = None
            /\ status' = IF code = "kOk" THEN "kUnknownError" ELSE code

\* OnConnectedListener::OnConnected returns what its command returned; an
\* error ends the notification and every call below.
OnConnectedListener_Returns(code, broke) ==
    /\ Breaks(broke)
    /\ UNCHANGED listener
    /\ IF code = "kOk"
       THEN calls' = Front(calls) /\ UNCHANGED <<status, result>>
       ELSE calls' = <<>> /\ result' = None /\ status' = code

\* The call on top returns: to the test, which has its status and result,
\* or to the listener that made it.
Return(code, body, broke) ==
    CASE call.by = "test" ->
           /\ status' = code /\ result' = body /\ calls' = <<>>
           /\ Breaks(broke)
           /\ UNCHANGED listener
      [] call.by = "PingingListener" -> PingingListener_Pong(code, body, broke)
      [] call.by = "OnConnectedListener" ->
           OnConnectedListener_Returns(code, broke)

\* SetUpDevTools: the two commands of the handshake of client c, each sent
\* with SendCommandAndIgnoreResponse; the second only when the first was
\* written.
SetUpDevTools(c, s) ==
    LET id == next_id_[c]
        a == Send(kind, s, c, id, Command(AddScript, None))
        b == Send(kind, a.s, c, id + 1, Command(RuntimeEvaluate, None))
    IN  IF a.ok
        THEN [s |-> b.s, ok |-> b.ok, used |-> 2,
              ignored |-> {id} \cup (IF b.ok THEN {id + 1} ELSE {}),
              broke |-> a.broke \cup b.broke]
        ELSE [s |-> a.s, ok |-> FALSE, used |-> 1, ignored |-> {},
              broke |-> a.broke]

NotSetUp == [used |-> 0, ignored |-> {}]

\* The remote ends of the clients cs are set up one after the other, until
\* one fails.
SetUpClients(s, cs) ==
    FoldLeft(LAMBDA all, c :
                 IF all.ok
                 THEN LET one == SetUpDevTools(c, all.s)
                      IN  [s |-> one.s, ok |-> one.ok,
                           of |-> [all.of EXCEPT ![c] = one],
                           broke |-> all.broke \cup one.broke]
                 ELSE all,
             [s |-> s, ok |-> TRUE, of |-> [c \in Clients |-> NotSetUp],
              broke |-> {}],
             cs)

\* What a set-up leaves in the clients: the ids it used, and the entries of
\* the commands whose answers nobody waits for.
SetUp(setup) ==
    /\ next_id_' = [c \in Clients |-> next_id_[c] + setup.of[c].used]
    /\ response_info_map_' =
           [c \in Clients |-> [id \in Ids |->
               IF id \in setup.of[c].ignored THEN Info("kIgnored", None)
                                             ELSE response_info_map_[c][id]]]

\* AttachTo makes a client that is null the child of parent, which has no
\* parent itself; on a connected parent the remote end of the child is set
\* up at once.
AttachTo(c, parent) ==
    LET setup == SetUpClients(sock, IF IsConnected(kind, sock) THEN <<c>>
                                                               ELSE <<>>)
    IN  /\ calls = <<>>
        /\ kind \in SessionClasses
        /\ c \in Children \ children_ /\ parent \in Usable
        /\ \/ /\ parent # Root
              /\ Returns("kUnknownError")
              /\ UNCHANGED <<sock, children_, next_id_, response_info_map_,
                             failed>>
           \/ /\ parent = Root
              /\ children_' = children_ \cup {c}
              /\ sock' = setup.s
              /\ SetUp(setup)
              /\ Breaks(setup.broke)
              /\ Returns(IF setup.ok THEN "kOk" ELSE "kDisconnected")
        /\ UNCHANGED <<kind, parser, first, listener,
                       unnotified_connect_listeners_, closer_calls>>

\* ConnectIfNecessary.  Nothing to do on a connected socket.  A refused
\* Connect is tried once more, and the frontend closer runs when that
\* second one succeeds; then the handshake of the root and of its children,
\* and OnConnected is owed to the listeners.
ConnectIfNecessary(c) ==
    LET opened == Connect(kind, sock)
        again == Connect(kind, opened.s)
        setup == SetUpClients(IF opened.ok THEN opened.s ELSE again.s,
                              <<Root>> \o SetToSeq(children_))
        owed == IF setup.ok THEN [l \in OnConnectedListeners |-> l] ELSE <<>>
    IN  /\ calls = <<>> /\ c \in Usable
        /\ \/ /\ IsConnected(kind, sock)
              /\ Returns("kOk")
              /\ UNCHANGED <<sock, next_id_, response_info_map_,
                             unnotified_connect_listeners_, closer_calls,
                             failed>>
           \/ /\ ~IsConnected(kind, sock)
              /\ ~opened.ok /\ ~again.ok
              /\ sock' = again.s
              /\ Breaks(opened.broke \cup again.broke)
              /\ Returns("kDisconnected")
              /\ UNCHANGED <<next_id_, response_info_map_,
                             unnotified_connect_listeners_, closer_calls>>
           \/ /\ ~IsConnected(kind, sock)
              /\ opened.ok \/ again.ok
              /\ \A u \in Usable : next_id_[u] + 1 <= Bound
              /\ next_id_[Root] + 1 + Len(owed) <= Bound
              /\ sock' = setup.s
              /\ Breaks(opened.broke \cup setup.broke
                            \cup (IF opened.ok THEN {} ELSE again.broke))
              /\ closer_calls' = closer_calls + (IF opened.ok THEN 0 ELSE 1)
              /\ SetUp(setup)
              /\ unnotified_connect_listeners_' = owed
              /\ IF owed = <<>>
                 THEN Returns(IF setup.ok THEN "kOk" ELSE "kDisconnected")
                 ELSE /\ calls' = <<Frame("ConnectIfNecessary", c, UnknownId,
                                          None, None, "test")>>
                      /\ UNCHANGED <<status, result>>
        /\ UNCHANGED <<kind, children_, parser, first, listener>>

\* The test sets the status the next reads of its socket return.
SetNexStatusCode(status_code) ==
    /\ calls = <<>>
    /\ kind \in ViewClasses
    /\ status_code # sock.next_status_
    /\ sock' = [sock EXCEPT !.next_status_ = status_code]
    /\ UNCHANGED <<kind, parser, first, client, failed>>

\* What a call on a socket that is not connected comes to.
NotConnected ==
    /\ ~IsConnected(kind, sock)
    /\ Returns("kDisconnected")
    /\ UNCHANGED <<kind, sock, children_, parser, first, next_id_,
                   response_info_map_, listener,
                   unnotified_connect_listeners_, closer_calls, failed>>

NextMessageId_Same(id) == id

\* next_id_++ of SendCommandInternal.
NextMessageId(id) == id + 1

\* The commands of the second protocol the tests wrap: one of its own, and
\* one that carries a command of the first for the session cdpSession.
BidiCommands ==
    {CreateBidiCommand(111, "method", "bidi ping", None),
     CreateBidiCommand(-111, CdpSendCommand, "bidi ping", Root)}

\* The commands the tests send on client c: "method" with {param: 1}, on a
\* socket with sessions also with a ping, on the mapper's also a wrapped one.
Commands(c) ==
    {Command("method", None)}
        \cup {Command("method", c) : k \in {kind} \cap SessionClasses}
        \cup {WrapBidiCommandInCdpCommand(b) :
                  b \in {b \in BidiCommands :
                            kind = "BidiMockSyncWebSocket" /\ c = SocketArg}}

\* The result the caller of cmd looks for.
Wanted(cmd) ==
    CASE cmd.bidi # None -> "undefined"
      [] cmd.ping # None -> cmd.ping
      [] OTHER -> "param"

\* The PingingListener of c has its command still to send.
Pings(c) == "PingingListener" \in Listeners(c) /\ ~listener.event_handled_

\* SendCommand, SendCommandAndGetResult and SendCommandAndIgnoreResponse of
\* the test, up to the write.  An id is kept for the listener.
SendCommand(c, wait_for_response, cmd) ==
    LET id == next_id_[c]
        written == Send(kind, sock, c, id, cmd)
        state == IF wait_for_response THEN "kWaiting" ELSE "kIgnored"
    IN  /\ calls = <<>> /\ c \in Usable
        /\ \/ NotConnected
           \/ /\ IsConnected(kind, sock)
              /\ id + (IF Pings(c) THEN 1 ELSE 0) <= Bound
              /\ sock' = written.s
              /\ next_id_' = [next_id_ EXCEPT ![c] = NextMessageId(id)]
              /\ Breaks(written.broke)
              /\ \/ /\ written.ok
                    /\ response_info_map_' =
                           [response_info_map_ EXCEPT ![c][id] = Info(state, None)]
                    /\ IF wait_for_response
                       THEN /\ calls' = <<Frame("SendCommand", c, id, None,
                                                Wanted(cmd), "test")>>
                            /\ UNCHANGED <<status, result>>
                       ELSE Returns("kOk")
                 \/ /\ ~written.ok
                    /\ Returns("kDisconnected")
                    /\ UNCHANGED response_info_map_
              /\ UNCHANGED <<kind, children_, parser, first, listener,
                             unnotified_connect_listeners_, closer_calls>>

\* The call on top is where ProcessNextMessage is called: in the loop of a
\* SendCommand that waits, or in the loop of HandleEventsUntil when the
\* socket has something to read.
InProcessNextMessage ==
    \/ call.op = "SendCommand" /\ Entry(call.client, call.id).state = "kWaiting"
    \/ call.op = "HandleEventsUntil" /\ HasNextMessage(kind, sock)

ReadyToRead_Always == TRUE

\* ProcessNextMessage reads when no listener is owed a notification.
ReadyToRead == unnotified_connect_listeners_ = <<>>

\* One turn of EnsureListenersNotifiedOfConnect, in ConnectIfNecessary or at
\* the head of ProcessNextMessage: the next listener is taken off the list
\* and OnConnectedListener::OnConnected sends its command and waits for the
\* answer, which is a call inside the call that runs.
OnConnected ==
    LET l == Head(unnotified_connect_listeners_)
        id == next_id_[Root]
        written == Send(kind, sock, Root, id, Command("OnConnected", None))
    IN  /\ unnotified_connect_listeners_ # <<>>
        /\ call.op = "ConnectIfNecessary" \/ InProcessNextMessage
        /\ unnotified_connect_listeners_' = Tail(unnotified_connect_listeners_)
        /\ listener' = [listener EXCEPT !.on_connected_called_ = @ \cup {l}]
        /\ sock' = written.s
        /\ next_id_' = [next_id_ EXCEPT ![Root] = NextMessageId(id)]
        /\ response_info_map_' =
               [response_info_map_ EXCEPT ![Root][id] = Info("kWaiting", None)]
        /\ calls' = Append(calls, Frame("SendCommand", Root, id, None, "param",
                                        "OnConnectedListener"))
        /\ Breaks(written.broke
                      \cup Expect(l \notin listener.on_connected_called_,
                                  "OnConnectedOnce")
                      \cup Expect(l \notin listener.on_event_called_,
                                  "OnConnectedFirst"))
        /\ UNCHANGED <<kind, children_, parser, first, status, result,
                       closer_calls>>

\* ConnectIfNecessary returns when every listener was told.
Connected ==
    /\ call.op = "ConnectIfNecessary"
    /\ unnotified_connect_listeners_ = <<>>
    /\ Returns("kOk")
    /\ UNCHANGED <<kind, sock, children_, parser, first, next_id_,
                   response_info_map_, listener,
                   unnotified_connect_listeners_, closer_calls, failed>>

ConditionalFuncs == {"AlwaysTrue", "AlwaysError"}

\* HandleEventsUntil, up to its loop; HandleReceivedEvents is the one with
\* a condition that is met.
HandleEventsUntil(c, conditional_func) ==
    /\ calls = <<>> /\ c \in Usable
    /\ \/ NotConnected
       \/ /\ IsConnected(kind, sock)
          /\ calls' = <<Frame("HandleEventsUntil", c, UnknownId,
                              conditional_func, None, "test")>>
          /\ UNCHANGED <<kind, sock, children_, parser, first, next_id_,
                         response_info_map_, status, result, listener,
                         unnotified_connect_listeners_, closer_calls,
                         failed>>

\* The loop of HandleEventsUntil asks the condition when the socket has
\* nothing to read.
ConditionAsked ==
    /\ call.op = "HandleEventsUntil"
    /\ ~HasNextMessage(kind, sock)
    /\ Return(IF call.func = "AlwaysTrue" THEN "kOk" ELSE "kUnknownError",
              None, {})
    /\ UNCHANGED <<kind, sock, children_, parser, first, next_id_,
                   response_info_map_, unnotified_connect_listeners_,
                   closer_calls>>

\* The loop of SendCommand ends when the answer was stored by a call that
\* ran inside it.
ResponseWasReceived ==
    LET info == Entry(call.client, call.id) IN
    /\ call.op = "SendCommand" /\ info.state = "kReceived"
    /\ response_info_map_' =
           [response_info_map_ EXCEPT ![call.client][call.id] = NoInfo]
    /\ Return(IF info.result = "error" THEN "kUnknownError" ELSE "kOk",
              info.result, {})
    /\ UNCHANGED <<kind, sock, children_, parser, first, next_id_,
                   unnotified_connect_listeners_, closer_calls>>

\* The entries of the map when a call gives up at its deadline: the entry of
\* the call stays, and takes the answer when that arrives.
TimedOut(c, id) == response_info_map_

HandleMessage_ToTheCaller(f, m) == f.client

\* HandleMessage: the client a message is for, whoever reads it: the child
\* of the session it names, the root when it names none or the root's own,
\* and nobody when it names a session no child has.
HandleMessage(f, m) ==
    CASE m.session \in Usable -> m.session
      [] m.session \in Children -> None
      [] OTHER -> Root

\* The calls, and what the test is told, when a step returns from nothing.
Goes == UNCHANGED <<calls, status, result>>

\* ProcessCommandResponse of client `to`: the entry the answer is for
\* decides.  An answer to no entry is passed over when it is an error, and
\* fails the call when not; the answer the call on top waits for ends it,
\* another one is stored.
ProcessCommandResponse(to, m, broke) ==
    LET info == Entry(to, m.id)
        mine == call.op = "SendCommand" /\ to = call.client /\ m.id = call.id
        body == IF m.error THEN "error" ELSE m.body
        put(new) == response_info_map_' =
                        [response_info_map_ EXCEPT ![to][m.id] = new]
    IN  \/ /\ info.state = "none"
           /\ UNCHANGED response_info_map_
           /\ IF m.error
              THEN Breaks(broke) /\ Goes /\ UNCHANGED listener
              ELSE Return("kUnknownError", None, broke)
        \/ /\ info.state = "kIgnored"
           /\ put(NoInfo)
           /\ Breaks(broke) /\ Goes /\ UNCHANGED listener
        \/ /\ info.state \in {"kWaiting", "kReceived"}
           /\ IF mine
              THEN /\ put(NoInfo)
                   /\ Return(IF m.error THEN "kUnknownError" ELSE "kOk", body,
                             broke)
              ELSE /\ put(Info("kReceived", body))
                   /\ Breaks(broke) /\ Goes /\ UNCHANGED listener

\* OnConnectedListener::OnEvent, of every such listener: it expects
\* OnConnected to have come first.
OnConnectedListener_OnEvent(l) ==
    [l |-> [l EXCEPT !.on_event_called_ = OnConnectedListeners],
     broke |-> Expect(OnConnectedListeners \subseteq l.on_connected_called_,
                      "OnConnectedFirst")]

\* BidiEventListener::OnEvent keeps the payload of a binding that was called.
BidiEventListener_OnEvent(l, m) ==
    IF m.body = None THEN l ELSE [l EXCEPT !.payload_list = Append(@, m.body)]

\* PingingListener::OnEvent, up to its command: the ping is sent for the
\* first event only, and its pong is waited for inside OnEvent.
PingingListener_OnEvent(to, s, broke) ==
    LET id == next_id_[to]
        written == Send(kind, s, to, id, Command("method", kPing))
    IN  /\ sock' = written.s
        /\ next_id_' = [next_id_ EXCEPT ![to] = NextMessageId(id)]
        /\ Breaks(broke \cup written.broke
                        \cup Expect(written.ok, "PingReturnsOk"))
        /\ IF written.ok
           THEN /\ response_info_map_' =
                       [response_info_map_ EXCEPT
                            ![to][id] = Info("kWaiting", None)]
                /\ calls' = Append(calls, Frame("SendCommand", to, id, None,
                                                kPing, "PingingListener"))
                /\ UNCHANGED <<status, result>>
           ELSE /\ Returns("kDisconnected")
                /\ UNCHANGED response_info_map_

\* ProcessEvent of client `to`: its listeners hear the event.
ProcessEvent(to, m, got) ==
    LET has(class) == class \in Listeners(to)
        connected == IF has("OnConnectedListener")
                     THEN OnConnectedListener_OnEvent(listener)
                     ELSE [l |-> listener, broke |-> {}]
        bidi == IF has("BidiEventListener")
                THEN BidiEventListener_OnEvent(connected.l, m)
                ELSE connected.l
        broke == got.broke \cup connected.broke
    IN  /\ listener' = [bidi EXCEPT !.event_handled_ = @ \/ has("PingingListener")]
        /\ IF Pings(to)
           THEN PingingListener_OnEvent(to, got.s, broke)
           ELSE /\ sock' = got.s
                /\ Breaks(broke)
                /\ Goes
                /\ UNCHANGED <<next_id_, response_info_map_>>

\* ProcessNextMessage: one message of the socket, for the loop that runs.  A
\* call of a listener has no deadline.
ProcessNextMessage(expired) ==
    LET f == call
        got == ReceiveNextMessage(kind, sock, expired)
        m == Parse(got.message, f.id)
        to == HandleMessage(f, m)
    IN  /\ InProcessNextMessage
        /\ ReadyToRead
        /\ expired => f.by = "test"
        /\ first' = (first /\ (got.code # "kOk" \/ parser \notin TwoPhase))
        /\ \/ /\ got.code = "kTimeout"
              /\ sock' = got.s
              /\ response_info_map_' = TimedOut(f.client, f.id)
              /\ Return("kTimeout", None, got.broke)
              /\ UNCHANGED <<next_id_>>
           \/ /\ got.code = "kDisconnected"
              /\ sock' = got.s
              /\ response_info_map_' = [c \in Clients |-> [id \in Ids |-> NoInfo]]
              /\ Return("kDisconnected", None, got.broke)
              /\ UNCHANGED next_id_
           \/ /\ got.code = "kOk" /\ m.type = "bad"
              /\ sock' = got.s
              /\ Return("kUnknownError", None, got.broke)
              /\ UNCHANGED <<next_id_, response_info_map_>>
           \/ /\ got.code = "kOk" /\ m.type # "bad" /\ to = None
              /\ sock' = got.s
              /\ Breaks(got.broke) /\ Goes
              /\ UNCHANGED <<next_id_, response_info_map_, listener>>
           \/ /\ got.code = "kOk" /\ m.type = "event" /\ to # None
              /\ ProcessEvent(to, m, got)
           \/ /\ got.code = "kOk" /\ m.type = "response" /\ to # None
              /\ sock' = got.s
              /\ ProcessCommandResponse(to, m, got.broke)
              /\ UNCHANGED <<next_id_>>
        /\ UNCHANGED <<kind, children_, parser, unnotified_connect_listeners_,
                       closer_calls>>

-----------------------------------------------------------------------------

\* The constructors: the clients of Ctor1 and Ctor2, none attached, the
\* socket the factory makes and the listeners of the test.
Init ==
    /\ kind \in SocketKinds
    /\ \E b \in BOOLEAN :
           /\ kind # "MockSyncWebSocket3" => b
           /\ sock = Socket(b)
    /\ children_ = {}
    /\ next_id_ = [c \in Clients |-> 1]
    /\ response_info_map_ = [c \in Clients |-> [id \in Ids |-> NoInfo]]
    /\ parser = "default" /\ first = TRUE
    /\ calls = <<>>
    /\ status = "kOk" /\ result = None
    /\ unnotified_connect_listeners_ = <<>>
    /\ listener = [on_connected_called_ |-> {}, on_event_called_ |-> {},
                   event_handled_ |-> FALSE, pong_ |-> kNoPong,
                   payload_list |-> <<>>]
    /\ closer_calls = 0
    /\ failed = {}

Next ==
    \/ \E c \in Children, parent \in Clients : AttachTo(c, parent)
    \/ \E c \in Clients : ConnectIfNecessary(c)
    \/ \E c \in Clients, wait_for_response \in BOOLEAN :
           \E cmd \in Commands(c) : SendCommand(c, wait_for_response, cmd)
    \/ \E c \in Clients, conditional_func \in ConditionalFuncs :
           HandleEventsUntil(c, conditional_func)
    \/ OnConnected
    \/ Connected
    \/ ConditionAsked
    \/ ResponseWasReceived
    \/ \E expired \in BOOLEAN : ProcessNextMessage(expired)
    \/ \E p \in Parsers : SetParserFuncForTesting(p)
    \/ \E status_code \in StatusCodes : SetNexStatusCode(status_code)

Spec == Init /\ [][Next]_vars

-----------------------------------------------------------------------------

Bodies == {None, "param", "undefined", "error", "bidi ping", kPing} \cup Clients

Payloads == [id : {111, -111}, pong : Bodies, session : Clients \cup {None}]

\* A message of a queue: an event carries a payload or nothing, a response
\* its result.
IsMessage(m) ==
    /\ DOMAIN m = {"type", "id", "error", "session", "body"}
    /\ m.type \in {"event", "response", "bad"}
    /\ m.id \in 0..(MaxId + 1)
    /\ m.error \in BOOLEAN
    /\ m.session \in Clients \cup {None}
    /\ IF m.type = "event" THEN m.body = None \/ m.body \in Payloads
                           ELSE m.body \in Bodies

TypeOK ==
    /\ kind \in SocketKinds
    /\ [sock EXCEPT !.queued_response_ = <<>>] \in
           [connected_ : BOOLEAN,
            handled : SUBSET StubHandshake,
            connect_complete_ : BOOLEAN,
            sesison_states_ : [Clients -> SUBSET MockHandshake],
            queued_response_ : {<<>>},
            connection_count_ : Nat, command_count_ : Nat,
            request_no_ : 0..(MaxId + 1),
            send_returns_after_connect_ : BOOLEAN,
            next_status_ : StatusCodes]
    /\ \A i \in DOMAIN sock.queued_response_ : IsMessage(sock.queued_response_[i])
    /\ children_ \subseteq Children
    /\ next_id_ \in [Clients -> 1..(MaxId + 1)]
    /\ response_info_map_ \in
           [Clients -> [Ids -> [state : {"none", "kWaiting", "kIgnored",
                                         "kReceived"},
                                result : Bodies]]]
    /\ parser \in Parsers \cup {"default"}
    /\ first \in BOOLEAN
    /\ calls \in Seq([op : {"ConnectIfNecessary", "SendCommand",
                            "HandleEventsUntil"},
                      client : Clients, id : 0..MaxId,
                      func : ConditionalFuncs \cup {None}, want : Bodies,
                      by : {"test", "PingingListener", "OnConnectedListener"}])
    /\ status \in {"kOk", "kDisconnected", "kTimeout", "kUnknownError"}
    /\ result \in Bodies
    /\ unnotified_connect_listeners_ \in Seq(OnConnectedListeners)
    /\ listener \in [on_connected_called_ : SUBSET OnConnectedListeners,
                     on_event_called_ : SUBSET OnConnectedListeners,
                     event_handled_ : BOOLEAN, pong_ : {kNoPong} \cup Bodies,
                     payload_list : Seq(Payloads)]
    /\ closer_calls \in Nat
    /\ failed \subseteq
           {"ConnectsOnce", "HandshakeOnce", "HandshakeMethod", "Method",
            "SendWhenConnected", "NeverSent", "NeverReceived",
            "HasNextMessage", "OnConnectedFirst", "OnConnectedOnce", "NegativeId",
            "WrapperSession", "PingReturnsOk", "PongInResult"}
    \* every command waited for or ignored has been issued, by a client that
    \* is not null
    /\ \A c \in Clients, id \in Ids :
           response_info_map_[c][id].state # "none"
               => id < next_id_[c] /\ c \in Usable
    \* the calls nest by a listener only, and each waits for a command issued
    /\ \A i \in DOMAIN calls :
           /\ calls[i].by = "test" <=> i = 1
           /\ calls[i].op = "SendCommand"
                  => calls[i].id < next_id_[calls[i].client]

\* With the real parser no expectation of a socket or a listener breaks,
\* whatever the calls and the deadlines: the client writes to a connected
\* socket only (EXPECT_TRUE(connected_) in Send), sends each method of the
\* handshake once per connection and per session and nothing else before it
\* is complete (EnqueueHandshakeResponse), reads only when an answer is
\* queued (EXPECT_TRUE(HasNextMessage()) in ReceiveNextMessage), tells a
\* listener of the connection before any event (OnConnectedListener::OnEvent)
\* and gives the command a listener sends from inside OnEvent its answer
\* (EXPECT_EQ(kOk, status.code()) in PingingListener::OnEvent).
ExpectationsHold == parser = "default" => failed = {}

\* The sockets that answer every command.
Answering == {"MockSyncWebSocket", "StubSyncWebSocket"} \cup SessionClasses

\* The binding events in a queue of the socket.
Bindings(s) ==
    SelectSeq(s.queued_response_, LAMBDA m : m.type = "event" /\ m.body # None)

\* What is read reaches the session it is for, whoever reads it and
\* whenever.  With the real parser, on a socket that answers every command,
\* a SendCommand of the test returns kOk or kTimeout, never the "unexpected
\* command response" of ProcessCommandResponse: not when the answer of a
\* command that gave up at its deadline arrives during a later call, and
\* not when another session has a command with the same id.  Its result is
\* the answer to its own command: the pong of its ping (the EXPECT_EQ of
\* RoutingTwoChildren and RoutingWithEvent).  The PingingListener gets the
\* pong of its ping while the command of another client waits (Pong() of
\* RoutingWithEvent), and a payload of the mapper that is read is kept by
\* the BidiEventListener (payload_list of BidiCommand).
EveryAnswerFindsItsCommand ==
    [][parser = "default" /\ kind \in Answering
       => /\ (/\ calls # <<>> /\ calls' = <<>>
              /\ calls[1].op = "SendCommand")
                 => /\ status' \in {"kOk", "kTimeout"}
                    /\ status' = "kOk" => result' = calls[1].want
          /\ listener'.pong_ \in {kNoPong, kPing}
          /\ Len(Bindings(sock')) < Len(Bindings(sock))
                 => Len(listener'.payload_list) > Len(listener.payload_list)
      ]_vars

=============================================================================
