----------------------------- MODULE HttpServer -----------------------------
(***************************************************************************)
(* The HTTP and WebSocket front end (server/http_server.cc).               *)
(*                                                                         *)
(* net::HttpServer calls OnConnect, OnHttpRequest, OnWebSocketRequest,     *)
(* OnWebSocketMessage and OnClose on the IO thread.  A request that        *)
(* RequestIsSafeToServe lets through goes to handle_request_func_, which   *)
(* runs the command on the command thread and answers through OnResponse,  *)
(* bound to a weak pointer of the server.  Upgrades and closes are posted  *)
(* to the HttpHandler on the same command thread.                          *)
(*                                                                         *)
(* `client`, `asked` and `served` are history variables.                   *)
(***************************************************************************)
EXTENDS Integers, Sequences, FiniteSets, SequencesExt

CONSTANTS
    Connections,    \* connection ids of net::HttpServer, never reused
    Addresses,      \* IP addresses an origin header may name
    Whitelists,     \* the lists of addresses the server may be built with
    Paths,          \* request paths after url_base_, split at "/"
    MaxRequests,    \* bound on the requests and messages the server gets
    NoHeader,       \* a header that is absent (GetHeaderValue gives "")
    Localhost,      \* a value net::IsLocalhost accepts
    Hostname        \* a remote name ParseURLHostnameToAddress cannot parse

ASSUME /\ MaxRequests \in Nat
       /\ Whitelists \subseteq SUBSET Addresses

VARIABLES
    server_,        \* "null", "failed" (null after Start), "listening",
                    \* "destroyed"
    allow_remote_,
    whitelisted_ips_,
    connection_to_session_map,
    socket,         \* net::HttpServer's view of a connection
    cmd_tasks,      \* tasks posted to cmd_runner_, oldest first
    io_tasks,       \* response callbacks posted back to the IO thread
    replies,        \* what server_ was told to send, per connection
    client,         \* history: the upgrade AcceptWebSocket took: its path,
                    \* and whether RequestIsSafeToServe accepts its headers
    asked,          \* history: requests and messages received
    served          \* history: the call of handle_request_func_ the last
                    \* step made, if it made one

options == <<allow_remote_, whitelisted_ips_>>
threads == <<cmd_tasks, io_tasks>>
vars == <<server_, options, connection_to_session_map, socket, threads,
          replies, client, asked, served>>

Origin == {NoHeader, Localhost, Hostname} \cup Addresses
Host == {NoHeader, Localhost, Hostname}

\* What the handlers read of a net::HttpServerRequestInfo.
HttpRequest == [origin : Origin, host : Host, close : BOOLEAN]
UpgradeRequest == [origin : Origin, host : Host, base : BOOLEAN, parts : Paths]

\* The request OnWebSocketMessage builds has no headers.
NoHeaders == [origin |-> NoHeader, host |-> NoHeader]

kCreateWebSocketPath == <<"session", ":sessionId">>

-----------------------------------------------------------------------------

\* A remote origin needs allow_remote and, when there is a whitelist, an
\* address on it; a local origin, or no remote access, needs a local host
\* header or none.
RequestIsSafeToServe(info, allow_remote, whitelisted_ips) ==
    /\ info.origin \notin {NoHeader, Localhost} =>
           /\ allow_remote
           /\ whitelisted_ips # {} =>
                  info.origin \in Addresses \cap whitelisted_ips
    /\ info.origin = Localhost \/ ~allow_remote =>
           info.host \in {NoHeader, Localhost}

\* server_->Send500 and server_->SendResponse; net::HttpServer skips a
\* connection it no longer has.
SendResponse(c, code) ==
    IF socket[c] \in {"http", "websocket"}
    THEN [replies EXCEPT ![c] = Append(@, code)] ELSE replies

HandleRequest(c, keep_alive) ==
    [kind |-> "HandleRequest", conn |-> c, keep_alive |-> keep_alive]

\* allow_remote_ is set whether or not the socket can listen.
Start(allow_remote, listening) ==
    /\ server_ = "null"
    /\ allow_remote_' = allow_remote
    /\ server_' = IF listening THEN "listening" ELSE "failed"
    /\ served' = {}
    /\ UNCHANGED <<whitelisted_ips_, connection_to_session_map, socket,
                   threads, replies, client, asked>>

OnConnect(c) ==
    /\ server_ = "listening"
    /\ socket[c] = "none"
    /\ socket' = [socket EXCEPT ![c] = "http"]
    /\ served' = {}
    /\ UNCHANGED <<server_, options, connection_to_session_map, threads,
                   replies, client, asked>>

Serve_NoReturn(c, info, keep_alive, request) ==
    /\ replies' = IF RequestIsSafeToServe(info, allow_remote_, whitelisted_ips_)
                  THEN replies ELSE SendResponse(c, 500)
    /\ cmd_tasks' = Append(cmd_tasks, HandleRequest(c, keep_alive))
    /\ served' = {request}

\* The body of OnHttpRequest: 500, or handle_request_func_ with the callback
\* that answers.  `request` is what the history keeps of the call.
Serve(c, info, keep_alive, request) ==
    \/ /\ ~RequestIsSafeToServe(info, allow_remote_, whitelisted_ips_)
       /\ replies' = SendResponse(c, 500)
       /\ served' = {}
       /\ UNCHANGED cmd_tasks
    \/ /\ RequestIsSafeToServe(info, allow_remote_, whitelisted_ips_)
       /\ cmd_tasks' = Append(cmd_tasks, HandleRequest(c, keep_alive))
       /\ served' = {request}
       /\ UNCHANGED replies

\* A request or message arrives on connection c, open in the given state.
Receive(c, state) ==
    /\ server_ = "listening"
    /\ socket[c] = state
    /\ FoldFunction(+, 0, asked) < MaxRequests
    /\ asked' = [asked EXCEPT ![c] = @ + 1]
    /\ UNCHANGED <<server_, options, io_tasks>>

OnHttpRequest(c, info) ==
    /\ Receive(c, "http")
    /\ Serve(c, info, ~info.close,
             [conn |-> c, via |-> "http", session |-> NoHeader,
              origin |-> info.origin, host |-> info.host])
    /\ UNCHANGED <<connection_to_session_map, socket, client>>

\* path_parts has the shape of kCreateWebSocketPath: as many parts, and the
\* same part wherever the pattern has none that starts with ":".
Matches(parts) ==
    /\ Len(parts) = Len(kCreateWebSocketPath)
    /\ \A i \in DOMAIN parts :
           kCreateWebSocketPath[i] \in {":sessionId", parts[i]}

SessionIdOf_FirstPart(parts) == parts[1]

SessionIdOf_Pattern(parts) == kCreateWebSocketPath[2]

\* The part at the place of ":sessionId".
SessionIdOf(parts) ==
    parts[CHOOSE i \in DOMAIN kCreateWebSocketPath :
              kCreateWebSocketPath[i] = ":sessionId"]

\* The HttpHandler is told first; then the path decides between 400 and
\* AcceptWebSocket.
OnWebSocketRequest(c, info) ==
    /\ Receive(c, "http")
    /\ cmd_tasks' = Append(cmd_tasks, [kind |-> "OnWebSocketRequest",
                                       conn |-> c, keep_alive |-> TRUE])
    /\ \/ /\ ~(info.base /\ Matches(info.parts))
          /\ replies' = SendResponse(c, 400)
          /\ UNCHANGED <<socket, connection_to_session_map, client>>
       \/ /\ info.base /\ Matches(info.parts)
          /\ socket' = [socket EXCEPT ![c] = "websocket"]
          /\ connection_to_session_map' =
                 [connection_to_session_map EXCEPT
                      ![c] = SessionIdOf(info.parts)]
          /\ client' = [client EXCEPT ![c] =
                 {[parts |-> info.parts,
                   safe |-> RequestIsSafeToServe(info, allow_remote_,
                                                 whitelisted_ips_)]}]
          /\ UNCHANGED replies
    /\ served' = {}

\* The message becomes a POST, without headers, to the session of the
\* connection.
OnWebSocketMessage(c) ==
    /\ Receive(c, "websocket")
    /\ Serve(c, NoHeaders, TRUE,
             [conn |-> c, via |-> "websocket",
              session |-> connection_to_session_map[c],
              origin |-> NoHeader, host |-> NoHeader])
    /\ UNCHANGED <<connection_to_session_map, socket, client>>

\* The entry of connection_to_session_map stays.
OnClose(c) ==
    /\ server_ = "listening"
    /\ socket[c] \in {"http", "websocket"}
    /\ socket' = [socket EXCEPT ![c] = "closed"]
    /\ cmd_tasks' = Append(cmd_tasks, [kind |-> "OnClose", conn |-> c,
                                       keep_alive |-> TRUE])
    /\ served' = {}
    /\ UNCHANGED <<server_, options, connection_to_session_map, io_tasks,
                   replies, client, asked>>

\* The command thread runs its oldest task; a handled request posts its
\* response callback to the IO thread.
RunCommandTask ==
    /\ cmd_tasks # <<>>
    /\ cmd_tasks' = Tail(cmd_tasks)
    /\ io_tasks' = IF Head(cmd_tasks).kind = "HandleRequest"
                   THEN Append(io_tasks, Head(cmd_tasks)) ELSE io_tasks
    /\ served' = {}
    /\ UNCHANGED <<server_, options, connection_to_session_map, socket,
                   replies, client, asked>>

\* The callback runs OnResponse unless the weak pointer is invalid: 200 is
\* the handler's response, 201 the same with "Connection: close" added.
OnResponse ==
    /\ io_tasks # <<>>
    /\ io_tasks' = Tail(io_tasks)
    /\ replies' = IF server_ = "listening"
                  THEN SendResponse(Head(io_tasks).conn,
                                    IF Head(io_tasks).keep_alive
                                    THEN 200 ELSE 201)
                  ELSE replies
    /\ served' = {}
    /\ UNCHANGED <<server_, options, connection_to_session_map, socket,
                   cmd_tasks, client, asked>>

\* ~HttpServer: server_ closes every connection and the weak pointers of
\* the callbacks become invalid.
Destroy ==
    /\ server_ = "listening"
    /\ server_' = "destroyed"
    /\ socket' = [c \in Connections |->
                     IF socket[c] = "none" THEN "none" ELSE "closed"]
    /\ served' = {}
    /\ UNCHANGED <<options, connection_to_session_map, threads, replies,
                   client, asked>>

-----------------------------------------------------------------------------

Init ==
    /\ server_ = "null"
    /\ allow_remote_ = FALSE
    /\ whitelisted_ips_ \in Whitelists
    /\ connection_to_session_map = [c \in Connections |-> NoHeader]
    /\ socket = [c \in Connections |-> "none"]
    /\ cmd_tasks = <<>>
    /\ io_tasks = <<>>
    /\ replies = [c \in Connections |-> <<>>]
    /\ client = [c \in Connections |-> {}]
    /\ asked = [c \in Connections |-> 0]
    /\ served = {}

Next ==
    \/ \E allow_remote, listening \in BOOLEAN : Start(allow_remote, listening)
    \/ \E c \in Connections : OnConnect(c)
    \/ \E c \in Connections, info \in HttpRequest : OnHttpRequest(c, info)
    \/ \E c \in Connections, info \in UpgradeRequest :
           OnWebSocketRequest(c, info)
    \/ \E c \in Connections : OnWebSocketMessage(c)
    \/ \E c \in Connections : OnClose(c)
    \/ RunCommandTask
    \/ OnResponse
    \/ Destroy

Spec == Init /\ [][Next]_vars

-----------------------------------------------------------------------------

Part == UNION {Range(p) : p \in Paths}

Task == [kind : {"HandleRequest", "OnWebSocketRequest", "OnClose"},
         conn : Connections, keep_alive : BOOLEAN]

TypeOK ==
    /\ server_ \in {"null", "failed", "listening", "destroyed"}
    /\ allow_remote_ \in BOOLEAN
    /\ whitelisted_ips_ \subseteq Addresses
    /\ connection_to_session_map \in [Connections -> Part \cup {NoHeader}]
    /\ socket \in [Connections -> {"none", "http", "websocket", "closed"}]
    /\ cmd_tasks \in Seq(Task)
    /\ io_tasks \in Seq(Task)
    /\ replies \in [Connections -> Seq({200, 201, 400, 500})]
    /\ client \in [Connections -> SUBSET [parts : Paths, safe : BOOLEAN]]
    /\ asked \in [Connections -> 0..MaxRequests]
    /\ served \subseteq [conn : Connections, via : {"http", "websocket"},
                         session : Part \cup {NoHeader}, origin : Origin,
                         host : Host]

\* Requests of connection c that wait for the command thread or for their
\* response callback.
Pending(c) ==
    Len(SelectSeq(cmd_tasks \o io_tasks,
                  LAMBDA t : t.kind = "HandleRequest" /\ t.conn = c))

\* Every request of an open connection is answered once: by the 500 of
\* OnHttpRequest, the 400 or the AcceptWebSocket of OnWebSocketRequest, or
\* by the one OnResponse of handle_request_func_; no request is both
\* refused and handled, and none is answered twice.
EveryRequestAnsweredOnce ==
    \A c \in Connections :
        LET answered == Len(replies[c]) + Pending(c) + Cardinality(client[c])
        IN  /\ answered <= asked[c]
            /\ socket[c] \in {"http", "websocket"} => answered = asked[c]

\* A message of a WebSocket is served as a command of the session the
\* upgrade request named: OnWebSocketRequest accepts only
\* url_base_ + "session/<id>" and OnWebSocketMessage addresses <id>.
WebSocketServesItsSession ==
    \A s \in served :
        s.via = "websocket" =>
            \A upgrade \in client[s.conn] :
                upgrade.parts = <<"session", s.session>>

\* "When host header and/or origin header are present, serve only those
\* coming from localhost or from an explicitly whitelisted ip": whatever
\* handle_request_func_ runs came from a client whose headers
\* RequestIsSafeToServe accepts.  OnWebSocketRequest does not look at the
\* headers of the upgrade, and OnWebSocketMessage checks a request that has
\* none.
OnlySafeClientsAreServed ==
    \A s \in served :
        /\ RequestIsSafeToServe(s, allow_remote_, whitelisted_ips_)
        /\ \A upgrade \in client[s.conn] : upgrade.safe

=============================================================================
