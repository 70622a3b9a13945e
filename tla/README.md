# TLA+ models of ChromeDriver

ChromeDriver drives a browser over the DevTools protocol.  It is single
threaded, but it is not sequential: a command that waits for its response reads
the socket and dispatches whatever arrives, so event listeners run in the middle
of commands, start commands of their own, and destroy or change the objects the
outer command is using.  In the other direction the BiDi mapper inside the
browser produces messages at any time, and the WebSocket connections they are
meant for open and close independently.  These are the behaviours the models
here explore.

Everything is checked with TLC.  `PROJECT.json` lists the runs, the source lines
every definition models, a mutant for every property, and the hazards in the
code with the properties that cover them.

## 1. Inventory of the system

| Part | Source | State | Operations | Talks to |
|---|---|---|---|---|
| `WebViewImpl` | `chrome/web_view_impl.cc` | `parent_`, `is_locked_`, `is_detached_`, `client_`, frame / navigation / dialog trackers, `mobile_emulation_override_manager_` | `CreateChild`, `Lock`, `Unlock`, `SetDetached`; about 60 command methods, of which `EvaluateScriptWithTimeout`, `GetFrameByFunction`, `SetFileInputFiles` route the call to the target of a frame; `WaitForPendingNavigations`; `CallAsyncFunctionInternal` (polling loop); input dispatch | DevTools client (every command blocks in it), FrameTracker (child targets), PageTracker (owner of top-level views) |
| `WebViewImplHolder` | `chrome/web_view_impl.cc` 1429-1456 | `items_` (view, `was_locked`) | constructor locks a view and its ancestors; destructor unlocks them or deletes a detached child | `WebViewImpl`, FrameTracker |
| `PageTracker` | `chrome/page_tracker.cc` 1-54 | pointer to the list `web_views_` | `OnEvent(Target.detachedFromTarget)` | listener of the browser-wide client |
| `DevToolsClientImpl` | header only: `chrome/page_tracker.cc` 94-343; tests `chrome/devtools_client_impl_unittest.cc` | `next_id_`, `response_info_map_`, `listeners_` and three `unnotified_*` cursors, `parent_` / `children_`, `stack_count_`, `crashed_`, `detached_` | `ConnectIfNecessary`, `SendCommand*`, `HandleEventsUntil`, `HandleReceivedEvents`, `AttachTo`, `AddListener` | socket, listeners, parent / child clients |
| `Session` (earlier revision) | `session.cc` | `bidi_response_queue_`, `bidi_connections_`, `bidi_mapper_is_launched_`, `awaited_bidi_response_id`, `frames`, `window` | `OnBidiResponse`, `AddBidiConnection`, `RemoveBidiConnection`, `ProcessBidiResponseQueue`, `CloseAllConnections`, `SwitchTo*Frame`, `GetTargetWindow` | BidiTracker (producer), HTTP handler (connections) |
| `Session` (later revision) | `unnamed/part_006` | the thread-local `session`, `bidi_connections_`, `quit`, `detach`, `web_socket_url`, `terminate_on_cmd` | `internal::SplitChannel`, `OnBidiResponse`, `Add/RemoveBidiConnection`, `CloseAllConnections`, `Terminate`, `SendBidiSessionEnd`, `HandleMessagesAndTerminateIfNecessary` | Chrome (view count, quit), mapper |
| `BidiTracker` | `chrome/bidi_tracker.{h,cc}`, `unnamed/part_001`, `part_002` | the callback | `OnEvent(Runtime.bindingCalled)` | DevTools client, Session |
| `HttpServer` | `server/http_server.cc` | `server_`, `allow_remote_`, `whitelisted_ips_`, `connection_to_session_map` | `Start`, `RequestIsSafeToServe`, `OnConnect`, `OnHttpRequest`, `OnWebSocketRequest`, `OnWebSocketMessage`, `OnClose`, `OnResponse` | `net::HttpServer` (IO thread), command thread (posted tasks, response callbacks) |
| `PipeBuilder` | `unnamed/part_004` | protocol mode, four pipe ends, the connection | `SetProtocolMode`, `SetUpPipes`, `BuildSocket`, `CloseChildEndpoints`, `TakeSocket` | child process |
| `MobileEmulationOverrideManager` | `chrome/mobile_emulation_override_manager.cc` | the overridden metrics | `OnConnected`, `OnEvent(Page.frameNavigated)`, `RestoreOverrideMetrics` | DevTools client |
| `MobileDevice` | `chrome/mobile_device.cc` | `user_agent`, `device_metrics`, `client_hints`; the tables of platforms and prefixes | `FindMobileDevice`, `GuessPlatform`, `GetReducedUserAgent` | the caller that sets up a session; `WebViewImpl`, made with the device's metrics |
| `ChromeAndroidImpl`, Chrome finder, `StubWebView` | `unnamed/part_000`, `chrome/chrome_finder_mac.mm`, `chrome/stub_web_view.h` | none that changes | process launch, look-ups in the file system, a test double | operating system |

What makes the system hard:

* **Re-entrancy.**  Any method that sends a DevTools command may run listeners
  before it returns.  `PageTracker::OnEvent` may want to delete the view whose
  method is running; listeners may call further view methods.
* **Lifetime by lock.**  Views are protected only by `WebViewImplHolder`
  objects on the C++ stack; holders nest, overlap (a child's holder locks the
  parents too) and die in reverse order, and each decides from `was_locked`
  what it may unlock.
* **Producers and consumers that come and go.**  BiDi messages are produced
  whether or not a connection is open; connections close while answers for them
  are still on the way.
* **Decisions from several observations.**  The end of a session is decided
  from two status values and two view counts read at different moments.
* **String surgery.**  Channels are split with index arithmetic on a string
  that is shortened in place.
* **Two threads at the front door.**  Requests arrive on the IO thread, are
  handled on the command thread and answered on the IO thread again, while
  connections close and upgrade in between; the guard against cross-site
  requests sits on one of the two ways in.
* **Commands of many round trips.**  `SetFileInputFiles` reads the files of an
  element in one round trip per fact while the page goes on changing them, and
  holds remote objects of the page across returns that fail.
* **Commands nobody waits for.**  The input dispatchers write all events but
  the last without waiting for an answer, and count on the last one to tell
  them that the browser is done with all of them.

What must hold: a view is never destroyed while a method of it, or a holder
naming it, is on the stack; locks do not leak; a BiDi message is delivered
once, in order, to the connection it is meant for, or is dropped for a stated
reason; a closed connection receives nothing; a session ends exactly when the
browser is gone or no view is left; a response reaches the command that asked
for it and every listener hears every message once, however deep the calls
are nested.

## 2. Modules

| Module | Models | Instantiated by |
|---|---|---|
| `WebViewHolder` | view lifetime: `WebViewImpl` locking, `WebViewImplHolder`, `PageTracker`, the routing of calls to frame targets, `WaitForPendingNavigations` | `MCWebViewHolder` |
| `SessionBidi` | the BiDi response queue of `session.cc` | `MCSessionBidi` |
| `BidiMailbox` | the abstract specification `SessionBidi` implements: a mailbox that keeps the newest letters while nobody listens | `SessionBidi` (`INSTANCE ... WITH`) |
| `SessionChannel` | channel routing and session termination of the later `Session` | `MCSessionChannel` |
| `HttpServer` | the HTTP and WebSocket front end: `RequestIsSafeToServe`, upgrades, messages, closes and the response callbacks | `MCHttpServer` |
| `MobileDevice` | the look-up of a device in the list of known devices, the platform guessed from a user agent and the reduced user agent made of client hints | `WebViewInput` (`INSTANCE`) |
| `WebViewInput` | the set-up of a view with the metrics of a `MobileDevice`, the five input dispatchers of `WebViewImpl` and the browser's queue of commands | `MCWebViewInput` |
| `PipeBuilder` | the pipes to the browser: `SetProtocolMode`, `SetUpPipes`, `BuildSocket`, `CloseChildEndpoints`, `TakeSocket`, the destructor, and the process's table of descriptors | `MCPipeBuilder` |
| `WebViewAsync` | `CallAsyncFunctionInternal`: the start of the script, the polling loop with its deadline, and the page that runs the script | through `WebViewPage` |
| `WebViewPage` | extends `WebViewAsync`: navigation (`Load`, `Reload`, `TraverseHistory`, `WaitForPendingNavigations`), the commands of one answer (cookies, screenshot, PDF, profile, overrides, gestures, scripts), the frame stack of the `Session`, and the page with its history | `MCWebViewPage` |
| `DevToolsClient` | the protocol client `DevToolsClientImpl` with a root and a child session on one socket, its listeners `MobileEmulationOverrideManager` and `BidiTracker`, and the browser | `MCDevToolsClient` |
| `CommandRpc` | the abstract specification `DevToolsClient` implements: numbered commands of several clients, each answered at most once, by the answer to that command | `DevToolsClient` (`INSTANCE ... WITH`) |
| `DevToolsConnect` | a root client and its children on one transport: `AttachTo`, `ConnectIfNecessary` with the handshake of every session and the notification of the listeners, `SendCommand`, `HandleEventsUntil`, the receive loop and the routing of what it reads, commands sent by listeners from `OnConnected` and `OnEvent`, deadlines, the loss of the transport and the frontend closer, against the thirteen socket classes of the repository | `MCDevToolsConnect` |
| `WebViewFiles` | the round trips of `GetFrameByFunction`, `GetBackendNodeIdByElement` and `SetFileInputFiles`, and the page they talk to | `MCWebViewFiles` |

### WebViewHolder

* `web_views` is `PageTracker::web_views_`; `targets` the child views owned by
  frame trackers; `is_locked`, `is_detached` the flags of each view;
  `timed_out` the navigation tracker's flag; `created` the ids used so far
  (target ids are not reused).
* `WebViewImpl(v)` is the constructor: a view starts unlocked and attached,
  and has a navigation tracker of its own only if it has no parent.
  `listens[c]` is the navigation tracker `CreateChild` registers with the
  client of the child `c`: none if `IsNonBlocking` says so, and otherwise the
  tracker of the window at the top of the chain of parents (`TopOf`).
  `IsNonBlocking` walks the parents as the code does; `NonBlocking` is the
  set of windows whose tracker is of the non-blocking kind.
* `stack` is the C++ call stack restricted to view methods that are blocked in
  the DevTools client.  A frame records the operation, the view that executes
  and the holders that are locals of the calls leading to it.  A method is
  two steps, one that enters (takes the holders, pushes the frame) and one that
  returns (destroys the holders in reverse order, pops the frame); everything
  that can happen while the method waits happens between them: detach events
  (`PageTrackerOnEvent`, `FrameTrackerOnEvent`), new child targets
  (`CreateChild`), and nested methods on any view that exists.
* With an empty stack a method is called by a session command, on a top-level
  view.  `WaitForPendingNavigations` is called by commands only.
* `status` is written and never read.  `ReturnCodes` keeps the statuses that
  name a cause of their own (`kTimeout`, `kNoSuchFrame`); `kUnknownError`
  stands for every other error of a round trip, which no property tells
  apart.
* `EvaluateScriptWithTimeout` is the method that takes a holder for its own
  view; `GetFrameByFunction` and `SetFileInputFiles` take holders only for the
  targets they delegate to (`Delegate`).  The properties speak of the views
  a holder names: a window that runs `GetFrameByFunction` (web_view_impl.cc
  613) or `SetFileInputFiles` (1096) is not one of them, and in the model a
  `Target.detachedFromTarget` handled while it waits erases it, which the
  comments at lines 511-515 and 959-962 say must not happen to a view whose
  method is running.
* Paths that return early (`kTargetDetached`, `kNoSuchFrame`,
  `kUnsupportedOperation`, `kNoSuchWindow`) are steps that set `status`.
* A parent's frame tracker owns the child views, so destroying a view
  destroys its subtree (`Erase`, `DeleteTargetForFrame`).
* Not in the model: what the DevTools client itself does when its owner is
  detached (its implementation is not part of the sources).  Leaving a
  protection out can only add behaviours, so the properties that hold are not
  affected.

### SessionBidi

* `bidi_response_queue_`, `bidi_connections_`, `awaited_bidi_response_id`,
  `bidi_mapper_is_launched_` are the members of the same name.  `sent[c]` is
  what `send_response` of connection `c` was run with, `closed` the
  connections whose `close_connection` was run.
* A payload is abstracted to what the code looks at: whether it parses to a
  dictionary, whether it is the `launched` notice, its `id` if any, and whether
  `JSONWriter` can serialize it again.  Messages are numbered as they are pushed
  so that the properties can speak about order.
* `OnBidiResponse` and `AddBidiConnection` include the call of
  `ProcessBidiResponseQueue` they end with.  The `DCHECK` on a single
  connection is compiled out in release builds; the model follows the loop
  over all connections.
* `received`, `produced`, `asked_at` are history variables.
* `Mailbox` is `BidiMailbox` with `box` the queue, `listening` the set of the
  connections in `bidi_connections_`, `delivered` what `send_response` was
  run with, and the unwritable letters the payloads `JSONWriter` refuses.
  `ImplementsMailbox` is `Mailbox!Spec`: `OnBidiResponse` is `Post`,
  `AddBidiConnection` is `Listen`, `RemoveBidiConnection` is `Leave`, and
  every other step leaves the mailbox alone.  What the mailbox promises (a
  connection receives what waited when it came and all that came later,
  once and in order; the box holds the newest messages and is empty while
  somebody listens) therefore holds of the session.

### SessionChannel

* A channel is a sequence over the symbols slash, the digit `1`, and `chan`
  (the text of `kChannelSuffix` after its slash).  `SplitChannel` is written
  with the two backward scans of the code; `Splits` is its declarative
  reference.
* `last` records the outcome of the last `OnBidiResponse`: the payload, the
  status, the connection the message was sent to and the channel it carried.
* `session` is the thread-local pointer.  `HandleMessagesAndTerminate-
  IfNecessary` takes as parameters what it reads from the browser (status of
  `HandleReceivedEvents`, view count, status and view count of
  `GetTopLevelWebViewIds`) and `Session::detach`, which is read nowhere else;
  it is a step only when it terminates the session, since its early returns
  change nothing.  The model is of a session created with `web_socket_url`
  (without it the function returns at once).
* `terminate_on_cmd` tells whether the session was given the closure that
  ends its thread; `Terminate` posts it to `cmd_task_runner` only then
  (`terminate_posted`).
* Once the session is deleted nothing more happens: the runs do not check for
  deadlock.

### HttpServer

* `server_` is the `net::HttpServer` pointer: null, null after a `Start`
  whose socket could not listen, listening, or destroyed.  `allow_remote_`,
  `whitelisted_ips_` and `connection_to_session_map` are the members of the
  same name.
* A request is abstracted to what the handlers read: its `origin` and `host`
  headers (absent, localhost, a remote name that is no address, or an
  address), whether it carries `Connection: close`, and for an upgrade whether
  the path starts with `url_base_` and its parts after that.
  `RequestIsSafeToServe` is a predicate on these.
* `socket[c]` is what `net::HttpServer` knows of connection `c` (none, http,
  websocket, closed), `replies[c]` what it was told to send: 500 and 400 for
  the refusals, 200 for the handler's response and 201 for the same with
  `Connection: close`.  A send to a connection that is gone is skipped.
* `cmd_tasks` is the queue of `cmd_runner_`: the `OnWebSocketRequest` and
  `OnClose` tasks posted for the `HttpHandler`, and the requests handed to
  `handle_request_func_`.  `RunCommandTask` runs the oldest; for a request it
  posts the response callback to `io_tasks`, and `OnResponse` takes it from
  there.  The handler is not part of the sources: it is modelled as answering
  every request once.
* `OnWebSocketMessage` is `Serve` with a request without headers, as in the
  code, where it calls `OnHttpRequest` with a request it builds.
* `served` is the call of `handle_request_func_` made by the last step,
  `client[c]` the upgrade `AcceptWebSocket` took for `c` (its path, and
  whether its headers would pass `RequestIsSafeToServe`), `asked[c]` the number
  of requests and messages received.
* The server may stop at any point (no client is obliged to send anything):
  the runs do not check for deadlock.

### DevToolsClient

The class is declared in `chrome/page_tracker.cc` (lines 94-343); the bodies
of its methods are not among the sources.  The state is the header's; the
operations follow the specification (sections 4.2 to 4.4) and, where the two
differ or the specification is silent, what
`chrome/devtools_client_impl_unittest.cc` expects.  `PROJECT.json` marks which
definition comes from where.

* `next_id_`, `response_info_map_`, `crashed_` are the members of each client;
  `info` holds the `ResponseInfo` objects, which outlive their map entry
  (they are reference counted); `unnotified` is the two cursors over the
  listeners with the message each is for.
* `stack` is the call stack of the thread.  A frame is a call of `SendCommand`
  or `HandleReceivedEvents` with the place it has reached (`pc`), or a listener
  that is being told of a message, with the calls it still has to make.  Only
  the top frame takes steps.  `ProcessNextMessage` is the steps `Notify` (the
  passes left over from the message before), `SendCommandReturns` (the
  response came meanwhile), `TabCrashed`, `Delegate` (a child reads through
  its parent, which finishes its own passes first) and `Receive`;
  `ProcessEvent` and `ProcessCommandResponse` are `Receive`, the pass, and the
  step after it.
* Listeners: `MobileEmulationOverrideManager` sends its two commands when the
  main frame has navigated and gives up at the first that fails; `BidiTracker`
  fails on a `Runtime.bindingCalled` it cannot read, which ends the pass and
  the call; the listener of the tests handles received events whenever a
  command has succeeded.  A listener calls the client it listens to.
* The browser answers the commands of a session in any order, with a result
  or an error, emits events, and opens dialogs: the command it was running
  then gets no answer (`stuck`).  A navigation of the main frame drops the
  overrides of its session (`applied`); the commands of the manager put them
  back.
* The browser takes its steps where the thread looks at the socket
  (`Reading`).  Elsewhere the thread does not look at the socket, and all it
  does to the browser is to append commands to `pending`, so a step of the
  browser and a step of the thread give the same state in either order and
  every behaviour has the same states at the points where the thread reads.
* `Rpc` is `CommandRpc` with `commands` the `ResponseInfo` objects of each
  client, in the order of their ids (of a stored response the session, the
  id and whether it is a result), and `awaited` the keys of
  `response_info_map_`.  `Register` is `Issue`, the response that `Receive`
  reads is `Answer`, `MarkBlocked` is `Block` when it marks a command, the
  return of a blocked `SendCommand` is `GiveUp`; every other step leaves the
  commands as they are.
* Not in this module: connecting and reconnecting, a write that fails,
  messages that do not parse and `HandleEventsUntil` with a condition of its
  own, which are in `DevToolsConnect`; `SendAsyncCommand`.

The specification and the tests disagree on dialogs.  The specification
(section 4.2, and property 6 of section 8) says that a dialog blocks the
commands sent after it was observed and leaves those sent before alone.  The
tests `BlockedByAlert` and `CorrectlyDeterminesWhichIsBlockedByAlert` (lines
1427-1492) expect the opposite, as does the comment on `kBlocked` in the header
("blocked by an alert that the command triggered"): the command sent before
the dialog and not answered by the time the round trip returns is the one that
fails with `kUnexpectedAlertOpen`.  The model follows the tests; with the
rule of the specification the command that opened the dialog waits until its
deadline, which is the mutant of `EveryCallReturns`.

### DevToolsConnect

The tests of `chrome/devtools_client_impl_unittest.cc` drive clients against
sockets that are small scripted browsers, each with its own fault, and state
in `EXPECT_` lines what the socket and the listeners demand of the client.
The module has the sockets and listeners as they are written
(`chrome/devtools_client_impl_unittest.cc`, and `StubSyncWebSocket` in
`chrome/pipe_connection_unittest.cc` 442-635), and the client as the header,
the specification and the tests describe it.

* `kind` is the class the factory creates, `sock` the members of the socket
  (`connected_`, `queued_response_`, `sesison_states_`, `connection_count_`,
  `command_count_`, ...).  `Connect`, `Send`, `ReceiveNextMessage`,
  `HasNextMessage` dispatch on the class: `MockSyncWebSocket` answers every
  command and checks the handshake, `MockSyncWebSocket2` never connects,
  `MockSyncWebSocket3` answers the handshake and nothing after it,
  `FakeSyncWebSocket` is opened once and always has something to read,
  `OnConnectedSyncWebSocket` follows every answer with an event,
  `MockSyncWebSocket5` takes everything and invents an event and then the
  answers 1, 2, ..., `DisconnectedSyncWebSocket` is lost at its first command
  and refuses the connection after that, once, `StubSyncWebSocket` knows a
  third method of the handshake and answers any command.
* The sockets with sessions: `MultiSessionMockSyncWebSocket` keeps the
  handshake of every session and answers a command for the session that sent
  it, a ping with its pong; `MultiSessionMockSyncWebSocket2` puts an event
  for the session it was made for (`SocketArg`) before every answer;
  `BidiMockSyncWebSocket` is the BiDi mapper as well: a `Runtime.evaluate` of
  `onBidiMessage(...)` is answered at once and the answer to the command
  inside follows as the event `Runtime.bindingCalled`, and a command of the
  first protocol carried by the second (`PROTO.cdp.sendCommand`) must have a
  negative id.
* `Root` is the client with the socket, `children_` the clients `AttachTo`
  has made its children.  A client that is null can do nothing; attaching to
  a client that has a parent is refused (the hierarchy is flat).  A child is
  set up when it is attached to a connected root, and with the root
  otherwise.  Every client has its own `next_id_` and `response_info_map_`,
  so two sessions have commands with the same id.
* `calls` is the stack of calls of the thread; only the call on top takes
  steps.  `ConnectIfNecessary` does nothing on a connected socket, and
  otherwise `Connect`, tried again once if refused, and the handshake of
  every session written with `SendCommandAndIgnoreResponse`; then
  `OnConnected` is owed to the listeners (`unnotified_connect_listeners_`).
  `SendCommand` and `HandleEventsUntil` enter, and `ProcessNextMessage` is
  one turn of the receive loop: a message and what `ProcessEvent` or
  `ProcessCommandResponse` do with it, or the deadline, which may pass
  before any turn.
* What is read is handled by the client of the session it names
  (`HandleMessage`): the answer to a command of another call is stored in
  its entry (`kReceived`) and ends that call when it is on top again
  (`ResponseWasReceived`).  A message for a session no client has is passed
  over.
* Listeners.  The three `OnConnectedListener`s of a root on an
  `OnConnectedSyncWebSocket` each send a command from `OnConnected` and wait
  for its answer: the loop of the first tells the second, whose loop tells
  the third, and only then is anything read, so that no listener hears an
  event before its `OnConnected` (`OnConnected`, `ReadyToRead`).  The
  `PingingListener` of `SocketArg` sends a ping from inside its first
  `OnEvent`, while the command that read the event waits below; the
  `BidiEventListener` keeps the payloads of the bindings called.
* `failed` is the set of expectations broken so far.
* `ViewMockSyncWebSocket` is the `MockSyncWebSocket` of
  `web_view_impl_unittest.cc` and `ViewMockSyncWebSocketWithDeadline` its
  later revision.  They answer every command, and a read returns the status
  the test has set with `SetNexStatusCode` between two calls: `kTimeout`
  before any deadline, `kDisconnected` on a socket that stays connected,
  `kOk` with an empty message when nothing is queued.  The later revision
  looks at the deadline first.  The tests attach children to this socket
  although it does not name the session of an answer; the model keeps
  children to the sockets with sessions.
* `parser` is the function given to `SetParserFuncForTesting`; the parsers of
  the tests return events, unknown ids, errors or nothing at all.  A socket
  with sessions is read with the real parser.
* The entry of a command that gave up at its deadline stays in
  `response_info_map_` and takes the answer when that arrives (`TimedOut`).
  An answer to no entry is passed over when it is an error and fails the
  call otherwise.
* `closer_calls` counts the runs of the frontend closer, which the
  specification places in the `ConnectIfNecessary` that succeeds after
  `Connect` was refused once.  No property is stated about it: no class of
  socket in the repository refuses a first connection, so a closer that ran
  at the wrong moment could not be told from one that did not.

The bodies of the client's methods are not among the sources.  The
operations of the client (`AttachTo`, `ConnectIfNecessary`, `SetUpDevTools`,
`SendCommand`, `HandleEventsUntil`, `ProcessNextMessage`, `HandleMessage`,
`ProcessCommandResponse`, `ProcessEvent` and the steps between them) are
written from the specification and marked so in `PROJECT.json`; the unit
tests are what they were read against, not what they translate.  What is
translated from code in this module is the header of the client, the
sockets, the parsers and the listeners of the tests.  What the
module takes from the header and the specification:
a child's `ConnectIfNecessary` connects the socket of the root and sets up
every session (the comment on `ConnectIfNecessary`); `AttachTo` sets up the
child at once when the parent is connected (the comment on `AttachTo`);
`ProcessNextMessage` tells the listeners that are owed a notification before
it reads (section 4.3 of the specification, and the tests
`ProcessOnConnectedFirstOnCommand` and `...OnHandleEventsUntil`).  Section
4.4 does not say what becomes of a message that names a session no child
has.  `MultiSessionMockSyncWebSocket2` queues its event for `SocketArg`
whether or not that child is attached, so the case happens in the model; the
client that reads such a message passes it over and reads on.

The specification and the tests disagree on the handshake.  The
specification (section 4.2) says the client becomes connected only after the
answers to both handshake commands were received; the sockets of the tests
queue those answers and expect the client not to read them inside
`ConnectIfNecessary`.  The model follows the tests.

### WebViewPage

The module extends `WebViewAsync` with the rest of what a session command
does to one view, and with the browser side the commands race with.

* `entries`, `current`, `allocated`, `loading` are the navigation history of
  the page and whether a load is pending; `known` the frames the frame
  tracker has seen.  `window` tells whether `Session::window` names a view
  the browser still has, `frames` is `Session::frames`, `tracker_frame` the
  frame the navigation tracker was last given by `SetFrame`.
* `TraverseHistory(delta)` is the read of the history
  (`Page.getNavigationHistory`), `NavigateToHistoryEntry` the command that
  follows; `cmd` keeps the entry id between them, and `goal` the index it
  was read at.  The answer says what the entry `delta` away is (`EntryShapes`):
  no dictionary, and the call returns `kOk` without navigating, as it does
  when there is no such entry; a dictionary without `id`, which is
  `kUnknownError`; or an entry with its id.  `Load`, `Reload`, `GetUrl`,
  `SetWebLifecycleState` are single round trips.
* `Asks(codes)` is a command that is one round trip and returns one of
  `codes`: the cookie, screenshot, PDF, profile, gesture, override and BiDi
  commands differ in the statuses they can return and in the early returns
  before the round trip, which is what their definitions say.
* `WaitForPendingNavigations` enters, and returns by `WaitEnds` or after
  `WaitTimesOut`, which stops the load when asked to.
* `SwitchToTopFrame`, `SwitchToParentFrame`, `SwitchToSubFrame` change
  `frames` and call `SwitchFrameInternal`, which gives the tracker of the
  target window the new frame if the window is found.
* `CallAsyncFunction` and `CallUserAsyncFunction` are the two entries of
  `CallAsyncFunctionInternal`; `AsyncStep` is `Step` of `WebViewAsync` with the
  history and the session unchanged.  `Page` is the browser: it navigates,
  traverses its history, finishes a load, attaches a frame, closes the window.

### WebViewFiles

* One action is one round trip to the browser together with what the code
  does with the answer; `pc` is the round trip that comes next (`describe`,
  `release`, `resolve`, `length`, `item`, `info`, `set`) or `idle`.  `local`
  holds the locals of the command under the names they have in the code.
* Every round trip can fail (`kDisconnected`) or come back without the field
  the code looks for (`kUnknownError`); both end the command where the code
  returns.  A round trip succeeds only if the remote object or node it names
  still exists.
* The browser is `document` (the number of the document in the frame, which
  also stands for the backend node id of the element), `files` (the paths of
  the element's `FileList`), `objects` (the remote objects it keeps for the
  client) and `allocated` (the ids handed out).  `PageSetsFiles` is a script
  of the page that gives the element other files; `Navigate` loads another
  document, which ends every remote object and node of the old one.
* `ReleaseRemoteObject` is the destructor of `RemoteObjectReleaseGuard`; it
  is the step after `DescribeNode` whatever `DescribeNode` came to.
  `Runtime.releaseObject` can fail, which the code logs and drops: the
  object then stays in `objects` and is recorded in `unreleased`.  The
  objects of `DOM.resolveNode` and `files[i]` are under no guard in the code
  and stay in `objects`.
* The view is the one that owns the frame; how a call reaches it is in
  `WebViewHolder`.
* `seen` is the set of file lists the element had during the command, `sent`
  the list of the last `DOM.setFileInputFiles`.  The length and each file
  are read in separate round trips, and a page that replaces `<<p1>>` by
  `<<p2, p2>>` between `files.length` and `files[0]` gets `<<p2>>` set back.
  `AppendKeepsOldFiles` says what such a torn read can come to: as many old
  files as one of the lists in `seen` held, each at a place it had in one of
  them; for a page that leaves the element alone that is the old list.

### MobileDevice

* `mobile_device` is the object the methods work on: `user_agent`,
  `device_metrics` and `client_hints`, each of them optional as in the
  class.  `returned` is the status or the boolean of the last call,
  `platform` and `reduced_user_agent` what the last successful call wrote
  through its out-parameter.  A call that fails leaves the out-parameter
  alone, which is why these are state and not results.
* A string the code takes apart is a sequence of pieces cut where the
  prefixes of `GuessPlatform` end (`"X11; "`, `"C"`, `"rOS x86_64 ..."`), so
  that `base::StartsWith` is `IsPrefix` and two strings are equal exactly
  when the code's are.  `kFrozenUserAgentTemplate` puts a user agent
  together as `StringPrintf` does.
* A JSON value is a record of its type and its content; `Find` is the family
  `FindString`, `FindInt`, `FindDouble`, `FindBool` with the types each
  accepts (`FindDouble` takes an integer), `FindByDottedPath` the walk of
  `FindDictByDottedPath`.  `kFields` lists the six fields in the order the
  code asks for them, and `Lookup` gives the error of the first that is
  missing or of the wrong type, or the device.
* The list of devices is a constant of the model, as it is of the build.
  The two returns for a list that does not parse, or is no dictionary, are
  assumed away (`ASSUME`).
* The callers of the three methods are not among the sources: `Next` calls
  them in any order, with any device name, any major version, and for
  `GuessPlatform` the user agents the object has.  `Init` is the object
  after its constructor, with or without the client hints its owner set.

### WebViewInput

* The module starts in the set-up (`pc = "setup"`), where the methods of
  `MobileDevice` are called.  `WebViewImpl` is the constructor that takes
  `device_metrics`: it makes the `MobileEmulationOverrideManager` with the
  metrics of the device, `overridden_device_metrics_`, and ends the set-up.
  The variables of the set-up are not read after it and are reset there, so
  that the dispatchers do not run once for every state the set-up ended in.
  `IsEmulatingTouch` is the manager's: metrics, and `touch` among them.
* `call` is the dispatcher that runs, with its `async_dispatch_events` flag
  and the size of its list; `events` the part of the list the loop has not
  come to; `touch_count` the counter of `DispatchTouchEventWithMultiPoints`.
  With touch emulation `DispatchMouseEvents` is
  `DispatchTouchEventsForMouseEvents`, which starts with a `Runtime.evaluate`
  whose status it drops and waits for every event.
* `SendNext` is one turn of a loop: the event is passed over (`Skipped`), or
  its command is written, with `Waits` deciding between
  `SendCommandAndIgnoreResponse` (the loop goes on) and `SendCommand` (`pc`
  becomes `wait`).  A write can fail, which ends the call.
* `inbox` holds the commands written and not yet handled.  `Handle` is the
  browser handling the oldest; the dispatcher waits for the newest, so
  `SendCommand` returns when `Handle` empties the inbox.  `WaitFails` is
  `SendCommand` returning `kTimeout` or `kDisconnected` with the command
  still in the inbox.
* An event is its type, and for a mouse event whether a button is down: the
  two things the dispatchers branch on.  `GetAsString` and `TouchForMouse`
  are the conversions to the protocol's names; a wheel event under touch
  emulation gets no type, as in the code.

### WebViewAsync

* `CallAsyncFunctionInternal(t)` is the call up to the loop: the start of the
  script with `CallFunctionWithTimeout`, which fails, or leaves a fresh
  `document.$chrome_asyncScriptInfo` and a running script.  `t` tells a
  deadline from `base::TimeDelta::Max()`, the one thing the code asks of it.
* `Poll` is one turn of the loop with an answer from the browser, `PollFails`
  one with a failed round trip.  `kQueryResult` is the function the code
  sends: it returns the result and deletes it from the info.  `Verdict` is
  what lines 1321-1340 make of the answer: the script's error, its value,
  `kTimeout` if the deadline has passed, and otherwise `Sleep`.
* `expired` is `local_timeout.IsExpired()`; `Expire` is time passing.
* The page is `info`, `running` and `frame`.  `ScriptReports` is the script
  calling back or throwing, once; `Navigate` and `FrameChanges` take the
  info away.  The script that starts the user's function is not among the
  sources: all the model assumes of it is that it creates the info without a
  result and that the result is written once.
* A value is one of two model values; a message is left out.

### PipeBuilder

* `table` is the descriptor table of the driver process: for each descriptor
  which end of which pipe it refers to.  `CreatePipe` takes the two lowest
  free descriptors, as `pipe(2)` does, so numbers are reused after a close.
* `read_file_`, `write_file_`, `child_ends_`, `connection_` hold descriptors
  or `Invalid`.  Assigning to a holder closes what it held; that is how
  `SetUpPipes` and `BuildSocket` behave when called again.
* `SetUpPipes` fails before it changes a member; what `CreatePipe` opened
  until then is closed by the `ScopedFD`s (`AfterFailure`).
* The caller is part of the model: it calls the methods in any order, passes
  new or used options (`fresh`), launches the child (`Launch`: the child gets
  at 3 and 4 what the last pairs of `fds_to_remap` name, and the launch fails
  if one of them is closed), destroys sockets it took and the builder itself.
  `PipeConnection` is its two descriptors; what it sends is not modelled.
* The build without POSIX returns an error from every method and has no state.

## 3. Runs

| Run | Module / cfg | Result | Shows |
|---|---|---|---|
| `holder_safety` | `MCWebViewHolder` / `WebViewHolder.cfg` | holds | holders keep the views they name alive and locked; a locked view has locked ancestors; with the stack empty only detached top-level views are still locked, no detached child is left and no tracker is left with `timed_out`; a child view listens to a tracker of a blocking window or to none |
| `bidi_queue` | `MCSessionBidi` / `SessionBidi.cfg` | holds | the session implements `BidiMailbox`: the queue is the newest messages produced while nobody listens and empty otherwise, and a connection is handed what waited when it came and all that came later, once and in order; the awaited id is reset with the delivery |
| `channel_routing` | `MCSessionChannel` / `SessionChannel.cfg` | holds | `OnBidiResponse` agrees with the declarative reading of `<channel>/<id>/<suffix>` on every channel of up to five symbols; closed connections get nothing; termination happens only when the browser is disconnected or at most one view is left |
| `connect` | `MCDevToolsConnect` / `DevToolsConnect.cfg` | holds | with the real parser no expectation of any socket or listener breaks; what is read reaches the command of the session it is for, also when it arrives after that command gave up, when another session has a command of the same id and when a listener's command reads it |
| `http_server` | `MCHttpServer` / `HttpServer.cfg` | holds | every request of an open connection has exactly one answer or one pending handler call, across closes, upgrades and the destruction of the server; a WebSocket message is a command of the session the upgrade path named |
| `ws_origin` | `MCHttpServer` / `HttpServerOrigin.cfg` | **violated** | with remote access off, an upgrade with a remote origin is accepted and its first message is handled |
| `file_input` | `MCWebViewFiles` / `WebViewFiles.cfg` | holds | the object under the release guard goes through `Runtime.releaseObject` on every way out of the three commands, and stays in the page only when that command failed; an append sets the new files after old ones that were, place by place, files of the element while the command ran: the old list, when the page left it alone |
| `page_commands` | `MCWebViewPage` / `WebViewPage.cfg` | holds | a poll never answers `kTimeout` while the script's result is in the page; a call with a deadline returns, given a browser that answers the polls; a `TraverseHistory` that returns `kOk` from its second command has left the page on the entry that was `delta` away when the history was read, whatever the page did between the two round trips; the navigation tracker is on the frame the session's frame stack ends in |
| `pipes` | `MCPipeBuilder` / `PipeBuilder.cfg` | holds | every open descriptor has exactly one holder in every order of calls and after every failure; a launched child has the child's ends of one pair of pipes at 3 and 4; after `CloseChildEndpoints` the driver holds no write end of `chrome_to_driver` |
| `input_dispatch` | `MCWebViewInput` / `WebViewInput.cfg` | holds | a `FindMobileDevice` that fails, at any of its checks, leaves the caller's device as it was, and one that succeeds replaces all of it; the user agent `GetReducedUserAgent` makes starts with a prefix `GuessPlatform` knows, and the platform guessed from it gives the same user agent again; a call that was not asked to be asynchronous and returns `kOk` returns after the browser has handled all its events (for the multi-point dispatcher: when none of its events is passed over); every command carries a type its method knows |
| `touch_cancel` | `MCWebViewInput` / `WebViewInputCancel.cfg` | **violated** | `DispatchTouchEventWithMultiPoints` with `touchStart, touchCancel`: the call returns `kOk` with the `touchStart` not handled |
| `devtools` | `MCDevToolsClient` / `DevToolsClient.cfg` | holds | the clients implement `CommandRpc`: a response is stored with the command of its session and id, at most once and for good, a command nobody waits for stays so, and only a command whose answer is still to come is marked blocked; every listener hears every event and successful response of its client once, in the order they were read, also when the next message is read from inside a listener; the round trip after a dialog blocks the commands that opened one and no other; the emulation override is in force again after every navigation; every call returns without waiting for its deadline |

### Bounds

* `holder_safety`: views `page`, `other` (windows), `frame` (child of `page`),
  `inner` (child of `frame`); `other` is the non-blocking window;
  `MaxNesting = 3` nested methods.  Three levels of
  views are needed for a holder whose items are partly locked already (the
  `break` in the destructor), two windows for events that concern a view that
  is not executing, and three nested methods for an inner holder that dies
  between two outer ones.
* `bidi_queue`: connections `c1`, `c2`; one response id and events without id;
  `kBidiQueueCapacity = 2` (20 in the code: the queue logic depends only on
  whether the queue is full); `MaxPayloads = 4`, so the queue overflows twice
  and a connection can meet a full queue.
* `channel_routing`: connections 1 and 11; channels of up to 5 symbols (364 of
  them), which contains a client channel before the id, an empty one, a
  two-digit id, wrong and missing parts; up to two web views, the threshold of
  the code being one.
* `http_server`: connections 1 and 2; addresses `a1`, `a2` with the whitelist
  empty or `{a1}`, so that an address is met on the list, off the list, and
  with no list; `MaxRequests = 3` requests, upgrades and messages in all,
  enough for a request that is still pending when its connection upgrades and
  receives a message, and for two connections that interleave; five paths, one
  for each outcome of the path match (`session/s1`, `session/`, `s1/session`,
  `session`, `session/s1/`).
* `file_input`: paths `p1`, `p2` and one relative path; `MaxFiles = 2`, the
  least that has a loop of more than one turn and an element that shrinks or
  grows under it; `MaxObjects = 6` remote object ids, enough for an append
  over one file after another command or a whole append over two;
  `MaxNavigations = 1`; `MaxSeen = 2` file lists shown to one command, that is
  one change by the page, which is all a stale read needs.
* `input_dispatch`: lists of up to `MaxEvents = 3` events (first, middle and
  last differ); the mouse events pressed, moved without a button and wheel,
  the touch events start and cancel, two key events: one event of each kind
  the dispatchers treat differently; `MaxInbox = 5` commands not yet handled,
  so that a call can start while the events of the call before it are still
  queued.  The list of devices has a well-formed phone, a tablet with touch,
  a laptop without touch whose scale factor is an integer, one device for
  each of the six fields with that field of the wrong type, and an entry
  that is no dictionary; the names are every key of the list, a name that is
  none and a path of two parts that leads into a device.  Client hints name
  each of the seven platforms of the code and `iOS`, which it does not know;
  two major versions, so that a user agent is told from one of another
  version.

* `pipes`: `MaxFds = 8` descriptors, so that two pairs of pipes exist at once
  (a socket taken from the first, the builder set up again) and `CreatePipe`
  fails for want of descriptors when a third is asked for; `MaxSetUps = 3`
  pairs of pipes in all; `MaxRemap = 4` entries, the options used twice.
* `devtools`: the browser-wide client and one page session; `MaxCommands = 2`
  commands of the user, which is two sessions with a command of the same id,
  or a command left behind by `SendCommandAndIgnoreResponse` under a second
  one; `MaxEvents = 1` event of five kinds in either session.  One event is
  enough for the nesting: the manager's two commands are sent from inside its
  notification, their responses are read there and start passes of their own
  while `BidiTracker` has not heard the event yet.  Two events are beyond five
  minutes (30 million states with three kinds); with one the run has 524 000
  states.  The commands of listeners and the round trips are not counted: an
  event causes at most three.
* `page_commands`: two values, so that a value returned can be told from
  another; the deadline is one bit, which is all `IsExpired` gives the loop;
  `MaxEntries = 3` history entries, so that the current entry can have one
  before and one after it and a navigation of the page can cut the entries
  after it; one child frame id and `MaxDepth = 2`, so that the stack has a
  parent to go back to that is not the top.
* `connect`: all thirteen socket classes.  On a socket without sessions
  `MaxId = 7` command ids: the two of a handshake, a command that is lost,
  the handshake of the reconnection and two commands after it, one of which
  can give up at its deadline and have its answer arrive under the other; on
  an `OnConnectedSyncWebSocket` the two of the handshake, the three of
  `NumOnConnected = 3` listeners, as in the tests, and two commands.  On a
  socket with sessions a root and two children, `red` and `blue`, as in the
  tests `RoutingTwoChildren` and `RoutingWithEvent`, and
  `MaxSessionId = 3` ids for each: the handshake and one command, so that
  the three sessions have a command of id 3 each, sent in any order, waited
  for or not, and the ping of the listener is one of them.  With four ids
  the three socket classes have more than ten million states between them.
  On a socket whose status the test sets `MaxViewId = 5` ids: the handshake
  and three commands, so that a command can end with the status that was
  set, its answer still queued, and the next one find that answer before
  its own; with seven ids these two classes alone have five million states.

### Findings

* `OnWebSocketRequest` (http_server.cc 179) accepts an upgrade without
  `RequestIsSafeToServe`, and `OnWebSocketMessage` (193) passes the check with
  a request that has no headers: the guard the comment at lines 31-33
  describes does not apply to WebSockets.
* `DispatchTouchEventWithMultiPoints` (web_view_impl.cc 767-781) never waits
  when one of its events is a `touchCancel`, because the counter it compares
  with the size of the list skips the events it passes over.

Observed, without a run of its own:
`HandleMessagesAndTerminateIfNecessary` (part_006 375) asserts with a `DCHECK`
that the status it terminates for is a fatal one.  In the model the step in
which `HandleReceivedEvents` returns `kUnknownError` and
`GetTopLevelWebViewIds` returns `kOk` with one view reaches that line with a
status that is neither `kDisconnected` nor `kInvalidSessionId`.
`TerminatedForAReason` states what does hold: the session ends only when the
browser is gone or at most one view is left.

Two things grow without a limit in the code, and no comment or test says
they should not, so no property states it.  `SetFileInputFiles`
(web_view_impl.cc 1120) never releases the remote object of
`DOM.resolveNode` nor those of `files[i]`: every append leaves
1 + `files.length` objects in the page until it navigates (in
`WebViewFiles` they stay in `objects`).  `HttpServer::OnClose` never erases
the entry `OnWebSocketRequest` made in `connection_to_session_map`
(http_server.cc 196): the map holds every connection the server has ever
upgraded (in `HttpServer` the entry stays; connection ids are not reused, so
no state is wrong because of it).

### Fairness and liveness

`WebViewAsync` has the liveness property `CallWithDeadlineReturns`, under
weak fairness of `Poll` and `Expire`; it is checked in `WebViewPage`, whose
specification adds no fairness of its own, so that the call returns while the
page navigates, the window closes and the session switches frames:

* `Expire`: the loop sleeps at most 100 ms and `Timeout` reads the clock, so a
  deadline that is not `TimeDelta::Max()` passes.
* `Poll`: the browser answers `CallFunction`.  This is an assumption about the
  browser and not something the code ensures: the poll is sent without a
  deadline (web_view_impl.cc 559), so a browser that does not answer blocks
  the call beyond its deadline.  `PollFails` is not fair: a round trip may
  fail, but nothing obliges it to.

A call without a deadline whose script never reports polls for ever; the
property says nothing of it.

`DevToolsClient` has `EveryCallReturns`, under weak fairness of

* `Driver`, the steps of the thread that wait for nothing: the thread runs;
  `HandleReceivedEvents` reads with a deadline of zero, so its time-out is
  among them;
* the browser answering the oldest command of a session.  The browser runs
  the commands of a session one after the other, which is what the round trip
  after a dialog relies on; the command that opens a dialog leaves the queue
  without an answer.

The time-out of `SendCommand` is a step but not a fair one: the property says
that calls return because of what the client does, not because deadlines
pass.  Deadlock is checked as in the other runs: `HandleReceivedEvents` can
always be called, so the model never stops.

The other modules state safety only.  `BidiMailbox` and `CommandRpc` are
safety specifications (`Init /\ [][Next]_mailbox`, `Init /\ [][Next]_rpc`),
so the refinements carry no liveness obligation.

## 4. Plan

Done: `WebViewHolder`, `SessionBidi` with its abstract specification
`BidiMailbox`, `SessionChannel`, `HttpServer`, `WebViewFiles`, `WebViewInput`,
`WebViewAsync`, `WebViewPage`, `PipeBuilder`, `DevToolsClient` with its
abstract specification `CommandRpc`, `DevToolsConnect`, `MobileDevice`.

Next, in this order:

1. `HttpServer` composed with `SessionBidi` through `AddBidiConnection` /
   `RemoveBidiConnection`: the tasks `OnWebSocketRequest` and `OnClose` post
   are the connections that open and close in `SessionBidi`.
2. `WebViewHolder` over `DevToolsClient`: the detach events that reach
   `PageTracker` are events the client reads inside a command of the view.
3. `BidiTracker` as the link between `DevToolsClient` and `SessionChannel`:
   the payloads it forwards are the messages `OnBidiResponse` routes.

## 5. Not modelled

* `PipeConnection`: the sources hold its tests only
  (`chrome/pipe_connection_unittest.cc` 1-441), and the specification leaves
  the pipe transport out of scope.  `PipeBuilder` models the descriptors it
  is built from.
* `MockSyncWebSocket6` and `MockSyncWebSocket7`: their expectations are
  those of the one scenario their test scripts (the second answers ids 1
  and 2 and expects exactly two commands to have been sent), so they say
  nothing of a client that is called in another order.  The command
  handlers a test adds to `StubSyncWebSocket`.  Children on the socket of
  the tests of `WebViewImpl`, and `SyncWebSocketWrapper`, which passes
  every call on to the socket it wraps.
* The service-worker view, `CastTracker` and the other trackers a view
  creates: the sources give their names only.
* The parsing of capabilities and the session commands other than the frame
  switches: the sources hold tests of them, not their code.  With them go
  the callers of `MobileDevice`, which decide when a platform is guessed and
  when a user agent is reduced.
* The device list that does not parse: `kMobileDevices` is generated at
  build time and is not among the sources.
* `ChromeAndroidImpl` and the Chrome finder (process and file system I/O),
  `StubWebView` (a test double without state), JavaScript test pages, build
  files.
* What a message, a script or a cookie says: payloads are model values, and
  the formatting of commands is left out throughout.
