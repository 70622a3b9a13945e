--------------------------- MODULE DevToolsClient ---------------------------
(***************************************************************************)
(* DevToolsClientImpl: the synchronous client of the browser's debugging   *)
(* protocol.  One root client owns the socket; every other client is a     *)
(* child of it and stands for one session of the same socket.              *)
(*                                                                         *)
(* The driver is one thread.  A call that waits (SendCommand,              *)
(* HandleReceivedEvents) reads the socket itself, and what it reads is     *)
(* handled where it is read: an event is handed to the listeners of the    *)
(* client it is for, a response is stored with the command it answers.  A  *)
(* listener may call the client again, so the calls nest: `stack` is the   *)
(* call stack of the thread, and only its top frame takes steps.           *)
(*                                                                         *)
(* The class is declared in chrome/page_tracker.cc; the bodies of its      *)
(* methods are modelled from the specification of the system (sections 4.2 *)
(* to 4.4) and from what chrome/devtools_client_impl_unittest.cc expects.  *)
(* The listeners MobileEmulationOverrideManager and BidiTracker are        *)
(* modelled from their sources.  The browser is the environment.           *)
(***************************************************************************)
EXTENDS Naturals, Sequences, FiniteSets, SequencesExt

CONSTANTS
    Clients,       \* the DevToolsClientImpl objects
    Root,          \* the one with the socket; the others are its children_
    listeners_,    \* client -> the classes of its listeners, in the order
                   \* of AddListener
    EventKinds,    \* the <<method, argument>> of the events the browser emits
    MaxCommands,   \* bound: commands the user of the clients sends
    MaxEvents,     \* bound: events the browser emits
    None           \* no message

VARIABLES
    next_id_,             \* client -> id of its next command
    info,                 \* client -> its ResponseInfo objects, by command id
    response_info_map_,   \* client -> the ids that are keys of the map
    crashed_,             \* client -> Inspector.targetCrashed was received
    unnotified,           \* client -> pass -> unnotified_*_listeners_ and
                          \* what they are to be told of
    stack,                \* the call stack of the thread, innermost last
    socket,               \* browser -> driver: messages not yet read
    pending,              \* browser: client -> commands not yet answered
    applied,              \* browser: client -> the overrides in force
    stuck,                \* browser: client -> ids of the commands that
                          \* opened a dialog and are not answered
    sequential,           \* browser: all commands were answered oldest first
    emitted,              \* browser: events emitted
    routed,               \* history: client -> the messages read for its
                          \* listeners, in order
    heard,                \* history: client -> listener -> what it was told
    failed,               \* history: clients a call on which returned an error
    aborted,              \* history: clients a listener of which failed
    calls                 \* history: commands the user has sent

clientVars == <<next_id_, info, response_info_map_, crashed_, unnotified>>
browserVars == <<socket, applied, stuck, sequential, emitted>>
historyVars == <<routed, heard, failed, aborted>>
vars == <<clientVars, stack, pending, browserVars, historyVars, calls>>

\* All but the stack.
state == <<clientVars, pending, browserVars, historyVars, calls>>

-----------------------------------------------------------------------------
(* Messages, listeners and frames                                          *)

ResponseState == {"kWaiting", "kBlocked", "kIgnored", "kReceived"}

StatusCode ==
    {"kOk", "kUnknownError", "kTimeout", "kTabCrashed", "kDisconnected",
     "kUnexpectedAlertOpen"}

ListenerClasses ==
    {"MobileEmulationOverrideManager", "BidiTracker", "MockCommandListener"}

ASSUME /\ Root \in Clients
       /\ listeners_ \in [Clients -> Seq(ListenerClasses)]

kDialog == <<"Page.javascriptDialogOpening", "none">>

Passes == {"event", "cmd_response"}

NoCursor == [listeners |-> <<>>, of |-> None]

\* A pass over every listener of the client, for message m.
AllOf(c, m) == [listeners |-> [i \in DOMAIN listeners_[c] |-> i], of |-> m]

Event(c, kind, serial) ==
    [type |-> "event", session |-> c, id |-> serial,
     method |-> kind[1], arg |-> kind[2], ok |-> TRUE]

Response(c, command, ok) ==
    [type |-> "response", session |-> c, id |-> command.id,
     method |-> command.method, arg |-> "none", ok |-> ok]

\* ApplyOverrideIfNeeded of a manager with metrics that emulate touch: the
\* commands it sends, each only if the one before succeeded.
ApplyOverrideIfNeeded ==
    <<"Page.setDeviceMetricsOverride", "Emulation.setTouchEmulationEnabled">>

MainFrameNavigated_HasParent(m) ==
    m.method = "Page.frameNavigated" /\ m.arg # "main"

\* A Page.frameNavigated of the frame without frame.parentId.
MainFrameNavigated(m) ==
    m.method = "Page.frameNavigated" /\ m.arg = "main"

\* The calls a listener makes on its client when it is told of m.
\* MobileEmulationOverrideManager::OnEvent applies the override again when
\* the main frame has navigated; MockCommandListener::OnCommandSuccess runs
\* its callback_, which calls HandleReceivedEvents; BidiTracker::OnEvent
\* calls nothing.
OnEvent(class, m) ==
    CASE class = "MobileEmulationOverrideManager" /\ MainFrameNavigated(m)
             -> ApplyOverrideIfNeeded
      [] class = "MockCommandListener" /\ m.type = "response"
             -> <<"HandleReceivedEvents">>
      [] OTHER -> <<>>

\* BidiTracker::OnEvent fails on a Runtime.bindingCalled without `name`,
\* or of sendBidiResponse without `payload`.
Malformed(class, m) ==
    /\ class = "BidiTracker"
    /\ m.method = "Runtime.bindingCalled"
    /\ m.arg \in {"no name", "no payload"}

\* MobileEmulationOverrideManager returns the error of the SendCommand that
\* failed; the callback of MockCommandListener returns nothing.
Propagates(class) == class = "MobileEmulationOverrideManager"

Loops == {"SendCommand", "HandleEvents"}

LoopFrame(kind, c, id) ==
    [kind |-> kind, client |-> c, id |-> id, pc |-> "loop", at |-> c,
     event |-> None, max_id |-> 0, status |-> "kOk"]

ListenerFrame(c, i, pass, m) ==
    [kind |-> "listener", client |-> c, listener |-> i, pass |-> pass,
     todo |-> OnEvent(listeners_[c][i], m),
     status |-> IF Malformed(listeners_[c][i], m)
                THEN "kUnknownError" ELSE "kOk"]

Top == Last(stack)

\* The top frame is a call of one of `kinds`, at one of `pcs`.
At(kinds, pcs) == stack # <<>> /\ Top.kind \in kinds /\ Top.pc \in pcs

\* The top frame is a listener that is being told of a message.
InListener == stack # <<>> /\ Top.kind = "listener"

ReplaceTop(f) == Append(Front(stack), f)

Goto(pc) == stack' = ReplaceTop([Top EXCEPT !.pc = pc])

\* ProcessNextMessage returns an error to the loop, which returns it.
Fail(code) ==
    stack' = ReplaceTop([Top EXCEPT !.pc = "return", !.status = code])

-----------------------------------------------------------------------------
(* Sending                                                                 *)

NextId_Same(c) == next_id_[c]

\* next_id_++
NextId(c) == next_id_[c] + 1

\* SendCommandInternal up to the write: the command takes the next id, its
\* ResponseInfo is put in the map, and the browser has the command.
Register(c, method, initial) ==
    /\ next_id_' = [next_id_ EXCEPT ![c] = NextId(c)]
    /\ info' = [info EXCEPT ![c] =
                    Append(@, [state |-> initial, response |-> None])]
    /\ response_info_map_' =
           [response_info_map_ EXCEPT ![c] = @ \cup {next_id_[c]}]
    /\ pending' = [pending EXCEPT ![c] =
                       Append(@, [id |-> next_id_[c], method |-> method])]

\* The user calls SendCommand, which waits for the response, or
\* SendCommandAndIgnoreResponse, which returns once the command is written
\* and leaves its entry in the map as kIgnored.
SendCommand(c, wait_for_response) ==
    /\ stack = <<>>
    /\ calls < MaxCommands
    /\ calls' = calls + 1
    /\ IF wait_for_response
       THEN /\ Register(c, "method", "kWaiting")
            /\ stack' = <<LoopFrame("SendCommand", c, next_id_[c])>>
       ELSE /\ Register(c, "method", "kIgnored")
            /\ UNCHANGED stack
    /\ UNCHANGED <<crashed_, unnotified, browserVars, historyVars>>

\* HandleReceivedEvents: handle what has arrived, and return.
HandleReceivedEvents(c) ==
    /\ stack = <<>>
    /\ stack' = <<LoopFrame("HandleEvents", c, 0)>>
    /\ UNCHANGED state

\* A listener that is running makes the next of its calls, on the client it
\* listens to.
ListenerCalls ==
    /\ InListener
    /\ Top.status = "kOk" /\ Top.todo # <<>>
    /\ LET c == Top.client
           call == Head(Top.todo)
           caller == ReplaceTop([Top EXCEPT !.todo = Tail(@)])
       IN  \/ /\ call = "HandleReceivedEvents"
              /\ stack' = Append(caller, LoopFrame("HandleEvents", c, 0))
              /\ UNCHANGED <<next_id_, info, response_info_map_, pending>>
           \/ /\ call # "HandleReceivedEvents"
              /\ Register(c, call, "kWaiting")
              /\ stack' = Append(caller,
                                 LoopFrame("SendCommand", c, next_id_[c]))
    /\ UNCHANGED <<crashed_, unnotified, browserVars, historyVars, calls>>

-----------------------------------------------------------------------------
(* Returning                                                               *)

\* What a frame makes of the status of the call it made: a listener keeps
\* the error if it is one that returns it; ProcessEvent goes on to mark the
\* commands the dialog blocks.
Deliver(f, status) ==
    IF f.kind = "listener"
    THEN [f EXCEPT !.status =
              IF Propagates(listeners_[f.client][f.listener])
              THEN status ELSE @]
    ELSE [f EXCEPT !.pc = "mark", !.status = status]

\* The top frame returns `status` to its caller.
Return(status) ==
    /\ stack' = IF Len(stack) = 1 THEN <<>>
                ELSE Append(Front(Front(stack)),
                            Deliver(Last(Front(stack)), status))
    /\ failed' = IF status = "kOk" THEN failed ELSE failed \cup {Top.client}

Notified_NoResume(c) == TRUE

\* EnsureListenersNotifiedOfEvent and ...OfCommandResponse have nothing left.
Notified(c) == \A pass \in Passes : unnotified[c][pass].listeners = <<>>

\* while (response_info->state == kWaiting) has ended, at its head or when
\* ProcessNextMessage has found the response there after the passes: a
\* blocked command becomes kIgnored and returns kUnexpectedAlertOpen, a
\* received one returns what the browser answered.
SendCommandReturns ==
    /\ At({"SendCommand"}, {"loop", "pnm"})
    /\ Top.pc = "pnm" => Notified(Top.client)
    /\ LET c == Top.client
           response_info == info[c][Top.id]
       IN  \/ /\ response_info.state = "kBlocked"
              /\ info' = [info EXCEPT ![c][Top.id].state = "kIgnored"]
              /\ Return("kUnexpectedAlertOpen")
           \/ /\ response_info.state = "kReceived"
              /\ UNCHANGED info
              /\ Return(IF response_info.response.ok
                        THEN "kOk" ELSE "kUnknownError")
    /\ UNCHANGED <<next_id_, response_info_map_, crashed_, unnotified,
                   pending, browserVars, routed, heard, aborted, calls>>

\* HandleReceivedEvents returns when the socket has no message, and either
\* loop returns the error ProcessNextMessage came back with.
LoopReturns ==
    /\ \/ At({"HandleEvents"}, {"loop"}) /\ socket = <<>> /\ Return("kOk")
       \/ At(Loops, {"return"}) /\ Return(Top.status)
    /\ UNCHANGED <<clientVars, pending, browserVars, routed, heard, aborted,
                   calls>>

\* A listener returns.  With an error the pass ends: the cursor is cleared
\* and the error is what ProcessNextMessage returns.
ListenerReturns ==
    /\ InListener
    /\ LET notifier == Last(Front(stack))
       IN  \/ /\ Top.status = "kOk" /\ Top.todo = <<>>
              /\ stack' = Front(stack)
              /\ UNCHANGED <<unnotified, aborted>>
           \/ /\ Top.status # "kOk"
              /\ unnotified' = [unnotified EXCEPT
                                    ![Top.client][Top.pass] = NoCursor]
              /\ stack' = Append(Front(Front(stack)),
                                 [notifier EXCEPT !.pc = "return",
                                                  !.status = Top.status])
              /\ aborted' = aborted \cup {Top.client}
    /\ UNCHANGED <<next_id_, info, response_info_map_, crashed_, pending,
                   browserVars, routed, heard, failed, calls>>

-----------------------------------------------------------------------------
(* ProcessNextMessage                                                      *)

\* The loop of the frame goes round once more.
Waiting(f) ==
    IF f.kind = "SendCommand"
    THEN info[f.client][f.id].state = "kWaiting"
    ELSE socket # <<>>

\* The frame is in ProcessNextMessage of its own client.
Entered(f) == f.pc = "pnm" \/ (f.pc = "loop" /\ Waiting(f))

\* The client whose listeners the frame is telling, or reads for.
Running(f) ==
    CASE f.pc \in {"loop", "pnm"} -> f.client
      [] f.pc = "parent" -> Root
      [] OTHER -> f.at

\* The passes the frame may go on with: in ProcessNextMessage those that
\* were interrupted, an event before a response; in ProcessEvent and
\* ProcessCommandResponse its own.
MayNotify(f, pass) ==
    CASE f.pc \in {"loop", "pnm", "parent"} ->
             /\ f.pc = "parent" \/ Entered(f)
             /\ pass = "event" \/ unnotified[Running(f)]["event"].listeners = <<>>
      [] f.pc = "ProcessEvent" -> pass = "event"
      [] f.pc = "ProcessCommandResponse" -> pass = "cmd_response"
      [] OTHER -> FALSE

\* The next listener of a cursor is told: one turn of the loop of
\* EnsureListenersNotifiedOfEvent or ...OfCommandResponse.
Notify(pass) ==
    /\ At(Loops, {"loop", "pnm", "parent", "ProcessEvent",
                  "ProcessCommandResponse"})
    /\ MayNotify(Top, pass)
    /\ LET c == Running(Top)
           cursor == unnotified[c][pass]
           i == Head(cursor.listeners)
       IN  /\ cursor.listeners # <<>>
           /\ unnotified' = [unnotified EXCEPT
                                 ![c][pass].listeners = Tail(@)]
           /\ heard' = [heard EXCEPT ![c][i] = Append(@, cursor.of)]
           /\ stack' = Append(
                  ReplaceTop([Top EXCEPT
                                  !.pc = IF @ = "loop" THEN "pnm" ELSE @]),
                  ListenerFrame(c, i, pass, cursor.of))
    /\ UNCHANGED <<next_id_, info, response_info_map_, crashed_, pending,
                   browserVars, routed, failed, aborted, calls>>

\* The frame is past the passes and the expected id of its own client.
Checked(f) ==
    /\ Entered(f)
    /\ Notified(f.client)
    /\ f.kind = "SendCommand" => Waiting(f)

\* if (crashed_) return Status(kTabCrashed), of the client and of its parent.
TabCrashed ==
    /\ At(Loops, {"loop", "pnm", "parent"})
    /\ \/ Checked(Top) /\ crashed_[Top.client]
       \/ Top.pc = "parent" /\ Notified(Root) /\ crashed_[Root]
    /\ Fail("kTabCrashed")
    /\ UNCHANGED state

\* A child reads through its parent: parent_->ProcessNextMessage(-1, ...).
Delegate ==
    /\ At(Loops, {"loop", "pnm"})
    /\ Checked(Top)
    /\ Top.client # Root
    /\ ~crashed_[Top.client]
    /\ Goto("parent")
    /\ UNCHANGED state

\* The frame is about to read the socket.
AtSocket(f) ==
    /\ f.kind \in Loops
    /\ ~crashed_[Root]
    /\ \/ Checked(f) /\ f.client = Root
       \/ f.pc = "parent" /\ Notified(Root)

HandleMessage_ToTheCaller(f, m) == f.client

\* HandleMessage: the client a message is for is the one of its session.
HandleMessage(f, m) == m.session

\* ProcessCommandResponse: the response is stored unless the command no
\* longer cares for it.
ProcessCommandResponse(response_info, m) ==
    IF response_info.state = "kIgnored"
    THEN response_info
    ELSE [state |-> "kReceived", response |-> m]

\* ReceiveNextMessage and HandleMessage.  An event starts a pass over the
\* listeners of its client (ProcessEvent).  A response leaves the map and is
\* stored in its ResponseInfo, and one with a result starts a pass as well
\* (ProcessCommandResponse).
Receive ==
    /\ stack # <<>>
    /\ AtSocket(Top)
    /\ socket # <<>>
    /\ LET m == Head(socket)
           c == HandleMessage(Top, m)
           pass == IF m.type = "event" THEN "event" ELSE "cmd_response"
       IN  /\ socket' = Tail(socket)
           /\ IF m.type = "event"
              THEN UNCHANGED <<info, response_info_map_>>
              ELSE /\ m.id \in response_info_map_[c]
                   /\ response_info_map_' =
                          [response_info_map_ EXCEPT ![c] = @ \ {m.id}]
                   /\ info' = [info EXCEPT ![c][m.id] =
                                   ProcessCommandResponse(@, m)]
           /\ IF m.ok
              THEN /\ unnotified' = [unnotified EXCEPT
                                         ![c][pass] = AllOf(c, m)]
                   /\ routed' = [routed EXCEPT ![c] = Append(@, m)]
                   /\ stack' = ReplaceTop(
                          [Top EXCEPT !.at = c, !.event = m,
                                      !.pc = IF m.type = "event"
                                             THEN "ProcessEvent"
                                             ELSE "ProcessCommandResponse"])
              ELSE /\ Goto("loop")
                   /\ UNCHANGED <<unnotified, routed>>
    /\ UNCHANGED <<next_id_, crashed_, pending, applied, stuck, sequential,
                   emitted, heard, failed, aborted, calls>>

\* Nothing arrives before the deadline of the call.
Timeout(kind) ==
    /\ stack # <<>>
    /\ AtSocket(Top)
    /\ Top.kind = kind
    /\ socket = <<>>
    /\ Fail("kTimeout")
    /\ UNCHANGED state

\* ProcessCommandResponse after the pass.
ResponseProcessed ==
    /\ At(Loops, {"ProcessCommandResponse"})
    /\ unnotified[Top.at]["cmd_response"].listeners = <<>>
    /\ unnotified' = [unnotified EXCEPT ![Top.at]["cmd_response"] = NoCursor]
    /\ Goto("loop")
    /\ UNCHANGED <<next_id_, info, response_info_map_, crashed_, pending,
                   browserVars, historyVars, calls>>

\* ProcessEvent after the pass.  Inspector.detached and
\* Inspector.targetCrashed end the call with an error.  After
\* Page.javascriptDialogOpening the client makes a round trip with
\* Inspector.enable, to see which commands the dialog blocks.
ProcessEvent ==
    /\ At(Loops, {"ProcessEvent"})
    /\ unnotified[Top.at]["event"].listeners = <<>>
    /\ unnotified' = [unnotified EXCEPT ![Top.at]["event"] = NoCursor]
    /\ LET c == Top.at
           method == Top.event.method
       IN  \/ /\ method = "Inspector.detached"
              /\ Fail("kDisconnected")
              /\ UNCHANGED <<next_id_, info, response_info_map_, crashed_,
                             pending>>
           \/ /\ method = "Inspector.targetCrashed"
              /\ crashed_' = [crashed_ EXCEPT ![c] = TRUE]
              /\ Fail("kTabCrashed")
              /\ UNCHANGED <<next_id_, info, response_info_map_, pending>>
           \/ /\ method = kDialog[1]
              /\ Register(c, "Inspector.enable", "kWaiting")
              /\ stack' = Append(
                     ReplaceTop([Top EXCEPT !.pc = "dialog",
                                            !.max_id = next_id_[c]]),
                     LoopFrame("SendCommand", c, next_id_[c]))
              /\ UNCHANGED crashed_
           \/ /\ method \notin {"Inspector.detached",
                                "Inspector.targetCrashed", kDialog[1]}
              /\ Goto("loop")
              /\ UNCHANGED <<next_id_, info, response_info_map_, crashed_,
                             pending>>
    /\ UNCHANGED <<browserVars, historyVars, calls>>

Blocked_IssuedLater(c, id, max_id) ==
    id > max_id /\ info[c][id].state = "kWaiting"

Blocked_UpToMax(c, id, max_id) == id <= max_id

\* The commands a dialog blocks: those sent up to the round trip that have
\* no response when the round trip has returned.
Blocked(c, id, max_id) ==
    /\ id \in response_info_map_[c]
    /\ id <= max_id
    /\ info[c][id].state = "kWaiting"

\* The round trip has returned: the blocked commands are marked, and the
\* error of the round trip, if any, is returned.
MarkBlocked ==
    /\ At(Loops, {"mark"})
    /\ info' = [info EXCEPT ![Top.at] =
                    [id \in DOMAIN @ |->
                        IF Blocked(Top.at, id, Top.max_id)
                        THEN [@[id] EXCEPT !.state = "kBlocked"]
                        ELSE @[id]]]
    /\ Goto(IF Top.status = "kOk" THEN "loop" ELSE "return")
    /\ UNCHANGED <<next_id_, response_info_map_, crashed_, unnotified,
                   pending, browserVars, historyVars, calls>>

-----------------------------------------------------------------------------
(* The browser                                                             *)

Overrides == ToSet(ApplyOverrideIfNeeded)

\* The browser answers a command, with a result or with an error.  A command
\* that sets an override puts it in force.
BrowserAnswers(c, i, ok) ==
    /\ i \in DOMAIN pending[c]
    /\ LET command == pending[c][i]
       IN  /\ socket' = Append(socket, Response(c, command, ok))
           /\ applied' = [applied EXCEPT ![c] =
                              IF ok THEN @ \cup ({command.method} \cap Overrides)
                              ELSE @]
    /\ pending' = [pending EXCEPT ![c] = RemoveAt(@, i)]
    /\ sequential' = (sequential /\ i = 1)
    /\ UNCHANGED <<clientVars, stack, stuck, emitted, historyVars, calls>>

\* The command the browser is running opens a dialog: the browser tells of
\* the dialog, leaves the command unanswered, and goes on with the next.
BrowserOpensDialog(c) ==
    /\ kDialog \in EventKinds
    /\ emitted < MaxEvents
    /\ pending[c] # <<>>
    /\ Head(pending[c]).method # "Inspector.enable"
    /\ emitted' = emitted + 1
    /\ socket' = Append(socket, Event(c, kDialog, emitted + 1))
    /\ stuck' = [stuck EXCEPT ![c] = @ \cup {Head(pending[c]).id}]
    /\ pending' = [pending EXCEPT ![c] = Tail(@)]
    /\ UNCHANGED <<clientVars, stack, applied, sequential, historyVars,
                   calls>>

\* The browser tells of something that happened in a session.  A navigation
\* of the main frame ends the overrides of the page.
BrowserEmits(c, kind) ==
    /\ kind # kDialog
    /\ emitted < MaxEvents
    /\ emitted' = emitted + 1
    /\ socket' = Append(socket, Event(c, kind, emitted + 1))
    /\ applied' = [applied EXCEPT ![c] =
                       IF kind = <<"Page.frameNavigated", "main">>
                       THEN {} ELSE @]
    /\ UNCHANGED <<clientVars, stack, pending, stuck, sequential,
                   historyVars, calls>>

-----------------------------------------------------------------------------

\* The clients are connected and their listeners have been told so: the
\* overrides are in force where a manager listens.
Init ==
    /\ next_id_ = [c \in Clients |-> 1]
    /\ info = [c \in Clients |-> <<>>]
    /\ response_info_map_ = [c \in Clients |-> {}]
    /\ crashed_ = [c \in Clients |-> FALSE]
    /\ unnotified = [c \in Clients |-> [pass \in Passes |-> NoCursor]]
    /\ stack = <<>>
    /\ socket = <<>>
    /\ pending = [c \in Clients |-> <<>>]
    /\ applied = [c \in Clients |->
                     IF "MobileEmulationOverrideManager" \in ToSet(listeners_[c])
                     THEN Overrides ELSE {}]
    /\ stuck = [c \in Clients |-> {}]
    /\ sequential = TRUE
    /\ emitted = 0
    /\ routed = [c \in Clients |-> <<>>]
    /\ heard = [c \in Clients |-> [i \in DOMAIN listeners_[c] |-> <<>>]]
    /\ failed = {}
    /\ aborted = {}
    /\ calls = 0

\* The steps of the thread that do not wait for anything.
Driver ==
    \/ ListenerCalls
    \/ ListenerReturns
    \/ SendCommandReturns
    \/ LoopReturns
    \/ \E pass \in Passes : Notify(pass)
    \/ TabCrashed
    \/ Delegate
    \/ Receive
    \/ Timeout("HandleEvents")
    \/ ResponseProcessed
    \/ ProcessEvent
    \/ MarkBlocked

\* The thread is where it looks at the socket: between two calls of the
\* user, or about to read, or asking HasNextMessage.
Reading == stack # <<>> => AtSocket(Top) \/ At({"HandleEvents"}, {"loop"})

\* The browser runs beside the thread.  Its steps are taken where the thread
\* looks at the socket: a step of the browser and a step of the thread that
\* does not look at the socket give the same state in either order.
Browser ==
    /\ Reading
    /\ \/ \E c \in Clients, ok \in BOOLEAN :
              \E i \in DOMAIN pending[c] : BrowserAnswers(c, i, ok)
       \/ \E c \in Clients : BrowserOpensDialog(c)
       \/ \E c \in Clients, kind \in EventKinds : BrowserEmits(c, kind)

Next ==
    \/ \E c \in Clients, wait \in BOOLEAN : SendCommand(c, wait)
    \/ \E c \in Clients : HandleReceivedEvents(c)
    \/ Driver
    \/ Timeout("SendCommand")
    \/ Browser

\* The thread runs, HandleReceivedEvents does not wait, and the browser
\* answers the oldest command of a session unless it opens a dialog.
Fairness ==
    /\ WF_vars(Driver)
    /\ WF_vars(\E c \in Clients, ok \in BOOLEAN :
                   Reading /\ BrowserAnswers(c, 1, ok))

Spec == Init /\ [][Next]_vars /\ Fairness

-----------------------------------------------------------------------------

Message ==
    [type : {"event", "response"}, session : Clients, id : Nat,
     method : STRING, arg : STRING, ok : BOOLEAN]

Frame ==
    [kind : Loops, client : Clients, id : Nat,
     pc : {"loop", "pnm", "parent", "ProcessEvent", "ProcessCommandResponse",
           "dialog", "mark", "return"},
     at : Clients, event : Message \cup {None}, max_id : Nat,
     status : StatusCode]
        \cup [kind : {"listener"}, client : Clients, listener : Nat,
              pass : Passes, todo : Seq(STRING), status : StatusCode]

TypeOK ==
    /\ next_id_ \in [Clients -> 1..(MaxCommands + 3 * MaxEvents + 1)]
    /\ \A c \in Clients :
           /\ info[c] \in Seq([state : ResponseState,
                               response : Message \cup {None}])
           /\ Len(info[c]) = next_id_[c] - 1
           /\ response_info_map_[c] \subseteq DOMAIN info[c]
           /\ \A pass \in Passes :
                  /\ unnotified[c][pass].listeners \in Seq(DOMAIN listeners_[c])
                  /\ unnotified[c][pass].of \in Message \cup {None}
           /\ pending[c] \in Seq([id : DOMAIN info[c], method : STRING])
           /\ applied[c] \subseteq Overrides
           /\ stuck[c] \subseteq DOMAIN info[c]
           /\ routed[c] \in Seq(Message)
           /\ \A i \in DOMAIN listeners_[c] : heard[c][i] \in Seq(Message)
    /\ crashed_ \in [Clients -> BOOLEAN]
    /\ stack \in Seq(Frame)
    /\ socket \in Seq(Message)
    /\ failed \subseteq Clients /\ aborted \subseteq Clients
    /\ sequential \in BOOLEAN
    /\ calls \in 0..MaxCommands /\ emitted \in 0..MaxEvents

\* What is left of a response when it is stored with its command.
Stored(response) ==
    IF response = None THEN None
    ELSE [session |-> response.session, id |-> response.id,
          ok |-> response.ok]

\* The clients as the senders of CommandRpc: the ResponseInfo objects of a
\* client are its commands, in the order of their ids, and the keys of
\* response_info_map_ are the commands whose answer is still to come.
Rpc ==
    INSTANCE CommandRpc WITH
        commands <- [c \in Clients |->
                        [id \in DOMAIN info[c] |->
                            [state  |-> info[c][id].state,
                             answer |-> Stored(info[c][id].response)]]],
        awaited  <- response_info_map_

\* Every step of SendCommandInternal, ProcessCommandResponse and of the
\* marking after a dialog is a step of CommandRpc or leaves the commands as
\* they are: a response resolves the command of its own session and id and
\* no other, although two clients have commands with the same id, since
\* each counts from one (HandleMessage finds the client by the session id
\* of the message); a command is answered at most once and keeps its
\* answer; kIgnored is final; and only a command that still waits for its
\* answer is marked kBlocked, whatever is read in between by the calls of
\* listeners.
ImplementsCommandRpc == Rpc!Spec

\* Every listener of a client is told of every event and every successful
\* response of the client, in the order they were read, and no message is
\* handed to the listeners before all of them have been told of the one
\* before - although a listener that is being told may send a command or
\* handle events itself, and the next message is then read under it
\* (EnsureListenersNotifiedOfEvent and ...OfCommandResponse at the head of
\* ProcessNextMessage).  A pass that a listener ends with an error is the
\* exception.
ListenersHearInOrder ==
    \A c \in Clients \ aborted : \A i \in DOMAIN listeners_[c] :
        /\ IsPrefix(heard[c][i], routed[c])
        /\ Len(routed[c]) <= Len(heard[c][i]) + 1

\* kBlocked is "blocked by an alert that the command triggered": when the
\* round trip of ProcessEvent has come back and the browser answers the
\* commands of a session in the order it got them, the commands MarkBlocked
\* marks are commands that opened a dialog and that the browser will not
\* answer.
BlockedByItsAlert ==
    [][/\ At(Loops, {"mark"})
       /\ sequential /\ Top.status = "kOk"
       => \A id \in DOMAIN info[Top.at] :
              /\ info[Top.at][id].state # "kBlocked"
              /\ info'[Top.at][id].state = "kBlocked"
              => id \in stuck[Top.at]]_vars

\* MobileEmulationOverrideManager keeps the override in force across
\* navigations: when the thread is back from its calls and has read all the
\* browser sent, and no call on the client has failed, the override is
\* applied, however the navigations, the answers and the manager's own
\* commands were interleaved.
OverrideSurvivesNavigation ==
    \A c \in Clients \ failed :
        /\ "MobileEmulationOverrideManager" \in ToSet(listeners_[c])
        /\ stack = <<>> /\ socket = <<>>
        => applied[c] = Overrides

\* Every call returns, as long as the browser answers the commands that no
\* dialog blocks: a command that a dialog blocks is found by the round trip
\* of ProcessEvent and returns kUnexpectedAlertOpen instead of waiting for
\* its deadline.
EveryCallReturns == (stack # <<>>) ~> (stack = <<>>)

=============================================================================
