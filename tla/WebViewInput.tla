---------------------------- MODULE WebViewInput ----------------------------
(***************************************************************************)
(* The input dispatchers of WebViewImpl (chrome/web_view_impl.cc):         *)
(* DispatchMouseEvents, DispatchTouchEventsForMouseEvents,                 *)
(* DispatchTouchEvents, DispatchTouchEventWithMultiPoints and              *)
(* DispatchKeyEvents.                                                      *)
(*                                                                         *)
(* A dispatcher sends one protocol command per event.  All but the last    *)
(* go out with SendCommandAndIgnoreResponse, which returns once the        *)
(* command is written; the last goes out with SendCommand, which returns   *)
(* when the browser has answered it, and the browser answers in the order  *)
(* it was asked.  `inbox` is what the browser has been sent and has not    *)
(* handled yet; the field `earlier` of a command there is history: the     *)
(* command is of a call that has returned.                                 *)
(*                                                                         *)
(* Whether a mouse event goes out as a touch event is decided by the       *)
(* device metrics the view was made with.  They are those of the           *)
(* MobileDevice the set-up of the session has found, if it has found one;  *)
(* the set-up is the module MobileDevice, and it ends when the view is     *)
(* made.                                                                   *)
(***************************************************************************)
EXTENDS Naturals, Sequences, FiniteSets, SequencesExt

CONSTANTS
    MaxEvents,        \* bound on the events of one call
    MaxInbox,         \* bound on the commands the browser has not handled yet
    kMobileDevices, DeviceNames, MajorVersions, OtherPlatforms, None
                      \* those of MobileDevice

ASSUME {MaxEvents, MaxInbox} \subseteq Nat

VARIABLES
    mobile_device, reduced_user_agent, platform, returned,
                      \* those of MobileDevice
    overridden_device_metrics_,
                      \* of the MobileEmulationOverrideManager of the view
    call,             \* the dispatcher that runs or ran last, and its flag
    events,           \* the events it has not come to yet
    touch_count,      \* the counter of DispatchTouchEventWithMultiPoints
    pc,               \* "setup" (no view yet), "idle", "send" (in the
                      \* loop), "wait" (in SendCommand)
    inbox,            \* commands written to the browser, oldest first
    status            \* the Status the last call returned

Device == INSTANCE MobileDevice

\* What the set-up leaves to the view, and what is left of the set-up.
made == <<overridden_device_metrics_, mobile_device, reduced_user_agent,
          platform, returned>>

view == <<call, events, touch_count, pc, inbox, status>>

vars == <<made, view>>

\* MobileEmulationOverrideManager::IsEmulatingTouch().
IsEmulatingTouch ==
    overridden_device_metrics_ # None /\ overridden_device_metrics_.touch

MouseEventType == {"kPressedMouseEventType", "kReleasedMouseEventType",
                   "kMovedMouseEventType", "kWheelMouseEventType"}
TouchEventType == {"kTouchStart", "kTouchEnd", "kTouchMove", "kTouchCancel"}
KeyEventType == {"kKeyDownEventType", "kKeyUpEventType",
                 "kRawKeyDownEventType", "kCharEventType"}

\* What the dispatchers read of an event to decide what to send and how.
MouseEvent == [type : MouseEventType, button : BOOLEAN]
TouchEvent == [type : TouchEventType]
KeyEvent == [type : KeyEventType]

Dispatchers ==
    {"DispatchMouseEvents", "DispatchTouchEventsForMouseEvents",
     "DispatchTouchEvents", "DispatchTouchEventWithMultiPoints",
     "DispatchKeyEvents"}

GetAsString ==
    [kPressedMouseEventType |-> "mousePressed",
     kReleasedMouseEventType |-> "mouseReleased",
     kMovedMouseEventType |-> "mouseMoved",
     kWheelMouseEventType |-> "mouseWheel",
     kTouchStart |-> "touchStart", kTouchEnd |-> "touchEnd",
     kTouchMove |-> "touchMove", kTouchCancel |-> "touchCancel",
     kKeyDownEventType |-> "keyDown", kKeyUpEventType |-> "keyUp",
     kRawKeyDownEventType |-> "rawKeyDown", kCharEventType |-> "char"]

\* The touch event a mouse event becomes under touch emulation.
TouchForMouse ==
    [kPressedMouseEventType |-> "touchStart",
     kReleasedMouseEventType |-> "touchEnd",
     kMovedMouseEventType |-> "touchMove",
     kWheelMouseEventType |-> ""]

\* The protocol commands, with the event types each of them is sent with.
Command ==
    LET Of(method, types) ==
            [method : {method}, earlier : BOOLEAN,
             type : {GetAsString[t] : t \in types}]
    IN  Of("Input.dispatchMouseEvent", MouseEventType)
            \cup Of("Input.dispatchTouchEvent", TouchEventType)
            \cup Of("Input.dispatchKeyEvent", KeyEventType)
            \cup [method : {"Runtime.evaluate", "Input.dispatchTouchEvent"},
                  earlier : BOOLEAN, type : {""}]

MethodOf ==
    [DispatchMouseEvents |-> "Input.dispatchMouseEvent",
     DispatchTouchEventsForMouseEvents |-> "Input.dispatchTouchEvent",
     DispatchTouchEvents |-> "Input.dispatchTouchEvent",
     DispatchTouchEventWithMultiPoints |-> "Input.dispatchTouchEvent",
     DispatchKeyEvents |-> "Input.dispatchKeyEvent"]

CommandFor_TypeOfTheMouseEvent(fn, event) ==
    [method |-> MethodOf[fn], type |-> GetAsString[event.type],
     earlier |-> FALSE]

\* The command a dispatcher makes of an event.
CommandFor(fn, event) ==
    [method |-> MethodOf[fn],
     type |-> IF fn = "DispatchTouchEventsForMouseEvents"
              THEN TouchForMouse[event.type]
              ELSE GetAsString[event.type],
     earlier |-> FALSE]

\* The events a loop passes over with `continue`.
Skipped(fn, event) ==
    \/ /\ fn = "DispatchTouchEventsForMouseEvents"
       /\ event.type = "kMovedMouseEventType" /\ ~event.button
    \/ /\ fn = "DispatchTouchEventWithMultiPoints"
       /\ event.type = "kTouchCancel"

LastEvent_OnePastTheEnd(rest) ==
    IF call.fn = "DispatchTouchEventWithMultiPoints"
    THEN touch_count > call.size
    ELSE rest = <<>>

\* `it == events.end() - 1`, `rest` being the events from `it` on; the
\* multi-point dispatcher has `touch_count < events.size()` for "not last".
LastEvent(rest) ==
    IF call.fn = "DispatchTouchEventWithMultiPoints"
    THEN ~(touch_count < call.size)
    ELSE Len(rest) = 1

\* The dispatcher waits for the answer to the command it is sending.
Waits(fn, async_dispatch_events, last_event) ==
    \/ fn = "DispatchTouchEventsForMouseEvents"
    \/ ~(async_dispatch_events \/ ~last_event)

Return(code) ==
    /\ pc' = "idle"
    /\ status' = code
    /\ events' = <<>>

\* The loop goes on with `rest`, or the function returns kOk after it.
Continue(rest) ==
    IF rest = <<>>
    THEN Return("kOk")
    ELSE pc' = "send" /\ events' = rest /\ UNCHANGED status

-----------------------------------------------------------------------------

\* A dispatcher is called with `list`; `first` is what it writes before its
\* loop.
Begin(fn, list, async_dispatch_events, first) ==
    /\ pc = "idle"
    /\ Len(inbox) + Len(list) < MaxInbox
    /\ call' = [fn |-> fn, async_dispatch_events |-> async_dispatch_events,
                size |-> Len(list)]
    /\ touch_count' = 1
    /\ inbox' = [i \in DOMAIN inbox |-> [inbox[i] EXCEPT !.earlier = TRUE]]
                   \o first
    /\ IF first # <<>>
       THEN pc' = "wait" /\ events' = list /\ UNCHANGED status
       ELSE Continue(list)
    /\ UNCHANGED made

\* With touch emulation the mouse events go out as touch events, after a
\* Runtime.evaluate that lets two frames pass and whose status is dropped.
DispatchMouseEvents(list, async_dispatch_events) ==
    \/ /\ IsEmulatingTouch
       /\ \E first \in {<<>>, <<[method |-> "Runtime.evaluate", type |-> "",
                                 earlier |-> FALSE]>>} :
              Begin("DispatchTouchEventsForMouseEvents", list,
                    async_dispatch_events, first)
    \/ /\ ~IsEmulatingTouch
       /\ Begin("DispatchMouseEvents", list, async_dispatch_events, <<>>)

DispatchTouchEvents(list, async_dispatch_events) ==
    Begin("DispatchTouchEvents", list, async_dispatch_events, <<>>)

DispatchTouchEventWithMultiPoints(list, async_dispatch_events) ==
    Begin("DispatchTouchEventWithMultiPoints", list, async_dispatch_events,
          <<>>)

DispatchKeyEvents(list, async_dispatch_events) ==
    Begin("DispatchKeyEvents", list, async_dispatch_events, <<>>)

\* One turn of the loop: the event is passed over, or its command is
\* written; a write that fails ends the call, and so does the end of the
\* list.
SendNext ==
    /\ pc = "send"
    /\ LET event == Head(events)
           rest == Tail(events)
           last_event == LastEvent(events)
       IN  \/ /\ Skipped(call.fn, event)
              /\ Continue(rest)
              /\ UNCHANGED <<inbox, touch_count>>
           \/ /\ ~Skipped(call.fn, event)
              /\ Return("kDisconnected")
              /\ UNCHANGED <<inbox, touch_count>>
           \/ /\ ~Skipped(call.fn, event)
              /\ inbox' = Append(inbox, CommandFor(call.fn, event))
              /\ touch_count' = touch_count + 1
              /\ IF Waits(call.fn, call.async_dispatch_events, last_event)
                 THEN pc' = "wait" /\ events' = rest /\ UNCHANGED status
                 ELSE Continue(rest)
    /\ UNCHANGED <<made, call>>

\* The browser handles the oldest command.  When that is the one the
\* dispatcher waits for (the newest there is), SendCommand returns: an error
\* ends the call, unless it is the error of Runtime.evaluate.
Handle ==
    /\ inbox # <<>>
    /\ inbox' = Tail(inbox)
    /\ \/ /\ pc = "wait" /\ Len(inbox) = 1
          /\ \/ Continue(events)
             \/ /\ Head(inbox).method # "Runtime.evaluate"
                /\ Return("kUnknownError")
       \/ /\ ~(pc = "wait" /\ Len(inbox) = 1)
          /\ UNCHANGED <<pc, events, status>>
    /\ UNCHANGED <<made, call, touch_count>>

\* SendCommand gives up: the deadline passed or the connection went.  The
\* command stays where it is.
WaitFails ==
    /\ pc = "wait"
    /\ \/ /\ Last(inbox).method # "Runtime.evaluate"
          /\ \E code \in {"kTimeout", "kDisconnected"} : Return(code)
       \/ /\ Last(inbox).method = "Runtime.evaluate"
          /\ Continue(events)
    /\ UNCHANGED <<made, call, touch_count, inbox>>

-----------------------------------------------------------------------------

\* The constructor of a view and of its MobileEmulationOverrideManager,
\* with the metrics of the device if the set-up has found one.  The
\* MobileDevice and what its calls gave are the caller's and end here.
WebViewImpl ==
    /\ pc = "setup"
    /\ pc' = "idle"
    /\ overridden_device_metrics_' = mobile_device.device_metrics
    /\ mobile_device' = Device!Empty
    /\ reduced_user_agent' = None
    /\ platform' = None
    /\ returned' = "kOk"
    /\ UNCHANGED <<call, events, touch_count, inbox, status>>

\* The calls of the set-up, each on the MobileDevice as the one before
\* left it.
FindMobileDevice ==
    /\ pc = "setup"
    /\ \E device_name \in DeviceNames : Device!FindMobileDevice(device_name)
    /\ UNCHANGED <<overridden_device_metrics_, view>>

GuessPlatform ==
    /\ pc = "setup"
    /\ \E user_agent \in {mobile_device.user_agent, reduced_user_agent}
                             \ {None} :
           Device!GuessPlatform(user_agent)
    /\ UNCHANGED <<overridden_device_metrics_, view>>

GetReducedUserAgent ==
    /\ pc = "setup"
    /\ \E major_version \in MajorVersions :
           Device!GetReducedUserAgent(major_version)
    /\ UNCHANGED <<overridden_device_metrics_, view>>

-----------------------------------------------------------------------------

Init ==
    /\ Device!Init
    /\ overridden_device_metrics_ = None
    /\ call = [fn |-> "DispatchKeyEvents", async_dispatch_events |-> FALSE,
               size |-> 0]
    /\ events = <<>>
    /\ touch_count = 1
    /\ pc = "setup"
    /\ inbox = <<>>
    /\ status = "kOk"

Next ==
    \/ FindMobileDevice
    \/ GuessPlatform
    \/ GetReducedUserAgent
    \/ WebViewImpl
    \/ \E async_dispatch_events \in BOOLEAN :
           \/ \E list \in BoundedSeq(MouseEvent, MaxEvents) :
                  DispatchMouseEvents(list, async_dispatch_events)
           \/ \E list \in BoundedSeq(TouchEvent, MaxEvents) :
                  \/ DispatchTouchEvents(list, async_dispatch_events)
                  \/ DispatchTouchEventWithMultiPoints(list,
                                                       async_dispatch_events)
           \/ \E list \in BoundedSeq(KeyEvent, MaxEvents) :
                  DispatchKeyEvents(list, async_dispatch_events)
    \/ SendNext
    \/ Handle
    \/ WaitFails

Spec == Init /\ [][Next]_vars

-----------------------------------------------------------------------------

\* The events of the last call that the browser has not handled.
Unhandled ==
    SelectSeq(inbox, LAMBDA c : c.method # "Runtime.evaluate" /\ ~c.earlier)

TypeOK ==
    /\ Device!TypeOK
    /\ Device!Optional(overridden_device_metrics_, Device!Metrics)
    /\ call \in [fn : Dispatchers, async_dispatch_events : BOOLEAN,
                 size : 0..MaxEvents]
    /\ events \in Seq(MouseEvent \cup TouchEvent \cup KeyEvent)
    /\ Len(events) <= call.size
    /\ touch_count \in 1..MaxEvents + 1
    /\ pc \in {"setup", "idle", "send", "wait"}
    /\ inbox \in Seq(Command)
    /\ Len(inbox) <= MaxInbox
    /\ status \in {"kOk", "kDisconnected", "kTimeout", "kUnknownError"}

\* The four dispatchers that tell the last event by its place
\* (`it == events.end() - 1`), and the multi-point one when no touchCancel
\* is among its events: a call that was not asked to be asynchronous and
\* returns kOk returns after the browser has handled every event it sent,
\* those written with SendCommandAndIgnoreResponse included.
SyncDispatchWaits ==
    /\ pc = "idle" /\ status = "kOk" /\ ~call.async_dispatch_events
    /\ call.fn = "DispatchTouchEventWithMultiPoints" =>
           touch_count = call.size + 1
    => Unhandled = <<>>

\* A FindMobileDevice of the set-up that fails leaves the device of the
\* caller as it was, and one that succeeds replaces all of it, so that the
\* metrics the constructor takes are those of one device of the list.
FindMobileDeviceIsAllOrNothing == Device!FindMobileDeviceIsAllOrNothing

\* The platform GuessPlatform reads out of a user agent is one
\* GetReducedUserAgent makes the same user agent of.
GuessedPlatformGivesTheSameUserAgent ==
    Device!GuessedPlatformGivesTheSameUserAgent

\* The same of every dispatcher and every list of events.
SyncDispatchWaitsAlways ==
    pc = "idle" /\ status = "kOk" /\ ~call.async_dispatch_events
    => Unhandled = <<>>

=============================================================================
