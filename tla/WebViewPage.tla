----------------------------- MODULE WebViewPage -----------------------------
(***************************************************************************)
(* The commands of WebViewImpl that navigate a page or ask it one thing    *)
(* (chrome/web_view_impl.cc), the frame stack of the Session that sends    *)
(* them (session.cc), and the page they are sent to.  The asynchronous     *)
(* script of WebViewAsync is one more command of the same view: the thread *)
(* runs one command at a time, the page runs all the time.                 *)
(***************************************************************************)
EXTENDS WebViewAsync, Integers, SequencesExt

CONSTANTS
    FrameIds,     \* ids of the child frames a document can have
    MaxEntries,   \* bound on the history entries the browser creates
    MaxDepth      \* bound on the depth of the frame stack

ASSUME MaxEntries \in Nat \ {0} /\ MaxDepth \in Nat

VARIABLES
    entries,        \* browser: ids of the navigation history entries
    current,        \* browser: currentIndex, counted from 0
    allocated,      \* browser: entry ids handed out so far
    loading,        \* browser: a navigation is pending
    known,          \* the frames frame_tracker_ knows
    window,         \* "none": no chrome; else whether Session::window is
                    \* a view chrome still has ("open", "closed")
    frames,         \* Session::frames, the frame_id of each FrameInfo
    tracker_frame,  \* the frame navigation_tracker_ was last given
    non_blocking,   \* navigation_tracker_->IsNonBlocking()
    cmd             \* the command that is between two round trips

browser == <<entries, current, allocated, loading, known>>
session == <<window, frames, tracker_frame, non_blocking>>
navVars == <<browser, session, cmd>>
allVars == <<vars, navVars>>

\* std::string(): the top frame.
TopFrame == None

Idle == [op |-> "idle"]

\* The thread is not inside a command.
Free == pc = "idle" /\ cmd = Idle

\* A command of the view can start: the session found its window.
Ready == Free /\ window = "open"

\* The command returns `code`.
Returns(code) ==
    /\ status' = code
    /\ cmd' = Idle
    /\ UNCHANGED <<pc, timeout, expired, result>>

\* The statuses SendCommandWithTimeout fails with.
TimedFailures == Failures \cup {"kTimeout"}

\* A new document: the script info and the child frames of the old one are
\* gone.
NewDocument ==
    /\ info' = NoInfo
    /\ running' = FALSE
    /\ known' = {}
    /\ UNCHANGED frame

-----------------------------------------------------------------------------
(* The navigation history                                                  *)

\* What the entry a command looks at can be: a dictionary with its url and
\* id, a dictionary without the field the command reads, or no dictionary.
EntryShapes == {"whole", "no_field", "not_dict"}

\* The answers to Page.getNavigationHistory: the history, with or without
\* one of the fields the code looks for.
Answers ==
    [currentIndex : {current, None}, entries : {entries, None},
     entry : EntryShapes]

\* Index i names an entry: the two comparisons of TraverseHistory.
InHistory(a, i) == i >= 0 /\ i < Len(a.entries)

EntryId_OfCurrent(a, i) == a.entries[a.currentIndex + 1]

\* The id of the entry at index i, which the code counts from 0.
EntryId(a, i) == a.entries[i + 1]

\* GetUrl: the url of the current entry, or kUnknownError for an answer
\* without currentIndex, entries, the entry or its url.
GetUrl ==
    /\ Ready
    /\ \/ \E code \in Failures : Returns(code)
       \/ \E a \in Answers :
              Returns(IF /\ a.currentIndex # None
                         /\ a.entries # None
                         /\ Len(a.entries) > a.currentIndex
                         /\ a.entry = "whole"
                      THEN "kOk" ELSE "kUnknownError")
    /\ UNCHANGED <<page, browser, session>>

\* The browser starts the navigation to a new entry: the entries after the
\* current one are dropped.
Navigated ==
    /\ allocated < MaxEntries
    /\ allocated' = allocated + 1
    /\ entries' = Append(SubSeq(entries, 1, current + 1), allocated + 1)
    /\ current' = current + 1
    /\ loading' = TRUE
    /\ NewDocument

\* Load: javascript: urls are refused; with a non-blocking tracker the old
\* navigation is stopped (whatever comes of that) and Page.navigate is
\* written without waiting; else the call waits for Page.navigate.
Load(javascript) ==
    /\ Ready
    /\ \/ javascript /\ Returns("kUnknownError") /\ UNCHANGED <<page, browser>>
       \/ ~javascript /\ Navigated /\ Returns("kOk")
       \/ /\ ~javascript /\ ~non_blocking
          /\ \E code \in TimedFailures : Returns(code)
          /\ UNCHANGED <<page, browser>>
       \/ /\ ~javascript /\ non_blocking
          /\ \E code \in Failures : Returns(code)
          /\ loading' \in {loading, FALSE}
          /\ UNCHANGED <<page, entries, current, allocated, known>>
    /\ UNCHANGED session

\* Reload: Page.reload with the deadline of the caller.
Reload ==
    /\ Ready
    /\ \/ /\ \E code \in TimedFailures : Returns(code)
          /\ UNCHANGED <<page, browser>>
       \/ /\ loading' = TRUE
          /\ NewDocument
          /\ Returns("kOk")
          /\ UNCHANGED <<entries, current, allocated>>
    /\ UNCHANGED session

\* Freeze and Resume: Page.setWebLifecycleState, which changes nothing the
\* other commands read.
SetWebLifecycleState ==
    /\ Ready
    /\ \E code \in TimedFailures \cup {"kOk"} : Returns(code)
    /\ UNCHANGED <<page, browser, session>>

\* TraverseHistory up to its second command: the history is read, and
\* the call returns kOk at once when there is no entry `delta` away or
\* what is there is not a dictionary; a dictionary without id is an error.
TraverseHistory(delta) ==
    /\ Ready
    /\ \/ \E code \in Failures : Returns(code)
       \/ \E a \in Answers :
            LET i == a.currentIndex + delta IN
            \/ /\ a.currentIndex = None \/ a.entries = None
               /\ Returns("kUnknownError")
            \/ /\ a.currentIndex # None /\ a.entries # None
               /\ \/ /\ ~InHistory(a, i) \/ a.entry = "not_dict"
                     /\ Returns("kOk")
                  \/ /\ InHistory(a, i) /\ a.entry = "no_field"
                     /\ Returns("kUnknownError")
                  \/ /\ InHistory(a, i) /\ a.entry = "whole"
                     /\ cmd' = [op |-> "TraverseHistory",
                                entryId |-> EntryId(a, i), goal |-> i]
                     /\ UNCHANGED <<pc, timeout, expired, status, result>>
    /\ UNCHANGED <<page, browser, session>>

\* Page.navigateToHistoryEntry with the id that was read: the browser goes
\* to the entry with that id if it still has one.
NavigateToHistoryEntry ==
    /\ cmd.op = "TraverseHistory"
    /\ \/ /\ \E code \in TimedFailures : Returns(code)
          /\ UNCHANGED <<page, browser>>
       \/ /\ cmd.entryId \notin ToSet(entries)
          /\ Returns("kUnknownError")
          /\ UNCHANGED <<page, browser>>
       \/ /\ \E i \in DOMAIN entries :
                 entries[i] = cmd.entryId /\ current' = i - 1
          /\ loading' = TRUE
          /\ NewDocument
          /\ Returns("kOk")
          /\ UNCHANGED <<entries, allocated>>
    /\ UNCHANGED session

-----------------------------------------------------------------------------
(* Commands of one answer                                                  *)

Answered == Failures \cup {"kOk"}

\* The status of a command that reads one field of the result.
ReadField(code, has_field) ==
    IF code # "kOk" THEN code
    ELSE IF has_field THEN "kOk" ELSE "kUnknownError"

Asks(codes) ==
    /\ Ready
    /\ \E code \in codes : Returns(code)
    /\ UNCHANGED <<page, browser, session>>

\* Network.getCookies, or Page.getCookies of a webview: the list `cookies`.
GetCookies ==
    Asks({ReadField(code, has) : code \in Answered, has \in BOOLEAN})

DeleteCookie == Asks(Answered)

\* Every failure of Network.setCookie is kUnableToSetCookie.
AddCookie ==
    Asks({IF code = "kOk" /\ success THEN "kOk" ELSE "kUnableToSetCookie" :
              code \in Answered, success \in BOOLEAN})

CaptureScreenshot ==
    Asks({ReadField(code, has) :
              code \in TimedFailures \cup {"kOk"}, has \in BOOLEAN})

\* PrintToPDF: refused without headless mode; kUnknownError of the command
\* becomes kInvalidArgument.
PrintToPDF(is_headless) ==
    Asks(IF ~is_headless THEN {"kUnknownError"}
         ELSE {IF code = "kUnknownError" THEN "kInvalidArgument"
               ELSE ReadField(code, has) :
                   code \in TimedFailures \cup {"kOk"}, has \in BOOLEAN})

\* Profiler.enable, then Profiler.start if that went well.
StartProfile ==
    Asks({IF init # "kOk" THEN init ELSE start :
              init \in Answered, start \in Answered})

\* Debugger.disable and Profiler.disable are both sent; the first error
\* is the status.
StopProfileInternal(debug, profiler) ==
    IF debug # "kOk" THEN debug ELSE profiler

\* Profiler.stop; when it fails the profiler is disabled, and an error of
\* that goes before the error of the stop.
EndProfile ==
    Asks({IF stop = "kOk" \/ StopProfileInternal(debug, profiler) = "kOk"
          THEN stop ELSE StopProfileInternal(debug, profiler) :
              stop \in Answered, debug \in Answered, profiler \in Answered})

\* Input.synthesizeTapGesture and Input.synthesizeScrollGesture (the
\* scroll is sent as the swipe the other way): the status of the command.
SynthesizeTapGesture == Asks(Answered)

SynthesizeScrollGesture == Asks(Answered)

\* The override managers send the command that sets the override, and
\* keep it to send it again after a navigation.
OverrideGeolocation == Asks(Answered)

OverrideNetworkConditions == Asks(Answered)

\* Only a headless browser has a download directory manager.
OverrideDownloadDirectoryIfNeeded(is_headless) ==
    Asks(IF is_headless THEN Answered ELSE {"kOk"})

StartBidiServer == Asks(Answered)

PostBidiCommand == Asks(Answered)

TakeHeapSnapshot == Asks(Answered)

\* EvaluateScript is EvaluateScriptWithTimeout without a deadline, and
\* CallUserSyncScript is CallFunctionWithTimeout of kExecuteScriptScript.
EvaluateScript == Asks(CallFunction \cup {"kOk", "kNoSuchFrame"})

CallUserSyncScript(t) ==
    Asks(CallFunctionWithTimeout(t) \cup {"kOk", "kNoSuchFrame"})

\* The two callers of CallAsyncFunctionInternal: is_user_supplied picks
\* the wrapper the page runs the function in.
Calls(is_user_supplied, t) ==
    /\ Ready
    /\ CallAsyncFunctionInternal(t)
    /\ UNCHANGED navVars

CallAsyncFunction(t) == Calls(FALSE, t)

CallUserAsyncFunction(t) == Calls(TRUE, t)

-----------------------------------------------------------------------------
(* The frame stack of the session                                          *)

GetTargetWindow == IF window = "open" THEN "kOk" ELSE "kNoSuchWindow"

GetCurrentFrameId(stack) == IF stack = <<>> THEN TopFrame ELSE Last(stack)

\* WebViewImpl::SetFrame hands the frame to the navigation tracker.
SetFrame(new_frame_id) == tracker_frame' = new_frame_id

\* The view of the target window is told the frame the stack now ends in;
\* without a target window nothing is done.
SwitchFrameInternal(for_top_frame) ==
    IF GetTargetWindow # "kOk" THEN UNCHANGED tracker_frame
    ELSE SetFrame(IF for_top_frame THEN TopFrame
                  ELSE GetCurrentFrameId(frames'))

Switches(stack, for_top_frame) ==
    /\ Free
    /\ frames' = stack
    /\ SwitchFrameInternal(for_top_frame)
    /\ UNCHANGED <<vars, browser, window, non_blocking, cmd>>

SwitchToTopFrame == Switches(<<>>, TRUE)

SwitchToParentFrame_ForTop ==
    Switches(IF frames = <<>> THEN frames ELSE Front(frames), TRUE)

SwitchToParentFrame ==
    Switches(IF frames = <<>> THEN frames ELSE Front(frames), FALSE)

SwitchToSubFrame_Parent(frame_id) ==
    Switches(Append(frames, GetCurrentFrameId(frames)), FALSE)

\* The caller has found the frame in the document (of a FrameInfo the
\* model keeps the frame_id).
SwitchToSubFrame(frame_id) ==
    /\ frame_id \in known
    /\ Len(frames) < MaxDepth
    /\ Switches(Append(frames, frame_id), FALSE)

-----------------------------------------------------------------------------
(* Waiting for a navigation                                                *)

\* IsNotPendingNavigation, the condition WaitForPendingNavigations waits
\* for, given what the navigation tracker and the dialog manager say: a
\* frame that is gone is not waited for, an open dialog ends the wait.
IsNotPendingNavigation(frame_id, tracker, dialog_open) ==
    CASE frame_id # TopFrame /\ frame_id \notin known ->
             [status |-> "kOk", is_not_pending |-> TRUE]
      [] tracker # "kOk" -> [status |-> tracker, is_not_pending |-> FALSE]
      [] dialog_open ->
             [status |-> "kUnexpectedAlertOpen", is_not_pending |-> FALSE]
      [] OTHER -> [status |-> "kOk", is_not_pending |-> ~loading]

\* The call waits for the frame the session is in.
WaitForPendingNavigations(stop_load_on_timeout) ==
    /\ Ready
    /\ cmd' = [op |-> "Wait", frame_id |-> GetCurrentFrameId(frames),
               stop |-> stop_load_on_timeout, timed_out |-> FALSE]
    /\ UNCHANGED <<vars, browser, session>>

\* The status of the call when a wait ends with `code`: an error of the
\* wait after Page.stopLoading, else kTimeout of the wait before it.
Waited(code) == IF cmd.timed_out /\ code = "kOk" THEN "kTimeout" ELSE code

\* HandleEventsUntil returns: the condition failed or is met.
WaitEnds ==
    /\ cmd.op = "Wait"
    /\ \E tracker \in Answered, dialog_open \in BOOLEAN :
         LET now == IsNotPendingNavigation(cmd.frame_id, tracker,
                                           dialog_open)
         IN  /\ now.status # "kOk" \/ now.is_not_pending
             /\ Returns(Waited(now.status))
    /\ UNCHANGED <<page, browser, session>>

\* HandleEventsUntil times out: the load is stopped and waited for once
\* more, if the caller asked for that.
WaitTimesOut ==
    /\ cmd.op = "Wait"
    /\ IF cmd.stop /\ ~cmd.timed_out
       THEN /\ cmd' = [cmd EXCEPT !.timed_out = TRUE]
            /\ loading' \in {loading, FALSE}
            /\ UNCHANGED <<vars, entries, current, allocated, known>>
       ELSE Returns("kTimeout") /\ UNCHANGED <<page, browser>>
    /\ UNCHANGED session

-----------------------------------------------------------------------------
(* The page and the browser                                                *)

\* A step of the page or the browser, which a command between two round
\* trips does not see.
PageStep(A) ==
    /\ A
    /\ UNCHANGED <<pc, timeout, expired, status, result, session, cmd>>

\* A script or the user goes to another page, or through the history.
PageNavigates == PageStep(Navigated)

PageTraverses(delta) ==
    PageStep(/\ current + delta \in 0..(Len(entries) - 1)
             /\ current' = current + delta
             /\ loading' = TRUE
             /\ NewDocument
             /\ UNCHANGED <<entries, allocated>>)

LoadFinishes ==
    PageStep(/\ loading
             /\ loading' = FALSE
             /\ UNCHANGED <<page, entries, current, allocated, known>>)

FrameAttached(f) ==
    PageStep(/\ f \notin known
             /\ known' = known \cup {f}
             /\ UNCHANGED <<page, entries, current, allocated, loading>>)

\* The window is closed: chrome has no view of that id any more.
WindowCloses ==
    /\ window = "open"
    /\ window' = "closed"
    /\ UNCHANGED <<vars, browser, frames, tracker_frame, non_blocking, cmd>>

-----------------------------------------------------------------------------

PageInit ==
    /\ Init
    /\ entries = <<1>>
    /\ current = 0
    /\ allocated = 1
    /\ loading = FALSE
    /\ known = {}
    /\ window \in {"open", "none"}
    /\ frames = <<>>
    /\ tracker_frame = TopFrame
    /\ non_blocking \in BOOLEAN
    /\ cmd = Idle

\* A poll of CallAsyncFunctionInternal, or a step of the page it polls.
AsyncStep ==
    /\ cmd = Idle
    /\ pc = "idle" => window = "open"
    /\ Step
    /\ UNCHANGED navVars

ViewCommand ==
    \/ GetUrl
    \/ \E javascript \in BOOLEAN : Load(javascript)
    \/ Reload
    \/ SetWebLifecycleState
    \/ \E delta \in {-1, 1} : TraverseHistory(delta)
    \/ NavigateToHistoryEntry
    \/ GetCookies \/ DeleteCookie \/ AddCookie
    \/ CaptureScreenshot
    \/ \E is_headless \in BOOLEAN : PrintToPDF(is_headless)
    \/ StartProfile \/ EndProfile
    \/ SynthesizeTapGesture \/ SynthesizeScrollGesture
    \/ OverrideGeolocation \/ OverrideNetworkConditions
    \/ \E is_headless \in BOOLEAN : OverrideDownloadDirectoryIfNeeded(is_headless)
    \/ StartBidiServer \/ PostBidiCommand
    \/ TakeHeapSnapshot
    \/ EvaluateScript
    \/ \E t \in {"finite", "max"} : CallUserSyncScript(t)
    \/ \E t \in {"finite", "max"} : CallAsyncFunction(t)
    \/ \E t \in {"finite", "max"} : CallUserAsyncFunction(t)
    \/ \E stop \in BOOLEAN : WaitForPendingNavigations(stop)
    \/ WaitEnds
    \/ WaitTimesOut

SessionCommand ==
    \/ SwitchToTopFrame
    \/ SwitchToParentFrame
    \/ \E f \in FrameIds : SwitchToSubFrame(f)

Page ==
    \/ PageNavigates
    \/ \E delta \in {-1, 1} : PageTraverses(delta)
    \/ LoadFinishes
    \/ \E f \in FrameIds : FrameAttached(f)
    \/ WindowCloses

PageNext == AsyncStep \/ ViewCommand \/ SessionCommand \/ Page

PageSpec == PageInit /\ [][PageNext]_allVars /\ Fairness

-----------------------------------------------------------------------------

PageTypeOK ==
    /\ pc \in {"idle", "poll"}
    /\ timeout \in {"finite", "max"}
    /\ expired \in BOOLEAN /\ running \in BOOLEAN /\ frame \in BOOLEAN
    /\ info \in Info
    /\ result \in Values \cup {None}
    /\ status \in StatusCode \cup
           {"kUnableToSetCookie", "kInvalidArgument", "kUnexpectedAlertOpen"}
    /\ allocated \in 1..MaxEntries
    /\ entries \in Seq(1..allocated) /\ entries # <<>>
    /\ IsInjective(entries)
    /\ current \in 0..(Len(entries) - 1)
    /\ loading \in BOOLEAN /\ non_blocking \in BOOLEAN
    /\ known \subseteq FrameIds
    /\ window \in {"none", "open", "closed"}
    /\ frames \in Seq(FrameIds) /\ Len(frames) <= MaxDepth
    /\ tracker_frame \in FrameIds \cup {TopFrame}
    /\ cmd \in {Idle}
           \cup [op : {"TraverseHistory"}, entryId : 1..MaxEntries,
                 goal : 0..MaxEntries]
           \cup [op : {"Wait"}, frame_id : FrameIds \cup {TopFrame},
                 stop : BOOLEAN, timed_out : BOOLEAN]
    /\ pc = "idle" \/ cmd = Idle

\* TraverseHistory reads the history in one round trip and names the entry
\* in the next, by its id: whatever the page does between the two (it
\* navigates, or goes through its history itself), a traversal that
\* returns kOk from Page.navigateToHistoryEntry has left the page on the
\* entry that was `delta` away from the current one when the history was
\* read, and the history as it was; a page that dropped that entry
\* meanwhile makes the call fail.
TraverseHonoursDelta ==
    [][NavigateToHistoryEntry /\ status' = "kOk"
          => current' = cmd.goal /\ entries' = entries]_allVars

\* SwitchFrameInternal keeps the navigation tracker of the target window on
\* the frame Session::frames ends in, through every SwitchToSubFrame,
\* SwitchToParentFrame and SwitchToTopFrame.
TrackerFollowsSession ==
    window = "open" => tracker_frame = GetCurrentFrameId(frames)

=============================================================================
