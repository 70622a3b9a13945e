---------------------------- MODULE WebViewAsync ----------------------------
(***************************************************************************)
(* WebViewImpl::CallAsyncFunctionInternal (chrome/web_view_impl.cc), the   *)
(* body of CallAsyncFunction and CallUserAsyncFunction.                    *)
(*                                                                         *)
(* The script is started in the page with CallFunctionWithTimeout, which   *)
(* returns at once.  Then the page is polled with kQueryResult until the   *)
(* script has left a result in document.$chrome_asyncScriptInfo, the       *)
(* document is gone, or the deadline has passed; between two polls the     *)
(* thread sleeps.  The page runs meanwhile: the script reports, the frame  *)
(* navigates or goes away.                                                 *)
(***************************************************************************)
EXTENDS Naturals, Sequences, FiniteSets

CONSTANTS
    Values,   \* what a script can report
    None      \* no value

ASSUME None \notin Values

VARIABLES
    pc,        \* "idle" or "poll"
    timeout,   \* "finite" or "max" (base::TimeDelta::Max(): no deadline)
    expired,   \* local_timeout.IsExpired()
    info,      \* page: document.$chrome_asyncScriptInfo: whether it exists,
               \* and its `result` (None when there is none)
    running,   \* page: the script has not reported yet
    frame,     \* page: the frame exists
    status,    \* the Status the last call returned
    result     \* the value it returned

page == <<info, running, frame>>
vars == <<pc, timeout, expired, page, status, result>>

\* What a failed round trip returns, and what the code makes of an answer
\* it cannot read.
Failures == {"kDisconnected", "kUnknownError", "kTargetDetached"}

\* The status codes a script reports failure with.
ScriptErrors == {"kJavaScriptError", "kScriptTimeout"}

StatusCode ==
    Failures \cup ScriptErrors \cup {"kOk", "kTimeout", "kNoSuchFrame"}

\* The {status, value} a script leaves in info.result.
Result == [status : {"kOk"}, value : Values]
              \cup [status : ScriptErrors, value : {None}]

\* No document.$chrome_asyncScriptInfo: the document never ran an async
\* script.
NoInfo == [exists |-> FALSE, result |-> None]

Info == {NoInfo} \cup [exists : {TRUE}, result : Result \cup {None}]

\* kQueryResult, the function each poll runs in the page: what it returns
\* and what it leaves of the info.
kQueryResult(i) ==
    CASE ~i.exists ->
             [returns |-> [status |-> "kJavaScriptError", value |-> None],
              leaves |-> i]
      [] i.exists /\ i.result = None ->
             [returns |-> [status |-> "kOk", value |-> None], leaves |-> i]
      [] OTHER ->
             [returns |-> i.result, leaves |-> [i EXCEPT !.result = None]]

\* The statuses CallFunctionWithTimeout fails with: those of the round
\* trip, kTimeout if there is a deadline, and the one the script wrapper
\* reports.
CallFunctionWithTimeout(t) ==
    Failures \cup ScriptErrors \cup {code \in {"kTimeout"} : t = "finite"}

\* CallFunction is CallFunctionWithTimeout without a deadline.
CallFunction == CallFunctionWithTimeout("max")

Return(code, value) ==
    /\ pc' = "idle"
    /\ status' = code
    /\ result' = value

\* The status a failed poll comes back as.
PollError(code) ==
    IF code = "kNoSuchFrame" THEN "kJavaScriptError" ELSE code

Value(result_info) == result_info.value

-----------------------------------------------------------------------------

\* CallFunctionWithTimeout starts the script: it fails, the frame is not
\* there, or the page has a fresh info and a script that runs.
CallAsyncFunctionInternal(t) ==
    /\ pc = "idle"
    /\ timeout' = t
    /\ expired' = FALSE
    /\ \/ /\ \E code \in CallFunctionWithTimeout(t) : Return(code, None)
          /\ UNCHANGED page
       \/ /\ ~frame
          /\ Return("kNoSuchFrame", None)
          /\ UNCHANGED page
       \/ /\ frame
          /\ info' = [exists |-> TRUE, result |-> None]
          /\ running' = TRUE
          /\ pc' = "poll"
          /\ UNCHANGED <<frame, status, result>>

\* The thread sleeps and polls again.
Sleep == [code |-> "kOk", value |-> None]

Verdict_DeadlineFirst(result_info, is_expired) ==
    CASE result_info.status # "kOk" ->
             [code |-> result_info.status, value |-> None]
      [] is_expired -> [code |-> "kTimeout", value |-> None]
      [] Value(result_info) # None ->
             [code |-> "kOk", value |-> Value(result_info)]
      [] OTHER -> Sleep

Verdict_NoDeadline(result_info, is_expired) ==
    CASE result_info.status # "kOk" ->
             [code |-> result_info.status, value |-> None]
      [] Value(result_info) # None ->
             [code |-> "kOk", value |-> Value(result_info)]
      [] OTHER -> Sleep

\* What the loop makes of the answer to a poll: the script's error, the
\* script's value, and only without either the deadline.
Verdict(result_info, is_expired) ==
    CASE result_info.status # "kOk" ->
             [code |-> result_info.status, value |-> None]
      [] Value(result_info) # None ->
             [code |-> "kOk", value |-> Value(result_info)]
      [] is_expired -> [code |-> "kTimeout", value |-> None]
      [] OTHER -> Sleep

\* One turn of the loop, CallFunction with kQueryResult, when the browser
\* answers: that the frame is not there, or with what kQueryResult returns.
\* Any verdict but Sleep ends the call.
Poll ==
    /\ pc = "poll"
    /\ \/ /\ ~frame
          /\ Return(PollError("kNoSuchFrame"), None)
          /\ UNCHANGED info
       \/ /\ frame
          /\ LET query == kQueryResult(info)
                 verdict == Verdict(query.returns, expired)
             IN  /\ info' = query.leaves
                 /\ IF verdict = Sleep
                    THEN UNCHANGED <<pc, status, result>>
                    ELSE Return(verdict.code, verdict.value)
    /\ UNCHANGED <<timeout, expired, running, frame>>

\* One turn of the loop when CallFunction fails: it has no deadline, so
\* kTimeout is not among its failures.
PollFails(code) ==
    /\ pc = "poll"
    /\ Return(PollError(code), None)
    /\ UNCHANGED <<timeout, expired, page>>

\* Time passes: a deadline that is not base::TimeDelta::Max() is reached.
Expire ==
    /\ pc = "poll"
    /\ timeout = "finite"
    /\ ~expired
    /\ expired' = TRUE
    /\ UNCHANGED <<pc, timeout, page, status, result>>

-----------------------------------------------------------------------------
(* The page                                                                *)

\* The script calls back, or throws: once.
ScriptReports(r) ==
    /\ running
    /\ info.exists
    /\ info' = [info EXCEPT !.result = r]
    /\ running' = FALSE
    /\ UNCHANGED <<pc, timeout, expired, frame, status, result>>

\* The frame loads another document: the info and the script are gone with
\* the old one.
Navigate ==
    /\ info.exists
    /\ info' = NoInfo
    /\ running' = FALSE
    /\ UNCHANGED <<pc, timeout, expired, frame, status, result>>

\* The frame is removed from the page, or put there.
FrameChanges ==
    /\ frame' = ~frame
    /\ info' = NoInfo
    /\ running' = FALSE
    /\ UNCHANGED <<pc, timeout, expired, status, result>>

-----------------------------------------------------------------------------

Init ==
    /\ pc = "idle"
    /\ timeout = "max"
    /\ expired = FALSE
    /\ info = NoInfo
    /\ running = FALSE
    /\ frame = TRUE
    /\ status = "kOk"
    /\ result = None

\* What happens while a call polls, and to the page at any time.
Step ==
    \/ Poll
    \/ \E code \in CallFunction : PollFails(code)
    \/ Expire
    \/ \E r \in Result : ScriptReports(r)
    \/ Navigate
    \/ FrameChanges

Next ==
    \/ \E t \in {"finite", "max"} : CallAsyncFunctionInternal(t)
    \/ Step

\* The browser answers the polls (a round trip may fail, but it is not
\* bound to), and the thread wakes from every sleep.
Fairness == WF_vars(Poll) /\ WF_vars(Expire)

Spec == Init /\ [][Next]_vars /\ Fairness

-----------------------------------------------------------------------------

TypeOK ==
    /\ pc \in {"idle", "poll"}
    /\ timeout \in {"finite", "max"}
    /\ expired \in BOOLEAN
    /\ info \in Info
    /\ running \in BOOLEAN
    /\ frame \in BOOLEAN
    /\ status \in StatusCode
    /\ result \in Values \cup {None}

\* CallAsyncFunctionInternal looks at the deadline only after it has looked
\* for a result ("need to time period here instead"): a poll never returns
\* kTimeout when the script's result is there to be taken, however late the
\* poll is.
ResultBeatsDeadline ==
    [][pc = "poll" /\ pc' = "idle" /\ status' = "kTimeout"
           => info.result = None]_vars

\* A call with a deadline returns: with the result, with the error of a
\* poll, or with kTimeout once local_timeout.IsExpired(), given that the
\* browser answers the polls.
CallWithDeadlineReturns ==
    (pc = "poll" /\ timeout = "finite") ~> (pc = "idle")

=============================================================================
