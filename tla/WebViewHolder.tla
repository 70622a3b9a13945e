--------------------------- MODULE WebViewHolder ---------------------------
(***************************************************************************)
(* Lifetime of WebViewImpl objects (chrome/web_view_impl.cc) while         *)
(* commands run in them.                                                   *)
(*                                                                         *)
(* ChromeDriver is single threaded, but a command blocked in a view reads  *)
(* the socket and dispatches whatever arrives: a Target.detachedFromTarget *)
(* event for the very view that is executing, or listeners that start      *)
(* further commands.  A WebViewImplHolder on the C++ stack locks a view    *)
(* and its ancestors; PageTracker only marks a locked view as detached     *)
(* and erases an unlocked one; the holder's destructor unlocks what it     *)
(* locked and deletes detached child views.                                *)
(*                                                                         *)
(* The C++ call stack is the variable `stack`: one frame per view method   *)
(* that is blocked on the DevTools client, with the holders it owns.       *)
(***************************************************************************)
EXTENDS Naturals, Sequences, FiniteSets, SequencesExt

CONSTANTS
    Views,        \* identities of the WebViewImpl objects that may exist
    NoView,       \* nullptr
    Parent,       \* WebViewImpl::parent_, fixed at construction
    NonBlocking,  \* the windows made with the page load strategy "none"
    MaxNesting    \* bound on the depth of nested view methods

ASSUME /\ NoView \notin Views
       /\ Parent \in [Views -> Views \cup {NoView}]
       /\ NonBlocking \subseteq {v \in Views : Parent[v] = NoView}
       /\ MaxNesting \in Nat \ {0}

VARIABLES
    web_views,    \* PageTracker::web_views_: the top-level views that exist
    targets,      \* child views owned by their parents' FrameTrackers
    created,      \* views constructed so far (target ids are never reused)
    is_locked,    \* WebViewImpl::is_locked_
    is_detached,  \* WebViewImpl::is_detached_
    timed_out,    \* the navigation tracker's timed_out flag of a top view
    listens,      \* child view -> the view whose navigation tracker is a
                  \* listener of the child's client, or NoView
    stack,        \* view methods in progress, innermost last
    status        \* Status code of the method that returned last

vars == <<web_views, targets, created, is_locked, is_detached, timed_out,
          listens, stack, status>>

TopViews == {v \in Views : Parent[v] = NoView}

Alive == web_views \cup targets

\* v, its parent, its grandparent ... up to the top-level view.
RECURSIVE Chain(_)
Chain(v) == IF v = NoView THEN <<>> ELSE <<v>> \o Chain(Parent[v])

\* v and every view below it: what destroying v destroys, as a parent's
\* FrameTracker owns the child views.
Subtree(v) == {x \in Views : Contains(Chain(x), v)}

Item == [web_view : Views, was_locked : BOOLEAN]

Frame == [op : {"Evaluate", "GetFrame", "SetFiles", "WaitNav", "StopLoad"},
          view : Views,
          holders : Seq(Seq(Item))]

StatusCode == {"kOk", "kUnknownError", "kTimeout", "kNoSuchFrame",
               "kNoSuchWindow", "kTargetDetached", "kUnsupportedOperation"}

\* The part of the state that holders and trackers update in one call.
Heap == [locked |-> is_locked, web_views |-> web_views, targets |-> targets]

Store(h) ==
    /\ is_locked' = h.locked
    /\ web_views' = h.web_views
    /\ targets' = h.targets

-----------------------------------------------------------------------------
(* WebViewImpl: lock, unlock, construction                                 *)

Lock(h, v) == [h EXCEPT !.locked[v] = TRUE]

Unlock(h, v) == [h EXCEPT !.locked[v] = FALSE]

\* The constructor of a view that is no service worker: unlocked, attached,
\* with trackers and managers of its own, and with a navigation tracker
\* only if it has no parent.
WebViewImpl(v) ==
    [is_locked |-> FALSE, is_detached |-> FALSE,
     navigation_tracker |-> Parent[v] = NoView]

\* A view without a navigation tracker asks its parent.
RECURSIVE IsNonBlocking(_)
IsNonBlocking(v) ==
    IF WebViewImpl(v).navigation_tracker THEN v \in NonBlocking
    ELSE IsNonBlocking(Parent[v])

\* while (current_view->parent_) current_view = current_view->parent_;
TopOf(v) == Last(Chain(v))

DeleteTargetForFrame(h, v) == [h EXCEPT !.targets = @ \ Subtree(v)]

Erase(h, v) ==
    [h EXCEPT !.web_views = @ \ {v}, !.targets = @ \ Subtree(v)]

-----------------------------------------------------------------------------
(* WebViewImplHolder                                                       *)

NewHolder_OnlyTheView(h, v) ==
    [items |-> <<[web_view |-> v, was_locked |-> h.locked[v]]>>,
     heap  |-> Lock(h, v)]

\* The constructor: every view from v up to the top is locked, each item
\* remembers whether it was locked before.
NewHolder(h, v) ==
    [items |-> [i \in DOMAIN Chain(v) |->
                   [web_view |-> Chain(v)[i],
                    was_locked |-> h.locked[Chain(v)[i]]]],
     heap  |-> FoldLeft(Lock, h, Chain(v))]

\* The items the destructor visits: those before the first one that was
\* locked already when this holder was made.
Owned(items) ==
    LET first == SelectInSeq(items, LAMBDA it : it.was_locked)
    IN  IF first = 0 THEN items ELSE SubSeq(items, 1, first - 1)

ReleaseItem_KeepDetachedChild(h, item) ==
    IF is_detached[item.web_view] THEN h ELSE Unlock(h, item.web_view)

ReleaseItem(h, item) ==
    CASE ~is_detached[item.web_view]       -> Unlock(h, item.web_view)
      [] Parent[item.web_view] # NoView    ->
                                   DeleteTargetForFrame(h, item.web_view)
      [] OTHER                             -> h

DestroyHolder_NoBreak(h, items) == FoldLeft(ReleaseItem, h, items)

DestroyHolder(h, items) == FoldLeft(ReleaseItem, h, Owned(items))

\* Holders made one after the other for the views of vs.
Acquire(h, vs) ==
    FoldLeft(LAMBDA acc, v :
                 LET made == NewHolder(acc.heap, v)
                 IN  [heap |-> made.heap,
                      holders |-> Append(acc.holders, made.items)],
             [heap |-> h, holders |-> <<>>], vs)

\* Holders are C++ locals: they are destroyed in the reverse order.
Unwind(h, holders) == FoldLeft(DestroyHolder, h, Reverse(holders))

-----------------------------------------------------------------------------
(* Routing a call to the view that owns the frame                          *)

\* The views strictly below v on the way down to d.
PathTo(v, d) ==
    LET up == Chain(d)
    IN  Reverse(SubSeq(up, 1, SelectInSeq(up, LAMBDA x : x = v) - 1))

TargetDetached(v, d) == \E x \in ToSet(PathTo(v, d)) : is_detached[x]

\* The targets the call is handed to before it returns kTargetDetached or
\* arrives at d: each of them gets a holder.
Delegations(v, d) ==
    LET path  == PathTo(v, d)
        first == SelectInSeq(path, LAMBDA x : is_detached[x])
    IN  IF first = 0 THEN path ELSE SubSeq(path, 1, first - 1)

\* A session command targets a window of the browser's list; a listener
\* called while a command waits may call into any view that exists.
CanCall(v) ==
    /\ Len(stack) < MaxNesting
    /\ v \in Alive
    /\ stack = <<>> => v \in web_views

ReturnAtOnce(h, code) ==
    /\ Store(h)
    /\ status' = code
    /\ UNCHANGED <<created, is_detached, timed_out, listens, stack>>

Enter(op, d, got) ==
    /\ Store(got.heap)
    /\ stack' = Append(stack, [op |-> op, view |-> d, holders |-> got.holders])
    /\ UNCHANGED <<created, is_detached, timed_out, listens, status>>

-----------------------------------------------------------------------------
(* Operations of WebViewImpl                                               *)

\* The view is constructed and handed to the frame tracker of its parent;
\* unless the window is non-blocking, the navigation tracker at the top of
\* the hierarchy becomes a listener of the child's client.
CreateChild(p, c) ==
    /\ p \in Alive
    /\ c \in Views \ created
    /\ Parent[c] = p
    /\ targets' = targets \cup {c}
    /\ created' = created \cup {c}
    /\ is_locked' = [is_locked EXCEPT ![c] = WebViewImpl(c).is_locked]
    /\ is_detached' = [is_detached EXCEPT ![c] = WebViewImpl(c).is_detached]
    /\ listens' = [listens EXCEPT
                      ![c] = IF IsNonBlocking(p) THEN NoView ELSE TopOf(p)]
    /\ UNCHANGED <<web_views, timed_out, stack, status>>

\* EvaluateScriptWithTimeout called on v for a frame that lives in d.
EvaluateScriptWithTimeout(v, d) ==
    /\ CanCall(v)
    /\ d \in Subtree(v) \cap Alive
    /\ LET got == Acquire(Heap, Delegations(v, d))
       IN  \/ /\ TargetDetached(v, d)
              /\ ReturnAtOnce(Unwind(got.heap, got.holders), "kTargetDetached")
           \/ /\ ~TargetDetached(v, d)      \* no execution context for the frame
              /\ ReturnAtOnce(Unwind(got.heap, got.holders), "kNoSuchFrame")
           \/ /\ ~TargetDetached(v, d)
              /\ Enter("Evaluate", d,
                       Acquire(Heap, Append(Delegations(v, d), d)))

\* A method that hands the call to the target of the frame like
\* EvaluateScriptWithTimeout does, but takes no holder for the view that
\* finally sends the commands.
Delegate(op, v, d) ==
    /\ CanCall(v)
    /\ d \in Subtree(v) \cap Alive
    /\ LET got == Acquire(Heap, Delegations(v, d))
       IN  \/ /\ TargetDetached(v, d)
              /\ ReturnAtOnce(Unwind(got.heap, got.holders), "kTargetDetached")
           \/ /\ ~TargetDetached(v, d)      \* the first step in d fails
              /\ ReturnAtOnce(Unwind(got.heap, got.holders), "kNoSuchFrame")
           \/ /\ ~TargetDetached(v, d)
              /\ Enter(op, d, got)

GetFrameByFunction(v, d) == Delegate("GetFrame", v, d)

SetFileInputFiles(v, d) == Delegate("SetFiles", v, d)

\* What the round trips of a command come to; kUnknownError stands for
\* every error of SendCommand and of an answer without a field.
ReturnCodes(op) ==
    {"kOk", "kUnknownError"}
        \cup {code \in {"kTimeout"} : op = "Evaluate"}
        \cup {code \in {"kNoSuchFrame"} : op = "GetFrame"}

\* The command of the innermost frame completes and its holders go out of
\* scope.
Return ==
    /\ stack # <<>>
    /\ Last(stack).op \in {"Evaluate", "GetFrame", "SetFiles"}
    /\ Store(Unwind(Heap, Last(stack).holders))
    /\ stack' = Front(stack)
    /\ status' \in ReturnCodes(Last(stack).op)
    /\ UNCHANGED <<created, is_detached, timed_out, listens>>

WaitForPendingNavigations_AnyView(v) ==
    /\ stack = <<>>
    /\ v \in Alive
    /\ Enter("WaitNav", v, Acquire(Heap, <<v>>))

\* Only a top-level view has a navigation tracker to wait on.
WaitForPendingNavigations(v) ==
    /\ stack = <<>>
    /\ v \in Alive
    /\ \/ /\ Parent[v] # NoView
          /\ status' = "kUnsupportedOperation"
          /\ UNCHANGED <<web_views, targets, created, is_locked, is_detached,
                         timed_out, listens, stack>>
       \/ /\ Parent[v] = NoView
          /\ Enter("WaitNav", v, Acquire(Heap, <<v>>))

\* HandleEventsUntil returned and the navigation is not to be stopped.
WaitReturn ==
    /\ stack # <<>>
    /\ Last(stack).op = "WaitNav"
    /\ Store(Unwind(Heap, Last(stack).holders))
    /\ stack' = Front(stack)
    /\ status' \in {"kOk", "kTimeout", "kUnknownError"}
    /\ UNCHANGED <<created, is_detached, timed_out, listens>>

\* It timed out and stop_load_on_timeout is set: Page.stopLoading is sent
\* and events are handled for up to ten more seconds.
WaitTimedOut ==
    /\ stack # <<>>
    /\ Last(stack).op = "WaitNav"
    /\ timed_out' = [timed_out EXCEPT ![Last(stack).view] = TRUE]
    /\ stack' = [stack EXCEPT ![Len(stack)].op = "StopLoad"]
    /\ status' = "kTimeout"
    /\ UNCHANGED <<web_views, targets, created, is_locked, is_detached,
                   listens>>

StopReturn ==
    /\ stack # <<>>
    /\ Last(stack).op = "StopLoad"
    /\ timed_out' = [timed_out EXCEPT ![Last(stack).view] = FALSE]
    /\ Store(Unwind(Heap, Last(stack).holders))
    /\ stack' = Front(stack)
    /\ status' \in {"kTimeout", "kUnknownError"}
    /\ UNCHANGED <<created, is_detached, listens>>

-----------------------------------------------------------------------------
(* Events that arrive while a command waits, or between commands           *)

\* The view, and with it its client, is marked; it is destroyed later.
SetDetached(v) == is_detached' = [is_detached EXCEPT ![v] = TRUE]

PageTrackerOnEvent_EraseLocked(v) ==
    /\ v \in web_views
    /\ Store(Erase(Heap, v))
    /\ UNCHANGED <<created, is_detached, timed_out, listens, stack, status>>

\* Target.detachedFromTarget for the top-level view v.
PageTrackerOnEvent(v) ==
    /\ v \in web_views
    /\ \/ /\ is_locked[v]
          /\ SetDetached(v)
          /\ UNCHANGED <<web_views, targets, is_locked>>
       \/ /\ ~is_locked[v]
          /\ Store(Erase(Heap, v))
          /\ UNCHANGED is_detached
    /\ UNCHANGED <<created, timed_out, listens, stack, status>>

\* The same event for a child view, handled by the frame tracker of its
\* parent.
FrameTrackerOnEvent(c) ==
    /\ c \in targets
    /\ \/ /\ is_locked[c]
          /\ SetDetached(c)
          /\ UNCHANGED <<web_views, targets, is_locked>>
       \/ /\ ~is_locked[c]
          /\ Store(DeleteTargetForFrame(Heap, c))
          /\ UNCHANGED is_detached
    /\ UNCHANGED <<created, timed_out, listens, stack, status>>

\* Session::GetTargetWindow for a window that is gone.
GetTargetWindow(v) ==
    /\ stack = <<>>
    /\ v \in TopViews \ web_views
    /\ status' = "kNoSuchWindow"
    /\ UNCHANGED <<web_views, targets, created, is_locked, is_detached,
                   timed_out, listens, stack>>

-----------------------------------------------------------------------------

Init ==
    /\ web_views = TopViews
    /\ targets = {}
    /\ created = TopViews
    /\ is_locked = [v \in Views |-> FALSE]
    /\ is_detached = [v \in Views |-> FALSE]
    /\ timed_out = [v \in TopViews |-> FALSE]
    /\ listens = [v \in Views \ TopViews |-> NoView]
    /\ stack = <<>>
    /\ status = "kOk"

Next ==
    \/ \E p, c \in Views : CreateChild(p, c)
    \/ \E v, d \in Views : EvaluateScriptWithTimeout(v, d)
    \/ \E v, d \in Views : GetFrameByFunction(v, d)
    \/ \E v, d \in Views : SetFileInputFiles(v, d)
    \/ Return
    \/ \E v \in Views : WaitForPendingNavigations(v)
    \/ WaitReturn
    \/ WaitTimedOut
    \/ StopReturn
    \/ \E v \in Views : PageTrackerOnEvent(v)
    \/ \E c \in Views : FrameTrackerOnEvent(c)
    \/ \E v \in Views : GetTargetWindow(v)

Spec == Init /\ [][Next]_vars

-----------------------------------------------------------------------------

TypeOK ==
    /\ web_views \subseteq TopViews
    /\ targets \subseteq Views \ TopViews
    /\ created \subseteq Views
    /\ is_locked \in [Views -> BOOLEAN]
    /\ is_detached \in [Views -> BOOLEAN]
    /\ timed_out \in [TopViews -> BOOLEAN]
    /\ listens \in [Views \ TopViews -> (TopViews \ NonBlocking) \cup {NoView}]
    /\ stack \in Seq(Frame)
    /\ \A f \in ToSet(stack) :
           f.op \in {"WaitNav", "StopLoad"} => f.view \in TopViews
    /\ status \in StatusCode

\* The views the holders on the stack point to.
Held ==
    {f.holders[i][j].web_view :
        <<f, i, j>> \in {<<g, k, l>> \in ToSet(stack) \X (1..Cardinality(Views) + 1)
                                          \X (1..Cardinality(Views)) :
                            /\ k \in DOMAIN g.holders
                            /\ l \in DOMAIN g.holders[k]}}

\* No holder outlives a view it points to: its destructor calls IsDetached()
\* and Unlock() on every item, so a view that PageTracker::OnEvent or a
\* holder's own DeleteTargetForFrame destroyed while an outer holder still
\* names it would be a use after free.
HeldViewsAreAlive == Held \subseteq Alive

\* A view stays locked for as long as some holder names it: an inner holder
\* that goes out of scope (WebViewImplHolder's destructor, `was_locked`)
\* must not unlock what an outer one still relies on.
HeldViewsAreLocked == \A v \in Held : is_locked[v]

\* The destructor stops at the first item that was locked before, on the
\* grounds that "all its parents must also be locked": a locked view never
\* has an unlocked ancestor.
ParentsOfLockedAreLocked ==
    \A v \in Alive : is_locked[v] => \A x \in ToSet(Chain(v)) : is_locked[x]

\* Locks do not leak, detached child views are disposed of and a wait that
\* stopped the load cleans up after itself: once every view method has
\* returned, the only views still locked are top-level views that were
\* detached while in use, no detached child remains in a frame tracker,
\* and no navigation tracker is left with the timed_out flag that
\* WaitForPendingNavigations sets for its stop-loading phase.
IdleViewsAreReleased ==
    stack = <<>> =>
        /\ \A v \in Alive : is_locked[v] => is_detached[v]
        /\ \A c \in targets : ~is_detached[c]
        /\ \A v \in TopViews : ~timed_out[v]

=============================================================================
