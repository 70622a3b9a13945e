---------------------------- MODULE SessionChannel ----------------------------
(***************************************************************************)
(* Routing of BiDi responses by channel, and the end of a session          *)
(* (the later revision of session.cc).                                     *)
(*                                                                         *)
(* The mapper echoes the "goog:channel" of the command it answers.  The    *)
(* channel is <client's channel>/<connection id>/<suffix>; SplitChannel    *)
(* takes it apart from the right, OnBidiResponse hands the message to the  *)
(* connection it names, if that is still open.  Terminate closes every     *)
(* connection and deletes the session;                                     *)
(* HandleMessagesAndTerminateIfNecessary decides when that must happen.    *)
(*                                                                         *)
(* A channel is a sequence of symbols: the slash, decimal digits, and      *)
(* "chan", which stands for the text of kChannelSuffix after its slash.    *)
(***************************************************************************)
EXTENDS Integers, Sequences, FiniteSets, SequencesExt, TLC

CONSTANTS
    Connections,     \* connection ids the HTTP server hands out
    MaxChannelLen,   \* bound on the length of a channel
    MaxViews,        \* bound on the web views the browser has
    NoChannel,       \* a payload without "goog:channel"
    NoConnection     \* nothing was sent

ASSUME /\ Connections \subseteq Nat
       /\ MaxChannelLen \in Nat
       /\ MaxViews \in Nat

VARIABLES
    session,             \* the thread local Session*: "alive" or "deleted"
    bidi_connections_,
    closed,              \* connections whose close_connection ran
    opened,              \* connection ids used so far
    quit,                \* Session::quit
    browser,             \* "running", or "quit" once Chrome::Quit was called
    terminate_on_cmd,    \* the session was given a closure to end its thread
    terminate_posted,    \* terminate_on_cmd was posted to cmd_task_runner
    last,                \* outcome of the last OnBidiResponse
    exit                 \* what HandleMessages... saw when it terminated

vars == <<session, bidi_connections_, closed, opened, quit, browser,
          terminate_on_cmd, terminate_posted, last, exit>>

\* The closure that ends the session's thread, and whether it was posted.
thread == <<terminate_on_cmd, terminate_posted>>

Slash == "/"

Digit == "1" :> 1

Symbol == {Slash, "chan"} \cup DOMAIN Digit

kChannelSuffix == <<Slash, "chan">>

Channel == UNION {[1..n -> Symbol] : n \in 0..MaxChannelLen}

Payload == [channel : Channel \cup {NoChannel}, writable : BOOLEAN]

StatusCode == {"kOk", "kUnknownError", "kDisconnected", "kInvalidSessionId"}

-----------------------------------------------------------------------------
(* internal::SplitChannel                                                  *)

\* for (; k && channel[k - 1] != '/'; --k) {}
RECURSIVE BackToSlash(_, _)
BackToSlash(s, k) ==
    IF k = 0 \/ s[k] = Slash THEN k ELSE BackToSlash(s, k - 1)

\* base::StringToInt on a text of digits.
StringToInt(s) ==
    [ok    |-> s # <<>> /\ \A i \in DOMAIN s : s[i] \in DOMAIN Digit,
     value |-> FoldLeft(LAMBDA acc, d : 10 * acc + Digit[d], 0,
                        SelectSeq(s, LAMBDA d : d \in DOMAIN Digit))]

Failed == [ok |-> FALSE]

SplitChannel_FirstSlash(channel) ==
    LET k == BackToSlash(channel, Len(channel))
        j == SelectInSeq(channel, LAMBDA x : x = Slash)
        n == StringToInt(SubSeq(channel, j + 1, k - 1))
    IN  IF k = 0 \/ j = k \/ ~n.ok THEN Failed
        ELSE [ok |-> TRUE, channel |-> SubSeq(channel, 1, j - 1),
              connection_id |-> n.value,
              suffix |-> SubSeq(channel, k, Len(channel))]

\* The suffix is what follows the last slash, slash included; the
\* connection id is the number between the last two slashes; the rest is the
\* channel of the client.
SplitChannel(channel) ==
    LET k  == BackToSlash(channel, Len(channel))
        j  == BackToSlash(channel, k - 1)
        n  == StringToInt(SubSeq(channel, j + 1, k - 1))
    IN  IF k = 0 \/ j = 0 \/ ~n.ok THEN Failed
        ELSE [ok |-> TRUE, channel |-> SubSeq(channel, 1, j - 1),
              connection_id |-> n.value,
              suffix |-> SubSeq(channel, k, Len(channel))]

-----------------------------------------------------------------------------
(* Session                                                                 *)

Outcome(status, to, channel) ==
    [status |-> status, to |-> to, channel |-> channel]

Returns(payload, outcome) ==
    /\ last' = [payload |-> payload] @@ outcome
    /\ UNCHANGED <<session, bidi_connections_, closed, opened, quit, browser,
                   thread, exit>>

Send_Unchecked(payload, split) ==
    Returns(payload, Outcome("kOk", split.connection_id,
                             IF split.channel = <<>> THEN NoChannel
                             ELSE split.channel))

\* find the connection and send_response.Run: a message for a connection
\* that is not in the list is skipped.
Send(payload, split) ==
    \/ /\ ~Contains(bidi_connections_, split.connection_id)
       /\ Returns(payload, Outcome("kOk", NoConnection, NoChannel))
    \/ /\ Contains(bidi_connections_, split.connection_id)
       /\ Returns(payload, Outcome("kOk", split.connection_id,
                                   IF split.channel = <<>> THEN NoChannel
                                   ELSE split.channel))

OnBidiResponse(payload) ==
    /\ session = "alive"
    /\ LET err   == Outcome("kUnknownError", NoConnection, NoChannel)
           split == SplitChannel(payload.channel)
       IN  \/ /\ payload.channel = NoChannel
              /\ Returns(payload, err)
           \/ /\ payload.channel # NoChannel
              /\ ~split.ok
              /\ Returns(payload, err)
           \/ /\ payload.channel # NoChannel
              /\ split.ok
              /\ split.channel # <<>>
              /\ split.suffix # kChannelSuffix
              /\ Returns(payload, err)
           \/ /\ payload.channel # NoChannel
              /\ split.ok
              /\ split.channel = <<>> \/ split.suffix = kChannelSuffix
              /\ \/ ~payload.writable /\ Returns(payload, err)
                 \/ payload.writable /\ Send(payload, split)

AddBidiConnection(c) ==
    /\ session = "alive"
    /\ c \in Connections \ opened
    /\ opened' = opened \cup {c}
    /\ bidi_connections_' = Append(bidi_connections_, c)
    /\ UNCHANGED <<session, closed, quit, browser, thread, last,
                   exit>>

\* A connection that is not in the list (closed from the other end
\* already) is no error.
RemoveBidiConnection(c) ==
    /\ session = "alive"
    /\ Contains(bidi_connections_, c)
    /\ bidi_connections_' = SelectSeq(bidi_connections_, LAMBDA x : x # c)
    /\ UNCHANGED <<session, closed, opened, quit, browser, thread,
                   last, exit>>

CloseAll_KeepList ==
    /\ closed' = closed \cup ToSet(bidi_connections_)
    /\ UNCHANGED bidi_connections_

CloseAll ==
    /\ closed' = closed \cup ToSet(bidi_connections_)
    /\ bidi_connections_' = <<>>

CloseAllConnections ==
    /\ session = "alive"
    /\ bidi_connections_ # <<>>
    /\ CloseAll
    /\ UNCHANGED <<session, opened, quit, browser, thread, last,
                   exit>>

\* The part of Terminate that follows its null check.
DeleteSession ==
    /\ CloseAll
    /\ session' = "deleted"
    /\ terminate_posted' = terminate_on_cmd
    /\ UNCHANGED terminate_on_cmd

Terminate ==
    /\ session = "alive"
    /\ DeleteSession
    /\ UNCHANGED <<opened, quit, browser, last, exit>>

\* What the function reads from the browser: the status of
\* HandleReceivedEvents and GetWebViewCount after it, then the same of
\* GetTopLevelWebViewIds.
Observation ==
    [events : StatusCode \ {"kInvalidSessionId"}, views : 0..MaxViews,
     refresh : StatusCode \ {"kInvalidSessionId"}, refreshed : 0..MaxViews]

\* The status the function holds when it has looked at the browser:
\* GetTopLevelWebViewIds is asked only when at most one view is left, and
\* its status replaces that of HandleReceivedEvents.
Looked(obs) ==
    IF obs.views <= 1 THEN [status |-> obs.refresh, views |-> obs.refreshed]
                      ELSE [status |-> obs.events, views |-> obs.views]

MustTerminate_EvenWithViews(seen) ==
    ~(seen.status = "kOk" /\ seen.views > 1)

MustTerminate(seen) ==
    /\ ~(seen.status = "kOk" /\ seen.views > 1)
    /\ ~(seen.status # "kDisconnected" /\ seen.views > 1)

\* A session that was created with a web_socket_url looks at the browser
\* and ends if it must.  detach is Session::detach, which is read here and
\* nowhere else.
HandleMessagesAndTerminateIfNecessary(obs, detach) ==
    /\ session = "alive"
    /\ MustTerminate(Looked(obs))
    /\ exit' = [status |-> IF Looked(obs).status = "kOk"
                           THEN "kInvalidSessionId" ELSE Looked(obs).status,
                views  |-> Looked(obs).views,
                detach |-> detach]
    /\ quit' = TRUE
    /\ browser' = IF detach THEN browser ELSE "quit"
    /\ DeleteSession
    /\ UNCHANGED <<opened, last>>

-----------------------------------------------------------------------------

NoExit == [status |-> "kOk", views |-> 0, detach |-> FALSE]

Init ==
    /\ session = "alive"
    /\ bidi_connections_ = <<>>
    /\ closed = {}
    /\ opened = {}
    /\ quit = FALSE
    /\ browser = "running"
    /\ terminate_on_cmd \in BOOLEAN
    /\ terminate_posted = FALSE
    /\ last = [payload |-> [channel |-> NoChannel, writable |-> TRUE]]
              @@ Outcome("kOk", NoConnection, NoChannel)
    /\ exit = NoExit

Next ==
    \/ \E p \in Payload : OnBidiResponse(p)
    \/ \E c \in Connections : AddBidiConnection(c)
    \/ \E c \in Connections : RemoveBidiConnection(c)
    \/ CloseAllConnections
    \/ Terminate
    \/ \E obs \in Observation, detach \in BOOLEAN :
           HandleMessagesAndTerminateIfNecessary(obs, detach)

Spec == Init /\ [][Next]_vars

-----------------------------------------------------------------------------

TypeOK ==
    /\ session \in {"alive", "deleted"}
    /\ bidi_connections_ \in Seq(Connections)
    /\ session = "deleted" => bidi_connections_ = <<>>
    /\ closed \subseteq opened
    /\ opened \subseteq Connections
    /\ quit \in BOOLEAN
    /\ browser \in {"running", "quit"}
    /\ terminate_on_cmd \in BOOLEAN
    /\ terminate_posted \in BOOLEAN /\ terminate_posted => terminate_on_cmd
    /\ last \in [payload : Payload, status : StatusCode,
                 to : Connections \cup {NoConnection},
                 channel : Channel \cup {NoChannel}]
    /\ exit \in [status : StatusCode, views : 0..MaxViews, detach : BOOLEAN]

\* The channel read as <client's channel>/<connection id>/<suffix>, where
\* neither the id nor the suffix holds a slash: the splits of a channel, of
\* which there is at most one.
Splits(channel) ==
    {<<i, j>> \in (DOMAIN channel) \X (DOMAIN channel) :
        /\ i < j
        /\ \A k \in DOMAIN channel : channel[k] = Slash /\ k >= i => k \in {i, j}
        /\ channel[i] = Slash /\ channel[j] = Slash}

\* OnBidiResponse hands a message to connection c exactly when its channel
\* reads <client's channel>/c/<suffix>, the suffix is kChannelSuffix or the
\* client's channel is empty, the message serializes and c is open; the
\* message then carries the client's channel, or none if that is empty
\* (SplitChannel takes the channel apart from the right, so slashes in the
\* client's channel do no harm).
RoutedToTheNamedConnection ==
    LET ch == last.payload.channel
        deliverable(i, j) ==
            LET id == SubSeq(ch, i + 1, j - 1)
            IN  /\ StringToInt(id).ok
                /\ i = 1 \/ SubSeq(ch, j, Len(ch)) = kChannelSuffix
                /\ last.payload.writable
    IN  /\ last.to # NoConnection =>
               /\ ch # NoChannel
               /\ \E <<i, j>> \in Splits(ch) :
                      /\ deliverable(i, j)
                      /\ StringToInt(SubSeq(ch, i + 1, j - 1)).value = last.to
                      /\ last.channel = IF i = 1 THEN NoChannel
                                        ELSE SubSeq(ch, 1, i - 1)
        /\ last.status = "kUnknownError" /\ ch # NoChannel =>
               \A <<i, j>> \in Splits(ch) : ~deliverable(i, j)

\* A connection that was told to close gets no further message:
\* CloseAllConnections empties bidi_connections_, and OnBidiResponse skips a
\* message for a connection it does not find ("a message from the mapper
\* designated to the channel that has recently been closed").
ClosedConnectionsGetNothing ==
    [][last' # last /\ last'.to # NoConnection =>
           /\ Contains(bidi_connections_, last'.to)
           /\ last'.to \notin closed]_vars

\* "Either is true: the error is kDisconnected; web view count <= 1.  In
\* both cases the session must be terminated": HandleMessagesAndTerminate-
\* IfNecessary ends a session for no other reason, and then the session is
\* deleted and the browser is quit unless the session detaches.
TerminatedForAReason ==
    quit =>
        /\ exit.status = "kDisconnected" \/ exit.views <= 1
        /\ session = "deleted"
        /\ ~exit.detach => browser = "quit"

=============================================================================
