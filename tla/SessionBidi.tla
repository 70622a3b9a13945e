----------------------------- MODULE SessionBidi -----------------------------
(***************************************************************************)
(* The BiDi response queue of a Session (session.cc).                      *)
(*                                                                         *)
(* The BiDi mapper running in the browser produces responses and events;   *)
(* BidiTracker hands each payload to Session::OnBidiResponse.  WebSocket   *)
(* connections of the WebDriver client come and go in between.  While no   *)
(* connection is open the payloads wait in bidi_response_queue_, which     *)
(* keeps the newest kBidiQueueCapacity of them; ProcessBidiResponseQueue   *)
(* hands whatever waits to every open connection.                          *)
(*                                                                         *)
(* `received`, `produced` and `asked_at` are history variables:            *)
(* they record what the mapper and the client did and are read by the      *)
(* properties and the bound only.                                          *)
(***************************************************************************)
EXTENDS Integers, Sequences, FiniteSets, SequencesExt

CONSTANTS
    Connections,         \* connection ids the HTTP server hands out
    ResponseIds,         \* values of the "id" field of a BiDi response
    kBidiQueueCapacity,  \* 20 in session.cc
    MaxPayloads          \* bound on the payloads the mapper produces

ASSUME /\ ResponseIds \subseteq Nat
       /\ kBidiQueueCapacity \in Nat \ {0}
       /\ MaxPayloads \in Nat

\* FindInt("id") of an event, and awaited_bidi_response_id while no command
\* waits.
NoId == -1

VARIABLES
    bidi_mapper_is_launched_,
    bidi_response_queue_,
    bidi_connections_,        \* std::vector<BidiConnection>, by connection_id
    awaited_bidi_response_id,
    sent,          \* what send_response.Run was given, per connection
    closed,        \* connections whose close_connection ran
    opened,        \* connection ids used so far: the server never reuses one
    received,      \* history: how many payloads BidiTracker handed over
    produced,      \* history: the messages that were pushed, in order
    asked_at       \* history: Len(produced) when the waiting command began

vars == <<bidi_mapper_is_launched_, bidi_response_queue_, bidi_connections_,
          awaited_bidi_response_id, sent, closed, opened, received, produced,
          asked_at>>

\* A parsed payload that is pushed: n numbers the messages as they come.
Message == [n : 1..MaxPayloads, id : ResponseIds \cup {NoId},
            writable : BOOLEAN]

\* What BidiTracker may hand over: text that is no JSON dictionary, the
\* mapper's {"launched": true}, a response (with id) or an event (without),
\* which JSONWriter can or cannot serialize again.
Payload ==
    [kind : {"not_a_dict", "launched"}, id : {NoId}, writable : {TRUE}]
    \cup [kind : {"message"}, id : ResponseIds \cup {NoId},
          writable : BOOLEAN]

\* The members ProcessBidiResponseQueue reads and writes.
Members ==
    [queue   |-> bidi_response_queue_,
     conns   |-> bidi_connections_,
     awaited |-> awaited_bidi_response_id,
     sent    |-> sent]

Store(s) ==
    /\ bidi_response_queue_' = s.queue
    /\ bidi_connections_' = s.conns
    /\ awaited_bidi_response_id' = s.awaited
    /\ sent' = s.sent

-----------------------------------------------------------------------------

ProcessBidiResponseQueue_KeepAwaited(s) ==
    IF s.conns = <<>> \/ s.queue = <<>> THEN s
    ELSE LET out == SelectSeq(s.queue, LAMBDA m : m.writable)
         IN  [s EXCEPT !.queue = <<>>,
                       !.sent = [c \in DOMAIN @ |->
                                    IF c \in ToSet(s.conns) THEN @[c] \o out
                                                           ELSE @[c]]]

\* Every waiting message is popped; those that serialize go to every
\* connection, and a response with the awaited id ends the wait.
ProcessBidiResponseQueue(s) ==
    IF s.conns = <<>> \/ s.queue = <<>> THEN s
    ELSE LET out == SelectSeq(s.queue, LAMBDA m : m.writable)
         IN  [s EXCEPT !.queue = <<>>,
                       !.sent = [c \in DOMAIN @ |->
                                    IF c \in ToSet(s.conns) THEN @[c] \o out
                                                           ELSE @[c]],
                       !.awaited = IF \E m \in ToSet(out) : m.id = @
                                   THEN NoId ELSE @]

Push_NoPop(q, m) == Append(q, m)

\* push, then pop from the front for as long as the queue is over capacity.
Push(q, m) ==
    LET all == Append(q, m)
    IN  SubSeq(all, Len(all) - Min({Len(all), kBidiQueueCapacity}) + 1,
               Len(all))

OnBidiResponse(p) ==
    /\ received < MaxPayloads
    /\ received' = received + 1
    /\ \/ /\ p.kind = "not_a_dict"
          /\ UNCHANGED <<bidi_mapper_is_launched_, bidi_response_queue_,
                         bidi_connections_, awaited_bidi_response_id, sent,
                         produced>>
       \/ /\ p.kind = "launched"
          /\ bidi_mapper_is_launched_' = TRUE
          /\ UNCHANGED <<bidi_response_queue_, bidi_connections_,
                         awaited_bidi_response_id, sent, produced>>
       \/ /\ p.kind = "message"
          /\ LET m == [n |-> Len(produced) + 1, id |-> p.id,
                       writable |-> p.writable]
             IN  /\ produced' = Append(produced, m)
                 /\ Store(ProcessBidiResponseQueue(
                        [Members EXCEPT !.queue = Push(@, m)]))
          /\ UNCHANGED bidi_mapper_is_launched_
    /\ UNCHANGED <<closed, opened, asked_at>>

AddBidiConnection_NoProcess(c) ==
    /\ c \in Connections \ opened
    /\ opened' = opened \cup {c}
    /\ Store([Members EXCEPT !.conns = Append(@, c)])
    /\ UNCHANGED <<bidi_mapper_is_launched_, closed, received, produced,
                   asked_at>>

AddBidiConnection(c) ==
    /\ c \in Connections \ opened
    /\ opened' = opened \cup {c}
    /\ Store(ProcessBidiResponseQueue([Members EXCEPT !.conns = Append(@, c)]))
    /\ UNCHANGED <<bidi_mapper_is_launched_, closed, received, produced,
                   asked_at>>

\* find_if and erase: a connection that is not in the list is left alone.
RemoveBidiConnection(c) ==
    /\ c \in opened
    /\ bidi_connections_' = SelectSeq(bidi_connections_, LAMBDA x : x # c)
    /\ UNCHANGED <<bidi_mapper_is_launched_, bidi_response_queue_,
                   awaited_bidi_response_id, sent, closed, opened, received,
                   produced, asked_at>>

\* Every connection is told to close; the list itself is left as it is.
CloseAllConnections ==
    /\ closed' = closed \cup ToSet(bidi_connections_)
    /\ UNCHANGED <<bidi_mapper_is_launched_, bidi_response_queue_,
                   bidi_connections_, awaited_bidi_response_id, sent, opened,
                   received, produced, asked_at>>

\* A BiDi command of the client is posted to the mapper and the session
\* waits for the response with its id.
AwaitBidiResponse(id) ==
    /\ awaited_bidi_response_id = NoId
    /\ id \in ResponseIds
    /\ awaited_bidi_response_id' = id
    /\ asked_at' = Len(produced)
    /\ UNCHANGED <<bidi_mapper_is_launched_, bidi_response_queue_,
                   bidi_connections_, sent, closed, opened, received, produced>>

-----------------------------------------------------------------------------

Init ==
    /\ bidi_mapper_is_launched_ = FALSE
    /\ bidi_response_queue_ = <<>>
    /\ bidi_connections_ = <<>>
    /\ awaited_bidi_response_id = NoId
    /\ sent = [c \in Connections |-> <<>>]
    /\ closed = {}
    /\ opened = {}
    /\ received = 0
    /\ produced = <<>>
    /\ asked_at = 0

Next ==
    \/ \E p \in Payload : OnBidiResponse(p)
    \/ \E c \in Connections : AddBidiConnection(c)
    \/ \E c \in Connections : RemoveBidiConnection(c)
    \/ CloseAllConnections
    \/ \E id \in ResponseIds : AwaitBidiResponse(id)

Spec == Init /\ [][Next]_vars

-----------------------------------------------------------------------------

TypeOK ==
    /\ bidi_mapper_is_launched_ \in BOOLEAN
    /\ bidi_response_queue_ \in Seq(Message)
    /\ Len(bidi_response_queue_) <= kBidiQueueCapacity
    /\ bidi_connections_ \in Seq(Connections)
    /\ awaited_bidi_response_id \in ResponseIds \cup {NoId}
    /\ sent \in [Connections -> Seq(Message)]
    /\ closed \subseteq opened
    /\ opened \subseteq Connections
    /\ received \in 0..MaxPayloads
    /\ produced \in Seq(Message)
    /\ asked_at \in 0..MaxPayloads

\* The session as the mailbox of BidiMailbox: bidi_response_queue_ is the
\* box, the connections of bidi_connections_ are the listeners, and a
\* message JSONWriter cannot serialize is a letter that cannot be written.
Mailbox ==
    INSTANCE BidiMailbox WITH
        Listeners  <- Connections,
        Letters    <- Message,
        Unwritable <- {m \in Message : ~m.writable},
        Capacity   <- kBidiQueueCapacity,
        box        <- bidi_response_queue_,
        listening  <- ToSet(bidi_connections_),
        delivered  <- sent

\* "If there is no active bidi connections the events will be accumulated":
\* every step of OnBidiResponse, AddBidiConnection and RemoveBidiConnection
\* is a step of the mailbox or leaves it as it is.  So the queue overflows
\* by losing its oldest message and no other, a connection that opens gets
\* all that waits before anything newer, nothing waits while a connection
\* is open, and what was sent is never taken back or reordered.
ImplementsMailbox == Mailbox!Spec

\* While awaited_bidi_response_id names a command, its response has not been
\* handed to any connection: ProcessBidiResponseQueue resets the id in the
\* step that sends the response.
AwaitedResponseIsOutstanding ==
    awaited_bidi_response_id # NoId =>
        \A c \in Connections : \A m \in ToSet(sent[c]) :
            m.n > asked_at => m.id # awaited_bidi_response_id

=============================================================================
