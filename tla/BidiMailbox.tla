----------------------------- MODULE BidiMailbox -----------------------------
(***************************************************************************)
(* What the BiDi side of a session promises the clients that listen on a   *)
(* WebSocket: a mailbox.  A message posted while somebody listens goes to  *)
(* every listener at once; while nobody listens the mailbox keeps the      *)
(* newest Capacity messages, and the first client to listen gets them, in  *)
(* the order they were posted.  A letter that cannot be written out is     *)
(* never handed to anybody.                                                *)
(*                                                                         *)
(* SessionBidi implements this specification: its queue is the box, its    *)
(* list of connections the listeners.                                      *)
(***************************************************************************)
EXTENDS Naturals, Sequences

CONSTANTS
    Listeners,    \* who may listen
    Letters,      \* what can be posted
    Unwritable,   \* the letters that cannot be written out
    Capacity      \* how many letters the box keeps

ASSUME /\ Unwritable \subseteq Letters
       /\ Capacity \in Nat \ {0}

VARIABLES
    box,          \* the letters that wait, oldest first
    listening,    \* the listeners there are
    delivered     \* listener -> what it was handed, in order

mailbox == <<box, listening, delivered>>

\* The newest Capacity letters of q.
Newest(q) ==
    IF Len(q) <= Capacity THEN q
    ELSE SubSeq(q, Len(q) - Capacity + 1, Len(q))

\* q is handed to the listeners `to`: each gets what can be written out.
Hand(q, to) ==
    [c \in Listeners |->
        IF c \in to
        THEN delivered[c] \o SelectSeq(q, LAMBDA m : m \notin Unwritable)
        ELSE delivered[c]]

\* Whatever waits goes to the listeners `to`, if there are any.
Flush(q, to) ==
    IF to = {} THEN box' = q /\ UNCHANGED delivered
    ELSE box' = <<>> /\ delivered' = Hand(q, to)

Post(m) ==
    /\ Flush(Newest(Append(box, m)), listening)
    /\ UNCHANGED listening

Listen(c) ==
    /\ c \notin listening
    /\ listening' = listening \cup {c}
    /\ Flush(box, listening')

Leave(c) ==
    /\ c \in listening
    /\ listening' = listening \ {c}
    /\ UNCHANGED <<box, delivered>>

Init ==
    /\ box = <<>>
    /\ listening = {}
    /\ delivered = [c \in Listeners |-> <<>>]

Next ==
    \/ \E m \in Letters : Post(m)
    \/ \E c \in Listeners : Listen(c)
    \/ \E c \in Listeners : Leave(c)

Spec == Init /\ [][Next]_mailbox

=============================================================================
