----------------------------- MODULE CommandRpc -----------------------------
(***************************************************************************)
(* What the clients of a socket promise of the commands they send.  Every  *)
(* client numbers its commands from one.  A command waits for its answer,  *)
(* or was sent by somebody who does not care for one.  The answer of a     *)
(* command is the browser's answer to the command of that client and       *)
(* number, it arrives at most once, and once it is stored it stays.  A     *)
(* command that waits may be found blocked by a dialog; its caller then    *)
(* gives it up, unless the answer comes first.                             *)
(*                                                                         *)
(* DevToolsClient implements this specification: the ResponseInfo objects  *)
(* of a client are its commands, the keys of response_info_map_ the        *)
(* commands whose answer is still to come.                                 *)
(***************************************************************************)
EXTENDS Naturals, Sequences

CONSTANTS
    Clients,      \* who sends commands
    None          \* no answer

VARIABLES
    commands,     \* client -> its commands by number: state and answer
    awaited       \* client -> the commands whose answer is still to come

rpc == <<commands, awaited>>

\* The browser's answer to command id of client c, a result or an error.
AnswersTo(c, id) == [session : {c}, id : {id}, ok : BOOLEAN]

\* Client c sends its next command, to wait for the answer or not.
Issue(c) ==
    /\ \E state \in {"kWaiting", "kIgnored"} :
           commands' = [commands EXCEPT
                            ![c] = Append(@, [state |-> state,
                                              answer |-> None])]
    /\ awaited' = [awaited EXCEPT ![c] = @ \cup {Len(commands[c]) + 1}]

\* The answer to a command arrives.  It is stored, unless nobody cares.
Answer(c, id) ==
    /\ id \in awaited[c]
    /\ awaited' = [awaited EXCEPT ![c] = @ \ {id}]
    /\ \/ /\ commands[c][id].state = "kIgnored"
          /\ UNCHANGED commands
       \/ /\ commands[c][id].state \in {"kWaiting", "kBlocked"}
          /\ \E r \in AnswersTo(c, id) :
                 commands' = [commands EXCEPT
                                  ![c][id] = [state |-> "kReceived",
                                              answer |-> r]]

\* Some of the commands of c that wait are found blocked by a dialog.
Block(c) ==
    \E ids \in (SUBSET awaited[c]) \ {{}} :
        /\ \A id \in ids : commands[c][id].state = "kWaiting"
        /\ commands' = [commands EXCEPT ![c] =
               [id \in DOMAIN @ |->
                   IF id \in ids THEN [@[id] EXCEPT !.state = "kBlocked"]
                   ELSE @[id]]]
        /\ UNCHANGED awaited

\* The caller of a blocked command returns without the answer.
GiveUp(c, id) ==
    /\ id \in DOMAIN commands[c]
    /\ commands[c][id].state = "kBlocked"
    /\ commands' = [commands EXCEPT ![c][id].state = "kIgnored"]
    /\ UNCHANGED awaited

Init ==
    /\ commands = [c \in Clients |-> <<>>]
    /\ awaited = [c \in Clients |-> {}]

Next ==
    \E c \in Clients :
        \/ Issue(c)
        \/ Block(c)
        \/ \E id \in DOMAIN commands[c] : Answer(c, id) \/ GiveUp(c, id)

Spec == Init /\ [][Next]_rpc

=============================================================================
