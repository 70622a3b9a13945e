------------------------- MODULE MCDevToolsConnect -------------------------
(***************************************************************************)
(* DevToolsConnect for TLC: every socket class.  On a socket without       *)
(* sessions, ids enough for a handshake, a command that is lost, the       *)
(* handshake of the reconnection and two commands after it; on one with    *)
(* sessions, a root and two children, and for each a handshake and two     *)
(* commands, so that two sessions have a command of the same id in flight. *)
(* On a socket whose status the test sets, a handshake and three commands. *)
(***************************************************************************)
EXTENDS DevToolsConnect

MCSocketKinds == Classes

=============================================================================
