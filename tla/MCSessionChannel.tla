--------------------------- MODULE MCSessionChannel ---------------------------
(* SessionChannel for TLC: the connections 1 and 11, every channel of up   *)
(* to five symbols (which reaches a client's channel before the id, an     *)
(* empty one, a two digit id, wrong and missing suffixes and ids), and a   *)
(* browser with up to two web views.                                       *)
EXTENDS SessionChannel

MCConnections == {1, 11}

=============================================================================
