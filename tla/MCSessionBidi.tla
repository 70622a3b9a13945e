---------------------------- MODULE MCSessionBidi ----------------------------
(* SessionBidi for TLC: two WebSocket connections, responses with one id   *)
(* and events, a queue of capacity 2 and four payloads, so that the queue  *)
(* overflows more than once and a connection meets a queue that is full.   *)
EXTENDS SessionBidi, TLC

CONSTANTS c1, c2

MCConnections == {c1, c2}

MCResponseIds == {1}

Symmetry == Permutations(MCConnections)

=============================================================================
