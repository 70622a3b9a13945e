---------------------------- MODULE MCHttpServer ----------------------------
(***************************************************************************)
(* HttpServer for TLC: two connections, two addresses of which the         *)
(* whitelist holds none or one, and one path of each shape                 *)
(* OnWebSocketRequest tells apart.                                         *)
(***************************************************************************)
EXTENDS HttpServer

CONSTANTS a1, a2

MCConnections == {1, 2}

MCAddresses == {a1, a2}

\* "session/s1", "session/" (an empty session id), "s1/session" (a wrong
\* fixed part), "session" (too short) and "session/s1/" (too long).
MCPaths ==
    {<<"session", "s1">>, <<"session", "">>, <<"s1", "session">>,
     <<"session">>, <<"session", "s1", "">>}

\* No whitelist, or one that holds a1 and not a2.
MCWhitelists == {{}, {a1}}

=============================================================================
