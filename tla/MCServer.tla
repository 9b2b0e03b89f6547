------------------------------- MODULE MCServer -------------------------------
(* Two connections; the client of one of them sends pings.                 *)
EXTENDS PingServer
CONSTANTS c1, c2
MCConns == {c1, c2}
MCPings == [c \in MCConns |-> IF c = c1 THEN 3 ELSE 0]
=============================================================================
