---------------------------- MODULE MC_TcpServer ----------------------------
(* A server with two connections, two peer addresses, and a heartbeat off or *)
(* of a few seconds.                                                         *)
EXTENDS TcpServer

CONSTANTS c1, c2, n1, n2

MCConns == {c1, c2}
MCNames == {n1, n2}
MCOne == {c1}
MCTimeouts == 0..3
=============================================================================
