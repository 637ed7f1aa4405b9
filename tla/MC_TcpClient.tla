---------------------------- MODULE MC_TcpClient ----------------------------
(* A client that connects up to three times. *)
EXTENDS TcpClient

CONSTANTS s1, s2, s3, peer

MCSockets == {s1, s2, s3}
MCNames == {peer}
=============================================================================
