---------------------------- MODULE MC_PingPang ----------------------------
(* Bytes of three values: 1 is the head byte, 2 the end byte.  The messages  *)
(* hold both, and the size field can equal either.                           *)
EXTENDS PingPang

MCMessages == {<<>>, <<1>>, <<2, 1>>, <<1, 0, 2>>}
MCNoises == {<<0>>, <<2, 0, 2>>}
MCModes == {"NoBuffer", "CycleBuffer"}
=============================================================================
