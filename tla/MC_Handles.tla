----------------------------- MODULE MC_Handles -----------------------------
(* An object of any kind: objects do not share anything but the log. *)
EXTENDS Handles

CONSTANT o1

MCObjs == {o1}
=============================================================================
