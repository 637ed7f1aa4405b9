------------------------------- MODULE Signal -------------------------------
(***************************************************************************)
(* uv::Signal: watches from its construction.                               *)
(***************************************************************************)
EXTENDS UvHandle

NewSignal == [NewObject("signal") EXCEPT !.active = TRUE]

\* onSignal(): a signal without a handler is only logged.
onSignal(r, handled) == IF handled THEN Fired(r) ELSE r

signalClose(r) == UvClose(r)
signalClosed(r) == [UvClosed(r) EXCEPT !.mem = "freed"]
=============================================================================
