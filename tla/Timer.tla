------------------------------- MODULE Timer -------------------------------
(***************************************************************************)
(* uv::Timer.  The handle is deleted in its close callback, the object by   *)
(* the application.                                                         *)
(***************************************************************************)
EXTENDS UvHandle

NewTimer(repeat) ==
    [NewObject("timer") EXCEPT !.repeat = repeat, !.repeated = repeat]

timerRestart(r) == [r EXCEPT !.started = TRUE, !.active = TRUE]  \* mutant

timerStart(r) == IF r.started THEN r ELSE [r EXCEPT !.started = TRUE, !.active = TRUE]

setTimerRepeat(r, repeat) == [r EXCEPT !.repeat = repeat, !.repeated = @ \/ repeat]

\* process(): libuv has stopped the timer, and started it again if it repeats.
onTimeOut(r) == Fired([r EXCEPT !.active = r.repeat])

timerCloseNow(r) ==  \* mutant: the close callback is made without waiting
    [UvClose([r EXCEPT !.active = FALSE]) EXCEPT !.answered = @ + 1]

timerClose(r) == UvClose([r EXCEPT !.active = FALSE])

timerClosedSilently(r) ==  \* mutant: the handle goes and nobody is told
    [r EXCEPT !.uv = "closed", !.mem = "freed"]

timerClosed(r) == [UvClosed(r) EXCEPT !.mem = "freed"]
=============================================================================
