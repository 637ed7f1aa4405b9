------------------------------ MODULE UvHandle ------------------------------
(***************************************************************************)
(* What Timer, Udp, Signal and Idle have in common: an object that owns a   *)
(* libuv handle, and the handle as libuv has it.  A DNSGet has a request in *)
(* the place of the handle.  The classes are functions from record to       *)
(* record; Handles says when they happen.                                   *)
(***************************************************************************)
EXTENDS Naturals

\* obj:      the C++ object: alive or destroyed
\* uv, mem:  its handle: open, closing (uv_close called) or closed, and
\*           whether its memory is still allocated
\* active:   uv_is_active
\* asked, answered: calls of close(), and calls of the callback given to it
\* fired:    calls of the application's other callback, counted to 2
\* sends:    requests outstanding in libuv
\* leaked:   request objects nobody will free
\* started, repeat, repeated: Timer: started_, repeat_ > 0, and ever so
\* ipv, bound: Udp: ipv_, and the family the socket is bound to
\* unheard:  a failure was logged and the log did not pass it on
\* named:    the last address given to the application: right or misread
\* rebound:  history: a bound Udp was asked to bind to another family
NewObject(kind) ==
    [kind |-> kind, obj |-> "live", uv |-> "open", mem |-> "held",
     active |-> FALSE, asked |-> 0, answered |-> 0, fired |-> 0, sends |-> 0,
     leaked |-> 0, started |-> FALSE, repeat |-> FALSE, repeated |-> FALSE,
     ipv |-> "unset", bound |-> "none", named |-> "none", rebound |-> FALSE,
     unheard |-> FALSE]

\* The application calls an object until it has been told that it is closed.
Usable(r) == r.obj = "live" /\ r.answered = 0

Fired(r) == [r EXCEPT !.fired = IF @ < 2 THEN @ + 1 ELSE @]

\* uv_close, unless it has been called; then the caller's callback is made at
\* once.
UvClose(r) ==
    IF r.uv = "open" THEN [r EXCEPT !.asked = @ + 1, !.uv = "closing", !.active = FALSE]
    ELSE [r EXCEPT !.asked = @ + 1, !.answered = @ + 1]

\* libuv's close callback, once nothing is outstanding on the handle.
UvClosed(r) == [r EXCEPT !.uv = "closed", !.answered = @ + 1]

\* libuv has the handle or the request: a handle is in its loop's list from its
\* initialisation, stopped or not, until uv_close has completed.
InUse(r) == IF r.kind = "dns" THEN r.sends > 0 ELSE r.uv # "closed"
=============================================================================
