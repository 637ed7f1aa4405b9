-------------------------------- MODULE Idle --------------------------------
(***************************************************************************)
(* uv::Idle: runs from its construction until it is destroyed.  The class   *)
(* has no close(): the handle is deleted stopped but not closed, with libuv *)
(* still holding it in the loop's list.  Nothing calls it back; the next    *)
(* handle initialised on the loop is linked behind freed memory.            *)
(***************************************************************************)
EXTENDS UvHandle

NewIdle == [NewObject("idle") EXCEPT !.active = TRUE]

idleCallback(r) == Fired(r)

idleDestroyed(r) == [r EXCEPT !.active = FALSE, !.obj = "dead", !.mem = "freed"]
=============================================================================
