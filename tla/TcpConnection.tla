--------------------------- MODULE TcpConnection ---------------------------
(***************************************************************************)
(* uv::TcpConnection: one record per connection, and what each operation    *)
(* of the class does to it.  The operations are functions from record to    *)
(* record; TcpServer and TcpClient say when they happen.                    *)
(*                                                                         *)
(* Everything here runs on the loop thread except the call of writeInLoop.  *)
(***************************************************************************)
EXTENDS Naturals

CONSTANTS Conns,       \* connection objects; each is created at most once
          Names,       \* peer addresses, "ip:port"
          MaxWrites    \* bound: writes per connection

VARIABLE conn

\* obj:       the C++ object: not created, alive, destroyed
\* uv:        its uv_tcp_t: open, closing (uv_close called), closed
\* connected: connected_
\* hooked:    onMessageCallback_ and onConnectCloseCallback_ are set
\* reading:   uv_read_start is in effect
\* shut:      a uv_shutdown request is outstanding
\* inflight:  uv_write requests outstanding
\* queued:    writeInLoop callbacks waiting in the event loop
\* asked, answered: writes requested, and their callbacks made
\* told:      calls of the server's onConnectCloseCallback_ for it
NoConnection(n) ==
    [obj |-> "none", uv |-> "none", connected |-> FALSE, hooked |-> FALSE,
     reading |-> FALSE, shut |-> FALSE, inflight |-> 0, queued |-> 0,
     asked |-> 0, answered |-> 0, told |-> 0, name |-> n]

\* The constructor, followed by setMessageCallback and setConnectCloseCallback.
NewConnection(n) ==
    [NoConnection(n) EXCEPT !.obj = "live", !.uv = "open", !.connected = TRUE,
                            !.hooked = TRUE, !.reading = TRUE]

ClosingHooked(r) ==  \* mutant: close() leaves the callbacks set
    [r EXCEPT !.reading = FALSE, !.uv = IF @ = "open" THEN "closing" ELSE @]

\* close(): callbacks dropped, reading stopped, uv_close unless already called.
\* When it was, the caller goes straight on to CloseComplete().
Closing(r) ==
    [r EXCEPT !.hooked = FALSE, !.reading = FALSE,
              !.uv = IF @ = "open" THEN "closing" ELSE @]

\* onMesageReceive() with an error other than EOF, before onSocketClose().
ReadFailed(r) == [r EXCEPT !.connected = FALSE]

\* onMesageReceive() with UV_EOF: libuv has stopped reading, uv_shutdown starts.
ReadEnded(r) ==
    [r EXCEPT !.connected = FALSE, !.reading = FALSE, !.shut = TRUE]

WriteSilent(r) ==  \* mutant: a refused write is not answered
    {r} \cup
    (IF r.connected /\ r.uv = "open" THEN {[r EXCEPT !.inflight = @ + 1]} ELSE {})

\* write() after the call has been counted: refused at once when disconnected,
\* passed to uv_write otherwise, which itself refuses a closing handle and may
\* fail; a refusal is answered immediately.
WriteOutcomes(r) ==
    {[r EXCEPT !.answered = @ + 1]} \cup
    (IF r.connected /\ r.uv = "open" THEN {[r EXCEPT !.inflight = @ + 1]} ELSE {})

\* The lambda of writeInLoop(): write() if the object still exists.
LoopWriteOutcomes(r) ==
    LET q == [r EXCEPT !.queued = @ - 1]
    IN  IF r.obj = "live" THEN WriteOutcomes(q) ELSE {[q EXCEPT !.answered = @ + 1]}

\* The uv_write callback.
WriteDoneRec(r) == [r EXCEPT !.inflight = @ - 1, !.answered = @ + 1]

ConnRecords ==
    [obj : {"none", "live", "dead"}, uv : {"none", "open", "closing", "closed"},
     connected : BOOLEAN, hooked : BOOLEAN, reading : BOOLEAN, shut : BOOLEAN,
     inflight : 0..MaxWrites, queued : 0..MaxWrites, asked : 0..MaxWrites,
     answered : 0..MaxWrites, told : Nat, name : Names]

\* Every write is outstanding in exactly one place (libuv's queue or the event
\* loop's) until its callback is made, and the callback is made once.
WritesAccounted ==
    \A c \in Conns :
        conn[c].asked = conn[c].answered + conn[c].inflight + conn[c].queued
=============================================================================
