----------------------------- MODULE TcpServer -----------------------------
(***************************************************************************)
(* uv::TcpServer with its TcpAccepter, its connections and its heartbeat    *)
(* wheel, on the loop thread.  Every action is one callback libuv makes or  *)
(* one call the application makes; libuv runs them one at a time.           *)
(*                                                                         *)
(* A wheel value is the ConnectionWrapper of a connection: the wheel owns   *)
(* it, the connection only points weakly at it, and its destructor calls    *)
(* onSocketClose().                                                        *)
(*                                                                         *)
(* Reclose lets the application close a connection by name while it is      *)
(* closing, which the code does not protect itself against (HttpServer does *)
(* it from a write callback).  Peer names are assumed distinct among the     *)
(* registered connections.                                                  *)
(***************************************************************************)
EXTENDS TcpConnection, TimerWheel

CONSTANTS Reclose, NoConn

ASSUME ServerAssumption ==
    /\ Values = Conns
    /\ NoConn \notin Conns
    /\ Names # {} /\ MaxWrites \in Nat
    /\ Reclose \in BOOLEAN

VARIABLES
    registry,     \* connnections_
    accepter      \* accetper_: none, bound (not listening), listening,
                  \* closing, closed

serverVars == <<registry, accepter>>
vars == <<conn, wheelVars, serverVars>>

Init ==
    /\ conn = [c \in Conns |-> NoConnection(CHOOSE n \in Names : TRUE)]
    /\ WheelInit
    /\ registry = [n \in Names |-> NoConn]
    /\ accepter = "none"

Registered == {registry[n] : n \in Names} \ {NoConn}

-----------------------------------------------------------------------------
(* closeConnection() for every name in ns, on the records rec.  A connection *)
(* whose handle is already closing completes at once: the close callback is   *)
(* made, the name is removed, and with it the last reference to the object.   *)

Targets(ns) == {registry[n] : n \in ns} \ {NoConn}

Completed(r) == [r EXCEPT !.told = @ + 1, !.obj = "dead"]

CloseAndRemove(rec, ns) ==  \* mutant: the name is removed without waiting
    /\ conn' = [c \in Conns |->
                  IF c \in Targets(ns) THEN Completed(Closing(rec[c])) ELSE rec[c]]
    /\ registry' = [n \in Names |->
                      IF registry[n] \in Targets(ns) THEN NoConn ELSE registry[n]]

closeConnections(rec, ns) ==
    LET again == {c \in Targets(ns) : rec[c].uv # "open"}
    IN  /\ conn' = [c \in Conns |->
                      IF c \in again THEN Completed(Closing(rec[c]))
                      ELSE IF c \in Targets(ns) THEN Closing(rec[c])
                      ELSE rec[c]]
        /\ registry' = [n \in Names |->
                          IF registry[n] \in again THEN NoConn ELSE registry[n]]

\* The names whose connection is among cs and still has its close callback.
OnSocketClose(cs) == {conn[c].name : c \in {d \in cs : conn[d].hooked}}

\* Closing a name is safe for the caller only while its handle is open.
CanClose(n) ==
    /\ registry[n] # NoConn
    /\ Reclose \/ conn[registry[n]].uv = "open"

\* What a user callback for connection c may do: nothing, or close it.
Reactions(c) == {{}} \cup (IF CanClose(conn[c].name) THEN {{conn[c].name}} ELSE {})

-----------------------------------------------------------------------------
(* Calls of the application *)

SetTimeout(seconds) ==
    /\ accepter = "none"
    /\ setTimeout(seconds)
    /\ UNCHANGED <<conn, serverVars>>

\* bindAndListen(), the first time or once the last accepter is closed; the
\* wheel is started when bind succeeded, whether or not listen does.
BindAndListen ==
    /\ accepter \in {"none", "closed"}
    /\ \/ accepter' = "bound" /\ UNCHANGED wheelVars
       \/ accepter' \in {"bound", "listening"} /\ start
    /\ UNCHANGED <<conn, registry>>

CloseConnection(n) ==
    /\ CanClose(n)
    /\ closeConnections(conn, {n})
    /\ UNCHANGED <<wheelVars, accepter>>

Write(c) ==
    /\ conn[c].obj = "live" /\ conn[c].asked < MaxWrites
    /\ \E r \in WriteOutcomes([conn[c] EXCEPT !.asked = @ + 1]) :
          conn' = [conn EXCEPT ![c] = r]
    /\ UNCHANGED <<wheelVars, serverVars>>

\* writeInLoop() by another thread that holds the connection.
WriteInLoop(c) ==
    /\ conn[c].obj = "live" /\ conn[c].asked < MaxWrites
    /\ conn' = [conn EXCEPT ![c].asked = @ + 1, ![c].queued = @ + 1]
    /\ UNCHANGED <<wheelVars, serverVars>>

ForgetConnections ==  \* mutant: the connections are not closed
    /\ UNCHANGED <<conn, registry, wheelVars>>

\* The accepter's close callback: every registered connection is closed, then
\* close()'s callback is made.
FinishServerClose ==
    /\ closeConnections(conn, OnSocketClose(Registered))
    /\ UNCHANGED wheelVars

\* close(callback) does nothing without an accepter.  On one whose handle is
\* already closing or closed the callback is made at once.
Close ==
    \/ /\ accepter \in {"bound", "listening"}
       /\ accepter' = "closing"
       /\ UNCHANGED <<conn, wheelVars, registry>>
    \/ /\ accepter \in {"closing", "closed"}
       /\ UNCHANGED accepter
       /\ FinishServerClose

-----------------------------------------------------------------------------
(* Callbacks from libuv *)

AcceptUnwatched(c, n) ==  \* mutant: the wrapper is not put into the wheel
    /\ accepter = "listening" /\ conn[c].obj = "none" /\ registry[n] = NoConn
    /\ conn' = [conn EXCEPT ![c] = NewConnection(n)]
    /\ registry' = [registry EXCEPT ![n] = c]
    /\ UNCHANGED <<wheelVars, accepter>>

\* The uv_listen callback has a client for which c is made; a callback with an
\* error status is only logged.
Incoming(c) == accepter = "listening" /\ conn[c].obj = "none"

\* onAccept(): the connection is registered and its wrapper put in the wheel.
Accept(c, n) ==
    /\ Incoming(c) /\ registry[n] = NoConn
    /\ conn' = [conn EXCEPT ![c] = NewConnection(n)]
    /\ registry' = [registry EXCEPT ![n] = c]
    /\ insertAll({c})
    /\ UNCHANGED accepter

ReadNoHeartbeat(c) ==  \* mutant: data does not renew the heartbeat
    /\ conn[c].uv = "open" /\ conn[c].reading
    /\ \E ns \in Reactions(c) : closeConnections(conn, ns)
    /\ age' = [age EXCEPT ![c] = 0]
    /\ UNCHANGED <<timeoutSec, index, wheel, started>>
    /\ UNCHANGED accepter

\* onMesageReceive() with data: the user's callback, then the heartbeat.  A
\* wrapper the wheel has dropped is gone (weak_ptr::lock gives nullptr).
Read(c) ==
    /\ conn[c].uv = "open" /\ conn[c].reading
    /\ \E ns \in Reactions(c) : closeConnections(conn, ns)
    /\ insertAll({c} \cap Held)
    /\ UNCHANGED accepter

ReadEOF(c) ==
    /\ conn[c].uv = "open" /\ conn[c].reading
    /\ conn' = [conn EXCEPT ![c] = ReadEnded(@)]
    /\ UNCHANGED <<wheelVars, serverVars>>

ReadError(c) ==
    /\ conn[c].uv = "open" /\ conn[c].reading
    /\ closeConnections([conn EXCEPT ![c] = ReadFailed(@)], OnSocketClose({c}))
    /\ UNCHANGED <<wheelVars, accepter>>

\* The write queue is empty or cancelled: the shutdown callback, onSocketClose().
ShutdownDone(c) ==
    /\ conn[c].shut /\ conn[c].inflight = 0
    /\ closeConnections([conn EXCEPT ![c].shut = FALSE], OnSocketClose({c}))
    /\ UNCHANGED <<wheelVars, accepter>>

\* A write completes, fails, or is cancelled because the handle is closing;
\* its callback may close the connection by name, as HttpServer's does.
WriteDone(c) ==
    /\ conn[c].inflight > 0
    /\ \E ns \in Reactions(c) :
          closeConnections([conn EXCEPT ![c] = WriteDoneRec(@)], ns)
    /\ UNCHANGED <<wheelVars, accepter>>

LoopWrite(c) ==
    /\ conn[c].queued > 0
    /\ \E r \in LoopWriteOutcomes(conn[c]) : conn' = [conn EXCEPT ![c] = r]
    /\ UNCHANGED <<wheelVars, serverVars>>

FinishCloseKeepsName(c) ==  \* mutant: the name is not removed
    /\ conn[c].uv = "closing" /\ conn[c].inflight = 0 /\ ~conn[c].shut
    /\ LET d == registry[conn[c].name]
           rec == [conn EXCEPT ![c].uv = "closed"]
       IN  conn' = IF d = NoConn THEN rec ELSE [rec EXCEPT ![d] = Completed(@)]
    /\ UNCHANGED <<registry, wheelVars, accepter>>

FinishCloseSilent(c) ==  \* mutant: close() clears the callback after setting it
    /\ conn[c].uv = "closing" /\ conn[c].inflight = 0 /\ ~conn[c].shut
    /\ conn' = [conn EXCEPT ![c].uv = "closed"]
    /\ UNCHANGED <<registry, wheelVars, accepter>>

\* The uv_close callback, after libuv has cancelled what was outstanding:
\* CloseComplete() looks the connection up by name again.
FinishClose(c) ==
    /\ conn[c].uv = "closing" /\ conn[c].inflight = 0 /\ ~conn[c].shut
    /\ LET d == registry[conn[c].name]
           rec == [conn EXCEPT ![c].uv = "closed"]
       IN  /\ conn' = IF d = NoConn THEN rec ELSE [rec EXCEPT ![d] = Completed(@)]
           /\ registry' = [registry EXCEPT ![conn[c].name] = NoConn]
    /\ UNCHANGED <<wheelVars, accepter>>

\* One second passes: wrappers only the cleared slot held are destroyed, and
\* each closes its connection if that still exists.
Expired(i) ==
    {c \in Held \ HeldIn(Cleared(i)) : conn[c].obj = "live"}

Tick ==
    /\ wheelCallback
    /\ closeConnections(conn, OnSocketClose(Expired(NextIndex)))
    /\ UNCHANGED accepter

AccepterClosed ==
    /\ accepter = "closing"
    /\ accepter' = "closed"
    /\ FinishServerClose

-----------------------------------------------------------------------------
\* What happens whatever peers and application do.
LoopProgress(c) ==
    \/ ShutdownDone(c) \/ FinishClose(c) \/ LoopWrite(c)
    \/ conn[c].uv = "closing" /\ WriteDone(c)

Next ==
    \/ \E seconds \in Timeouts : SetTimeout(seconds)
    \/ BindAndListen
    \/ Close
    \/ \E n \in Names : CloseConnection(n)
    \/ \E c \in Conns :
          \/ \E n \in Names : Accept(c, n)
          \/ Write(c) \/ WriteInLoop(c)
          \/ Read(c) \/ ReadEOF(c) \/ ReadError(c)
          \/ ShutdownDone(c) \/ WriteDone(c) \/ LoopWrite(c) \/ FinishClose(c)
    \/ Tick
    \/ AccepterClosed

Spec == Init /\ [][Next]_vars

\* The loop keeps running: it delivers close and shutdown completions, queued
\* callbacks and timer ticks.  A write to an open peer may take forever.
Fairness ==
    /\ WF_vars(Tick)
    /\ WF_vars(AccepterClosed)
    /\ \A c \in Conns : WF_vars(LoopProgress(c))

FairSpec == Spec /\ Fairness

-----------------------------------------------------------------------------
TypeOK ==
    /\ conn \in [Conns -> ConnRecords]
    /\ registry \in [Names -> Conns \cup {NoConn}]
    /\ accepter \in {"none", "bound", "listening", "closing", "closed"}
    /\ WheelTypeOK

\* A destroyed connection has left nothing behind in libuv: its handle is
\* closed, and no write or shutdown request points at it.  libuv still uses a
\* closing handle (comment at TcpConnection.cpp:107).
NoEarlyFree ==
    \A c \in Conns : conn[c].obj = "dead" =>
        conn[c].uv = "closed" /\ ~conn[c].shut /\ conn[c].inflight = 0

\* The registry and the live connections are the same, under the right names,
\* and the application is told of the end of each exactly when it is removed.
RegistryExact ==
    \A c \in Conns :
        /\ conn[c].obj = "live" <=> registry[conn[c].name] = c
        /\ conn[c].told = IF conn[c].obj = "dead" THEN 1 ELSE 0

\* With a heartbeat timeout, the wheel watches every connection that nobody
\* has begun to close.
HeartbeatWatches ==
    \A c \in Conns : conn[c].obj = "live" /\ conn[c].hooked /\ timeoutSec > 0 =>
        c \in Held /\ age[c] < timeoutSec

\* A tick closes a connection only when timeoutSec_ ticks have passed since its
\* accept or its last data.
HeartbeatNotEarly ==
    [][Tick => \A c \in Conns :
         conn[c].uv = "open" /\ conn'[c].uv = "closing" => age[c] + 1 = timeoutSec]_vars

\* With a heartbeat timeout, a connection whose peer has gone away is destroyed
\* and reported, even if a write to it never completes.
DisconnectedReaped ==
    \A c \in Conns :
        conn[c].obj = "live" /\ ~conn[c].connected /\ timeoutSec > 0 ~>
            conn[c].obj = "dead"

\* close() ends every connection that was accepted.
CloseReaps ==
    \A c \in Conns :
        accepter = "closed" /\ conn[c].obj = "live" ~> conn[c].obj = "dead"
=============================================================================
