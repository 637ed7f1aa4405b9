----------------------------- MODULE TcpClient -----------------------------
(***************************************************************************)
(* uv::TcpClient on the loop thread: connecting, reconnecting, losing the   *)
(* connection and closing.  Each attempt to connect has a uv_tcp_t of its   *)
(* own, named by a member of Conns; conn[s] is that handle together with    *)
(* the TcpConnection made for it when the attempt succeeds.                 *)
(*                                                                         *)
(* The handle of an attempt is kept by socket_ and by the TcpConnection in  *)
(* connection_, and freed when neither refers to it any more.               *)
(*                                                                         *)
(* The application calls connect() the first time, or after it was told     *)
(* that the last attempt failed or its connection was closed.               *)
(***************************************************************************)
EXTENDS TcpConnection, Sequences

CONSTANTS NoConn, MaxCloses  \* MaxCloses bounds the calls of close()

ASSUME ClientAssumption ==
    NoConn \notin Conns /\ MaxWrites \in Nat /\ MaxCloses \in Nat

VARIABLES
    socket,        \* socket_: the handle of the last attempt
    connection,    \* connection_: the attempt whose TcpConnection it holds
    connecting,    \* the attempt whose uv_connect_t is outstanding
    onClosed,      \* closeCompleteCallback_: none, onClose, or the user's
    reports,       \* what connectCallback_ was told about each attempt
    closeCalls,    \* calls of close()
    closeAnswers   \* calls of the callbacks passed to close()

clientVars == <<socket, connection, connecting, onClosed, reports, closeCalls,
                closeAnswers>>
vars == <<conn, clientVars>>

Init ==
    /\ \E n \in Names : conn = [s \in Conns |-> NoConnection(n)]
    /\ socket = NoConn /\ connection = NoConn /\ connecting = NoConn
    /\ onClosed = [s \in Conns |-> "none"]
    /\ reports = [s \in Conns |-> <<>>]
    /\ closeCalls = 0 /\ closeAnswers = 0

runConnectCallback(s, status) ==
    reports' = [reports EXCEPT ![s] = Append(@, status)]

\* CloseComplete() of the connection of s, its callback being cb.
CloseComplete(s, cb) ==
    \/ /\ cb = "onClose" /\ runConnectCallback(s, "close") /\ UNCHANGED closeAnswers
    \/ /\ cb = "user" /\ closeAnswers' = closeAnswers + 1 /\ UNCHANGED reports

\* connection_->close(cb), with the records already changed to rec.
closeWith(rec, cb) ==
    /\ conn' = [rec EXCEPT ![connection] = Closing(@)]
    /\ onClosed' = [onClosed EXCEPT ![connection] = cb]
    /\ \/ rec[connection].uv = "open" /\ UNCHANGED <<reports, closeAnswers>>
       \/ rec[connection].uv # "open" /\ CloseComplete(connection, cb)

\* onSocketClose() of the connection of s: onConnectClose() while still hooked.
onConnectClose(rec, s) ==
    \/ rec[s].hooked /\ closeWith(rec, "onClose")
    \/ ~rec[s].hooked /\ conn' = rec /\ UNCHANGED <<onClosed, reports, closeAnswers>>

-----------------------------------------------------------------------------
(* Calls of the application *)

\* What the application knows when it calls connect().
AttemptOver ==
    socket # NoConn =>
        \/ reports[socket] \notin {<<>>, <<"success">>}
        \/ onClosed[socket] = "user" /\ conn[socket].uv = "closed"

\* connect(): update() makes the new handle and drops the old one.  The result
\* of uv_tcp_connect is ignored: when it fails at once nobody is told.
Connect(s) ==
    /\ AttemptOver /\ conn[s].uv = "none"
    /\ conn' = [conn EXCEPT ![s].uv = "open"]
    /\ socket' = s
    /\ connecting' \in {s, NoConn}
    /\ UNCHANGED <<connection, onClosed, reports, closeCalls, closeAnswers>>

\* close(callback); without a connection the callback is made at once.
Close ==
    /\ closeCalls < MaxCloses
    /\ closeCalls' = closeCalls + 1
    /\ \/ /\ connection = NoConn
          /\ closeAnswers' = closeAnswers + 1
          /\ UNCHANGED <<conn, onClosed, reports>>
       \/ connection # NoConn /\ closeWith(conn, "user")
    /\ UNCHANGED <<socket, connection, connecting>>

\* write(); without a connection it is refused and answered, changing nothing.
Write ==
    /\ connection # NoConn /\ conn[connection].asked < MaxWrites
    /\ \E r \in WriteOutcomes([conn[connection] EXCEPT !.asked = @ + 1]) :
          conn' = [conn EXCEPT ![connection] = r]
    /\ UNCHANGED clientVars

WriteInLoop ==
    /\ connection # NoConn /\ conn[connection].asked < MaxWrites
    /\ conn' = [conn EXCEPT ![connection].asked = @ + 1, ![connection].queued = @ + 1]
    /\ UNCHANGED clientVars

-----------------------------------------------------------------------------
(* Callbacks from libuv *)

\* A connect request ends in a later poll than the one it was made in, and
\* close callbacks run between the two.
ConnectEnds(s) ==
    /\ connecting = s
    /\ \A c \in Conns : conn[c].uv # "closing"
    /\ connecting' = NoConn

SucceededBeside(s) ==  \* mutant: the last connection object is kept alive
    /\ ConnectEnds(s)
    /\ connection' = s
    /\ conn' = [conn EXCEPT ![s] = NewConnection(conn[s].name)]
    /\ runConnectCallback(s, "success")
    /\ UNCHANGED <<socket, onClosed, closeCalls, closeAnswers>>

\* onConnect(true): the new TcpConnection replaces the last one.
ConnectSucceeded(s) ==
    /\ ConnectEnds(s)
    /\ connection' = s
    /\ conn' = [c \in Conns |->
                  IF c = s THEN NewConnection(conn[s].name)
                  ELSE IF c = connection THEN [conn[c] EXCEPT !.obj = "dead"]
                  ELSE conn[c]]
    /\ runConnectCallback(s, "success")
    /\ UNCHANGED <<socket, onClosed, closeCalls, closeAnswers>>

FailedUnclosed(s) ==  \* mutant: the failed handle is not closed
    /\ ConnectEnds(s)
    /\ runConnectCallback(s, "fail")
    /\ UNCHANGED <<conn, socket, connection, onClosed, closeCalls, closeAnswers>>

\* onConnect(false): the handle is closed first, then the failure is reported.
ConnectFailed(s) ==
    /\ ConnectEnds(s)
    /\ conn' = [conn EXCEPT ![s].uv = "closing"]
    /\ UNCHANGED <<socket, connection, onClosed, reports, closeCalls, closeAnswers>>

\* The user's message callback acts through the actions above.
ReadEOF(s) ==
    /\ conn[s].uv = "open" /\ conn[s].reading
    /\ conn' = [conn EXCEPT ![s] = ReadEnded(@)]
    /\ UNCHANGED clientVars

ReadError(s) ==
    /\ conn[s].uv = "open" /\ conn[s].reading
    /\ onConnectClose([conn EXCEPT ![s] = ReadFailed(@)], s)
    /\ UNCHANGED <<socket, connection, connecting, closeCalls>>

ShutdownSilent(s) ==  \* mutant: the shutdown callback does not report the end
    /\ conn[s].shut /\ conn[s].inflight = 0
    /\ conn' = [conn EXCEPT ![s].shut = FALSE]
    /\ UNCHANGED clientVars

ShutdownDone(s) ==
    /\ conn[s].shut /\ conn[s].inflight = 0
    /\ onConnectClose([conn EXCEPT ![s].shut = FALSE], s)
    /\ UNCHANGED <<socket, connection, connecting, closeCalls>>

WriteDone(s) ==
    /\ conn[s].inflight > 0
    /\ conn' = [conn EXCEPT ![s] = WriteDoneRec(@)]
    /\ UNCHANGED clientVars

LoopWrite(s) ==
    /\ conn[s].queued > 0
    /\ \E r \in LoopWriteOutcomes(conn[s]) : conn' = [conn EXCEPT ![s] = r]
    /\ UNCHANGED clientVars


\* The uv_close callback of a failed attempt (afterConnectFail()) or of a
\* connection (CloseComplete()).
FinishClose(s) ==
    /\ conn[s].uv = "closing" /\ conn[s].inflight = 0 /\ ~conn[s].shut
    /\ conn' = [conn EXCEPT ![s].uv = "closed"]
    /\ \/ conn[s].obj = "none" /\ runConnectCallback(s, "fail") /\ UNCHANGED closeAnswers
       \/ conn[s].obj # "none" /\ CloseComplete(s, onClosed[s])
    /\ UNCHANGED <<socket, connection, connecting, onClosed, closeCalls>>

-----------------------------------------------------------------------------
\* What libuv delivers whatever the application and the peer do.
LoopProgress(s) ==
    \/ ConnectSucceeded(s) \/ ConnectFailed(s)
    \/ ShutdownDone(s) \/ FinishClose(s) \/ LoopWrite(s)
    \/ conn[s].uv = "closing" /\ WriteDone(s)

Next ==
    \/ Close \/ Write \/ WriteInLoop
    \/ \E s \in Conns :
          \/ Connect(s) \/ ConnectSucceeded(s) \/ ConnectFailed(s)
          \/ ReadEOF(s) \/ ReadError(s) \/ ShutdownDone(s)
          \/ WriteDone(s) \/ LoopWrite(s) \/ FinishClose(s)

Spec == Init /\ [][Next]_vars

\* The loop runs, and a connection attempt ends (the kernel's time-out).  A
\* write to an open peer need not.
FairSpec == Spec /\ \A s \in Conns : WF_vars(LoopProgress(s))

-----------------------------------------------------------------------------
ClientTypeOK ==
    /\ conn \in [Conns -> ConnRecords]
    /\ {socket, connection, connecting} \subseteq Conns \cup {NoConn}
    /\ onClosed \in [Conns -> {"none", "onClose", "user"}]
    /\ reports \in [Conns -> Seq({"success", "fail", "close"})]
    /\ closeCalls \in 0..MaxCloses /\ closeAnswers \in Nat

\* The state is well typed; connection_ is the one TcpConnection alive, and an
\* outstanding request belongs to the open handle in socket_ that has none yet.
ClientWellFormed ==
    /\ ClientTypeOK
    /\ \A s \in Conns : conn[s].obj = "live" <=> connection = s
    /\ connecting # NoConn => /\ connecting = socket
                              /\ conn[socket].uv = "open"
                              /\ conn[socket].obj = "none"

\* A handle that neither socket_ nor connection_ keeps is not in libuv's hands:
\* reconnecting never frees one that is open or closing.
HandlesClosedBeforeFree ==
    \A s \in Conns : conn[s].uv # "none" /\ s # socket /\ s # connection =>
        conn[s].uv = "closed" /\ ~conn[s].shut /\ conn[s].inflight = 0

\* Of each attempt the application is told failure, or success and at most once
\* that the connection closed; an end is reported when the handle is closed.
StatusProtocol ==
    \A s \in Conns :
        /\ reports[s] \in {<<>>, <<"success">>, <<"fail">>, <<"success", "close">>}
        /\ reports[s] \notin {<<>>, <<"success">>} => conn[s].uv = "closed"


\* A connection whose peer has gone, with no write left, is closed and the
\* application told, by the status callback or by that of its own close().
LossReported ==
    \A s \in Conns :
        conn[s].obj = "live" /\ ~conn[s].connected /\ conn[s].inflight = 0 ~>
            /\ conn[s].uv = "closed"
            /\ reports[s] = <<"success", "close">> \/ onClosed[s] = "user"

-----------------------------------------------------------------------------
\* doc/en/TcpClient.md: the callback of close() is the one "after closing the
\* client": it is made once for a call, with no handle of the client open or
\* closing.
ClosedWhenAnswered ==
    [][closeAnswers' > closeAnswers =>
         /\ closeAnswers' <= closeCalls'
         /\ \A s \in Conns : conn'[s].uv \in {"none", "closed"}]_vars
=============================================================================
