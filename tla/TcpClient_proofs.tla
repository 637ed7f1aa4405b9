-------------------------- MODULE TcpClient_proofs --------------------------
(***************************************************************************)
(* Theorems about TcpClient for every number of attempts, of writes and of  *)
(* calls of close().                                                        *)
(***************************************************************************)
EXTENDS TcpClient, TLAPS

\* The handle and the TcpConnection of attempt s, with record r: where its
\* writes are, and how far object and handle have come.
AttemptRecord(r) ==
    /\ r \in ConnRecords
    /\ r.asked = r.answered + r.inflight + r.queued
    /\ r.hooked <=> r.obj = "live" /\ r.uv = "open"
    /\ r.reading => r.hooked
    /\ r.uv = "closed" \/ r.obj = "none" => ~r.shut /\ r.inflight = 0
    /\ r.uv = "none" => r.obj = "none"
    /\ r.obj = "dead" => r.uv = "closed"

\* What the application has been told of an attempt with record r, cb being the
\* callback its connection was closed with.
Told(r, cb, told) ==
    /\ r.obj = "none" => told = IF r.uv = "closed" THEN <<"fail">> ELSE <<>>
    /\ r.obj # "none" /\ r.uv # "closed" => told = <<"success">>
    /\ r.obj # "none" /\ r.uv = "closed" =>
          \/ told = <<"success", "close">>
          \/ told = <<"success">> /\ cb = "user"
    /\ r.obj # "none" /\ r.uv = "closing" => cb \in {"onClose", "user"}

AttemptOK(s) ==
    /\ AttemptRecord(conn[s])
    /\ conn[s].obj = "live" <=> connection = s
    /\ conn[s].uv \in {"open", "closing"} => s = socket
    /\ conn[s].uv = "none" => s # socket
    /\ Told(conn[s], onClosed[s], reports[s])

\* The inductive invariant: at most one handle, that of socket_, is in libuv's
\* hands, and only while its attempt has not been reported to have ended.
ClientInv ==
    /\ ClientTypeOK
    /\ \A s \in Conns : AttemptOK(s)
    /\ connecting # NoConn => /\ connecting = socket
                              /\ conn[socket].uv = "open"
                              /\ conn[socket].obj = "none"

\* The safety half of LossReported: a closed connection has been reported by the
\* status callback, or was closed with a callback of the application's own.
EndReported ==
    \A s \in Conns : conn[s].obj # "none" /\ conn[s].uv = "closed" =>
        reports[s] = <<"success", "close">> \/ onClosed[s] = "user"

\* The client never has two handles open or closing at a time.
OneHandle ==
    \A s, t \in Conns :
        {conn[s].uv, conn[t].uv} \subseteq {"open", "closing"} => s = t

USE ClientAssumption

-----------------------------------------------------------------------------
(* What the operations of a connection do to its record *)

\* q is the record of an attempt after a callback that leaves the object and
\* the handle as they are.
SameStage(r, q) == AttemptRecord(q) /\ q.obj = r.obj /\ q.uv = r.uv

\* write() finds a place for the request or answers it.
LEMMA WriteStage ==
  ASSUME NEW r, AttemptRecord(r), r.obj = "live", r.asked < MaxWrites,
         NEW q \in WriteOutcomes([r EXCEPT !.asked = @ + 1])
  PROVE  SameStage(r, q)
<1> DEFINE w == [r EXCEPT !.asked = @ + 1]
<1>1. /\ w \in ConnRecords /\ w.asked = w.answered + w.inflight + w.queued + 1
      /\ (w.hooked <=> r.hooked) /\ (w.reading <=> r.reading)
      /\ (w.shut <=> r.shut) /\ w.inflight = r.inflight
      /\ w.obj = r.obj /\ w.uv = r.uv
  BY DEF AttemptRecord, ConnRecords
<1> HIDE DEF w
<1>2. /\ q \in ConnRecords /\ q.asked = q.answered + q.inflight + q.queued
      /\ (q.hooked <=> w.hooked) /\ (q.reading <=> w.reading)
      /\ (q.shut <=> w.shut)
      /\ q.inflight = w.inflight \/ q.uv = "open"
      /\ q.obj = w.obj /\ q.uv = w.uv
  <2>1. q \in WriteOutcomes(w)  BY DEF w
  <2> QED BY <1>1, <2>1 DEF WriteOutcomes, ConnRecords
<1> QED BY <1>1, <1>2 DEF SameStage, AttemptRecord

\* A write queued by another thread, and the loop's turn to make it.
LEMMA LoopWriteStage ==
  ASSUME NEW r, AttemptRecord(r)
  PROVE  /\ r.asked < MaxWrites =>
              SameStage(r, [r EXCEPT !.asked = @ + 1, !.queued = @ + 1])
         /\ r.queued > 0 => \A q \in LoopWriteOutcomes(r) : SameStage(r, q)
<1>1. ASSUME r.asked < MaxWrites
      PROVE  SameStage(r, [r EXCEPT !.asked = @ + 1, !.queued = @ + 1])
  <2> DEFINE q == [r EXCEPT !.asked = @ + 1, !.queued = @ + 1]
  <2>1. r.asked + 1 \in 0..MaxWrites /\ r.queued + 1 \in 0..MaxWrites
    BY <1>1 DEF AttemptRecord, ConnRecords
  <2>2. q \in ConnRecords  BY <2>1 DEF AttemptRecord, ConnRecords
  <2> QED BY <2>2 DEF SameStage, AttemptRecord, ConnRecords
<1>2. ASSUME r.queued > 0, NEW q \in LoopWriteOutcomes(r) PROVE SameStage(r, q)
  <2> DEFINE w == [r EXCEPT !.queued = @ - 1]
  <2>1. /\ w \in ConnRecords /\ w.asked = w.answered + w.inflight + w.queued + 1
        /\ (w.hooked <=> r.hooked) /\ (w.reading <=> r.reading)
        /\ (w.shut <=> r.shut) /\ w.inflight = r.inflight
        /\ w.obj = r.obj /\ w.uv = r.uv
    BY <1>2 DEF AttemptRecord, ConnRecords
  <2>2. /\ q \in WriteOutcomes(w)
        /\ q = [w EXCEPT !.answered = @ + 1] \/ r.obj = "live"
    BY <1>2 DEF LoopWriteOutcomes, WriteOutcomes
  <2> HIDE DEF w
  <2>3. /\ q \in ConnRecords /\ q.asked = q.answered + q.inflight + q.queued
        /\ (q.hooked <=> w.hooked) /\ (q.reading <=> w.reading)
        /\ (q.shut <=> w.shut)
        /\ q.inflight = w.inflight \/ (q.uv = "open" /\ q.obj = "live")
        /\ q.obj = w.obj /\ q.uv = w.uv
    BY <2>1, <2>2 DEF WriteOutcomes, ConnRecords
  <2> QED BY <2>1, <2>3 DEF SameStage, AttemptRecord
<1> QED BY <1>1, <1>2

\* The callbacks of reads, shutdowns and writes.
LEMMA CallbackStage ==
  ASSUME NEW r, AttemptRecord(r)
  PROVE  /\ SameStage(r, ReadFailed(r))
         /\ r.reading => SameStage(r, ReadEnded(r))
         /\ SameStage(r, [r EXCEPT !.shut = FALSE])
         /\ r.inflight > 0 => SameStage(r, WriteDoneRec(r))
<1>1. SameStage(r, ReadFailed(r))
  BY DEF SameStage, ReadFailed, AttemptRecord, ConnRecords
<1>2. ASSUME r.reading PROVE SameStage(r, ReadEnded(r))
  BY <1>2 DEF SameStage, ReadEnded, AttemptRecord, ConnRecords
<1>3. SameStage(r, [r EXCEPT !.shut = FALSE])
  BY DEF SameStage, AttemptRecord, ConnRecords
<1>4. ASSUME r.inflight > 0 PROVE SameStage(r, WriteDoneRec(r))
  <2>1. r.inflight - 1 \in 0..MaxWrites /\ r.answered + 1 \in 0..MaxWrites
    BY <1>4 DEF AttemptRecord, ConnRecords
  <2>2. WriteDoneRec(r) \in ConnRecords
    BY <2>1 DEF AttemptRecord, WriteDoneRec, ConnRecords
  <2>3. r.obj # "none" /\ r.uv # "closed"  BY <1>4 DEF AttemptRecord
  <2> QED BY <1>4, <2>2, <2>3 DEF SameStage, WriteDoneRec, AttemptRecord, ConnRecords
<1> QED BY <1>1, <1>2, <1>3, <1>4

\* close() of a live connection whose handle is open, or was closed before.
LEMMA ClosingStage ==
  ASSUME NEW r, AttemptRecord(r), r.obj = "live"
  PROVE  /\ AttemptRecord(Closing(r)) /\ Closing(r).obj = "live"
         /\ Closing(r).uv = IF r.uv = "open" THEN "closing" ELSE r.uv
  BY DEF Closing, AttemptRecord, ConnRecords

-----------------------------------------------------------------------------
(* The inductive step *)

\* A step that changes one attempt only, whose handle at most moves on.
LEMMA OneAttempt ==
  ASSUME ClientInv, NEW s \in Conns, NEW r, AttemptRecord(r),
         conn' = [conn EXCEPT ![s] = r], r.obj = conn[s].obj,
         \/ r.uv = conn[s].uv
         \/ conn[s].uv = "open" /\ r.uv = "closing"
         \/ conn[s].uv = "closing" /\ r.uv = "closed",
         UNCHANGED <<socket, connection>>,
         \/ connecting' = NoConn
         \/ connecting' = connecting /\ (s # connecting \/ r.uv = conn[s].uv),
         onClosed' \in [Conns -> {"none", "onClose", "user"}],
         reports' \in [Conns -> Seq({"success", "fail", "close"})],
         \A t \in Conns \ {s} : onClosed'[t] = onClosed[t] /\ reports'[t] = reports[t],
         Told(r, onClosed'[s], reports'[s]),
         closeCalls' \in 0..MaxCloses, closeAnswers' \in Nat
  PROVE  ClientInv'
<1>1. /\ ClientTypeOK /\ \A t \in Conns : AttemptOK(t)
      /\ conn \in [Conns -> ConnRecords]
      /\ connecting # NoConn => /\ connecting = socket
                                /\ conn[socket].uv = "open"
                                /\ conn[socket].obj = "none"
  BY DEF ClientInv, ClientTypeOK
<1>2. /\ conn' \in [Conns -> ConnRecords] /\ conn'[s] = r
      /\ \A t \in Conns \ {s} : conn'[t] = conn[t]
  BY <1>1 DEF AttemptRecord
<1>3. connecting' \in Conns \cup {NoConn}  BY <1>1 DEF ClientTypeOK
<1>4. ClientTypeOK'  BY <1>1, <1>2, <1>3 DEF ClientTypeOK
<1>5. ASSUME NEW t \in Conns PROVE AttemptOK(t)'
  <2>1. AttemptOK(t)  BY <1>1
  <2>2. CASE t = s  BY <1>2, <2>1, <2>2 DEF AttemptOK
  <2>3. CASE t # s  BY <1>2, <2>1, <2>3 DEF AttemptOK
  <2> QED BY <2>2, <2>3
<1>6. ASSUME connecting' # NoConn
      PROVE  /\ connecting' = socket' /\ conn'[socket'].uv = "open"
             /\ conn'[socket'].obj = "none"
  <2>1. /\ connecting' = connecting /\ connecting = socket /\ socket' = socket
        /\ conn[socket].uv = "open" /\ conn[socket].obj = "none"
        /\ socket \in Conns
    BY <1>1, <1>6 DEF ClientTypeOK
  <2>2. CASE s = socket  BY <1>2, <1>6, <2>1, <2>2
  <2>3. CASE s # socket  BY <1>2, <2>1, <2>3
  <2> QED BY <2>1, <2>2, <2>3
<1> QED BY <1>4, <1>5, <1>6 DEF ClientInv

\* A step that changes one record, not its object or handle, and nothing else.
LEMMA OneCallback ==
  ASSUME ClientInv, NEW s \in Conns, NEW r, SameStage(conn[s], r),
         conn' = [conn EXCEPT ![s] = r], UNCHANGED clientVars
  PROVE  ClientInv'
<1>1. /\ onClosed \in [Conns -> {"none", "onClose", "user"}]
      /\ reports \in [Conns -> Seq({"success", "fail", "close"})]
      /\ closeCalls \in 0..MaxCloses /\ closeAnswers \in Nat
      /\ Told(conn[s], onClosed[s], reports[s])
  BY DEF ClientInv, ClientTypeOK, AttemptOK
<1>2. Told(r, onClosed[s], reports[s])  BY <1>1 DEF SameStage, Told
<1> QED BY <1>1, <1>2, OneAttempt DEF SameStage, clientVars

\* connection_->close(cb): the handle starts to close; if that had been done
\* before, the new callback is made at once, and the status callback never twice.
LEMMA CloseWithKeeps ==
  ASSUME ClientInv, connection # NoConn, NEW r, SameStage(conn[connection], r),
         NEW rec, rec = [conn EXCEPT ![connection] = r],
         NEW cb \in {"onClose", "user"}, cb = "onClose" => r.uv = "open",
         closeWith(rec, cb), UNCHANGED <<socket, connection, connecting>>,
         closeCalls' \in 0..MaxCloses
  PROVE  ClientInv'
<1> DEFINE s == connection
<1>1. /\ s \in Conns /\ AttemptOK(s) /\ conn[s].obj = "live"
      /\ conn \in [Conns -> ConnRecords]
      /\ onClosed \in [Conns -> {"none", "onClose", "user"}]
      /\ reports \in [Conns -> Seq({"success", "fail", "close"})]
      /\ closeAnswers \in Nat
      /\ s # connecting
  BY DEF ClientInv, ClientTypeOK, AttemptOK
<1>2. Told(conn[s], onClosed[s], reports[s])  BY <1>1 DEF AttemptOK
<1>3. /\ rec[s] = r /\ conn' = [conn EXCEPT ![s] = Closing(r)]
      /\ onClosed' = [onClosed EXCEPT ![s] = cb]
      /\ \/ r.uv = "open" /\ UNCHANGED <<reports, closeAnswers>>
         \/ r.uv # "open" /\ CloseComplete(s, cb)
  BY <1>1 DEF closeWith
<1>4. r.obj = "live" /\ r.uv = conn[s].uv /\ AttemptRecord(r)
  BY <1>1 DEF SameStage
<1>5. /\ AttemptRecord(Closing(r)) /\ Closing(r).obj = "live"
      /\ Closing(r).uv = IF r.uv = "open" THEN "closing" ELSE r.uv
  BY <1>4, ClosingStage
<1>6. UNCHANGED reports /\ closeAnswers' \in Nat
  BY <1>1, <1>3 DEF CloseComplete
<1>7. Told(Closing(r), cb, reports[s])
  BY <1>1, <1>2, <1>4, <1>5 DEF Told
<1> HIDE DEF s
<1>8. /\ onClosed' \in [Conns -> {"none", "onClose", "user"}] /\ onClosed'[s] = cb
      /\ \A t \in Conns \ {s} : onClosed'[t] = onClosed[t]
  BY <1>1, <1>3
<1> QED BY <1>1, <1>3, <1>4, <1>5, <1>6, <1>7, <1>8, OneAttempt

\* An attempt the application knows to be over has a closed handle: connect()
\* finds nothing of the client in libuv's hands.
LEMMA OverIsClosed ==
  ASSUME ClientInv, AttemptOver
  PROVE  /\ connecting = NoConn
         /\ \A s \in Conns : conn[s].uv \notin {"open", "closing"}
<1>1. ASSUME socket # NoConn PROVE conn[socket].uv = "closed"
  <2>1. socket \in Conns  BY <1>1 DEF ClientInv, ClientTypeOK
  <2>2. Told(conn[socket], onClosed[socket], reports[socket])
    BY <2>1 DEF ClientInv, AttemptOK
  <2> QED BY <1>1, <2>2 DEF AttemptOver, Told
<1>2. \A s \in Conns : conn[s].uv \in {"open", "closing"} => s = socket
  BY DEF ClientInv, AttemptOK
<1> QED BY <1>1, <1>2 DEF ClientInv, ClientTypeOK

\* connect() makes a new handle and drops the closed one.
LEMMA ConnectKeeps ==
  ASSUME ClientInv, NEW s \in Conns, Connect(s) PROVE ClientInv'
<1> DEFINE r == [conn[s] EXCEPT !.uv = "open"]
<1>1. /\ ClientTypeOK /\ AttemptOK(s) /\ conn \in [Conns -> ConnRecords]
      /\ \A t \in Conns : AttemptOK(t)
  BY DEF ClientInv, ClientTypeOK
<1>2. /\ AttemptOver /\ conn[s].uv = "none" /\ socket' = s
      /\ conn' = [conn EXCEPT ![s] = r] /\ connecting' \in {s, NoConn}
      /\ UNCHANGED <<connection, onClosed, reports, closeCalls, closeAnswers>>
  BY <1>1 DEF Connect
<1>3. /\ AttemptRecord(r) /\ r.uv = "open" /\ r.obj = "none"
      /\ conn[s].obj = "none"
  BY <1>1, <1>2 DEF AttemptOK, AttemptRecord, ConnRecords
<1> HIDE DEF r
<1>4. /\ conn' \in [Conns -> ConnRecords] /\ conn'[s] = r
      /\ \A t \in Conns \ {s} : conn'[t] = conn[t]
  BY <1>1, <1>2, <1>3 DEF AttemptRecord
<1>5. ClientTypeOK'  BY <1>1, <1>2, <1>4 DEF ClientTypeOK
<1>6. ASSUME NEW t \in Conns PROVE AttemptOK(t)'
  <2>1. AttemptOK(t) /\ conn[t].uv \notin {"open", "closing"}
    BY <1>1, <1>2, OverIsClosed
  <2>2. CASE t = s
    BY <1>2, <1>3, <1>4, <2>1, <2>2 DEF AttemptOK, Told
  <2>3. CASE t # s  BY <1>2, <1>4, <2>1, <2>3 DEF AttemptOK
  <2> QED BY <2>2, <2>3
<1> QED BY <1>2, <1>3, <1>4, <1>5, <1>6 DEF ClientInv

\* onConnect(true): the connection it replaces is closed already.
LEMMA SucceededKeeps ==
  ASSUME ClientInv, NEW s \in Conns, ConnectSucceeded(s) PROVE ClientInv'
<1> DEFINE r == NewConnection(conn[s].name)
<1>1. /\ ClientTypeOK /\ AttemptOK(s) /\ conn \in [Conns -> ConnRecords]
      /\ \A t \in Conns : AttemptOK(t)
      /\ onClosed \in [Conns -> {"none", "onClose", "user"}]
      /\ reports \in [Conns -> Seq({"success", "fail", "close"})]
  BY DEF ClientInv, ClientTypeOK
<1>2. /\ connecting = s /\ connecting' = NoConn /\ connection' = s
      /\ conn' = [c \in Conns |->
                    IF c = s THEN r
                    ELSE IF c = connection THEN [conn[c] EXCEPT !.obj = "dead"]
                    ELSE conn[c]]
      /\ reports' = [reports EXCEPT ![s] = Append(@, "success")]
      /\ UNCHANGED <<socket, onClosed, closeCalls, closeAnswers>>
  BY DEF ConnectSucceeded, ConnectEnds, runConnectCallback
<1>3. s = socket /\ conn[s].uv = "open" /\ conn[s].obj = "none" /\ s # connection
  BY <1>1, <1>2 DEF ClientInv, AttemptOK
<1>4. /\ AttemptRecord(r) /\ r.obj = "live" /\ r.uv = "open"
  <2> DEFINE n == conn[s].name
  <2>0. n \in Names  BY <1>1 DEF ConnRecords
  <2> HIDE DEF n
  <2>1. NoConnection(n) \in ConnRecords  BY <2>0 DEF NoConnection, ConnRecords
  <2>2. NewConnection(n) \in ConnRecords  BY <2>1 DEF NewConnection, ConnRecords
  <2>3. /\ NewConnection(n).obj = "live" /\ NewConnection(n).uv = "open"
        /\ NewConnection(n).hooked /\ NewConnection(n).reading
        /\ NewConnection(n).asked = 0 /\ NewConnection(n).answered = 0
        /\ NewConnection(n).inflight = 0 /\ NewConnection(n).queued = 0
    BY DEF NewConnection, NoConnection
  <2>4. 0 = 0 + 0 + 0  OBVIOUS
  <2> QED BY <2>2, <2>3, <2>4 DEF AttemptRecord, n
<1>5. ASSUME NEW t \in Conns, t = connection
      PROVE  /\ AttemptRecord([conn[t] EXCEPT !.obj = "dead"])
             /\ Told([conn[t] EXCEPT !.obj = "dead"], onClosed[t], reports[t])
             /\ conn[t].uv = "closed"
  <2>1. /\ conn[t].obj = "live" /\ conn[t].uv = "closed" /\ AttemptRecord(conn[t])
        /\ Told(conn[t], onClosed[t], reports[t])
    <3>1. AttemptOK(t)  BY <1>1
    <3> QED BY <1>3, <1>5, <3>1 DEF AttemptOK, AttemptRecord, ConnRecords
  <2>2. AttemptRecord([conn[t] EXCEPT !.obj = "dead"])
    BY <2>1 DEF AttemptRecord, ConnRecords
  <2>3. /\ [conn[t] EXCEPT !.obj = "dead"].obj = "dead"
        /\ [conn[t] EXCEPT !.obj = "dead"].uv = "closed"
    BY <2>1 DEF AttemptRecord, ConnRecords
  <2>4. Told([conn[t] EXCEPT !.obj = "dead"], onClosed[t], reports[t])
    BY <2>1, <2>3 DEF Told
  <2> QED BY <2>1, <2>2, <2>4
<1>6. reports[s] = <<>>  BY <1>1, <1>3 DEF AttemptOK, Told
<1>7. /\ reports' \in [Conns -> Seq({"success", "fail", "close"})]
      /\ reports'[s] = <<"success">>
      /\ \A t \in Conns \ {s} : reports'[t] = reports[t]
  BY <1>1, <1>2, <1>6
<1> HIDE DEF r
<1>8. ASSUME NEW t \in Conns PROVE AttemptOK(t)'
  <2>1. AttemptOK(t)  BY <1>1
  <2>2. CASE t = s
    BY <1>2, <1>3, <1>4, <1>7, <2>2 DEF AttemptOK, Told
  <2>3. CASE t # s /\ t = connection
    <3>1. conn'[t] = [conn[t] EXCEPT !.obj = "dead"]  BY <1>2, <2>3
    <3>2. conn'[t].obj = "dead" /\ conn'[t].uv = "closed"
      BY <1>1, <1>5, <2>3, <3>1 DEF ConnRecords
    <3> QED BY <1>2, <1>5, <1>7, <2>3, <3>1, <3>2 DEF AttemptOK
  <2>4. CASE t # s /\ t # connection
    <3>1. conn'[t] = conn[t]  BY <1>2, <2>4
    <3> QED BY <1>2, <1>7, <2>1, <2>4, <3>1 DEF AttemptOK
  <2> QED BY <2>2, <2>3, <2>4
<1>9. conn' \in [Conns -> ConnRecords]
  <2>1. \A t \in Conns : conn'[t] \in ConnRecords
    BY <1>8 DEF AttemptOK, AttemptRecord
  <2> QED BY <1>2, <2>1
<1>10. ClientTypeOK'  BY <1>1, <1>2, <1>7, <1>9 DEF ClientTypeOK
<1> QED BY <1>2, <1>8, <1>10 DEF ClientInv

\* The close callback reports a failed attempt, or a connection that was lost.
LEMMA FinishCloseKeeps ==
  ASSUME ClientInv, NEW s \in Conns, FinishClose(s) PROVE ClientInv'
<1> DEFINE r == [conn[s] EXCEPT !.uv = "closed"]
<1>1. /\ AttemptOK(s) /\ conn \in [Conns -> ConnRecords]
      /\ onClosed \in [Conns -> {"none", "onClose", "user"}]
      /\ reports \in [Conns -> Seq({"success", "fail", "close"})]
      /\ closeCalls \in 0..MaxCloses /\ closeAnswers \in Nat
      /\ s # connecting
  BY DEF ClientInv, ClientTypeOK, FinishClose
<1>2. /\ conn[s].uv = "closing" /\ conn[s].inflight = 0 /\ ~conn[s].shut
      /\ conn' = [conn EXCEPT ![s] = r]
      /\ \/ /\ conn[s].obj = "none" /\ runConnectCallback(s, "fail")
            /\ UNCHANGED closeAnswers
         \/ conn[s].obj # "none" /\ CloseComplete(s, onClosed[s])
      /\ UNCHANGED <<socket, connection, connecting, onClosed, closeCalls>>
  BY <1>1 DEF FinishClose
<1>3. /\ AttemptRecord(r) /\ r.obj = conn[s].obj /\ r.uv = "closed"
  BY <1>1, <1>2 DEF AttemptOK, AttemptRecord, ConnRecords
<1>4. Told(conn[s], onClosed[s], reports[s])  BY <1>1 DEF AttemptOK
<1> HIDE DEF r
<1>5. /\ reports' \in [Conns -> Seq({"success", "fail", "close"})]
      /\ \A t \in Conns \ {s} : reports'[t] = reports[t]
      /\ closeAnswers' \in Nat
  <2>1. closeAnswers' \in Nat  BY <1>1, <1>2 DEF CloseComplete
  <2>2. \/ reports' = reports
        \/ \E status \in {"fail", "close"} :
              reports' = [reports EXCEPT ![s] = Append(reports[s], status)]
    BY <1>2 DEF CloseComplete, runConnectCallback
  <2>3. reports[s] \in Seq({"success", "fail", "close"})  BY <1>1
  <2>4. \A status \in {"fail", "close"} :
           Append(reports[s], status) \in Seq({"success", "fail", "close"})
    BY <2>3
  <2> QED BY <1>1, <2>1, <2>2, <2>4
<1>6. Told(r, onClosed[s], reports'[s])
  <2>1. CASE conn[s].obj = "none"
    <3>1. reports[s] = <<>>  BY <1>2, <1>4, <2>1 DEF Told
    <3>2. reports'[s] = <<"fail">>
      BY <1>1, <1>2, <2>1, <3>1 DEF runConnectCallback
    <3> QED BY <1>3, <2>1, <3>2 DEF Told
  <2>2. CASE conn[s].obj # "none"
    <3>1. reports[s] = <<"success">> /\ CloseComplete(s, onClosed[s])
      BY <1>2, <1>4, <2>2 DEF Told
    <3>2. \/ reports'[s] = <<"success", "close">>
          \/ reports'[s] = <<"success">> /\ onClosed[s] = "user"
      BY <1>1, <3>1 DEF CloseComplete, runConnectCallback
    <3> QED BY <1>3, <2>2, <3>2 DEF Told
  <2> QED BY <2>1, <2>2
<1> QED BY <1>1, <1>2, <1>3, <1>5, <1>6, OneAttempt

\* Every step of the client keeps the invariant.
LEMMA ClientStepPreserves == ASSUME ClientInv, [Next]_vars PROVE ClientInv'
<1>1. /\ ClientTypeOK /\ conn \in [Conns -> ConnRecords]
      /\ \A s \in Conns : AttemptOK(s) /\ AttemptRecord(conn[s])
      /\ connection \in Conns \cup {NoConn}
  BY DEF ClientInv, ClientTypeOK, AttemptOK
<1>2. ASSUME connection # NoConn
      PROVE  /\ connection \in Conns /\ conn[connection].obj = "live"
             /\ SameStage(conn[connection], conn[connection])
             /\ conn = [conn EXCEPT ![connection] = conn[connection]]
  BY <1>1, <1>2 DEF AttemptOK, SameStage
<1>3. CASE Close
  <2>1. /\ closeCalls' \in 0..MaxCloses /\ UNCHANGED <<socket, connection, connecting>>
    BY <1>1, <1>3 DEF Close, ClientTypeOK
  <2>2. CASE connection = NoConn
    <3>1. UNCHANGED <<conn, onClosed, reports>> /\ closeAnswers' = closeAnswers + 1
      BY <1>3, <2>2 DEF Close
    <3>2. ClientTypeOK'  BY <1>1, <2>1, <3>1 DEF ClientTypeOK
    <3>3. \A s \in Conns : AttemptOK(s)'  BY <1>1, <2>1, <3>1 DEF AttemptOK
    <3> QED BY <2>1, <3>1, <3>2, <3>3 DEF ClientInv
  <2>3. CASE connection # NoConn
    <3>1. closeWith(conn, "user")  BY <1>3, <2>3 DEF Close
    <3> QED BY <1>2, <2>1, <2>3, <3>1, CloseWithKeeps
  <2> QED BY <2>2, <2>3
<1>4. CASE Write
  <2>1. connection # NoConn /\ conn[connection].asked < MaxWrites
    BY <1>4 DEF Write
  <2>2. PICK r \in WriteOutcomes([conn[connection] EXCEPT !.asked = @ + 1]) :
               conn' = [conn EXCEPT ![connection] = r]
    BY <1>4 DEF Write
  <2>3. SameStage(conn[connection], r)  BY <1>1, <1>2, <2>1, <2>2, WriteStage
  <2> QED BY <1>2, <1>4, <2>1, <2>2, <2>3, OneCallback DEF Write
<1>5. CASE WriteInLoop
  <2> DEFINE r == [conn[connection] EXCEPT !.asked = @ + 1, !.queued = @ + 1]
  <2>1. /\ connection # NoConn /\ conn[connection].asked < MaxWrites
        /\ UNCHANGED clientVars
    BY <1>5 DEF WriteInLoop
  <2>2. conn' = [conn EXCEPT ![connection] = r]  BY <1>1, <1>2, <1>5, <2>1 DEF WriteInLoop
  <2>3. SameStage(conn[connection], r)  BY <1>1, <1>2, <2>1, LoopWriteStage
  <2> HIDE DEF r
  <2> QED BY <1>2, <2>1, <2>2, <2>3, OneCallback
\* onSocketClose(): a hooked connection is the client's, and its handle open
<1>6. ASSUME NEW s \in Conns, NEW r, SameStage(conn[s], r), r.hooked => conn[s].hooked,
             NEW rec, rec = [conn EXCEPT ![s] = r], onConnectClose(rec, s),
             UNCHANGED <<socket, connection, connecting, closeCalls>>
      PROVE  ClientInv'
  <2>0. rec[s] = r  BY <1>1, <1>6
  <2>1. CASE r.hooked
    <3>1. conn[s].obj = "live" /\ conn[s].uv = "open" /\ s = connection
      BY <1>1, <1>6, <2>1 DEF AttemptOK, AttemptRecord
    <3>2. s # NoConn /\ r.uv = "open" /\ closeCalls' \in 0..MaxCloses
      BY <1>1, <1>6, <3>1 DEF SameStage, ClientTypeOK
    <3>3. closeWith(rec, "onClose")  BY <1>6, <2>0, <2>1 DEF onConnectClose
    <3> QED BY <1>6, <3>1, <3>2, <3>3, CloseWithKeeps
  <2>2. CASE ~r.hooked
    <3>1. conn' = rec /\ UNCHANGED clientVars
      BY <1>6, <2>0, <2>2 DEF onConnectClose, clientVars
    <3> QED BY <1>6, <3>1, OneCallback
  <2> QED BY <2>1, <2>2
<1>7. ASSUME NEW s \in Conns, ConnectFailed(s) PROVE ClientInv'
  <2> DEFINE r == [conn[s] EXCEPT !.uv = "closing"]
  <2>1. /\ connecting = s /\ connecting' = NoConn
        /\ conn' = [conn EXCEPT ![s] = r]
        /\ UNCHANGED <<socket, connection, onClosed, reports, closeCalls, closeAnswers>>
    BY <1>1, <1>7 DEF ConnectFailed, ConnectEnds
  <2>2. conn[s].uv = "open" /\ conn[s].obj = "none"
    BY <2>1 DEF ClientInv
  <2>3. AttemptRecord(r) /\ r.obj = "none" /\ r.uv = "closing"
    BY <1>1, <2>2 DEF AttemptRecord, ConnRecords
  <2>4. Told(r, onClosed[s], reports[s])
    BY <1>1, <2>2, <2>3 DEF AttemptOK, Told
  <2>5. /\ onClosed \in [Conns -> {"none", "onClose", "user"}]
        /\ reports \in [Conns -> Seq({"success", "fail", "close"})]
        /\ closeCalls \in 0..MaxCloses /\ closeAnswers \in Nat
    BY <1>1 DEF ClientTypeOK
  <2> HIDE DEF r
  <2> QED BY <2>1, <2>2, <2>3, <2>4, <2>5, OneAttempt
<1>8. ASSUME NEW s \in Conns, ReadEOF(s) PROVE ClientInv'
  <2>1. /\ conn[s].reading /\ conn' = [conn EXCEPT ![s] = ReadEnded(conn[s])]
        /\ UNCHANGED clientVars
    BY <1>8 DEF ReadEOF
  <2> QED BY <1>1, <2>1, CallbackStage, OneCallback
<1>9. ASSUME NEW s \in Conns, ReadError(s) PROVE ClientInv'
  <2> DEFINE r == ReadFailed(conn[s])
             rec == [conn EXCEPT ![s] = ReadFailed(@)]
  <2>1. rec = [conn EXCEPT ![s] = r]  OBVIOUS
  <2>2. SameStage(conn[s], r)  BY <1>1, CallbackStage
  <2>3. r.hooked => conn[s].hooked  BY <1>1 DEF ReadFailed, ConnRecords
  <2>4. onConnectClose(rec, s) /\ UNCHANGED <<socket, connection, connecting, closeCalls>>
    BY <1>9 DEF ReadError
  <2> HIDE DEF r, rec
  <2> QED BY <1>6, <2>1, <2>2, <2>3, <2>4
<1>10. ASSUME NEW s \in Conns, ShutdownDone(s) PROVE ClientInv'
  <2> DEFINE r == [conn[s] EXCEPT !.shut = FALSE]
             rec == [conn EXCEPT ![s].shut = FALSE]
  <2>1. rec = [conn EXCEPT ![s] = r]  BY <1>1
  <2>2. SameStage(conn[s], r)  BY <1>1, CallbackStage
  <2>3. r.hooked => conn[s].hooked  BY <1>1 DEF ConnRecords
  <2>4. onConnectClose(rec, s) /\ UNCHANGED <<socket, connection, connecting, closeCalls>>
    BY <1>10 DEF ShutdownDone
  <2> HIDE DEF r, rec
  <2> QED BY <1>6, <2>1, <2>2, <2>3, <2>4
<1>11. ASSUME NEW s \in Conns, WriteDone(s) PROVE ClientInv'
  <2>1. /\ conn[s].inflight > 0 /\ conn' = [conn EXCEPT ![s] = WriteDoneRec(conn[s])]
        /\ UNCHANGED clientVars
    BY <1>11 DEF WriteDone
  <2> QED BY <1>1, <2>1, CallbackStage, OneCallback
<1>12. ASSUME NEW s \in Conns, LoopWrite(s) PROVE ClientInv'
  <2>1. conn[s].queued > 0 /\ UNCHANGED clientVars  BY <1>12 DEF LoopWrite
  <2>2. PICK r \in LoopWriteOutcomes(conn[s]) : conn' = [conn EXCEPT ![s] = r]
    BY <1>12 DEF LoopWrite
  <2> QED BY <1>1, <2>1, <2>2, LoopWriteStage, OneCallback
<1>13. CASE UNCHANGED vars
  <2>1. /\ ClientTypeOK' = ClientTypeOK /\ \A s \in Conns : AttemptOK(s)' <=> AttemptOK(s)
    BY <1>13 DEF vars, clientVars, ClientTypeOK, AttemptOK
  <2> QED BY <1>1, <1>13, <2>1 DEF vars, clientVars, ClientInv
<1> QED
  BY <1>3, <1>4, <1>5, <1>7, <1>8, <1>9, <1>10, <1>11, <1>12, <1>13,
     ConnectKeeps, SucceededKeeps, FinishCloseKeeps
  DEF Next

\* A client that has not connected yet.
LEMMA ClientInitOK == ASSUME Init PROVE ClientInv
<1>1. PICK n \in Names : conn = [s \in Conns |-> NoConnection(n)]  BY DEF Init
<1>2. NoConnection(n) \in ConnRecords  BY DEF NoConnection, ConnRecords
<1>3. /\ NoConnection(n).obj = "none" /\ NoConnection(n).uv = "none"
      /\ ~NoConnection(n).hooked /\ ~NoConnection(n).reading /\ ~NoConnection(n).shut
      /\ NoConnection(n).asked = 0 /\ NoConnection(n).answered = 0
      /\ NoConnection(n).inflight = 0 /\ NoConnection(n).queued = 0
  BY DEF NoConnection
<1>4. 0 = 0 + 0 + 0  OBVIOUS
<1>5. AttemptRecord(NoConnection(n))  BY <1>2, <1>3, <1>4 DEF AttemptRecord
<1>6. ClientTypeOK  BY <1>1, <1>2 DEF Init, ClientTypeOK
<1>7. \A s \in Conns : AttemptOK(s)
  BY <1>1, <1>3, <1>5 DEF Init, AttemptOK, Told
<1> QED BY <1>6, <1>7 DEF Init, ClientInv

-----------------------------------------------------------------------------
(* Theorems *)

\* The inductive invariant of the client.
THEOREM ClientInvariant == Spec => []ClientInv
BY ClientInitOK, ClientStepPreserves, PTL DEF Spec

\* connection_ is the one TcpConnection alive, however often the application
\* reconnects, and a connect request belongs to the open handle in socket_.
THEOREM ClientStaysWellFormed == Spec => []ClientWellFormed
<1>1. ClientInv => ClientWellFormed  BY DEF ClientInv, AttemptOK, ClientWellFormed
<1> QED BY <1>1, ClientInvariant, PTL

\* update() and onConnect() drop a handle only when libuv has closed it and no
\* request points at it.
THEOREM ClientHandlesClosedBeforeFree == Spec => []HandlesClosedBeforeFree
<1>1. ClientInv => HandlesClosedBeforeFree
  BY DEF ClientInv, ClientTypeOK, ConnRecords, AttemptOK, AttemptRecord,
         HandlesClosedBeforeFree
<1> QED BY <1>1, ClientInvariant, PTL

\* connectCallback_ is told failure, or success and then at most one close, and
\* an end only once the handle is closed.
THEOREM ClientStatusProtocol == Spec => []StatusProtocol
<1>1. ClientInv => StatusProtocol
  <2> SUFFICES ASSUME ClientInv, NEW s \in Conns
               PROVE  /\ reports[s] \in {<<>>, <<"success">>, <<"fail">>,
                                         <<"success", "close">>}
                      /\ reports[s] \notin {<<>>, <<"success">>} => conn[s].uv = "closed"
    BY DEF StatusProtocol
  <2>1. Told(conn[s], onClosed[s], reports[s])  BY DEF ClientInv, AttemptOK
  <2> QED BY <2>1 DEF Told
<1> QED BY <1>1, ClientInvariant, PTL

\* No write is lost or answered twice, through reconnecting and closing.
THEOREM ClientWritesAccounted == Spec => []WritesAccounted
<1>1. ClientInv => WritesAccounted
  BY DEF ClientInv, AttemptOK, AttemptRecord, WritesAccounted
<1> QED BY <1>1, ClientInvariant, PTL

\* A connection does not end in silence, and reconnecting waits for the last
\* handle: the two facts the client's liveness rests on.
THEOREM ClientEndsInOrder == Spec => [](EndReported /\ OneHandle)
<1>1. ASSUME ClientInv PROVE EndReported
  <2> SUFFICES ASSUME NEW s \in Conns, conn[s].obj # "none", conn[s].uv = "closed"
               PROVE  reports[s] = <<"success", "close">> \/ onClosed[s] = "user"
    BY DEF EndReported
  <2>1. Told(conn[s], onClosed[s], reports[s])  BY <1>1 DEF ClientInv, AttemptOK
  <2> QED BY <2>1 DEF Told
<1>2. ASSUME ClientInv PROVE OneHandle
  BY <1>2 DEF ClientInv, AttemptOK, OneHandle
<1> QED BY <1>1, <1>2, ClientInvariant, PTL
=============================================================================
