------------------------- MODULE HttpExchange_proofs -------------------------
(***************************************************************************)
(* What an exchange promises whatever its texts are: nothing of one         *)
(* connection is left over in the next, and the client knows whether it has *)
(* a connection.  The parsers stay closed; the one fact used of them is that *)
(* no response is found in an empty buffer.                                 *)
(***************************************************************************)
EXTENDS HttpExchange, TLAPS

\* A callback is told of a success only if a handler answered the request on
\* this very connection: neither buffer_ nor what is on its way holds anything
\* of an earlier one.
SuccessWasServed ==
    \A i \in DOMAIN reports : reports[i].rst = "Success" => served # <<>>

\* isConnected tells whether the destructor has a connection to close, and a
\* deleted client has none.
ClientKnowsLink ==
    /\ alive => (isConnected <=> link \in {"open", "ending"})
    /\ ~alive => link = "none"

\* Where a response may be, and what has happened when it is there.
NothingStale ==
    /\ link \in {"none", "connecting", "open", "ending"}
    /\ asked \in Nat /\ (link # "none" => asked > 0)
    /\ link = "connecting" => buffer = <<>> /\ reports = <<>>
    /\ alive /\ link \in {"none", "connecting"} => toClient = <<>>
    /\ toClient # <<>> => served # <<>>
    /\ asked > 0 /\ buffer # <<>> => served # <<>>
    /\ link = "open" /\ writes > 0 => served # <<>>
    /\ link = "ending" => served # <<>>

\* Both histories are sequences, of whatever the parsers and handlers made.
Histories == (\E S : served \in Seq(S)) /\ (\E S : reports \in Seq(S))

ExchangeInv ==
    alive \in BOOLEAN /\ isConnected \in BOOLEAN /\ writes \in Nat
    /\ Histories /\ ClientKnowsLink /\ NothingStale /\ SuccessWasServed

\* No response is found in an empty buffer, so a connection that ends without
\* data is reported as a failure.
LEMMA NothingInEmpty == unpackResponse(<<>>).rst = "Fail"
<1>1. Len(Crlf \o Crlf) = 4  BY DEF Crlf
<1>2. 1..(Len(<<>>) - 4 + 1) = {}  OBVIOUS
<1>3. BodyPos(<<>>) = First[{}]  BY <1>1, <1>2 DEF BodyPos, Find
<1>4. First[{}] = 0  BY DEF First
<1> QED BY <1>3, <1>4 DEF unpackResponse, Parsed

\* Appending makes a longer sequence, of the old elements and the new one.
LEMMA Appended ==
  ASSUME NEW s, \E S : s \in Seq(S), NEW e
  PROVE  /\ \E S : Append(s, e) \in Seq(S)
         /\ Append(s, e) # <<>>
         /\ DOMAIN Append(s, e) = 1..(Len(s) + 1) /\ Len(s) \in Nat
         /\ DOMAIN s = 1..Len(s)
         /\ \A i \in 1..Len(s) : Append(s, e)[i] = s[i]
         /\ Append(s, e)[Len(s) + 1] = e
<1>1. PICK S : s \in Seq(S)  OBVIOUS
<1> DEFINE T == S \cup {e}
<1>2. s \in Seq(T) /\ e \in T  BY <1>1
<1> HIDE DEF T
<1>3. Append(s, e) \in Seq(T)  BY <1>2
<1>4. \E U : Append(s, e) \in Seq(U)  BY <1>3
<1>5. Append(s, e) # <<>>
  BY <1>2
<1>6. DOMAIN Append(s, e) = 1..(Len(s) + 1) /\ Len(s) \in Nat /\ DOMAIN s = 1..Len(s)
  BY <1>2
<1>7. /\ \A i \in 1..Len(s) : Append(s, e)[i] = s[i]
      /\ Append(s, e)[Len(s) + 1] = e
  BY <1>2
<1> QED BY <1>4, <1>5, <1>6, <1>7

\* A report keeps the reports in order and adds one; a success needs an answer.
LEMMA Reported ==
  ASSUME NEW rst, NEW resp, NEW at, NEW deletes \in BOOLEAN,
         onResp(rst, resp, at, deletes), Histories, SuccessWasServed,
         served' = served, rst = "Success" => served # <<>>
  PROVE  Histories' /\ SuccessWasServed' /\ alive' = ~deletes
<1> DEFINE e == [rst |-> rst, resp |-> resp, at |-> at]
<1>1. reports' = Append(reports, e) /\ alive' = ~deletes  BY DEF onResp
<1>2. e.rst = rst  OBVIOUS
<1> HIDE DEF e
<1>3. \E S : reports \in Seq(S)  BY DEF Histories
<1>4. /\ \E S : Append(reports, e) \in Seq(S)
      /\ DOMAIN Append(reports, e) = 1..(Len(reports) + 1) /\ Len(reports) \in Nat
      /\ DOMAIN reports = 1..Len(reports)
      /\ \A i \in 1..Len(reports) : Append(reports, e)[i] = reports[i]
      /\ Append(reports, e)[Len(reports) + 1] = e
  BY <1>3, Appended
<1>5. Histories'  BY <1>1, <1>4 DEF Histories
<1>6. ASSUME NEW i \in DOMAIN reports', reports'[i].rst = "Success"
      PROVE  served # <<>>
  <2>1. CASE i = Len(reports) + 1  BY <1>1, <1>2, <1>4, <1>6, <2>1
  <2>2. CASE i \in 1..Len(reports)
    BY <1>1, <1>4, <1>6, <2>2 DEF SuccessWasServed
  <2> QED BY <1>1, <1>4, <2>1, <2>2
<1> QED BY <1>1, <1>5, <1>6 DEF SuccessWasServed

\* onMesage() of the server only ever adds an answered request to served, and
\* sends or counts nothing without one.
LEMMA ServerStep ==
  ASSUME NEW data, OnMesage(data), Histories, writes \in Nat
  PROVE  /\ \E S : served' \in Seq(S)
         /\ writes' \in Nat
         /\ \/ served' = served /\ writes' = writes /\ toClient' = toClient
            \/ served' # <<>>
         /\ served # <<>> => served' # <<>>
<1>1. CASE UNCHANGED <<served, writes, toClient>>  BY <1>1 DEF Histories
<1>2. ASSUME NEW r, Dispatch(r), ~UNCHANGED <<served, writes, toClient>>
      PROVE  writes' = writes + 1 /\ \E e : served' = Append(served, e)
  BY <1>2 DEF Dispatch
<1>3. CASE ~UNCHANGED <<served, writes, toClient>>
  <2>1. \E r : Dispatch(r)  BY <1>3 DEF OnMesage, serverVars
  <2>2. PICK e : writes' = writes + 1 /\ served' = Append(served, e)
    BY <1>2, <1>3, <2>1
  <2>3. \E S : served \in Seq(S)  BY DEF Histories
  <2>4. (\E S : Append(served, e) \in Seq(S)) /\ Append(served, e) # <<>>
    BY <2>3, Appended
  <2>5. \E S : served' \in Seq(S)  BY <2>2, <2>4
  <2>6. served' # <<>> /\ writes' \in Nat  BY <2>2, <2>4
  <2> QED BY <2>5, <2>6
<1> QED BY <1>1, <1>3

\* The server's steps leave the reports alone.
LEMMA AfterServed ==
  ASSUME SuccessWasServed, reports' = reports, served # <<>> => served' # <<>>
  PROVE  SuccessWasServed'
BY DEF SuccessWasServed

\* A client that ends its connection has a response only if data had come.
LEMMA ClosedStep ==
  ASSUME NEW deletes \in BOOLEAN, OnConnectClose(deletes), ExchangeInv,
         asked > 0, served' = served
  PROVE  /\ Histories' /\ SuccessWasServed' /\ alive' = ~deletes
         /\ isConnected' = FALSE /\ buffer' = buffer
<1>1. PICK p : /\ p = unpackResponse(buffer)
               /\ \/ p.rst = "Success" /\ onResp("Success", p.msg, "close", deletes)
                  \/ p.rst # "Success" /\ onResp("ParseFail", NoResponse, "close", deletes)
  BY DEF OnConnectClose
<1>2. isConnected' = FALSE /\ buffer' = buffer  BY DEF OnConnectClose
<1>3. Histories /\ SuccessWasServed  BY DEF ExchangeInv
<1>4. CASE p.rst = "Success" /\ onResp("Success", p.msg, "close", deletes)
  <2>1. buffer # <<>>  BY <1>1, <1>4, NothingInEmpty
  <2>2. served # <<>>  BY <2>1 DEF ExchangeInv, NothingStale
  <2> QED BY <1>2, <1>3, <1>4, <2>2, Reported
<1>5. CASE onResp("ParseFail", NoResponse, "close", deletes)
  BY <1>2, <1>3, <1>5, Reported
<1> QED BY <1>1, <1>4, <1>5

\* Every step keeps the invariant.
LEMMA ExchangeStep == ExchangeInv /\ [Next]_vars => ExchangeInv'
<1> SUFFICES ASSUME ExchangeInv, [Next]_vars  PROVE ExchangeInv'
  OBVIOUS
<1>0. /\ alive \in BOOLEAN /\ isConnected \in BOOLEAN /\ writes \in Nat
      /\ Histories /\ ClientKnowsLink /\ NothingStale /\ SuccessWasServed
  BY DEF ExchangeInv
<1>1. ASSUME NEW mp \in Routes, AddRoute(mp[1], mp[2])  PROVE ExchangeInv'
  <2>1. UNCHANGED <<served, writes, toClient, reports, buffer, alive, isConnected,
                    link, asked>>
    BY <1>1 DEF AddRoute, Register, clientVars
  <2> QED BY <1>0, <2>1
      DEF ExchangeInv, Histories, ClientKnowsLink, NothingStale, SuccessWasServed
<1>2. ASSUME NEW r \in Requests, Ask(r)  PROVE ExchangeInv'
  <2>1. /\ alive /\ link = "none" /\ link' = "connecting" /\ asked' = asked + 1
        /\ served' = <<>> /\ buffer' = <<>> /\ reports' = <<>>
        /\ UNCHANGED <<isConnected, alive, writes, toClient>>
    BY <1>2 DEF Ask, Req
  <2>2. Histories'
    <3>1. served' \in Seq({}) /\ reports' \in Seq({})  BY <2>1
    <3> QED BY <3>1 DEF Histories
  <2>3. SuccessWasServed'  BY <2>1 DEF SuccessWasServed
  <2>4. NothingStale'  BY <1>0, <2>1 DEF NothingStale
  <2>5. ClientKnowsLink'  BY <1>0, <2>1 DEF ClientKnowsLink
  <2> QED BY <1>0, <2>1, <2>2, <2>3, <2>4, <2>5 DEF ExchangeInv
<1>3. ASSUME Connected  PROVE ExchangeInv'
  <2>1. /\ link = "connecting" /\ link' = "open" /\ asked' = asked
        /\ isConnected' = TRUE /\ UNCHANGED <<buffer, reports, alive>>
        /\ served' = <<>> /\ writes' = 0 /\ toClient' = <<>>
    BY <1>3 DEF Connected, OnConnectSuccess, ServerConnection
  <2>2. buffer = <<>> /\ reports = <<>> /\ alive
    BY <1>0, <2>1 DEF NothingStale, ClientKnowsLink
  <2>3. Histories'
    <3>1. served' \in Seq({}) /\ reports' \in Seq({})  BY <2>1, <2>2
    <3> QED BY <3>1 DEF Histories
  <2>4. SuccessWasServed'  BY <2>1, <2>2 DEF SuccessWasServed
  <2>5. NothingStale'  BY <1>0, <2>1, <2>2 DEF NothingStale
  <2>6. ClientKnowsLink'  BY <2>1, <2>2 DEF ClientKnowsLink
  <2> QED BY <1>0, <2>1, <2>3, <2>4, <2>5, <2>6 DEF ExchangeInv
<1>4. ASSUME ConnectFailed  PROVE ExchangeInv'
  <2>1. PICK deletes \in BOOLEAN :
            /\ onResp("ConnectFail", NoResponse, "connect", deletes)
            /\ isConnected' = FALSE /\ buffer' = buffer
    BY <1>4 DEF ConnectFailed, OnConnectFail
  <2>2. /\ link = "connecting" /\ link' = "none"
        /\ UNCHANGED <<served, writes, toClient, asked>>
    BY <1>4 DEF ConnectFailed, serverVars
  <2>3. Histories' /\ SuccessWasServed' /\ alive' = ~deletes
    BY <1>0, <2>1, <2>2, Reported
  <2>4. NothingStale'  BY <1>0, <2>1, <2>2, <2>3 DEF NothingStale, ClientKnowsLink
  <2>5. ClientKnowsLink'  BY <2>1, <2>2 DEF ClientKnowsLink
  <2> QED BY <1>0, <2>1, <2>2, <2>3, <2>4, <2>5 DEF ExchangeInv
<1>5. ASSUME ServerReads  PROVE ExchangeInv'
  <2>1. /\ link = "open"
        /\ UNCHANGED <<buffer, isConnected, reports, alive, link, asked>>
        /\ \E data : OnMesage(data)
    BY <1>5 DEF ServerReads
  <2>2. /\ \E S : served' \in Seq(S)
        /\ writes' \in Nat
        /\ \/ served' = served /\ writes' = writes /\ toClient' = toClient
           \/ served' # <<>>
        /\ served # <<>> => served' # <<>>
    BY <1>0, <2>1, ServerStep
  <2>3. Histories'  BY <1>0, <2>1, <2>2 DEF Histories
  <2>4. SuccessWasServed'  BY <1>0, <2>1, <2>2, AfterServed
  <2>5. NothingStale'  BY <1>0, <2>1, <2>2 DEF NothingStale
  <2>6. ClientKnowsLink'  BY <1>0, <2>1 DEF ClientKnowsLink
  <2> QED BY <1>0, <2>1, <2>2, <2>3, <2>4, <2>5, <2>6 DEF ExchangeInv
<1>6. ASSUME ResponseWritten  PROVE ExchangeInv'
  <2>1. /\ link = "open" /\ link' = "ending" /\ writes > 0 /\ writes' = 0
        /\ UNCHANGED <<served, toClient, buffer, isConnected, reports, alive, asked>>
    BY <1>6 DEF ResponseWritten, clientVars
  <2>2. NothingStale'  BY <1>0, <2>1 DEF NothingStale
  <2>3. ClientKnowsLink'  BY <1>0, <2>1 DEF ClientKnowsLink
  <2> QED BY <1>0, <2>1, <2>2, <2>3 DEF ExchangeInv, Histories, SuccessWasServed
<1>7. ASSUME ClientReads  PROVE ExchangeInv'
  <2>1. PICK n \in 1..MaxRead, deletes \in BOOLEAN :
            OnMessage(SubSeq(toClient, 1, n), deletes)
    BY <1>7 DEF ClientReads
  <2>2. /\ link \in {"open", "ending"} /\ toClient # <<>>
        /\ link' = IF alive' THEN link ELSE "none"
        /\ UNCHANGED <<served, writes, asked, isConnected>>
    BY <1>7 DEF ClientReads, LinkAfter, OnMessage
  <2>3. served # <<>> /\ alive  BY <1>0, <2>2 DEF NothingStale, ClientKnowsLink
  <2>4. \/ \E resp : onResp("Success", resp, "data", deletes)
        \/ UNCHANGED <<reports, alive>>
    BY <2>1 DEF OnMessage
  <2>5. Histories' /\ SuccessWasServed' /\ alive' \in BOOLEAN
    <3>1. CASE UNCHANGED <<reports, alive>>
      BY <1>0, <2>2, <3>1 DEF Histories, SuccessWasServed
    <3>2. ASSUME NEW resp, onResp("Success", resp, "data", deletes)
          PROVE  Histories' /\ SuccessWasServed' /\ alive' \in BOOLEAN
      BY <1>0, <2>2, <2>3, <3>2, Reported
    <3> QED BY <2>4, <3>1, <3>2
  <2>6. NothingStale'  BY <1>0, <2>2, <2>3, <2>5 DEF NothingStale
  <2>7. ClientKnowsLink'  BY <1>0, <2>2, <2>3, <2>5 DEF ClientKnowsLink
  <2> QED BY <1>0, <2>2, <2>5, <2>6, <2>7 DEF ExchangeInv
<1>8. ASSUME ClientSeesEnd  PROVE ExchangeInv'
  <2>1. PICK deletes \in BOOLEAN : OnConnectClose(deletes)
    BY <1>8 DEF ClientSeesEnd
  <2>2. /\ link = "ending" /\ toClient = <<>> /\ link' = "none"
        /\ UNCHANGED <<served, writes, toClient, asked>>
    BY <1>8 DEF ClientSeesEnd, serverVars
  <2>3. asked > 0  BY <1>0, <2>2 DEF NothingStale
  <2>4. /\ Histories' /\ SuccessWasServed' /\ alive' = ~deletes
        /\ isConnected' = FALSE /\ buffer' = buffer
    BY <2>1, <2>2, <2>3, ClosedStep
  <2>5. NothingStale'  BY <1>0, <2>2, <2>4 DEF NothingStale
  <2>6. ClientKnowsLink'  BY <2>2, <2>4 DEF ClientKnowsLink
  <2> QED BY <1>0, <2>2, <2>4, <2>5, <2>6 DEF ExchangeInv
<1>9. ASSUME Break  PROVE ExchangeInv'
  <2>1. PICK deletes \in BOOLEAN : OnConnectClose(deletes)
    BY <1>9 DEF Break
  <2>2. /\ link \in {"open", "ending"} /\ toClient' = <<>> /\ link' = "none"
        /\ UNCHANGED <<served, writes, asked>>
    BY <1>9 DEF Break
  <2>3. asked > 0  BY <1>0, <2>2 DEF NothingStale
  <2>4. /\ Histories' /\ SuccessWasServed' /\ alive' = ~deletes
        /\ isConnected' = FALSE /\ buffer' = buffer
    BY <2>1, <2>2, <2>3, ClosedStep
  <2>5. NothingStale'  BY <1>0, <2>2, <2>4 DEF NothingStale
  <2>6. ClientKnowsLink'  BY <2>2, <2>4 DEF ClientKnowsLink
  <2> QED BY <1>0, <2>2, <2>4, <2>5, <2>6 DEF ExchangeInv
<1>10. CASE UNCHANGED vars
  <2>1. UNCHANGED <<served, writes, toClient, reports, buffer, alive, isConnected,
                    link, asked>>
    BY <1>10 DEF vars, serverVars, clientVars
  <2> QED BY <1>0, <2>1
      DEF ExchangeInv, Histories, ClientKnowsLink, NothingStale, SuccessWasServed
<1> QED BY <1>1, <1>2, <1>3, <1>4, <1>5, <1>6, <1>7, <1>8, <1>9, <1>10 DEF Next

\* The invariant holds before anything has been asked.
LEMMA ExchangeStarts == Init => ExchangeInv
<1> SUFFICES ASSUME Init  PROVE ExchangeInv
  OBVIOUS
<1>1. /\ served = <<>> /\ writes = 0 /\ toClient = <<>> /\ isConnected = FALSE
      /\ reports = <<>> /\ alive = TRUE /\ link = "none" /\ asked = 0
  BY DEF Init, ServerInit, ClientInit
<1>2. Histories
  <2>1. served \in Seq({}) /\ reports \in Seq({})  BY <1>1
  <2> QED BY <2>1 DEF Histories
<1>3. NothingStale /\ ClientKnowsLink  BY <1>1 DEF NothingStale, ClientKnowsLink
<1>4. SuccessWasServed  BY <1>1 DEF SuccessWasServed
<1> QED BY <1>1, <1>2, <1>3, <1>4 DEF ExchangeInv

\* Nothing of one exchange reaches the next: bytes under way, bytes kept and
\* successes reported all belong to a request a handler answered on the present
\* connection, and the server ends a connection only after such an answer.
THEOREM ExchangeInvariant == Spec => []ExchangeInv
BY ExchangeStarts, ExchangeStep, PTL DEF Spec

\* onResp() reports a success only for a request that was handled, for any
\* routes, requests, handlers and ways of cutting the texts.
THEOREM ExchangeSuccessWasServed == Spec => []SuccessWasServed
<1>1. ExchangeInv => SuccessWasServed  BY DEF ExchangeInv
<1> QED BY <1>1, ExchangeInvariant, PTL

\* The destructor of HttpClient closes its TcpClient exactly when there is a
\* connection to close.
THEOREM ExchangeClientKnowsLink == Spec => []ClientKnowsLink
<1>1. ExchangeInv => ClientKnowsLink  BY DEF ExchangeInv
<1> QED BY <1>1, ExchangeInvariant, PTL
=============================================================================
