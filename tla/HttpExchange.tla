---------------------------- MODULE HttpExchange ----------------------------
(***************************************************************************)
(* An HttpClient and an HttpServer joined by TCP: the bytes arrive in order *)
(* and in pieces of any size, and the connection may break.  The            *)
(* application registers its routes, then requests are made one after the   *)
(* other, each on a connection of its own.                                  *)
(***************************************************************************)
EXTENDS HttpServer, HttpClient

CONSTANTS Routes,     \* what the application may register: <<method, path>>
          Tables,     \* the tables (method -> paths) it may go on to serve with
          Requests,   \* what clients may ask for
          Probes,     \* paths looked up to judge a table of routes
          MaxRoutes, MaxReqs, MaxRead  \* bounds

ASSUME ExchangeAssumption ==
    /\ Routes \subseteq Methons \X Text
    /\ MaxRoutes \in Nat /\ MaxReqs \in Nat /\ MaxRead \in Nat \ {0}

VARIABLES
    link,     \* the connection between the two, as the client's TcpClient has it
    asked,    \* calls of Req()
    broken    \* history: the last connection broke

vars == <<serverVars, clientVars, link, asked, broken>>

Init ==
    /\ ServerInit /\ ClientInit
    /\ link = "none" /\ asked = 0 /\ broken = FALSE

AddRoute(m, path) ==
    /\ asked = 0
    /\ \/ Len(routes[m]) < MaxRoutes
       \/ \E t \in Tables : IsPrefix(Append(routes[m], path), t[m])
    /\ Register(m, path)
    /\ UNCHANGED <<clientVars, link, asked, broken>>

\* Req(), after which served and broken are about the new request.
Ask(r) ==
    /\ alive /\ link = "none" /\ asked < MaxReqs /\ routes \in Tables
    /\ Req(r)
    /\ link' = "connecting" /\ asked' = asked + 1
    /\ served' = <<>> /\ broken' = FALSE
    /\ UNCHANGED <<mode, route, routes, packetbuf, writes, toClient, up>>

Connected ==
    /\ link = "connecting" /\ up
    /\ \E text \in Sent(packRequest(req)) : OnConnectSuccess(text)
    /\ ServerConnection
    /\ link' = "open"
    /\ UNCHANGED <<asked, broken>>

ConnectFailed ==
    /\ link = "connecting"
    /\ \E deletes \in BOOLEAN : OnConnectFail(deletes)
    /\ link' = "none"
    /\ UNCHANGED <<serverVars, asked, broken>>

ServerReads ==
    /\ link = "open" /\ toServer # <<>>
    /\ \E n \in 1..MaxRead :
          /\ n <= Len(toServer)
          /\ OnMesage(SubSeq(toServer, 1, n))
          /\ toServer' = After(toServer, n)
    /\ UNCHANGED <<req, buffer, isConnected, reports, alive, link, asked, broken>>

\* The callback of the response's write: closeConnection().
ResponseWritten ==
    /\ link = "open" /\ writes > 0
    /\ writes' = 0 /\ packetbuf' = <<>>
    /\ link' = "ending"
    /\ UNCHANGED <<mode, route, routes, served, toClient, up>>
    /\ UNCHANGED <<clientVars, asked, broken>>

\* The destructor: a connected client closes its TcpClient first, and hears no
\* more of the connection.
LinkAfter == link' = IF alive' THEN link ELSE "none"

ClientReads ==
    /\ link \in {"open", "ending"} /\ toClient # <<>>
    /\ \E n \in 1..MaxRead, deletes \in BOOLEAN :
          /\ n <= Len(toClient)
          /\ OnMessage(SubSeq(toClient, 1, n), deletes)
          /\ toClient' = After(toClient, n)
    /\ LinkAfter
    /\ UNCHANGED <<mode, route, routes, packetbuf, served, writes, up, asked, broken>>

\* The client has read everything and finds the connection ended.
ClientSeesEnd ==
    /\ link = "ending" /\ toClient = <<>>
    /\ \E deletes \in BOOLEAN : OnConnectClose(deletes)
    /\ link' = "none"
    /\ UNCHANGED <<serverVars, asked, broken>>

\* The connection breaks, for instance because the server's process is gone,
\* and what is on its way is lost.
Break ==
    /\ link \in {"open", "ending"}
    /\ \E deletes \in BOOLEAN : OnConnectClose(deletes)
    /\ toClient' = <<>>
    /\ link' = "none" /\ broken' = TRUE
    /\ UNCHANGED <<mode, route, routes, packetbuf, served, writes, up, asked>>

Next ==
    \/ \E mp \in Routes : AddRoute(mp[1], mp[2])
    \/ \E r \in Requests : Ask(r)
    \/ Connected \/ ConnectFailed
    \/ ServerReads \/ ResponseWritten
    \/ ClientReads \/ ClientSeesEnd
    \/ Break

Spec == Init /\ [][Next]_vars

\* Connection attempts end, what was sent arrives, the loops run.
FairSpec ==
    /\ Spec
    /\ WF_vars(Connected \/ ConnectFailed)
    /\ WF_vars(ServerReads) /\ WF_vars(ResponseWritten)
    /\ WF_vars(ClientReads) /\ WF_vars(ClientSeesEnd)

-----------------------------------------------------------------------------
\* Reference: the request as its receiver should see it, a path with a ":"
\* carrying a value.
Received(r) ==
    LET path == WithSlash(r.path)
        colon == Find(path, <<":">>, 1)
    IN  IF colon = 0 THEN [r EXCEPT !.path = path]
        ELSE [r EXCEPT !.path = SubSeq(path, 1, colon), !.value = After(path, colon)]

\* The end of the request can be told from its text.
SelfDelimited(r) ==
    Declared(r) # "wrong" /\ (Declared(r) # "right" => r.content = <<>>)

\* The connection's buffer has room for all of the request.  append() refuses a
\* piece there is no room for; onMesage() ignores that and reads on, so that of a
\* larger request a smaller later piece may be kept and the text dispatched with a
\* hole in it.
FitsBuffer(r) == mode = "ListBuffer" \/ Len(packRequest(r)) <= Capacity

Headed(m) == [m EXCEPT !.content = <<>>]

\* Reference: chunked content, a chunk for each lexeme.
ChunkedText(content) ==
    FlattenSeq([i \in DOMAIN content |-> <<"1">> \o Crlf \o <<content[i]>> \o Crlf])
    \o <<"0">> \o Crlf \o Crlf

IsChunked(m) == getHead(m, <<"Transfer-Encoding">>) = <<"chunked">>

\* Whatever the order of registration, a path is never given to a handler that
\* was not registered for it or has been replaced, a path registered as such
\* always has one, and without wildcards it has its own.
RoutesRespected ==
    \A m \in Methons : asked = 0 /\ routes[m] # <<>> =>
        \A path \in Probes :
            LET hit == get(route[m], path)
                own == LastOf(routes[m], path)
            IN  /\ hit.found => /\ Matches(routes[m][hit.value], path)
                                /\ hit.value = LastOf(routes[m], routes[m][hit.value])
                /\ own # 0 => hit.found

\* However its text is cut into reads, a request reaches a handler at most once
\* and, if it fits the buffer, as it was made; content of undeclared length may be
\* cut short.  A request that does not fit may reach a handler as another one.
DispatchedAsSent ==
    /\ Len(served) <= 1
    /\ \A i \in DOMAIN served : FitsBuffer(req) =>
          /\ Headed(served[i].req) = Headed(Received(req))
          /\ IsPrefix(served[i].req.content, req.content)
          /\ SelfDelimited(req) => served[i].req.content = req.content

\* A response reported as Success is the one the handler made: decoded if it
\* was complete when data arrived, as it was sent if its connection ended, and
\* cut short only if that broke.
ResponseAsMade ==
    \A i \in DOMAIN reports : reports[i].rst = "Success" =>
        /\ served # <<>>
        /\ LET made == served[1].resp
               got == reports[i].resp
           IN  /\ Headed(got) = Headed(made)
               /\ IF reports[i].at = "data" /\ IsChunked(made)
                    THEN ChunkedText(got.content) = made.content
                    ELSE \/ got.content = made.content
                         \/ /\ broken /\ reports[i].at = "close"
                            /\ IsPrefix(got.content, made.content)

HasHandler(r) ==
    /\ r.methon \in Methons /\ route[r.methon] # <<>>
    /\ get(route[r.methon], Received(r).path).found

\* A request that has a handler and fits the buffer is answered: the client is
\* told something and its connection ends.
Answered ==
    /\ link = "open" /\ mode # "NoBuffer" /\ HasHandler(req)
    /\ SelfDelimited(req) /\ FitsBuffer(req)
    ~> link = "none" /\ reports # <<>>

-----------------------------------------------------------------------------
\* doc/en/TcpServer.md: a message buffer "can be deleted safe" when the callback
\* of its write is made, so nothing is ever sent from one deleted before.
NothingFreedSent == \A i \in DOMAIN toClient : toClient[i] # "freed"
=============================================================================
