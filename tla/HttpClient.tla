----------------------------- MODULE HttpClient -----------------------------
(***************************************************************************)
(* uv::http::HttpClient: one request over a connection of its TcpClient and *)
(* what the application is told of the answer.                              *)
(***************************************************************************)
EXTENDS HttpMessage

VARIABLES
    req,          \* req_
    buffer,       \* buffer_
    isConnected,
    reports,      \* what callback_ was told since the last Req()
    toServer,     \* what is on its way to the server
    alive         \* the HttpClient has not been deleted

clientVars == <<req, buffer, isConnected, reports, toServer, alive>>

\* The constructor fills buffer_ with zeros; Req() clears it.
ClientInit ==
    /\ req = NewRequest("HTTP/1.1", "GET")
    /\ buffer = <<"zeros">>
    /\ isConnected = FALSE
    /\ reports = <<>> /\ toServer = <<>>
    /\ alive = TRUE

Req(r) ==
    /\ req' = r /\ buffer' = <<>> /\ reports' = <<>>
    /\ UNCHANGED <<isConnected, toServer, alive>>

\* onResp(); the application deletes the client in its callback, or keeps it.
onResp(rst, resp, at, deletes) ==
    /\ reports' = Append(reports, [rst |-> rst, resp |-> resp, at |-> at])
    /\ alive' = ~deletes

NoResponse == NewResponse("HTTP/1.1", <<"200">>)

\* onConnectStatus(OnConnectSuccess); text is what becomes of the packed request,
\* a local of the function, on its way.
OnConnectSuccess(text) ==
    /\ isConnected' = TRUE
    /\ toServer' = text
    /\ UNCHANGED <<req, buffer, reports, alive>>

\* onConnectStatus(OnConnnectFail)
OnConnectFail(deletes) ==
    /\ isConnected' = FALSE
    /\ onResp("ConnectFail", NoResponse, "connect", deletes)
    /\ UNCHANGED <<req, buffer, toServer>>

\* onConnectStatus(OnConnnectClose): whatever has arrived is taken for all.
OnConnectClose(deletes) ==
    \E parsed \in {unpackResponse(buffer)} :
        /\ isConnected' = FALSE
        /\ toServer' = <<>>
        /\ \/ parsed.rst = "Success" /\ onResp("Success", parsed.msg, "close", deletes)
           \/ parsed.rst # "Success" /\ onResp("ParseFail", NoResponse, "close", deletes)
        /\ UNCHANGED <<req, buffer>>

\* onMessage(data)
OnMessage(data, deletes) ==
    \E parsed \in {ResponseCompleted(buffer \o data)} :
        /\ \/ /\ parsed.rst = "Success"
              /\ buffer' = buffer \o data
              /\ onResp("Success", parsed.msg, "data", deletes)
           \/ /\ parsed.rst = "Fail" /\ ~deletes
              /\ buffer' = buffer \o data
              /\ UNCHANGED <<reports, alive>>
           \/ /\ parsed.rst = "Error" /\ ~deletes
              /\ buffer' = <<>>
              /\ UNCHANGED <<reports, alive>>
        /\ UNCHANGED <<req, isConnected, toServer>>
=============================================================================
