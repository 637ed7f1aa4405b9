----------------------------- MODULE HttpServer -----------------------------
(***************************************************************************)
(* uv::http::HttpServer: the routes of each method, and what onMesage()     *)
(* does with the bytes that arrive on one connection.                       *)
(***************************************************************************)
EXTENDS RadixTree

CONSTANTS
    Modes,         \* values of GlobalConfig::BufferModeStatus
    Capacity,      \* what the connection's circular buffer holds
    SocketRoom,    \* what the kernel takes of one write at once
    Replies(_, _)  \* the responses the handler of a path may make of a request

ASSUME ServerAssumption == Capacity \in Nat /\ SocketRoom \in Nat

VARIABLES
    mode,      \* GlobalConfig::BufferModeStatus
    route,     \* route_: method -> tree of handlers
    routes,    \* method -> the paths registered, in order; a handler is its index
    packetbuf, \* content of the connection's PacketBuffer
    served,    \* the requests passed to handlers, with the responses made
    writes,    \* responses whose write is not yet reported complete
    toClient,  \* what is on its way to the client
    up         \* the process has not crashed

serverVars == <<mode, route, routes, packetbuf, served, writes, toClient, up>>

ServerInit ==
    /\ mode \in Modes
    /\ route = [m \in Methons |-> <<>>]
    /\ routes = [m \in Methons |-> <<>>]
    /\ packetbuf = <<>> /\ served = <<>> /\ writes = 0 /\ toClient = <<>>
    /\ up = TRUE

\* Get(), Post() and the others, with a path.
Register(m, path) ==
    /\ routes' = [routes EXCEPT ![m] = Append(@, path)]
    /\ route' = [route EXCEPT ![m] = set(@, path, Len(routes[m]) + 1)]
    /\ UNCHANGED <<mode, packetbuf, served, writes, toClient, up>>

\* A connection begins or ends: its buffer and its writes are gone with it.
ServerConnection ==
    /\ packetbuf' = <<>> /\ served' = <<>> /\ writes' = 0 /\ toClient' = <<>>
    /\ UNCHANGED <<mode, route, routes, up>>

\* What the peer may get for a text: respData, and the client's packed request,
\* are destroyed as soon as write() returns, so what the kernel did not take at
\* once is read later from freed memory, which may or may not still hold it.
Sent(text) ==
    {text, [i \in DOMAIN text |-> IF i <= SocketRoom THEN text[i] ELSE "freed"]}

KeptUnlessMore(data) == data  \* mutant: nothing is kept of what came before

\* append(), whose result is ignored, then the whole buffer.
Kept(data) ==
    IF mode = "ListBuffer" \/ Len(packetbuf) + Len(data) <= Capacity
      THEN packetbuf \o data ELSE packetbuf

\* The handler of a complete request answers it.  route_ has a tree for every
\* method; that of a method without routes is empty, and get() follows its null
\* root.
Dispatch(req) ==
    LET tree == route[req.methon]
        hit == get(tree, req.path)
    IN  \/ /\ tree = <<>>
           /\ up' = FALSE
           /\ UNCHANGED <<served, writes, toClient>>
        \/ /\ tree # <<>> /\ ~hit.found
           /\ UNCHANGED <<served, writes, toClient, up>>
        \/ /\ tree # <<>> /\ hit.found
           /\ \E resp \in Replies(routes[req.methon][hit.value], req) :
                 /\ served' = Append(served, [req |-> req, resp |-> resp])
                 /\ \E text \in Sent(packResponse(resp)) : toClient' = toClient \o text
           /\ writes' = writes + 1
           /\ UNCHANGED up

\* onMesage(data): without a buffer it gives up.
OnMesage(data) ==
    \E parsed \in {RequestCompleted(Kept(data))} :
        /\ up
        /\ \/ /\ mode = "NoBuffer"
              /\ UNCHANGED serverVars
           \/ /\ mode # "NoBuffer" /\ parsed.rst = "Fail"
              /\ packetbuf' = Kept(data)
              /\ UNCHANGED <<mode, route, routes, served, writes, toClient, up>>
           \/ /\ mode # "NoBuffer" /\ parsed.rst = "Error"
              /\ packetbuf' = <<>>
              /\ UNCHANGED <<mode, route, routes, served, writes, toClient, up>>
           \/ /\ mode # "NoBuffer" /\ parsed.rst = "Success"
              /\ packetbuf' = <<>>
              /\ Dispatch(parsed.msg)
              /\ UNCHANGED <<mode, route, routes>>
=============================================================================
