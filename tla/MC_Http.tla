------------------------------ MODULE MC_Http ------------------------------
(* The routes of examples/http_server in any order, requests for each of     *)
(* them, for none, and of a method without routes.                           *)
EXTENDS HttpExchange, HttpExample

Get(path) == setPath(NewRequest("HTTP/1.1", "GET"), path)
Long(r) == appendHead(r, <<"Content-Length">>, <<ToString(Len(r.content))>>)
Chunked(r) ==
    swapContent(appendHead(r, <<"Transfer-Encoding">>, <<"chunked">>),
                ChunkedText(r.content))

MCRoutes == {<<"GET", p>> : p \in {Test, Some, Value, SumOf, Default}}
MCTables ==
    {[m \in Methons |-> IF m = "GET" THEN t ELSE <<>>] :
        t \in {<<Test, Some, Value, SumOf, Default>>, <<Value, SumOf>>}}
MCProbes == {Test, Value, SumOf, <<"/">>, <<"/", "s">>, <<"/", "s", "ome">>,
             <<"/", "s", "ome", "x">>, <<"/", "s", "um", "x">>, <<"/", "t", "x">>,
             <<"x">>}
MCRequests ==
    {Search,
     Long(swapContent(Get(<<"t">>), <<"x", "CR", "LF">>)),
     swapContent(Get(Test), <<"x", "y">>),
     Get(<<"/", "value", ":", "1", "2", "3">>),
     appendUrlParam(appendUrlParam(Get(SumOf), <<"param1">>, <<"1">>),
                    <<"param2">>, <<"2">>),
     setPath(NewRequest("HTTP/1.0", "POST"), Test),
     [Get(Test) EXCEPT !.methon = "Invalid"]}

\* What the handlers of the example make, and the same with its length
\* declared, in chunks, or without a status text.
MCReplies(path, r) ==
    LET page == Handle(path, r)
    IN  {page, Long(page), Chunked(page), setStatus(page, <<"404">>, <<>>)}
MCModes == {"NoBuffer", "CycleBuffer", "ListBuffer"}
=============================================================================
