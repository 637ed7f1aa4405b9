---------------------------- MODULE HttpExample ----------------------------
(***************************************************************************)
(* The handlers and the request of examples/http_server and                 *)
(* examples/http_client.                                                    *)
(***************************************************************************)
EXTENDS HttpMessage

Test == <<"/", "t">>
Some == <<"/", "s", "ome", "*">>
Value == <<"/", "value", ":">>
SumOf == <<"/", "s", "um">>
Default == <<"/", "*">>

Page(content) ==
    swapContent(appendHead(setStatus(NewResponse("HTTP/1.1", <<"200">>), <<"200">>, <<"OK">>),
                           <<"Server">>, <<"uv-cpp">>), content)

func1(r) == Page(<<"test~">>)
func2(r) == Page(r.path)
func3(r) == Page(<<"value is ">> \o r.value)
func4(r) ==
    LET nums == Number(getUrlParam(r, <<"param1">>)) \X Number(getUrlParam(r, <<"param2">>))
    IN  IF nums = {} THEN Page(<<"param is not num.">>)
        ELSE Page(<<"sum :", ToString(CHOOSE s \in {n[1] + n[2] : n \in nums} : TRUE)>>)
func5(r) == Page(<<"uv-cpp default page.">>)

\* The handler registered for a path.
Handle(path, r) ==
    CASE path = Test -> func1(r)
      [] path = Some -> func2(r)
      [] path = Value -> func3(r)
      [] path = SumOf -> func4(r)
      [] path = Default -> func5(r)

\* onGetIp()
Search ==
    appendHead(appendUrlParam(setPath(NewRequest("HTTP/1.1", "GET"), <<"/", "search">>),
                              <<"q">>, <<"uv-cpp">>),
               <<"Host">>, <<"cn.bing.com">>)
=============================================================================
