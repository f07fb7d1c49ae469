--------------------------- MODULE MCHttpMessage ---------------------------
(* Messages that peers send in the instance TLC checks.                    *)
EXTENDS HttpMessage

Plain == [method |-> "GET", target |-> Root, proto |-> "HTTP/1.1", host |-> "h", type |-> "",
          x |-> <<>>, conn |-> "", cookies |-> <<>>, expect |-> FALSE, framing |-> "none",
          body |-> <<>>]
Post == [Plain EXCEPT !.method = "POST", !.type = "t", !.framing = "length", !.body = <<"a", "b">>]
Rich == [Plain EXCEPT !.target = Target("u", <<"a", "..", "b">>, <<<<"q", "1">>, <<"r", "2">>>>),
                      !.x = <<"1", "2">>, !.conn = "close",
                      !.cookies = <<<<"c", "1">>, <<"d", "2">>>>]

MCRequests ==
    {Plain, Rich, [Plain EXCEPT !.proto = "HTTP/1.0", !.conn = "close"],
     [Rich EXCEPT !.method = "HEAD", !.proto = "HTTP/1.0", !.conn = "keep-alive"],
     Post, [Rich EXCEPT !.method = "POST", !.framing = "chunked", !.body = <<"a">>],
     [Post EXCEPT !.expect = TRUE], [Post EXCEPT !.body = <<"a", "b", "c", "d">>],
     [Post EXCEPT !.type = "multipart", !.body = <<"--", "f", "--">>]}

Answer == [status |-> 200, proto |-> "HTTP/1.1", continued |-> FALSE, host |-> "", type |-> "t",
           x |-> <<>>, conn |-> "", cookies |-> <<>>, enc |-> "", framing |-> "length",
           body |-> <<"a">>]

MCDates == {"past", "future"}
CookieC == [NewCookie EXCEPT !.key = <<"c">>, !.value = <<"1">>]
CookieD == [NewCookie EXCEPT !.key = <<"d">>, !.value = <<"a", " ", "=", "b">>, !.expire = "future",
                             !.domain = <<"h">>, !.path = <<"/", "p", "/">>, !.secure = TRUE]

MCResponses ==
    {Answer,
     [Answer EXCEPT !.framing = "chunked", !.continued = TRUE, !.body = <<"a", "b">>,
                    !.x = <<"1", "2">>, !.cookies = <<CookieC, CookieD>>],
     [Answer EXCEPT !.framing = "identity", !.conn = "close", !.cookies = <<[CookieD EXCEPT !.key = <<"c">>]>>],
     [Answer EXCEPT !.proto = "HTTP/1.0", !.conn = "close", !.type = ""],
     [Answer EXCEPT !.status = 304, !.body = <<>>, !.x = <<"1">>],
     [Answer EXCEPT !.status = 304, !.framing = "length"],
     [Answer EXCEPT !.status = 204, !.framing = "none", !.type = "", !.body = <<>>],
     [Answer EXCEPT !.framing = "chunked", !.body = <<"a", "b", "c", "d">>]}

MCBodies == {<<>>, <<"new", "new">>}
MCPaths == {<<"n">>, <<"", "a", ".", "..", "..", "n", "">>, <<"a", "b", "..">>, <<"..", "..">>}
=============================================================================
