--------------------------- MODULE HttpRespHeader ---------------------------
(***************************************************************************)
(* ResponseHeader of header.go: records and operators as in HttpHeader.    *)
(* A Set-Cookie line carries the text of a Cookie (cookie.go), which comes *)
(* first here: a text is a sequence of tokens, words, dates and the        *)
(* characters that separate them.  Nothing is kept raw.                    *)
(***************************************************************************)
EXTENDS HttpHeader

CONSTANT Dates       \* the tokens that are dates of RFC 1123

Unlimited == "unlimited"

NewCookie == [key |-> <<>>, value |-> <<>>, expire |-> Unlimited, domain |-> <<>>,
              path |-> <<>>, httpOnly |-> FALSE, secure |-> FALSE]

(* SetPath; the segments of a path and its text.                           *)
PathText(path) == FlattenSeq([i \in DOMAIN path |-> <<"/">> \o SelectSeq(<<path[i]>>, LAMBDA s : s # "")])
CookieSetPath(c, path) == [c EXCEPT !.path = PathText(NormalizePath(path))]

(* AppendBytes                                                             *)
CookiePart(key, value) == IF value = <<>> THEN <<>> ELSE <<";", " ", key, "=">> \o value
CookieFlag(holds, word) == IF holds THEN <<";", " ", word>> ELSE <<>>

CookieText(c) ==
    (IF c.key = <<>> THEN <<>> ELSE c.key \o <<"=">>) \o c.value
    \o CookiePart("expires", IF c.expire = Unlimited THEN <<>> ELSE <<c.expire>>)
    \o CookiePart("domain", c.domain) \o CookiePart("path", c.path)
    \o CookieFlag(c.httpOnly, "HttpOnly") \o CookieFlag(c.secure, "secure")

(* decodeCookieArg *)
Trimmed(s) ==
    LET inside == {i \in DOMAIN s : s[i] # " "}
    IN  IF inside = {} THEN <<>> ELSE SubSeq(s, Min(inside), Max(inside))

Unquoted(s) == IF Len(s) > 1 /\ s[1] = "\"" /\ Last(s) = "\"" THEN SubSeq(s, 2, Len(s) - 1) ELSE s

Before(s, x) == Min({i \in DOMAIN s : s[i] = x} \cup {Len(s) + 1}) - 1

GetCookieKey(src) == Trimmed(SubSeq(src, 1, Before(src, "=")))

(* cookieScanner.next on what is between two semicolons.                   *)
CookieKV(s) ==
    LET n == Before(s, "=")
    IN  IF n = Len(s) THEN <<<<>>, Unquoted(Trimmed(s))>>
        ELSE <<Trimmed(SubSeq(s, 1, n)), Unquoted(Trimmed(SubSeq(s, n + 2, Len(s))))>>

Pieces(src) ==
    LET put(ps, x) == IF x = ";" THEN Append(ps, <<>>)
                      ELSE [ps EXCEPT ![Len(ps)] = Append(@, x)]
    IN  FoldLeft(put, <<<<>>>>, src)

(* What ParseBytes makes of an attribute; a date that is none ends it.     *)
Attribute(r, piece) ==
    LET k == CookieKV(piece)[1]
        v == CookieKV(piece)[2]
    IN  IF r.status # "ok" THEN r
        ELSE CASE k = <<"expires">> -> IF v \in {<<d>> : d \in Dates} THEN [r EXCEPT !.cookie.expire = v[1]]
                                       ELSE [r EXCEPT !.status = "bad"]
               [] k = <<"domain">>  -> [r EXCEPT !.cookie.domain = v]
               [] k = <<"path">>    -> [r EXCEPT !.cookie.path = v]
               [] k = <<>> /\ v = <<"HttpOnly">> -> [r EXCEPT !.cookie.httpOnly = TRUE]
               [] k = <<>> /\ v = <<"secure">>   -> [r EXCEPT !.cookie.secure = TRUE]
               [] OTHER -> r

ParseCookie(src) ==
    LET pieces == Pieces(src)
        kv == CookieKV(pieces[1])
    IN  IF src = <<>> THEN [status |-> "none", cookie |-> NewCookie]
        ELSE FoldLeft(Attribute,
                      [status |-> "ok", cookie |-> [NewCookie EXCEPT !.key = kv[1], !.value = kv[2]]],
                      Tail(pieces))

-----------------------------------------------------------------------------
(* ResponseHeader *)
NewResp == [connectionClose |-> FALSE, noHTTP11 |-> FALSE, statusCode |-> 0,
            contentLength |-> 0, contentLengthBytes |-> "", contentType |-> "",
            server |-> "", h |-> <<>>, cookies |-> <<>>]

RespReset(hd) == NewResp

StatusCode(hd) == IF hd.statusCode = 0 THEN 200 ELSE hd.statusCode
RespSetStatusCode(hd, code) == [hd EXCEPT !.statusCode = code]

(* Mutant: "304 Not Modified" is forgotten.                                *)
MustSkipAllBut304(hd) == StatusCode(hd) >= 100 /\ (StatusCode(hd) = 204 \/ StatusCode(hd) < 200)

(* mustSkipContentLength: these have no body whatever their header says.   *)
MustSkipContentLength(hd) ==
    StatusCode(hd) >= 100 /\ (StatusCode(hd) \in {204, 304} \/ StatusCode(hd) < 200)

RespSetConnectionClose(hd) == [hd EXCEPT !.connectionClose = TRUE]
RespResetConnectionClose(hd) ==
    IF hd.connectionClose
    THEN [hd EXCEPT !.connectionClose = FALSE, !.h = DelAllArgs(@, "Connection")]
    ELSE hd

(* Mutant: the chunked encoding of the message before is kept.             *)
RespSetContentLengthOnly(hd, n) ==
    IF MustSkipContentLength(hd) THEN hd
    ELSE [hd EXCEPT !.contentLength = n, !.contentLengthBytes = IF n >= 0 THEN ToString(n) ELSE ""]

RespSetContentLength(hd, n) ==
    IF MustSkipContentLength(hd) THEN hd
    ELSE IF n >= 0
    THEN [hd EXCEPT !.contentLength = n, !.contentLengthBytes = ToString(n),
                    !.h = DelAllArgs(@, "Transfer-Encoding")]
    ELSE [hd EXCEPT !.contentLength = n, !.contentLengthBytes = "",
                    !.connectionClose = @ \/ n = -2,
                    !.h = SetArg(@, "Transfer-Encoding",
                                 IF n = -2 THEN "identity" ELSE "chunked")]

RespSetContentType(hd, v) == [hd EXCEPT !.contentType = v]
RespSetServer(hd, v) == [hd EXCEPT !.server = v]

(* ContentType: what a response is said to be when nobody said it.         *)
RespContentType(hd) == IF hd.contentType = "" THEN "text" ELSE hd.contentType

RespHeaderLine(hd, l) ==
    LET k == l[2]
        v == l[3]
    IN  CASE k = "Content-Type"   -> RespSetContentType(hd, v)
          [] k = "Server"         -> RespSetServer(hd, v)
          [] k = "Content-Length" ->
               IF hd.contentLength = -1 THEN hd
               ELSE [hd EXCEPT !.contentLength = ParseLength(v),
                               !.contentLengthBytes = IF ParseLength(v) = -2 THEN @ ELSE v]
          [] k = "Transfer-Encoding" ->
               IF v = "identity" THEN hd
               ELSE [hd EXCEPT !.contentLength = -1, !.h = SetArg(@, k, "chunked")]
          [] k = "Set-Cookie" -> [hd EXCEPT !.cookies = AppendArg(@, GetCookieKey(v), v)]
          [] k = "Connection" ->
               [hd EXCEPT !.connectionClose = v = "close",
                          !.h = IF v = "close" THEN @ ELSE AppendArg(@, k, v)]
          [] OTHER -> [hd EXCEPT !.h = AppendArg(@, k, v)]

(* parseHeaders: a body without length or chunks ends with the connection, *)
(* unless the response has none or the connection changes its protocol.    *)
EndsWithConnection(hd) == /\ hd.contentLength = -2
                          /\ PeekArg(hd.h, "Connection") # "Upgrade"
                          /\ ~ MustSkipContentLength(hd)

RespSized(hd) ==
    [hd EXCEPT !.contentLengthBytes = IF hd.contentLength < 0 THEN "" ELSE @,
               !.connectionClose = @ \/ EndsWithConnection(hd) \/ OldCloses(hd),
               !.h = IF EndsWithConnection(hd) THEN SetArg(@, "Transfer-Encoding", "identity")
                     ELSE @]

RespParseHeaders(hd, lines) ==
    RespSized(FoldLeft(RespHeaderLine, [hd EXCEPT !.contentLength = -2], lines))

RespFirstLine(hd, first) == [hd EXCEPT !.statusCode = first[2],
                                       !.noHTTP11 = first[3] # "HTTP/1.1"]

RespTryRead(hd, b) ==
    LET fresh == RespReset(hd)
    IN  IF b = <<>> THEN [status |-> "more", hd |-> fresh, used |-> 0]
        ELSE IF b[1][1] # "status" THEN [status |-> "bad", hd |-> fresh, used |-> 0]
        ELSE IF EndsAt(b) = {}
             THEN [status |-> "more", used |-> 0,
                   hd |-> FoldLeft(RespHeaderLine, RespFirstLine(fresh, b[1]), Tail(b))]
        ELSE [status |-> "ok", used |-> Min(EndsAt(b)),
              hd |-> RespParseHeaders(RespFirstLine(fresh, b[1]), HeaderLines(b))]

RespReadOn(early, b) == IF early.status = "more" THEN RespTryRead(early.hd, b) ELSE early
RespRead(hd, b, first) == RespReadOn(RespTryRead(hd, SubSeq(b, 1, first)), b)

(* SetCanonical; Date and Transfer-Encoding are managed by the writer.     *)
RespSet(hd, k, v) ==
    CASE k = "Content-Type" -> RespSetContentType(hd, v)
      [] k = "Server"       -> RespSetServer(hd, v)
      [] k = "Set-Cookie"   -> [hd EXCEPT !.cookies = AppendArg(@, GetCookieKey(v), v)]
      [] k = "Content-Length" ->
           IF ParseLength(v) = -2 THEN hd
           ELSE [hd EXCEPT !.contentLength = ParseLength(v), !.contentLengthBytes = v]
      [] k = "Connection" ->
           IF v = "close" THEN RespSetConnectionClose(hd)
           ELSE [RespResetConnectionClose(hd) EXCEPT !.h = SetArg(@, k, v)]
      [] k \in {"Transfer-Encoding", "Date"} -> hd
      [] OTHER -> [hd EXCEPT !.h = SetArg(@, k, v)]

RespAdd(hd, k, v) == [hd EXCEPT !.h = AppendArg(@, k, v)]

RespDel(hd, k) ==
    [hd EXCEPT !.contentType = IF k = "Content-Type" THEN "" ELSE @,
               !.server = IF k = "Server" THEN "" ELSE @,
               !.cookies = IF k = "Set-Cookie" THEN <<>> ELSE @,
               !.contentLength = IF k = "Content-Length" THEN 0 ELSE @,
               !.contentLengthBytes = IF k = "Content-Length" THEN "" ELSE @,
               !.connectionClose = IF k = "Connection" THEN FALSE ELSE @,
               !.h = DelAllArgs(@, k)]

(* SetCookie, DelCookie, DelClientCookie, Cookie *)
RespSetCookie(hd, c) == [hd EXCEPT !.cookies = SetArg(@, c.key, CookieText(c))]
RespDelCookie(hd, k) == [hd EXCEPT !.cookies = DelAllArgs(@, k)]
RespDelClientCookie(hd, k) ==
    RespSetCookie(RespDelCookie(hd, k), [NewCookie EXCEPT !.key = k, !.expire = "past"])
RespCookie(hd, k) == ParseCookie(PeekArg(hd.cookies, k)).cookie

RespPeek(hd, k) ==
    CASE k = "Content-Type"   -> RespContentType(hd)
      [] k = "Server"         -> hd.server
      [] k = "Connection"     -> IF hd.connectionClose THEN "close" ELSE PeekArg(hd.h, k)
      [] k = "Content-Length" -> hd.contentLengthBytes
      [] OTHER                -> PeekArg(hd.h, k)

(* AppendBytes; the Date line is left out.                                 *)
RespAppendBytes(hd) ==
    <<<<"status", StatusCode(hd), "HTTP/1.1">>,
      Line("Server", IF hd.server = "" THEN "fasthttp" ELSE hd.server)>>
    \o (IF hd.contentLength # 0 \/ hd.contentType # ""
        THEN <<Line("Content-Type", RespContentType(hd))>> ELSE <<>>)
    \o Optional("Content-Length", hd.contentLengthBytes)
    \o ArgLines(hd.h)
    \o [i \in DOMAIN hd.cookies |-> Line("Set-Cookie", hd.cookies[i][2])]
    \o (IF hd.connectionClose THEN <<Line("Connection", "close")>> ELSE <<>>)
    \o <<<<"end">>>>
=============================================================================
