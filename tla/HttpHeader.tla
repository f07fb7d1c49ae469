----------------------------- MODULE HttpHeader -----------------------------
(***************************************************************************)
(* RequestHeader and ResponseHeader of header.go as records, their methods *)
(* as operators.  What travels is a sequence of tokens:                    *)
(*     <<"request", method, target, protocol>>  <<"status", code, protocol>> *)
(*     <<"line", key, value>>   <<"end">>       (a header)                 *)
(*     <<"byte", b>>  <<"chunk", size>>         (a body)                   *)
(* A number in a header line is written as its text; the value of a Cookie *)
(* line is its list of pairs.  Keys are in their canonical form.           *)
(***************************************************************************)
EXTENDS HttpArgs, TLC

Line(k, v) == <<"line", k, v>>

(* parseContentLength: the number a text stands for, or -2.                *)
MaxLength == 9
ParseLength(text) == IF \E n \in 0 .. MaxLength : ToString(n) = text
                     THEN CHOOSE n \in 0 .. MaxLength : ToString(n) = text
                     ELSE -2

-----------------------------------------------------------------------------
(* RequestHeader.                                                          *)

NewReq == [connectionClose |-> FALSE, isGet |-> FALSE, cookiesCollected |-> FALSE,
           rawHeadersParsed |-> FALSE, noHTTP11 |-> FALSE,
           contentLength |-> 0, contentLengthBytes |-> "",
           method |-> "", requestURI |-> Root, host |-> "", contentType |-> "",
           userAgent |-> "", h |-> <<>>, cookies |-> <<>>, rawHeaders |-> <<>>]

ReqReset(hd) == NewReq

Method(hd) == IF hd.method = "" THEN "GET" ELSE hd.method

(* IsGet remembers a yes; IsHead trusts what it remembered.                *)
KnowGet(hd) == [hd EXCEPT !.isGet = @ \/ Method(hd) = "GET"]
IsHead(hd) == ~ KnowGet(hd).isGet /\ Method(hd) = "HEAD"
ReqNoBody(hd) == KnowGet(hd).isGet \/ IsHead(hd)

ReqHeaderLine(hd, l) ==
    LET k == l[2]
        v == l[3]
    IN  CASE k = "Host"           -> [hd EXCEPT !.host = v]
          [] k = "User-Agent"     -> [hd EXCEPT !.userAgent = v]
          [] k = "Content-Type"   -> [hd EXCEPT !.contentType = v]
          [] k = "Content-Length" ->
               IF hd.contentLength = -1 THEN hd
               ELSE [hd EXCEPT !.contentLength = ParseLength(v),
                               !.contentLengthBytes = IF ParseLength(v) = -2 THEN @ ELSE v]
          [] k = "Transfer-Encoding" ->
               IF v = "identity" THEN hd
               ELSE [hd EXCEPT !.contentLength = -1, !.h = SetArg(@, k, "chunked")]
          [] k = "Connection" ->
               [hd EXCEPT !.connectionClose = v = "close",
                          !.h = IF v = "close" THEN @ ELSE AppendArg(@, k, v)]
          [] OTHER -> [hd EXCEPT !.h = AppendArg(@, k, v)]

(* Without "keep-alive" a message older than HTTP/1.1 ends its connection. *)
OldCloses(hd) == hd.noHTTP11 /\ ~ hd.connectionClose
                 /\ PeekArg(hd.h, "Connection") # "keep-alive"

ReqSized(hd) ==
    [hd EXCEPT !.contentLength = IF ReqNoBody(hd) THEN 0 ELSE @,
               !.contentLengthBytes = IF hd.contentLength < 0 \/ ReqNoBody(hd) THEN "" ELSE @,
               !.connectionClose = @ \/ OldCloses(hd)]

ReqParseHeaders(hd, lines) ==
    ReqSized(FoldLeft(ReqHeaderLine, [KnowGet(hd) EXCEPT !.contentLength = -2], lines))

ParseRaw(hd) ==
    IF hd.rawHeadersParsed THEN hd
    ELSE IF hd.rawHeaders = <<>> THEN [hd EXCEPT !.rawHeadersParsed = TRUE]
    ELSE ReqParseHeaders([hd EXCEPT !.rawHeadersParsed = TRUE], hd.rawHeaders)

ReqFirstLine(hd, first) == KnowGet([hd EXCEPT !.method = first[2], !.requestURI = first[3],
                                              !.noHTTP11 = first[4] # "HTTP/1.1"])

(* parse: the header of a GET or a HEAD is kept as it came.                *)
ReqParse(named, lines) ==
    IF ~ ReqNoBody(named) \/ named.noHTTP11
    THEN [ReqParseHeaders(named, lines) EXCEPT !.rawHeadersParsed = TRUE]
    ELSE [named EXCEPT !.rawHeaders = lines]

(* ... and what is left of it when its end has not arrived.                *)
ReqParsePart(named, lines) ==
    IF ~ ReqNoBody(named) \/ named.noHTTP11
    THEN [FoldLeft(ReqHeaderLine, named, lines) EXCEPT !.connectionClose = TRUE]
    ELSE named

(* headerScanner and readRawHeaders: the lines before the empty one, if it *)
(* is there.                                                               *)
EndsAt(b) == {i \in DOMAIN b : b[i][1] = "end"}
HeaderLines(b) == SubSeq(b, 2, Min(EndsAt(b)) - 1)

(* One attempt on the bytes that have arrived.                             *)
ReqTryRead(hd, b) ==
    LET fresh == ReqReset(hd)
    IN  IF b = <<>> THEN [status |-> "more", hd |-> fresh, used |-> 0]
        ELSE IF b[1][1] # "request" THEN [status |-> "bad", hd |-> fresh, used |-> 0]
        ELSE IF EndsAt(b) = {}
             THEN [status |-> "more", hd |-> ReqParsePart(ReqFirstLine(fresh, b[1]), Tail(b)), used |-> 0]
        ELSE [status |-> "ok", hd |-> ReqParse(ReqFirstLine(fresh, b[1]), HeaderLines(b)),
              used |-> Min(EndsAt(b))]

(* Header.Read: again with more bytes until the header is complete.        *)
ReqReadOn(early, b) == IF early.status = "more" THEN ReqTryRead(early.hd, b) ELSE early
ReqRead(hd, b, first) == ReqReadOn(ReqTryRead(hd, SubSeq(b, 1, first)), b)

(* collectCookies: Cookie lines become pairs.                              *)
CollectCookies(hd) ==
    IF hd.cookiesCollected THEN hd
    ELSE [hd EXCEPT !.cookiesCollected = TRUE,
                    !.cookies = @ \o FlattenSeq(ValuesOf(hd.h, "Cookie")),
                    !.h = SelectSeq(@, LAMBDA p : p[1] # "Cookie")]

ReqHost(hd) == IF hd.host # "" THEN hd
               ELSE IF ~ hd.rawHeadersParsed /\ HasArg([i \in DOMAIN hd.rawHeaders |->
                            <<hd.rawHeaders[i][2], hd.rawHeaders[i][3]>>], "Host")
                    THEN [hd EXCEPT !.host = hd.rawHeaders[Min({i \in DOMAIN hd.rawHeaders :
                                                     hd.rawHeaders[i][2] = "Host"})][3]]
               ELSE ParseRaw(hd)

(* ContentLength, SetContentLength *)
ReqContentLength(hd) == IF ReqNoBody(hd) THEN 0 ELSE ParseRaw(hd).contentLength

ReqSetContentLength(hd, n) ==
    [ParseRaw(hd) EXCEPT !.contentLength = n,
                         !.contentLengthBytes = IF n >= 0 THEN ToString(n) ELSE "",
                         !.h = IF n >= 0 THEN DelAllArgs(@, "Transfer-Encoding")
                               ELSE SetArg(@, "Transfer-Encoding", "chunked")]

(* SetConnectionClose does not look at raw headers, Reset... does.         *)
ReqSetConnectionClose(hd) == [hd EXCEPT !.connectionClose = TRUE]

ReopenConnection(p) ==
    IF p.connectionClose
    THEN [p EXCEPT !.connectionClose = FALSE, !.h = DelAllArgs(@, "Connection")]
    ELSE p

ReqResetConnectionClose(hd) == ReopenConnection(ParseRaw(hd))

ReqSetContentType(hd, v) == [ParseRaw(hd) EXCEPT !.contentType = v]
ReqSetHost(hd, v) == [ParseRaw(hd) EXCEPT !.host = v]
ReqSetRequestURI(hd, t) == [hd EXCEPT !.requestURI = t]

(* SetCanonical *)
SetParsed(p, k, v) ==
    CASE k = "Host"         -> [p EXCEPT !.host = v]
      [] k = "Content-Type" -> [p EXCEPT !.contentType = v]
      [] k = "User-Agent"   -> [p EXCEPT !.userAgent = v]
      [] k = "Cookie"       -> [CollectCookies(p) EXCEPT !.cookies = @ \o v]
      [] k = "Content-Length" ->
           IF ParseLength(v) = -2 THEN p
           ELSE [p EXCEPT !.contentLength = ParseLength(v), !.contentLengthBytes = v]
      [] k = "Connection" ->
           IF v = "close" THEN ReqSetConnectionClose(p)
           ELSE [ReopenConnection(p) EXCEPT !.h = SetArg(@, k, v)]
      [] k = "Transfer-Encoding" -> p
      [] OTHER -> [p EXCEPT !.h = SetArg(@, k, v)]

ReqSet(hd, k, v) == SetParsed(ParseRaw(hd), k, v)

(* Add does not look at raw headers. *)
ReqAdd(hd, k, v) == [hd EXCEPT !.h = AppendArg(@, k, v)]

ReqDel(hd, k) ==
    [ParseRaw(hd) EXCEPT !.host = IF k = "Host" THEN "" ELSE @,
                         !.contentType = IF k = "Content-Type" THEN "" ELSE @,
                         !.userAgent = IF k = "User-Agent" THEN "" ELSE @,
                         !.cookies = IF k = "Cookie" THEN <<>> ELSE @,
                         !.contentLength = IF k = "Content-Length" THEN 0 ELSE @,
                         !.contentLengthBytes = IF k = "Content-Length" THEN "" ELSE @,
                         !.connectionClose = IF k = "Connection" THEN FALSE ELSE @,
                         !.h = DelAllArgs(@, k)]

(* SetCookie, DelCookie, DelAllCookies *)
ReqSetCookie(hd, k, v) == [CollectCookies(ParseRaw(hd)) EXCEPT !.cookies = SetArg(@, k, v)]
ReqDelCookie(hd, k) == [CollectCookies(ParseRaw(hd)) EXCEPT !.cookies = DelAllArgs(@, k)]
ReqDelAllCookies(hd) == [CollectCookies(ParseRaw(hd)) EXCEPT !.cookies = <<>>]

(* peek *)
PeekParsed(p, k) ==
    CASE k = "Host"           -> p.host
      [] k = "Content-Type"   -> p.contentType
      [] k = "User-Agent"     -> p.userAgent
      [] k = "Connection"     -> IF p.connectionClose THEN "close" ELSE PeekArg(p.h, k)
      [] k = "Content-Length" -> p.contentLengthBytes
      [] OTHER                -> PeekArg(p.h, k)

ReqPeek(hd, k) == PeekParsed(ParseRaw(hd), k)

(* AppendBytes *)
Optional(k, v) == IF v = "" THEN <<>> ELSE <<Line(k, v)>>
ArgLines(h) == [i \in DOMAIN h |-> Line(h[i][1], h[i][2])]

ReqAppendBytes(hd) ==
    <<<<"request", Method(hd), hd.requestURI, "HTTP/1.1">>>> \o
    (IF ~ hd.rawHeadersParsed /\ hd.rawHeaders # <<>> THEN hd.rawHeaders
     ELSE LET type == IF ~ ReqNoBody(hd) /\ hd.contentType = "" THEN "form" ELSE hd.contentType
          IN  <<Line("User-Agent", IF hd.userAgent = "" THEN "fasthttp" ELSE hd.userAgent)>>
              \o Optional("Host", ReqHost(hd).host)
              \o Optional("Content-Type", type)
              \o (IF ReqNoBody(hd) THEN <<>>
                  ELSE Optional("Content-Length", hd.contentLengthBytes))
              \o ArgLines(hd.h)
              \o (IF hd.cookies = <<>> THEN <<>> ELSE <<Line("Cookie", hd.cookies)>>)
              \o (IF hd.connectionClose THEN <<Line("Connection", "close")>> ELSE <<>>))
    \o <<<<"end">>>>
=============================================================================
