---------------------------- MODULE HttpMessage ----------------------------
(***************************************************************************)
(* A program in the middle: it reads a request (or a response) that a      *)
(* legal peer sent, changes it through the methods of Request and          *)
(* RequestHeader (Response and ResponseHeader), writes it, and a second    *)
(* program reads it with the same code.  "want" is the message as the      *)
(* calls should have left it: what a header is when it is nothing but a    *)
(* header.  The objects are reused from message to message.                *)
(*                                                                         *)
(* Careless is the set of call patterns that the code does not carry       *)
(* through and that the passing instance avoids (see Careful below).       *)
(***************************************************************************)
EXTENDS HttpBody

CONSTANTS
    Sides,       \* subset of {"request", "response"}
    Requests,    \* abstract requests that peers send
    Responses,   \* abstract responses that peers send
    Bodies,      \* what the program sets as a body
    Paths,       \* and as a path
    MaxCalls,    \* bound: calls on one message
    MaxBodySize, \* the limit given to ReadLimitBody, 0 for none
    Careless

ASSUME MessageAssumption == MaxCalls \in Nat /\ MaxBodySize \in Nat
                            /\ Sides \subseteq {"request", "response"}

VARIABLES
    side,    \* which kind of message is under way
    phase,   \* "idle", "arrived", "expect", "app", "sent", "seen", "failed"
    head,    \* the response answers a HEAD request
    whole,   \* the peer sent its message to the end
    eof,     \* the peer closed the connection behind it
    in,      \* what arrived and was not read yet
    want,    \* the message that should come out
    msg,     \* the Request or Response of the program in the middle
    calls,
    sent,    \* result of Write: status and tokens
    seen     \* what the second program made of it

vars == <<side, phase, head, whole, eof, in, want, msg, calls, sent, seen>>

None == [status |-> "none"]

-----------------------------------------------------------------------------
(* Legal peers.  The body of a message is announced by its length, sent in *)
(* chunks, or, for a response, ended by the close of the connection.       *)
BodyLines(framing, body) ==
    CASE framing = "length"  -> <<Line("Content-Length", ToString(Len(body)))>>
      [] framing = "chunked" -> <<Line("Transfer-Encoding", "chunked")>>
      [] OTHER               -> <<>>

BodyTokens(framing, body) == IF framing = "chunked" THEN Chunked(body) ELSE Bytes(body)

HeadOf(w) ==
    Optional("Host", w.host) \o Optional("Content-Type", w.type)
    \o [i \in DOMAIN w.x |-> Line("X", w.x[i])]
    \o (IF w.conn = "" \/ (w.conn = "close" /\ w.proto = "HTTP/1.0") THEN <<>>
        ELSE <<Line("Connection", w.conn)>>)

EmitRequest(w) ==
    <<<<"request", w.method, w.target, w.proto>>>> \o HeadOf(w)
    \o [i \in DOMAIN w.cookies |-> Line("Cookie", <<w.cookies[i]>>)]
    \o (IF w.expect THEN <<Line("Expect", "100-continue")>> ELSE <<>>)
    \o BodyLines(w.framing, w.body) \o <<<<"end">>>> \o BodyTokens(w.framing, w.body)

(* The peer may have its own order, quotes and spaces, but writes the names *)
(* of attributes as this parser expects them.                              *)
PeerCookie(c) ==
    c.key \o <<" ", "=">> \o (IF Contains(c.value, " ") THEN <<"\"">> \o c.value \o <<"\"">> ELSE c.value)
    \o (IF c.secure THEN <<";", "secure">> ELSE <<>>)
    \o (IF c.path = <<>> THEN <<>> ELSE <<";", "path", "=">> \o c.path)
    \o (IF c.expire = Unlimited THEN <<>> ELSE <<" ", ";", "expires", "=", c.expire>>)
    \o (IF c.domain = <<>> THEN <<>> ELSE <<";", " ", "x", "=", "y", ";", "domain", "=">> \o c.domain)

Bodyless(w, toHead) == toHead \/ w.status \in {204, 304}

(* The answer to a HEAD, and some others, announce a body and send none.   *)
EmitResponse(w, toHead) ==
    (IF w.continued THEN <<<<"status", 100, "HTTP/1.1">>, <<"end">>>> ELSE <<>>)
    \o <<<<"status", w.status, w.proto>>>> \o HeadOf(w)
    \o [i \in DOMAIN w.cookies |-> Line("Set-Cookie", PeerCookie(w.cookies[i]))]
    \o BodyLines(w.framing, w.body) \o <<<<"end">>>>
    \o (IF Bodyless(w, toHead) THEN <<>> ELSE BodyTokens(w.framing, w.body))

(* Dot segments resolved one by one, with a stack.                         *)
Resolved(path) ==
    LET pop(stack) == IF stack = <<>> THEN <<>> ELSE Front(stack)
        step(stack, s) == CASE s \in {"", "."} -> stack
                            [] s = ".." -> pop(stack)
                            [] OTHER -> Append(stack, s)
        dir == FoldLeft(step, <<>>, Front(path))
    IN  IF Last(path) = ".." THEN Append(pop(dir), "") ELSE Append(dir, Last(path))

(* What follows on a connection that stays open.                           *)
NextUp == <<"next">>

-----------------------------------------------------------------------------
(* The objects as a message with everything in it left them.               *)
UsedRequest ==
    LET fields == <<Line("Host", "old"), Line("User-Agent", "old"), Line("Content-Type", "multipart"),
                   Line("X", "old"), Line("Cookie", <<<<"old", "old">>>>), Line("Connection", "close")>>
        hd == CollectCookies([ReqParse(ReqFirstLine(NewReq, <<"request", "POST", Root, "HTTP/1.0">>),
                                       fields)
                              EXCEPT !.contentLength = 3, !.contentLengthBytes = "3"])
    IN  [WithURI([NewRequest EXCEPT !.hd = hd]) EXCEPT !.form = <<<<"old">>>>]

UsedResponse ==
    [NewResponse EXCEPT !.body = <<"old">>, !.skip = TRUE,
        !.hd = RespParseHeaders(RespFirstLine(NewResp, <<"status", 304, "HTTP/1.0">>),
                  <<Line("Content-Type", "old"), Line("X", "old"), Line("Connection", "close"),
                    Line("Set-Cookie", <<"old", "=", "old">>)>>)]

Init ==
    /\ side \in Sides
    /\ phase = "idle"
    /\ msg = IF side = "request" THEN NewRequest ELSE NewResponse
    /\ head = FALSE /\ whole = TRUE /\ eof = FALSE /\ in = <<>>
    /\ want = None /\ calls = 0 /\ sent = None /\ seen = None

(* A peer sends a message, or part of one and closes.                      *)
Deliver(w, toHead, tokens, closes) ==
    /\ phase = "idle"
    /\ head' = toHead
    /\ want' = w
    /\ \/ /\ whole' = TRUE /\ eof' = closes
          /\ in' = IF closes THEN tokens ELSE Append(tokens, NextUp)
       \/ \E n \in 0 .. Len(tokens) - 1 :
             whole' = FALSE /\ eof' = TRUE /\ in' = SubSeq(tokens, 1, n)
    /\ phase' = "arrived"
    /\ UNCHANGED <<side, msg, calls, sent, seen>>

RequestArrives ==
    side = "request" /\ \E w \in Requests : Deliver(w, FALSE, EmitRequest(w), FALSE)

ResponseArrives ==
    /\ side = "response"
    /\ \E w \in Responses, toHead \in BOOLEAN :
          Deliver([w EXCEPT !.body = IF Bodyless(w, toHead) THEN <<>> ELSE @],
                  toHead, EmitResponse(w, toHead), w.framing = "identity")

-----------------------------------------------------------------------------
(* Reading.                                                                *)
Rest(r) == SubSeq(in, r.used + 1, Len(in))

(* A reader that gives up closes the connection.                           *)
Take(r, then) ==
    /\ phase' = IF r.status = "ok" THEN then ELSE "failed"
    /\ seen' = IF r.status = "ok" THEN None ELSE [status |-> r.status]
    /\ msg' = r.msg
    /\ in' = Rest(r)
    /\ UNCHANGED <<side, head, whole, eof, want, calls, sent>>

Onward(r, b) == [b EXCEPT !.used = @ + r.used]
ContinueOn(r) == Onward(r, ContinueReadBody(r.msg, Rest(r), MaxBodySize, eof))

(* readLimitBody; the header may come in two parts.                        *)
ReadRequest ==
    /\ side = "request" /\ phase = "arrived"
    /\ \E first \in 0 .. Len(in) :
       \E r \in {ReadRequestHeader(msg, in, first, eof)} :
         IF r.status # "ok" \/ ReqNoBody(r.msg.hd) THEN Take(r, "app")
         ELSE IF MayContinue(r.msg) THEN Take(r, "expect")
         ELSE Take(ContinueOn(r), "app")

(* The program sent "100 Continue" and goes on with the body.              *)
ContinueRequest ==
    /\ side = "request" /\ phase = "expect"
    /\ Take(ContinueReadBody(msg, in, MaxBodySize, eof), "app")

ReadResponse ==
    /\ side = "response" /\ phase = "arrived"
    /\ \E first \in 0 .. Len(in) :
       \E r \in {ReadResponseHeader([msg EXCEPT !.skip = head], in, first, eof)} :
         IF r.status # "ok" THEN Take(r, "app")
         ELSE Take(Onward(r, ReadResponseBody(r.msg, Rest(r), MaxBodySize, eof)), "app")

-----------------------------------------------------------------------------
(* Calls on the message.  Each says what it does to the object and what it *)
(* means: the message that should come out.                                *)
Careful(pattern, holds) == pattern \in Careless \/ holds

Twice(h, k) == \E i \in 1 .. Len(h) - 1 : h[i][1] = k /\ h[i + 1][1] = k

Call(m, w) ==
    /\ calls' = calls + 1 /\ msg' = m /\ want' = w
    /\ UNCHANGED <<side, phase, head, whole, eof, in, sent, seen>>

(* Set replaces the first value.                                           *)
FirstSet(s, v) == IF s = <<>> THEN <<v>> ELSE [s EXCEPT ![1] = v]

SetField ==
    \E k \in {"X", "Content-Type", "Connection"} :
      \E v \in IF k = "Connection" THEN {"close", "keep-alive"} ELSE {"new"} :
         LET w == CASE k = "X"            -> [want EXCEPT !.x = FirstSet(@, v)]
                    [] k = "Content-Type" -> [want EXCEPT !.type = v]
                    [] k = "Connection"   -> [want EXCEPT !.conn = v]
         IN  IF side = "request"
             THEN /\ k = "Content-Type" => Careful("form", ~ OnlyForm(msg))
                  /\ Call([msg EXCEPT !.hd = ReqSet(@, k, v)], w)
             ELSE Call([msg EXCEPT !.hd = RespSet(@, k, v)], w)

AddField ==
    LET w == [want EXCEPT !.x = Append(@, "new")]
    IN  IF side = "request"
        THEN /\ Careful("add", msg.hd.rawHeadersParsed)
             /\ Call([msg EXCEPT !.hd = ReqAdd(@, "X", "new")], w)
        ELSE Call([msg EXCEPT !.hd = RespAdd(@, "X", "new")], w)

(* Looking at any field has a request's raw header parsed.                 *)
PeekField ==
    /\ side = "request" /\ ~ msg.hd.rawHeadersParsed
    /\ Call([msg EXCEPT !.hd = ParseRaw(@)], want)

DelField ==
    \E k \in {"X", "Content-Type", "Connection"} :
      LET w == CASE k = "X"            -> [want EXCEPT !.x = <<>>]
                 [] k = "Content-Type" -> [want EXCEPT !.type = ""]
                 [] k = "Connection"   -> [want EXCEPT !.conn = ""]
      IN  IF side = "request"
          THEN /\ Careful("del", ~ Twice(ParseRaw(msg.hd).h, k))
               /\ Call([msg EXCEPT !.hd = ReqDel(@, k)], w)
          ELSE /\ Careful("del", ~ Twice(msg.hd.h, k))
               /\ Call([msg EXCEPT !.hd = RespDel(@, k)], w)

CookieList == IF side = "request" THEN CollectCookies(ParseRaw(msg.hd)).cookies
              ELSE msg.hd.cookies

Others(pairs, k) == SelectSeq(pairs, LAMBDA p : p[1] # k)

(* The first of those called c becomes this one, or it is added.           *)
WithCookie(cookies, found, c) ==
    IF found = {} THEN Append(cookies, c) ELSE [cookies EXCEPT ![Min(found)] = c]

SetRequestCookie ==
    /\ side = "request"
    /\ Call([msg EXCEPT !.hd = ReqSetCookie(@, "c", "new")],
            [want EXCEPT !.cookies = WithCookie(@, {i \in DOMAIN @ : @[i][1] = "c"}, <<"c", "new">>)])

TheCookie == <<"c">>
NamedC == [NewCookie EXCEPT !.key = TheCookie]

SetResponseCookie ==
    /\ side = "response"
    /\ \E path \in Paths :
         LET c == [NamedC EXCEPT !.value = <<"new">>, !.httpOnly = TRUE]
         IN  Call([msg EXCEPT !.hd = RespSetCookie(@, CookieSetPath(c, path))],
                  [want EXCEPT !.cookies = WithCookie(@, {i \in DOMAIN @ : @[i].key = TheCookie},
                                               [c EXCEPT !.path = PathText(Resolved(path))])])

(* Cookie, a setter of Cookie, and SetCookie.                              *)
Changed(c, what) ==
    CASE what = "value"  -> [c EXCEPT !.value = <<"1", "=", "2">>]
      [] what = "secure" -> [c EXCEPT !.secure = TRUE]
      [] what = "expire" -> [c EXCEPT !.expire = "future"]

ChangeCookie ==
    /\ side = "response" /\ HasArg(msg.hd.cookies, TheCookie)
    /\ \E what \in {"value", "secure", "expire"} :
         LET first == Min({i \in DOMAIN want.cookies : want.cookies[i].key = TheCookie})
         IN  Call([msg EXCEPT !.hd = RespSetCookie(@, Changed(RespCookie(@, TheCookie), what))],
                  [want EXCEPT !.cookies[first] = Changed(@, what)])

DelCookie ==
    \/ /\ side = "request" /\ Careful("del", ~ Twice(CookieList, "c"))
       /\ Call([msg EXCEPT !.hd = ReqDelCookie(@, "c")], [want EXCEPT !.cookies = Others(@, "c")])
    \/ /\ side = "response" /\ Careful("del", ~ Twice(CookieList, TheCookie))
       /\ LET left == SelectSeq(want.cookies, LAMBDA c : c.key # TheCookie)
          IN  \/ Call([msg EXCEPT !.hd = RespDelCookie(@, TheCookie)], [want EXCEPT !.cookies = left])
              \/ Call([msg EXCEPT !.hd = RespDelClientCookie(@, TheCookie)],
                      [want EXCEPT !.cookies = Append(left, [NamedC EXCEPT !.expire = "past"])])

DelAllCookies ==
    IF side = "request"
    THEN \/ Call([msg EXCEPT !.hd = ReqDelAllCookies(@)], [want EXCEPT !.cookies = <<>>])
         \/ /\ Careful("del", ~ Twice(ParseRaw(msg.hd).h, "Cookie"))
            /\ Call([msg EXCEPT !.hd = ReqDel(@, "Cookie")], [want EXCEPT !.cookies = <<>>])
    ELSE Call([msg EXCEPT !.hd = RespDel(@, "Set-Cookie")], [want EXCEPT !.cookies = <<>>])

SetConnectionClose ==
    LET w == [want EXCEPT !.conn = "close"]
    IN  IF side = "request"
        THEN /\ Careful("close", msg.hd.rawHeadersParsed)
             /\ Call([msg EXCEPT !.hd = ReqSetConnectionClose(@)], w)
        ELSE Call([msg EXCEPT !.hd = RespSetConnectionClose(@)], w)

ResetConnectionClose ==
    LET w == [want EXCEPT !.conn = IF @ = "close" THEN "" ELSE @]
    IN  Call([msg EXCEPT !.hd = IF side = "request" THEN ReqResetConnectionClose(@)
                                ELSE RespResetConnectionClose(@)], w)

(* The header's own setters, which a URI that was parsed before overrides. *)
HeaderSetHost ==
    /\ side = "request" /\ Careful("direct", ~ msg.parsedURI)
    /\ want.target.host = ""
    /\ Call([msg EXCEPT !.hd = ReqSetHost(@, "new")], [want EXCEPT !.host = "new"])

HeaderSetRequestURI ==
    /\ side = "request" /\ Careful("direct", ~ msg.parsedURI)
    /\ \E p \in Paths : LET t == Target("", p, <<<<"q", "new">>>>)
                        IN  Call([msg EXCEPT !.hd = ReqSetRequestURI(@, t)],
                                 [want EXCEPT !.target = t])

RequestSetRequestURI ==
    /\ side = "request"
    /\ Careful("target", ~ msg.parsedURI \/ msg.uri.host \in {"", msg.hd.host})
    /\ \E p \in Paths : LET t == Target("", p, <<>>)
                        IN  Call(SetRequestURI(msg, t), [want EXCEPT !.target = t])

(* Request.SetHost, and the methods of URI.                                *)
RequestSetHost ==
    /\ side = "request"
    /\ Call(SetHost(msg, "new"), [want EXCEPT !.host = "new", !.target.host = ""])

UriCall(p, u, t) == Call([p EXCEPT !.uri = u], [want EXCEPT !.target = t])

SetPath ==
    /\ side = "request"
    /\ \E m \in {WithURIHost(msg)}, path \in Paths :
          UriCall(m, UriSetPath(m.uri, path), [want.target EXCEPT !.path = path])

SetQueryString ==
    /\ side = "request"
    /\ \E m \in {WithURIHost(msg)} :
         /\ Careful("query", m.uri.args = <<>>)
         /\ UriCall(m, UriSetQueryString(m.uri, <<<<"q", "new">>>>),
                    [want.target EXCEPT !.query = <<<<"q", "new">>>>])

(* QueryArgs().Set and QueryArgs().Del                                     *)
QueryArgsSet ==
    /\ side = "request"
    /\ \E m \in {WithURIHost(msg)} :
         UriCall(m, [UriQueryArgs(m.uri) EXCEPT !.args = SetArg(@, "q", "set")],
                 [want.target EXCEPT !.query = SetArg(@, "q", "set")])

QueryArgsDel ==
    /\ side = "request"
    /\ \E m \in {WithURIHost(msg)} :
       \E u \in {UriQueryArgs(m.uri)} :
         /\ Careful("query", Others(u.args, "q") # <<>> \/ u.query = <<>>)
         /\ Careful("del", ~ Twice(u.args, "q"))
         /\ UriCall(m, [u EXCEPT !.args = DelAllArgs(@, "q")],
                    [want.target EXCEPT !.query = Others(@, "q")])

(* URI().Update: a target with a host, an absolute path, a query, or a     *)
(* path relative to the last slash.                                        *)
UpdateURI ==
    /\ side = "request"
    /\ \E m \in {WithURIHost(msg)}, form \in {"host", "path", "query", "relative"} :
         LET new == Target(IF form = "host" THEN "v" ELSE "", <<"n", "..", "m">>, <<<<"q", "new">>>>)
             old == want.target
         IN  /\ form = "query" => Careful("query", m.uri.args = <<>>)
             /\ UriCall(m, UriUpdate(m.uri, form, new),
                   CASE form = "host"  -> new
                     [] form = "path"  -> [new EXCEPT !.host = old.host]
                     [] form = "query" -> [old EXCEPT !.query = new.query]
                     [] OTHER -> Target(old.host, Front(Resolved(old.path)) \o new.path, new.query))

-----------------------------------------------------------------------------
(* Bodies.  A GET, a HEAD and some responses have none.                    *)
HasBody == IF side = "request" THEN want.method = "POST" ELSE ~ head

Buffered == msg.stream = <<>> /\ (side = "request" => Careful("form", ~ OnlyForm(msg)))

(* What is said to be a form has to be one.                                *)
PutBody(m, body) ==
    /\ HasBody
    /\ side = "request" => Careful("form", ~ IsMultipart(msg.hd) \/ body = <<>>)
    /\ Call(m, [want EXCEPT !.body = body])

SetBodyTo ==
    \E body \in Bodies :
      IF side = "request" THEN PutBody(SetBody(msg, body), body)
      ELSE PutBody(RespSetBody(msg, body), body)

AppendToBody ==
    /\ Buffered
    /\ IF side = "request" THEN PutBody(AppendBody(msg, <<"new">>), Append(want.body, "new"))
       ELSE PutBody(RespAppendBody(msg, <<"new">>), Append(want.body, "new"))

ResetBody ==
    IF side = "request" THEN PutBody(DropBody(msg), <<>>) ELSE PutBody(RespDropBody(msg), <<>>)

SwapBodyTo ==
    /\ side = "request" => Careful("form", ~ OnlyForm(msg))
    /\ \E body \in Bodies : PutBody(SwapBody(msg, body), body)

(* A stream whose size is announced, rightly or one too high; not known;   *)
(* or not known but limited.                                               *)
SetBodyStreamTo ==
    \E body \in Bodies :
      \E how \in {"sized", "short", "unsized", "limited"} :
         LET size == CASE how = "sized" -> Len(body) [] how = "short" -> Len(body) + 1
                       [] OTHER -> -1
         IN  /\ (side = "response" => Careful("status", ~ MustSkipContentLength(msg.hd)))
             /\ IF side = "request" THEN PutBody(SetBodyStream(msg, body, size, how = "limited"), body)
                ELSE PutBody(RespSetBodyStream(msg, body, size, how = "limited"), body)

(* Body() *)
LookAtBody == msg.stream # <<>> /\ Call(DrainStream(msg), want)

SetStatusCode ==
    /\ side = "response" /\ Careful("status", msg.stream = <<>>)
    /\ \E code \in {200, 204, 304} :
          Call([msg EXCEPT !.hd = RespSetStatusCode(@, code)], [want EXCEPT !.status = code])

(* WriteGzip, WriteDeflate, before they write.                             *)
CompressBody ==
    /\ side = "response" /\ ~ head
    /\ Careful("gzip", msg.stream = <<>> \/ msg.hd.contentLength < 0)
    /\ \E enc \in {"gzip", "deflate"} :
         Call(Compress(msg, enc),
              IF want.enc = "" THEN [want EXCEPT !.enc = enc, !.body = <<enc>> \o @] ELSE want)

(* CopyTo, and on with the copy.                                           *)
CopyMessage ==
    /\ Buffered
    /\ Call(IF side = "request" THEN CopyRequest(msg) ELSE CopyResponse(msg), want)

-----------------------------------------------------------------------------
(* Writing, and reading again at the other end.                            *)
Write ==
    /\ phase = "app" /\ phase' = "sent"
    /\ sent' = IF side = "request" THEN WriteRequest(msg) ELSE WriteResponse(msg)
    /\ UNCHANGED <<side, head, whole, eof, in, want, msg, calls, seen>>

ReqView(hd, u, body) ==
    [method |-> Method(hd), host |-> u.host, path |-> u.path,
     query |-> UriQueryArgs(u).args, x |-> ValuesOf(hd.h, "X"), type |-> hd.contentType,
     conn |-> PeekParsed(hd, "Connection"), cookies |-> hd.cookies, body |-> body]

RespView(m) ==
    [status |-> StatusCode(m.hd), x |-> ValuesOf(m.hd.h, "X"), type |-> RespContentType(m.hd),
     conn |-> RespPeek(m.hd, "Connection"),
     cookies |-> [i \in DOMAIN m.hd.cookies |-> ParseCookie(m.hd.cookies[i][2]).cookie],
     enc |-> RespPeek(m.hd, "Content-Encoding"), body |-> m.body]

View(m) == IF side = "response" THEN RespView(m)
           ELSE ReqView(CollectCookies(ParseRaw(m.hd)), WithURIHost(m).uri, BodyBytes(m))

PeerReads ==
    LET wire == IF sent.status = "ok" THEN Append(sent.out, NextUp) ELSE sent.out
        closed == sent.status = "error"
        header == IF side = "request" THEN ReadRequestHeader(NewRequest, wire, 0, closed)
                  ELSE ReadResponseHeader([NewResponse EXCEPT !.skip = head], wire, 0, closed)
        message(r, rest) ==
            IF r.status # "ok" THEN r
            ELSE IF side = "response" THEN Onward(r, ReadResponseBody(r.msg, rest, 0, closed))
            ELSE IF ReqNoBody(r.msg.hd) THEN r
            ELSE Onward(r, ContinueReadBody(r.msg, rest, 0, closed))
    IN  /\ phase = "sent" /\ phase' = "seen"
        /\ \E r \in {header} : \E b \in {message(r, SubSeq(wire, r.used + 1, Len(wire)))} :
             seen' = IF b.status # "ok" THEN [status |-> "refused"]
                     ELSE [status |-> "ok", left |-> SubSeq(wire, b.used + 1, Len(wire)),
                           view |-> View(b.msg)]
        /\ UNCHANGED <<side, head, whole, eof, in, want, msg, calls, sent>>

(* The next message is read into this object again, or into one that held  *)
(* everything a message can hold.                                          *)
NextMessage ==
    /\ phase \in {"seen", "failed"} /\ phase' = "idle"
    /\ msg' = IF side = "request" THEN UsedRequest ELSE UsedResponse
    /\ head' = FALSE /\ whole' = TRUE /\ eof' = FALSE /\ in' = <<>>
    /\ want' = None /\ calls' = 0 /\ sent' = None /\ seen' = None
    /\ UNCHANGED side

CallIt ==
    \/ SetField \/ AddField \/ PeekField \/ DelField
    \/ SetRequestCookie \/ SetResponseCookie \/ ChangeCookie \/ DelCookie \/ DelAllCookies
    \/ SetConnectionClose \/ ResetConnectionClose
    \/ HeaderSetHost \/ HeaderSetRequestURI \/ RequestSetRequestURI \/ RequestSetHost
    \/ SetPath \/ SetQueryString \/ QueryArgsSet \/ QueryArgsDel \/ UpdateURI
    \/ SetBodyTo \/ AppendToBody \/ ResetBody \/ SwapBodyTo \/ SetBodyStreamTo \/ LookAtBody
    \/ SetStatusCode \/ CompressBody \/ CopyMessage

Next ==
    \/ RequestArrives \/ ResponseArrives
    \/ ReadRequest \/ ContinueRequest \/ ReadResponse
    \/ phase = "app" /\ calls < MaxCalls /\ CallIt
    \/ Write \/ PeerReads \/ NextMessage

Spec == Init /\ [][Next]_vars

-----------------------------------------------------------------------------
(* The answer to a HEAD that announces no length closes the connection,    *)
(* whatever else is said of it.                                            *)
WantView ==
    IF side = "request"
    THEN [method |-> want.method,
          host |-> IF want.target.host # "" THEN want.target.host ELSE want.host,
          path |-> Resolved(want.target.path), query |-> ParseArgs(want.target.query),
          x |-> want.x, type |-> IF want.type = "" THEN seen.view.type ELSE want.type,
          conn |-> want.conn, cookies |-> want.cookies, body |-> want.body]
    ELSE [status |-> want.status, x |-> want.x,
          type |-> IF want.type = "" THEN seen.view.type ELSE want.type,
          conn |-> IF head /\ want.status = 200 /\ msg.hd.contentLength = -2
                  THEN "close" ELSE want.conn,
          cookies |-> want.cookies, enc |-> want.enc,
          body |-> IF Bodyless(want, head) THEN <<>> ELSE want.body]

(* Whatever was called on it, a message that was written to the end is     *)
(* understood at the other end as the calls left it: nothing of an earlier *)
(* message, no field twice or missing, paths resolved.                     *)
ArrivesAsSet ==
    phase = "seen" /\ whole /\ sent.status = "ok" =>
        seen.status = "ok" /\ seen.view = WantView

(* Both readers stop exactly where the next message begins.                *)
StaysInFrame ==
    /\ phase = "app" => in = IF eof THEN <<>> ELSE <<NextUp>>
    /\ phase = "seen" /\ sent.status = "ok" /\ seen.status = "ok" => seen.left = <<NextUp>>

(* A message that was cut short, on its way in or because its stream was,  *)
(* is not taken for a whole one, unless nothing but the end of the         *)
(* connection ends it; nor is one accepted that is larger than the limit.  *)
CutShortIsRefused ==
    /\ phase = "app" => \/ whole
                        \/ side = "response" /\ want.framing = "identity"
    /\ phase = "app" /\ calls = 0 /\ (side = "response" => ~ Bodyless(want, head)) =>
          ~ TooLarge(Len(want.body), MaxBodySize)
    /\ phase = "seen" /\ sent.status = "error" => seen.status = "refused"

(* "WriteGzip writes response with gzipped body to w" (http.go), whatever  *)
(* the body was given as. False for a stream of known size, whose size     *)
(* stays announced (http.go:1189, 1123).                                   *)
CompressedArrives ==
    phase = "seen" /\ whole /\ want.enc # "" =>
        sent.status = "ok" /\ seen.status = "ok" /\ seen.view.body = WantView.body
=============================================================================
