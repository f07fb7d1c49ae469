------------------------------ MODULE HttpBody ------------------------------
(***************************************************************************)
(* Request and Response of http.go: a header with a body, how both are     *)
(* written as tokens and read from them.  A body is a sequence of bytes.   *)
(* "stream" is empty or holds what the body stream will yield; "form" is   *)
(* empty or holds the content of a multipart form that was read into       *)
(* memory, whose encoding puts a boundary before and behind it.            *)
(***************************************************************************)
EXTENDS HttpRespHeader

Boundary == "--"

NewRequest == [hd |-> NewReq, uri |-> NoURI, parsedURI |-> FALSE,
               body |-> <<>>, stream |-> <<>>, form |-> <<>>]

NewResponse == [hd |-> NewResp, skip |-> FALSE, body |-> <<>>, stream |-> <<>>]

-----------------------------------------------------------------------------
(* Reading bodies.  A result has a status ("ok", "bad", "large" for        *)
(* ErrBodyTooLarge, "wait" when more would have to arrive), the body and   *)
(* the number of tokens used.                                              *)
Result(status, body, used) == [status |-> status, body |-> body, used |-> used]

ByteOf(t) == IF t[1] = "byte" THEN t[2] ELSE "?"

(* appendBodyFixedSize *)
ReadFixed(b, n, eof) ==
    IF Len(b) >= n THEN Result("ok", [i \in 1 .. n |-> ByteOf(b[i])], n)
    ELSE Result(IF eof THEN "bad" ELSE "wait", <<>>, Len(b))

TooLarge(n, max) == max > 0 /\ n > max

(* readBodyChunked: sizes, bytes, line ends; a chunk of size 0 is the last. *)
ReadChunk(r, b, max, eof) ==
    LET rest == SubSeq(b, r.used + 1, Len(b))
        size == rest[1][2]
        data == ReadFixed(Tail(rest), size + 1, eof)
    IN  IF rest = <<>> THEN Result(IF eof THEN "bad" ELSE "wait", r.body, r.used)
        ELSE IF rest[1][1] # "chunk" THEN Result("bad", r.body, r.used)
        ELSE IF TooLarge(Len(r.body) + size, max) THEN Result("large", r.body, r.used)
        ELSE IF data.status # "ok" THEN Result(data.status, r.body, r.used)
        ELSE IF rest[size + 2] # <<"crlf">> THEN Result("bad", r.body, r.used)
        ELSE Result(IF size = 0 THEN "ok" ELSE "more", r.body \o Front(data.body),
                    r.used + size + 2)

ReadChunked(b, max, eof) ==
    LET r[n \in 0 .. Len(b) + 1] ==
            IF n = 0 THEN Result("more", <<>>, 0)
            ELSE LET so_far == r[n - 1]
                 IN  IF so_far.status # "more" THEN so_far ELSE ReadChunk(so_far, b, max, eof)
    IN  r[Len(b) + 1]

(* readBodyIdentity: until the connection ends.                            *)
ReadIdentity(b, max, eof) ==
    IF TooLarge(Len(b), max) THEN Result("large", <<>>, Len(b))
    ELSE IF eof THEN Result("ok", [i \in DOMAIN b |-> ByteOf(b[i])], Len(b))
    ELSE Result("wait", <<>>, Len(b))

(* Mutant: the end of the connection ends a body of known size.            *)
ReadBodyUpTo(b, n, max, eof) ==
    IF n >= 0 /\ (Len(b) >= n \/ ~ eof) THEN ReadFixed(b, n, eof)
    ELSE IF n = -1 THEN ReadChunked(b, max, eof)
    ELSE ReadIdentity(b, max, eof)

ReadBody(b, n, max, eof) ==
    IF n >= 0 THEN IF TooLarge(n, max) THEN Result("large", <<>>, 0) ELSE ReadFixed(b, n, eof)
    ELSE IF n = -1 THEN ReadChunked(b, max, eof)
    ELSE ReadIdentity(b, max, eof)

-----------------------------------------------------------------------------
(* Request.                                                                *)

(* RemoveMultipartFormFiles, closeBodyStream, ResetBody, Reset             *)
DropBody(m) == [m EXCEPT !.body = <<>>, !.stream = <<>>, !.form = <<>>]
ResetSkipHeader(m) == [DropBody(m) EXCEPT !.uri = NoURI, !.parsedURI = FALSE]

(* MayContinue *)
MayContinue(m) == ReqPeek(m.hd, "Expect") = "100-continue"

(* readLimitBody up to the body: what is there to be read still.           *)
HeaderRead(m, r, eof, empty) ==
    [status |-> IF r.status = "more" THEN (IF eof THEN "bad" ELSE "wait") ELSE r.status,
     msg |-> [m EXCEPT !.hd = IF r.status = "ok" THEN r.hd ELSE empty],
     used |-> r.used]

ReadRequestHeader(m, b, first, eof) ==
    HeaderRead(ResetSkipHeader(m), ReqRead(m.hd, b, first), eof, NewReq)

IsMultipart(hd) == ParseRaw(hd).contentType = "multipart"

(* readMultipartForm of a body of known length.                            *)
Framed(body) == Len(body) >= 2 /\ Head(body) = Boundary /\ Last(body) = Boundary

FormRead(m, r) ==
    IF r.status = "ok" /\ Framed(r.body)
    THEN [status |-> "ok", used |-> r.used,
          msg |-> [m EXCEPT !.form = <<SubSeq(r.body, 2, Len(r.body) - 1)>>]]
    ELSE [status |-> IF r.status = "ok" THEN "bad" ELSE r.status, used |-> r.used,
          msg |-> NewRequest]

(* ContinueReadBody *)
BodyRead(m, r) ==
    IF r.status # "ok" THEN [status |-> r.status, msg |-> NewRequest, used |-> r.used]
    ELSE [status |-> "ok", used |-> r.used,
          msg |-> [m EXCEPT !.body = r.body, !.hd = ReqSetContentLength(@, Len(r.body))]]

ContinueSized(m, n, b, max, eof) ==
    IF n > 0 /\ TooLarge(n, max) THEN [status |-> "large", msg |-> m, used |-> 0]
    ELSE IF n > 0 /\ IsMultipart(m.hd) /\ ReqPeek(m.hd, "Content-Encoding") = ""
    THEN FormRead(m, ReadFixed(b, n, eof))
    ELSE IF n = -2 THEN BodyRead(m, Result("ok", <<>>, 0))
    ELSE BodyRead(m, ReadBody(b, n, max, eof))

ContinueReadBody(m, b, max, eof) == ContinueSized(m, ReqContentLength(m.hd), b, max, eof)

(* URI, parseURI *)
WithURI(m) == IF m.parsedURI THEN m
              ELSE [m EXCEPT !.parsedURI = TRUE, !.uri = ParseURI(m.hd.requestURI, TRUE)]

HostFrom(m, hd) == [m EXCEPT !.hd = hd, !.uri = UriHost(@, hd.host)]
HostIn(m) == IF m.uri.host = "" /\ m.uri.fromHeader THEN HostFrom(m, ReqHost(m.hd)) ELSE m
WithURIHost(m) == HostIn(WithURI(m))

(* SetRequestURI, SetHost, and the header's own setters beside them.       *)
SetRequestURI(m, t) == [m EXCEPT !.hd = ReqSetRequestURI(@, t), !.parsedURI = FALSE]
SetHost(m, host) == [WithURI(m) EXCEPT !.uri = UriSetHost(@, host)]

(* onlyMultipartForm *)
OnlyForm(m) == m.form # <<>> /\ m.body = <<>>

(* Body: what the body is when somebody looks at it; a stream is drained.  *)
BodyBytes(m) == IF OnlyForm(m) THEN <<Boundary>> \o m.form[1] \o <<Boundary>> ELSE m.body
DrainStream(m) == IF m.stream = <<>> THEN m
                  ELSE [m EXCEPT !.body = m.stream[1].data, !.stream = <<>>]

SetBody(m, body) == [DropBody(m) EXCEPT !.body = body]
AppendBody(m, body) == [m EXCEPT !.body = @ \o body, !.stream = <<>>, !.form = <<>>]
SwapBody(m, body) == [m EXCEPT !.body = body, !.stream = <<>>]

SetBodyStream(m, data, size, limited) ==
    [DropBody(m) EXCEPT !.stream = <<[data |-> data, limited |-> limited]>>,
                        !.hd = ReqSetContentLength(@, size)]

(* CopyTo, copyToSkipBody: neither the stream nor the form is copied.      *)
CopyRequest(m) == [m EXCEPT !.stream = <<>>, !.form = <<>>]

-----------------------------------------------------------------------------
(* Writing.  A result has a status ("ok", "error") and the tokens that     *)
(* were sent before the connection is given up in case of an error.        *)
Sent(status, out) == [status |-> status, out |-> out]

Bytes(data) == [i \in DOMAIN data |-> <<"byte", data[i]>>]

(* writeBodyChunked: as many chunks as the stream is read in.              *)
Chunked(data) ==
    FlattenSeq([i \in DOMAIN data |-> <<<<"chunk", 1>>, <<"byte", data[i]>>, <<"crlf">>>>])
    \o <<<<"chunk", 0>>, <<"crlf">>>>

(* writeBodyFixedSize *)
FixedStatus(data, size) == IF Len(data) = size THEN "ok" ELSE "error"

(* A stream of unknown size behind a limit has that size.                  *)
StreamSize(n, stream) == IF n < 0 /\ stream.limited THEN Len(stream.data) ELSE n

StreamBody(data, size) == IF size >= 0 THEN Bytes(data) ELSE Chunked(data)
StreamStatus(data, size) == IF size >= 0 THEN FixedStatus(data, size) ELSE "ok"
AsLength(size) == IF size < 0 THEN -1 ELSE size

WriteRequestStream(m) ==
    LET s == m.stream[1]
        Sized(n, size) ==
            Sent(StreamStatus(s.data, size),
                 ReqAppendBytes(IF size # n \/ size < 0 THEN ReqSetContentLength(m.hd, AsLength(size))
                                ELSE m.hd)
                 \o StreamBody(s.data, size))
        Announced(n) == Sized(n, StreamSize(n, s))
    IN  Announced(ReqContentLength(m.hd))

(* Request.Write *)
TargetFromURI(m) ==
    [m EXCEPT !.hd = ReqSetRequestURI(ReqSetHost(@, m.uri.host), UriRequestURI(m.uri))]

WithTarget(m) ==
    IF ReqHost(m.hd).host # "" /\ ~ m.parsedURI THEN [m EXCEPT !.hd = ReqHost(@)]
    ELSE TargetFromURI(WithURIHost(m))

WriteBuffered(hd, body) ==
    IF ~ ReqNoBody(hd)
    THEN Sent("ok", ReqAppendBytes(ReqSetContentLength(hd, Len(body))) \o Bytes(body))
    ELSE Sent(IF body = <<>> THEN "ok" ELSE "error", ReqAppendBytes(hd))

WriteTargeted(m) ==
    IF m.hd.host = "" THEN Sent("error", <<>>)
    ELSE IF m.stream # <<>> THEN WriteRequestStream(m)
    ELSE WriteBuffered(IF OnlyForm(m) THEN ReqSetContentType(m.hd, "multipart") ELSE m.hd,
                       BodyBytes(m))

WriteRequest(m) == WriteTargeted(WithTarget(m))

-----------------------------------------------------------------------------
(* Response.                                                               *)
RespDropBody(m) == [m EXCEPT !.body = <<>>, !.stream = <<>>]

(* mustSkipBody *)
MustSkipBody(m) == m.skip \/ MustSkipContentLength(m.hd)

(* ReadLimitBody: a "100 Continue" before the response is passed over.     *)
PassContinue(r, b) ==
    IF r.status = "ok" /\ StatusCode(r.hd) = 100
    THEN [RespTryRead(r.hd, SubSeq(b, r.used + 1, Len(b))) EXCEPT !.used = @ + r.used]
    ELSE r

ReadResponseHeader(m, b, first, eof) ==
    HeaderRead(RespDropBody(m), PassContinue(RespRead(m.hd, b, first), b), eof, NewResp)

RespBodyRead(m, r) ==
    IF r.status # "ok" THEN [status |-> r.status, msg |-> NewResponse, used |-> r.used]
    ELSE [status |-> "ok", used |-> r.used,
          msg |-> [m EXCEPT !.body = r.body, !.hd = RespSetContentLength(@, Len(r.body))]]

ReadResponseBody(m, b, max, eof) ==
    IF MustSkipBody(m) THEN [status |-> "ok", msg |-> m, used |-> 0]
    ELSE RespBodyRead(m, ReadBody(b, m.hd.contentLength, max, eof))

RespSetBody(m, body) == [m EXCEPT !.body = body, !.stream = <<>>]
RespAppendBody(m, body) == [m EXCEPT !.body = @ \o body, !.stream = <<>>]

RespSetBodyStream(m, data, size, limited) ==
    [m EXCEPT !.body = <<>>, !.stream = <<[data |-> data, limited |-> limited]>>,
              !.hd = RespSetContentLength(@, size)]

(* gzipBody: once, of a buffer or of a stream, whose size is not known any *)
(* more; and its twin for deflate.                                         *)
Compress(m, enc) ==
    IF PeekArg(m.hd.h, "Content-Encoding") # "" THEN m
    ELSE LET s == m.stream[1]
         IN  [m EXCEPT !.body = IF m.stream = <<>> THEN <<enc>> \o @ ELSE @,
                       !.stream = IF m.stream = <<>> THEN @
                                  ELSE <<[data |-> <<enc>> \o s.data, limited |-> FALSE]>>,
                       !.hd = RespSet(@, "Content-Encoding", enc)]

CopyResponse(m) == [m EXCEPT !.stream = <<>>]

WriteResponseStream(m, sendBody) ==
    LET n == m.hd.contentLength
        s == m.stream[1]
        Sized(size) ==
            Sent(IF sendBody THEN StreamStatus(s.data, size) ELSE "ok",
                 RespAppendBytes(IF size # n \/ size < 0 THEN RespSetContentLength(m.hd, AsLength(size))
                                 ELSE m.hd)
                 \o (IF sendBody THEN StreamBody(s.data, size) ELSE <<>>))
    IN  Sized(StreamSize(n, s))

(* Response.Write *)
WriteResponse(m) ==
    LET send == ~ MustSkipBody(m)
        hd == IF send \/ m.body # <<>> THEN RespSetContentLength(m.hd, Len(m.body)) ELSE m.hd
    IN  IF m.stream # <<>> THEN WriteResponseStream(m, send)
        ELSE Sent("ok", RespAppendBytes(hd) \o (IF send THEN Bytes(m.body) ELSE <<>>))
=============================================================================
