------------------------------- MODULE Server -------------------------------
(* One connection after another through ServeConn and serveConn of             *)
(* router/fasthttp/server.go: the limits per address and in total, reading and *)
(* answering pipelined requests, handlers under TimeoutHandler, contexts that  *)
(* are pooled or given up to a late handler, hijacking, and closing.           *)
(*                                                                             *)
(* The stream of a client is counted in halves of requests: units 2n - 1 and   *)
(* 2n are request n, the first the header when the client expects to be told   *)
(* to go on. br, the reader of a connection, is nil just when it holds nothing *)
(* (between requests), so it is what was received and not yet used; bw is nil  *)
(* just when it is empty. A context that is neither pooled nor used by anybody *)
(* is garbage, and its identity serves as a new one. Time is not kept. A step  *)
(* is the code up to the next lock, atomic operation, channel operation, or    *)
(* call to the network. The answers to refused connections are left out.       *)
EXTENDS Integers, Sequences, FiniteSets, SequencesExt

CONSTANTS
    Conns,              \* connections, numbered as they arrive
    Ctxs,               \* the identities of RequestCtxs, numbers
    Wrappers,           \* the identities of perIPConns, numbers
    Settings,           \* the limits, and bounds on what clients and handlers do
    Nil

ASSUME SettingsAssumption ==
    \A s \in Settings :
        /\ {s.MaxConnsPerIP, s.Concurrency} \subseteq Nat \ {0}
        /\ s.MaxRequestsPerConn \in Nat        \* 0: no limit
        /\ s.clients \subseteq Conns /\ s.requests \in Nat
        /\ s.kinds \subseteq {"plain", "head", "close", "rawClose", "expect", "bad"}
        /\ s.outcomes \subseteq {"plain", "close", "hijack"}
ASSUME NumbersAssumption ==
    /\ Conns \cup Ctxs \cup Wrappers \subseteq Nat /\ Nil \notin Nat
    /\ IsFiniteSet(Conns) /\ IsFiniteSet(Ctxs) /\ IsFiniteSet(Wrappers)
    /\ Cardinality(Wrappers) >= Cardinality(Conns)     \* perIPConns are made as needed
    /\ \A s \in Settings : Nil \notin Conns \X (1..s.requests) \X s.kinds    \* nor a request

VARIABLES
    setting,                    \* one of Settings
    requested,                  \* how many requests were sent by anybody
    kinds, sent,                \* each client: its requests, units sent
    got, used,                  \* units received, units taken by the parser
    fbr,                        \* the context whose firstByteReader br reads through
    bw, out,                    \* answers not flushed, answers flushed since the last Read
    pc, cx, closing,            \* each serveConn: its place, ctx, connectionClose
    hj,                         \* the goroutine of a hijacked connection
    open, wrap, inner,          \* sockets; the perIPConn of each, the conn in each
    perIP, concurrency,         \* the counters
    slots, ended,               \* what is in concurrencyCh, the handlers yet to take one out
    pool, ctx                   \* ctxPool, and the fields of each context

client == <<setting, requested, kinds, sent>>
stream == <<got, used, fbr>>
answers == <<bw, out>>
loop == <<pc, cx, closing, hj>>
sockets == <<open, wrap, inner>>
counters == <<perIP, concurrency>>
concurrencyCh == <<slots, ended>>
contexts == <<pool, ctx>>
vars == <<client, stream, answers, loop, sockets, counters, concurrencyCh, contexts>>

MaxConnsPerIP == setting.MaxConnsPerIP
Concurrency == setting.Concurrency
MaxRequestsPerConn == setting.MaxRequestsPerConn
MaxRequests == setting.requests     \* of all clients together
Kinds == setting.kinds
Outcomes == setting.outcomes

\* RequestCtx: the request it was filled with, the answer, who runs a handler on it.
\* A Response in which nothing was set is an answer too: 200, and no body.
NewCtx == [req |-> Nil, parsed |-> FALSE, resp |-> <<"ok", Nil>>, closes |-> FALSE, hijacks |-> FALSE,
           timedOut |-> FALSE, timeoutCh |-> 0, timer |-> "off", handler |-> "none"]

Requests == Conns \X (1..MaxRequests) \X Kinds
Answers == {"ok", "busy", "timeout", "error", "continue"}
Sent == [to : 1..MaxRequests+1, of : Requests \cup {Nil}, what : Answers, last : BOOLEAN, body : BOOLEAN]
Contexts == [req : Requests \cup {Nil}, parsed : BOOLEAN,
             resp : {"ok", "busy", "timeout", "error"} \X (Requests \cup {Nil}),
             closes : BOOLEAN, hijacks : BOOLEAN, timedOut : BOOLEAN, timeoutCh : {0, 1},
             timer : {"off", "armed", "tick"}, handler : {"none", "run"}]

TypeOK ==
    /\ setting \in Settings /\ requested \in 0..MaxRequests
    /\ kinds \in [Conns -> Seq(Kinds)]
    /\ sent \in [Conns -> 0..2*MaxRequests]
    /\ got \in [Conns -> Nat] /\ used \in [Conns -> Nat]
    /\ \A c \in Conns : used[c] <= got[c] /\ got[c] <= sent[c]
    /\ fbr \in [Conns -> Ctxs \cup {Nil}]
    /\ bw \in [Conns -> Seq(Sent)] /\ out \in [Conns -> Seq(Sent)]
    /\ pc \in [Conns -> {"new", "count", "over", "top", "first", "read", "body", "wait",
                         "respond", "end", "expired", "close", "unregister", "refuse", "done"}]
    /\ cx \in [Conns -> Ctxs \cup {Nil}]
    /\ closing \in [Conns -> BOOLEAN]
    /\ hj \in [Conns -> {"none", "run", "close", "unregister", "done"}]
    /\ open \in [Conns -> BOOLEAN]
    /\ wrap \in [Conns -> Wrappers \cup {Nil}]
    /\ inner \in [Wrappers -> Conns \cup {Nil}]
    /\ perIP \in Nat /\ concurrency \in Nat
    /\ slots \in 0..Concurrency /\ ended \in 0..slots
    /\ pool \subseteq Ctxs
    /\ ctx \in [Ctxs -> Contexts]

Init ==
    /\ kinds = [c \in Conns |-> <<>>] /\ sent = [c \in Conns |-> 0]
    /\ setting \in Settings /\ requested = 0
    /\ got = [c \in Conns |-> 0] /\ used = [c \in Conns |-> 0] /\ fbr = [c \in Conns |-> Nil]
    /\ bw = [c \in Conns |-> <<>>] /\ out = [c \in Conns |-> <<>>]
    /\ pc = [c \in Conns |-> "new"] /\ cx = [c \in Conns |-> Nil]
    /\ closing = [c \in Conns |-> FALSE] /\ hj = [c \in Conns |-> "none"]
    /\ open = [c \in Conns |-> TRUE] /\ wrap = [c \in Conns |-> Nil]
    /\ inner = [w \in Wrappers |-> Nil]
    /\ perIP = 0 /\ concurrency = 0 /\ slots = 0 /\ ended = 0
    /\ pool = {} /\ ctx = [x \in Ctxs |-> NewCtx]

Goto(c, place) == pc' = [pc EXCEPT ![c] = place]

\* The number of the request that serveConn of c is at, or was at last, and a
\* request as a context holds it.
Current(c) == (used[c] + 1) \div 2
Request(c, n) == <<c, n, kinds[c][n]>>
KindOf(r) == r[3]

-----------------------------------------------------------------------------
(* Clients *)

Serving == {"top", "first", "read", "body", "wait", "respond"}

\* A client sends the next request, at once or first a half of it.
Send(c) ==
    /\ pc[c] \in Serving
    /\ sent[c] % 2 = 0 /\ requested < MaxRequests
    /\ requested' = requested + 1
    /\ \E k \in Kinds, units \in 1..2 :
          /\ kinds' = [kinds EXCEPT ![c] = Append(@, k)]
          /\ sent' = [sent EXCEPT ![c] = @ + units]
    /\ UNCHANGED <<setting, stream, answers, loop, sockets, counters, concurrencyCh, contexts>>

SendRest(c) ==
    /\ pc[c] \in Serving /\ sent[c] % 2 = 1
    /\ sent' = [sent EXCEPT ![c] = @ + 1]
    /\ UNCHANGED <<setting, requested, kinds, stream, answers, loop, sockets, counters, concurrencyCh, contexts>>

-----------------------------------------------------------------------------
(* Contexts *)

Garbage == {x \in Ctxs \ pool : ctx[x].handler = "none" /\ \A c \in Conns : x \notin {cx[c], fbr[c]}}

\* acquireCtx takes a pooled context or makes one. A new one shows nothing that a
\* pooled one would not, so it is made only when the pool is empty.
Acquirable ==
    {x \in pool : \A y \in pool : ctx[y] = ctx[x] => x <= y}
    \cup {x \in Garbage : pool = {} /\ \A y \in Garbage : x <= y}

\* x as acquireCtx returns it.
Acquired(x) == IF x \in pool THEN ctx[x] ELSE NewCtx

\* serveConn of c gets x, another context than the one it may have had.
Acquire(c, x) ==
    /\ cx' = [cx EXCEPT ![c] = x]
    /\ pool' = pool \ {x}

-----------------------------------------------------------------------------
(* wrapPerIPConn and ServeConn: the limits. All clients have one address. *)

\* acquirePerIPConn: pooled perIPConns are alike.
AcquirePerIPConn(c) ==
    LET w == CHOOSE v \in Wrappers : inner[v] = Nil IN
    /\ wrap' = [wrap EXCEPT ![c] = w]
    /\ inner' = [inner EXCEPT ![w] = c]

Register(c) ==
    /\ pc[c] = "new" /\ c \in setting.clients
    /\ \A d \in Conns : d < c => pc[d] # "new"
    /\ perIP' = perIP + 1
    /\ IF perIP + 1 > MaxConnsPerIP
          THEN /\ Goto(c, "refuse")
               /\ UNCHANGED sockets
          ELSE /\ Goto(c, "count")
               /\ AcquirePerIPConn(c)
               /\ UNCHANGED open
    /\ UNCHANGED <<client, stream, answers, cx, closing, hj, concurrency, concurrencyCh, contexts>>

\* Mutant: the connection is closed without Unregister.
RefuseCounted(c) ==
    /\ pc[c] = "refuse"
    /\ open' = [open EXCEPT ![c] = FALSE]
    /\ Goto(c, "done")
    /\ UNCHANGED <<client, stream, answers, cx, closing, hj, wrap, inner, counters, concurrencyCh, contexts>>

\* Too many connections of one address: the count is taken back, an answer, Close.
Refuse(c) ==
    /\ pc[c] = "refuse"
    /\ perIP' = perIP - 1
    /\ open' = [open EXCEPT ![c] = FALSE]
    /\ Goto(c, "done")
    /\ UNCHANGED <<client, stream, answers, cx, closing, hj, wrap, inner, concurrency, concurrencyCh, contexts>>

\* The total, and a context when it is not exceeded.
Count(c) ==
    /\ pc[c] = "count"
    /\ concurrency < Concurrency
    /\ concurrency' = concurrency + 1
    /\ \E x \in Acquirable :
          /\ Acquire(c, x)
          /\ ctx' = [ctx EXCEPT ![x] = Acquired(x)]
    /\ Goto(c, "top")
    /\ UNCHANGED <<client, stream, answers, closing, hj, sockets, perIP, concurrencyCh>>

CountOver(c) ==
    /\ pc[c] = "count"
    /\ concurrency >= Concurrency
    /\ concurrency' = concurrency + 1
    /\ Goto(c, "over")
    /\ UNCHANGED <<client, stream, answers, cx, closing, hj, sockets, perIP, concurrencyCh, contexts>>

\* Too many connections: the count is taken back, an answer, Close.
RefuseOver(c) ==
    /\ pc[c] = "over"
    /\ concurrency' = concurrency - 1
    /\ Goto(c, "close")
    /\ UNCHANGED <<client, stream, answers, cx, closing, hj, sockets, perIP, concurrencyCh, contexts>>

\* perIPConn.Close of what is in the perIPConn, by place, a function of the connections.
CloseSocket(c) ==
    open' = [d \in Conns |-> open[d] /\ d # inner[wrap[c]]]
Unregister(c) ==
    /\ perIP' = perIP - 1
    /\ inner' = [inner EXCEPT ![wrap[c]] = Nil]

Close(c) ==
    /\ pc[c] = "close"
    /\ CloseSocket(c)
    /\ Goto(c, "unregister")
    /\ UNCHANGED <<client, stream, answers, cx, closing, hj, wrap, inner, counters, concurrencyCh, contexts>>

Leave(c) ==
    /\ pc[c] = "unregister"
    /\ Unregister(c)
    /\ Goto(c, "done")
    /\ UNCHANGED <<client, stream, answers, cx, closing, hj, open, wrap, concurrency, concurrencyCh, contexts>>

-----------------------------------------------------------------------------
(* Reading a request *)

\* The connection has lived for longer than MaxKeepaliveDuration.
KeepaliveEnds(c) ==
    /\ pc[c] = "top"
    /\ Goto(c, "expired")
    /\ UNCHANGED <<client, stream, answers, cx, closing, hj, sockets, counters, concurrencyCh, contexts>>

\* acquireByteReader, with ReduceMemoryUsage or after a slow request: no context
\* while it waits for the first byte.
AwaitFirstByte(c) ==
    /\ pc[c] = "top" /\ got[c] = used[c]
    /\ pool' = pool \cup {cx[c]}
    /\ cx' = [cx EXCEPT ![c] = Nil]
    /\ Goto(c, "first")
    /\ UNCHANGED <<client, stream, answers, closing, hj, sockets, counters, concurrencyCh, ctx>>

FirstByte(c) ==
    /\ pc[c] = "first"
    /\ \E x \in Acquirable :
          /\ Acquire(c, x)
          /\ ctx' = [ctx EXCEPT ![x] = Acquired(x)]
          /\ \/ /\ sent[c] > got[c]
                /\ fbr' = [fbr EXCEPT ![c] = x]
                /\ Goto(c, "read")
             \/ Goto(c, "end") /\ UNCHANGED fbr
    /\ UNCHANGED <<client, got, used, answers, closing, hj, sockets, counters, concurrencyCh>>

\* The request that is being read, and whether the parser has what it needs: a
\* header with Expect: 100-continue is one step of its own.
Reading(c) == used[c] \div 2 + 1
Complete(c) ==
    /\ got[c] > used[c]
    /\ pc[c] # "body" /\ kinds[c][Reading(c)] # "expect" => got[c] >= used[c] + 2

Receive(c) ==
    /\ pc[c] \in {"top", "read", "body"} /\ ~Complete(c)
    /\ sent[c] > got[c]
    /\ Goto(c, IF pc[c] = "body" THEN "body" ELSE "read")
    /\ got' = [got EXCEPT ![c] = sent[c]]
    /\ out' = [out EXCEPT ![c] = <<>>]
    /\ UNCHANGED <<client, used, fbr, bw, cx, closing, hj, sockets, counters, concurrencyCh, contexts>>

\* br is released once it is empty.
Use(c, units) ==
    /\ used' = [used EXCEPT ![c] = @ + units]
    /\ fbr' = [fbr EXCEPT ![c] = IF used[c] + units = got[c] THEN Nil ELSE @]

\* RequestHeader.connectionCloseFast: a raw header says nothing before it is parsed.
CloseFast(r, parsed) == r # Nil /\ (KindOf(r) = "close" \/ (KindOf(r) = "rawClose" /\ parsed))

\* The request is in the context, and TimeoutHandler takes a slot and starts h, or
\* refuses.
CallHandler(c, timer) ==
    LET x == cx[c]
        r == Request(c, Reading(c)) IN
    /\ closing' = [closing EXCEPT ![c] = CloseFast(r, FALSE)]
    /\ IF slots < Concurrency
          THEN /\ slots' = slots + 1
               /\ ctx' = [ctx EXCEPT ![x].req = r, ![x].handler = "run", ![x].timer = timer]
               /\ Goto(c, "wait")
          ELSE /\ ctx' = [ctx EXCEPT ![x].req = r, ![x].resp = <<"busy", r>>]
               /\ Goto(c, "respond")
               /\ UNCHANGED slots

Call(c) == CallHandler(c, "armed")

ReadRequest(c) ==
    /\ pc[c] \in {"top", "read"} /\ Complete(c)
    /\ kinds[c][Reading(c)] \notin {"expect", "bad"}
    /\ Use(c, 2)
    /\ Call(c)
    /\ UNCHANGED <<client, got, answers, cx, hj, sockets, counters, ended, pool>>

Answer(c, of, what, last, body) ==
    [to |-> Reading(c), of |-> of, what |-> what, last |-> last, body |-> body]

\* Expect: 100-continue. Everything so far is flushed before the body is read.
Continue(c) ==
    /\ pc[c] \in {"top", "read"} /\ Complete(c)
    /\ kinds[c][Reading(c)] = "expect"
    /\ Use(c, 1)
    /\ bw' = [bw EXCEPT ![c] = <<>>]
    /\ \/ /\ out' = [out EXCEPT ![c] = bw[c] \o <<Answer(c, Nil, "continue", FALSE, FALSE)>>]
          /\ Goto(c, "body")
       \/ Goto(c, "end") /\ UNCHANGED out
    /\ ctx' = [ctx EXCEPT ![cx[c]].req = Request(c, Reading(c))]
    /\ UNCHANGED <<client, got, cx, closing, hj, sockets, counters, concurrencyCh, pool>>

ReadBody(c) ==
    /\ pc[c] = "body" /\ Complete(c)
    /\ Use(c, 1)
    /\ Call(c)
    /\ UNCHANGED <<client, got, answers, cx, hj, sockets, counters, ended, pool>>

\* The peer or the read deadline ends the stream between two requests: io.EOF.
ReadEOF(c) ==
    /\ pc[c] \in {"top", "read"} /\ got[c] = used[c] /\ fbr[c] = Nil
    /\ Goto(c, "end")
    /\ UNCHANGED <<client, stream, answers, cx, closing, hj, sockets, counters, concurrencyCh, contexts>>

\* A request cannot be parsed, or ends before it is complete.
Unreadable(c) ==
    \/ pc[c] \in {"top", "read"} /\ Complete(c) /\ kinds[c][Reading(c)] = "bad"
    \/ /\ pc[c] = "body" \/ (pc[c] \in {"top", "read"} /\ got[c] > used[c])
       /\ ~Complete(c)

\* writeErrorResponse, behind the answers that wait in bw.
ReadError(c) ==
    /\ Unreadable(c)
    /\ \/ out' = [out EXCEPT ![c] = bw[c] \o <<Answer(c, Nil, "error", TRUE, TRUE)>>]
       \/ UNCHANGED out
    /\ bw' = [bw EXCEPT ![c] = <<>>]
    /\ fbr' = [fbr EXCEPT ![c] = Nil]
    /\ ctx' = [ctx EXCEPT ![cx[c]].req = Nil]
    /\ Goto(c, "end")
    /\ UNCHANGED <<client, got, used, cx, closing, hj, sockets, counters, concurrencyCh, pool>>

-----------------------------------------------------------------------------
(* The handler, under TimeoutHandler *)

\* h answers what it finds in its context, however late it is. A context that was
\* given up is garbage then.
HandlerEnds(x) ==
    /\ ctx[x].handler = "run" /\ ctx[x].timeoutCh = 0
    /\ \E o \in Outcomes, parse \in BOOLEAN :
          /\ parse => ctx[x].req # Nil /\ KindOf(ctx[x].req) = "rawClose"
          /\ ctx' = [ctx EXCEPT ![x] =
                IF @.timedOut THEN NewCtx
                ELSE [@ EXCEPT !.resp = <<"ok", ctx[x].req>>, !.closes = (o = "close"),
                               !.hijacks = (o = "hijack"), !.parsed = parse,
                               !.timeoutCh = 1, !.handler = "none"]]
    /\ ended' = ended + 1
    /\ UNCHANGED <<client, stream, answers, loop, sockets, counters, slots, pool>>

\* <-concurrencyCh, after the answer was handed over.
FreeSlot ==
    /\ ended > 0
    /\ slots' = slots - 1
    /\ ended' = ended - 1
    /\ UNCHANGED <<client, stream, answers, loop, sockets, counters, contexts>>

Tick(x) ==
    /\ ctx[x].timer = "armed"
    /\ ctx' = [ctx EXCEPT ![x].timer = "tick"]
    /\ UNCHANGED <<client, stream, answers, loop, sockets, counters, concurrencyCh, pool>>

\* The select of TimeoutHandler takes the end of h; stopTimer empties the timer.
Returns(c) ==
    /\ pc[c] = "wait" /\ ctx[cx[c]].timeoutCh = 1
    /\ ctx' = [ctx EXCEPT ![cx[c]].timeoutCh = 0, ![cx[c]].timer = "off"]
    /\ Goto(c, "respond")
    /\ UNCHANGED <<client, stream, answers, cx, closing, hj, sockets, counters, concurrencyCh, pool>>

\* It takes the timer: TimeoutError, and serveConn goes on with another context.
\* br may read through the old one, so it serves no further request.
TimesOut(c) ==
    /\ pc[c] = "wait" /\ ctx[cx[c]].timer = "tick"
    /\ \E x \in Acquirable :
          /\ Acquire(c, x)
          /\ ctx' = [ctx EXCEPT ![x] = [Acquired(x) EXCEPT !.resp = <<"timeout", Nil>>,
                                                          !.closes = got[c] > used[c]],
                                ![cx[c]].timedOut = TRUE, ![cx[c]].timer = "off"]
    /\ Goto(c, "respond")
    /\ UNCHANGED <<client, stream, answers, closing, hj, sockets, counters, concurrencyCh>>

-----------------------------------------------------------------------------
(* The answer *)

\* Mutant: the header is asked only when the request was reset.
ClosingOnceReset(c) ==
    \/ ctx[cx[c]].closes
    \/ MaxRequestsPerConn > 0 /\ Current(c) >= MaxRequestsPerConn

\* The last answer of a connection. The request is reset by now, so a header that
\* the handler had parsed is not asked again.
Closing(c) ==
    \/ closing[c]
    \/ ctx[cx[c]].closes
    \/ MaxRequestsPerConn > 0 /\ Current(c) >= MaxRequestsPerConn

Response(c) ==
    LET x == ctx[cx[c]] IN
    [to |-> Current(c), of |-> x.resp[2], what |-> x.resp[1], last |-> Closing(c),
     body |-> ~(x.req # Nil /\ KindOf(x.req) = "head")]

\* Request.Reset, Response.Reset, hijackHandler = nil.
Clean(x) == [ctx[x] EXCEPT !.req = Nil, !.parsed = FALSE, !.resp = NewCtx.resp, !.closes = FALSE, !.hijacks = FALSE]

\* More requests are in br: the answer stays in bw.
RespondLater(c) ==
    /\ pc[c] = "respond"
    /\ got[c] > used[c] /\ ~Closing(c) /\ ~ctx[cx[c]].hijacks
    /\ bw' = [bw EXCEPT ![c] = Append(@, Response(c))]
    /\ ctx' = [ctx EXCEPT ![cx[c]] = Clean(cx[c])]
    /\ Goto(c, "top")
    /\ UNCHANGED <<client, stream, out, cx, closing, hj, sockets, counters, concurrencyCh, pool>>

Respond(c) ==
    /\ pc[c] = "respond"
    /\ got[c] = used[c] \/ Closing(c)
    /\ ~ctx[cx[c]].hijacks \/ Closing(c)
    /\ bw' = [bw EXCEPT ![c] = <<>>]
    /\ ctx' = [ctx EXCEPT ![cx[c]] = Clean(cx[c])]
    /\ \/ /\ out' = [out EXCEPT ![c] = bw[c] \o <<Response(c)>>]
          /\ Goto(c, IF Closing(c) THEN "end" ELSE "top")
       \/ Goto(c, "end") /\ UNCHANGED out
    /\ UNCHANGED <<client, stream, cx, closing, hj, sockets, counters, concurrencyCh, pool>>

\* Mutant: the context that br may read through goes back to the pool.
HijackKeepingCtx(c) ==
    /\ pc[c] = "respond" /\ ctx[cx[c]].hijacks /\ ~Closing(c)
    /\ bw' = [bw EXCEPT ![c] = <<>>]
    /\ out' = [out EXCEPT ![c] = bw[c] \o <<Response(c)>>]
    /\ hj' = [hj EXCEPT ![c] = "run"]
    /\ Goto(c, "end")
    /\ ctx' = [ctx EXCEPT ![cx[c]] = Clean(cx[c])]
    /\ UNCHANGED <<client, stream, closing, sockets, counters, concurrencyCh, cx, pool>>

\* The connection goes to a goroutine of its own. When requests are in br, the
\* hijacker reads through it, and perhaps through the context it is attached to.
Hijack(c) ==
    /\ pc[c] = "respond" /\ ctx[cx[c]].hijacks /\ ~Closing(c)
    /\ bw' = [bw EXCEPT ![c] = <<>>]
    /\ \/ /\ out' = [out EXCEPT ![c] = bw[c] \o <<Response(c)>>]
          /\ hj' = [hj EXCEPT ![c] = "run"]
       \/ UNCHANGED <<out, hj>>
    /\ Goto(c, "end")
    /\ IF got[c] > used[c]
          THEN \E x \in Acquirable :
                  /\ Acquire(c, x)
                  /\ ctx' = [ctx EXCEPT ![x] = Acquired(x), ![cx[c]] = Clean(cx[c])]
          ELSE /\ ctx' = [ctx EXCEPT ![cx[c]] = Clean(cx[c])]
               /\ UNCHANGED <<cx, pool>>
    /\ UNCHANGED <<client, stream, closing, sockets, counters, concurrencyCh>>

\* serveConn returns, its buffers go back to their pools, and it is counted out.
\* What was said on the connection is forgotten.
End(c) ==
    /\ pc[c] \in {"end", "expired"}
    /\ pool' = pool \cup {cx[c]}
    /\ cx' = [cx EXCEPT ![c] = Nil]
    /\ bw' = [bw EXCEPT ![c] = <<>>] /\ out' = [out EXCEPT ![c] = <<>>]
    /\ kinds' = [kinds EXCEPT ![c] = <<>>] /\ sent' = [sent EXCEPT ![c] = 0]
    /\ got' = [got EXCEPT ![c] = 0] /\ used' = [used EXCEPT ![c] = 0]
    /\ fbr' = [fbr EXCEPT ![c] = IF hj[c] = "none" THEN Nil ELSE @]
    /\ closing' = [closing EXCEPT ![c] = FALSE]
    /\ concurrency' = concurrency - 1
    /\ Goto(c, IF hj[c] = "none" THEN "close" ELSE "done")
    /\ UNCHANGED <<setting, requested, hj, sockets, perIP, concurrencyCh, ctx>>

-----------------------------------------------------------------------------
(* hijackConnHandler *)

HijackEnds(c) ==
    /\ hj[c] = "run"
    /\ hj' = [hj EXCEPT ![c] = "close"]
    /\ fbr' = [fbr EXCEPT ![c] = Nil]
    /\ UNCHANGED <<client, got, used, answers, pc, cx, closing, sockets, counters, concurrencyCh, contexts>>

HijackClose(c) ==
    /\ hj[c] = "close"
    /\ CloseSocket(c)
    /\ hj' = [hj EXCEPT ![c] = "unregister"]
    /\ UNCHANGED <<client, stream, answers, pc, cx, closing, wrap, inner, counters, concurrencyCh, contexts>>

HijackLeave(c) ==
    /\ hj[c] = "unregister"
    /\ Unregister(c)
    /\ hj' = [hj EXCEPT ![c] = "done"]
    /\ UNCHANGED <<client, stream, answers, pc, cx, closing, open, wrap, concurrency, concurrencyCh, contexts>>

-----------------------------------------------------------------------------
Client(c) == Send(c) \/ SendRest(c)

Arrive(c) == Refuse(c) \/ Count(c) \/ CountOver(c) \/ RefuseOver(c)

ReadStep(c) ==
    \/ KeepaliveEnds(c) \/ AwaitFirstByte(c) \/ FirstByte(c)
    \/ Receive(c) \/ ReadRequest(c) \/ Continue(c) \/ ReadBody(c) \/ ReadEOF(c) \/ ReadError(c)

AnswerStep(c) ==
    \/ Returns(c) \/ TimesOut(c) \/ RespondLater(c) \/ Respond(c) \/ Hijack(c)

Depart(c) == End(c) \/ Close(c) \/ Leave(c)

\* What happens without a client, a handler or a hijacker doing anything.
Serve(c) ==
    \/ Arrive(c) \/ ReadStep(c) \/ AnswerStep(c) \/ Depart(c)
    \/ HijackClose(c) \/ HijackLeave(c)

ServerStep == FreeSlot \/ (\E c \in Conns : Serve(c)) \/ (\E x \in Ctxs : Tick(x))

Next ==
    \/ ServerStep
    \/ \E c \in Conns : Client(c) \/ Register(c) \/ HijackEnds(c)
    \/ \E x \in Ctxs : HandlerEnds(x)

Spec == Init /\ [][Next]_vars

\* Some goroutine of the server runs, or a timer fires. A handler may never
\* return, a hijacker may never end, and a client may fall silent.
FairSpec == Spec /\ WF_vars(ServerStep)

-----------------------------------------------------------------------------
(* Properties *)

\* What was said on a connection since the last Read, flushed or not. b may be said
\* right after a: the answer of the request a client was told to go on with, or an
\* answer to the next one.
Said(c) == out[c] \o bw[c]
Follows(b, a) ==
    /\ ~a.last
    /\ IF a.what = "continue" THEN b.to = a.to /\ b.what # "continue" ELSE b.to = a.to + 1

\* Requests are answered one by one in their order, each with what its own handler
\* made of it, or an error; nothing follows an answer that closes the connection.
AnswersInOrder ==
    \A c \in Conns :
        LET all == Said(c) IN
        /\ pc[c] = "top" /\ used[c] > 0 =>
              all # <<>> /\ Last(all).what # "continue" /\ Last(all).to = Current(c)
        /\ \A i \in 1..Len(all)-1 : Follows(all[i+1], all[i])
        /\ \A a \in ToSet(all) :
              /\ a.last => pc[c] = "end"
              /\ a.what \in {"ok", "busy"} =>
                    a.of = Request(c, a.to) /\ a.body = (kinds[c][a.to] # "head")
              /\ a.what \notin {"error", "continue"} /\ kinds[c][a.to] = "close" => a.last

\* Nobody else has a context while a handler may still touch it or a hijacker
\* reads through it, and a pooled context holds nothing of its last use.
ContextsApart ==
    /\ \A x \in pool : [ctx[x] EXCEPT !.req = Nil] = NewCtx
    /\ \A x \in Ctxs : /\ Cardinality({c \in Conns : cx[c] = x}) <= 1
                       /\ x \in pool => \A c \in Conns : cx[c] # x /\ fbr[c] # x
                       /\ ctx[x].handler = "run" =>
                             ctx[x].timedOut \/ \E c \in Conns : cx[c] = x /\ pc[c] = "wait"
    /\ \A c, d \in Conns : fbr[c] # Nil /\ c # d => fbr[c] \notin {cx[d], fbr[d]}

Registered(c) == IF hj[c] = "none" THEN pc[c] \notin {"new", "done"} ELSE hj[c] # "done"
Served(c) ==
    IF hj[c] = "none"
       THEN pc[c] \notin {"new", "refuse", "count", "over", "close", "unregister", "done"}
       ELSE hj[c] = "run"

\* Every connection is counted from its arrival until it was closed, by whoever
\* closes it, and once; those served never exceed the limits; and a connection
\* that is served has an open socket, in a perIPConn that is only its own.
LimitsKept ==
    /\ perIP = Cardinality({c \in Conns : Registered(c)})
    /\ Cardinality({c \in Conns : Served(c)}) <= MaxConnsPerIP
    /\ Cardinality({c \in Conns : Served(c) /\ hj[c] = "none"}) <= concurrency
    /\ Cardinality({c \in Conns : Served(c) /\ hj[c] = "none"}) <= Concurrency
    /\ (\A c \in Conns : pc[c] \in {"new", "done"}) => concurrency = 0
    /\ slots = ended + Cardinality({x \in Ctxs : ctx[x].handler = "run"})
    /\ \A c \in Conns : Served(c) => open[c] /\ inner[wrap[c]] = c
    /\ \A c \in Conns : pc[c] = "done" /\ hj[c] \in {"none", "done"} => ~open[c]

\* A connection that waits for a request has sent every answer, and one that ends
\* does not drop answers that are finished, unless MaxKeepaliveDuration ends it.
AnswersAreSent ==
    \A c \in Conns :
        \/ pc[c] = "first"
        \/ pc[c] \in {"read", "top"} /\ got[c] = used[c]
        \/ pc[c] = "end"
        => bw[c] = <<>>

\* With a read timeout every connection ends, though clients may fall silent and
\* handlers may never return.
ConnectionsEnd == \A c \in Conns : pc[c] # "new" ~> pc[c] = "done"

\* A request with Connection: close, of whatever method, is the last one served.
\* False for a GET, whose header is parsed when the handler asks for it ("rawClose"):
\* the request is reset at server.go:1557 and looked at again at 1572.
CloseIsHonoured ==
    \A c \in Conns : \A a \in ToSet(Said(c)) :
        a.what # "continue" /\ kinds[c][a.to] \in {"close", "rawClose"} => a.last
=============================================================================
