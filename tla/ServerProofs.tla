---------------------------- MODULE ServerProofs ----------------------------
(* Theorems about Server, for every set of connections and contexts and every  *)
(* setting: its types, that contexts are never shared, that the limits and the *)
(* counters behind them are kept, and that answers are in order.               *)
EXTENDS Server, FiniteSetTheorems, SequenceTheorems, TLAPS

(* Where serveConn runs, and where it has a context. *)
Using == {"top", "read", "body", "wait", "respond", "end", "expired"}
Counting == Using \cup {"first", "over"}

(* What was sent has a header, and every place knows a request to be behind it. *)
Streams ==
    \A c \in Conns :
        /\ sent[c] \in {2 * Len(kinds[c]) - 1, 2 * Len(kinds[c])}
        /\ Len(kinds[c]) <= requested
        /\ pc[c] \in {"wait", "respond"} => used[c] >= 1

(* A context at rest: nobody else knows it. A fresh one shows nothing of its     *)
(* last use either, but for the request.                                        *)
AtRest(r) == ~r.timedOut /\ r.timeoutCh = 0 /\ r.timer = "off" /\ r.handler = "none"
Fresh(r) == AtRest(r) /\ ~r.parsed /\ ~r.closes /\ ~r.hijacks /\ r.resp = <<"ok", Nil>>

(* Which contexts serveConn has and its reader reads through. *)
Hands ==
    /\ \A c \in Conns : cx[c] # Nil <=> pc[c] \in Using
    /\ \A c \in Conns : cx[c] \notin pool /\ fbr[c] \notin pool
    /\ \A c, d \in Conns : c # d /\ cx[c] # Nil => cx[c] # cx[d] /\ cx[c] # fbr[d]
    /\ \A c, d \in Conns : c # d /\ fbr[c] # Nil => fbr[c] # fbr[d]

(* br is released when it is empty, and a hijacker reads through a context that  *)
(* serveConn has given up.                                                      *)
ReaderAt(c) ==
    /\ pc[c] \in {"top", "wait", "respond"} /\ got[c] = used[c] => fbr[c] = Nil
    /\ hj[c] = "none" /\ pc[c] \notin Using => fbr[c] = Nil
    /\ hj[c] # "none" => pc[c] \in {"end", "done"} /\ (fbr[c] # Nil => fbr[c] # cx[c])
Readers == \A c \in Conns : ReaderAt(c)

(* What a context is like where it is. *)
InUse(c) ==
    /\ pc[c] \in {"top", "read", "body", "end", "expired"} => Fresh(ctx[cx[c]])
    /\ pc[c] = "respond" => AtRest(ctx[cx[c]])
    /\ pc[c] = "wait" =>
          ~ctx[cx[c]].timedOut /\ (ctx[cx[c]].timeoutCh = 1 => ctx[cx[c]].handler = "none")
Conditions ==
    /\ \A x \in pool : Fresh(ctx[x])
    /\ \A c \in Conns : InUse(c)
    /\ \A x \in Ctxs : ctx[x].handler = "run" =>
          ctx[x].timedOut \/ \E c \in Conns : cx[c] = x /\ pc[c] = "wait"

CtxInv == Hands /\ Readers /\ Conditions

(* Who is counted where. *)
Members == {c \in Conns : Registered(c)}
Inside(c) == Registered(c) /\ pc[c] # "refuse"
Admitted == {c \in Conns : Inside(c)}
Counted == {c \in Conns : pc[c] \in Counting}
Within == {c \in Conns : pc[c] \in Counting \ {"over"}}
Running == {x \in Ctxs : ctx[x].handler = "run"}

Counts ==
    /\ perIP = Cardinality(Members)
    /\ Cardinality(Admitted) <= MaxConnsPerIP
    /\ concurrency = Cardinality(Counted)
    /\ Cardinality(Within) <= Concurrency
    /\ slots = ended + Cardinality(Running)

(* A connection is in a perIPConn of its own until it is counted out, and its    *)
(* socket is open until somebody has closed it.                                 *)
Shut(c) == IF hj[c] = "none" THEN pc[c] \in {"unregister", "done"} ELSE hj[c] \in {"unregister", "done"}
Wrapped ==
    /\ \A c \in Conns : Inside(c) => wrap[c] \in Wrappers /\ inner[wrap[c]] = c
    /\ \A w \in Wrappers, d \in Conns : inner[w] = d => Inside(d) /\ wrap[d] = w
    /\ \A c \in Conns : open[c] <=> ~Shut(c)

LimitInv == Counts /\ Wrapped

IInv == TypeOK /\ Streams /\ CtxInv /\ LimitInv

-----------------------------------------------------------------------------
(* Types and streams *)

(* TypeOK in three parts. *)
StreamTypes ==
    /\ setting \in Settings /\ requested \in 0..MaxRequests
    /\ kinds \in [Conns -> Seq(Kinds)]
    /\ sent \in [Conns -> 0..2*MaxRequests]
    /\ got \in [Conns -> Nat] /\ used \in [Conns -> Nat]
    /\ \A c \in Conns : used[c] <= got[c] /\ got[c] <= sent[c]
LoopTypes ==
    /\ fbr \in [Conns -> Ctxs \cup {Nil}]
    /\ pc \in [Conns -> {"new", "count", "over", "top", "first", "read", "body", "wait",
                         "respond", "end", "expired", "close", "unregister", "refuse", "done"}]
    /\ cx \in [Conns -> Ctxs \cup {Nil}]
    /\ closing \in [Conns -> BOOLEAN]
    /\ hj \in [Conns -> {"none", "run", "close", "unregister", "done"}]
    /\ open \in [Conns -> BOOLEAN]
    /\ wrap \in [Conns -> Wrappers \cup {Nil}]
    /\ inner \in [Wrappers -> Conns \cup {Nil}]
    /\ pool \subseteq Ctxs
CountTypes ==
    /\ perIP \in Nat /\ concurrency \in Nat
    /\ slots \in 0..Concurrency /\ ended \in 0..slots
DataTypes ==
    /\ bw \in [Conns -> Seq(Sent)] /\ out \in [Conns -> Seq(Sent)]
    /\ ctx \in [Ctxs -> Contexts]

LEMMA TypeParts == TypeOK <=> StreamTypes /\ LoopTypes /\ CountTypes /\ DataTypes
BY DEF TypeOK, StreamTypes, LoopTypes, CountTypes, DataTypes

LEMMA SettingIs ==
    ASSUME setting \in Settings
    PROVE  /\ MaxConnsPerIP \in Nat \ {0} /\ Concurrency \in Nat \ {0}
           /\ MaxRequestsPerConn \in Nat /\ MaxRequests \in Nat
           /\ Kinds \subseteq {"plain", "head", "close", "rawClose", "expect", "bad"}
           /\ setting.clients \subseteq Conns
BY SettingsAssumption DEF MaxConnsPerIP, Concurrency, MaxRequestsPerConn, MaxRequests, Kinds

LEMMA SettingStays ==
    ASSUME setting' = setting
    PROVE  /\ MaxConnsPerIP' = MaxConnsPerIP /\ Concurrency' = Concurrency
           /\ MaxRequestsPerConn' = MaxRequestsPerConn /\ MaxRequests' = MaxRequests
           /\ Kinds' = Kinds /\ Requests' = Requests /\ Sent' = Sent /\ Contexts' = Contexts
BY DEF MaxConnsPerIP, Concurrency, MaxRequestsPerConn, MaxRequests, Kinds, Requests, Sent, Contexts

LEMMA NewCtxIsFresh == NewCtx \in Contexts /\ Fresh(NewCtx)
BY DEF NewCtx, Contexts, Fresh, AtRest

LEMMA FreshShowsNothing ==
    ASSUME NEW r \in Contexts, Fresh(r)
    PROVE  [r EXCEPT !.req = Nil] = NewCtx
<1>1. /\ r.parsed = FALSE /\ r.closes = FALSE /\ r.hijacks = FALSE /\ r.timedOut = FALSE
    <2>1. {r.parsed, r.closes, r.hijacks, r.timedOut} \subseteq BOOLEAN
        BY DEF Contexts
    <2> QED BY <2>1, Zenon DEF Fresh, AtRest
<1>2. r.timeoutCh = 0 /\ r.timer = "off" /\ r.handler = "none" /\ r.resp = <<"ok", Nil>>
    BY DEF Fresh, AtRest
<1>3. [r EXCEPT !.req = Nil]
        = [req |-> Nil, parsed |-> r.parsed, resp |-> r.resp, closes |-> r.closes, hijacks |-> r.hijacks,
           timedOut |-> r.timedOut, timeoutCh |-> r.timeoutCh, timer |-> r.timer, handler |-> r.handler]
    BY DEF Contexts
<1> QED BY <1>1, <1>2, <1>3, Zenon DEF NewCtx

LEMMA AcquiredIsFresh ==
    ASSUME LoopTypes, DataTypes, CtxInv, NEW x \in Acquirable
    PROVE  /\ x \in Ctxs
           /\ \A c \in Conns : cx[c] # x /\ fbr[c] # x
           /\ Acquired(x) \in Contexts /\ Fresh(Acquired(x))
           /\ ctx[x].handler = "none"
<1>1. CASE x \in pool
    BY <1>1 DEF LoopTypes, DataTypes, CtxInv, Hands, Conditions, Acquired, Fresh, AtRest
<1>2. CASE x \notin pool
    <2>1. x \in Garbage
        BY <1>2 DEF Acquirable
    <2> QED BY <1>2, <2>1, NewCtxIsFresh DEF Garbage, Acquired
<1> QED BY <1>1, <1>2

(* A request that is in the reader has a header that was sent. *)
LEMMA ReadingIsSent ==
    ASSUME StreamTypes, Streams, NEW c \in Conns
    PROVE  /\ Reading(c) \in 1..MaxRequests + 1
           /\ got[c] > used[c] => /\ Reading(c) \in 1..MaxRequests
                                  /\ kinds[c][Reading(c)] \in Kinds
                                  /\ Request(c, Reading(c)) \in Requests
           /\ used[c] >= 1 => Current(c) \in 1..MaxRequests + 1
<1>1. /\ kinds[c] \in Seq(Kinds) /\ Len(kinds[c]) \in Nat
      /\ \A i \in 1..Len(kinds[c]) : kinds[c][i] \in Kinds
    BY DEF StreamTypes
<1>2. /\ used[c] \in Nat /\ got[c] \in Nat /\ sent[c] \in Nat /\ requested \in Nat
      /\ used[c] <= got[c] /\ got[c] <= sent[c]
      /\ sent[c] <= 2 * MaxRequests /\ MaxRequests \in Nat
      /\ sent[c] <= 2 * Len(kinds[c]) /\ Len(kinds[c]) <= requested /\ requested <= MaxRequests
    <2>1. used[c] \in Nat /\ got[c] \in Nat /\ sent[c] \in 0..2*MaxRequests /\ requested \in 0..MaxRequests
        BY DEF StreamTypes
    <2>2. used[c] <= got[c] /\ got[c] <= sent[c]
        BY DEF StreamTypes
    <2>3. sent[c] \in {2 * Len(kinds[c]) - 1, 2 * Len(kinds[c])} /\ Len(kinds[c]) <= requested
        BY DEF Streams
    <2> QED BY <1>1, <2>1, <2>2, <2>3, SettingIs DEF StreamTypes
<1>3. Reading(c) \in 1..MaxRequests + 1
    BY <1>2 DEF Reading
<1>4. ASSUME got[c] > used[c]
      PROVE  /\ Reading(c) \in 1..MaxRequests /\ kinds[c][Reading(c)] \in Kinds
             /\ Request(c, Reading(c)) \in Requests
    <2>1. Reading(c) \in 1..Len(kinds[c])
        BY <1>1, <1>2, <1>4 DEF Reading
    <2>2. Reading(c) \in 1..MaxRequests
        BY <1>1, <1>2, <2>1
    <2>3. kinds[c][Reading(c)] \in Kinds
        BY <1>1, <2>1
    <2> QED BY <2>2, <2>3 DEF Request, Requests
<1>5. used[c] >= 1 => Current(c) \in 1..MaxRequests + 1
    BY <1>2 DEF Current
<1> QED BY <1>3, <1>4, <1>5

(* Steps that neither receive nor use anything, and do not come to an answer. *)
LEMMA StreamFrame ==
    ASSUME StreamTypes, Streams, UNCHANGED <<client, got, used>>,
           \A d \in Conns : pc'[d] \in {"wait", "respond"} => pc[d] \in {"wait", "respond"}
    PROVE  StreamTypes' /\ Streams'
<1>1. UNCHANGED <<setting, requested, kinds, sent, got, used>>
    BY DEF client
<1>2. StreamTypes'
    BY <1>1 DEF StreamTypes, MaxRequests, Kinds
<1> QED BY <1>1, <1>2 DEF Streams

(* Receive, and Use of units that are there. *)
LEMMA StreamMoves ==
    ASSUME StreamTypes, Streams, UNCHANGED client, NEW c \in Conns, NEW g \in Nat, NEW u \in Nat,
           got' = [got EXCEPT ![c] = g], used' = [used EXCEPT ![c] = u], u <= g, g <= sent[c],
           \A d \in Conns \ {c} : pc'[d] = pc[d],
           pc'[c] \in {"wait", "respond"} => u >= 1
    PROVE  StreamTypes' /\ Streams'
<1>1. UNCHANGED <<setting, requested, kinds, sent>>
    BY DEF client
<1>2. /\ got' \in [Conns -> Nat] /\ used' \in [Conns -> Nat]
      /\ \A d \in Conns : used'[d] <= got'[d] /\ got'[d] <= sent[d]
    BY DEF StreamTypes
<1>3. StreamTypes'
    BY <1>1, <1>2 DEF StreamTypes, MaxRequests, Kinds
<1>4. \A d \in Conns : pc'[d] \in {"wait", "respond"} => used'[d] >= 1
    <2> SUFFICES ASSUME NEW d \in Conns, pc'[d] \in {"wait", "respond"} PROVE used'[d] >= 1
        OBVIOUS
    <2>1. CASE d = c
        BY <2>1 DEF StreamTypes
    <2>2. CASE d # c
        BY <2>2 DEF StreamTypes, Streams
    <2> QED BY <2>1, <2>2
<1> QED BY <1>1, <1>3, <1>4 DEF Streams

LEMMA StreamNext ==
    ASSUME IInv, [Next]_vars
    PROVE  StreamTypes' /\ Streams'
<1>0. StreamTypes /\ Streams /\ LoopTypes
    BY TypeParts DEF IInv
<1>1. ASSUME UNCHANGED vars PROVE StreamTypes' /\ Streams'
    BY <1>0, <1>1, StreamFrame DEF vars, client, stream, loop
<1>2. ASSUME NEW c \in Conns, Send(c) PROVE StreamTypes' /\ Streams'
    <2>1. PICK k \in Kinds, n \in 1..2 :
            kinds' = [kinds EXCEPT ![c] = Append(@, k)] /\ sent' = [sent EXCEPT ![c] = @ + n]
        BY <1>2 DEF Send
    <2>2. /\ UNCHANGED <<setting, got, used, pc>> /\ requested' = requested + 1
          /\ sent[c] % 2 = 0 /\ requested < MaxRequests
        BY <1>2 DEF Send, stream, loop
    <2>3. /\ requested \in Nat /\ MaxRequests \in Nat /\ requested + 1 \in 0..MaxRequests
          /\ \A d \in Conns : kinds[d] \in Seq(Kinds) /\ Len(kinds[d]) \in Nat /\ Len(kinds[d]) <= requested
        BY <1>0, <2>2, SettingIs DEF StreamTypes, Streams
    <2>4. /\ \A d \in Conns : kinds'[d] \in Seq(Kinds)
          /\ Len(kinds'[c]) = Len(kinds[c]) + 1
          /\ \A d \in Conns \ {c} : kinds'[d] = kinds[d] /\ sent'[d] = sent[d]
          /\ kinds' \in [Conns -> Seq(Kinds)]
        <3>1. Append(kinds[c], k) \in Seq(Kinds) /\ Len(Append(kinds[c], k)) = Len(kinds[c]) + 1
            BY <2>3
        <3> QED BY <1>0, <2>1, <2>3, <3>1 DEF StreamTypes
    <2>5. /\ sent[c] = 2 * Len(kinds[c]) /\ sent'[c] = sent[c] + n
        <3>1. sent[c] \in {2 * Len(kinds[c]) - 1, 2 * Len(kinds[c])}
            BY <1>0 DEF Streams
        <3>2. sent[c] = 2 * Len(kinds[c])
            BY <2>2, <2>3, <3>1
        <3> QED BY <1>0, <2>1, <3>2 DEF StreamTypes
    <2>6. /\ sent'[c] \in {2 * Len(kinds'[c]) - 1, 2 * Len(kinds'[c])}
          /\ Len(kinds'[c]) <= requested'
        <3>1. Len(kinds[c]) \in Nat /\ Len(kinds[c]) <= requested /\ n \in {1, 2}
            BY <2>3
        <3>2. /\ 2 * Len(kinds[c]) + n \in {2 * (Len(kinds[c]) + 1) - 1, 2 * (Len(kinds[c]) + 1)}
              /\ Len(kinds[c]) + 1 <= requested + 1
            BY <2>3, <3>1
        <3> QED BY <2>2, <2>4, <2>5, <3>2
    <2>7. sent' \in [Conns -> 0..2*MaxRequests] /\ \A d \in Conns : sent[d] <= sent'[d]
        <3>1. sent[c] + n \in 0..2*MaxRequests /\ sent[c] <= sent[c] + n
            BY <2>2, <2>3, <2>5
        <3> QED BY <1>0, <2>1, <3>1 DEF StreamTypes
    <2>8. \A d \in Conns : used[d] <= got[d] /\ got[d] <= sent'[d]
        BY <1>0, <2>3, <2>7 DEF StreamTypes
    <2>9. StreamTypes'
        BY <1>0, <2>2, <2>3, <2>4, <2>7, <2>8 DEF StreamTypes, MaxRequests, Kinds
    <2>10. ASSUME NEW d \in Conns \ {c}
           PROVE  /\ sent'[d] \in {2 * Len(kinds'[d]) - 1, 2 * Len(kinds'[d])}
                  /\ Len(kinds'[d]) <= requested'
        <3>1. /\ kinds'[d] = kinds[d] /\ sent'[d] = sent[d]
              /\ sent[d] \in {2 * Len(kinds[d]) - 1, 2 * Len(kinds[d])}
            BY <1>0, <2>4 DEF Streams
        <3>2. Len(kinds[d]) <= requested + 1
            BY <2>3
        <3> QED BY <2>2, <3>1, <3>2
    <2>11. \A d \in Conns : pc'[d] \in {"wait", "respond"} => used'[d] >= 1
        BY <1>0, <2>2 DEF Streams
    <2> QED BY <2>6, <2>9, <2>10, <2>11 DEF Streams
<1>3. ASSUME NEW c \in Conns, SendRest(c) PROVE StreamTypes' /\ Streams'
    <2>1. /\ sent[c] % 2 = 1 /\ sent' = [sent EXCEPT ![c] = @ + 1]
          /\ UNCHANGED <<setting, requested, kinds, got, used, pc>>
        BY <1>3 DEF SendRest, stream, loop
    <2>2. /\ kinds[c] \in Seq(Kinds) /\ Len(kinds[c]) \in Nat /\ Len(kinds[c]) <= requested
          /\ requested \in 0..MaxRequests /\ MaxRequests \in Nat
        BY <1>0, SettingIs DEF StreamTypes, Streams
    <2>3. sent[c] = 2 * Len(kinds[c]) - 1 /\ sent'[c] = 2 * Len(kinds[c]) /\ sent[c] + 1 \in 0..2*MaxRequests
        <3>1. sent[c] \in {2 * Len(kinds[c]) - 1, 2 * Len(kinds[c])}
            BY <1>0 DEF Streams
        <3>2. sent[c] = 2 * Len(kinds[c]) - 1
            BY <2>1, <2>2, <3>1
        <3> QED BY <1>0, <2>1, <2>2, <3>2 DEF StreamTypes
    <2>4. /\ sent' \in [Conns -> 0..2*MaxRequests]
          /\ \A d \in Conns : used[d] <= got[d] /\ got[d] <= sent'[d]
        BY <1>0, <2>1, <2>3 DEF StreamTypes
    <2>5. StreamTypes'
        BY <1>0, <2>1, <2>4 DEF StreamTypes, MaxRequests, Kinds
    <2>6. \A d \in Conns \ {c} : sent'[d] = sent[d]
        BY <1>0, <2>1 DEF StreamTypes
    <2> QED BY <1>0, <2>1, <2>3, <2>5, <2>6 DEF Streams
<1>4. ASSUME NEW c \in Conns, Receive(c) PROVE StreamTypes' /\ Streams'
    <2>1. /\ got' = [got EXCEPT ![c] = sent[c]] /\ used' = used /\ UNCHANGED client
          /\ pc' = [pc EXCEPT ![c] = IF pc[c] = "body" THEN "body" ELSE "read"]
        BY <1>4 DEF Receive, Goto
    <2>2. sent[c] \in Nat /\ used[c] \in Nat /\ used[c] <= sent[c] /\ used' = [used EXCEPT ![c] = used[c]]
        BY <1>0, <2>1, SettingIs DEF StreamTypes
    <2>3. used[c] \in Nat /\ used[c] <= sent[c] /\ sent[c] <= sent[c]
        BY <2>1, <2>2
    <2>4. /\ \A d \in Conns \ {c} : pc'[d] = pc[d]
          /\ pc'[c] \notin {"wait", "respond"}
        BY <1>0, <2>1 DEF LoopTypes
    <2> QED BY <1>0, <2>1, <2>2, <2>3, <2>4, StreamMoves
<1>5. ASSUME NEW c \in Conns, ReadRequest(c) PROVE StreamTypes' /\ Streams'
    <2>1. /\ got[c] >= used[c] + 2 /\ used' = [used EXCEPT ![c] = used[c] + 2]
          /\ got' = got /\ UNCHANGED client
          /\ pc' = [pc EXCEPT ![c] = "wait"] \/ pc' = [pc EXCEPT ![c] = "respond"]
        BY <1>5 DEF ReadRequest, Complete, Use, Call, CallHandler, Goto
    <2>2. got[c] \in Nat /\ used[c] \in Nat /\ got[c] <= sent[c] /\ got' = [got EXCEPT ![c] = got[c]]
        BY <1>0, <2>1 DEF StreamTypes
    <2>3. used[c] + 2 \in Nat /\ used[c] + 2 <= got[c] /\ used[c] + 2 >= 1
        BY <2>1, <2>2
    <2>4. /\ \A d \in Conns \ {c} : pc'[d] = pc[d]
          /\ pc'[c] \in {"wait", "respond"}
        BY <1>0, <2>1 DEF LoopTypes
    <2> QED BY <1>0, <2>1, <2>2, <2>3, <2>4, StreamMoves
<1>6. ASSUME NEW c \in Conns, Continue(c) PROVE StreamTypes' /\ Streams'
    <2>1. /\ got[c] > used[c] /\ used' = [used EXCEPT ![c] = used[c] + 1]
          /\ got' = got /\ UNCHANGED client
          /\ pc' = [pc EXCEPT ![c] = "body"] \/ pc' = [pc EXCEPT ![c] = "end"]
        BY <1>6 DEF Continue, Complete, Use, Goto
    <2>2. got[c] \in Nat /\ used[c] \in Nat /\ got[c] <= sent[c] /\ got' = [got EXCEPT ![c] = got[c]]
        BY <1>0, <2>1 DEF StreamTypes
    <2>3. used[c] + 1 \in Nat /\ used[c] + 1 <= got[c]
        BY <2>1, <2>2
    <2>4. /\ \A d \in Conns \ {c} : pc'[d] = pc[d]
          /\ pc'[c] \notin {"wait", "respond"}
        BY <1>0, <2>1 DEF LoopTypes
    <2> QED BY <1>0, <2>1, <2>2, <2>3, <2>4, StreamMoves
<1>7. ASSUME NEW c \in Conns, ReadBody(c) PROVE StreamTypes' /\ Streams'
    <2>1. /\ got[c] > used[c] /\ used' = [used EXCEPT ![c] = used[c] + 1]
          /\ got' = got /\ UNCHANGED client
          /\ pc' = [pc EXCEPT ![c] = "wait"] \/ pc' = [pc EXCEPT ![c] = "respond"]
        BY <1>7 DEF ReadBody, Complete, Use, Call, CallHandler, Goto
    <2>2. got[c] \in Nat /\ used[c] \in Nat /\ got[c] <= sent[c] /\ got' = [got EXCEPT ![c] = got[c]]
        BY <1>0, <2>1 DEF StreamTypes
    <2>3. used[c] + 1 \in Nat /\ used[c] + 1 <= got[c] /\ used[c] + 1 >= 1
        BY <2>1, <2>2
    <2>4. /\ \A d \in Conns \ {c} : pc'[d] = pc[d]
          /\ pc'[c] \in {"wait", "respond"}
        BY <1>0, <2>1 DEF LoopTypes
    <2> QED BY <1>0, <2>1, <2>2, <2>3, <2>4, StreamMoves
<1>8. ASSUME NEW c \in Conns, End(c) PROVE StreamTypes' /\ Streams'
    <2>1. /\ UNCHANGED <<setting, requested>>
          /\ kinds' = [kinds EXCEPT ![c] = <<>>] /\ sent' = [sent EXCEPT ![c] = 0]
          /\ got' = [got EXCEPT ![c] = 0] /\ used' = [used EXCEPT ![c] = 0]
          /\ pc' = [pc EXCEPT ![c] = "close"] \/ pc' = [pc EXCEPT ![c] = "done"]
        BY <1>8 DEF End, Goto
    <2>2. MaxRequests \in Nat /\ 0 \in 0..2*MaxRequests /\ <<>> \in Seq(Kinds)
        BY <1>0, SettingIs DEF StreamTypes
    <2>3. /\ kinds' \in [Conns -> Seq(Kinds)] /\ sent' \in [Conns -> 0..2*MaxRequests]
          /\ got' \in [Conns -> Nat] /\ used' \in [Conns -> Nat]
          /\ kinds'[c] = <<>> /\ sent'[c] = 0 /\ got'[c] = 0 /\ used'[c] = 0
          /\ \A d \in Conns \ {c} : /\ kinds'[d] = kinds[d] /\ sent'[d] = sent[d]
                                    /\ got'[d] = got[d] /\ used'[d] = used[d]
        BY <1>0, <2>1, <2>2 DEF StreamTypes
    <2>4. StreamTypes'
        BY <1>0, <2>1, <2>3 DEF StreamTypes, MaxRequests, Kinds
    <2>5. /\ \A d \in Conns \ {c} : pc'[d] = pc[d]
          /\ pc'[c] \notin {"wait", "respond"}
        BY <1>0, <2>1 DEF LoopTypes
    <2>6. Len(<<>>) = 0 /\ Len(kinds[c]) \in Nat /\ Len(kinds[c]) <= requested /\ requested \in Nat
        BY <1>0, <2>2 DEF StreamTypes, Streams
    <2>7. ASSUME NEW d \in Conns
          PROVE  /\ sent'[d] \in {2 * Len(kinds'[d]) - 1, 2 * Len(kinds'[d])}
                 /\ Len(kinds'[d]) <= requested'
                 /\ pc'[d] \in {"wait", "respond"} => used'[d] >= 1
        <3>1. CASE d = c
            BY <2>1, <2>3, <2>5, <2>6, <3>1
        <3>2. CASE d # c
            BY <1>0, <2>1, <2>3, <2>5, <3>2 DEF Streams
        <3> QED BY <3>1, <3>2
    <2> QED BY <2>4, <2>7 DEF Streams
(* The others. *)
<1>9. ASSUME NEW c \in Conns, Arrive(c) \/ Register(c) PROVE StreamTypes' /\ Streams'
    <2>1. UNCHANGED <<client, got, used>>
        BY <1>9 DEF Arrive, Register, Refuse, Count, CountOver, RefuseOver, stream
    <2>2. \/ pc' = [pc EXCEPT ![c] = "refuse"] \/ pc' = [pc EXCEPT ![c] = "count"]
          \/ pc' = [pc EXCEPT ![c] = "done"] \/ pc' = [pc EXCEPT ![c] = "top"]
          \/ pc' = [pc EXCEPT ![c] = "over"] \/ pc' = [pc EXCEPT ![c] = "close"]
        BY <1>9 DEF Arrive, Register, Refuse, Count, CountOver, RefuseOver, Goto
    <2> QED BY <1>0, <2>1, <2>2, StreamFrame DEF LoopTypes
<1>10. ASSUME NEW c \in Conns, KeepaliveEnds(c) \/ AwaitFirstByte(c) \/ FirstByte(c) \/ ReadEOF(c) \/ ReadError(c)
       PROVE  StreamTypes' /\ Streams'
    <2>1. UNCHANGED <<client, got, used>>
        BY <1>10 DEF KeepaliveEnds, AwaitFirstByte, FirstByte, ReadEOF, ReadError, stream
    <2>2. \/ pc' = [pc EXCEPT ![c] = "expired"] \/ pc' = [pc EXCEPT ![c] = "first"]
          \/ pc' = [pc EXCEPT ![c] = "read"] \/ pc' = [pc EXCEPT ![c] = "end"]
        BY <1>10 DEF KeepaliveEnds, AwaitFirstByte, FirstByte, ReadEOF, ReadError, Goto
    <2> QED BY <1>0, <2>1, <2>2, StreamFrame DEF LoopTypes
<1>11. ASSUME NEW c \in Conns, AnswerStep(c)
       PROVE  StreamTypes' /\ Streams'
    <2>1. UNCHANGED <<client, got, used>>
        BY <1>11 DEF AnswerStep, Returns, TimesOut, RespondLater, Respond, Hijack, stream
    <2>2. \/ pc[c] = "wait" /\ pc' = [pc EXCEPT ![c] = "respond"]
          \/ pc' = [pc EXCEPT ![c] = "top"] \/ pc' = [pc EXCEPT ![c] = "end"]
        BY <1>11 DEF AnswerStep, Returns, TimesOut, RespondLater, Respond, Hijack, Goto
    <2> QED BY <1>0, <2>1, <2>2, StreamFrame DEF LoopTypes
<1>12. ASSUME NEW c \in Conns, Close(c) \/ Leave(c)
       PROVE  StreamTypes' /\ Streams'
    <2>1. UNCHANGED <<client, got, used>>
        BY <1>12 DEF Close, Leave, stream
    <2>2. pc' = [pc EXCEPT ![c] = "unregister"] \/ pc' = [pc EXCEPT ![c] = "done"]
        BY <1>12 DEF Close, Leave, Goto
    <2> QED BY <1>0, <2>1, <2>2, StreamFrame DEF LoopTypes
<1>13. ASSUME UNCHANGED <<client, got, used, pc>> PROVE StreamTypes' /\ Streams'
    BY <1>0, <1>13, StreamFrame
<1>14. ASSUME NEW c \in Conns, HijackEnds(c) \/ HijackClose(c) \/ HijackLeave(c)
       PROVE  StreamTypes' /\ Streams'
    BY <1>13, <1>14 DEF HijackEnds, HijackClose, HijackLeave, stream
<1>15. ASSUME FreeSlot \/ \E x \in Ctxs : Tick(x) \/ HandlerEnds(x) PROVE StreamTypes' /\ Streams'
    BY <1>13, <1>15 DEF FreeSlot, Tick, HandlerEnds, stream, loop
<1> QED BY <1>1, <1>2, <1>3, <1>4, <1>5, <1>6, <1>7, <1>8, <1>9, <1>10, <1>11, <1>12, <1>14, <1>15
        DEF Next, ServerStep, Serve, Client, ReadStep, Depart

-----------------------------------------------------------------------------
(* What serveConn and the sockets are made of *)

(* There is a perIPConn for a connection that arrives: those in use have each    *)
(* another connection in it.                                                    *)
LEMMA FreeWrapper ==
    ASSUME LoopTypes, Wrapped, Readers, NEW c \in Conns, pc[c] = "new"
    PROVE  \E w \in Wrappers : inner[w] = Nil
<1> SUFFICES ASSUME \A w \in Wrappers : inner[w] # Nil PROVE FALSE
    OBVIOUS
<1>1. ~Inside(c)
    BY DEF Inside, Registered, Readers, ReaderAt
<1>2. \A w \in Wrappers : inner[w] \in Conns \ {c} /\ wrap[inner[w]] = w
    BY <1>1 DEF LoopTypes, Wrapped
<1>3. inner \in [Wrappers -> Conns \ {c}]
    BY <1>2 DEF LoopTypes
<1>4. /\ IsFiniteSet(Conns) /\ IsFiniteSet(Wrappers) /\ Cardinality(Wrappers) >= Cardinality(Conns)
      /\ Cardinality(Conns) \in Nat /\ Cardinality(Wrappers) \in Nat
    BY NumbersAssumption, FS_CardinalityType
<1>5. IsFiniteSet(Conns \ {c}) /\ Cardinality(Conns \ {c}) = Cardinality(Conns) - 1
    BY <1>4, FS_RemoveElement
<1>6. Cardinality(Conns \ {c}) < Cardinality(Wrappers)
    BY <1>4, <1>5
<1>7. \E v, w \in Wrappers : v # w /\ inner[v] = inner[w]
    BY <1>3, <1>4, <1>5, <1>6, FS_PigeonHole
<1> QED BY <1>2, <1>7

LEMMA NewWrapper ==
    ASSUME LoopTypes, Wrapped, Readers, NEW c \in Conns, pc[c] = "new", AcquirePerIPConn(c)
    PROVE  \E w \in Wrappers : /\ inner[w] = Nil
                               /\ wrap' = [wrap EXCEPT ![c] = w]
                               /\ inner' = [inner EXCEPT ![w] = c]
<1> DEFINE w == CHOOSE v \in Wrappers : inner[v] = Nil
<1>1. w \in Wrappers /\ inner[w] = Nil
    BY FreeWrapper
<1>2. wrap' = [wrap EXCEPT ![c] = w] /\ inner' = [inner EXCEPT ![w] = c]
    BY DEF AcquirePerIPConn
<1> QED BY <1>1, <1>2

LEMMA LoopNext ==
    ASSUME IInv, [Next]_vars
    PROVE  LoopTypes'
<1>0. /\ LoopTypes /\ DataTypes /\ CtxInv /\ Readers /\ Wrapped
      /\ \A c \in Conns : pc[c] \in Using => cx[c] \in Ctxs
    BY TypeParts DEF IInv, CtxInv, LimitInv, Hands, LoopTypes
<1>1. ASSUME UNCHANGED <<fbr, loop, sockets, pool>> PROVE LoopTypes'
    BY <1>0, <1>1 DEF loop, sockets, LoopTypes
<1>2. ASSUME NEW c \in Conns, Register(c) PROVE LoopTypes'
    <2>1. /\ pc[c] = "new" /\ UNCHANGED <<fbr, cx, closing, hj, open, pool>>
          /\ pc' = [pc EXCEPT ![c] = "refuse"] \/ pc' = [pc EXCEPT ![c] = "count"]
          /\ AcquirePerIPConn(c) \/ UNCHANGED <<wrap, inner>>
        BY <1>2 DEF Register, Goto, sockets, stream, contexts
    <2>2. wrap' \in [Conns -> Wrappers \cup {Nil}] /\ inner' \in [Wrappers -> Conns \cup {Nil}]
        <3>1. CASE AcquirePerIPConn(c)
            BY <1>0, <2>1, <3>1, NewWrapper DEF LoopTypes
        <3>2. CASE UNCHANGED <<wrap, inner>>
            BY <1>0, <3>2 DEF LoopTypes
        <3> QED BY <2>1, <3>1, <3>2
    <2> QED BY <1>0, <2>1, <2>2 DEF LoopTypes
<1>3. ASSUME NEW c \in Conns, Refuse(c) \/ CountOver(c) \/ RefuseOver(c) PROVE LoopTypes'
    BY <1>0, <1>3 DEF Refuse, CountOver, RefuseOver, Goto, LoopTypes, stream, loop, sockets, contexts
<1>4. ASSUME NEW c \in Conns, Count(c) PROVE LoopTypes'
    BY <1>0, <1>4, AcquiredIsFresh DEF Count, Acquire, Goto, LoopTypes, stream, sockets
<1>5. ASSUME NEW c \in Conns, Close(c) \/ Leave(c) PROVE LoopTypes'
    BY <1>0, <1>5 DEF Close, Leave, CloseSocket, Unregister, Goto, LoopTypes, stream, sockets, contexts
<1>6. ASSUME NEW c \in Conns, End(c) PROVE LoopTypes'
    BY <1>0, <1>6 DEF End, Goto, LoopTypes, sockets, Using
<1>7. ASSUME NEW c \in Conns, HijackEnds(c) \/ HijackClose(c) \/ HijackLeave(c) PROVE LoopTypes'
    BY <1>0, <1>7 DEF HijackEnds, HijackClose, HijackLeave, CloseSocket, Unregister, LoopTypes,
                      stream, sockets, contexts
<1>8. ASSUME NEW c \in Conns, KeepaliveEnds(c) \/ AwaitFirstByte(c) PROVE LoopTypes'
    BY <1>0, <1>8 DEF KeepaliveEnds, AwaitFirstByte, Goto, LoopTypes, stream, sockets, contexts, Using
<1>9. ASSUME NEW c \in Conns, FirstByte(c) PROVE LoopTypes'
    <2>1. PICK x \in Acquirable :
            /\ cx' = [cx EXCEPT ![c] = x] /\ pool' = pool \ {x}
            /\ fbr' = [fbr EXCEPT ![c] = x] \/ fbr' = fbr
        BY <1>9 DEF FirstByte, Acquire
    <2>2. pc' = [pc EXCEPT ![c] = "read"] \/ pc' = [pc EXCEPT ![c] = "end"]
        BY <1>9 DEF FirstByte, Goto
    <2>3. UNCHANGED <<closing, hj, open, wrap, inner>>
        BY <1>9 DEF FirstByte, sockets
    <2> QED BY <1>0, <2>1, <2>2, <2>3, AcquiredIsFresh DEF LoopTypes
<1>10. ASSUME NEW c \in Conns, Receive(c) \/ ReadEOF(c) \/ ReadError(c) PROVE LoopTypes'
    BY <1>0, <1>10 DEF Receive, ReadEOF, ReadError, Goto, LoopTypes, stream, sockets, contexts
<1>11. ASSUME NEW c \in Conns, ReadRequest(c) \/ Continue(c) \/ ReadBody(c) PROVE LoopTypes'
    <2>1. /\ fbr' = [fbr EXCEPT ![c] = Nil] \/ fbr' = fbr
          /\ UNCHANGED <<cx, hj, open, wrap, inner, pool>>
        BY <1>0, <1>11 DEF ReadRequest, Continue, ReadBody, Use, LoopTypes, sockets
    <2>2. \E p \in {"wait", "respond", "body", "end"} : pc' = [pc EXCEPT ![c] = p]
        BY <1>11 DEF ReadRequest, Continue, ReadBody, Call, CallHandler, Goto
    <2>3. \E b \in BOOLEAN : closing' = [closing EXCEPT ![c] = b] \/ closing' = closing
        BY <1>11 DEF ReadRequest, Continue, ReadBody, Call, CallHandler, CloseFast
    <2> QED BY <1>0, <2>1, <2>2, <2>3 DEF LoopTypes
<1>12. ASSUME NEW c \in Conns, Returns(c) \/ RespondLater(c) \/ Respond(c) PROVE LoopTypes'
    <2>1. UNCHANGED <<fbr, cx, closing, hj, open, wrap, inner, pool>>
        BY <1>12 DEF Returns, RespondLater, Respond, stream, sockets
    <2>2. \E p \in {"respond", "top", "end"} : pc' = [pc EXCEPT ![c] = p]
        BY <1>12 DEF Returns, RespondLater, Respond, Goto
    <2> QED BY <1>0, <2>1, <2>2 DEF LoopTypes
<1>13. ASSUME NEW c \in Conns, TimesOut(c) PROVE LoopTypes'
    <2>1. PICK x \in Acquirable : cx' = [cx EXCEPT ![c] = x] /\ pool' = pool \ {x}
        BY <1>13 DEF TimesOut, Acquire
    <2>2. UNCHANGED <<fbr, closing, hj, open, wrap, inner>> /\ pc' = [pc EXCEPT ![c] = "respond"]
        BY <1>13 DEF TimesOut, Goto, stream, sockets
    <2> QED BY <1>0, <2>1, <2>2, AcquiredIsFresh DEF LoopTypes
<1>14. ASSUME NEW c \in Conns, Hijack(c) PROVE LoopTypes'
    <2>1. /\ UNCHANGED <<fbr, closing, open, wrap, inner>> /\ pc' = [pc EXCEPT ![c] = "end"]
          /\ hj' = [hj EXCEPT ![c] = "run"] \/ hj' = hj
        BY <1>14 DEF Hijack, Goto, stream, sockets
    <2>2. \/ \E x \in Acquirable : cx' = [cx EXCEPT ![c] = x] /\ pool' = pool \ {x}
          \/ UNCHANGED <<cx, pool>>
        BY <1>14 DEF Hijack, Acquire
    <2> QED BY <1>0, <2>1, <2>2, AcquiredIsFresh DEF LoopTypes
<1>15. ASSUME FreeSlot \/ \E x \in Ctxs : Tick(x) \/ HandlerEnds(x) PROVE LoopTypes'
    BY <1>1, <1>15 DEF FreeSlot, Tick, HandlerEnds, stream, contexts
<1>16. ASSUME NEW c \in Conns, Client(c) PROVE LoopTypes'
    BY <1>1, <1>16 DEF Client, Send, SendRest, stream, contexts
<1>17. ASSUME UNCHANGED vars PROVE LoopTypes'
    BY <1>1, <1>17 DEF vars, stream, contexts
<1> QED BY <1>2, <1>3, <1>4, <1>5, <1>6, <1>7, <1>8, <1>9, <1>10, <1>11, <1>12, <1>13, <1>14, <1>15,
           <1>16, <1>17
        DEF Next, ServerStep, Serve, Arrive, ReadStep, AnswerStep, Depart

-----------------------------------------------------------------------------
(* Answers and the fields of contexts *)

LEMMA ResponseIsSent ==
    ASSUME StreamTypes, Streams, DataTypes, NEW c \in Conns, cx[c] \in Ctxs, pc[c] = "respond"
    PROVE  Response(c) \in Sent
<1>1. Current(c) \in 1..MaxRequests + 1
    BY ReadingIsSent DEF Streams
<1>2. /\ ctx[cx[c]] \in Contexts
      /\ ctx[cx[c]].resp \in {"ok", "busy", "timeout", "error"} \X (Requests \cup {Nil})
    BY DEF DataTypes, Contexts
<1>3. ctx[cx[c]].resp[1] \in Answers /\ ctx[cx[c]].resp[2] \in Requests \cup {Nil}
    BY <1>2 DEF Answers
<1>4. Closing(c) \in BOOLEAN
    BY DEF Closing
<1> QED BY <1>1, <1>3, <1>4 DEF Response, Sent

LEMMA AnswerIsSent ==
    ASSUME StreamTypes, Streams, NEW c \in Conns, NEW what \in Answers, NEW last \in BOOLEAN, NEW body \in BOOLEAN
    PROVE  Answer(c, Nil, what, last, body) \in Sent
<1>1. Reading(c) \in 1..MaxRequests + 1
    BY ReadingIsSent
<1> QED BY <1>1 DEF Answer, Sent

(* What a step may do to the answers of a connection. *)
LEMMA AnswersMove ==
    ASSUME DataTypes, setting' = setting, NEW c \in Conns, NEW a \in Sent,
           \/ bw' = bw
           \/ bw' = [bw EXCEPT ![c] = <<>>]
           \/ bw' = [bw EXCEPT ![c] = Append(@, a)],
           \/ out' = out
           \/ out' = [out EXCEPT ![c] = <<>>]
           \/ out' = [out EXCEPT ![c] = bw[c] \o <<a>>]
    PROVE  bw' \in [Conns -> Seq(Sent')] /\ out' \in [Conns -> Seq(Sent')]
<1>1. /\ bw[c] \in Seq(Sent) /\ <<>> \in Seq(Sent) /\ <<a>> \in Seq(Sent)
      /\ bw \in [Conns -> Seq(Sent)] /\ out \in [Conns -> Seq(Sent)]
    BY DEF DataTypes
<1>2. Append(bw[c], a) \in Seq(Sent) /\ bw[c] \o <<a>> \in Seq(Sent)
    BY <1>1
<1>3. Sent' = Sent
    BY SettingStays
<1>4. bw' \in [Conns -> Seq(Sent)]
    BY <1>1, <1>2
<1>5. out' \in [Conns -> Seq(Sent)]
    BY <1>1, <1>2
<1> QED BY <1>3, <1>4, <1>5

LEMMA SettingNext == [Next]_vars => setting' = setting
<1> SUFFICES ASSUME [Next]_vars PROVE setting' = setting
    OBVIOUS
<1>1. ASSUME NEW c \in Conns,
             \/ Client(c) \/ Register(c) \/ Arrive(c) \/ Depart(c)
             \/ HijackEnds(c) \/ HijackClose(c) \/ HijackLeave(c)
      PROVE  setting' = setting
    BY <1>1 DEF Client, Send, SendRest, Register, Arrive, Refuse, Count, CountOver, RefuseOver,
                Depart, End, Close, Leave, HijackEnds, HijackClose, HijackLeave, client
<1>2. ASSUME NEW c \in Conns, ReadStep(c) PROVE setting' = setting
    BY <1>2 DEF ReadStep, KeepaliveEnds, AwaitFirstByte, FirstByte, Receive, ReadRequest, Continue,
                ReadBody, ReadEOF, ReadError, client
<1>3. ASSUME NEW c \in Conns, AnswerStep(c) PROVE setting' = setting
    BY <1>3 DEF AnswerStep, Returns, TimesOut, RespondLater, Respond, Hijack, client
<1>4. ASSUME FreeSlot \/ (\E x \in Ctxs : Tick(x) \/ HandlerEnds(x)) \/ UNCHANGED vars
      PROVE  setting' = setting
    BY <1>4 DEF FreeSlot, Tick, HandlerEnds, vars, client
<1> QED BY <1>1, <1>2, <1>3, <1>4 DEF Next, ServerStep, Serve

LEMMA AnswersNext ==
    ASSUME IInv, [Next]_vars
    PROVE  bw' \in [Conns -> Seq(Sent')] /\ out' \in [Conns -> Seq(Sent')]
<1> DEFINE Goal == bw' \in [Conns -> Seq(Sent')] /\ out' \in [Conns -> Seq(Sent')]
<1>0. /\ StreamTypes /\ Streams /\ LoopTypes /\ DataTypes
      /\ \A c \in Conns : pc[c] \in Using => cx[c] \in Ctxs
    BY TypeParts DEF IInv, CtxInv, Hands, LoopTypes
<1>1. setting' = setting
    BY SettingNext
<1>2. ASSUME bw' = bw, out' = out PROVE Goal
    BY <1>0, <1>1, <1>2, SettingStays DEF DataTypes
<1>3. ASSUME NEW c \in Conns, Receive(c) \/ End(c) PROVE Goal
    <2>1. /\ bw' = bw \/ bw' = [bw EXCEPT ![c] = <<>>]
          /\ out' = [out EXCEPT ![c] = <<>>]
        BY <1>3 DEF Receive, End
    <2>2. Answer(c, Nil, "error", TRUE, TRUE) \in Sent
        BY <1>0, AnswerIsSent DEF Answers
    <2> QED BY <1>0, <1>1, <2>1, <2>2, AnswersMove
<1>4. ASSUME NEW c \in Conns, Continue(c) PROVE Goal
    <2>1. /\ bw' = [bw EXCEPT ![c] = <<>>]
          /\ out' = [out EXCEPT ![c] = bw[c] \o <<Answer(c, Nil, "continue", FALSE, FALSE)>>] \/ out' = out
        BY <1>4 DEF Continue
    <2>2. Answer(c, Nil, "continue", FALSE, FALSE) \in Sent
        BY <1>0, AnswerIsSent DEF Answers
    <2> QED BY <1>0, <1>1, <2>1, <2>2, AnswersMove
<1>5. ASSUME NEW c \in Conns, ReadError(c) PROVE Goal
    <2>1. /\ bw' = [bw EXCEPT ![c] = <<>>]
          /\ out' = [out EXCEPT ![c] = bw[c] \o <<Answer(c, Nil, "error", TRUE, TRUE)>>] \/ out' = out
        BY <1>5 DEF ReadError
    <2>2. Answer(c, Nil, "error", TRUE, TRUE) \in Sent
        BY <1>0, AnswerIsSent DEF Answers
    <2> QED BY <1>0, <1>1, <2>1, <2>2, AnswersMove
<1>6. ASSUME NEW c \in Conns, RespondLater(c) \/ Respond(c) \/ Hijack(c) PROVE Goal
    <2>1. /\ bw' = [bw EXCEPT ![c] = <<>>] \/ bw' = [bw EXCEPT ![c] = Append(@, Response(c))]
          /\ out' = [out EXCEPT ![c] = bw[c] \o <<Response(c)>>] \/ out' = out
        BY <1>6 DEF RespondLater, Respond, Hijack
    <2>2. Response(c) \in Sent
        BY <1>0, <1>6, ResponseIsSent DEF RespondLater, Respond, Hijack, Using
    <2> QED BY <1>0, <1>1, <2>1, <2>2, AnswersMove
<1>7. ASSUME NEW c \in Conns,
             \/ Client(c) \/ Register(c) \/ Arrive(c) \/ Close(c) \/ Leave(c)
             \/ HijackEnds(c) \/ HijackClose(c) \/ HijackLeave(c)
      PROVE  Goal
    BY <1>2, <1>7 DEF Client, Send, SendRest, Register, Arrive, Refuse, Count, CountOver, RefuseOver,
                      Close, Leave, HijackEnds, HijackClose, HijackLeave, answers
<1>8. ASSUME NEW c \in Conns,
             \/ KeepaliveEnds(c) \/ AwaitFirstByte(c) \/ FirstByte(c) \/ ReadRequest(c) \/ ReadBody(c)
             \/ ReadEOF(c) \/ Returns(c) \/ TimesOut(c)
      PROVE  Goal
    BY <1>2, <1>8 DEF KeepaliveEnds, AwaitFirstByte, FirstByte, ReadRequest, ReadBody, ReadEOF, Returns,
                      TimesOut, answers
<1>9. ASSUME FreeSlot \/ (\E x \in Ctxs : Tick(x) \/ HandlerEnds(x)) \/ UNCHANGED vars PROVE Goal
    BY <1>2, <1>9 DEF FreeSlot, Tick, HandlerEnds, vars, answers
<1> QED BY <1>3, <1>4, <1>5, <1>6, <1>7, <1>8, <1>9
        DEF Next, ServerStep, Serve, ReadStep, AnswerStep, Depart

(* The fields of a context, and what the steps put into them. *)
LEMMA ContextParts ==
    ASSUME NEW r
    PROVE  r \in Contexts <=>
             /\ r = [req |-> r.req, parsed |-> r.parsed, resp |-> r.resp, closes |-> r.closes,
                     hijacks |-> r.hijacks, timedOut |-> r.timedOut, timeoutCh |-> r.timeoutCh,
                     timer |-> r.timer, handler |-> r.handler]
             /\ r.req \in Requests \cup {Nil}
             /\ r.resp \in {"ok", "busy", "timeout", "error"} \X (Requests \cup {Nil})
             /\ r.parsed \in BOOLEAN /\ r.closes \in BOOLEAN /\ r.hijacks \in BOOLEAN /\ r.timedOut \in BOOLEAN
             /\ r.timeoutCh \in {0, 1} /\ r.timer \in {"off", "armed", "tick"} /\ r.handler \in {"none", "run"}
BY DEF Contexts

LEMMA HandlerChanges ==
    ASSUME NEW r \in Contexts, NEW b1 \in BOOLEAN, NEW b2 \in BOOLEAN, NEW b3 \in BOOLEAN
    PROVE  [r EXCEPT !.resp = <<"ok", r.req>>, !.closes = b1, !.hijacks = b2, !.parsed = b3,
                     !.timeoutCh = 1, !.handler = "none"] \in Contexts
<1> DEFINE s == [r EXCEPT !.closes = b1, !.hijacks = b2, !.parsed = b3]
           t == [s EXCEPT !.resp = <<"ok", r.req>>, !.timeoutCh = 1, !.handler = "none"]
<1>1. <<"ok", r.req>> \in {"ok", "busy", "timeout", "error"} \X (Requests \cup {Nil})
    BY DEF Contexts
<1>2. s \in Contexts
    BY DEF Contexts
<1>3. t \in Contexts
    <2> HIDE DEF s
    <2> QED BY <1>1, <1>2 DEF Contexts
<1> QED BY <1>3 DEF Contexts

LEMMA ContextsNext ==
    ASSUME IInv, [Next]_vars
    PROVE  ctx' \in [Ctxs -> Contexts']
<1> DEFINE Goal == ctx' \in [Ctxs -> Contexts]
<1>0. /\ StreamTypes /\ Streams /\ LoopTypes /\ DataTypes /\ CtxInv
      /\ \A c \in Conns : pc[c] \in Using => cx[c] \in Ctxs
      /\ ctx \in [Ctxs -> Contexts]
    BY TypeParts DEF IInv, CtxInv, Hands, LoopTypes, DataTypes
<1>1. Contexts' = Contexts
    BY SettingNext, SettingStays
<1>2. ASSUME ctx' = ctx PROVE Goal
    BY <1>0, <1>2
<1>3. ASSUME NEW x \in Ctxs, NEW r \in Contexts, ctx' = [ctx EXCEPT ![x] = r] PROVE Goal
    BY <1>0, <1>3
<1>4. ASSUME NEW c \in Conns, Count(c) \/ FirstByte(c) PROVE Goal
    <2>1. PICK x \in Acquirable : ctx' = [ctx EXCEPT ![x] = Acquired(x)]
        BY <1>4 DEF Count, FirstByte
    <2> QED BY <1>0, <1>3, <2>1, AcquiredIsFresh
<1>5. ASSUME NEW c \in Conns, got[c] > used[c], cx[c] \in Ctxs, NEW t \in {"off", "armed"}, CallHandler(c, t) PROVE Goal
    <2> DEFINE x == cx[c]
               r == Request(c, Reading(c))
    <2>1. r \in Requests
        BY <1>0, <1>5, ReadingIsSent
    <2>2. x \in Ctxs /\ ctx[x] \in Contexts
        BY <1>0, <1>5
    <2>3. \/ ctx' = [ctx EXCEPT ![x] = [@ EXCEPT !.req = r, !.handler = "run", !.timer = t]]
          \/ ctx' = [ctx EXCEPT ![x] = [@ EXCEPT !.req = r, !.resp = <<"busy", r>>]]
        <3>1. CASE slots < Concurrency
            <4>1. ctx' = [ctx EXCEPT ![x].req = r, ![x].handler = "run", ![x].timer = t]
                BY <1>5, <3>1 DEF CallHandler
            <4> QED BY <1>0, <2>2, <4>1
        <3>2. CASE ~(slots < Concurrency)
            <4>1. ctx' = [ctx EXCEPT ![x].req = r, ![x].resp = <<"busy", r>>]
                BY <1>5, <3>2 DEF CallHandler
            <4> QED BY <1>0, <2>2, <4>1
        <3> QED BY <3>1, <3>2
    <2>4. /\ [ctx[x] EXCEPT !.req = r, !.handler = "run", !.timer = t] \in Contexts
          /\ [ctx[x] EXCEPT !.req = r, !.resp = <<"busy", r>>] \in Contexts
        BY <2>1, <2>2 DEF Contexts
    <2> QED BY <1>0, <2>2, <2>3, <2>4
<1>6. ASSUME NEW c \in Conns, ReadRequest(c) \/ ReadBody(c) PROVE Goal
    <2>1. got[c] > used[c] /\ CallHandler(c, "armed") /\ pc[c] \in Using
        BY <1>6 DEF ReadRequest, ReadBody, Complete, Call, Using
    <2> QED BY <1>0, <1>5, <2>1
<1>7. ASSUME NEW c \in Conns, Continue(c) PROVE Goal
    <2>1. /\ got[c] > used[c] /\ pc[c] \in Using
          /\ ctx' = [ctx EXCEPT ![cx[c]].req = Request(c, Reading(c))]
        BY <1>7 DEF Continue, Complete, Using
    <2>2. Request(c, Reading(c)) \in Requests /\ cx[c] \in Ctxs /\ ctx[cx[c]] \in Contexts
        BY <1>0, <2>1, ReadingIsSent
    <2>3. [ctx[cx[c]] EXCEPT !.req = Request(c, Reading(c))] \in Contexts
        BY <2>2 DEF Contexts
    <2> QED BY <1>0, <2>1, <2>2, <2>3
<1>8. ASSUME NEW c \in Conns, ReadError(c) PROVE Goal
    <2>1. /\ pc[c] \in Using /\ ctx' = [ctx EXCEPT ![cx[c]].req = Nil]
        BY <1>8 DEF ReadError, Unreadable, Using
    <2>2. cx[c] \in Ctxs /\ ctx[cx[c]] \in Contexts
        BY <1>0, <2>1
    <2>3. [ctx[cx[c]] EXCEPT !.req = Nil] \in Contexts
        BY <2>2 DEF Contexts
    <2> QED BY <1>0, <2>1, <2>2, <2>3
<1>9. ASSUME NEW x \in Ctxs, HandlerEnds(x) PROVE Goal
    <2>1. PICK o \in Outcomes, parse \in BOOLEAN :
             /\ parse => ctx[x].req # Nil /\ KindOf(ctx[x].req) = "rawClose"
             /\ ctx' = [ctx EXCEPT ![x] =
                IF @.timedOut THEN NewCtx
                ELSE [@ EXCEPT !.resp = <<"ok", ctx[x].req>>, !.closes = (o = "close"),
                               !.hijacks = (o = "hijack"), !.parsed = parse,
                               !.timeoutCh = 1, !.handler = "none"]]
        BY <1>9, Zenon DEF HandlerEnds
    <2>2. ctx[x] \in Contexts /\ ctx[x].req \in Requests \cup {Nil}
        BY <1>0 DEF Contexts
    <2>3. [ctx[x] EXCEPT !.resp = <<"ok", ctx[x].req>>, !.closes = (o = "close"),
                         !.hijacks = (o = "hijack"), !.parsed = parse,
                         !.timeoutCh = 1, !.handler = "none"] \in Contexts
        <3>1. (o = "close") \in BOOLEAN /\ (o = "hijack") \in BOOLEAN
            OBVIOUS
        <3> QED BY <2>2, <3>1, HandlerChanges, Zenon
    <2> QED BY <1>0, <2>1, <2>3, NewCtxIsFresh
<1>10. ASSUME NEW x \in Ctxs, Tick(x) PROVE Goal
    <2>1. [ctx[x] EXCEPT !.timer = "tick"] \in Contexts
        BY <1>0 DEF Contexts
    <2> QED BY <1>0, <1>10, <2>1 DEF Tick
<1>11. ASSUME NEW c \in Conns, Returns(c) PROVE Goal
    <2>1. cx[c] \in Ctxs /\ ctx[cx[c]] \in Contexts
        BY <1>0, <1>11 DEF Returns, Using
    <2>2. [ctx[cx[c]] EXCEPT !.timeoutCh = 0, !.timer = "off"] \in Contexts
        BY <2>1 DEF Contexts
    <2>3. ctx' = [ctx EXCEPT ![cx[c]] = [@ EXCEPT !.timeoutCh = 0, !.timer = "off"]]
        BY <1>0, <1>11, <2>1 DEF Returns
    <2> QED BY <1>0, <2>1, <2>2, <2>3
<1>12. ASSUME NEW c \in Conns, TimesOut(c) PROVE Goal
    <2>1. cx[c] \in Ctxs /\ ctx[cx[c]] \in Contexts
        BY <1>0, <1>12 DEF TimesOut, Using
    <2>2. PICK x \in Acquirable :
             ctx' = [ctx EXCEPT ![x] = [Acquired(x) EXCEPT !.resp = <<"timeout", Nil>>,
                                                           !.closes = got[c] > used[c]],
                                ![cx[c]].timedOut = TRUE, ![cx[c]].timer = "off"]
        BY <1>12, Zenon DEF TimesOut
    <2>3. x \in Ctxs /\ x # cx[c] /\ Acquired(x) \in Contexts
        BY <1>0, AcquiredIsFresh
    <2>4. /\ [Acquired(x) EXCEPT !.resp = <<"timeout", Nil>>, !.closes = got[c] > used[c]] \in Contexts
          /\ [ctx[cx[c]] EXCEPT !.timedOut = TRUE, !.timer = "off"] \in Contexts
        <3>1. ASSUME NEW r \in Contexts, NEW b \in BOOLEAN
              PROVE  [r EXCEPT !.resp = <<"timeout", Nil>>, !.closes = b] \in Contexts
            BY DEF Contexts
        <3>2. ASSUME NEW r \in Contexts
              PROVE  [r EXCEPT !.timedOut = TRUE, !.timer = "off"] \in Contexts
            BY DEF Contexts
        <3>3. (got[c] > used[c]) \in BOOLEAN
            OBVIOUS
        <3> QED BY <2>1, <2>3, <3>1, <3>2, <3>3, Zenon
    <2>5. ctx' = [ctx EXCEPT ![x] = [Acquired(x) EXCEPT !.resp = <<"timeout", Nil>>,
                                                        !.closes = got[c] > used[c]],
                             ![cx[c]] = [@ EXCEPT !.timedOut = TRUE, !.timer = "off"]]
        BY <1>0, <2>1, <2>2, <2>3
    <2> QED BY <1>0, <2>1, <2>3, <2>4, <2>5
<1>13. ASSUME NEW x \in Ctxs PROVE Clean(x) \in Contexts
    <2>1. NewCtx.resp = <<"ok", Nil>> /\ ctx[x] \in Contexts
        BY <1>0 DEF NewCtx
    <2>2. NewCtx.resp \in {"ok", "busy", "timeout", "error"} \X (Requests \cup {Nil})
        BY <2>1
    <2> QED BY <2>1, <2>2 DEF Clean, Contexts
<1>14. ASSUME NEW c \in Conns, RespondLater(c) \/ Respond(c) \/ Hijack(c) PROVE Goal
    <2>1. cx[c] \in Ctxs
        BY <1>0, <1>14 DEF RespondLater, Respond, Hijack, Using
    <2>2. \/ ctx' = [ctx EXCEPT ![cx[c]] = Clean(cx[c])]
          \/ \E x \in Acquirable : ctx' = [ctx EXCEPT ![x] = Acquired(x), ![cx[c]] = Clean(cx[c])]
        BY <1>14 DEF RespondLater, Respond, Hijack
    <2> QED BY <1>0, <1>13, <2>1, <2>2, AcquiredIsFresh
<1>15. ASSUME NEW c \in Conns,
             \/ Client(c) \/ Register(c) \/ Refuse(c) \/ CountOver(c) \/ RefuseOver(c) \/ Depart(c)
             \/ HijackEnds(c) \/ HijackClose(c) \/ HijackLeave(c)
       PROVE  Goal
    BY <1>2, <1>15 DEF Client, Send, SendRest, Register, Refuse, CountOver, RefuseOver,
                       Depart, End, Close, Leave, HijackEnds, HijackClose, HijackLeave, contexts
<1>16. ASSUME NEW c \in Conns, KeepaliveEnds(c) \/ AwaitFirstByte(c) \/ Receive(c) \/ ReadEOF(c)
       PROVE  Goal
    BY <1>2, <1>16 DEF KeepaliveEnds, AwaitFirstByte, Receive, ReadEOF, contexts
<1>17. ASSUME FreeSlot \/ UNCHANGED vars PROVE Goal
    BY <1>2, <1>17 DEF FreeSlot, vars, contexts
<1>18. Goal
    BY <1>4, <1>6, <1>7, <1>8, <1>9, <1>10, <1>11, <1>12, <1>14, <1>15, <1>16, <1>17
       DEF Next, ServerStep, Serve, Arrive, ReadStep, AnswerStep
<1> QED BY <1>1, <1>18

-----------------------------------------------------------------------------
(* Contexts change hands *)

(* serveConn keeps its context; its reader may be given up. *)
LEMMA HandsStay ==
    ASSUME LoopTypes, Hands, NEW c \in Conns, UNCHANGED <<cx, pool>>,
           fbr' = fbr \/ fbr' = [fbr EXCEPT ![c] = Nil],
           \A d \in Conns : pc'[d] \in Using <=> pc[d] \in Using
    PROVE  Hands'
<1>1. \A d \in Conns : fbr'[d] = fbr[d] \/ fbr'[d] = Nil
    BY DEF LoopTypes
<1>2. Nil \notin pool
    BY NumbersAssumption DEF LoopTypes
<1> QED BY <1>1, <1>2 DEF Hands

(* It takes another one, which nobody has. *)
LEMMA HandsTake ==
    ASSUME LoopTypes, DataTypes, CtxInv, NEW c \in Conns, NEW x \in Acquirable, Acquire(c, x),
           fbr' = fbr \/ (fbr[c] = Nil /\ fbr' = [fbr EXCEPT ![c] = x]),
           \A d \in Conns \ {c} : pc'[d] \in Using <=> pc[d] \in Using,
           pc'[c] \in Using
    PROVE  Hands'
<1>1. x \in Ctxs /\ x # Nil /\ \A d \in Conns : cx[d] # x /\ fbr[d] # x
    BY AcquiredIsFresh, NumbersAssumption
<1>2. /\ \A d \in Conns \ {c} : cx'[d] = cx[d] /\ fbr'[d] = fbr[d]
      /\ cx'[c] = x /\ pool' = pool \ {x}
      /\ fbr'[c] = fbr[c] \/ fbr'[c] = x
    BY DEF Acquire, LoopTypes
<1>3. Hands
    BY DEF CtxInv
<1>4. /\ \A d \in Conns : cx'[d] # Nil <=> pc'[d] \in Using
      /\ \A d \in Conns : cx'[d] \notin pool' /\ fbr'[d] \notin pool'
    BY <1>1, <1>2, <1>3 DEF Hands
<1>5. \A d, e \in Conns : d # e /\ cx'[d] # Nil => cx'[d] # cx'[e] /\ cx'[d] # fbr'[e]
    BY <1>1, <1>2, <1>3 DEF Hands
<1>6. \A d, e \in Conns : d # e /\ fbr'[d] # Nil => fbr'[d] # fbr'[e]
    BY <1>1, <1>2, <1>3 DEF Hands
<1> QED BY <1>4, <1>5, <1>6 DEF Hands

(* It gives its context back, and its reader does not read through it. *)
LEMMA HandsGive ==
    ASSUME LoopTypes, Hands, NEW c \in Conns,
           pool' = pool \cup {cx[c]}, cx' = [cx EXCEPT ![c] = Nil], cx[c] # Nil,
           \/ fbr' = [fbr EXCEPT ![c] = Nil]
           \/ fbr' = fbr /\ fbr[c] # cx[c],
           \A d \in Conns \ {c} : pc'[d] \in Using <=> pc[d] \in Using,
           pc'[c] \notin Using
    PROVE  Hands'
<1>0. Nil \notin pool
    BY NumbersAssumption DEF LoopTypes
<1>1. /\ \A d \in Conns \ {c} : cx'[d] = cx[d] /\ fbr'[d] = fbr[d]
      /\ cx'[c] = Nil /\ Nil \notin pool
      /\ fbr'[c] = Nil \/ (fbr'[c] = fbr[c] /\ fbr[c] # cx[c])
    <2>1. cx \in [Conns -> Ctxs \cup {Nil}] /\ fbr \in [Conns -> Ctxs \cup {Nil}]
        BY DEF LoopTypes
    <2> QED BY <1>0, <2>1
<1>2. /\ \A d \in Conns : cx'[d] # Nil <=> pc'[d] \in Using
      /\ \A d \in Conns : cx'[d] \notin pool' /\ fbr'[d] \notin pool'
    BY <1>1 DEF Hands
<1>3. \A d, e \in Conns : d # e /\ cx'[d] # Nil => cx'[d] # cx'[e] /\ cx'[d] # fbr'[e]
    BY <1>1 DEF Hands
<1>4. \A d, e \in Conns : d # e /\ fbr'[d] # Nil => fbr'[d] # fbr'[e]
    BY <1>1 DEF Hands
<1> QED BY <1>2, <1>3, <1>4 DEF Hands

(* A step of serveConn of c, which touches no context of the others. *)
LEMMA ConditionsMove ==
    ASSUME Conditions, NEW c \in Conns,
           \A x \in pool' : Fresh(ctx'[x]),
           \A d \in Conns \ {c} : pc'[d] = pc[d] /\ cx'[d] = cx[d],
           \A d \in Conns \ {c} : pc[d] \in Using => ctx'[cx[d]] = ctx[cx[d]],
           InUse(c)',
           \A x \in Ctxs : ctx'[x].handler = "run" =>
              \/ ctx'[x].timedOut
              \/ cx'[c] = x /\ pc'[c] = "wait"
              \/ /\ ctx[x].handler = "run" /\ ~ctx[x].timedOut
                 /\ cx[c] # x \/ pc[c] # "wait"
    PROVE  Conditions'
<1>1. ASSUME NEW d \in Conns \ {c} PROVE InUse(d)'
    <2>1. InUse(d)
        BY DEF Conditions
    <2>2. pc[d] \in Using \/ pc[d] \notin {"top", "read", "body", "end", "expired", "respond", "wait"}
        BY DEF Using
    <2> QED BY <2>1, <2>2 DEF InUse, Using
<1>2. ASSUME NEW x \in Ctxs, ctx'[x].handler = "run"
      PROVE  ctx'[x].timedOut \/ \E d \in Conns : cx'[d] = x /\ pc'[d] = "wait"
    <2>1. CASE ctx[x].handler = "run" /\ ~ctx[x].timedOut /\ (cx[c] # x \/ pc[c] # "wait")
        <3>1. PICK d \in Conns : cx[d] = x /\ pc[d] = "wait"
            BY <2>1 DEF Conditions
        <3> QED BY <2>1, <3>1
    <2> QED BY <1>2, <2>1
<1> QED BY <1>1, <1>2 DEF Conditions

(* Its context did not change, and it is somewhere where the same is required. *)
LEMMA InUseStays ==
    ASSUME NEW c \in Conns, InUse(c), ctx'[cx'[c]] = ctx[cx[c]],
           \/ pc'[c] = pc[c]
           \/ pc'[c] \notin {"top", "read", "body", "end", "expired", "respond", "wait"}
           \/ /\ pc[c] \in {"top", "read", "body", "end", "expired"}
              /\ pc'[c] \in {"top", "read", "body", "end", "expired"}
    PROVE  InUse(c)'
BY DEF InUse

LEMMA ReadersMove ==
    ASSUME Readers, NEW c \in Conns, ReaderAt(c)',
           \A d \in Conns \ {c} : /\ pc'[d] = pc[d] /\ got'[d] = got[d] /\ used'[d] = used[d]
                                  /\ fbr'[d] = fbr[d] /\ hj'[d] = hj[d] /\ cx'[d] = cx[d]
    PROVE  Readers'
<1> SUFFICES ASSUME NEW d \in Conns PROVE ReaderAt(d)'
    BY DEF Readers
<1>1. CASE d = c
    BY <1>1
<1>2. CASE d # c
    BY <1>2 DEF Readers, ReaderAt
<1> QED BY <1>1, <1>2

(* What is known before a step of serveConn of c. *)
LEMMA Before ==
    ASSUME IInv, NEW c \in Conns
    PROVE  /\ StreamTypes /\ LoopTypes /\ DataTypes /\ Hands /\ Readers /\ Conditions /\ CtxInv
           /\ InUse(c) /\ ReaderAt(c)
           /\ pc[c] \in Using => cx[c] \in Ctxs /\ cx[c] # Nil /\ ctx[cx[c]] \in Contexts
           /\ \A d \in Conns \ {c} : pc[d] \in Using => cx[d] \in Ctxs /\ cx[d] # cx[c]
           /\ cx[c] \notin pool /\ pool \subseteq Ctxs
<1>1. StreamTypes /\ LoopTypes /\ DataTypes /\ Hands /\ Readers /\ Conditions /\ CtxInv
    BY TypeParts DEF IInv, CtxInv
<1>2. InUse(c) /\ ReaderAt(c)
    BY <1>1 DEF Conditions, Readers
<1>3. pc[c] \in Using => cx[c] \in Ctxs /\ cx[c] # Nil /\ ctx[cx[c]] \in Contexts
    BY <1>1 DEF Hands, LoopTypes, DataTypes
<1>4. \A d \in Conns \ {c} : pc[d] \in Using => cx[d] \in Ctxs /\ cx[d] # cx[c]
    BY <1>1 DEF Hands, LoopTypes
<1> QED BY <1>1, <1>2, <1>3, <1>4 DEF Hands, LoopTypes

(* Steps of serveConn that keep the context as it is. *)
LEMMA KeepContext ==
    ASSUME IInv, NEW c \in Conns, UNCHANGED <<cx, pool, ctx>>,
           fbr' = fbr \/ fbr' = [fbr EXCEPT ![c] = Nil],
           \A d \in Conns \ {c} : /\ pc'[d] = pc[d] /\ got'[d] = got[d] /\ used'[d] = used[d] /\ hj'[d] = hj[d],
           pc'[c] \in Using <=> pc[c] \in Using,
           \/ pc'[c] = pc[c]
           \/ pc'[c] \notin Using /\ pc[c] \notin Using
           \/ /\ pc[c] \in {"top", "read", "body", "end", "expired"}
              /\ pc'[c] \in {"top", "read", "body", "end", "expired"},
           ReaderAt(c)'
    PROVE  CtxInv'
<1>1. /\ LoopTypes /\ Hands /\ Readers /\ Conditions /\ InUse(c)
    BY Before
<1>2. Hands'
    BY <1>1, HandsStay
<1>3. \A d \in Conns \ {c} : fbr'[d] = fbr[d]
    BY <1>1 DEF LoopTypes
<1>4. Readers'
    BY <1>1, <1>3, ReadersMove
<1>5. InUse(c)'
    BY <1>1, InUseStays DEF Using
<1>6. \A x \in Ctxs : ctx'[x].handler = "run" =>
              \/ ctx'[x].timedOut
              \/ cx'[c] = x /\ pc'[c] = "wait"
              \/ /\ ctx[x].handler = "run" /\ ~ctx[x].timedOut
                 /\ cx[c] # x \/ pc[c] # "wait"
    BY DEF Using
<1>7. Conditions'
    BY <1>1, <1>5, <1>6, ConditionsMove DEF Conditions
<1> QED BY <1>2, <1>4, <1>7 DEF CtxInv

(* Steps that change nothing but the fields of the context that serveConn has.   *)
LEMMA ChangeContext ==
    ASSUME IInv, NEW c \in Conns, pc[c] \in Using, pc'[c] \in Using, UNCHANGED <<cx, pool>>,
           fbr' = fbr \/ fbr' = [fbr EXCEPT ![c] = Nil],
           \A d \in Conns \ {c} : /\ pc'[d] = pc[d] /\ got'[d] = got[d] /\ used'[d] = used[d] /\ hj'[d] = hj[d],
           NEW r, ctx' = [ctx EXCEPT ![cx[c]] = r],
           /\ pc'[c] \in {"top", "read", "body", "end", "expired"} => Fresh(r)
           /\ pc'[c] = "respond" => AtRest(r)
           /\ pc'[c] = "wait" => ~r.timedOut /\ (r.timeoutCh = 1 => r.handler = "none"),
           ReaderAt(c)'
    PROVE  CtxInv'
<1>1. /\ LoopTypes /\ DataTypes /\ Hands /\ Readers /\ Conditions
      /\ cx[c] \in Ctxs /\ cx[c] \notin pool /\ pool \subseteq Ctxs
      /\ \A d \in Conns \ {c} : pc[d] \in Using => cx[d] \in Ctxs /\ cx[d] # cx[c]
    BY Before
<1>2. Hands'
    BY <1>1, HandsStay
<1>3. \A d \in Conns \ {c} : fbr'[d] = fbr[d]
    BY <1>1 DEF LoopTypes
<1>4. Readers'
    BY <1>1, <1>3, ReadersMove
<1>5. ctx'[cx[c]] = r /\ \A x \in Ctxs \ {cx[c]} : ctx'[x] = ctx[x]
    BY <1>1 DEF DataTypes
<1>6. InUse(c)'
    BY <1>5 DEF InUse
<1>7. \A x \in Ctxs : ctx'[x].handler = "run" =>
              \/ ctx'[x].timedOut
              \/ cx'[c] = x /\ pc'[c] = "wait"
              \/ /\ ctx[x].handler = "run" /\ ~ctx[x].timedOut
                 /\ cx[c] # x \/ pc[c] # "wait"
    <2> SUFFICES ASSUME NEW x \in Ctxs, ctx'[x].handler = "run", ~ctx'[x].timedOut
                 PROVE  \/ cx'[c] = x /\ pc'[c] = "wait"
                        \/ /\ ctx[x].handler = "run" /\ ~ctx[x].timedOut
                           /\ cx[c] # x \/ pc[c] # "wait"
        OBVIOUS
    <2>1. CASE x = cx[c]
        BY <1>5, <2>1 DEF Using, Fresh, AtRest
    <2>2. CASE x # cx[c]
        BY <1>5, <2>2
    <2> QED BY <2>1, <2>2
<1>8. Conditions'
    BY <1>1, <1>5, <1>6, <1>7, ConditionsMove DEF Conditions
<1> QED BY <1>2, <1>4, <1>8 DEF CtxInv

(* Steps that take another context, and may change the one before. *)
LEMMA TakeContext ==
    ASSUME IInv, NEW c \in Conns, NEW x \in Acquirable, Acquire(c, x), pc'[c] \in Using \ {"wait"},
           fbr' = fbr \/ (fbr[c] = Nil /\ fbr' = [fbr EXCEPT ![c] = x]),
           \A d \in Conns \ {c} : /\ pc'[d] = pc[d] /\ got'[d] = got[d] /\ used'[d] = used[d] /\ hj'[d] = hj[d],
           NEW r, NEW old,
           \/ ctx' = [ctx EXCEPT ![x] = r]
           \/ /\ ctx' = [ctx EXCEPT ![x] = r, ![cx[c]] = old]
              /\ pc[c] \in Using /\ (old.handler = "run" => old.timedOut),
           pc[c] = "wait" => old.timedOut /\ ctx' = [ctx EXCEPT ![x] = r, ![cx[c]] = old],
           AtRest(r), pc'[c] # "respond" => Fresh(r),
           ReaderAt(c)'
    PROVE  CtxInv'
<1>1. /\ LoopTypes /\ DataTypes /\ Hands /\ Readers /\ Conditions /\ CtxInv
      /\ pc[c] \in Using => cx[c] \in Ctxs
      /\ cx[c] \notin pool /\ pool \subseteq Ctxs
      /\ \A d \in Conns \ {c} : pc[d] \in Using => cx[d] \in Ctxs /\ cx[d] # cx[c]
    BY Before
<1>2. x \in Ctxs /\ \A d \in Conns : cx[d] # x /\ fbr[d] # x
    BY <1>1, AcquiredIsFresh
<1>3. Hands'
    BY <1>1, HandsTake
<1>4. /\ \A d \in Conns \ {c} : fbr'[d] = fbr[d] /\ cx'[d] = cx[d]
      /\ cx'[c] = x /\ pool' = pool \ {x}
    BY <1>1 DEF LoopTypes, Acquire
<1>5. Readers'
    BY <1>1, <1>4, ReadersMove
<1>6. /\ ctx'[x] = r
      /\ \A y \in Ctxs \ {x, cx[c]} : ctx'[y] = ctx[y]
      /\ \/ ctx'[cx[c]] = ctx[cx[c]] /\ pc[c] # "wait"
         \/ ctx'[cx[c]] = old /\ (old.handler = "run" => old.timedOut)
    <2>1. ctx \in [Ctxs -> Contexts] /\ x # cx[c]
        BY <1>1, <1>2 DEF DataTypes
    <2>2. CASE ctx' = [ctx EXCEPT ![x] = r] /\ pc[c] # "wait"
        BY <1>2, <2>1, <2>2
    <2>3. CASE /\ ctx' = [ctx EXCEPT ![x] = r, ![cx[c]] = old]
               /\ pc[c] \in Using /\ (old.handler = "run" => old.timedOut)
        BY <1>1, <1>2, <2>1, <2>3
    <2>4. pc[c] = "wait" => pc[c] \in Using
        BY DEF Using
    <2> QED BY <2>2, <2>3, <2>4
<1>7. InUse(c)'
    <2>1. ctx'[cx'[c]] = r /\ pc'[c] # "wait"
        BY <1>4, <1>6
    <2> QED BY <2>1 DEF InUse
<1>8. \A y \in Ctxs : ctx'[y].handler = "run" =>
              \/ ctx'[y].timedOut
              \/ cx'[c] = y /\ pc'[c] = "wait"
              \/ /\ ctx[y].handler = "run" /\ ~ctx[y].timedOut
                 /\ cx[c] # y \/ pc[c] # "wait"
    <2> SUFFICES ASSUME NEW y \in Ctxs, ctx'[y].handler = "run", ~ctx'[y].timedOut
                 PROVE  /\ ctx[y].handler = "run" /\ ~ctx[y].timedOut
                        /\ cx[c] # y \/ pc[c] # "wait"
        OBVIOUS
    <2>1. y # x
        BY <1>6 DEF AtRest
    <2>2. CASE y = cx[c]
        BY <1>6, <2>2
    <2>3. CASE y # cx[c]
        BY <1>6, <2>1, <2>3
    <2> QED BY <2>2, <2>3
<1>9. \A y \in pool' : Fresh(ctx'[y])
    BY <1>1, <1>4, <1>6 DEF Conditions
<1>10. \A d \in Conns \ {c} : pc[d] \in Using => ctx'[cx[d]] = ctx[cx[d]]
    BY <1>1, <1>2, <1>6
<1>11. Conditions'
    BY <1>1, <1>4, <1>7, <1>8, <1>9, <1>10, ConditionsMove
<1> QED BY <1>3, <1>5, <1>11 DEF CtxInv

(* Steps that give it back. *)
LEMMA GiveContext ==
    ASSUME IInv, NEW c \in Conns, pc[c] \in Using, pc'[c] \notin Using, UNCHANGED ctx,
           Fresh(ctx[cx[c]]), pc[c] # "wait",
           pool' = pool \cup {cx[c]}, cx' = [cx EXCEPT ![c] = Nil],
           \/ fbr' = [fbr EXCEPT ![c] = Nil]
           \/ fbr' = fbr /\ fbr[c] # cx[c],
           \A d \in Conns \ {c} : /\ pc'[d] = pc[d] /\ got'[d] = got[d] /\ used'[d] = used[d] /\ hj'[d] = hj[d],
           ReaderAt(c)'
    PROVE  CtxInv'
<1>1. /\ LoopTypes /\ DataTypes /\ Hands /\ Readers /\ Conditions
      /\ cx[c] \in Ctxs /\ cx[c] # Nil
    BY Before
<1>2. Hands'
    BY <1>1, HandsGive
<1>3. \A d \in Conns \ {c} : fbr'[d] = fbr[d] /\ cx'[d] = cx[d]
    BY <1>1 DEF LoopTypes
<1>4. Readers'
    BY <1>1, <1>3, ReadersMove
<1>5. InUse(c)'
    BY DEF InUse, Using
<1>6. \A y \in pool' : Fresh(ctx'[y])
    BY <1>1 DEF Conditions
<1>7. \A x \in Ctxs : ctx'[x].handler = "run" =>
              \/ ctx'[x].timedOut
              \/ cx'[c] = x /\ pc'[c] = "wait"
              \/ /\ ctx[x].handler = "run" /\ ~ctx[x].timedOut
                 /\ cx[c] # x \/ pc[c] # "wait"
    OBVIOUS
<1>8. Conditions'
    BY <1>1, <1>3, <1>5, <1>6, <1>7, ConditionsMove
<1> QED BY <1>2, <1>4, <1>8 DEF CtxInv

LEMMA CtxNext ==
    ASSUME IInv, [Next]_vars
    PROVE  CtxInv'
<1>0. /\ StreamTypes /\ LoopTypes /\ DataTypes /\ CtxInv /\ Hands /\ Readers /\ Conditions
      /\ ctx \in [Ctxs -> Contexts]
    BY TypeParts DEF IInv, CtxInv, DataTypes
<1>1. ASSUME UNCHANGED <<got, used, fbr, pc, cx, hj, pool, ctx>> PROVE CtxInv'
    BY <1>0, <1>1 DEF CtxInv, Hands, Readers, ReaderAt, Conditions, InUse
<1>2. ASSUME NEW c \in Conns, Register(c) \/ Refuse(c) \/ CountOver(c) \/ RefuseOver(c) \/ Close(c) \/ Leave(c)
      PROVE  CtxInv'
    <2>1. /\ UNCHANGED <<got, used, fbr, cx, hj, pool, ctx>>
          /\ pc[c] \in {"new", "refuse", "count", "over", "close", "unregister"}
        BY <1>2 DEF Register, Refuse, CountOver, RefuseOver, Close, Leave, stream, contexts
    <2>2. \E p \in {"refuse", "count", "done", "over", "close", "unregister"} : pc' = [pc EXCEPT ![c] = p]
        BY <1>2 DEF Register, Refuse, CountOver, RefuseOver, Close, Leave, Goto
    <2>3. /\ pc'[c] \notin Using /\ pc[c] \notin Using /\ \A d \in Conns \ {c} : pc'[d] = pc[d]
        BY <1>0, <2>1, <2>2 DEF LoopTypes, Using
    <2>4. ReaderAt(c)
        BY Before
    <2>5. ReaderAt(c)'
        BY <2>1, <2>3, <2>4 DEF ReaderAt, Using
    <2> QED BY <2>1, <2>3, <2>5, KeepContext
<1>3. ASSUME NEW c \in Conns, Count(c) PROVE CtxInv'
    <2>1. PICK x \in Acquirable : Acquire(c, x) /\ ctx' = [ctx EXCEPT ![x] = Acquired(x)]
        BY <1>3 DEF Count
    <2>2. /\ pc[c] = "count" /\ pc' = [pc EXCEPT ![c] = "top"]
          /\ UNCHANGED <<got, used, fbr, hj>>
        BY <1>3 DEF Count, Goto, stream
    <2>3. pc'[c] = "top" /\ \A d \in Conns \ {c} : pc'[d] = pc[d]
        BY <1>0, <2>2 DEF LoopTypes
    <2>4. ReaderAt(c)
        BY Before
    <2>5. ReaderAt(c)'
        BY <2>2, <2>3, <2>4 DEF ReaderAt, Using
    <2>6. Fresh(Acquired(x)) /\ AtRest(Acquired(x))
        BY <1>0, AcquiredIsFresh DEF Fresh
    <2>7. pc'[c] \in Using \ {"wait"} /\ pc[c] # "wait"
        BY <2>2, <2>3 DEF Using
    <2> QED BY <2>1, <2>2, <2>3, <2>5, <2>6, <2>7, TakeContext
<1>4. ASSUME NEW c \in Conns, KeepaliveEnds(c) \/ Receive(c) \/ ReadEOF(c) PROVE CtxInv'
    <2>1. /\ UNCHANGED <<used, fbr, cx, hj, pool, ctx>>
          /\ got' = got \/ got' = [got EXCEPT ![c] = sent[c]]
        BY <1>4 DEF KeepaliveEnds, Receive, ReadEOF, stream, contexts
    <2>2. /\ pc[c] \in {"top", "read", "body"}
          /\ \E p \in {"expired", "body", "read", "end"} : pc' = [pc EXCEPT ![c] = p]
        BY <1>4 DEF KeepaliveEnds, Receive, ReadEOF, Goto
    <2>3. /\ pc'[c] \in {"expired", "body", "read", "end"}
          /\ \A d \in Conns \ {c} : pc'[d] = pc[d] /\ got'[d] = got[d]
        BY <1>0, <2>1, <2>2 DEF LoopTypes, StreamTypes
    <2>4. ReaderAt(c)
        BY Before
    <2>5. ReaderAt(c)'
        BY <2>1, <2>2, <2>3, <2>4 DEF ReaderAt, Using
    <2> QED BY <2>1, <2>2, <2>3, <2>5, KeepContext DEF Using
<1>5. ASSUME NEW c \in Conns, AwaitFirstByte(c) PROVE CtxInv'
    <2>1. /\ pc[c] = "top" /\ got[c] = used[c] /\ pc' = [pc EXCEPT ![c] = "first"]
          /\ pool' = pool \cup {cx[c]} /\ cx' = [cx EXCEPT ![c] = Nil]
          /\ UNCHANGED <<got, used, fbr, hj, ctx>>
        BY <1>5 DEF AwaitFirstByte, Goto, stream
    <2>2. ReaderAt(c) /\ InUse(c) /\ pc[c] \in Using /\ cx[c] # Nil
        BY <2>1, Before DEF Using
    <2>3. pc'[c] = "first" /\ \A d \in Conns \ {c} : pc'[d] = pc[d]
        BY <1>0, <2>1 DEF LoopTypes
    <2>4. fbr[c] = Nil /\ hj[c] = "none" /\ Fresh(ctx[cx[c]])
        BY <2>1, <2>2 DEF ReaderAt, InUse
    <2>5. ReaderAt(c)' /\ pc'[c] \notin Using
        BY <2>1, <2>3, <2>4 DEF ReaderAt, Using
    <2> QED BY <2>1, <2>2, <2>3, <2>4, <2>5, GiveContext
<1>6. ASSUME NEW c \in Conns, FirstByte(c) PROVE CtxInv'
    <2>1. PICK x \in Acquirable :
            /\ Acquire(c, x) /\ ctx' = [ctx EXCEPT ![x] = Acquired(x)]
            /\ \/ fbr' = [fbr EXCEPT ![c] = x] /\ pc' = [pc EXCEPT ![c] = "read"]
               \/ fbr' = fbr /\ pc' = [pc EXCEPT ![c] = "end"]
        BY <1>6 DEF FirstByte, Goto
    <2>2. pc[c] = "first" /\ UNCHANGED <<got, used, hj>>
        BY <1>6 DEF FirstByte
    <2>3. pc'[c] \in {"read", "end"} /\ \A d \in Conns \ {c} : pc'[d] = pc[d]
        BY <1>0, <2>1 DEF LoopTypes
    <2>4. ReaderAt(c)
        BY Before
    <2>5. fbr[c] = Nil /\ hj[c] = "none"
        BY <2>2, <2>4 DEF ReaderAt, Using
    <2>6. Fresh(Acquired(x)) /\ AtRest(Acquired(x))
        BY <1>0, AcquiredIsFresh DEF Fresh
    <2>7. ReaderAt(c)' /\ pc'[c] \in Using \ {"wait"} /\ pc[c] # "wait"
        BY <2>2, <2>3, <2>5 DEF ReaderAt, Using
    <2> QED BY <2>1, <2>2, <2>3, <2>5, <2>6, <2>7, TakeContext
<1>7. ASSUME NEW c \in Conns, ReadRequest(c) \/ ReadBody(c) PROVE CtxInv'
    <2>1. PICK u \in {1, 2} : Use(c, u)
        BY <1>7 DEF ReadRequest, ReadBody
    <2>2. /\ CallHandler(c, "armed") /\ pc[c] \in {"top", "read", "body"}
          /\ UNCHANGED <<got, cx, hj, pool>>
        BY <1>7 DEF ReadRequest, ReadBody, Call
    <2>3. /\ used' = [used EXCEPT ![c] = @ + u]
          /\ fbr' = [fbr EXCEPT ![c] = Nil] \/ (fbr' = fbr /\ used[c] + u # got[c])
        <3>1. CASE used[c] + u = got[c]
            BY <2>1, <3>1 DEF Use
        <3>2. CASE used[c] + u # got[c]
            BY <1>0, <2>1, <3>2 DEF Use, LoopTypes
        <3> QED BY <2>1, <3>1, <3>2 DEF Use
    <2>4. /\ ReaderAt(c) /\ InUse(c) /\ cx[c] \in Ctxs /\ pc[c] \in Using
          /\ Fresh(ctx[cx[c]]) /\ ctx[cx[c]] \in Contexts
        BY <2>2, Before DEF Using, InUse
    <2> DEFINE x == cx[c]
               q == Request(c, Reading(c))
               run == [ctx[x] EXCEPT !.req = q, !.handler = "run", !.timer = "armed"]
               busy == [ctx[x] EXCEPT !.req = q, !.resp = <<"busy", q>>]
    <2>5. \/ ctx' = [ctx EXCEPT ![x] = run] /\ pc' = [pc EXCEPT ![c] = "wait"]
          \/ ctx' = [ctx EXCEPT ![x] = busy] /\ pc' = [pc EXCEPT ![c] = "respond"]
        BY <1>0, <2>2, <2>4 DEF CallHandler, Goto
    <2>6. ~run.timedOut /\ run.timeoutCh = 0 /\ AtRest(busy)
        BY <2>4 DEF Fresh, AtRest, Contexts
    <2>7. /\ pc'[c] \in {"wait", "respond"}
          /\ \A d \in Conns \ {c} : pc'[d] = pc[d] /\ used'[d] = used[d]
          /\ used'[c] = used[c] + u
          /\ fbr'[c] = Nil \/ (fbr'[c] = fbr[c] /\ used[c] + u # got[c])
        BY <1>0, <2>3, <2>5 DEF LoopTypes, StreamTypes
    <2>8. ReaderAt(c)' /\ pc'[c] \in Using
        BY <2>2, <2>4, <2>7 DEF ReaderAt, Using
    <2>9. CASE ctx' = [ctx EXCEPT ![x] = run] /\ pc' = [pc EXCEPT ![c] = "wait"]
        <3>1. pc'[c] = "wait"
            BY <1>0, <2>9 DEF LoopTypes
        <3> HIDE DEF run
        <3>2. run.timeoutCh # 1 /\ "wait" \notin {"top", "read", "body", "end", "expired", "respond"}
            BY <2>6
        <3> QED BY <3>2, <2>2, <2>3, <2>4, <2>6, <2>7, <2>8, <2>9, <3>1, ChangeContext
    <2>10. CASE ctx' = [ctx EXCEPT ![x] = busy] /\ pc' = [pc EXCEPT ![c] = "respond"]
        <3>1. pc'[c] = "respond"
            BY <1>0, <2>10 DEF LoopTypes
        <3> HIDE DEF busy
        <3> QED BY <2>2, <2>3, <2>4, <2>6, <2>7, <2>8, <2>10, <3>1, ChangeContext
    <2> QED BY <2>5, <2>9, <2>10
<1>8. ASSUME NEW c \in Conns, Continue(c) PROVE CtxInv'
    <2>1. /\ Use(c, 1) /\ pc[c] \in {"top", "read"}
          /\ pc' = [pc EXCEPT ![c] = "body"] \/ pc' = [pc EXCEPT ![c] = "end"]
          /\ ctx' = [ctx EXCEPT ![cx[c]].req = Request(c, Reading(c))]
          /\ UNCHANGED <<got, cx, hj, pool>>
        BY <1>8 DEF Continue, Goto
    <2>2. /\ used' = [used EXCEPT ![c] = @ + 1]
          /\ fbr' = [fbr EXCEPT ![c] = Nil] \/ fbr' = fbr
        BY <1>0, <2>1 DEF Use, LoopTypes
    <2>3. /\ ReaderAt(c) /\ cx[c] \in Ctxs /\ pc[c] \in Using
          /\ Fresh(ctx[cx[c]]) /\ ctx[cx[c]] \in Contexts
        BY <2>1, Before DEF Using, InUse
    <2> DEFINE r == [ctx[cx[c]] EXCEPT !.req = Request(c, Reading(c))]
    <2>4. ctx' = [ctx EXCEPT ![cx[c]] = r] /\ Fresh(r)
        BY <1>0, <2>1, <2>3 DEF Fresh, AtRest, Contexts
    <2>5. /\ pc'[c] \in {"body", "end"}
          /\ \A d \in Conns \ {c} : pc'[d] = pc[d] /\ used'[d] = used[d]
        BY <1>0, <2>1, <2>2 DEF LoopTypes, StreamTypes
    <2>6. ReaderAt(c)' /\ pc'[c] \in Using
        BY <2>1, <2>3, <2>5 DEF ReaderAt, Using
    <2> HIDE DEF r
    <2> QED BY <2>1, <2>2, <2>3, <2>4, <2>5, <2>6, ChangeContext
<1>9. ASSUME NEW c \in Conns, ReadError(c) PROVE CtxInv'
    <2>1. /\ pc[c] \in {"top", "read", "body"} /\ pc' = [pc EXCEPT ![c] = "end"]
          /\ fbr' = [fbr EXCEPT ![c] = Nil] /\ ctx' = [ctx EXCEPT ![cx[c]].req = Nil]
          /\ UNCHANGED <<got, used, cx, hj, pool>>
        BY <1>9 DEF ReadError, Unreadable, Goto
    <2>2. /\ ReaderAt(c) /\ cx[c] \in Ctxs /\ pc[c] \in Using
          /\ Fresh(ctx[cx[c]]) /\ ctx[cx[c]] \in Contexts
        BY <2>1, Before DEF Using, InUse
    <2> DEFINE r == [ctx[cx[c]] EXCEPT !.req = Nil]
    <2>3. ctx' = [ctx EXCEPT ![cx[c]] = r] /\ Fresh(r)
        BY <1>0, <2>1, <2>2 DEF Fresh, AtRest, Contexts
    <2>4. pc'[c] = "end" /\ \A d \in Conns \ {c} : pc'[d] = pc[d]
        BY <1>0, <2>1 DEF LoopTypes
    <2>5. ReaderAt(c)' /\ pc'[c] \in Using
        BY <2>1, <2>2, <2>4 DEF ReaderAt, Using
    <2> HIDE DEF r
    <2> QED BY <2>1, <2>2, <2>3, <2>4, <2>5, ChangeContext
<1>10. ASSUME NEW c \in Conns, Returns(c) PROVE CtxInv'
    <2>1. /\ pc[c] = "wait" /\ ctx[cx[c]].timeoutCh = 1 /\ pc' = [pc EXCEPT ![c] = "respond"]
          /\ ctx' = [ctx EXCEPT ![cx[c]].timeoutCh = 0, ![cx[c]].timer = "off"]
          /\ UNCHANGED <<got, used, fbr, cx, hj, pool>>
        BY <1>10 DEF Returns, Goto, stream
    <2>2. /\ ReaderAt(c) /\ InUse(c) /\ cx[c] \in Ctxs /\ pc[c] \in Using /\ ctx[cx[c]] \in Contexts
        BY <2>1, Before DEF Using
    <2> DEFINE r == [ctx[cx[c]] EXCEPT !.timeoutCh = 0, !.timer = "off"]
    <2>3. ctx' = [ctx EXCEPT ![cx[c]] = r]
        BY <1>0, <2>1, <2>2
    <2>4. AtRest(r)
        BY <2>1, <2>2 DEF InUse, AtRest, Contexts
    <2>5. pc'[c] = "respond" /\ \A d \in Conns \ {c} : pc'[d] = pc[d]
        BY <1>0, <2>1 DEF LoopTypes
    <2>6. ReaderAt(c)' /\ pc'[c] \in Using
        BY <2>1, <2>2, <2>5 DEF ReaderAt, Using
    <2> HIDE DEF r
    <2> QED BY <2>1, <2>2, <2>3, <2>4, <2>5, <2>6, ChangeContext
<1>11. ASSUME NEW c \in Conns, TimesOut(c) PROVE CtxInv'
    <2> DEFINE R(x) == [Acquired(x) EXCEPT !.resp = <<"timeout", Nil>>, !.closes = got[c] > used[c]]
               old == [ctx[cx[c]] EXCEPT !.timedOut = TRUE, !.timer = "off"]
    <2>1. PICK x \in Acquirable :
             /\ Acquire(c, x)
             /\ ctx' = [ctx EXCEPT ![x] = R(x), ![cx[c]].timedOut = TRUE, ![cx[c]].timer = "off"]
        BY <1>11, Zenon DEF TimesOut
    <2>2. /\ pc[c] = "wait" /\ pc' = [pc EXCEPT ![c] = "respond"] /\ UNCHANGED <<got, used, fbr, hj>>
        BY <1>11 DEF TimesOut, Goto, stream
    <2>3. /\ ReaderAt(c) /\ cx[c] \in Ctxs /\ pc[c] \in Using /\ ctx[cx[c]] \in Contexts
        BY <2>2, Before DEF Using
    <2>4. /\ x \in Ctxs /\ x # cx[c] /\ Acquired(x) \in Contexts /\ Fresh(Acquired(x))
        BY <1>0, AcquiredIsFresh
    <2>5. ctx' = [ctx EXCEPT ![x] = R(x), ![cx[c]] = old]
        BY <1>0, <2>1, <2>3, <2>4
    <2>6. AtRest(R(x)) /\ old.timedOut
        BY <2>3, <2>4 DEF Fresh, AtRest, Contexts
    <2>7. pc'[c] = "respond" /\ \A d \in Conns \ {c} : pc'[d] = pc[d]
        BY <1>0, <2>2 DEF LoopTypes
    <2>8. ReaderAt(c)' /\ pc'[c] \in Using \ {"wait"}
        BY <2>2, <2>3, <2>7 DEF ReaderAt, Using
    <2> HIDE DEF R, old
    <2> QED BY <2>1, <2>2, <2>3, <2>5, <2>6, <2>7, <2>8, TakeContext
<1>12. ASSUME NEW c \in Conns, pc[c] = "respond"
       PROVE  /\ ReaderAt(c) /\ cx[c] \in Ctxs /\ pc[c] \in Using /\ ctx[cx[c]] \in Contexts
              /\ Fresh(Clean(cx[c]))
    <2>1. /\ ReaderAt(c) /\ cx[c] \in Ctxs /\ pc[c] \in Using /\ ctx[cx[c]] \in Contexts
          /\ AtRest(ctx[cx[c]])
        BY <1>12, Before DEF Using, InUse
    <2>2. NewCtx.resp = <<"ok", Nil>>
        BY DEF NewCtx
    <2>3. Fresh(Clean(cx[c]))
        BY <2>1, <2>2 DEF Clean, Fresh, AtRest, Contexts
    <2> QED BY <2>1, <2>3
<1>13. ASSUME NEW c \in Conns, RespondLater(c) \/ Respond(c) PROVE CtxInv'
    <2>1. /\ pc[c] = "respond" /\ ctx' = [ctx EXCEPT ![cx[c]] = Clean(cx[c])]
          /\ UNCHANGED <<got, used, fbr, cx, hj, pool>>
        BY <1>13 DEF RespondLater, Respond, stream
    <2>2. pc' = [pc EXCEPT ![c] = "top"] \/ pc' = [pc EXCEPT ![c] = "end"]
        BY <1>13 DEF RespondLater, Respond, Goto
    <2>3. pc'[c] \in {"top", "end"} /\ \A d \in Conns \ {c} : pc'[d] = pc[d]
        BY <1>0, <2>2 DEF LoopTypes
    <2>4. ReaderAt(c)' /\ pc'[c] \in Using
        BY <1>12, <2>1, <2>3 DEF ReaderAt, Using
    <2> QED BY <1>12, <2>1, <2>3, <2>4, ChangeContext
<1>14. ASSUME NEW c \in Conns, Hijack(c) PROVE CtxInv'
    <2>1. /\ pc[c] = "respond" /\ pc' = [pc EXCEPT ![c] = "end"]
          /\ UNCHANGED <<got, used, fbr>>
          /\ hj' = [hj EXCEPT ![c] = "run"] \/ hj' = hj
        BY <1>14 DEF Hijack, Goto, stream
    <2>2. /\ pc'[c] = "end" /\ \A d \in Conns \ {c} : pc'[d] = pc[d] /\ hj'[d] = hj[d]
        BY <1>0, <2>1 DEF LoopTypes
    <2>3. CASE got[c] > used[c]
        <3>1. PICK x \in Acquirable :
                /\ Acquire(c, x)
                /\ ctx' = [ctx EXCEPT ![x] = Acquired(x), ![cx[c]] = Clean(cx[c])]
            BY <1>14, <2>3 DEF Hijack
        <3>2. Fresh(Acquired(x)) /\ AtRest(Acquired(x)) /\ x # fbr[c]
            BY <1>0, AcquiredIsFresh DEF Fresh
        <3>3. cx'[c] = x
            BY <1>0, <3>1 DEF Acquire, LoopTypes
        <3>4. ReaderAt(c)' /\ pc'[c] \in Using \ {"wait"} /\ pc[c] # "wait"
            BY <1>12, <2>1, <2>2, <3>2, <3>3 DEF ReaderAt, Using
        <3>5. Clean(cx[c]).handler # "run"
            BY <1>12, <2>1 DEF Fresh, AtRest
        <3> QED BY <1>12, <2>1, <2>2, <3>1, <3>2, <3>4, <3>5, TakeContext
    <2>4. CASE ~(got[c] > used[c])
        <3>1. ctx' = [ctx EXCEPT ![cx[c]] = Clean(cx[c])] /\ UNCHANGED <<cx, pool>>
            BY <1>14, <2>4 DEF Hijack
        <3>2. got[c] = used[c]
            BY <1>0, <2>4 DEF StreamTypes
        <3>3. ReaderAt(c)' /\ pc'[c] \in Using
            BY <1>12, <2>1, <2>2, <3>1, <3>2 DEF ReaderAt, Using
        <3> QED BY <1>12, <2>1, <2>2, <3>1, <3>3, ChangeContext
    <2> QED BY <2>3, <2>4
<1>15. ASSUME NEW c \in Conns, End(c) PROVE CtxInv'
    <2>1. /\ pc[c] \in {"end", "expired"} /\ pool' = pool \cup {cx[c]} /\ cx' = [cx EXCEPT ![c] = Nil]
          /\ UNCHANGED <<hj, ctx>>
          /\ got' = [got EXCEPT ![c] = 0] /\ used' = [used EXCEPT ![c] = 0]
          /\ fbr' = [fbr EXCEPT ![c] = IF hj[c] = "none" THEN Nil ELSE @]
          /\ pc' = [pc EXCEPT ![c] = IF hj[c] = "none" THEN "close" ELSE "done"]
        BY <1>15 DEF End, Goto
    <2>2. ReaderAt(c) /\ InUse(c) /\ pc[c] \in Using /\ pc[c] # "wait" /\ cx[c] # Nil
        BY <2>1, Before DEF Using
    <2>3. Fresh(ctx[cx[c]])
        BY <2>1, <2>2 DEF InUse
    <2>4. \A d \in Conns \ {c} : pc'[d] = pc[d] /\ got'[d] = got[d] /\ used'[d] = used[d]
        BY <1>0, <2>1 DEF LoopTypes, StreamTypes
    <2>5. CASE hj[c] = "none"
        <3>1. fbr' = [fbr EXCEPT ![c] = Nil] /\ pc'[c] = "close" /\ fbr'[c] = Nil
            BY <1>0, <2>1, <2>5 DEF LoopTypes
        <3>2. ReaderAt(c)' /\ pc'[c] \notin Using
            BY <2>1, <2>5, <3>1 DEF ReaderAt, Using
        <3> QED BY <2>1, <2>2, <2>3, <2>4, <3>1, <3>2, GiveContext
    <2>6. CASE hj[c] # "none"
        <3>1. fbr' = fbr /\ pc'[c] = "done" /\ fbr[c] # cx[c] /\ cx'[c] = Nil
            BY <1>0, <2>1, <2>2, <2>6 DEF LoopTypes, ReaderAt
        <3>2. ReaderAt(c)' /\ pc'[c] \notin Using
            BY <2>1, <2>6, <3>1 DEF ReaderAt, Using
        <3> QED BY <2>1, <2>2, <2>3, <2>4, <3>1, <3>2, GiveContext
    <2> QED BY <2>5, <2>6
<1>16. ASSUME NEW c \in Conns, HijackEnds(c) \/ HijackClose(c) \/ HijackLeave(c) PROVE CtxInv'
    <2>1. /\ UNCHANGED <<got, used, pc, cx, pool, ctx>>
          /\ fbr' = fbr \/ fbr' = [fbr EXCEPT ![c] = Nil]
          /\ hj[c] # "none" /\ \E h \in {"close", "unregister", "done"} : hj' = [hj EXCEPT ![c] = h]
        BY <1>16 DEF HijackEnds, HijackClose, HijackLeave, stream, contexts
    <2>2. /\ \A d \in Conns \ {c} : hj'[d] = hj[d]
          /\ hj'[c] # "none" /\ (fbr'[c] = Nil \/ fbr'[c] = fbr[c])
        BY <1>0, <2>1 DEF LoopTypes
    <2>3. ReaderAt(c)
        BY Before
    <2>4. ReaderAt(c)'
        BY <2>1, <2>2, <2>3 DEF ReaderAt
    <2> QED BY <2>1, <2>2, <2>4, KeepContext
(* Handlers and timers may be anywhere. *)
<1>17. ASSUME NEW x \in Ctxs, ctx[x].handler = "run" \/ ctx[x].timer = "armed",
              UNCHANGED <<got, used, fbr, pc, cx, hj, pool>>,
              \A y \in Ctxs \ {x} : ctx'[y] = ctx[y],
              ctx'[x].handler = "run" => ctx[x].handler = "run",
              ~ctx[x].timedOut => ~ctx'[x].timedOut,
              (ctx[x].timeoutCh = 1 => ctx[x].handler = "none")
                 => (ctx'[x].timeoutCh = 1 => ctx'[x].handler = "none"),
              ctx[x].timedOut /\ ctx'[x].handler = "run" => ctx'[x].timedOut
       PROVE  CtxInv'
    <2>1. ~AtRest(ctx[x]) /\ ~Fresh(ctx[x])
        BY <1>17 DEF AtRest, Fresh
    <2>2. \A y \in pool' : Fresh(ctx'[y])
        BY <1>0, <1>17, <2>1 DEF Conditions, LoopTypes
    <2>3. ASSUME NEW d \in Conns PROVE InUse(d)'
        <3>1. InUse(d) /\ (pc[d] \in Using => cx[d] \in Ctxs)
            BY Before
        <3>2. CASE pc[d] \notin Using
            BY <1>17, <3>2 DEF InUse, Using
        <3>3. CASE pc[d] \in Using /\ cx[d] # x
            BY <1>17, <3>1, <3>3 DEF InUse
        <3>4. CASE pc[d] \in Using /\ cx[d] = x
            <4>1. pc[d] = "wait"
                BY <2>1, <3>1, <3>4 DEF InUse, Using
            <4> QED BY <1>17, <3>1, <3>4, <4>1 DEF InUse
        <3> QED BY <3>2, <3>3, <3>4
    <2>4. ASSUME NEW y \in Ctxs, ctx'[y].handler = "run"
          PROVE  ctx'[y].timedOut \/ \E c \in Conns : cx'[c] = y /\ pc'[c] = "wait"
        <3>1. CASE y = x
            BY <1>0, <1>17, <2>4, <3>1 DEF Conditions
        <3>2. CASE y # x
            BY <1>0, <1>17, <2>4, <3>2 DEF Conditions
        <3> QED BY <3>1, <3>2
    <2>5. Conditions'
        BY <2>2, <2>3, <2>4 DEF Conditions
    <2>6. Hands' /\ Readers'
        BY <1>0, <1>17 DEF Hands, Readers, ReaderAt
    <2> QED BY <2>5, <2>6 DEF CtxInv
<1>18. ASSUME NEW x \in Ctxs, Tick(x) PROVE CtxInv'
    <2>1. /\ ctx[x].timer = "armed" /\ UNCHANGED <<got, used, fbr, pc, cx, hj, pool>>
          /\ ctx' = [ctx EXCEPT ![x].timer = "tick"]
        BY <1>18 DEF Tick, stream, loop
    <2>2. ctx[x] \in Contexts
        BY <1>0
    <2>3. /\ \A y \in Ctxs \ {x} : ctx'[y] = ctx[y]
          /\ ctx'[x].handler = ctx[x].handler /\ ctx'[x].timedOut = ctx[x].timedOut
          /\ ctx'[x].timeoutCh = ctx[x].timeoutCh
        BY <1>0, <2>1, <2>2 DEF Contexts
    <2> QED BY <1>17, <2>1, <2>3
<1>19. ASSUME NEW x \in Ctxs, HandlerEnds(x) PROVE CtxInv'
    <2>1. PICK o \in Outcomes, parse \in BOOLEAN :
             /\ parse => ctx[x].req # Nil /\ KindOf(ctx[x].req) = "rawClose"
             /\ ctx' = [ctx EXCEPT ![x] =
                IF @.timedOut THEN NewCtx
                ELSE [@ EXCEPT !.resp = <<"ok", ctx[x].req>>, !.closes = (o = "close"),
                               !.hijacks = (o = "hijack"), !.parsed = parse,
                               !.timeoutCh = 1, !.handler = "none"]]
        BY <1>19, Zenon DEF HandlerEnds
    <2>2. ctx[x].handler = "run" /\ UNCHANGED <<got, used, fbr, pc, cx, hj, pool>>
        BY <1>19 DEF HandlerEnds, stream, loop
    <2>3. ctx[x] \in Contexts
        BY <1>0
    <2>4. \A y \in Ctxs \ {x} : ctx'[y] = ctx[y]
        BY <1>0, <2>1
    <2>5. ctx'[x].handler = "none" /\ (~ctx[x].timedOut => ~ctx'[x].timedOut)
        <3>1. CASE ctx[x].timedOut
            BY <1>0, <2>1, <3>1 DEF NewCtx
        <3>2. CASE ~ctx[x].timedOut
            BY <1>0, <2>1, <2>3, <3>2 DEF Contexts
        <3> QED BY <3>1, <3>2
    <2> QED BY <1>17, <2>2, <2>4, <2>5
<1>20. ASSUME FreeSlot \/ UNCHANGED vars \/ \E c \in Conns : Client(c) PROVE CtxInv'
    BY <1>1, <1>20 DEF FreeSlot, vars, Client, Send, SendRest, stream, loop, contexts
<1> QED BY <1>2, <1>3, <1>4, <1>5, <1>6, <1>7, <1>8, <1>9, <1>10, <1>11, <1>13, <1>14, <1>15, <1>16, <1>18,
           <1>19, <1>20
        DEF Next, ServerStep, Serve, Arrive, ReadStep, AnswerStep, Depart

-----------------------------------------------------------------------------
(* Counting *)

LEMMA Sizes ==
    /\ IsFiniteSet(Members) /\ Cardinality(Members) \in Nat
    /\ IsFiniteSet(Admitted) /\ Cardinality(Admitted) \in Nat
    /\ IsFiniteSet(Counted) /\ Cardinality(Counted) \in Nat
    /\ IsFiniteSet(Within) /\ Cardinality(Within) \in Nat
    /\ IsFiniteSet(Running) /\ Cardinality(Running) \in Nat
    /\ Cardinality(Admitted) <= Cardinality(Members)
    /\ Cardinality(Within) <= Cardinality(Counted)
<1>1. /\ Members \subseteq Conns /\ Admitted \subseteq Members
      /\ Counted \subseteq Conns /\ Within \subseteq Counted /\ Running \subseteq Ctxs
    BY DEF Members, Admitted, Counted, Within, Running, Inside
<1>2. IsFiniteSet(Members) /\ IsFiniteSet(Counted) /\ IsFiniteSet(Running)
    BY <1>1, NumbersAssumption, FS_Subset
<1>3. /\ IsFiniteSet(Admitted) /\ Cardinality(Admitted) <= Cardinality(Members)
      /\ IsFiniteSet(Within) /\ Cardinality(Within) <= Cardinality(Counted)
    BY <1>1, <1>2, FS_Subset
<1> QED BY <1>2, <1>3, FS_CardinalityType

LEMMA SizeOf ==
    ASSUME NEW S, IsFiniteSet(S), Cardinality(S) \in Nat, NEW c
    PROVE  /\ c \notin S => Cardinality(S \cup {c}) = Cardinality(S) + 1
           /\ c \in S => Cardinality(S \cup {c}) = Cardinality(S)
           /\ c \in S => Cardinality(S \ {c}) = Cardinality(S) - 1 /\ Cardinality(S) >= 1
           /\ c \notin S => Cardinality(S \ {c}) = Cardinality(S)
<1>1. /\ c \notin S => Cardinality(S \cup {c}) = Cardinality(S) + 1
      /\ c \in S => Cardinality(S \cup {c}) = Cardinality(S)
    BY FS_AddElement
<1>2. /\ c \in S => Cardinality(S \ {c}) = Cardinality(S) - 1
      /\ c \notin S => Cardinality(S \ {c}) = Cardinality(S)
      /\ IsFiniteSet(S \ {c})
    BY FS_RemoveElement
<1>3. Cardinality(S \ {c}) \in Nat
    BY <1>2, FS_CardinalityType
<1>4. c \in S => Cardinality(S) >= 1
    BY <1>2, <1>3
<1> QED BY <1>1, <1>2, <1>4

(* A step of c moves c alone into the sets and out of them. *)
LEMMA OneMoves ==
    ASSUME NEW c \in Conns,
           \A d \in Conns \ {c} : pc'[d] = pc[d] /\ hj'[d] = hj[d]
    PROVE  /\ Members' = IF Registered(c)' THEN Members \cup {c} ELSE Members \ {c}
           /\ Admitted' = IF Inside(c)' THEN Admitted \cup {c} ELSE Admitted \ {c}
           /\ Counted' = IF pc'[c] \in Counting THEN Counted \cup {c} ELSE Counted \ {c}
           /\ Within' = IF pc'[c] \in Counting \ {"over"} THEN Within \cup {c} ELSE Within \ {c}
<1>1. \A d \in Conns \ {c} : (Registered(d)' <=> Registered(d)) /\ (Inside(d)' <=> Inside(d))
    BY DEF Registered, Inside
<1>2. Members' = IF Registered(c)' THEN Members \cup {c} ELSE Members \ {c}
    BY <1>1 DEF Members
<1>3. Admitted' = IF Inside(c)' THEN Admitted \cup {c} ELSE Admitted \ {c}
    BY <1>1 DEF Admitted
<1>4. Counted' = IF pc'[c] \in Counting THEN Counted \cup {c} ELSE Counted \ {c}
    BY DEF Counted, Counting, Using
<1>5. Within' = IF pc'[c] \in Counting \ {"over"} THEN Within \cup {c} ELSE Within \ {c}
    BY DEF Within, Counting, Using
<1> QED BY <1>2, <1>3, <1>4, <1>5

(* Where c is counted stays as it is, and so do the counters and the handlers.   *)
LEMMA CountsStay ==
    ASSUME Counts, CountTypes, NEW c \in Conns, setting' = setting, UNCHANGED <<counters, concurrencyCh>>,
           \A d \in Conns \ {c} : pc'[d] = pc[d] /\ hj'[d] = hj[d],
           Registered(c)' <=> Registered(c), Inside(c)' <=> Inside(c),
           pc'[c] \in Counting <=> pc[c] \in Counting,
           pc'[c] \in Counting \ {"over"} <=> pc[c] \in Counting \ {"over"},
           Running' = Running
    PROVE  Counts' /\ CountTypes'
<1>1. c \in Members <=> Registered(c)
    BY DEF Members
<1>2. c \in Admitted <=> Inside(c)
    BY DEF Admitted
<1>3. c \in Counted <=> pc[c] \in Counting
    BY DEF Counted
<1>4. c \in Within <=> pc[c] \in Counting \ {"over"}
    BY DEF Within
<1>5. Members' = Members /\ Admitted' = Admitted /\ Counted' = Counted /\ Within' = Within
    <2>1. Members' = Members
        BY <1>1, OneMoves
    <2>2. Admitted' = Admitted
        BY <1>2, OneMoves
    <2>3. Counted' = Counted
        BY <1>3, OneMoves
    <2>4. Within' = Within
        BY <1>4, OneMoves
    <2> QED BY <2>1, <2>2, <2>3, <2>4
<1>6. MaxConnsPerIP' = MaxConnsPerIP /\ Concurrency' = Concurrency
    BY SettingStays
<1>7. UNCHANGED <<perIP, concurrency, slots, ended>>
    BY DEF counters, concurrencyCh
<1> QED BY <1>5, <1>6, <1>7 DEF Counts, CountTypes

LEMMA RunningStays ==
    ASSUME \A x \in Ctxs : ctx'[x].handler = "run" <=> ctx[x].handler = "run"
    PROVE  Running' = Running
BY DEF Running

(* Steps inside serveConn, which start no handler. *)
LEMMA ServingCounts ==
    ASSUME Counts, CountTypes, LoopTypes, NEW c \in Conns, setting' = setting,
           UNCHANGED <<hj, counters, concurrencyCh>>,
           pc[c] \in Using \cup {"first"},
           \E p \in Using \cup {"first"} : pc' = [pc EXCEPT ![c] = p],
           \A x \in Ctxs : ctx'[x].handler = "run" <=> ctx[x].handler = "run"
    PROVE  Counts' /\ CountTypes'
<1>1. pc'[c] \in Using \cup {"first"} /\ \A d \in Conns \ {c} : pc'[d] = pc[d]
    BY DEF LoopTypes
<1>2. /\ Registered(c)' <=> Registered(c)
      /\ Inside(c)' <=> Inside(c)
      /\ pc'[c] \in Counting <=> pc[c] \in Counting
      /\ pc'[c] \in Counting \ {"over"} <=> pc[c] \in Counting \ {"over"}
    BY <1>1 DEF Registered, Inside, Counting, Using
<1>3. Running' = Running
    BY RunningStays
<1> QED BY <1>1, <1>2, <1>3, CountsStay

LEMMA CountsNext ==
    ASSUME IInv, [Next]_vars
    PROVE  Counts' /\ CountTypes'
<1> DEFINE Goal == Counts' /\ CountTypes'
<1>0. /\ StreamTypes /\ LoopTypes /\ CountTypes /\ DataTypes /\ CtxInv /\ Hands /\ Readers /\ Conditions /\ Counts
      /\ ctx \in [Ctxs -> Contexts]
      /\ \A c \in Conns : ReaderAt(c)
    BY TypeParts DEF IInv, CtxInv, LimitInv, DataTypes, Readers
<1>1. /\ setting' = setting /\ MaxConnsPerIP' = MaxConnsPerIP /\ Concurrency' = Concurrency
      /\ MaxConnsPerIP \in Nat /\ Concurrency \in Nat
    BY <1>0, SettingNext, SettingStays, SettingIs DEF StreamTypes
<1>2. /\ perIP = Cardinality(Members) /\ Cardinality(Admitted) <= MaxConnsPerIP
      /\ concurrency = Cardinality(Counted) /\ Cardinality(Within) <= Concurrency
      /\ slots = ended + Cardinality(Running)
      /\ perIP \in Nat /\ concurrency \in Nat /\ slots \in 0..Concurrency /\ ended \in 0..slots
    BY <1>0 DEF Counts, CountTypes
<1>3. ASSUME UNCHANGED <<pc, hj, counters, concurrencyCh, ctx>> PROVE Goal
    <2>1. /\ Members' = Members /\ Admitted' = Admitted /\ Counted' = Counted /\ Within' = Within
          /\ Running' = Running
        BY <1>3 DEF Members, Admitted, Counted, Within, Running, Registered, Inside
    <2> QED BY <1>1, <1>2, <1>3, <2>1 DEF Counts, CountTypes, counters, concurrencyCh
<1>4. ASSUME NEW c \in Conns, Register(c) PROVE Goal
    <2>1. /\ pc[c] = "new" /\ hj' = hj /\ perIP' = perIP + 1 /\ UNCHANGED <<concurrency, slots, ended, ctx>>
          /\ \/ pc' = [pc EXCEPT ![c] = "refuse"]
             \/ pc' = [pc EXCEPT ![c] = "count"] /\ perIP + 1 <= MaxConnsPerIP
        BY <1>1, <1>2, <1>4 DEF Register, Goto, concurrencyCh, contexts
    <2>2. /\ \A d \in Conns \ {c} : pc'[d] = pc[d] /\ hj'[d] = hj[d]
          /\ pc'[c] \in {"refuse", "count"} /\ (pc'[c] = "count" => perIP + 1 <= MaxConnsPerIP)
          /\ hj'[c] = "none" /\ hj[c] = "none"
        BY <1>0, <2>1 DEF LoopTypes, ReaderAt
    <2>3. /\ c \notin Members /\ c \notin Admitted /\ c \notin Counted /\ c \notin Within
        BY <2>1, <2>2 DEF Members, Admitted, Counted, Within, Registered, Inside, Counting, Using
    <2>4. Registered(c)' /\ (Inside(c)' <=> pc'[c] = "count") /\ pc'[c] \notin Counting
        BY <2>2 DEF Registered, Inside, Counting, Using
    <2>5. /\ Members' = Members \cup {c} /\ Counted' = Counted /\ Within' = Within
          /\ Admitted' = IF pc'[c] = "count" THEN Admitted \cup {c} ELSE Admitted
        BY <2>2, <2>3, <2>4, OneMoves
    <2>6. Running' = Running
        BY <2>1, RunningStays
    <2>7. Cardinality(Members') = Cardinality(Members) + 1
        BY <2>3, <2>5, Sizes, SizeOf
    <2>8. Cardinality(Admitted') <= MaxConnsPerIP
        BY <1>1, <1>2, <2>2, <2>3, <2>5, Sizes, SizeOf
    <2> QED BY <1>1, <1>2, <2>1, <2>5, <2>6, <2>7, <2>8 DEF Counts, CountTypes
<1>5. ASSUME NEW c \in Conns, Refuse(c) PROVE Goal
    <2>1. /\ pc[c] = "refuse" /\ hj' = hj /\ perIP' = perIP - 1 /\ UNCHANGED <<concurrency, slots, ended, ctx>>
          /\ pc' = [pc EXCEPT ![c] = "done"]
        BY <1>5 DEF Refuse, Goto, concurrencyCh, contexts
    <2>2. /\ \A d \in Conns \ {c} : pc'[d] = pc[d] /\ hj'[d] = hj[d]
          /\ pc'[c] = "done" /\ hj'[c] = "none" /\ hj[c] = "none"
        BY <1>0, <2>1 DEF LoopTypes, ReaderAt
    <2>3. /\ c \in Members /\ c \notin Admitted /\ c \notin Counted /\ c \notin Within
        BY <2>1, <2>2 DEF Members, Admitted, Counted, Within, Registered, Inside, Counting, Using
    <2>4. ~Registered(c)' /\ ~Inside(c)' /\ pc'[c] \notin Counting
        BY <2>2 DEF Registered, Inside, Counting, Using
    <2>5. Members' = Members \ {c} /\ Counted' = Counted /\ Within' = Within /\ Admitted' = Admitted
        BY <2>2, <2>3, <2>4, OneMoves
    <2>6. Running' = Running
        BY <2>1, RunningStays
    <2>7. Cardinality(Members') = Cardinality(Members) - 1 /\ Cardinality(Members) >= 1
        BY <2>3, <2>5, Sizes, SizeOf
    <2> QED BY <1>1, <1>2, <2>1, <2>5, <2>6, <2>7 DEF Counts, CountTypes
<1>6. ASSUME NEW c \in Conns, Count(c) \/ CountOver(c) PROVE Goal
    <2>1. /\ pc[c] = "count" /\ hj' = hj /\ concurrency' = concurrency + 1 /\ UNCHANGED <<perIP, slots, ended>>
          /\ \/ pc' = [pc EXCEPT ![c] = "top"] /\ concurrency < Concurrency
             \/ pc' = [pc EXCEPT ![c] = "over"]
        BY <1>6 DEF Count, CountOver, Goto, concurrencyCh
    <2>2. /\ \A d \in Conns \ {c} : pc'[d] = pc[d] /\ hj'[d] = hj[d]
          /\ pc'[c] \in {"top", "over"} /\ (pc'[c] = "top" => concurrency < Concurrency)
          /\ hj'[c] = "none" /\ hj[c] = "none"
        BY <1>0, <2>1 DEF LoopTypes, ReaderAt
    <2>3. /\ c \in Members /\ c \in Admitted /\ c \notin Counted /\ c \notin Within
        BY <2>1, <2>2 DEF Members, Admitted, Counted, Within, Registered, Inside, Counting, Using
    <2>4. /\ Registered(c)' /\ Inside(c)' /\ pc'[c] \in Counting
          /\ pc'[c] \in Counting \ {"over"} <=> pc'[c] = "top"
        BY <2>2 DEF Registered, Inside, Counting, Using
    <2>5. /\ Members' = Members /\ Admitted' = Admitted /\ Counted' = Counted \cup {c}
          /\ Within' = IF pc'[c] = "top" THEN Within \cup {c} ELSE Within
        BY <2>2, <2>3, <2>4, OneMoves
    <2>6. Running' = Running
        <3>1. CASE Count(c)
            <4>1. PICK x \in Acquirable : ctx' = [ctx EXCEPT ![x] = Acquired(x)]
                BY <3>1 DEF Count
            <4>2. /\ x \in Ctxs /\ Acquired(x).handler = "none" /\ ctx[x].handler = "none"
                BY <1>0, AcquiredIsFresh DEF Fresh, AtRest
            <4> QED BY <1>0, <4>1, <4>2, RunningStays
        <3>2. CASE CountOver(c)
            BY <3>2, RunningStays DEF CountOver, contexts
        <3> QED BY <1>6, <3>1, <3>2
    <2>7. Cardinality(Counted') = Cardinality(Counted) + 1
        BY <2>3, <2>5, Sizes, SizeOf
    <2>8. Cardinality(Within') <= Concurrency
        BY <1>1, <1>2, <2>2, <2>3, <2>5, Sizes, SizeOf
    <2> QED BY <1>1, <1>2, <2>1, <2>5, <2>6, <2>7, <2>8 DEF Counts, CountTypes
<1>7. ASSUME NEW c \in Conns, RefuseOver(c) \/ End(c) PROVE Goal
    <2>1. /\ hj' = hj /\ concurrency' = concurrency - 1 /\ UNCHANGED <<perIP, slots, ended, ctx>>
          /\ \/ pc[c] = "over" /\ pc' = [pc EXCEPT ![c] = "close"]
             \/ /\ pc[c] \in {"end", "expired"}
                /\ pc' = [pc EXCEPT ![c] = IF hj[c] = "none" THEN "close" ELSE "done"]
        BY <1>7 DEF RefuseOver, End, Goto, concurrencyCh, contexts, counters
    <2>2. /\ \A d \in Conns \ {c} : pc'[d] = pc[d] /\ hj'[d] = hj[d]
          /\ pc[c] \in {"over", "end", "expired"} /\ (pc[c] = "over" => hj[c] = "none")
          /\ pc'[c] = (IF hj[c] = "none" THEN "close" ELSE "done") /\ hj'[c] = hj[c]
        BY <1>0, <2>1 DEF LoopTypes, ReaderAt
    <2>3. c \in Counted
        BY <2>2 DEF Counted, Counting, Using
    <2>4. /\ Registered(c)' <=> Registered(c)
          /\ Inside(c)' <=> Inside(c)
          /\ pc'[c] \notin Counting
        BY <2>2 DEF Registered, Inside, Counting, Using
    <2>5. /\ c \in Members <=> Registered(c)
          /\ c \in Admitted <=> Inside(c)
        BY DEF Members, Admitted
    <2>6. Members' = Members /\ Admitted' = Admitted /\ Counted' = Counted \ {c} /\ Within' = Within \ {c}
        <3>1. Members' = Members /\ Admitted' = Admitted
            BY <2>2, <2>4, <2>5, OneMoves
        <3>2. Counted' = Counted \ {c} /\ Within' = Within \ {c}
            BY <2>2, <2>4, OneMoves
        <3> QED BY <3>1, <3>2
    <2>7. Running' = Running
        BY <2>1, RunningStays
    <2>8. Cardinality(Counted') = Cardinality(Counted) - 1 /\ Cardinality(Counted) >= 1
        BY <2>3, <2>6, Sizes, SizeOf
    <2>9. Cardinality(Within') <= Concurrency
        <3>1. Cardinality(Within') <= Cardinality(Within)
            <4>1. CASE c \in Within
                <5>1. Cardinality(Within') = Cardinality(Within) - 1
                    BY <2>6, <4>1, Sizes, SizeOf
                <5> QED BY <5>1, Sizes
            <4>2. CASE c \notin Within
                <5>1. Cardinality(Within') = Cardinality(Within)
                    BY <2>6, <4>2, Sizes, SizeOf
                <5> QED BY <5>1, Sizes
            <4> QED BY <4>1, <4>2
        <3>2. Cardinality(Within') \in Nat
            BY <2>6, Sizes, FS_RemoveElement, FS_CardinalityType
        <3> QED BY <1>1, <1>2, <3>1, <3>2, Sizes
    <2> QED BY <1>1, <1>2, <2>1, <2>6, <2>7, <2>8, <2>9 DEF Counts, CountTypes
<1>8. ASSUME NEW c \in Conns, Close(c) \/ HijackEnds(c) \/ HijackClose(c) PROVE Goal
    <2>1. /\ UNCHANGED <<counters, concurrencyCh, ctx>>
          /\ \/ pc[c] = "close" /\ pc' = [pc EXCEPT ![c] = "unregister"] /\ hj' = hj
             \/ hj[c] = "run" /\ hj' = [hj EXCEPT ![c] = "close"] /\ pc' = pc
             \/ hj[c] = "close" /\ hj' = [hj EXCEPT ![c] = "unregister"] /\ pc' = pc
        BY <1>8 DEF Close, HijackEnds, HijackClose, Goto, contexts
    <2>2. \A d \in Conns \ {c} : pc'[d] = pc[d] /\ hj'[d] = hj[d]
        BY <1>0, <2>1 DEF LoopTypes
    <2>3. /\ Registered(c)' <=> Registered(c)
          /\ Inside(c)' <=> Inside(c)
          /\ pc'[c] \in Counting <=> pc[c] \in Counting
          /\ pc'[c] \in Counting \ {"over"} <=> pc[c] \in Counting \ {"over"}
        <3>1. CASE pc[c] = "close" /\ pc' = [pc EXCEPT ![c] = "unregister"] /\ hj' = hj
            <4>1. pc'[c] = "unregister" /\ hj'[c] = "none" /\ hj[c] = "none"
                BY <1>0, <3>1 DEF LoopTypes, ReaderAt
            <4> QED BY <3>1, <4>1 DEF Registered, Inside, Counting, Using
        <3>2. CASE hj[c] \in {"run", "close"} /\ pc' = pc
            <4>1. hj'[c] \in {"close", "unregister"}
                BY <1>0, <2>1, <3>2 DEF LoopTypes, ReaderAt
            <4> QED BY <3>2, <4>1 DEF Registered, Inside
        <3> QED BY <2>1, <3>1, <3>2
    <2>4. Running' = Running
        BY <2>1, RunningStays
    <2> QED BY <1>0, <1>1, <2>1, <2>2, <2>3, <2>4, CountsStay
<1>9. ASSUME NEW c \in Conns, Leave(c) \/ HijackLeave(c) PROVE Goal
    <2>1. /\ perIP' = perIP - 1 /\ UNCHANGED <<concurrency, slots, ended, ctx>>
          /\ \/ pc[c] = "unregister" /\ pc' = [pc EXCEPT ![c] = "done"] /\ hj' = hj
             \/ hj[c] = "unregister" /\ hj' = [hj EXCEPT ![c] = "done"] /\ pc' = pc
        BY <1>9 DEF Leave, HijackLeave, Unregister, Goto, concurrencyCh, contexts
    <2>2. \A d \in Conns \ {c} : pc'[d] = pc[d] /\ hj'[d] = hj[d]
        BY <1>0, <2>1 DEF LoopTypes
    <2>3. /\ c \in Members /\ c \in Admitted /\ ~Registered(c)' /\ ~Inside(c)'
          /\ pc'[c] \in Counting <=> pc[c] \in Counting
          /\ pc'[c] \in Counting \ {"over"} <=> pc[c] \in Counting \ {"over"}
        <3>1. CASE pc[c] = "unregister" /\ pc' = [pc EXCEPT ![c] = "done"] /\ hj' = hj
            <4>1. pc'[c] = "done" /\ hj'[c] = "none" /\ hj[c] = "none"
                BY <1>0, <3>1 DEF LoopTypes, ReaderAt
            <4> QED BY <3>1, <4>1 DEF Members, Admitted, Registered, Inside, Counting, Using
        <3>2. CASE hj[c] = "unregister" /\ hj' = [hj EXCEPT ![c] = "done"] /\ pc' = pc
            <4>1. hj'[c] = "done" /\ pc[c] \in {"end", "done"}
                BY <1>0, <3>2 DEF LoopTypes, ReaderAt
            <4> QED BY <3>2, <4>1 DEF Members, Admitted, Registered, Inside
        <3> QED BY <2>1, <3>1, <3>2
    <2>4. /\ c \in Counted <=> pc[c] \in Counting
          /\ c \in Within <=> pc[c] \in Counting \ {"over"}
        BY DEF Counted, Within
    <2>5. /\ Members' = Members \ {c} /\ Admitted' = Admitted \ {c}
        BY <2>2, <2>3, OneMoves
    <2>6. Counted' = Counted
        BY <2>2, <2>3, <2>4, OneMoves
    <2>7. Within' = Within
        BY <2>2, <2>3, <2>4, OneMoves
    <2>8. Running' = Running
        BY <2>1, RunningStays
    <2>9. Cardinality(Members') = Cardinality(Members) - 1 /\ Cardinality(Members) >= 1
        BY <2>3, <2>5, Sizes, SizeOf
    <2>10. Cardinality(Admitted') <= MaxConnsPerIP
        <3>1. Cardinality(Admitted') = Cardinality(Admitted) - 1
            BY <2>3, <2>5, Sizes, SizeOf
        <3> QED BY <1>1, <1>2, <3>1, Sizes
    <2> QED BY <1>1, <1>2, <2>1, <2>5, <2>6, <2>7, <2>8, <2>9, <2>10 DEF Counts, CountTypes
<1>10. ASSUME NEW c \in Conns, ReadRequest(c) \/ ReadBody(c) PROVE Goal
    <2> DEFINE x == cx[c]
               q == Request(c, Reading(c))
    <2>1. /\ CallHandler(c, "armed") /\ pc[c] \in {"top", "read", "body"}
          /\ UNCHANGED <<hj, counters, ended>>
        BY <1>10 DEF ReadRequest, ReadBody, Call
    <2>2. x \in Ctxs /\ ctx[x] \in Contexts /\ ctx[x].handler = "none" /\ pc[c] \in Using
        BY <2>1, Before DEF Using, InUse, Fresh, AtRest
    <2>3. CASE slots < Concurrency
        <3>1. /\ slots' = slots + 1 /\ pc' = [pc EXCEPT ![c] = "wait"]
              /\ ctx' = [ctx EXCEPT ![x].req = q, ![x].handler = "run", ![x].timer = "armed"]
            BY <2>1, <2>3 DEF CallHandler, Goto
        <3>2. ctx'[x].handler = "run" /\ \A y \in Ctxs \ {x} : ctx'[y] = ctx[y]
            BY <1>0, <2>2, <3>1 DEF Contexts
        <3>3. Running' = Running \cup {x} /\ x \notin Running
            BY <2>2, <3>2 DEF Running
        <3>4. Cardinality(Running') = Cardinality(Running) + 1
            BY <3>3, Sizes, SizeOf
        <3>5. pc'[c] = "wait" /\ \A d \in Conns \ {c} : pc'[d] = pc[d] /\ hj'[d] = hj[d]
            BY <1>0, <2>1, <3>1 DEF LoopTypes
        <3>6. /\ c \in Counted /\ c \in Within
              /\ c \in Members <=> Registered(c)
              /\ c \in Admitted <=> Inside(c)
              /\ Registered(c)' <=> Registered(c)
              /\ Inside(c)' <=> Inside(c)
              /\ pc'[c] \in Counting \ {"over"}
            BY <2>1, <2>2, <3>5 DEF Registered, Inside, Counting, Using, Members, Admitted, Counted, Within
        <3>7. Counted' = Counted /\ Within' = Within
            <4>1. /\ Counted' = IF pc'[c] \in Counting THEN Counted \cup {c} ELSE Counted \ {c}
                  /\ Within' = IF pc'[c] \in Counting \ {"over"} THEN Within \cup {c} ELSE Within \ {c}
                BY <3>5, OneMoves
            <4> QED BY <3>6, <4>1
        <3>8. Members' = Members
            <4>1. Members' = IF Registered(c)' THEN Members \cup {c} ELSE Members \ {c}
                BY <3>5, OneMoves
            <4> QED BY <3>6, <4>1
        <3>9. Admitted' = Admitted
            <4>1. Admitted' = IF Inside(c)' THEN Admitted \cup {c} ELSE Admitted \ {c}
                BY <3>5, OneMoves
            <4> QED BY <3>6, <4>1
        <3> QED BY <1>1, <1>2, <2>1, <2>3, <3>1, <3>4, <3>7, <3>8, <3>9, Sizes DEF Counts, CountTypes, counters
    <2>4. CASE ~(slots < Concurrency)
        <3>1. /\ slots' = slots /\ pc' = [pc EXCEPT ![c] = "respond"]
              /\ ctx' = [ctx EXCEPT ![x].req = q, ![x].resp = <<"busy", q>>]
            BY <2>1, <2>4 DEF CallHandler, Goto
        <3>2. \A y \in Ctxs : ctx'[y].handler = ctx[y].handler
            BY <1>0, <2>2, <3>1 DEF Contexts
        <3>3. "respond" \in Using
            BY DEF Using
        <3> QED BY <1>0, <1>1, <2>1, <2>2, <3>1, <3>2, <3>3, ServingCounts DEF concurrencyCh
    <2> QED BY <2>3, <2>4
<1>11. ASSUME NEW c \in Conns, KeepaliveEnds(c) \/ AwaitFirstByte(c) \/ Receive(c) \/ ReadEOF(c) PROVE Goal
    <2>1. /\ UNCHANGED <<hj, counters, concurrencyCh, ctx>> /\ pc[c] \in {"top", "read", "body"}
          /\ \E p \in {"expired", "first", "body", "read", "end"} : pc' = [pc EXCEPT ![c] = p]
        BY <1>11 DEF KeepaliveEnds, AwaitFirstByte, Receive, ReadEOF, Goto, contexts
    <2> QED BY <1>0, <1>1, <2>1, ServingCounts DEF Using
<1>12. ASSUME NEW c \in Conns, FirstByte(c) PROVE Goal
    <2>1. /\ UNCHANGED <<hj, counters, concurrencyCh>> /\ pc[c] = "first"
          /\ \E p \in {"read", "end"} : pc' = [pc EXCEPT ![c] = p]
        BY <1>12 DEF FirstByte, Goto
    <2>2. PICK x \in Acquirable : ctx' = [ctx EXCEPT ![x] = Acquired(x)]
        BY <1>12 DEF FirstByte
    <2>3. x \in Ctxs /\ Acquired(x).handler = "none" /\ ctx[x].handler = "none"
        BY <1>0, AcquiredIsFresh DEF Fresh, AtRest
    <2>4. \A y \in Ctxs : ctx'[y].handler = "run" <=> ctx[y].handler = "run"
        BY <1>0, <2>2, <2>3
    <2> QED BY <1>0, <1>1, <2>1, <2>4, ServingCounts DEF Using
<1>13. ASSUME NEW c \in Conns, Continue(c) \/ ReadError(c) \/ Returns(c) PROVE Goal
    <2>1. /\ UNCHANGED <<hj, counters, concurrencyCh>> /\ pc[c] \in {"top", "read", "body", "wait"}
          /\ \E p \in {"body", "end", "respond"} : pc' = [pc EXCEPT ![c] = p]
        BY <1>13 DEF Continue, ReadError, Unreadable, Returns, Goto
    <2>2. cx[c] \in Ctxs /\ ctx[cx[c]] \in Contexts
        BY <2>1, Before DEF Using
    <2>3. \A y \in Ctxs : ctx'[y].handler = ctx[y].handler
        <3>1. CASE Continue(c)
            BY <1>0, <2>2, <3>1 DEF Continue, Contexts
        <3>2. CASE ReadError(c)
            BY <1>0, <2>2, <3>2 DEF ReadError, Contexts
        <3>3. CASE Returns(c)
            BY <1>0, <2>2, <3>3 DEF Returns, Contexts
        <3> QED BY <1>13, <3>1, <3>2, <3>3
    <2> QED BY <1>0, <1>1, <2>1, <2>3, ServingCounts DEF Using
<1>14. ASSUME NEW c \in Conns, TimesOut(c) PROVE Goal
    <2> DEFINE R(x) == [Acquired(x) EXCEPT !.resp = <<"timeout", Nil>>, !.closes = got[c] > used[c]]
    <2>1. /\ UNCHANGED <<hj, counters, concurrencyCh>> /\ pc[c] = "wait"
          /\ pc' = [pc EXCEPT ![c] = "respond"]
        BY <1>14 DEF TimesOut, Goto
    <2>2. PICK x \in Acquirable :
             ctx' = [ctx EXCEPT ![x] = R(x), ![cx[c]].timedOut = TRUE, ![cx[c]].timer = "off"]
        BY <1>14, Zenon DEF TimesOut
    <2>3. cx[c] \in Ctxs /\ ctx[cx[c]] \in Contexts
        BY <2>1, Before DEF Using
    <2>4. /\ x \in Ctxs /\ x # cx[c] /\ Acquired(x) \in Contexts /\ Fresh(Acquired(x)) /\ ctx[x].handler = "none"
        BY <1>0, AcquiredIsFresh
    <2>5. R(x).handler = "none"
        BY <2>4 DEF Fresh, AtRest, Contexts
    <2>6. \A y \in Ctxs : ctx'[y].handler = "run" <=> ctx[y].handler = "run"
        <3> HIDE DEF R
        <3> QED BY <1>0, <2>2, <2>3, <2>4, <2>5 DEF Contexts
    <2> QED BY <1>0, <1>1, <2>1, <2>6, ServingCounts DEF Using
<1>15. ASSUME NEW c \in Conns, pc[c] = "respond"
       PROVE  cx[c] \in Ctxs /\ ctx[cx[c]].handler = "none" /\ Clean(cx[c]).handler = "none"
    <2>1. cx[c] \in Ctxs /\ ctx[cx[c]] \in Contexts /\ AtRest(ctx[cx[c]])
        BY <1>15, Before DEF Using, InUse
    <2> QED BY <2>1 DEF Clean, AtRest, Contexts
<1>16. ASSUME NEW c \in Conns, RespondLater(c) \/ Respond(c) PROVE Goal
    <2>1. /\ UNCHANGED <<hj, counters, concurrencyCh>> /\ pc[c] = "respond"
          /\ ctx' = [ctx EXCEPT ![cx[c]] = Clean(cx[c])]
        BY <1>16 DEF RespondLater, Respond
    <2>2. \E p \in {"top", "end"} : pc' = [pc EXCEPT ![c] = p]
        BY <1>16 DEF RespondLater, Respond, Goto
    <2>3. \A y \in Ctxs : ctx'[y].handler = "run" <=> ctx[y].handler = "run"
        BY <1>0, <1>15, <2>1
    <2> QED BY <1>0, <1>1, <2>1, <2>2, <2>3, ServingCounts DEF Using
<1>17. ASSUME NEW c \in Conns, Hijack(c) PROVE Goal
    <2>1. /\ UNCHANGED <<counters, concurrencyCh>> /\ pc[c] = "respond" /\ pc' = [pc EXCEPT ![c] = "end"]
          /\ hj' = hj \/ hj' = [hj EXCEPT ![c] = "run"]
        BY <1>17 DEF Hijack, Goto
    <2>2. /\ pc'[c] = "end" /\ \A d \in Conns \ {c} : pc'[d] = pc[d] /\ hj'[d] = hj[d]
          /\ hj[c] = "none" /\ hj'[c] \in {"none", "run"}
        BY <1>0, <2>1 DEF LoopTypes, ReaderAt
    <2>3. /\ Registered(c)' <=> Registered(c)
          /\ Inside(c)' <=> Inside(c)
          /\ pc'[c] \in Counting <=> pc[c] \in Counting
          /\ pc'[c] \in Counting \ {"over"} <=> pc[c] \in Counting \ {"over"}
        BY <2>1, <2>2 DEF Registered, Inside, Counting, Using
    <2>4. \/ ctx' = [ctx EXCEPT ![cx[c]] = Clean(cx[c])]
          \/ \E x \in Acquirable : ctx' = [ctx EXCEPT ![x] = Acquired(x), ![cx[c]] = Clean(cx[c])]
        BY <1>17 DEF Hijack
    <2>5. \A x \in Acquirable : x \in Ctxs /\ Acquired(x).handler = "none" /\ ctx[x].handler = "none"
        BY <1>0, AcquiredIsFresh DEF Fresh, AtRest
    <2>6. \A y \in Ctxs : ctx'[y].handler = "run" <=> ctx[y].handler = "run"
        BY <1>0, <1>15, <2>1, <2>4, <2>5
    <2>7. Running' = Running
        BY <2>6, RunningStays
    <2> QED BY <1>0, <1>1, <2>1, <2>2, <2>3, <2>7, CountsStay
<1>18. ASSUME NEW x \in Ctxs, HandlerEnds(x) PROVE Goal
    <2>1. PICK o \in Outcomes, parse \in BOOLEAN :
             /\ parse => ctx[x].req # Nil /\ KindOf(ctx[x].req) = "rawClose"
             /\ ctx' = [ctx EXCEPT ![x] =
                IF @.timedOut THEN NewCtx
                ELSE [@ EXCEPT !.resp = <<"ok", ctx[x].req>>, !.closes = (o = "close"),
                               !.hijacks = (o = "hijack"), !.parsed = parse,
                               !.timeoutCh = 1, !.handler = "none"]]
        BY <1>18, Zenon DEF HandlerEnds
    <2>2. ctx[x].handler = "run" /\ ended' = ended + 1 /\ UNCHANGED <<pc, hj, perIP, concurrency, slots>>
        BY <1>18 DEF HandlerEnds, loop, counters
    <2>3. ctx[x] \in Contexts
        BY <1>0
    <2>4. ctx'[x].handler = "none" /\ \A y \in Ctxs \ {x} : ctx'[y] = ctx[y]
        <3>1. CASE ctx[x].timedOut
            BY <1>0, <2>1, <3>1 DEF NewCtx
        <3>2. CASE ~ctx[x].timedOut
            BY <1>0, <2>1, <2>3, <3>2 DEF Contexts
        <3> QED BY <3>1, <3>2
    <2>5. Running' = Running \ {x} /\ x \in Running
        BY <2>2, <2>4 DEF Running
    <2>6. Cardinality(Running') = Cardinality(Running) - 1 /\ Cardinality(Running) >= 1
        BY <2>5, Sizes, SizeOf
    <2>7. Members' = Members /\ Admitted' = Admitted /\ Counted' = Counted /\ Within' = Within
        BY <2>2 DEF Members, Admitted, Counted, Within, Registered, Inside
    <2>8. slots' = ended' + Cardinality(Running') /\ ended' \in 0..slots'
        BY <1>2, <2>2, <2>6, Sizes
    <2> QED BY <1>1, <1>2, <2>2, <2>7, <2>8 DEF Counts, CountTypes
<1>19. ASSUME FreeSlot PROVE Goal
    <2>1. /\ ended > 0 /\ slots' = slots - 1 /\ ended' = ended - 1
          /\ UNCHANGED <<pc, hj, perIP, concurrency, ctx>>
        BY <1>19 DEF FreeSlot, loop, counters, contexts
    <2>2. /\ Members' = Members /\ Admitted' = Admitted /\ Counted' = Counted /\ Within' = Within
          /\ Running' = Running
        BY <2>1 DEF Members, Admitted, Counted, Within, Running, Registered, Inside
    <2>3. slots' = ended' + Cardinality(Running') /\ ended' \in 0..slots' /\ slots' \in 0..Concurrency
        BY <1>1, <1>2, <2>1, <2>2, Sizes
    <2> QED BY <1>1, <1>2, <2>1, <2>2, <2>3 DEF Counts, CountTypes
<1>20. ASSUME NEW x \in Ctxs, Tick(x) PROVE Goal
    <2>1. /\ UNCHANGED <<pc, hj, counters, concurrencyCh>> /\ ctx' = [ctx EXCEPT ![x].timer = "tick"]
        BY <1>20 DEF Tick, loop
    <2>2. \A y \in Ctxs : ctx'[y].handler = ctx[y].handler
        BY <1>0, <2>1 DEF Contexts
    <2>3. /\ Members' = Members /\ Admitted' = Admitted /\ Counted' = Counted /\ Within' = Within
          /\ Running' = Running
        BY <2>1, <2>2 DEF Members, Admitted, Counted, Within, Running, Registered, Inside
    <2> QED BY <1>1, <1>2, <2>1, <2>3 DEF Counts, CountTypes, counters, concurrencyCh
<1>21. ASSUME UNCHANGED vars \/ \E c \in Conns : Client(c) PROVE Goal
    BY <1>3, <1>21 DEF vars, Client, Send, SendRest, loop, contexts
<1> QED BY <1>4, <1>5, <1>6, <1>7, <1>8, <1>9, <1>10, <1>11, <1>12, <1>13, <1>14, <1>16, <1>17, <1>18, <1>19,
           <1>20, <1>21
        DEF Next, ServerStep, Serve, Arrive, ReadStep, AnswerStep, Depart

-----------------------------------------------------------------------------
(* perIPConns and sockets *)

(* Steps that leave the sockets alone, and nobody leaves or enters. *)
LEMMA WrappedStays ==
    ASSUME Wrapped, UNCHANGED sockets,
           \A d \in Conns : (Inside(d)' <=> Inside(d)) /\ (Shut(d)' <=> Shut(d))
    PROVE  Wrapped'
<1>1. UNCHANGED <<open, wrap, inner>>
    BY DEF sockets
<1> QED BY <1>1 DEF Wrapped

LEMMA WrappedServing ==
    ASSUME Wrapped, LoopTypes, UNCHANGED sockets, UNCHANGED hj, NEW c \in Conns,
           \/ pc' = pc
           \/ /\ pc[c] \in Using \cup {"first", "over", "count"}
              /\ \E p \in Using \cup {"first", "over"} : pc' = [pc EXCEPT ![c] = p]
    PROVE  Wrapped'
<1>1. ASSUME NEW d \in Conns PROVE (Inside(d)' <=> Inside(d)) /\ (Shut(d)' <=> Shut(d))
    <2>1. CASE pc'[d] = pc[d]
        BY <2>1 DEF Inside, Shut, Registered
    <2>2. CASE pc'[d] # pc[d]
        <3>1. pc[d] \in Using \cup {"first", "over", "count"} /\ pc'[d] \in Using \cup {"first", "over"}
            BY <2>2 DEF LoopTypes
        <3> QED BY <3>1 DEF Inside, Shut, Registered, Using
    <2> QED BY <2>1, <2>2
<1> QED BY <1>1, WrappedStays

LEMMA WrappedNext ==
    ASSUME IInv, [Next]_vars
    PROVE  Wrapped'
<1>0. /\ LoopTypes /\ Readers /\ Wrapped /\ (\A c \in Conns : ReaderAt(c))
      /\ open \in [Conns -> BOOLEAN] /\ wrap \in [Conns -> Wrappers \cup {Nil}]
      /\ inner \in [Wrappers -> Conns \cup {Nil}]
      /\ Nil \notin Conns
    BY TypeParts, NumbersAssumption DEF IInv, CtxInv, LimitInv, Readers, LoopTypes
<1>1. ASSUME UNCHANGED <<pc, hj, sockets>> PROVE Wrapped'
    BY <1>0, <1>1, WrappedStays DEF Inside, Shut, Registered
<1>2. ASSUME NEW c \in Conns, Register(c) PROVE Wrapped'
    <2>1. /\ pc[c] = "new" /\ UNCHANGED <<hj, open>>
          /\ \/ pc' = [pc EXCEPT ![c] = "refuse"] /\ UNCHANGED <<wrap, inner>>
             \/ pc' = [pc EXCEPT ![c] = "count"] /\ AcquirePerIPConn(c)
        BY <1>2 DEF Register, Goto, sockets
    <2>2. /\ hj[c] = "none" /\ hj'[c] = "none" /\ pc'[c] \in {"refuse", "count"}
          /\ \A d \in Conns \ {c} : pc'[d] = pc[d] /\ hj'[d] = hj[d]
        BY <1>0, <2>1 DEF LoopTypes, ReaderAt
    <2>3. /\ \A d \in Conns \ {c} : (Inside(d)' <=> Inside(d)) /\ (Shut(d)' <=> Shut(d))
          /\ ~Inside(c) /\ ~Shut(c) /\ ~Shut(c)' /\ (Inside(c)' <=> pc'[c] = "count")
        BY <2>1, <2>2 DEF Inside, Shut, Registered
    <2>4. \A d \in Conns : open'[d] <=> ~Shut(d)'
        BY <1>0, <2>1, <2>3 DEF Wrapped
    <2>5. CASE pc' = [pc EXCEPT ![c] = "refuse"] /\ UNCHANGED <<wrap, inner>>
        <3>1. ~Inside(c)'
            BY <1>0, <2>3, <2>5 DEF LoopTypes
        <3> QED BY <1>0, <2>3, <2>4, <2>5, <3>1 DEF Wrapped
    <2>6. CASE pc' = [pc EXCEPT ![c] = "count"] /\ AcquirePerIPConn(c)
        <3>1. PICK w \in Wrappers : /\ inner[w] = Nil
                                    /\ wrap' = [wrap EXCEPT ![c] = w]
                                    /\ inner' = [inner EXCEPT ![w] = c]
            BY <1>0, <2>1, <2>6, NewWrapper
        <3>2. /\ wrap'[c] = w /\ inner'[w] = c
              /\ \A d \in Conns \ {c} : wrap'[d] = wrap[d]
              /\ \A v \in Wrappers \ {w} : inner'[v] = inner[v]
              /\ Inside(c)'
            BY <1>0, <2>2, <2>3, <2>6, <3>1 DEF LoopTypes
        <3>3. \A d \in Conns : Inside(d)' => wrap'[d] \in Wrappers /\ inner'[wrap'[d]] = d
            <4> SUFFICES ASSUME NEW d \in Conns, Inside(d)'
                         PROVE  wrap'[d] \in Wrappers /\ inner'[wrap'[d]] = d
                OBVIOUS
            <4>1. CASE d = c
                BY <3>2, <4>1
            <4>2. CASE d # c
                <5>1. wrap[d] \in Wrappers /\ inner[wrap[d]] = d /\ wrap'[d] = wrap[d]
                    BY <1>0, <2>3, <3>2, <4>2 DEF Wrapped
                <5>2. wrap[d] # w
                    BY <1>0, <3>1, <5>1
                <5> QED BY <3>2, <5>1, <5>2
            <4> QED BY <4>1, <4>2
        <3>4. \A v \in Wrappers, d \in Conns : inner'[v] = d => Inside(d)' /\ wrap'[d] = v
            <4> SUFFICES ASSUME NEW v \in Wrappers, NEW d \in Conns, inner'[v] = d
                         PROVE  Inside(d)' /\ wrap'[d] = v
                OBVIOUS
            <4>1. CASE v = w
                BY <3>2, <4>1
            <4>2. CASE v # w
                <5>1. Inside(d) /\ wrap[d] = v
                    BY <1>0, <3>2, <4>2 DEF Wrapped
                <5>2. d # c
                    BY <2>3, <5>1
                <5> QED BY <2>3, <3>2, <5>1, <5>2
            <4> QED BY <4>1, <4>2
        <3> QED BY <2>4, <3>3, <3>4 DEF Wrapped
    <2> QED BY <2>1, <2>5, <2>6
<1>3. ASSUME NEW c \in Conns, Refuse(c) PROVE Wrapped'
    <2>1. /\ pc[c] = "refuse" /\ pc' = [pc EXCEPT ![c] = "done"] /\ UNCHANGED <<hj, wrap, inner>>
          /\ open' = [open EXCEPT ![c] = FALSE]
        BY <1>3 DEF Refuse, Goto
    <2>2. /\ hj[c] = "none" /\ hj'[c] = "none" /\ pc'[c] = "done"
          /\ \A d \in Conns \ {c} : pc'[d] = pc[d] /\ hj'[d] = hj[d]
        BY <1>0, <2>1 DEF LoopTypes, ReaderAt
    <2>3. /\ \A d \in Conns \ {c} : (Inside(d)' <=> Inside(d)) /\ (Shut(d)' <=> Shut(d))
          /\ ~Inside(c) /\ ~Inside(c)' /\ Shut(c)'
        BY <2>1, <2>2 DEF Inside, Shut, Registered
    <2>4. \A d \in Conns : open'[d] <=> ~Shut(d)'
        BY <1>0, <2>1, <2>3 DEF Wrapped
    <2>5. \A d \in Conns : Inside(d)' <=> Inside(d)
        BY <2>3
    <2> QED BY <1>0, <2>1, <2>4, <2>5 DEF Wrapped
<1>4. ASSUME NEW c \in Conns, RefuseOver(c) PROVE Wrapped'
    <2>1. /\ pc[c] = "over" /\ pc' = [pc EXCEPT ![c] = "close"] /\ UNCHANGED <<hj, sockets>>
        BY <1>4 DEF RefuseOver, Goto
    <2>2. /\ pc'[c] = "close" /\ \A d \in Conns \ {c} : pc'[d] = pc[d] /\ hj'[d] = hj[d]
        BY <1>0, <2>1 DEF LoopTypes
    <2>3. \A d \in Conns : (Inside(d)' <=> Inside(d)) /\ (Shut(d)' <=> Shut(d))
        BY <2>1, <2>2 DEF Inside, Shut, Registered
    <2> QED BY <1>0, <2>1, <2>3, WrappedStays
<1>5. ASSUME NEW c \in Conns, End(c) PROVE Wrapped'
    <2>1. /\ pc[c] \in {"end", "expired"} /\ UNCHANGED <<hj, sockets>>
          /\ pc' = [pc EXCEPT ![c] = IF hj[c] = "none" THEN "close" ELSE "done"]
        BY <1>5 DEF End, Goto
    <2>2. /\ pc'[c] = (IF hj[c] = "none" THEN "close" ELSE "done") /\ hj' = hj
          /\ \A d \in Conns \ {c} : pc'[d] = pc[d]
        BY <1>0, <2>1 DEF LoopTypes
    <2>3. \A d \in Conns : (Inside(d)' <=> Inside(d)) /\ (Shut(d)' <=> Shut(d))
        BY <2>1, <2>2 DEF Inside, Shut, Registered
    <2> QED BY <1>0, <2>1, <2>3, WrappedStays
(* perIPConn.Close closes the socket of c and no other. *)
<1>6. ASSUME NEW c \in Conns, Close(c) \/ HijackClose(c) PROVE Wrapped'
    <2>1. /\ CloseSocket(c) /\ UNCHANGED <<wrap, inner>>
          /\ \/ pc[c] = "close" /\ pc' = [pc EXCEPT ![c] = "unregister"] /\ hj' = hj
             \/ hj[c] = "close" /\ hj' = [hj EXCEPT ![c] = "unregister"] /\ pc' = pc
        BY <1>6 DEF Close, HijackClose, Goto
    <2>2. \A d \in Conns \ {c} : pc'[d] = pc[d] /\ hj'[d] = hj[d]
        BY <1>0, <2>1 DEF LoopTypes
    <2>3. Inside(c) /\ Inside(c)' /\ Shut(c)'
        <3>1. CASE pc[c] = "close" /\ pc' = [pc EXCEPT ![c] = "unregister"] /\ hj' = hj
            <4>1. pc'[c] = "unregister" /\ hj[c] = "none" /\ hj'[c] = "none"
                BY <1>0, <3>1 DEF LoopTypes, ReaderAt
            <4> QED BY <3>1, <4>1 DEF Inside, Shut, Registered
        <3>2. CASE hj[c] = "close" /\ hj' = [hj EXCEPT ![c] = "unregister"] /\ pc' = pc
            <4>1. hj'[c] = "unregister" /\ pc[c] \in {"end", "done"}
                BY <1>0, <3>2 DEF LoopTypes, ReaderAt
            <4> QED BY <3>2, <4>1 DEF Inside, Shut, Registered
        <3> QED BY <2>1, <3>1, <3>2
    <2>4. \A d \in Conns \ {c} : (Inside(d)' <=> Inside(d)) /\ (Shut(d)' <=> Shut(d))
        BY <2>2 DEF Inside, Shut, Registered
    <2>5. inner[wrap[c]] = c
        BY <1>0, <2>3 DEF Wrapped
    <2>6. \A d \in Conns : open'[d] <=> open[d] /\ d # c
        BY <2>1, <2>5 DEF CloseSocket
    <2>7. \A d \in Conns : open'[d] <=> ~Shut(d)'
        BY <1>0, <2>3, <2>4, <2>6 DEF Wrapped
    <2>8. \A d \in Conns : Inside(d)' <=> Inside(d)
        BY <2>3, <2>4
    <2> QED BY <1>0, <2>1, <2>7, <2>8 DEF Wrapped
(* perIPConns of c are given up, and no other. *)
<1>7. ASSUME NEW c \in Conns, Leave(c) \/ HijackLeave(c) PROVE Wrapped'
    <2>1. /\ Unregister(c) /\ UNCHANGED <<open, wrap>>
          /\ \/ pc[c] = "unregister" /\ pc' = [pc EXCEPT ![c] = "done"] /\ hj' = hj
             \/ hj[c] = "unregister" /\ hj' = [hj EXCEPT ![c] = "done"] /\ pc' = pc
        BY <1>7 DEF Leave, HijackLeave, Goto
    <2>2. \A d \in Conns \ {c} : pc'[d] = pc[d] /\ hj'[d] = hj[d]
        BY <1>0, <2>1 DEF LoopTypes
    <2>3. Inside(c) /\ ~Inside(c)' /\ Shut(c) /\ Shut(c)'
        <3>1. CASE pc[c] = "unregister" /\ pc' = [pc EXCEPT ![c] = "done"] /\ hj' = hj
            <4>1. pc'[c] = "done" /\ hj[c] = "none" /\ hj'[c] = "none"
                BY <1>0, <3>1 DEF LoopTypes, ReaderAt
            <4> QED BY <3>1, <4>1 DEF Inside, Shut, Registered
        <3>2. CASE hj[c] = "unregister" /\ hj' = [hj EXCEPT ![c] = "done"] /\ pc' = pc
            <4>1. hj'[c] = "done" /\ pc[c] \in {"end", "done"}
                BY <1>0, <3>2 DEF LoopTypes, ReaderAt
            <4> QED BY <3>2, <4>1 DEF Inside, Shut, Registered
        <3> QED BY <2>1, <3>1, <3>2
    <2>4. \A d \in Conns \ {c} : (Inside(d)' <=> Inside(d)) /\ (Shut(d)' <=> Shut(d))
        BY <2>2 DEF Inside, Shut, Registered
    <2>5. \A d \in Conns : open'[d] <=> ~Shut(d)'
        BY <1>0, <2>1, <2>3, <2>4 DEF Wrapped
    <2>6. /\ wrap[c] \in Wrappers /\ inner[wrap[c]] = c
          /\ inner' = [inner EXCEPT ![wrap[c]] = Nil]
        BY <1>0, <2>1, <2>3 DEF Wrapped, Unregister
    <2>7. inner'[wrap[c]] = Nil /\ \A v \in Wrappers \ {wrap[c]} : inner'[v] = inner[v]
        BY <1>0, <2>6
    <2>8. \A d \in Conns : Inside(d)' => wrap'[d] \in Wrappers /\ inner'[wrap'[d]] = d
        <3> SUFFICES ASSUME NEW d \in Conns, Inside(d)'
                     PROVE  wrap[d] \in Wrappers /\ inner'[wrap[d]] = d
            BY <2>1
        <3>1. d # c /\ wrap[d] \in Wrappers /\ inner[wrap[d]] = d
            BY <1>0, <2>3, <2>4 DEF Wrapped
        <3>2. wrap[d] # wrap[c]
            BY <2>6, <3>1
        <3> QED BY <2>7, <3>1, <3>2
    <2>9. \A v \in Wrappers, d \in Conns : inner'[v] = d => Inside(d)' /\ wrap'[d] = v
        <3> SUFFICES ASSUME NEW v \in Wrappers, NEW d \in Conns, inner'[v] = d
                     PROVE  Inside(d)' /\ wrap'[d] = v
            OBVIOUS
        <3>1. v # wrap[c] /\ inner[v] = d
            BY <1>0, <2>7
        <3>2. Inside(d) /\ wrap[d] = v /\ d # c
            BY <1>0, <3>1 DEF Wrapped
        <3> QED BY <2>1, <2>4, <3>2
    <2> QED BY <2>5, <2>8, <2>9 DEF Wrapped
<1>8. ASSUME NEW c \in Conns, HijackEnds(c) PROVE Wrapped'
    <2>1. /\ hj[c] = "run" /\ hj' = [hj EXCEPT ![c] = "close"] /\ UNCHANGED <<pc, sockets>>
        BY <1>8 DEF HijackEnds
    <2>2. hj'[c] = "close" /\ \A d \in Conns \ {c} : hj'[d] = hj[d]
        BY <1>0, <2>1 DEF LoopTypes
    <2>3. \A d \in Conns : (Inside(d)' <=> Inside(d)) /\ (Shut(d)' <=> Shut(d))
        BY <2>1, <2>2 DEF Inside, Shut, Registered
    <2> QED BY <1>0, <2>1, <2>3, WrappedStays
<1>9. ASSUME NEW c \in Conns, Hijack(c) PROVE Wrapped'
    <2>1. /\ pc[c] = "respond" /\ pc' = [pc EXCEPT ![c] = "end"] /\ UNCHANGED sockets
          /\ hj' = hj \/ hj' = [hj EXCEPT ![c] = "run"]
        BY <1>9 DEF Hijack, Goto
    <2>2. /\ pc'[c] = "end" /\ hj[c] = "none" /\ hj'[c] \in {"none", "run"}
          /\ \A d \in Conns \ {c} : pc'[d] = pc[d] /\ hj'[d] = hj[d]
        BY <1>0, <2>1 DEF LoopTypes, ReaderAt
    <2>3. \A d \in Conns : (Inside(d)' <=> Inside(d)) /\ (Shut(d)' <=> Shut(d))
        BY <2>1, <2>2 DEF Inside, Shut, Registered
    <2> QED BY <1>0, <2>1, <2>3, WrappedStays
<1>10. ASSUME NEW c \in Conns, Count(c) \/ CountOver(c) PROVE Wrapped'
    <2>1. /\ UNCHANGED <<hj, sockets>> /\ pc[c] = "count"
          /\ \E p \in {"top", "over"} : pc' = [pc EXCEPT ![c] = p]
        BY <1>10 DEF Count, CountOver, Goto
    <2> QED BY <1>0, <2>1, WrappedServing DEF Using
<1>11. ASSUME NEW c \in Conns, ReadStep(c) PROVE Wrapped'
    <2>1. UNCHANGED <<hj, sockets>> /\ pc[c] \in {"top", "first", "read", "body"}
        BY <1>11 DEF ReadStep, KeepaliveEnds, AwaitFirstByte, FirstByte, Receive, ReadRequest, Continue, ReadBody,
                     ReadEOF, ReadError, Unreadable
    <2>2. \E p \in {"expired", "first", "read", "body", "wait", "respond", "end"} : pc' = [pc EXCEPT ![c] = p]
        BY <1>11 DEF ReadStep, KeepaliveEnds, AwaitFirstByte, FirstByte, Receive, ReadRequest, Continue, ReadBody,
                     ReadEOF, ReadError, Call, CallHandler, Goto
    <2> QED BY <1>0, <2>1, <2>2, WrappedServing DEF Using
<1>12. ASSUME NEW c \in Conns, Returns(c) \/ TimesOut(c) \/ RespondLater(c) \/ Respond(c) PROVE Wrapped'
    <2>1. CASE Returns(c)
        <3>1. UNCHANGED <<hj, sockets>> /\ pc[c] = "wait" /\ pc' = [pc EXCEPT ![c] = "respond"]
            BY <2>1 DEF Returns, Goto
        <3> QED BY <1>0, <3>1, WrappedServing DEF Using
    <2>2. CASE TimesOut(c)
        <3>1. UNCHANGED <<hj, sockets>> /\ pc[c] = "wait" /\ pc' = [pc EXCEPT ![c] = "respond"]
            BY <2>2, Zenon DEF TimesOut, Goto
        <3> QED BY <1>0, <3>1, WrappedServing DEF Using
    <2>3. CASE RespondLater(c)
        <3>1. UNCHANGED <<hj, sockets>> /\ pc[c] = "respond" /\ pc' = [pc EXCEPT ![c] = "top"]
            BY <2>3 DEF RespondLater, Goto
        <3> QED BY <1>0, <3>1, WrappedServing DEF Using
    <2>4. CASE Respond(c)
        <3>1. UNCHANGED <<hj, sockets>> /\ pc[c] = "respond"
            BY <2>4 DEF Respond
        <3>2. \E p \in {"top", "end"} : pc' = [pc EXCEPT ![c] = p]
            BY <2>4 DEF Respond, Goto
        <3> QED BY <1>0, <3>1, <3>2, WrappedServing DEF Using
    <2> QED BY <1>12, <2>1, <2>2, <2>3, <2>4
<1>13. ASSUME FreeSlot \/ UNCHANGED vars \/ (\E c \in Conns : Client(c)) \/ (\E x \in Ctxs : Tick(x) \/ HandlerEnds(x))
       PROVE  Wrapped'
    <2>1. ASSUME FreeSlot PROVE UNCHANGED <<pc, hj, sockets>>
        BY <2>1 DEF FreeSlot, loop
    <2>2. ASSUME UNCHANGED vars PROVE UNCHANGED <<pc, hj, sockets>>
        BY <2>2 DEF vars, loop
    <2>3. ASSUME NEW c \in Conns, Client(c) PROVE UNCHANGED <<pc, hj, sockets>>
        BY <2>3 DEF Client, Send, SendRest, loop
    <2>4. ASSUME NEW x \in Ctxs, Tick(x) \/ HandlerEnds(x) PROVE UNCHANGED <<pc, hj, sockets>>
        <3>1. CASE Tick(x)
            BY <3>1 DEF Tick, loop
        <3>2. CASE HandlerEnds(x)
            BY <3>2, Zenon DEF HandlerEnds, loop
        <3> QED BY <2>4, <3>1, <3>2
    <2> QED BY <1>1, <1>13, <2>1, <2>2, <2>3, <2>4
<1> QED BY <1>2, <1>3, <1>4, <1>5, <1>6, <1>7, <1>8, <1>9, <1>10, <1>11, <1>12, <1>13
        DEF Next, ServerStep, Serve, Arrive, AnswerStep, Depart

-----------------------------------------------------------------------------
(* The order of answers                                                        *)

(* Where serveConn is between two requests, and inside one.                     *)
Between == {"top", "first", "read"}
InRequest == {"body", "wait", "respond"}

(* Each answer says what it is about, and no answer is out of place.            *)
Truthful(c, a) ==
    /\ a.what \in {"ok", "busy"} => a.of = Request(c, a.to) /\ a.body = (kinds[c][a.to] # "head")
    /\ a.what \notin {"error", "continue"} =>
          a.to \in 1..Len(kinds[c]) /\ (kinds[c][a.to] = "close" => a.last)
InOrder(s) == \A i \in 1..Len(s)-1 : Follows(s[i+1], s[i])
Orderly(c, s) == InOrder(s) /\ \A a \in ToSet(s) : Truthful(c, a)

(* What was said last tells which request is next.                              *)
Position(c) ==
    /\ Said(c) = <<>> => pc[c] # "top" \/ used[c] = 0
    /\ Said(c) # <<>> =>
          LET a == Last(Said(c)) IN
          /\ pc[c] # "end" => ~a.last
          /\ pc[c] \in Between => a.what # "continue" /\ a.to = Current(c)
          /\ pc[c] \in InRequest => Current(c) = IF a.what = "continue" THEN a.to ELSE a.to + 1

(* Where serveConn is in the stream.                                            *)
Units(c) ==
    /\ pc[c] \in {"new", "count"} => used[c] = 0 /\ Said(c) = <<>>
    /\ pc[c] \in Between \cup {"wait", "respond"} => used[c] = 2 * Current(c)
    /\ pc[c] = "body" => used[c] = 2 * Current(c) - 1 /\ kinds[c][Current(c)] = "expect"
    /\ pc[c] \in InRequest => Current(c) \in 1..Len(kinds[c])

(* The request that is being answered is the one in the context, and what the    *)
(* handler made of the context is for it.                                       *)
Asked(c) ==
    LET x == ctx[cx[c]]
        q == Request(c, Current(c)) IN
    /\ pc[c] = "wait" => x.req = q /\ (x.timeoutCh = 1 => x.resp = <<"ok", q>>)
    /\ pc[c] = "respond" =>
          /\ x.resp[1] \in {"ok", "busy", "timeout"}
          /\ x.resp[1] \in {"ok", "busy"} => x.req = q /\ x.resp[2] = q
    /\ pc[c] \in {"wait", "respond"} /\ kinds[c][Current(c)] = "close" => closing[c]

OrderAt(c) == Orderly(c, Said(c)) /\ Position(c) /\ Units(c) /\ Asked(c)
OrderInv == \A c \in Conns : OrderAt(c)

(* A sequence cut into two, and one that grows by an answer.                    *)
LEMMA CutInOrder ==
    ASSUME NEW S, NEW s \in Seq(S), NEW t \in Seq(S), InOrder(s \o t)
    PROVE  /\ InOrder(s) /\ InOrder(t)
           /\ ToSet(s) \subseteq ToSet(s \o t) /\ ToSet(t) \subseteq ToSet(s \o t)
           /\ t # <<>> => s \o t # <<>> /\ Last(s \o t) = Last(t)
<1> DEFINE u == s \o t
<1>1. /\ u \in Seq(S) /\ Len(u) = Len(s) + Len(t) /\ Len(s) \in Nat /\ Len(t) \in Nat
      /\ \A i \in 1..Len(s) + Len(t) : u[i] = IF i <= Len(s) THEN s[i] ELSE t[i - Len(s)]
    BY ConcatProperties
<1>2. /\ DOMAIN s = 1..Len(s) /\ DOMAIN t = 1..Len(t) /\ DOMAIN u = 1..Len(s) + Len(t)
    BY <1>1
<1> HIDE DEF u
<1>3. InOrder(s)
    <2> SUFFICES ASSUME NEW i \in 1..Len(s)-1 PROVE Follows(s[i+1], s[i])
        BY DEF InOrder
    <2>1. /\ i \in 1..Len(u)-1 /\ i <= Len(s) /\ i + 1 <= Len(s)
          /\ i \in 1..Len(s) + Len(t) /\ i + 1 \in 1..Len(s) + Len(t)
        BY <1>1
    <2>2. u[i] = s[i] /\ u[i+1] = s[i+1]
        BY <1>1, <2>1
    <2> QED BY <2>1, <2>2 DEF InOrder, u
<1>4. InOrder(t)
    <2> SUFFICES ASSUME NEW i \in 1..Len(t)-1 PROVE Follows(t[i+1], t[i])
        BY DEF InOrder
    <2> DEFINE j == Len(s) + i
    <2>1. /\ j \in 1..Len(u)-1 /\ ~(j <= Len(s)) /\ ~(j + 1 <= Len(s)) /\ j - Len(s) = i /\ j + 1 - Len(s) = i + 1
          /\ j \in 1..Len(s) + Len(t) /\ j + 1 \in 1..Len(s) + Len(t)
        BY <1>1
    <2> HIDE DEF j
    <2>2. u[j] = t[i] /\ u[j+1] = t[i+1]
        BY <1>1, <2>1
    <2> QED BY <2>1, <2>2 DEF InOrder, u
<1>5. ToSet(s) \subseteq ToSet(u)
    <2> SUFFICES ASSUME NEW i \in 1..Len(s) PROVE s[i] \in ToSet(u)
        BY <1>2 DEF ToSet
    <2>1. i \in 1..Len(s) + Len(t) /\ u[i] = s[i]
        BY <1>1
    <2> QED BY <1>2, <2>1 DEF ToSet
<1>6. ToSet(t) \subseteq ToSet(u)
    <2> SUFFICES ASSUME NEW i \in 1..Len(t) PROVE t[i] \in ToSet(u)
        BY <1>2 DEF ToSet
    <2>1. Len(s) + i \in 1..Len(s) + Len(t) /\ ~(Len(s) + i <= Len(s)) /\ Len(s) + i - Len(s) = i
        BY <1>1
    <2>2. u[Len(s) + i] = t[i]
        BY <1>1, <2>1
    <2> QED BY <1>2, <2>1, <2>2 DEF ToSet
<1>7. ASSUME t # <<>> PROVE u # <<>> /\ Last(u) = Last(t)
    <2>1. Len(t) >= 1
        BY <1>1, <1>7
    <2>2. /\ Len(u) \in 1..Len(s) + Len(t) /\ ~(Len(u) <= Len(s)) /\ Len(u) - Len(s) = Len(t)
        BY <1>1, <2>1
    <2>3. u[Len(u)] = t[Len(t)]
        BY <1>1, <2>2
    <2>4. u # <<>>
        BY <1>1, <2>1
    <2> QED BY <2>3, <2>4 DEF Last
<1> QED BY <1>3, <1>4, <1>5, <1>6, <1>7 DEF u

LEMMA GrowInOrder ==
    ASSUME NEW S, NEW s \in Seq(S), NEW a \in S, InOrder(s), s # <<>> => Follows(a, Last(s))
    PROVE  /\ Append(s, a) = s \o <<a>>
           /\ InOrder(Append(s, a))
           /\ ToSet(Append(s, a)) = ToSet(s) \cup {a}
           /\ Append(s, a) # <<>> /\ Last(Append(s, a)) = a
<1> DEFINE u == Append(s, a)
           n == Len(s)
<1>1. /\ n \in Nat /\ u \in Seq(S) /\ u # <<>> /\ Len(u) = n + 1
      /\ \A i \in 1..n : u[i] = s[i]
      /\ u[n + 1] = a
    BY AppendProperties
<1>2. DOMAIN s = 1..n /\ DOMAIN u = 1..n + 1 /\ (s # <<>> => n >= 1) /\ (n >= 1 => s # <<>>)
    BY <1>1
<1>3. u = s \o <<a>>
    BY AppendIsConcat
<1> HIDE DEF u, n
<1>4. InOrder(u)
    <2> SUFFICES ASSUME NEW i \in 1..n PROVE Follows(u[i+1], u[i])
        BY <1>1 DEF InOrder
    <2>1. CASE i = n
        BY <1>1, <1>2, <2>1 DEF Last, n
    <2>2. CASE i # n
        <3>1. i \in 1..n-1 /\ i + 1 \in 1..n
            BY <1>1, <2>2
        <3> QED BY <1>1, <3>1 DEF InOrder, n
    <2> QED BY <2>1, <2>2
<1>5. ToSet(u) = ToSet(s) \cup {a}
    <2>1. ASSUME NEW i \in 1..n + 1 PROVE u[i] \in ToSet(s) \cup {a}
        <3>1. CASE i = n + 1
            BY <1>1, <3>1
        <3>2. CASE i # n + 1
            <4>1. i \in 1..n
                BY <1>1, <3>2
            <4> QED BY <1>1, <1>2, <4>1 DEF ToSet
        <3> QED BY <3>1, <3>2
    <2>2. ASSUME NEW i \in 1..n PROVE s[i] \in ToSet(u)
        <3>1. i \in 1..n + 1
            BY <1>1
        <3> QED BY <1>1, <1>2, <3>1 DEF ToSet
    <2>3. a \in ToSet(u)
        <3>1. n + 1 \in 1..n + 1
            BY <1>1
        <3> QED BY <1>1, <1>2, <3>1 DEF ToSet
    <2> QED BY <1>2, <2>1, <2>2, <2>3 DEF ToSet
<1>6. Last(u) = a
    BY <1>1 DEF Last
<1> QED BY <1>1, <1>3, <1>4, <1>5, <1>6 DEF u

LEMMA Halves ==
    ASSUME NEW n \in Nat
    PROVE  /\ (2 * n + 1) \div 2 = n
           /\ n >= 1 => (2 * n - 1 + 1) \div 2 = n
OBVIOUS

(* What is known of a connection before a step.                                 *)
LEMMA OrderBefore ==
    ASSUME IInv, OrderInv, NEW c \in Conns
    PROVE  /\ Orderly(c, Said(c)) /\ Position(c) /\ Units(c) /\ Asked(c)
           /\ out[c] \in Seq(Sent) /\ bw[c] \in Seq(Sent) /\ Said(c) \in Seq(Sent)
           /\ Said(c) = out[c] \o bw[c] /\ InOrder(Said(c))
           /\ kinds[c] \in Seq(Kinds) /\ Len(kinds[c]) \in Nat
           /\ used[c] \in Nat /\ Current(c) \in Nat
           /\ used[c] = 2 * Current(c) => Reading(c) = Current(c) + 1
           /\ used[c] = 2 * Current(c) - 1 => Reading(c) = Current(c)
<1>1. StreamTypes /\ DataTypes
    BY Before
<1>2. OrderAt(c) /\ InOrder(Said(c))
    BY DEF OrderInv, OrderAt, Orderly
<1>3. used[c] \in Nat /\ kinds[c] \in Seq(Kinds)
    BY <1>1 DEF StreamTypes
<1>4. PICK n \in Nat : n = used[c]
    BY <1>3
<1>5. /\ Current(c) \in Nat
      /\ used[c] = 2 * Current(c) => Reading(c) = Current(c) + 1
      /\ used[c] = 2 * Current(c) - 1 => Reading(c) = Current(c)
    <2>1. /\ (n + 1) \div 2 \in Nat
          /\ n = 2 * ((n + 1) \div 2) => n \div 2 + 1 = (n + 1) \div 2 + 1
          /\ n = 2 * ((n + 1) \div 2) - 1 => n \div 2 + 1 = (n + 1) \div 2
        OBVIOUS
    <2>2. Current(c) = (n + 1) \div 2 /\ Reading(c) = n \div 2 + 1
        BY <1>4 DEF Current, Reading
    <2> QED BY <1>4, <2>1, <2>2
<1>6. out[c] \in Seq(Sent) /\ bw[c] \in Seq(Sent) /\ out[c] \o bw[c] \in Seq(Sent)
    BY <1>1, ConcatProperties DEF DataTypes
<1> QED BY <1>2, <1>3, <1>4, <1>5, <1>6 DEF OrderAt, Said

(* A client may send more at any time: what was said of its earlier requests is  *)
(* true of them still.                                                          *)
Longer(c) ==
    /\ Len(kinds'[c]) >= Len(kinds[c])
    /\ \A i \in 1..Len(kinds[c]) : kinds'[c][i] = kinds[c][i]

LEMMA TruthfulStays ==
    ASSUME NEW c \in Conns, NEW a \in Sent, Truthful(c, a), Longer(c),
           Len(kinds[c]) \in Nat, Len(kinds'[c]) \in Nat
    PROVE  Truthful(c, a)'
<1>1. a.what \in {"ok", "busy", "timeout", "error", "continue"}
    BY DEF Sent, Answers
<1>2. CASE a.what \in {"error", "continue"}
    BY <1>2 DEF Truthful
<1>3. CASE a.what \notin {"error", "continue"}
    <2>1. /\ a.to \in 1..Len(kinds[c]) /\ a.to \in 1..Len(kinds'[c])
          /\ kinds'[c][a.to] = kinds[c][a.to]
        BY <1>3 DEF Truthful, Longer
    <2> QED BY <2>1 DEF Truthful, Request
<1> QED BY <1>2, <1>3

LEMMA OrderlyStays ==
    ASSUME NEW c \in Conns, NEW s \in Seq(Sent), Orderly(c, s), Longer(c),
           Len(kinds[c]) \in Nat, Len(kinds'[c]) \in Nat
    PROVE  Orderly(c, s)'
<1>1. ASSUME NEW a \in ToSet(s) PROVE Truthful(c, a)'
    <2>1. a \in Sent
        BY DEF ToSet
    <2> QED BY <2>1, TruthfulStays DEF Orderly
<1> QED BY <1>1 DEF Orderly, InOrder, Follows

(* A connection of which nothing changes, but for what its client sends.        *)
Untouched(c) ==
    /\ pc'[c] = pc[c] /\ used'[c] = used[c] /\ closing'[c] = closing[c]
    /\ out'[c] = out[c] /\ bw'[c] = bw[c]
    /\ pc[c] \in {"wait", "respond"} => ctx'[cx'[c]] = ctx[cx[c]]

LEMMA OrderStays ==
    ASSUME IInv, OrderInv, NEW c \in Conns, Untouched(c), Longer(c), Len(kinds'[c]) \in Nat
    PROVE  OrderAt(c)'
<1>1. /\ Orderly(c, Said(c)) /\ Position(c) /\ Units(c) /\ Asked(c)
      /\ Said(c) \in Seq(Sent) /\ Len(kinds[c]) \in Nat /\ Said(c)' = Said(c)
    BY OrderBefore DEF Said, Untouched
<1>2. Orderly(c, Said(c))'
    BY <1>1, OrderlyStays
<1>3. Current(c)' = Current(c)
    BY DEF Untouched, Current
<1>4. Position(c)'
    BY <1>1, <1>3 DEF Position, Untouched
<1>5. pc[c] \in InRequest => /\ Current(c) \in 1..Len(kinds'[c]) /\ kinds'[c][Current(c)] = kinds[c][Current(c)]
                             /\ Request(c, Current(c))' = Request(c, Current(c))
    BY <1>1, <1>3 DEF Units, Longer, Request
<1>6. Units(c)'
    BY <1>1, <1>3, <1>5 DEF Units, Untouched, InRequest
<1>7. Asked(c)'
    BY <1>1, <1>3, <1>5 DEF Asked, Untouched, InRequest
<1> QED BY <1>2, <1>4, <1>6, <1>7 DEF OrderAt

(* What serveConn does to what was said: it adds an answer, flushed with the     *)
(* others or behind them in bw; it loses those in bw when it cannot flush; and    *)
(* with the next Read what was flushed is past.                                 *)
LEMMA SayNow ==
    ASSUME IInv, OrderInv, NEW c \in Conns, NEW a \in Sent, Truthful(c, a), kinds' = kinds,
           Said(c) # <<>> => Follows(a, Last(Said(c))),
           out' = [out EXCEPT ![c] = bw[c] \o <<a>>], bw' = [bw EXCEPT ![c] = <<>>]
    PROVE  Orderly(c, Said(c))' /\ Said(c)' # <<>> /\ Last(Said(c))' = a
<1> DEFINE s == out[c]
           t == bw[c]
<1>1. /\ Orderly(c, Said(c)) /\ s \in Seq(Sent) /\ t \in Seq(Sent) /\ Said(c) = s \o t
      /\ InOrder(s \o t) /\ Len(kinds[c]) \in Nat
    BY OrderBefore
<1>2. bw'[c] = <<>> /\ out'[c] = bw[c] \o <<a>> /\ t = bw[c]
    BY Before DEF DataTypes
<1> HIDE DEF s, t
<1>3. InOrder(t) /\ ToSet(t) \subseteq ToSet(Said(c)) /\ (t # <<>> => Said(c) # <<>> /\ Last(Said(c)) = Last(t))
    BY <1>1, CutInOrder
<1>4. /\ Append(t, a) = t \o <<a>> /\ InOrder(Append(t, a)) /\ ToSet(Append(t, a)) = ToSet(t) \cup {a}
      /\ Append(t, a) # <<>> /\ Last(Append(t, a)) = a
    BY <1>1, <1>3, GrowInOrder
<1>5. Append(t, a) \in Seq(Sent)
    BY <1>1
<1>6. Said(c)' = Append(t, a)
    <2>1. Said(c)' = Append(t, a) \o <<>>
        BY <1>2, <1>4 DEF Said
    <2> QED BY <1>5, <2>1, ConcatEmptySeq
<1>7. Orderly(c, Append(t, a))
    BY <1>1, <1>3, <1>4 DEF Orderly
<1>8. PICK u \in Seq(Sent) : u = Append(t, a)
    BY <1>5
<1>9. Orderly(c, u)'
    <2>1. Orderly(c, u)
        BY <1>7, <1>8
    <2>2. Longer(c) /\ Len(kinds'[c]) \in Nat
        BY <1>1 DEF Longer
    <2> QED BY <1>1, <2>1, <2>2, OrderlyStays
<1>10. u = Said(c)' /\ u # <<>> /\ Last(u) = a
    BY <1>4, <1>6, <1>8
<1>11. Orderly(c, Said(c))'
    BY <1>9, <1>10 DEF Orderly, InOrder, Truthful, Follows, Request
<1>12. Last(Said(c))' = a
    BY <1>10 DEF Last
<1> QED BY <1>10, <1>11, <1>12

LEMMA SayLater ==
    ASSUME IInv, OrderInv, NEW c \in Conns, NEW a \in Sent, Truthful(c, a), kinds' = kinds,
           Said(c) # <<>> => Follows(a, Last(Said(c))),
           out' = out, bw' = [bw EXCEPT ![c] = Append(@, a)]
    PROVE  Orderly(c, Said(c))' /\ Said(c)' # <<>> /\ Last(Said(c))' = a
<1> DEFINE s == out[c]
           t == bw[c]
           v == Said(c)
<1>1. /\ Orderly(c, v) /\ s \in Seq(Sent) /\ t \in Seq(Sent) /\ v \in Seq(Sent)
      /\ v = s \o t /\ InOrder(v) /\ Len(kinds[c]) \in Nat
      /\ v # <<>> => Follows(a, Last(v))
    BY OrderBefore
<1>2. bw'[c] = Append(t, a) /\ out'[c] = s
    BY Before DEF DataTypes
<1> HIDE DEF s, t, v
<1>3. Said(c)' = Append(v, a)
    <2>1. Append(t, a) = t \o <<a>> /\ Append(v, a) = v \o <<a>> /\ <<a>> \in Seq(Sent)
        BY <1>1, AppendIsConcat
    <2>2. (s \o t) \o <<a>> = s \o (t \o <<a>>)
        BY <1>1, <2>1, ConcatAssociative
    <2> QED BY <1>1, <1>2, <2>1, <2>2 DEF Said
<1>4. PICK w \in Seq(Sent) : w = v
    BY <1>1
<1>5. PICK u \in Seq(Sent) :
         u = Append(v, a) /\ InOrder(u) /\ ToSet(u) = ToSet(v) \cup {a} /\ u # <<>> /\ Last(u) = a
    <2>1. InOrder(w) /\ (w # <<>> => Follows(a, Last(w)))
        BY <1>1, <1>4
    <2>2. /\ Append(w, a) = w \o <<a>>
          /\ InOrder(Append(w, a)) /\ ToSet(Append(w, a)) = ToSet(w) \cup {a}
          /\ Append(w, a) # <<>> /\ Last(Append(w, a)) = a
        BY <2>1, GrowInOrder
    <2>3. Append(w, a) \in Seq(Sent)
        OBVIOUS
    <2> QED BY <1>4, <2>2, <2>3
<1>6. Orderly(c, u)
    BY <1>1, <1>5 DEF Orderly
<1>7. Orderly(c, u)'
    <2>1. Longer(c) /\ Len(kinds'[c]) \in Nat
        BY <1>1 DEF Longer
    <2> QED BY <1>1, <1>6, <2>1, OrderlyStays
<1> QED BY <1>3, <1>5, <1>7 DEF Orderly, InOrder, Truthful, Follows, Request, Last

LEMMA SayNothing ==
    ASSUME IInv, OrderInv, NEW c \in Conns, kinds' = kinds,
           \/ out' = out /\ bw' = bw
           \/ out' = out /\ bw' = [bw EXCEPT ![c] = <<>>]
           \/ out' = [out EXCEPT ![c] = <<>>] /\ bw' = bw
    PROVE  /\ Orderly(c, Said(c))'
           /\ bw' = bw /\ Said(c)' # <<>> => Said(c) # <<>> /\ Last(Said(c))' = Last(Said(c))
           /\ out' = out /\ bw' = bw => Said(c)' = Said(c)
<1>1. /\ Orderly(c, Said(c)) /\ out[c] \in Seq(Sent) /\ bw[c] \in Seq(Sent) /\ Said(c) \in Seq(Sent)
      /\ Said(c) = out[c] \o bw[c] /\ InOrder(out[c] \o bw[c]) /\ Len(kinds[c]) \in Nat
    BY OrderBefore
<1>2. \/ Said(c)' = Said(c)
      \/ Said(c)' = out[c] /\ bw' # bw
      \/ Said(c)' = bw[c] /\ out' # out
    <2>1. CASE out' = out /\ bw' = bw
        BY <2>1 DEF Said
    <2>2. CASE out' = out /\ bw' = [bw EXCEPT ![c] = <<>>]
        <3>1. bw'[c] = <<>>
            BY <2>2, Before DEF DataTypes
        <3>2. Said(c)' = out[c]
            BY <1>1, <2>2, <3>1, ConcatEmptySeq DEF Said
        <3> QED BY <2>2, <3>2 DEF Said
    <2>3. CASE out' = [out EXCEPT ![c] = <<>>] /\ bw' = bw
        <3>1. out'[c] = <<>>
            BY <2>3, Before DEF DataTypes
        <3>2. Said(c)' = bw[c]
            BY <1>1, <2>3, <3>1, ConcatEmptySeq DEF Said
        <3> QED BY <2>3, <3>2 DEF Said
    <2> QED BY <2>1, <2>2, <2>3
<1>3. /\ Orderly(c, out[c]) /\ Orderly(c, bw[c])
      /\ bw[c] # <<>> => Said(c) # <<>> /\ Last(Said(c)) = Last(bw[c])
    BY <1>1, CutInOrder DEF Orderly
<1>4. PICK u \in Seq(Sent) : u = Said(c)'
    BY <1>1, <1>2
<1>5. Orderly(c, u)
    BY <1>1, <1>2, <1>3, <1>4
<1>6. Orderly(c, u)'
    BY <1>1, <1>5, OrderlyStays DEF Longer
<1>7. Orderly(c, Said(c))'
    BY <1>4, <1>6 DEF Orderly, InOrder, Truthful, Follows, Request
<1>8. Last(Said(c))' = Last(u)
    BY <1>4 DEF Last
<1>9. ASSUME bw' = bw, Said(c)' # <<>> PROVE Said(c) # <<>> /\ Last(Said(c))' = Last(Said(c))
    BY <1>2, <1>3, <1>4, <1>8, <1>9
<1>10. ASSUME out' = out, bw' = bw PROVE Said(c)' = Said(c)
    BY <1>10 DEF Said
<1> QED BY <1>7, <1>9, <1>10

(* A step of one connection is none of another.                                 *)
LEMMA OthersUntouched ==
    ASSUME IInv, NEW c \in Conns, NEW d \in Conns \ {c},
           Serve(c) \/ Client(c) \/ Register(c) \/ HijackEnds(c)
    PROVE  Untouched(d) /\ kinds'[d] = kinds[d]
<1>0. /\ StreamTypes /\ LoopTypes /\ DataTypes /\ CtxInv /\ c # d
      /\ pc[c] \in Using => cx[c] \in Ctxs
      /\ pc[d] \in Using => cx[d] \in Ctxs
      /\ pc[c] \in Using /\ pc[d] \in Using => cx[d] # cx[c]
    BY Before
<1>1. \A x \in Acquirable : x # cx[d] /\ x \in Ctxs
    BY <1>0, AcquiredIsFresh
<1>2. pc[d] \in {"wait", "respond"} => cx[d] \in Ctxs
    BY <1>0 DEF Using
<1>3. ASSUME Client(c) PROVE Untouched(d) /\ kinds'[d] = kinds[d]
    BY <1>0, <1>3 DEF Client, Send, SendRest, StreamTypes, Untouched, stream, answers, loop, contexts
<1>4. ASSUME \/ Register(c) \/ Refuse(c) \/ CountOver(c) \/ RefuseOver(c) \/ Close(c) \/ Leave(c)
             \/ HijackEnds(c) \/ HijackClose(c) \/ HijackLeave(c)
      PROVE  Untouched(d) /\ kinds'[d] = kinds[d]
    BY <1>0, <1>4 DEF Register, Refuse, CountOver, RefuseOver, Close, Leave, HijackEnds, HijackClose, HijackLeave,
            LoopTypes, Untouched, Goto, client, stream, answers, loop, contexts
<1>5. ASSUME Count(c) PROVE Untouched(d) /\ kinds'[d] = kinds[d]
    <2>1. PICK x \in Acquirable : Acquire(c, x) /\ ctx' = [ctx EXCEPT ![x] = Acquired(x)]
        BY <1>5 DEF Count
    <2> QED BY <1>0, <1>1, <1>2, <1>5, <2>1 DEF Count, Acquire, LoopTypes, DataTypes, Untouched, Goto, client,
                stream, answers
<1>6. ASSUME FirstByte(c) PROVE Untouched(d) /\ kinds'[d] = kinds[d]
    <2>1. PICK x \in Acquirable : Acquire(c, x) /\ ctx' = [ctx EXCEPT ![x] = Acquired(x)]
        BY <1>6 DEF FirstByte
    <2> QED BY <1>0, <1>1, <1>2, <1>6, <2>1 DEF FirstByte, Acquire, LoopTypes, DataTypes, Untouched, Goto, client,
                answers
<1>7. ASSUME KeepaliveEnds(c) \/ AwaitFirstByte(c) \/ Receive(c) \/ ReadEOF(c)
      PROVE  Untouched(d) /\ kinds'[d] = kinds[d]
    BY <1>0, <1>2, <1>7 DEF KeepaliveEnds, AwaitFirstByte, Receive, ReadEOF, LoopTypes, DataTypes, Untouched, Goto,
            client, stream, answers, contexts
<1>8. ASSUME ReadRequest(c) \/ ReadBody(c) PROVE Untouched(d) /\ kinds'[d] = kinds[d]
    <2>1. pc[c] \in Using /\ CallHandler(c, "armed") /\ UNCHANGED <<client, answers, cx>>
          /\ \E u \in {1, 2} : used' = [used EXCEPT ![c] = @ + u]
        BY <1>8 DEF ReadRequest, ReadBody, Call, Use, Using
    <2>2. \/ /\ pc' = [pc EXCEPT ![c] = "wait"]
             /\ ctx' = [ctx EXCEPT ![cx[c]].req = Request(c, Reading(c)), ![cx[c]].handler = "run", ![cx[c]].timer = "armed"]
          \/ /\ pc' = [pc EXCEPT ![c] = "respond"]
             /\ ctx' = [ctx EXCEPT ![cx[c]].req = Request(c, Reading(c)), ![cx[c]].resp = <<"busy", Request(c, Reading(c))>>]
        BY <2>1 DEF CallHandler, Goto
    <2>3. \A x \in Ctxs \ {cx[c]} : ctx'[x] = ctx[x]
        BY <1>0, <2>2 DEF DataTypes
    <2>4. pc'[d] = pc[d] /\ closing'[d] = closing[d] /\ used'[d] = used[d]
        BY <1>0, <2>1, <2>2 DEF CallHandler, LoopTypes, StreamTypes
    <2> QED BY <1>0, <1>2, <2>1, <2>3, <2>4 DEF Untouched, client, answers, Using
<1>9. ASSUME Continue(c) \/ ReadError(c) \/ Returns(c) \/ RespondLater(c) \/ Respond(c)
      PROVE  Untouched(d) /\ kinds'[d] = kinds[d]
    <2>1. /\ UNCHANGED <<client, cx, closing>>
          /\ \E p \in {"body", "end", "respond", "top"} : pc' = [pc EXCEPT ![c] = p]
          /\ used' = used \/ used' = [used EXCEPT ![c] = @ + 1]
        BY <1>9 DEF Continue, ReadError, Returns, RespondLater, Respond, Goto, Use, stream
    <2>2. /\ pc[c] \in Using
          /\ bw' = bw \/ bw' = [bw EXCEPT ![c] = <<>>] \/ bw' = [bw EXCEPT ![c] = Append(@, Response(c))]
          /\ out' = out \/ \E s : out' = [out EXCEPT ![c] = s]
        BY <1>9 DEF Continue, ReadError, Unreadable, Returns, RespondLater, Respond, answers, Using
    <2>3. \A x \in Ctxs \ {cx[c]} : ctx'[x] = ctx[x]
        BY <1>0, <1>9 DEF DataTypes, Continue, ReadError, Returns, RespondLater, Respond
    <2>4. pc'[d] = pc[d] /\ closing'[d] = closing[d] /\ used'[d] = used[d] /\ bw'[d] = bw[d] /\ out'[d] = out[d]
        BY <1>0, <2>1, <2>2 DEF LoopTypes, StreamTypes, DataTypes
    <2> QED BY <1>0, <1>2, <2>1, <2>2, <2>3, <2>4 DEF Untouched, client, Using
<1>10. ASSUME TimesOut(c) PROVE Untouched(d) /\ kinds'[d] = kinds[d]
    <2>1. PICK x \in Acquirable :
             /\ Acquire(c, x)
             /\ ctx' = [ctx EXCEPT ![x] = [Acquired(x) EXCEPT !.resp = <<"timeout", Nil>>,
                                                          !.closes = got[c] > used[c]],
                                ![cx[c]].timedOut = TRUE, ![cx[c]].timer = "off"]
        BY <1>10, Zenon DEF TimesOut
    <2>2. /\ pc[c] = "wait" /\ pc' = [pc EXCEPT ![c] = "respond"]
          /\ UNCHANGED <<client, stream, answers, closing>>
        BY <1>10 DEF TimesOut, Goto
    <2>3. \A y \in Ctxs \ {x, cx[c]} : ctx'[y] = ctx[y]
        BY <1>0, <1>1, <2>1 DEF DataTypes
    <2>4. pc'[d] = pc[d] /\ cx'[d] = cx[d]
        BY <1>0, <2>1, <2>2 DEF LoopTypes, Acquire
    <2> QED BY <1>0, <1>1, <1>2, <2>2, <2>3, <2>4 DEF Untouched, client, stream, answers, Using
<1>11. ASSUME Hijack(c) PROVE Untouched(d) /\ kinds'[d] = kinds[d]
    <2>1. /\ pc[c] \in Using /\ pc' = [pc EXCEPT ![c] = "end"]
          /\ bw' = [bw EXCEPT ![c] = <<>>] /\ (out' = out \/ \E s : out' = [out EXCEPT ![c] = s])
          /\ UNCHANGED <<client, stream, closing>>
        BY <1>11 DEF Hijack, Goto, Using
    <2>2. /\ cx'[d] = cx[d]
          /\ \A y \in Ctxs : y = cx[d] => y = cx[c] \/ ctx'[y] = ctx[y]
        <3>1. CASE got[c] > used[c]
            <4>1. PICK x \in Acquirable :
                    /\ Acquire(c, x)
                    /\ ctx' = [ctx EXCEPT ![x] = Acquired(x), ![cx[c]] = Clean(cx[c])]
                BY <1>11, <3>1 DEF Hijack
            <4> QED BY <1>0, <1>1, <4>1 DEF Acquire, LoopTypes, DataTypes
        <3>2. CASE ~(got[c] > used[c])
            <4>1. ctx' = [ctx EXCEPT ![cx[c]] = Clean(cx[c])] /\ UNCHANGED cx
                BY <1>11, <3>2 DEF Hijack
            <4> QED BY <1>0, <4>1 DEF DataTypes
        <3> QED BY <3>1, <3>2
    <2>3. pc'[d] = pc[d] /\ bw'[d] = bw[d] /\ out'[d] = out[d]
        BY <1>0, <2>1 DEF LoopTypes, DataTypes
    <2> QED BY <1>0, <1>2, <2>1, <2>2, <2>3 DEF Untouched, client, stream, Using
<1>12. ASSUME End(c) PROVE Untouched(d) /\ kinds'[d] = kinds[d]
    <2>1. /\ \E p \in {"close", "done"} : pc' = [pc EXCEPT ![c] = p]
          /\ cx' = [cx EXCEPT ![c] = Nil] /\ bw' = [bw EXCEPT ![c] = <<>>] /\ out' = [out EXCEPT ![c] = <<>>]
          /\ kinds' = [kinds EXCEPT ![c] = <<>>] /\ used' = [used EXCEPT ![c] = 0]
          /\ closing' = [closing EXCEPT ![c] = FALSE] /\ ctx' = ctx
        BY <1>12 DEF End, Goto
    <2> QED BY <1>0, <2>1 DEF LoopTypes, DataTypes, StreamTypes, Untouched
<1> QED BY <1>3, <1>4, <1>5, <1>6, <1>7, <1>8, <1>9, <1>10, <1>11, <1>12
        DEF Serve, Arrive, ReadStep, AnswerStep, Depart

(* Steps of serveConn that neither take a request nor answer one.               *)
LEMMA QuietStep ==
    ASSUME IInv, OrderInv, NEW c \in Conns, UNCHANGED <<kinds, used, bw>>,
           out' = out \/ (out' = [out EXCEPT ![c] = <<>>] /\ pc'[c] \in {"read", "body"}),
           pc'[c] \notin {"new", "wait", "respond"},
           pc[c] = "end" => pc'[c] = "end",
           pc'[c] \in {"first", "read"} => pc[c] \in Between,
           pc'[c] = "top" => pc[c] = "count",
           pc'[c] = "count" => pc[c] = "new",
           pc'[c] = "body" => pc[c] = "body"
    PROVE  OrderAt(c)'
<1>1. /\ Position(c) /\ Units(c) /\ Current(c) \in Nat
      /\ Current(c)' = Current(c)
    BY OrderBefore DEF Current
<1>2. /\ Orderly(c, Said(c))'
      /\ Said(c)' # <<>> => Said(c) # <<>> /\ Last(Said(c))' = Last(Said(c))
      /\ out' = out => Said(c)' = Said(c)
    BY SayNothing
<1>3. Units(c)'
    <2>1. used[c] = 0 => Current(c) = 0
        BY DEF Current
    <2> QED BY <1>1, <1>2, <2>1 DEF Units, Between, InRequest
<1>4. Position(c)'
    <2>1. ASSUME Said(c)' = <<>> PROVE pc'[c] # "top" \/ used'[c] = 0
        BY <1>1 DEF Units
    <2>2. ASSUME Said(c)' # <<>>
          PROVE  LET a == Last(Said(c))' IN
                 /\ pc'[c] # "end" => ~a.last
                 /\ pc'[c] \in Between => a.what # "continue" /\ a.to = Current(c)'
                 /\ pc'[c] \in InRequest => Current(c)' = IF a.what = "continue" THEN a.to ELSE a.to + 1
        BY <1>1, <1>2, <2>2 DEF Position, Units, Between, InRequest
    <2> QED BY <2>1, <2>2 DEF Position
<1>5. Asked(c)'
    BY DEF Asked
<1> QED BY <1>2, <1>3, <1>4, <1>5 DEF OrderAt

LEMMA QuietSteps ==
    ASSUME IInv, OrderInv, NEW c \in Conns,
           \/ Register(c) \/ Arrive(c) \/ Close(c) \/ Leave(c)
           \/ HijackEnds(c) \/ HijackClose(c) \/ HijackLeave(c)
           \/ KeepaliveEnds(c) \/ AwaitFirstByte(c) \/ FirstByte(c) \/ Receive(c) \/ ReadEOF(c)
    PROVE  OrderAt(c)'
<1>0. LoopTypes /\ ReaderAt(c) /\ pc[c] \in {"new", "count", "over", "top", "first", "read", "body", "wait",
                         "respond", "end", "expired", "close", "unregister", "refuse", "done"}
    BY Before DEF LoopTypes
<1>1. CASE Register(c) \/ Arrive(c) \/ Close(c) \/ Leave(c)
    <2>1. UNCHANGED <<kinds, used, bw, out>>
        BY <1>1 DEF Register, Arrive, Refuse, Count, CountOver, RefuseOver, Close, Leave, client, stream, answers
    <2>2. \/ pc[c] = "new" /\ pc' = [pc EXCEPT ![c] = "refuse"]
          \/ pc[c] = "new" /\ pc' = [pc EXCEPT ![c] = "count"]
          \/ pc[c] = "count" /\ pc' = [pc EXCEPT ![c] = "top"]
          \/ pc[c] \in {"refuse", "count", "over", "close", "unregister"}
             /\ \E p \in {"over", "close", "unregister", "done"} : pc' = [pc EXCEPT ![c] = p]
        BY <1>1 DEF Register, Arrive, Refuse, Count, CountOver, RefuseOver, Close, Leave, Goto
    <2>3. \/ pc[c] = "new" /\ pc'[c] \in {"refuse", "count"}
          \/ pc[c] = "count" /\ pc'[c] = "top"
          \/ pc[c] # "end" /\ pc'[c] \in {"over", "close", "unregister", "done"}
        BY <1>0, <2>2 DEF LoopTypes
    <2> QED BY <2>1, <2>3, QuietStep
<1>2. CASE HijackEnds(c) \/ HijackClose(c) \/ HijackLeave(c)
    <2>1. UNCHANGED <<kinds, used, bw, out, pc>> /\ hj[c] # "none"
        BY <1>2 DEF HijackEnds, HijackClose, HijackLeave, client, stream, answers
    <2>2. pc'[c] \in {"end", "done"} /\ pc'[c] = pc[c]
        BY <1>0, <2>1 DEF ReaderAt
    <2> QED BY <2>1, <2>2, QuietStep
<1>3. CASE KeepaliveEnds(c) \/ AwaitFirstByte(c) \/ FirstByte(c) \/ Receive(c) \/ ReadEOF(c)
    <2>1. /\ UNCHANGED <<kinds, used, bw>>
          /\ out' = out \/ (Receive(c) /\ out' = [out EXCEPT ![c] = <<>>])
        BY <1>3 DEF KeepaliveEnds, AwaitFirstByte, FirstByte, Receive, ReadEOF, client, stream, answers
    <2>2. /\ pc[c] \in Between \cup {"body"}
          /\ \E p \in {"expired", "first", "read", "end"} :
                \/ pc' = [pc EXCEPT ![c] = p] /\ pc[c] \in Between /\ (Receive(c) => p = "read")
                \/ pc' = [pc EXCEPT ![c] = "body"] /\ pc[c] = "body"
        BY <1>3 DEF KeepaliveEnds, AwaitFirstByte, FirstByte, Receive, ReadEOF, Goto, Between
    <2>3. \/ pc'[c] \in {"expired", "first", "read", "end"} /\ pc[c] \in Between /\ (Receive(c) => pc'[c] = "read")
          \/ pc'[c] = "body" /\ pc[c] = "body"
        BY <1>0, <2>2 DEF LoopTypes
    <2>4. out' = out \/ (out' = [out EXCEPT ![c] = <<>>] /\ pc'[c] \in {"read", "body"})
        BY <2>1, <2>3
    <2> QED BY <2>1, <2>3, <2>4, QuietStep DEF Between
<1> QED BY <1>1, <1>2, <1>3

(* No request is Nil. *)
LEMMA NilIsNoRequest ==
    ASSUME StreamTypes, NEW r \in Requests
    PROVE  r # Nil
BY NumbersAssumption DEF StreamTypes, Requests, MaxRequests, Kinds

(* A request is taken: it is the one that is next, and goes into the context.    *)
LEMMA TakeRequest ==
    ASSUME IInv, OrderInv, NEW c \in Conns, ReadRequest(c) \/ ReadBody(c)
    PROVE  OrderAt(c)'
<1> DEFINE n == Reading(c)
           q == Request(c, n)
           x == cx[c]
<1>0. /\ StreamTypes /\ Streams /\ LoopTypes /\ DataTypes /\ InUse(c)
      /\ pc[c] \in Using => x \in Ctxs /\ ctx[x] \in Contexts
    BY Before DEF IInv
<1>1. /\ Position(c) /\ Units(c) /\ Current(c) \in Nat /\ kinds[c] \in Seq(Kinds) /\ Len(kinds[c]) \in Nat
      /\ used[c] \in Nat
      /\ used[c] = 2 * Current(c) => n = Current(c) + 1
      /\ used[c] = 2 * Current(c) - 1 => n = Current(c)
    BY OrderBefore
<1>2. /\ UNCHANGED <<kinds, out, bw, cx>> /\ CallHandler(c, "armed") /\ Complete(c)
      /\ \/ pc[c] \in {"top", "read"} /\ Use(c, 2) /\ kinds[c][Reading(c)] \notin {"expect", "bad"}
         \/ pc[c] = "body" /\ Use(c, 1)
    BY <1>0 DEF ReadRequest, ReadBody, Call, client, answers
<1>3. got[c] > used[c] /\ n \in 1..MaxRequests /\ q \in Requests /\ q # Nil
    BY <1>0, <1>2, ReadingIsSent, NilIsNoRequest DEF Complete
<1>4. /\ \/ pc[c] \in {"top", "read"} /\ n = Current(c) + 1
         \/ pc[c] = "body" /\ n = Current(c)
      /\ used'[c] = 2 * n
    <2>1. CASE pc[c] \in {"top", "read"} /\ Use(c, 2)
        <3>1. used[c] = 2 * Current(c) /\ n = Current(c) + 1
            BY <1>1, <2>1 DEF Units, Between
        <3>2. used'[c] = used[c] + 2
            BY <1>0, <2>1 DEF Use, StreamTypes
        <3> QED BY <1>1, <2>1, <3>1, <3>2
    <2>2. CASE pc[c] = "body" /\ Use(c, 1)
        <3>1. used[c] = 2 * Current(c) - 1 /\ n = Current(c)
            BY <1>1, <2>2 DEF Units
        <3>2. used'[c] = used[c] + 1
            BY <1>0, <2>2 DEF Use, StreamTypes
        <3> QED BY <1>1, <2>2, <3>1, <3>2
    <2> QED BY <1>2, <2>1, <2>2
<1>5. n \in 1..Len(kinds[c])
    <2>1. CASE pc[c] = "body"
        BY <1>1, <1>4, <2>1 DEF Units, InRequest
    <2>2. CASE pc[c] \in {"top", "read"}
        <3>1. used[c] = 2 * Current(c) /\ n = Current(c) + 1
            BY <1>1, <2>2 DEF Units, Between
        <3>2. /\ got[c] > used[c] /\ got[c] \in Nat /\ got[c] <= sent[c] /\ sent[c] \in Int
              /\ sent[c] <= 2 * Len(kinds[c])
            <4>1. sent[c] \in {2 * Len(kinds[c]) - 1, 2 * Len(kinds[c])}
                BY <1>0 DEF Streams
            <4> QED BY <1>0, <1>1, <1>3, <4>1 DEF StreamTypes
        <3> QED BY <1>1, <3>1, <3>2
    <2> QED BY <1>4, <2>1, <2>2
<1>6. PICK m \in 1..Len(kinds[c]) : m = n
    BY <1>5
<1>7. Current(c)' = m
    <2>1. m \in Nat /\ used'[c] = 2 * m
        BY <1>1, <1>4, <1>6
    <2> QED BY <2>1, Halves DEF Current
<1>8. pc[c] \in Using /\ Fresh(ctx[x]) /\ ctx[x].timeoutCh = 0
    BY <1>0, <1>2 DEF InUse, Using, Fresh, AtRest
<1>9. \/ pc'[c] = "wait" /\ ctx'[x].req = q /\ ctx'[x].timeoutCh = 0
      \/ pc'[c] = "respond" /\ ctx'[x].req = q /\ ctx'[x].resp = <<"busy", q>>
    <2>1. CASE slots < Concurrency
        BY <1>0, <1>2, <1>8, <2>1 DEF CallHandler, Goto, LoopTypes, DataTypes, Contexts
    <2>2. CASE ~(slots < Concurrency)
        BY <1>0, <1>2, <1>8, <2>2 DEF CallHandler, Goto, LoopTypes, DataTypes, Contexts
    <2> QED BY <2>1, <2>2
<1>10. kinds[c][n] = "close" => closing'[c]
    <2>1. closing' = [closing EXCEPT ![c] = CloseFast(q, FALSE)]
        BY <1>2 DEF CallHandler
    <2>2. kinds[c][n] = "close" => CloseFast(q, FALSE)
        BY <1>3 DEF CloseFast, KindOf, Request
    <2> QED BY <1>0, <2>1, <2>2 DEF LoopTypes
<1>11. Orderly(c, Said(c))' /\ Said(c)' = Said(c)
    BY <1>2, SayNothing
<1>12. Request(c, Current(c))' = q
    BY <1>2, <1>6, <1>7 DEF Request
<1>13. Asked(c)'
    <2>1. cx'[c] = x
        BY <1>2
    <2> QED BY <1>2, <1>6, <1>7, <1>9, <1>10, <1>12, <2>1 DEF Asked
<1>14. Units(c)'
    BY <1>2, <1>4, <1>6, <1>7, <1>9 DEF Units, Between, InRequest
<1>15. Position(c)'
    BY <1>1, <1>4, <1>6, <1>7, <1>9, <1>11 DEF Position, Between, InRequest
<1> QED BY <1>11, <1>13, <1>14, <1>15 DEF OrderAt

(* A client is told to go on, or a request cannot be read: an answer that is      *)
(* about the request that is next.                                              *)
LEMMA AnswerReading ==
    ASSUME IInv, OrderInv, NEW c \in Conns, Continue(c) \/ ReadError(c)
    PROVE  OrderAt(c)'
<1> DEFINE n == Reading(c)
<1>0. /\ StreamTypes /\ Streams /\ LoopTypes /\ DataTypes
    BY Before DEF IInv
<1>1. /\ Position(c) /\ Units(c) /\ Current(c) \in Nat /\ kinds[c] \in Seq(Kinds) /\ Len(kinds[c]) \in Nat
      /\ used[c] \in Nat
      /\ used[c] = 2 * Current(c) => n = Current(c) + 1
      /\ used[c] = 2 * Current(c) - 1 => n = Current(c)
    BY OrderBefore
<1>2. kinds' = kinds /\ pc[c] \in {"top", "read", "body"} /\ bw' = [bw EXCEPT ![c] = <<>>]
    BY DEF Continue, ReadError, Unreadable, client
<1>3. /\ pc[c] \in {"top", "read"} => used[c] = 2 * Current(c) /\ n = Current(c) + 1
      /\ pc[c] = "body" => used[c] = 2 * Current(c) - 1 /\ n = Current(c)
    BY <1>1 DEF Units, Between
<1>4. ASSUME NEW a \in Sent, a.to = n, a.what = "error" \/ (a.what = "continue" /\ pc[c] # "body")
      PROVE  Truthful(c, a) /\ (Said(c) # <<>> => Follows(a, Last(Said(c))))
    <2>1. Truthful(c, a)
        BY <1>4 DEF Truthful
    <2>2. ASSUME Said(c) # <<>> PROVE Follows(a, Last(Said(c)))
        <3> DEFINE b == Last(Said(c))
        <3>1. ~b.last
            BY <1>1, <1>2, <2>2 DEF Position
        <3>2. CASE pc[c] \in {"top", "read"}
            <4>1. b.what # "continue" /\ b.to = Current(c)
                BY <1>1, <2>2, <3>2 DEF Position, Between
            <4> QED BY <1>3, <1>4, <3>1, <3>2, <4>1 DEF Follows
        <3>3. CASE pc[c] = "body"
            <4>1. Current(c) = IF b.what = "continue" THEN b.to ELSE b.to + 1
                BY <1>1, <2>2, <3>3 DEF Position, InRequest
            <4> QED BY <1>3, <1>4, <3>1, <3>3, <4>1 DEF Follows
        <3> QED BY <1>2, <3>2, <3>3
    <2> QED BY <2>1, <2>2
<1>5. CASE out' = out /\ pc' = [pc EXCEPT ![c] = "end"]
    <2>1. Orderly(c, Said(c))' /\ pc'[c] = "end"
        BY <1>0, <1>2, <1>5, SayNothing DEF LoopTypes
    <2> QED BY <2>1 DEF OrderAt, Position, Units, Asked, Between, InRequest
<1>6. CASE ReadError(c) /\ out' # out
    <2> DEFINE a == Answer(c, Nil, "error", TRUE, TRUE)
    <2>1. a \in Sent /\ a.to = n /\ a.what = "error"
        BY <1>0, AnswerIsSent DEF Answers, Answer
    <2>2. out' = [out EXCEPT ![c] = bw[c] \o <<a>>] /\ pc'[c] = "end"
        BY <1>0, <1>6 DEF ReadError, Goto, LoopTypes
    <2> HIDE DEF a
    <2>3. Orderly(c, Said(c))' /\ Said(c)' # <<>>
        BY <1>2, <1>4, <2>1, <2>2, SayNow
    <2> QED BY <2>2, <2>3 DEF OrderAt, Position, Units, Asked, Between, InRequest
<1>7. CASE Continue(c) /\ pc' = [pc EXCEPT ![c] = "body"]
    <2> DEFINE a == Answer(c, Nil, "continue", FALSE, FALSE)
    <2>1. a \in Sent /\ a.to = n /\ a.what = "continue" /\ a.last = FALSE
        BY <1>0, AnswerIsSent DEF Answers, Answer
    <2>2. out' = [out EXCEPT ![c] = bw[c] \o <<a>>] /\ pc'[c] = "body" /\ pc[c] \in {"top", "read"}
          /\ used' = [used EXCEPT ![c] = @ + 1] /\ kinds[c][n] = "expect" /\ got[c] > used[c]
        BY <1>0, <1>7 DEF Continue, Goto, Use, Complete, LoopTypes
    <2> HIDE DEF a
    <2>3. Orderly(c, Said(c))' /\ Said(c)' # <<>> /\ Last(Said(c))' = a
        BY <1>2, <1>4, <2>1, <2>2, SayNow
    <2>4. n \in 1..Len(kinds[c])
        <3>1. /\ got[c] \in Nat /\ got[c] <= sent[c] /\ sent[c] \in Int /\ sent[c] <= 2 * Len(kinds[c])
            <4>1. sent[c] \in {2 * Len(kinds[c]) - 1, 2 * Len(kinds[c])}
                BY <1>0 DEF Streams
            <4> QED BY <1>0, <1>1, <4>1 DEF StreamTypes
        <3> QED BY <1>1, <1>3, <2>2, <3>1
    <2>5. PICK m \in 1..Len(kinds[c]) : m = n
        BY <2>4
    <2>6. used'[c] = 2 * m - 1 /\ m \in Nat /\ m >= 1
        BY <1>0, <1>1, <1>3, <2>2, <2>5 DEF StreamTypes
    <2>7. Current(c)' = m
        BY <2>6, Halves DEF Current
    <2>8. Units(c)'
        BY <1>2, <2>2, <2>5, <2>6, <2>7 DEF Units, Between, InRequest
    <2>9. Position(c)'
        BY <2>1, <2>2, <2>3, <2>5, <2>7 DEF Position, Between, InRequest
    <2> QED BY <2>2, <2>3, <2>8, <2>9 DEF OrderAt, Asked
<1> QED BY <1>5, <1>6, <1>7 DEF Continue, ReadError, Goto

(* TimeoutHandler has what the handler made of the request, or gives up.        *)
LEMMA HandlerOver ==
    ASSUME IInv, OrderInv, NEW c \in Conns, Returns(c) \/ TimesOut(c)
    PROVE  OrderAt(c)'
<1>0. /\ LoopTypes /\ DataTypes /\ CtxInv /\ (pc[c] \in Using => cx[c] \in Ctxs /\ ctx[cx[c]] \in Contexts)
    BY Before
<1>1. /\ Position(c) /\ Units(c) /\ Asked(c)
    BY OrderBefore
<1>2. UNCHANGED <<kinds, used, out, bw, closing>> /\ pc[c] = "wait" /\ pc' = [pc EXCEPT ![c] = "respond"]
    BY DEF Returns, TimesOut, Goto, client, stream, answers
<1>3. pc'[c] = "respond" /\ cx[c] \in Ctxs /\ Current(c)' = Current(c)
    BY <1>0, <1>2 DEF LoopTypes, Using, Current
<1>4. Orderly(c, Said(c))' /\ Said(c)' = Said(c)
    BY <1>2, SayNothing
<1>5. Position(c)' /\ Units(c)'
    BY <1>1, <1>2, <1>3, <1>4 DEF Position, Units, Between, InRequest
<1>6. Request(c, Current(c))' = Request(c, Current(c))
    BY <1>2, <1>3 DEF Request
<1>7. kinds'[c][Current(c)'] = "close" => closing'[c]
    BY <1>1, <1>2, <1>3 DEF Asked
<1>8. CASE Returns(c)
    <2>1. ctx[cx[c]].timeoutCh = 1 /\ ctx' = [ctx EXCEPT ![cx[c]].timeoutCh = 0, ![cx[c]].timer = "off"] /\ cx' = cx
        BY <1>8 DEF Returns
    <2>2. ctx'[cx[c]].req = ctx[cx[c]].req /\ ctx'[cx[c]].resp = ctx[cx[c]].resp
        BY <1>0, <1>3, <2>1 DEF DataTypes, Contexts
    <2>3. ctx[cx[c]].req = Request(c, Current(c)) /\ ctx[cx[c]].resp = <<"ok", Request(c, Current(c))>>
        BY <1>1, <1>2, <2>1 DEF Asked
    <2>4. /\ ctx'[cx'[c]].req = Request(c, Current(c))'
          /\ ctx'[cx'[c]].resp[1] = "ok" /\ ctx'[cx'[c]].resp[2] = Request(c, Current(c))'
        <3>1. PICK q : q = Request(c, Current(c))
            OBVIOUS
        <3>2. ctx'[cx'[c]].req = q /\ ctx'[cx'[c]].resp = <<"ok", q>>
            BY <2>1, <2>2, <2>3, <3>1
        <3>3. <<"ok", q>>[1] = "ok" /\ <<"ok", q>>[2] = q
            OBVIOUS
        <3> QED BY <1>6, <3>1, <3>2, <3>3, Zenon
    <2>5. Asked(c)'
        BY <1>3, <1>7, <2>4 DEF Asked
    <2> QED BY <1>4, <1>5, <2>5 DEF OrderAt
<1>9. CASE TimesOut(c)
    <2> DEFINE R(x) == [Acquired(x) EXCEPT !.resp = <<"timeout", Nil>>, !.closes = got[c] > used[c]]
    <2>1. PICK x \in Acquirable :
             /\ Acquire(c, x)
             /\ ctx' = [ctx EXCEPT ![x] = R(x), ![cx[c]].timedOut = TRUE, ![cx[c]].timer = "off"]
        BY <1>9, Zenon DEF TimesOut
    <2>2. /\ x \in Ctxs /\ x # cx[c] /\ Acquired(x) \in Contexts
        BY <1>0, AcquiredIsFresh
    <2>3. cx'[c] = x
        BY <1>0, <2>1 DEF Acquire, LoopTypes
    <2>4. ctx'[x] = R(x)
        BY <1>0, <2>1, <2>2 DEF DataTypes
    <2>5. R(x).resp = <<"timeout", Nil>>
        BY <2>2 DEF Contexts
    <2>6. ctx'[x].resp[1] = "timeout"
        BY <2>4, <2>5
    <2>7. Asked(c)'
        BY <1>3, <1>7, <2>3, <2>6 DEF Asked
    <2> QED BY <1>4, <1>5, <2>7 DEF OrderAt
<1> QED BY <1>8, <1>9

(* The request is answered: with what is in the context, and for the last time   *)
(* when it asked to close the connection.                                       *)
LEMMA AnswerRequest ==
    ASSUME IInv, OrderInv, NEW c \in Conns, RespondLater(c) \/ Respond(c) \/ Hijack(c)
    PROVE  OrderAt(c)'
<1> DEFINE a == Response(c)
           n == Current(c)
           q == Request(c, n)
           x == ctx[cx[c]]
<1>0. /\ StreamTypes /\ Streams /\ LoopTypes /\ DataTypes
      /\ pc[c] = "respond" => cx[c] \in Ctxs
    BY Before DEF IInv, Using
<1>1. /\ Position(c) /\ Units(c) /\ Asked(c) /\ n \in Nat /\ kinds[c] \in Seq(Kinds) /\ Len(kinds[c]) \in Nat
    BY OrderBefore
<1>2. UNCHANGED <<kinds, used>> /\ pc[c] = "respond"
    BY DEF RespondLater, Respond, Hijack, client, stream
<1>3. n' = n /\ n \in 1..Len(kinds[c]) /\ used[c] = 2 * n
    BY <1>1, <1>2 DEF Units, InRequest, Current
<1>4. /\ a \in Sent /\ a.to = n /\ a.of = x.resp[2] /\ a.what = x.resp[1] /\ a.last = Closing(c)
      /\ a.body = ~(x.req # Nil /\ KindOf(x.req) = "head")
    BY <1>0, <1>2, ResponseIsSent DEF Response
<1>5. /\ a.what \in {"ok", "busy", "timeout"}
      /\ a.what \in {"ok", "busy"} => x.req = q /\ a.of = q
      /\ kinds[c][n] = "close" => a.last
    BY <1>1, <1>2, <1>4 DEF Asked, Closing
<1>6. Truthful(c, a)
    <2>1. ASSUME a.what \in {"ok", "busy"} PROVE a.of = q /\ a.body = (kinds[c][n] # "head")
        <3>1. q \in Requests
            <4>1. n \in 1..MaxRequests
                <5>1. Len(kinds[c]) <= requested /\ requested \in 0..MaxRequests /\ MaxRequests \in Nat
                    BY <1>0, SettingIs DEF Streams, StreamTypes
                <5> QED BY <1>1, <1>3, <5>1
            <4>2. kinds[c][n] \in Kinds
                BY <1>1, <1>3
            <4> QED BY <4>1, <4>2 DEF Request, Requests
        <3>2. q # Nil
            BY <1>0, <3>1, NilIsNoRequest
        <3>3. KindOf(q) = kinds[c][n]
            BY DEF KindOf, Request
        <3> QED BY <1>4, <1>5, <2>1, <3>2, <3>3
    <2> HIDE DEF a
    <2> QED BY <1>3, <1>4, <1>5, <2>1 DEF Truthful
<1>7. Said(c) # <<>> => Follows(a, Last(Said(c)))
    <2> SUFFICES ASSUME Said(c) # <<>> PROVE Follows(a, Last(Said(c)))
        OBVIOUS
    <2> DEFINE b == Last(Said(c))
    <2>1. ~b.last /\ n = IF b.what = "continue" THEN b.to ELSE b.to + 1
        BY <1>1, <1>2 DEF Position, InRequest
    <2> HIDE DEF a, n
    <2>2. a.to = n /\ a.what # "continue"
        BY <1>4, <1>5
    <2>3. b.what # "continue" => a.to = b.to + 1
        BY <2>1, <2>2
    <2>4. b.what = "continue" => a.to = b.to
        BY <2>1, <2>2
    <2> QED BY <2>1, <2>2, <2>3, <2>4 DEF Follows
<1>8. PICK r \in Sent : r = a
    BY <1>4
<1>9. ASSUME Orderly(c, Said(c))', Said(c)' # <<>>, Last(Said(c))' = r,
             pc'[c] = "end" \/ (pc'[c] = "top" /\ ~Closing(c))
      PROVE  OrderAt(c)'
    <2>1. r.to = n /\ r.what # "continue" /\ (pc'[c] = "end" \/ ~r.last)
        BY <1>4, <1>5, <1>8, <1>9
    <2>2. Units(c)'
        BY <1>2, <1>3, <1>9 DEF Units, Between, InRequest
    <2>3. Position(c)'
        BY <1>3, <1>9, <2>1 DEF Position, Between, InRequest
    <2> QED BY <1>9, <2>2, <2>3 DEF OrderAt, Asked
<1>10. CASE RespondLater(c)
    <2>1. out' = out /\ bw' = [bw EXCEPT ![c] = Append(@, r)] /\ pc'[c] = "top" /\ ~Closing(c)
        BY <1>0, <1>8, <1>10 DEF RespondLater, Goto, LoopTypes
    <2>2. Orderly(c, Said(c))' /\ Said(c)' # <<>> /\ Last(Said(c))' = r
        BY <1>2, <1>6, <1>7, <1>8, <2>1, SayLater
    <2> QED BY <1>9, <2>1, <2>2
<1>11. CASE Respond(c) \/ Hijack(c)
    <2>1. /\ bw' = [bw EXCEPT ![c] = <<>>]
          /\ \/ /\ out' = [out EXCEPT ![c] = bw[c] \o <<r>>]
                /\ pc' = [pc EXCEPT ![c] = "end"] \/ (pc' = [pc EXCEPT ![c] = "top"] /\ ~Closing(c))
             \/ out' = out /\ pc' = [pc EXCEPT ![c] = "end"]
        BY <1>8, <1>11 DEF Respond, Hijack, Goto
    <2>2. CASE out' = out /\ pc' = [pc EXCEPT ![c] = "end"]
        <3>1. Orderly(c, Said(c))' /\ pc'[c] = "end"
            BY <1>0, <1>2, <2>1, <2>2, SayNothing DEF LoopTypes
        <3> QED BY <3>1 DEF OrderAt, Position, Units, Asked, Between, InRequest
    <2>3. CASE /\ out' = [out EXCEPT ![c] = bw[c] \o <<r>>]
               /\ pc' = [pc EXCEPT ![c] = "end"] \/ (pc' = [pc EXCEPT ![c] = "top"] /\ ~Closing(c))
        <3>1. pc'[c] = "end" \/ (pc'[c] = "top" /\ ~Closing(c))
            BY <1>0, <2>3 DEF LoopTypes
        <3>2. Orderly(c, Said(c))' /\ Said(c)' # <<>> /\ Last(Said(c))' = r
            BY <1>2, <1>6, <1>7, <1>8, <2>1, <2>3, SayNow
        <3> QED BY <1>9, <3>1, <3>2
    <2> QED BY <2>1, <2>2, <2>3
<1> QED BY <1>10, <1>11

(* What the client is told afterwards is forgotten with the connection.          *)
LEMMA EndForgets ==
    ASSUME IInv, OrderInv, NEW c \in Conns, End(c)
    PROVE  OrderAt(c)'
<1>1. /\ out'[c] = <<>> /\ bw'[c] = <<>> /\ pc'[c] \in {"close", "done"}
    BY Before DEF End, Goto, LoopTypes, DataTypes
<1>2. Said(c)' = <<>>
    BY <1>1, ConcatEmptySeq DEF Said
<1>3. Orderly(c, Said(c))'
    BY <1>2 DEF Orderly, InOrder, ToSet
<1> QED BY <1>1, <1>2, <1>3 DEF OrderAt, Position, Units, Asked, Between, InRequest

LEMMA OrderNext == IInv /\ OrderInv /\ [Next]_vars => OrderInv'
<1> SUFFICES ASSUME IInv, OrderInv, [Next]_vars PROVE OrderInv'
    OBVIOUS
<1>0. /\ LoopTypes /\ DataTypes /\ Conditions
      /\ \A d \in Conns : kinds[d] \in Seq(Kinds) /\ Len(kinds[d]) \in Nat
    BY OrderBefore, TypeParts DEF IInv, CtxInv
<1>1. ASSUME NEW d \in Conns, Untouched(d), kinds'[d] = kinds[d] PROVE OrderAt(d)'
    <2>1. Longer(d) /\ Len(kinds'[d]) \in Nat
        BY <1>0, <1>1 DEF Longer
    <2> QED BY <1>1, <2>1, OrderStays
<1>2. ASSUME NEW c \in Conns, Serve(c) \/ Register(c) \/ HijackEnds(c) PROVE OrderInv'
    <2>1. ASSUME NEW d \in Conns \ {c} PROVE OrderAt(d)'
        BY <1>1, <1>2, OthersUntouched
    <2>2. OrderAt(c)'
        BY <1>2, QuietSteps, TakeRequest, AnswerReading, HandlerOver, AnswerRequest, EndForgets
            DEF Serve, ReadStep, AnswerStep, Depart
    <2> QED BY <2>1, <2>2 DEF OrderInv
<1>3. ASSUME NEW c \in Conns, Client(c) PROVE OrderInv'
    <2>1. ASSUME NEW d \in Conns \ {c} PROVE OrderAt(d)'
        BY <1>1, <1>3, OthersUntouched
    <2>2. Untouched(c)
        BY <1>3 DEF Client, Send, SendRest, Untouched, stream, answers, loop, contexts
    <2>3. Longer(c) /\ Len(kinds'[c]) \in Nat
        <3>1. CASE SendRest(c)
            BY <1>0, <3>1 DEF SendRest, Longer
        <3>2. CASE Send(c)
            <4>1. PICK k \in Kinds : kinds' = [kinds EXCEPT ![c] = Append(@, k)]
                BY <3>2 DEF Send
            <4>2. StreamTypes
                BY Before
            <4>3. kinds'[c] = Append(kinds[c], k) /\ kinds[c] \in Seq(Kinds)
                BY <1>0, <4>1, <4>2 DEF StreamTypes
            <4>4. /\ Len(Append(kinds[c], k)) = Len(kinds[c]) + 1
                  /\ \A i \in 1..Len(kinds[c]) : Append(kinds[c], k)[i] = kinds[c][i]
                BY <4>3, AppendProperties
            <4> QED BY <1>0, <4>3, <4>4 DEF Longer
        <3> QED BY <1>3, <3>1, <3>2 DEF Client
    <2>4. OrderAt(c)'
        BY <2>2, <2>3, OrderStays
    <2> QED BY <2>1, <2>4 DEF OrderInv
<1>4. ASSUME FreeSlot \/ UNCHANGED vars PROVE OrderInv'
    <2>1. UNCHANGED <<kinds, used, out, bw, pc, cx, closing, ctx>>
        BY <1>4 DEF FreeSlot, vars, client, stream, answers, loop, contexts
    <2>2. \A d \in Conns : Untouched(d) /\ kinds'[d] = kinds[d]
        BY <2>1 DEF Untouched
    <2> QED BY <1>1, <2>2 DEF OrderInv
<1>5. ASSUME NEW x \in Ctxs, Tick(x) PROVE OrderInv'
    <2> SUFFICES ASSUME NEW d \in Conns PROVE OrderAt(d)'
        BY DEF OrderInv
    <2>1. /\ UNCHANGED <<kinds, used, out, bw, pc, cx, closing>> /\ ctx' = [ctx EXCEPT ![x].timer = "tick"]
        BY <1>5 DEF Tick, client, stream, answers, loop
    <2>2. \A y \in Ctxs : /\ ctx'[y].req = ctx[y].req /\ ctx'[y].resp = ctx[y].resp
                          /\ ctx'[y].timeoutCh = ctx[y].timeoutCh
        BY <1>0, <2>1 DEF DataTypes, Contexts
    <2>3. /\ Orderly(d, Said(d)) /\ Position(d) /\ Units(d) /\ Asked(d) /\ (pc[d] \in Using => cx[d] \in Ctxs)
        BY OrderBefore, Before
    <2>4. Orderly(d, Said(d))' /\ Said(d)' = Said(d) /\ Current(d)' = Current(d)
        BY <2>1, SayNothing DEF Current
    <2>5. Position(d)' /\ Units(d)'
        BY <2>1, <2>3, <2>4 DEF Position, Units
    <2>6. Asked(d)'
        BY <2>1, <2>2, <2>3, <2>4 DEF Asked, Request, Using
    <2> QED BY <2>4, <2>5, <2>6 DEF OrderAt
<1>6. ASSUME NEW x \in Ctxs, HandlerEnds(x) PROVE OrderInv'
    <2> SUFFICES ASSUME NEW d \in Conns PROVE OrderAt(d)'
        BY DEF OrderInv
    <2>1. PICK o \in Outcomes, parse \in BOOLEAN :
             /\ parse => ctx[x].req # Nil /\ KindOf(ctx[x].req) = "rawClose"
             /\ ctx' = [ctx EXCEPT ![x] =
                IF @.timedOut THEN NewCtx
                ELSE [@ EXCEPT !.resp = <<"ok", ctx[x].req>>, !.closes = (o = "close"),
                               !.hijacks = (o = "hijack"), !.parsed = parse,
                               !.timeoutCh = 1, !.handler = "none"]]
        BY <1>6, Zenon DEF HandlerEnds
    <2>2. ctx[x].handler = "run" /\ UNCHANGED <<kinds, used, out, bw, pc, cx, closing>>
        BY <1>6 DEF HandlerEnds, client, stream, answers, loop
    <2>3. \A y \in Ctxs \ {x} : ctx'[y] = ctx[y]
        BY <1>0, <2>1
    <2>4. /\ Orderly(d, Said(d)) /\ Position(d) /\ Units(d) /\ Asked(d) /\ InUse(d)
          /\ pc[d] \in Using => cx[d] \in Ctxs
        BY OrderBefore, Before
    <2>5. Orderly(d, Said(d))' /\ Said(d)' = Said(d) /\ Current(d)' = Current(d)
          /\ Request(d, Current(d))' = Request(d, Current(d))
        BY <2>2, SayNothing DEF Current, Request
    <2>6. Position(d)' /\ Units(d)'
        BY <2>2, <2>4, <2>5 DEF Position, Units
    <2>7. CASE pc[d] \in {"wait", "respond"} /\ cx[d] = x
        <3>1. pc[d] = "wait" /\ ~ctx[x].timedOut
            BY <2>2, <2>4, <2>7 DEF InUse, AtRest
        <3>2. ctx[x] \in Contexts
            BY <1>0 DEF DataTypes
        <3>3. ctx'[x].req = ctx[x].req /\ ctx'[x].resp = <<"ok", ctx[x].req>>
            BY <1>0, <2>1, <3>1, <3>2 DEF DataTypes, Contexts
        <3>4. ctx[x].req = Request(d, Current(d))
            BY <2>4, <2>7, <3>1 DEF Asked
        <3> QED BY <2>2, <2>4, <2>5, <2>6, <2>7, <3>1, <3>3, <3>4 DEF Asked, OrderAt
    <2>8. CASE ~(pc[d] \in {"wait", "respond"} /\ cx[d] = x)
        <3>1. Untouched(d) /\ kinds'[d] = kinds[d]
            BY <2>2, <2>3, <2>4, <2>8 DEF Untouched, Using
        <3> QED BY <1>1, <3>1
    <2> QED BY <2>7, <2>8
<1> QED BY <1>2, <1>3, <1>4, <1>5, <1>6 DEF Next, ServerStep

LEMMA OrderInit == Init => OrderInv
<1> SUFFICES ASSUME Init, NEW c \in Conns PROVE OrderAt(c)
    BY DEF OrderInv
<1>1. out[c] = <<>> /\ bw[c] = <<>> /\ pc[c] = "new" /\ used[c] = 0
    BY DEF Init
<1>2. Said(c) = <<>>
    BY <1>1, ConcatEmptySeq DEF Said
<1>3. Orderly(c, Said(c))
    BY <1>2 DEF Orderly, InOrder, ToSet
<1> QED BY <1>1, <1>2, <1>3 DEF OrderAt, Position, Units, Asked, Between, InRequest

-----------------------------------------------------------------------------
(* Theorems *)

LEMMA InitInv == Init => IInv
<1> SUFFICES ASSUME Init PROVE IInv
    OBVIOUS
<1>0. /\ setting \in Settings /\ requested = 0 /\ MaxRequests \in Nat
      /\ MaxConnsPerIP \in Nat \ {0} /\ Concurrency \in Nat \ {0}
    BY SettingIs DEF Init
<1>1. StreamTypes
    BY <1>0 DEF Init, StreamTypes
<1>2. LoopTypes
    BY DEF Init, LoopTypes
<1>3. DataTypes
    BY NewCtxIsFresh DEF Init, DataTypes
<1>4. Streams
    BY <1>0 DEF Init, Streams
<1>5. CtxInv
    BY NumbersAssumption DEF Init, CtxInv, Hands, Readers, ReaderAt, Conditions, InUse, Using, NewCtx
<1>6. Members = {} /\ Admitted = {} /\ Counted = {} /\ Within = {} /\ Running = {}
    BY DEF Init, Members, Admitted, Counted, Within, Running, Registered, Inside, Counting, Using, NewCtx
<1>7. Counts /\ CountTypes
    BY <1>0, <1>6, FS_EmptySet DEF Init, Counts, CountTypes
<1>8. Wrapped
    <2>1. Nil \notin Conns
        BY NumbersAssumption
    <2> QED BY <2>1 DEF Init, Wrapped, Inside, Shut, Registered
<1> QED BY <1>1, <1>2, <1>3, <1>4, <1>5, <1>7, <1>8, TypeParts DEF IInv, LimitInv

LEMMA NextInv == IInv /\ [Next]_vars => IInv'
<1> SUFFICES ASSUME IInv, [Next]_vars PROVE IInv'
    OBVIOUS
<1>1. StreamTypes' /\ Streams' /\ LoopTypes' /\ DataTypes' /\ CtxInv' /\ Counts' /\ CountTypes' /\ Wrapped'
    BY StreamNext, LoopNext, AnswersNext, ContextsNext, CtxNext, CountsNext, WrappedNext DEF DataTypes
<1>2. TypeOK'
    BY <1>1 DEF TypeOK, StreamTypes, LoopTypes, CountTypes, DataTypes
<1> QED BY <1>1, <1>2 DEF IInv, LimitInv

(* The invariant that the others follow from. *)
THEOREM ServerInvariant == Spec => []IInv
BY InitInv, NextInv, PTL DEF Spec

(* Every variable of serveConn, of its counters and of its contexts has its type:
   in particular, no counter goes below zero. *)
THEOREM ServerTypes == Spec => []TypeOK
<1>1. IInv => TypeOK
    BY DEF IInv
<1> QED BY <1>1, ServerInvariant, PTL

(* Nobody else has a context while a handler that came too late may still touch
   it, or while a hijacker reads through it, and a context in ctxPool shows
   nothing of its last request. *)
THEOREM ServerContextsApart == Spec => []ContextsApart
<1>1. IInv => ContextsApart
    <2> SUFFICES ASSUME IInv PROVE ContextsApart
        OBVIOUS
    <2>1. /\ Hands /\ Conditions /\ LoopTypes /\ DataTypes
        BY TypeParts DEF IInv, CtxInv
    <2>2. ASSUME NEW x \in pool PROVE [ctx[x] EXCEPT !.req = Nil] = NewCtx
        <3>1. ctx[x] \in Contexts /\ Fresh(ctx[x])
            BY <2>1 DEF Conditions, LoopTypes, DataTypes
        <3> QED BY <3>1, FreshShowsNothing
    <2>3. ASSUME NEW x \in Ctxs PROVE Cardinality({c \in Conns : cx[c] = x}) <= 1
        <3> DEFINE S == {c \in Conns : cx[c] = x}
        <3>1. \A c, d \in S : c = d
            BY <2>1, NumbersAssumption DEF Hands
        <3>2. CASE S = {}
            BY <3>2, FS_EmptySet
        <3>3. CASE S # {}
            <4>1. PICK c : S = {c}
                BY <3>1, <3>3
            <4>2. Cardinality(S) = 1
                BY <4>1, FS_Singleton
            <4> QED BY <4>2
        <3> QED BY <3>2, <3>3
    <2>4. ASSUME NEW x \in Ctxs
          PROVE  /\ x \in pool => \A c \in Conns : cx[c] # x /\ fbr[c] # x
                 /\ ctx[x].handler = "run" => ctx[x].timedOut \/ \E c \in Conns : cx[c] = x /\ pc[c] = "wait"
        BY <2>1 DEF Hands, Conditions
    <2>5. ASSUME NEW c \in Conns, NEW d \in Conns, fbr[c] # Nil, c # d
          PROVE  fbr[c] \notin {cx[d], fbr[d]}
        BY <2>1, <2>5 DEF Hands
    <2> QED BY <2>2, <2>3, <2>4, <2>5 DEF ContextsApart
<1> QED BY <1>1, ServerInvariant, PTL

(* Connections are counted once from their arrival until they were closed, those
   served never exceed MaxConnsPerIP and Concurrency, a handler that lingers
   keeps its slot, and whoever is served has an open socket in a perIPConn of
   its own. *)
THEOREM ServerLimitsKept == Spec => []LimitsKept
<1>1. IInv => LimitsKept
    <2> SUFFICES ASSUME IInv PROVE LimitsKept
        OBVIOUS
    <2>1. /\ StreamTypes /\ LoopTypes /\ CountTypes /\ Readers /\ Counts /\ Wrapped
          /\ \A c \in Conns : ReaderAt(c)
        BY TypeParts DEF IInv, CtxInv, LimitInv, Readers
    <2>2. MaxConnsPerIP \in Nat /\ Concurrency \in Nat
        BY <2>1, SettingIs DEF StreamTypes
    <2> DEFINE served == {c \in Conns : Served(c)}
               looping == {c \in Conns : Served(c) /\ hj[c] = "none"}
    <2>3. served \subseteq Admitted /\ looping \subseteq Within
        <3>1. ASSUME NEW c \in Conns, Served(c) PROVE Inside(c)
            BY <2>1, <3>1 DEF Served, Inside, Registered, ReaderAt
        <3>2. ASSUME NEW c \in Conns, Served(c), hj[c] = "none" PROVE pc[c] \in Counting \ {"over"}
            BY <2>1, <3>2 DEF Served, Counting, Using, LoopTypes
        <3> QED BY <3>1, <3>2 DEF Admitted, Within
    <2>4. /\ Cardinality(served) <= Cardinality(Admitted) /\ Cardinality(served) \in Nat
          /\ Cardinality(looping) <= Cardinality(Within) /\ Cardinality(looping) \in Nat
        <3>1. /\ IsFiniteSet(served) /\ Cardinality(served) <= Cardinality(Admitted)
              /\ IsFiniteSet(looping) /\ Cardinality(looping) <= Cardinality(Within)
            BY <2>3, Sizes, FS_Subset
        <3> QED BY <3>1, FS_CardinalityType
    <2>5. /\ Cardinality(served) <= MaxConnsPerIP
          /\ Cardinality(looping) <= concurrency /\ Cardinality(looping) <= Concurrency
        BY <2>1, <2>2, <2>4, Sizes DEF Counts
    <2>6. perIP = Cardinality({c \in Conns : Registered(c)})
        BY <2>1 DEF Counts, Members
    <2>7. slots = ended + Cardinality({x \in Ctxs : ctx[x].handler = "run"})
        BY <2>1 DEF Counts, Running
    <2>8. ASSUME \A c \in Conns : pc[c] \in {"new", "done"} PROVE concurrency = 0
        <3>1. Counted = {}
            BY <2>8 DEF Counted, Counting, Using
        <3> QED BY <2>1, <3>1, FS_EmptySet DEF Counts
    <2>9. ASSUME NEW c \in Conns, Served(c) PROVE open[c] /\ inner[wrap[c]] = c
        <3>1. Inside(c) /\ ~Shut(c)
            BY <2>1, <2>9 DEF Served, Inside, Registered, Shut, ReaderAt
        <3> QED BY <2>1, <3>1 DEF Wrapped
    <2>10. ASSUME NEW c \in Conns, pc[c] = "done", hj[c] \in {"none", "done"} PROVE ~open[c]
        BY <2>1, <2>10 DEF Wrapped, Shut
    <2> QED BY <2>5, <2>6, <2>7, <2>8, <2>9, <2>10 DEF LimitsKept
<1> QED BY <1>1, ServerInvariant, PTL

(* What serveConn says of the requests of a connection is in order: one answer
   for each, told which request it is for and made by the handler of that
   request, "100 Continue" only before the answer of its request, and nothing
   behind an answer that closes the connection, which the answer of a request
   with Connection: close always does. *)
THEOREM ServerAnswersInOrder == Spec => []AnswersInOrder
<1>1. Init => IInv /\ OrderInv
    BY InitInv, OrderInit
<1>2. IInv /\ OrderInv /\ [Next]_vars => (IInv /\ OrderInv)'
    BY NextInv, OrderNext
<1>3. IInv /\ OrderInv => AnswersInOrder
    <2> SUFFICES ASSUME IInv, OrderInv, NEW c \in Conns
                 PROVE  LET all == Said(c) IN
                        /\ pc[c] = "top" /\ used[c] > 0 =>
                              all # <<>> /\ Last(all).what # "continue" /\ Last(all).to = Current(c)
                        /\ \A i \in 1..Len(all)-1 : Follows(all[i+1], all[i])
                        /\ \A a \in ToSet(all) :
                              /\ a.last => pc[c] = "end"
                              /\ a.what \in {"ok", "busy"} =>
                                    a.of = Request(c, a.to) /\ a.body = (kinds[c][a.to] # "head")
                              /\ a.what \notin {"error", "continue"} /\ kinds[c][a.to] = "close" => a.last
        BY DEF AnswersInOrder
    <2>1. /\ Orderly(c, Said(c)) /\ Position(c) /\ Said(c) \in Seq(Sent) /\ used[c] \in Nat
        BY OrderBefore
    <2>2. pc[c] = "top" /\ used[c] > 0 =>
             Said(c) # <<>> /\ Last(Said(c)).what # "continue" /\ Last(Said(c)).to = Current(c)
        BY <2>1 DEF Position, Between
    <2>3. ASSUME NEW a \in ToSet(Said(c)), a.last PROVE pc[c] = "end"
        <3>1. PICK i \in 1..Len(Said(c)) : a = Said(c)[i]
            BY <2>1 DEF ToSet
        <3>2. CASE i = Len(Said(c))
            BY <2>1, <2>3, <3>1, <3>2 DEF Position, Last
        <3>3. CASE i # Len(Said(c))
            <4>1. i \in 1..Len(Said(c))-1
                BY <2>1, <3>3
            <4> QED BY <2>1, <2>3, <3>1, <4>1 DEF Orderly, InOrder, Follows
        <3> QED BY <3>2, <3>3
    <2> QED BY <2>1, <2>2, <2>3 DEF Orderly, InOrder, Truthful
<1> QED BY <1>1, <1>2, <1>3, PTL DEF Spec
=============================================================================
