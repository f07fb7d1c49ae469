------------------------------- MODULE RedisCalls -------------------------------
(* The methods of RedisModel (cache/redis.go), ScanStruct and AddFlat (scan.go) *)
(* and Script.Do (script.go) on the pooled connection of PooledConn: what they  *)
(* send, what the server has of it, and what their callers are told.            *)
(* A call takes the connection after whatever the borrowers before it did with  *)
(* the session, pipelines or makes round trips, and gives it back; the server   *)
(* may refuse any command and the connection may fail at any moment.            *)
EXTENDS PooledConn, RedisReply

CONSTANTS
    KeyPre,      \* the prefix of all keys, a sequence of characters
    Calls,       \* the calls that callers make
    MaxCalls,    \* bound: calls, one after the other
    NoCall

VARIABLES
    stored,    \* the server: of every key its value, its hash, or nothing
    script,    \* the server has the script
    requests,  \* the commands of PooledConn's out, with their arguments
    answers,   \* the lines of PooledConn's replies
    call,      \* the running call
    todo,      \* what it still sends
    got,       \* the replies it has
    result,    \* what it told the caller; NoValue until it does
    before,    \* what was stored when it began
    told,      \* what the callers know: see Learn
    calls      \* how many there were

served == <<stored, script>>
lines == <<requests, answers>>
caller == <<call, todo, got, result, before, told, calls>>
callVars == <<served, lines, caller>>

-------------------------------------------------------------------------------
(* The server (external). A value is a text or a hash (a function from field    *)
(* names to texts), and it may have a time to live.                             *)

String(t) == [type |-> "string", t |-> t, ttl |-> FALSE]
Hash(h) == [type |-> "hash", h |-> h, ttl |-> FALSE]
NoKeys == <<>>

With(f, k, x) == (k :> x) @@ f
HashAt(db, key) == IF key \in DOMAIN db /\ db[key].type = "hash" THEN db[key].h ELSE <<>>
Wrong(db, key, type) == key \in DOMAIN db /\ db[key].type # type
WrongType == Error("WRONGTYPE")
NoScript == Error("NOSCRIPT")
Refused == Error("ERR")
Does(db, reply) == [stored |-> db, reply |-> reply]
Ok == Simple(Word("OK"))

Request(name, key, args) == [name |-> name, key |-> key, args |-> args]
NoRequest == Request("session", <<>>, <<>>)

FieldReply(db, key, field) ==
    IF field \in DOMAIN HashAt(db, key) THEN Bulk(HashAt(db, key)[field]) ELSE Nil
TextReply(db, key) ==
    IF key \in DOMAIN db /\ db[key].type = "string" THEN Bulk(db[key].t) ELSE Nil

\* The pairs of args over the hash.
PutFields(db, key, args) ==
    LET h == FoldLeft(LAMBDA acc, i : With(acc, args[2 * i - 1], args[2 * i]),
                      HashAt(db, key), [i \in 1..(Len(args) \div 2) |-> i])
        ttl == key \in DOMAIN db /\ db[key].ttl
    IN  With(db, key, [Hash(h) EXCEPT !.ttl = ttl])

Removed(db, keys) == [k \in DOMAIN db \ keys |-> db[k]]

\* The script adds one to the number.
Counted(db, key) ==
    LET n == IF key \in DOMAIN db THEN db[key].t.n + 1 ELSE 1
    IN  Does(With(db, key, String(Digits(n))), Number(n))

Without(db, key, fields) ==
    LET left == DOMAIN HashAt(db, key) \ fields
    IN  IF key \notin DOMAIN db THEN db
        ELSE IF left = {} THEN Removed(db, {key})
        ELSE [db EXCEPT ![key].h = [f \in left |-> @[f]]]

\* A command on a hash.
ExecHash(db, req) ==
    LET key == req.key
        args == req.args
        h == HashAt(db, key)
        fields == SetToSeq(DOMAIN h)
        Reads(reply) == Does(db, reply)
    IN  CASE req.name = "HGET" -> Reads(FieldReply(db, key, args[1]))
          [] req.name = "HMGET" -> Reads(Values([i \in DOMAIN args |-> FieldReply(db, key, args[i])]))
          [] req.name = "HSET" -> Does(PutFields(db, key, args), Number(IF args[1] \in DOMAIN h THEN 0 ELSE 1))
          [] req.name = "HMSET" -> Does(PutFields(db, key, args), Ok)
          [] req.name = "HDEL" ->
               Does(Without(db, key, ToSet(args)), Number(Cardinality(DOMAIN h \cap ToSet(args))))
          [] req.name = "HGETALL" ->
               Reads(Values(FlattenSeq([i \in DOMAIN fields |-> <<Bulk(fields[i]), Bulk(h[fields[i]])>>])))

Exec(db, req) ==
    LET key == req.key
        args == req.args
        present == key \in DOMAIN db
        Reads(reply) == Does(db, reply)
    IN  CASE req.name = "SET" -> Does(With(db, key, String(args[1])), Ok)
          [] req.name = "SETEX" -> Does(With(db, key, [String(args[2]) EXCEPT !.ttl = TRUE]), Ok)
          [] req.name = "GET" -> Reads(IF Wrong(db, key, "string") THEN WrongType ELSE TextReply(db, key))
          [] req.name = "MGET" -> Reads(Values([i \in DOMAIN args |-> TextReply(db, args[i])]))
          [] req.name = "DEL" ->
               LET keys == ToSet(args) \cap DOMAIN db IN Does(Removed(db, keys), Number(Cardinality(keys)))
          [] req.name = "EXPIRE" ->
               IF present THEN Does([db EXCEPT ![key].ttl = TRUE], Number(1)) ELSE Reads(Number(0))
          [] req.name = "TTL" ->
               Reads(Number(IF present THEN IF db[key].ttl THEN 1 ELSE -1 ELSE -2))
          [] req.name = "EVALSHA" -> IF script THEN Counted(db, key) ELSE Reads(NoScript)
          [] req.name = "EVAL" -> Counted(db, key)
          [] OTHER -> IF Wrong(db, key, "hash") THEN Reads(WrongType) ELSE ExecHash(db, req)

\* The answer of PooledConn's server, with what it says.
Answer ==
    /\ ServerAnswers
    /\ LET req == Head(requests)
           failed == Last(replies').is = "error"
           sentinel == Last(replies').is = "sentinel"
           done == IF req # NoRequest THEN Exec(stored, req)
                   ELSE Does(stored, IF sentinel THEN Bulk(Word("sentinel")) ELSE Ok)
       IN  /\ done.reply.is = "error" => failed
           /\ stored' = IF failed THEN stored ELSE done.stored
           /\ answers' = answers \o Lines(IF failed /\ done.reply.is # "error" THEN Refused ELSE done.reply)
           /\ script' = (script \/ (req.name = "EVAL" /\ ~failed))
    /\ requests' = Tail(requests)
    /\ UNCHANGED caller

Push ==
    /\ ServerPushes
    /\ answers' = answers \o Lines(Values(<<Bulk(Word("message")), Bulk(Word("channel")), Bulk(Word("data"))>>))
    /\ UNCHANGED <<served, requests, caller>>

\* Between the calls: the time of a key is over, the scripts are flushed.
Expire(key) ==
    /\ call = NoCall /\ place = "pool" /\ calls < MaxCalls
    /\ key \in DOMAIN stored /\ stored[key].ttl
    /\ stored' = Removed(stored, {key})
    /\ UNCHANGED <<vars, script, lines, caller>>

FlushScripts ==
    /\ call = NoCall /\ place = "pool" /\ script /\ calls < MaxCalls
    /\ script' = FALSE
    /\ UNCHANGED <<vars, stored, lines, caller>>

-------------------------------------------------------------------------------
(* What the calls send. Names of keys are sequences of characters; a command is *)
(* sent with the texts of its arguments.                                        *)

GenerateKey(key) == KeyPre \o key
Texts(args) == [i \in DOMAIN args |-> Written(args[i])]

Pipelined(c) == c.op \in {"SetValues", "GetHashList"}

\* The command of each method that makes one round trip.
GetRequest(c) ==
    LET key == GenerateKey(c.key)
    IN  IF c.field = "" THEN Request("GET", key, <<>>) ELSE Request("HGET", key, <<Word(c.field)>>)
GetStrListRequest(c) == Request("MGET", <<>>, [i \in DOMAIN c.keys |-> GenerateKey(c.keys[i])])
SetRequest(c) ==
    LET key == GenerateKey(c.key)
    IN  IF c.timeout THEN Request("SETEX", key, Texts(<<Arg("int64", 1), c.arg>>))
        ELSE Request("SET", key, Texts(<<c.arg>>))
HSetRequest(c) == Request("HSET", GenerateKey(c.key), <<Word(c.field), Written(c.arg)>>)
DelRequest(c) == Request("DEL", <<>>, [i \in DOMAIN c.keys |-> GenerateKey(c.keys[i])])
HDelRequest(c) ==
    LET key == GenerateKey(c.key)
    IN  IF c.fields = <<>> THEN Request("DEL", <<>>, <<key>>)
        ELSE Request("HDEL", key, [i \in DOMAIN c.fields |-> Word(c.fields[i])])
SetTimeoutRequest(c) == Request("EXPIRE", GenerateKey(c.key), Texts(<<Arg("int64", 1)>>))
GetTimeoutRequest(c) == Request("TTL", GenerateKey(c.key), <<>>)

\* Do and Query, with the command of a method or the application's own.
Single(c) ==
    LET key == GenerateKey(c.key)
    IN  CASE c.op = "Get" -> GetRequest(c)
          [] c.op \in {"GetStrList", "Strings", "ByteSlices", "Ints"} -> GetStrListRequest(c)
          [] c.op = "Set" -> SetRequest(c)
          [] c.op = "HSet" -> HSetRequest(c)
          [] c.op = "Del" -> DelRequest(c)
          [] c.op = "HDel" -> HDelRequest(c)
          [] c.op = "SetTimeout" -> SetTimeoutRequest(c)
          [] c.op = "GetTimeout" -> GetTimeoutRequest(c)
          [] c.op \in {"Map", "ScanStruct"} -> Request("HGETALL", key, <<>>)
          [] c.op = "AddFlat" -> Request("HMSET", key, Texts(FlattenStruct(c.type, c.v)))
          [] c.op = "ScanSlice" -> Request("HMGET", key, [i \in DOMAIN c.asked |-> Word(c.asked[i])])
          [] c.op = "Script" -> Request("EVALSHA", key, <<>>)

\* The methods refuse an empty key, and having nothing to do, before they take a
\* connection; Set does not.
Missing(c) ==
    \/ c.op \in {"Get", "HSet", "HDel", "SetTimeout", "GetTimeout"} /\ c.key = <<>>
    \/ c.op \in {"GetStrList", "Del"} /\ c.keys = <<>>
    \/ c.op = "SetValues" /\ c.vals = <<>>
    \/ c.op = "GetHashList" /\ c.fields = <<>>

\* The pipelines, in the order of an iteration over the map. SetValues takes the
\* entries as fields of the hash c.key if there is one.
Pipeline(c, order) ==
    IF c.op = "GetHashList"
    THEN [i \in DOMAIN order |-> Request("HMGET", GenerateKey(order[i]),
             [j \in DOMAIN c.fields[order[i]] |-> Word(c.fields[order[i]][j])])]
    ELSE [i \in DOMAIN order |->
             IF c.key # <<>> THEN Request("HSET", GenerateKey(c.key), <<Word(order[i]), Written(c.vals[order[i]])>>)
             ELSE Request("SET", GenerateKey(order[i]), <<Written(c.vals[order[i]])>>)]

\* GetHashList skips a key of which no field is asked for.
Entries(c) ==
    IF c.op = "GetHashList" THEN {k \in DOMAIN c.fields : c.fields[k] # <<>>} ELSE DOMAIN c.vals

-------------------------------------------------------------------------------
(* What the calls make of the replies.                                          *)

IsError(reply) == reply.is \in {"error", "fatal"}

\* GetHashList takes the prefix off again with TrimLeft, which cuts off all
\* characters that are in it.
TrimPrefix(key) ==
    LET kept == {i \in DOMAIN key : key[i] \notin ToSet(KeyPre)}
    IN  IF kept = {} THEN <<>> ELSE SubSeq(key, CHOOSE i \in kept : \A j \in kept : i <= j, Len(key))

BuildKeyVals(keys, reply) ==
    IF reply.is = "array" /\ Len(keys) = Len(reply.a)
    THEN [k \in ToSet(keys) |-> reply.a[CHOOSE i \in DOMAIN keys : keys[i] = k]]
    ELSE <<>>

\* The replies that came and are no errors, each with the request it was sent as.
Received(sends, read) == {i \in DOMAIN read : i <= Len(sends) /\ ~IsError(read[i])}

\* A mutant: an error takes no place among the replies, so those after it are
\* taken for the replies to the requests before their own.
HashListShifted(sends, read) ==
    LET values == SelectSeq(read, LAMBDA reply : ~IsError(reply))
        Name(i) == TrimPrefix(sends[i].key)
    IN  [name \in {Name(i) : i \in DOMAIN values} |->
            LET i == CHOOSE i \in DOMAIN values : Name(i) = name /\ \A j \in DOMAIN values : Name(j) = name => j <= i
            IN  BuildKeyVals([f \in DOMAIN sends[i].args |-> sends[i].args[f].w], values[i])]

HashList(sends, read) ==
    LET taken == Received(sends, read)
        Name(i) == TrimPrefix(sends[i].key)
    IN  [name \in {Name(i) : i \in taken} |->
            LET i == CHOOSE i \in taken : Name(i) = name /\ \A j \in taken : Name(j) = name => j <= i
            IN  BuildKeyVals([f \in DOMAIN sends[i].args |-> sends[i].args[f].w], read[i])]

SetDone(reply) == Value(~IsError(reply))
DelCount(reply) ==
    LET n == Convert("int", reply) IN Value(IF n.failed THEN 0 ELSE n.v)
HDelDone(reply) == Value(~IsError(reply) /\ Convert("bool", reply).v)
TimeLeft(reply) ==
    LET n == Convert("int", reply) IN Value(IF n.failed \/ n.v < 0 THEN 0 ELSE n.v)

\* The result of a call that made round trips: of the last reply, or of an error.
Result(c, reply) ==
    CASE c.op = "Get" -> Convert(c.kind, reply)
      [] c.op = "GetStrList" -> Value(BuildKeyVals(c.keys, reply))
      [] c.op = "Strings" -> Strings(reply)
      [] c.op = "ByteSlices" -> ByteSlices(reply)
      [] c.op = "Ints" -> Ints(reply)
      [] c.op = "Map" -> MapOf(c.kind, reply)
      [] c.op \in {"Set", "HSet", "AddFlat"} -> SetDone(reply)
      [] c.op = "Del" -> DelCount(reply)
      [] c.op \in {"HDel", "SetTimeout"} -> HDelDone(reply)
      [] c.op = "GetTimeout" -> TimeLeft(reply)
      [] c.op = "ScanStruct" -> IF IsError(reply) THEN Unfit(c.v) ELSE ScanStruct(c.type, reply.a, c.v)
      [] c.op = "ScanSlice" -> IF IsError(reply) THEN Unfit(c.dest) ELSE ScanSlice(c.type, reply.a, c.dest, c.names)
      [] c.op = "Script" -> Convert("int", reply)

\* The result of a pipeline: of the replies that were read.
PipelineResult(c, sends, read) ==
    IF c.op = "SetValues" THEN Value(Cardinality({i \in DOMAIN read : ~IsError(read[i])}))
    ELSE Value(HashList(sends, read))

-------------------------------------------------------------------------------
(* What a caller may rely on: the arguments it was told are set, by key and     *)
(* field ("" for the key's own value), the keys that may run out, the structs.  *)

NothingTold == [args |-> <<>>, timed |-> {}, structs |-> <<>>]

\* What the call sets, and of which items nothing is known any more.
Gives(c) ==
    CASE c.op = "Set" -> (<<c.key, "">> :> c.arg)
      [] c.op = "HSet" -> (<<c.key, c.field>> :> c.arg)
      [] c.op = "SetValues" ->
           IF c.key = <<>> THEN [item \in {<<k, "">> : k \in DOMAIN c.vals} |-> c.vals[item[1]]]
           ELSE [item \in {<<c.key, f>> : f \in DOMAIN c.vals} |-> c.vals[item[2]]]
      [] OTHER -> <<>>
Overwrites(c, item) ==
    CASE c.op = "SetValues" ->
           IF c.key = <<>> THEN item[1] \in DOMAIN c.vals ELSE item \in DOMAIN Gives(c)
      [] c.op = "HSet" -> item \in DOMAIN Gives(c)
      [] c.op = "Del" -> item[1] \in ToSet(c.keys)
      [] c.op = "HDel" -> item[1] = c.key /\ (c.fields = <<>> \/ item[2] \in ToSet(c.fields))
      [] c.op \in {"Set", "AddFlat", "Script"} -> item[1] = c.key
      [] OTHER -> FALSE

Learn(c, v) ==
    LET done == \/ c.op \in {"Set", "HSet"} /\ v = Value(TRUE)
                \/ c.op = "SetValues" /\ v = Value(Cardinality(DOMAIN c.vals))
        known == [item \in {x \in DOMAIN told.args : ~Overwrites(c, x)} |-> told.args[item]]
        plain == {item[1] : item \in {x \in DOMAIN Gives(c) : x[2] = ""}}
    IN  [args |-> IF done THEN Gives(c) @@ known ELSE known,
         timed |-> IF c.op = "SetTimeout" \/ (c.op = "Set" /\ c.timeout) THEN told.timed \cup {c.key}
                   ELSE IF done THEN told.timed \ plain ELSE told.timed,
         structs |-> IF c.op # "AddFlat" THEN told.structs
                     ELSE IF v # Value(TRUE) THEN Removed(told.structs, {c.key})
                     ELSE With(told.structs, c.key,
                               [v |-> c.v, fresh |-> GenerateKey(c.key) \notin DOMAIN before])]

NoResult == [told |-> FALSE]
Tell(v, err) ==
    /\ result' = [told |-> TRUE, v |-> v, err |-> err]
    /\ told' = Learn(call, v)

-------------------------------------------------------------------------------
(* The calls, as the borrower of PooledConn. In its terms the commands of a     *)
(* call are like GET: they leave the session alone and may be refused.          *)

Running == call # NoCall /\ result = NoResult
Idle == call = NoCall
Read == ReadReply(answers)
Consumes == answers' = Read.rest /\ UNCHANGED requests

MayBegin ==
    /\ Idle /\ place = "app" /\ sent = 0 /\ pushed = 0
    /\ calls < MaxCalls /\ calls' = calls + 1

Refuses(c) ==
    /\ MayBegin /\ Missing(c)
    /\ call' = ("sends" :> <<>>) @@ c
    /\ result' = [told |-> TRUE, err |-> TRUE,
                  v |-> IF Pipelined(c) THEN PipelineResult(c, <<>>, <<>>) ELSE Result(c, Fatal)]
    /\ before' = stored
    /\ UNCHANGED <<vars, served, lines, todo, got, told>>

Begin(c) ==
    /\ MayBegin /\ ~Missing(c)
    /\ \E order \in IF Pipelined(c) THEN SetToSeqs(Entries(c)) ELSE {<<>>} :
          /\ todo' = IF Pipelined(c) THEN Pipeline(c, order) ELSE <<Single(c)>>
          /\ call' = ("sends" :> todo') @@ c
    /\ before' = stored
    /\ UNCHANGED <<vars, served, lines, got, result, told>>

Sends ==
    /\ Running /\ todo # <<>>
    /\ IF Pipelined(call) THEN Send("GET") ELSE Do("GET")
    /\ requests' = Append(requests, Head(todo))
    /\ todo' = Tail(todo)
    /\ UNCHANGED <<served, answers, call, got, result, before, told, calls>>

\* After Flush: a Receive for each command of the pipeline.
Receives ==
    /\ Running /\ Pipelined(call)
    /\ todo = <<>> /\ Len(got) < Len(call.sends)
    /\ Receive
    /\ Consumes
    /\ got' = Append(got, Read.reply)
    /\ UNCHANGED <<served, call, todo, result, before, told, calls>>

EndsPipeline ==
    /\ Running /\ Pipelined(call)
    /\ todo = <<>> /\ Len(got) = Len(call.sends)
    /\ Tell(PipelineResult(call, call.sends, got), FALSE)
    /\ UNCHANGED <<vars, served, lines, call, todo, got, before, calls>>

\* The round trip is over; a script that the server does not have is sent.
EndsRoundTrip ==
    /\ Running
    /\ DoReturns
    /\ IF call.op = "Script" /\ got = <<NoScript>>
       THEN todo' = <<Request("EVAL", GenerateKey(call.key), <<>>)>> /\ UNCHANGED <<result, told>>
       ELSE Tell(Result(call, Last(got)), IsError(Last(got))) /\ UNCHANGED todo
    /\ UNCHANGED <<served, lines, call, got, before, calls>>

\* The connection fails: every read and write of the call does from then on. A
\* pipeline hears of it from Flush, if that is still to come, or else takes every
\* reply that it does not have for an error.
Breaks ==
    /\ Fail
    /\ requests' = <<>> /\ answers' = <<>>
    /\ IF ~Running THEN UNCHANGED <<got, result, told>>
       ELSE IF Pipelined(call)
       THEN /\ got' = got \o [i \in 1..Len(call.sends) - Len(got) |-> Fatal]
            /\ \E flushed \in BOOLEAN :
                  /\ todo # <<>> => ~flushed
                  /\ got # <<>> => flushed
                  /\ Tell(PipelineResult(call, call.sends, got'), ~flushed)
       ELSE Tell(Result(call, Fatal), TRUE) /\ UNCHANGED got
    /\ UNCHANGED <<served, call, todo, before, calls>>

-------------------------------------------------------------------------------
(* The borrowers that use the session themselves come before the calls.         *)

Session ==
    /\ Idle /\ calls = 0
    /\ \/ /\ \E cmd \in Commands : Send(cmd) \/ Do(cmd)
          /\ requests' = Append(requests, NoRequest)
          /\ UNCHANGED answers
       \/ Receive /\ Consumes
       \/ DoReturns /\ UNCHANGED lines
    /\ UNCHANGED <<served, caller>>

DoesRead ==
    /\ DoReads
    /\ Consumes
    /\ got' = IF Running THEN Append(got, Read.reply) ELSE got
    /\ UNCHANGED <<served, call, todo, result, before, told, calls>>

Closes ==
    /\ Idle \/ result # NoResult
    /\ CloseSends
    /\ requests' = requests \o [i \in 1..Len(out') - Len(out) |-> NoRequest]
    /\ UNCHANGED <<served, answers, caller>>

Drains == Drain /\ Consumes /\ UNCHANGED <<served, caller>>
Finishes == Finish /\ UNCHANGED callVars
PutsBack ==
    /\ Put
    /\ call' = NoCall /\ todo' = <<>> /\ got' = <<>> /\ result' = NoResult /\ before' = NoKeys
    /\ UNCHANGED <<served, lines, told, calls>>

Borrows == Borrow /\ UNCHANGED callVars
Redials == Redial /\ requests' = <<>> /\ answers' = <<>> /\ UNCHANGED <<served, caller>>

CallInit ==
    /\ Init
    /\ stored = NoKeys /\ script = FALSE
    /\ requests = <<>> /\ answers = <<>>
    /\ call = NoCall /\ todo = <<>> /\ got = <<>> /\ result = NoResult /\ before = NoKeys
    /\ told = NothingTold /\ calls = 0

CallNext ==
    \/ Answer \/ Push
    \/ \E key \in DOMAIN stored : Expire(key)
    \/ FlushScripts
    \/ \E c \in Calls : Begin(c) \/ Refuses(c)
    \/ Sends \/ Receives \/ EndsPipeline \/ EndsRoundTrip
    \/ Session
    \/ Closes \/ Drains \/ Finishes \/ DoesRead \/ PutsBack
    \/ Breaks \/ Borrows \/ Redials

\* The server answers what it gets, and a goroutine inside Do or Close runs on.
CallSpec ==
    /\ CallInit /\ [][CallNext]_<<vars, callVars>>
    /\ WF_vars(ServerAnswers)
    /\ WF_vars(Drain \/ Finish \/ DoReads \/ Put)

-------------------------------------------------------------------------------
\* Close ends, whatever the modes: its loop and its last Do find what they wait
\* for.
CloseEnds == place \in {"drain", "drained", "finish"} ~> place \in {"pool", "closed"}

Told == result # NoResult
MayBeOver(key) == key \in told.timed
Readable(item) == {Bulk(Written(told.args[item]))} \cup (IF MayBeOver(item[1]) THEN {Nil} ELSE {})

\* What a caller was told is set, by Set, HSet or SetValues, another call reads
\* as it was set, through the text that it becomes on the way: a getter of its
\* kind gives the value, a list has it under its own key and field, in whatever
\* order a pipeline was sent and whichever of its commands were refused. (The
\* names that GetHashList gives back are those of the keys only if they begin
\* with no character of the prefix.)
ReadsWhatWasSet ==
    Told /\ ~result.err =>
        CASE call.op = "Get" ->
               LET item == <<call.key, call.field>>
               IN  item \in DOMAIN told.args /\ told.args[item].kind = call.kind =>
                       \/ result.v = Value(told.args[item].v)
                       \/ MayBeOver(call.key) /\ result.v = NoValue
          [] call.op = "GetStrList" ->
               \A k \in ToSet(call.keys) : <<k, "">> \in DOMAIN told.args =>
                   k \in DOMAIN result.v.v /\ result.v.v[k] \in Readable(<<k, "">>)
          [] call.op \in {"Strings", "ByteSlices", "Ints"} ->
               LET As(t) == IF call.op = "Ints" THEN AssignBulkString("int", t) ELSE Value(t)
                   empty == CASE call.op = "Ints" -> 0 [] call.op = "Strings" -> Word("") [] OTHER -> Nil
               IN  \A i \in DOMAIN call.keys : LET item == <<call.keys[i], "">> IN
                       item \in DOMAIN told.args /\ ~result.v.failed =>
                           \/ As(Written(told.args[item])) = Value(result.v.v[i])
                           \/ MayBeOver(item[1]) /\ result.v.v[i] = empty
          [] call.op = "Map" ->
               \A item \in DOMAIN told.args :
                   item[1] = call.key /\ item[2] # "" /\ ~result.v.failed /\ ~MayBeOver(call.key) =>
                       result.v.v[Word(item[2])] = Parsed(call.kind, Written(told.args[item])).v
          [] call.op = "GetHashList" ->
               \A k \in Entries(call) :
                   (\A other \in Entries(call) : TrimPrefix(other) = k => other = k) /\ TrimPrefix(k) = k =>
                       IF k \in DOMAIN result.v.v
                       THEN \A f \in ToSet(call.fields[k]) : <<k, f>> \in DOMAIN told.args =>
                                f \in DOMAIN result.v.v[k] /\ result.v.v[k][f] \in Readable(<<k, f>>)
                       ELSE \E i \in DOMAIN got : IsError(got[i])
          [] OTHER -> TRUE

\* What a call counts is what it did: SetValues the values that are now in the
\* server, Del and HDel the keys and fields that are gone, SetTimeout the key that
\* now has a time; and a script that had to be sent again ran once. If the
\* connection failed a call counts no more than it did.
CountsAreTrue ==
    Told =>
        LET At(db, e) == IF call.key = <<>>
                         THEN IF GenerateKey(e) \in DOMAIN db THEN db[GenerateKey(e)] ELSE Nil
                         ELSE FieldReply(db, GenerateKey(call.key), Word(e))
            Has(e) == IF call.key = <<>> THEN At(stored, e) = String(Written(call.vals[e]))
                      ELSE At(stored, e) = Bulk(Written(call.vals[e]))
            key == GenerateKey(call.key)
            NumberAt(db) == IF key \in DOMAIN db THEN db[key].t.n ELSE 0
        IN  CASE call.op = "SetValues" ->
                   /\ result.v.v <= Cardinality({e \in DOMAIN call.vals : Has(e)})
                   /\ ~broken => result.v.v >=
                         Cardinality({e \in DOMAIN call.vals : At(stored, e) # At(before, e)})
              [] call.op = "Del" ->
                   LET gone == Cardinality({k \in ToSet(call.keys) :
                                   GenerateKey(k) \in DOMAIN before \ DOMAIN stored})
                   IN  result.v.v <= gone /\ (~broken => result.v.v = gone)
              [] call.op = "HDel" ->
                   /\ result.v.v => stored # before
                   /\ ~broken /\ stored # before => result.v.v
              [] call.op = "SetTimeout" ->
                   /\ result.v.v => key \in DOMAIN stored /\ stored[key].ttl
                   /\ ~broken /\ stored # before => result.v.v
              [] call.op = "Script" ->
                   /\ ~result.err => result.v = Value(NumberAt(before) + 1) /\ NumberAt(stored) = result.v.v
                   /\ result.err => NumberAt(stored) \in NumberAt(before)..NumberAt(before) + (IF broken THEN 1 ELSE 0)
              [] OTHER -> TRUE

\* The fields of a struct type that Go's rule for embedded structs gives a name:
\* the one that is least deep, if it is alone there.
Visible(type, leaf) ==
    /\ leaf.name # "-"
    /\ \A other \in Leaves(type, <<>>) :
          other.name = leaf.name /\ other # leaf => Len(other.path) > Len(leaf.path)

\* A struct that was stored with AddFlat comes back with ScanStruct, and the
\* fields asked for with ScanSlice in each struct of the slice, as it was: every
\* field that its name stands for, whatever the types embedded in it have of the
\* same name, and nothing else is touched, or in a new struct but zero.
\* (An empty field with omitempty leaves in the hash what was there before, and
\* if the hash has no such field the struct keeps its own.)
StructsComeBack ==
    Told /\ ~result.err /\ call.op \in {"ScanStruct", "ScanSlice"} /\ call.key \in DOMAIN told.structs =>
        LET kept == told.structs[call.key]
            Asked(leaf) == call.op = "ScanStruct" \/ leaf.name \in ToSet(call.names)
            ComesBack(was, is) ==
                \A leaf \in Leaves(call.type, <<>>) :
                    IF Visible(call.type, leaf) /\ Asked(leaf)
                    THEN \/ is[leaf.path] = kept.v[leaf.path]
                         \/ /\ leaf.omitEmpty /\ kept.v[leaf.path] = leaf.zero
                            /\ ~kept.fresh \/ is[leaf.path] = was[leaf.path]
                    ELSE is[leaf.path] = was[leaf.path]
            scanned == result.v.v
        IN  /\ ~result.v.failed
            /\ IF call.op = "ScanStruct" THEN ComesBack(call.v, scanned)
               ELSE LET n == Len(call.asked) \div Len(call.names)
                    IN  /\ Len(scanned) = n
                        /\ \A i \in 1..n :
                              ComesBack(IF n <= Len(call.dest) THEN call.dest[i] ELSE ZeroStruct(call.type), scanned[i])

\* What a call returns is what happened: what was set is what is read, key by
\* key or as a struct, and what is counted was done.
CallsTellTheTruth == ReadsWhatWasSet /\ CountsAreTrue /\ StructsComeBack
===============================================================================
