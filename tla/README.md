# Verification of aresgo

TLA+ models of [misgo/aresgo](https://github.com/misgo/aresgo), a Go web framework that wraps
fasthttp (HTTP server, clients), redigo (redis) and go-sql-driver/mysql. The models describe the
parts of it where goroutines, connections and failures meet, and the sequential parts whose state
outlives a call: messages, sessions, routing trees, configuration. TLC checks them on small
instances; TLAPS proves the theorems for every instance.

`tlc -config X.cfg M` runs a configuration, `tlapm M.tla` checks the proofs of a module.
`PROJECT.json` maps every definition to the lines it models and lists the runs, mutants, hazards
and theorems.

## The system

| Component | State it keeps | Operations | What is hard about it | What makes it correct |
|---|---|---|---|---|
| redigo `Pool` (`cache/redigo/redis/pool.go`) | idle list, `active`, `closed`, `cond` under `mu` | `get`, `put`, `Close` | `mu` is given up around Dial, TestOnBorrow and Close; waiting on a condition variable | exact count, limits, one owner per connection, no leak, no lost wakeup |
| redis connection and session (`conn.go`, `pooledConnection`, `commandinfo.go`) | `pending`, `err`, session modes | `Send`, `Flush`, `Receive`, `Do`, `Close` | pipelining, pushed messages, a borrower that leaves a mess | replies match commands; a pooled connection is clean; `Close` ends |
| redis values (`reply.go`, `scan.go`, `script.go`) | none | conversions, `ScanStruct`, `AddFlat`, `Script.Do` | embedded fields, `omitempty`, partial failure of a pipeline | what was stored is read back |
| `RedisModel` (`cache/redis.go`) | reader and writer pool, replaced on failure | `Do`, `Query`, `getConn`, `Ping` and the command methods | the shared field, the deferred Close, batches | every connection taken is returned; callers are told the truth |
| fasthttp accept loop and `workerPool` (`server.go`, `workerpool.go`) | `ready`, `workersCount`, `mustStop`, recycled channels | `Serve`, `getCh`, `release`, `clean`, `Stop` | three kinds of goroutines send on one channel | each connection served once, workers counted, all workers end |
| connections served (`server.go`, `peripconn.go`) | counters, pooled wrappers, `ctxPool`, `concurrencyCh` | `ServeConn`, `serveConn`, `TimeoutHandler`, hijacking | a handler that outlives its request, pipelining, a reader inside a context | answers in order, limits, no context shared by two requests |
| HTTP messages (`header.go`, `http.go`, `args.go`, `uri.go`) | reused `Request` and `Response` | setters, `Write`, `Read`, body streams | one fact in several fields, lazily parsed headers | what arrives is what was set; framing |
| `HostClient` (`client.go`) | idle connections, `connsCount`, cleaner | `Do`, `DoDeadline`, `GetDeadline`, `acquireConn`, `closeConn` | retries, timeouts, late answers, the cleaner's life | connections counted and bounded, late answers harmless |
| `LBClient`, `tcpDialer` (`lbclient.go`, `tcpdialer.go`) | penalties, dial slots, cached addresses | choice, penalty timers, late dials | atomics and timers | counters come back to zero |
| `PipelineClient` (`client.go`) | queues `chW` and `chR`, worker | `Do`, `DoDeadline`, writer, reader | worker restarts, overflow, deadlines | first in first out, every request answered |
| file handler (`fs.go`) | two caches, `readersCount`, compressed files | open, compress, read, release, `cleanCache` | files closed under readers, files replaced meanwhile | a file is closed once, after its last reader; a body is one version |
| `DbModel` and records (`data/db.go`) | one query builder per database | `Table`, `Where`, ..., `Find`, `Save`, `Delete` | shared by all request goroutines; calls that panic half-way | a statement has its own conditions and arguments |
| mysql driver (`data/mysql`) | sequence number, read buffer, open result | packets, results, statements, transactions, local files, DSN | splitting, wrap-around, results left unread | no call reads another call's answer |
| factories `D` and `R`, configuration (`frame.go`, `config/`) | lazily filled maps, parsed files | `D`, `R`, JSON paths, INI load and save | no lock, a file replaced meanwhile, escaping | a model is what the file says |
| router and dispatch (`tree.go`, `http.go`) | prefix tree, pooled `Context`, a global `FileNotFound` | `addRoute`, lookup, `Handler` | splits, priorities, redirects, globals | the route found is the route registered |
| in-memory connections, `redisx.ConnMux`, `bytebufferpool`, compression, text, logging, validation, klauspost | little or none, or vendored | | | not modelled |

How they interact: request goroutines are the workers of `workerPool`; each runs `serveConn`, whose
handler is the router's, which calls `D(key)` and `R(key)`. `D` and `R` build one model per key for
everybody from the configuration. `R` returns one `RedisModel`; its pools are redigo `Pool`s, whose
connections are `conn`s wrapped in `pooledConnection`. `D` returns one `DbModel`, which reaches the
mysql driver through `database/sql`. The HTTP clients are used by applications, apart from the
server, and share `header.go` and `http.go` with it.

## Modules

| Module | Models | Builds on |
|---|---|---|
| `ConnLease` | what a pool of connections promises (abstract) | |
| `RedisPool`, `RedisPoolProofs` | redigo's pool; its invariants, its refinement of `ConnLease` | `ConnLease` |
| `PooledConn`, `PooledConnProofs` | a redis connection through its borrowers | |
| `RedisReply` | redis values: arguments, replies, struct fields | |
| `RedisCalls` | the methods of `RedisModel`, struct scanning and scripts on a pooled connection | `PooledConn`, `RedisReply` |
| `RedisModel` | how `RedisModel` takes and returns connections | |
| `WorkerPool`, `WorkerPoolProofs` | accept loop and workers | |
| `Server`, `ServerProofs` | `ServeConn`, `serveConn`, timeouts, hijacking, limits | |
| `HttpArgs`, `HttpHeader`, `HttpRespHeader`, `HttpBody`, `HttpMessage` | HTTP messages as objects that are set, written, read and reused | in this order |
| `HostClient`, `TCPDialer`, `ClientCalls` | a client to one host; its dialer; calls with deadlines and balancing | `ConnLease`; each extends the one before |
| `ClientHosts` | the map of a `Client` from hosts to `HostClient`s | |
| `ClientCallsProofs` | theorems about the four modules above | |
| `PipelineClient`, `PipelineClientProofs` | a pipelined connection and its callers | |
| `FileServer`, `FileServerProofs` | the file handler | |
| `MysqlValues`, `MysqlConn` | values on the wire; one connection of the mysql driver | |
| `Router`, `Application` | the routing tree and `Router.Handler`; the application around it | `Application` extends `Router` |
| `Config`, `Dsn`, `Records`, `DbModel`, `Startup` | configuration texts, data source names, rows and structs, the query builder, and how a process comes to its databases | `Startup` extends the others |
| `MC*` | instances for TLC | |

In all of them a step is what a goroutine does from one lock, channel operation, atomic operation or
call to the network or the file system to the next. Time is not kept: a deadline may pass wherever
the code looks at the clock or waits with a timer, and an age is decided when it is looked at.
Texts are sequences of tokens or members of small sets.

## What is modelled

### `RedisPool` (and `ConnLease`, `MCRedisPool`)

`RedisPool` is `pool.go` at the grain of its mutex: a step runs from one acquisition or release of
`p.mu` to the next, or is a call made with the mutex free. `pc[t]` is where the goroutine `t` is in
`get` or `put`, `have[t]` the connection in its local variable, `left[t]` what remains of the `n - i`
of the two loops. `mu` is explicit because `get` holds it across several iterations. `idle` is the
list, newest first; `active`, `closed` are the fields; `waiting` is the set parked in `cond.Wait`,
from which Signal wakes any one and Broadcast all; `open` is the set of connections dialed and not
closed; `closing` are those that `Pool.Close` took out and closes one by one afterwards. Dial and
TestOnBorrow succeed or fail freely, `put` is told freely whether the connection is fit to be kept,
and staleness is decided when the code looks, so any clock is covered.

`ConnLease` is what the pool promises, without lists, locks or counters: a connection belongs to
one goroutine or to the pool, is created within the limit, destroyed once, and not stored after
shutdown. `RedisPool` implements it under the mapping `Owner`: a connection belongs to the pool when
it is idle, to a goroutine when it is being tested, used or returned, and is dying when it is open
and only waits for its Close.

### `PooledConn`

One connection through its borrowers. A borrower sends up to `MaxCmds` commands with `Send` and
`Do`, receives, and at any moment calls `Close`; the module runs the client's own state (`state`,
`pending`, `broken`) beside the server's session (external: transaction, watch, subscriptions,
monitor), which answers in order and pushes messages to subscribers. Replies carry the number of
the command they answer, so that properties can say which command a reply belongs to. `Do` and
`Close` are split where they wait for the server. A failure (`Fail`, `conn.fatal`) may come at any
point. A command on its way also carries the session it will leave (`after`, history), which is what
the proofs speak of.

Borrowers are assumed to send what the server accepts at that point (`Legal`). This matters: the
client clears its idea of the session when `EXEC` or `UNWATCH` is sent, whatever the server answers.
Without `Legal` TLC finds a connection that returns to the pool still watching (`WATCH`,
`SUBSCRIBE`, then an `UNWATCH` that the server refuses in subscriber mode). No comment or document
promises anything about such use, so it is recorded as a hazard and not as a finding.

### `WorkerPool`

The accept loop of `Server.Serve` together with `workerpool.go`. The acceptor (`spc`), the workers
(`wpc[ch]`, one per live `workerChan`) and the cleaner (`cpc`) take steps between acquisitions of
`wp.lock`, one channel operation at a time; the lock needs no variable, because only `Stop` holds it
across channel operations. `buf[ch]` is what was sent and not yet received; with capacity 0 a send
needs a worker at its receive. `Chans` is a finite set of identities, so a new worker may have to
wait until an ended one has put its channel back, where the code would allocate. A pool is started
once, as `Server.Serve` does; the repository's tests restart a stopped pool, after which `mustStop`
stays set and every worker ends after one connection.

### `RedisModel`

How `cache/redis.go` uses the pools: the first `Get`, the rebuilding of the pool on failure, the
second `Get`, the command, and the deferred `Close`. Pools are counts of lent and idle connections,
as `RedisPool` keeps them under `Wait = FALSE`. `MaxIdle` is not kept.

### `RedisReply` and `RedisCalls`

`RedisReply` is pure: what an argument becomes on the wire, how a reply is read off the wire, what the
getters of `cache/redis.go`, `reply.go` and `scan.go` make of it (`Strings`, `ByteSlices`, `Ints`, the
assignments of `convertAssignValue` and what a field that does not fit keeps, `ScanSlice` over several
structs), which fields of a struct stand for which names (embedded structs, depth, `redis` tags,
`omitempty`). `RedisCalls` extends `PooledConn` with the methods of
`RedisModel` as callers use them, one operator for the request of each and one for what its caller is
told; empty arguments are refused before a connection is taken. A call takes the connection after whatever the borrowers before it
did with the session, pipelines its commands or makes round trips, reads the replies and gives the
connection back. The server (external) has values, hashes and scripts, may refuse any command and
may have forgotten a script; keys may expire; the connection may fail at any moment. `told` is
history: what callers were told is set. A caller does not look at a value whose error the method
drops (see Findings).

### `Server`

One connection after another through `ServeConn` and `serveConn`, together with `peripconn.go`,
`TimeoutHandler` and `hijackConnHandler`. The stream of a client is counted in halves of requests, so
that a reader may hold a request and a half; `br` and `bw` are what they hold, because the code gives
them up just when they are empty. `ctx[x]` are the fields of a context that outlive a request, `pool`
is `ctxPool`; a context that nobody has is garbage and serves as a new one. A handler runs in its own
goroutine under `TimeoutHandler` and may end after its timeout or never. The answers that refused
connections get, TLS and file uploads are left out.

### `HttpArgs`, `HttpHeader`, `HttpRespHeader`, `HttpBody`, `HttpMessage`

A program in the middle reads a request (or a response) that a legal peer sent, changes it through
the methods of `Request` and `RequestHeader` (`Response` and `ResponseHeader`), writes it, and a second
program reads it with the same code; then the objects are reused for the next message. Headers and
bodies are records with the fields of the code, their methods are operators, and what travels is a
sequence of tokens. Lazily parsed headers (`rawHeaders`), the three places for the length, chunked and
identity framing, body streams of known and unknown size, forms, `100-continue`, gzip and the attributes
of a `Set-Cookie` line are there; the scanning of bytes and percent encoding are not. `want` is the message as the
calls should have left it. `Careless` is the set of call patterns that the code does not carry
through; the run checks the others, and Findings lists them.

### `HostClient`, `TCPDialer`, `ClientCalls`

`HostClient` is `Do` and the connections it keeps to one host. `rpc[r]` is where the goroutine `r` is:
a step runs to the next section under `connsLock` or the next call to the network, so that what
`acquireConn` decides under the lock and does after it (starting the cleaner, dialing) are different
steps, and so are the two halves of `closeConn`, which counts first and closes afterwards. Whether the
write and the read succeed, whether the server closed before its first byte, and whether the
connection may be kept is free. The cleaner (`kpc`, `scratch`) finds a prefix of `conns` overdue; time
is in it only through `seen`: what was idle when the cleaner went to sleep and was not taken since is
overdue when it wakes. `stamped` and `armed` are about the read deadline: whether the `clientConn`
carries a stamp, and whether the socket it has now was given a deadline.

The module implements `ConnLease` as well: a connection belongs to the pool while it is idle or in
the cleaner's list, and is dying once it is not counted. So there is one promise, and two pools that
keep it in different ways: redigo's lends under a mutex with waiters, this one refuses, counts
before it dials, and closes idle connections by a goroutine that comes and goes. A `clientConn` is a
number; `Pooled` takes the first of those that are alike. With as many wrappers as `MaxConns` a dial
waits for a socket that is counted out and not yet closed, where the code would open one more for a
moment.

`TCPDialer` is what a dial does when `Dial` is not set: the cache of addresses with its `pending`
entries and its cleaner, the slots of `maxDialConcurrency`, the goroutine that dials, and the result
channel, which goes back to its pool only when its result was received. It replaces the two dial
actions of `HostClient` by its own.

`ClientCalls` adds calls with deadlines and `LBClient`. What a call takes from pools (request,
response, channel) goes together and is called a kit. The goroutine of a call that timed out keeps its
kit until its `Do` ends, which `Quiesces` of `HostClient` promises; so here it is only "running", and
whether it has an error is free. A balancer chooses between the `HostClient` and a client of which
only the interface is known. A setting decides whether the goroutines call `Do` (with their own dial
or the dialer) or callers make calls with deadlines.

### `ClientHosts`

`Client.Do`: the maps `m` and `ms` from hosts to `HostClient`s, and `mCleaner`, which forgets those not
used for a minute and ends with an empty map. Of a `HostClient` only its `lastUseTime` is kept; a new one
has none, so that a cleaner forgets it at once when the program is older than a minute (`aged`). Adding
one and starting the cleaner are different steps, as in the code. `MCClientCalls` runs it as a fifth
setting, beside those of `ClientCalls`.

### `PipelineClient`

A `pipelineConnClient`: callers put works on `chW`, the writer moves them to `chR` behind the request
it writes, the reader answers them in order, the worker starts and ends both and tells the works that
are left. `work[w]` has the fields of a `pipelineWork`, which is pooled with its timer, so a work may
come with a timer that has already fired. What the writer has buffered reaches the server when it is
flushed, also by the deferred flush of a writer that ends; the reader reads what arrived before the
connection was closed. When one of the two has "ended", the worker closes the connection and stops the
other (`Stop`), waits for it (`Join`) and tells what is left in `chR`. A call may begin with its deadline
already passed (`BeginLate`). The server answers in order, the connection may break a bounded number of
times. Left out are the choice among the connections of a `PipelineClient`, and a deadline that is exactly
now: it arms no timer (`client.go:1667`).

### `FileServer`

Requests for one path through `handleRequest`: both caches, the opening of a file outside the lock
and the winner and loser of `Insert`, small readers and big ones that open the file again, byte ranges,
`If-Modified-Since`, and `cleanCache` with its pending files. Its state is the caches and the fields of every
`fsFile` ever made; `job[w]` is where the request of goroutine `w` is and what it has: file, reader, status
and body. A body is the sequence of the bytes sent, each with its version, encoding and place. The compressed form is a second file that
the first request makes under a lock of its own, under a temporary name; meanwhile the original may be
replaced or removed (external, `Replace`). A version stands for content and time. The path may be a
directory with an `index.html`, or with a generated page, which the client may know or not (`MayBeKnown`).
Errors are those of the code: 304 for what the client has, 500 when a big file cannot be opened again or
its reader cannot be closed after a HEAD, and a file that cannot be read is taken for one that does not
compress.

### `MysqlConn`, `MysqlValues`

A connection from the handshake to `Close`. `database/sql` uses it from one goroutine at a time, so a
call of the driver is one step; what is open is what the server answers (one or several results,
errors, prepared statements, requests for a local file), where the connection breaks, and which call
comes next. A call is a chain of functions on one record, in the order of the code; `wire` is what the
server sent and the driver has not read. Sizes are real: packets are split at 2^24-1 and numbered
modulo 256. Passwords and TLS are left out. `Careless` is used as in `HttpMessage`.

`MysqlValues` is what a connection carries: arguments interpolated into the text of a statement or bound
to a prepared one, with the reallocations and long parameters of `writeExecutePacket`, and rows in the text
and in the binary protocol, with their NULLs, numbers, dates and times. One of the instances of the run
carries values only.

### `Router`, `Application`

`Router` is the tree: `addRoute` with splits, priorities and conflicts, `getValue`, the
case-insensitive search, `CleanPath`, and the order in which `Router.Handler` decides. Paths are
sequences of characters over a small alphabet. `Application` registers routes in any order, also
controllers and static files, and serves requests concurrently with pooled `Context`s, handlers that
panic, and the global `FileNotFound` that every request of a static route replaces.

### `Config`, `Dsn`, `Records`, `DbModel`, `Startup`

`DbModel` is the builder of `data/db.go` through the calls made on it. The variables have the names
of the fields; `pc[u]` and `stmt[u]` say where a caller is and which statement it has made but not yet
sent. Builder calls are one action each, and so are terminal calls up to the statement, except
`Delete`, whose guards and whose statement read the builder at different moments; `Raw` is a statement of
the caller's own, `Send` is `Execute` or `Query` with the deferred reset. Calls that panic or return early leave the builder as
it is, also when the caller simply goes away (`GiveUp`). Loops over maps take any order. A value is
written like the column it is meant for, so a statement is right when its arguments equal its
placeholders. `touched` and `fresh` are history: what was set since the last terminal call, and
whether that one did reset. They are meaningful for one goroutine at a time, which is how the run
uses the builder.

`Config` (environment variables in values, JSON files and paths, INI files), `Dsn` (`FormatDSN` and
`ParseDSN`) and `Records` (`setFieldMap`, `Query`, `convertToModelElem`) are pure. `Startup` composes
them: callers of `D(key)` and `R(key)` look into the maps, load the configuration and build models
from it, step by step and concurrently, while the file is replaced and the database may not answer; the
first to have the `DbModel` goes on to use it. `D` reads its settings one by one (`ReadSetting`), each
out of the `dbConfiger` that stands then, because the package variable has no lock: a second caller
that also found it nil may replace it between two reads. `R` has a configuration of its own. Three smaller jobs share the module: an INI file is
loaded, changed and saved; a driver is opened with a DSN that `FormatDSN` made; a struct is saved to a
row and found again. Much of what is written without quotes or escapes does not come back, and the
properties say exactly what does: `Carries` (the settings that the DSN of `NewDb` brings through),
`Formatted` (the Configs that `FormatDSN` and `ParseDSN` give back), `Plain`, `Alone` and `CommentsLoad`
(the values and comments of an INI file). The instance has each exception, and for the two kinds of
DSN the run shows that those, and no others, do not come through.

## Runs

Every run but the last passes. "States" are distinct states.

| Run | Instance | States | Shows |
|---|---|---|---|
| `redis_pool` | 3 goroutines, 3 connections, 5 configurations | 55,587 | `NoLostWakeup`, `ImplementsLease`, `WaitersAreWoken` |
| `pooled_conn` | all 9 commands, 4 per borrower, 2 pushed messages; calls of every method on 2 keys, 3 calls | 367,734 | `CleanInPool`, `DoGetsItsReply`, `CallsTellTheTruth`, `CloseEnds` |
| `worker_pool` | 3 connections, 2 workers, 3 channels, both capacities | 136,538 | `OneSenderPerIdleWorker`, `AcceptedIsAnswered`, `StopEndsWorkers` |
| `server` | one client with requests of 5 kinds; two clients, three combinations of limits | 208,094 | `AnswersInOrder`, `ContextsApart`, `LimitsKept` |
| `http_message` | 9 requests and 8 responses, 3 calls, messages cut short, a size limit of 3; cookies | 176,516 | `ArrivesAsSet`, `StaysInFrame`, `CutShortIsRefused` |
| `host_client` | 3 goroutines, 2 connections, 2 attempts, 2 cleaners; 2 goroutines with 1 dial slot and 2 addresses; 1 or 2 callers with deadlines, 1 redirect; 2 calls of `Client.Do` for 2 hosts | 141,346 | `AnswersAreOwn`, `DialerKeepsItsBooks`, `PenaltiesAreOwed`, `EachMapHasItsCleaner`, `ImplementsLease`, `Quiesces` |
| `pipeline_client` | 2 callers that call twice and once with a connection that breaks; 3 callers on a queue of one; a writer that flushes late | 254,673 | `AnswersMatch`, `DeadlinesEnd`, `OnlyQueuedWorkWaits` |
| `file_server` | 2 requests at a time, 2 versions of a file and its compressed form, 14 settings | 167,763 | `ReadersAreCounted`, `BodiesAreWhatWasAsked`, `FilesAreClosed` |
| `mysql_conn` | 15 answers, 6 preparations, 8 handshakes, packets around 2^24-1; values of every kind | 14,254 | `AnswersAreOwn`, `NeverStuck`, `CommandsArrive`, `ValuesSurvive` |
| `db_model` | 1 user of the builder, 2 columns, 4 structs; 2 callers of `D` and `R`, 4 pairs of passwords; 15 odd texts in the other settings; INI, DSN and record jobs, with odd ones | 147,183 | `ArgsFitPlaceholders`, `NothingCarriedOver`, `BuiltAsConfigured`, `WrittenReadsBack`, `FoundAsSaved` |
| `application` | every order of 3 of 19 routes, looked up on all paths up to 5 characters; 2 workers, 3 requests | 633,763 | `RoutesAreFound`, `AnswersAreOwn`, `ContextsAreOwn` |
| `redis_model_returns` | 2 callers, pools of 1 connection, 3 pools; expected to fail | | `ConnsAreReturned` is violated by `Do` |

Stated in the modules and true of the same instances, but not part of the runs: the type invariants;
`ActiveIsExact`, `WithinLimits`, `OneOwner`, `NoneLost`, `ClosedPoolIsEmpty` (`RedisPool`),
`WorkersCounted`, `ConnAtOnePlace`, `RecycledChanIsEmpty` (`WorkerPool`), `PendingIsOwed` (`PooledConn`),
`CountExact` (`HostClient`), `EachWorkIsSomewhere` (`PipelineClient`) and `NothingForgotten`
(`FileServer`), all of which are proved; `ClosedPoolDrains` (`RedisPool`), `UpdateBindsItsColumns`
(`DbModel`), `AnswersAreSent` and `ConnectionsEnd` (`Server`, the latter under `FairSpec`), `IdleIsInStep`
(`MysqlConn`), `RedirectsEnd` (`Application`). The runs check what these are for.

Why the bounds are enough. `redis_pool`: three goroutines are a holder, a waiter and a third that
takes what a Signal was about; the configurations have the pool waiting and refusing, pruning,
testing, with `MaxIdle` below `MaxActive`, with `MaxIdle = 0` (put evicts what it pushed) and
without limit. Pruning of two connections in one `get` needs more idle connections than the run has
and is covered by the proofs. `pooled_conn`: four commands are enough to open a transaction inside
a watch, subscribe and leave replies unread; two messages fall on both sides of the sentinel; three
calls are two that set and one that reads. `worker_pool`: two workers can be idle, busy, and one of
them told to stop while the other is handed a connection; the third connection is refused or reuses a
recycled channel. `server`: two requests are enough for one in the reader behind one being answered;
four contexts are two in use and two with late handlers. `http_message`: three calls change a message
in any two ways and once more on the reused object. `host_client`: with three goroutines two
connections can be in use while the third is refused, or idle while one retries; two attempts are one
retry (5 in the code); a second cleaner identity is there so that two could run; one dial slot makes
every second dial wait; `MaxPenalty` and `MaxRedirects` are small so that the limits are passed.
`pipeline_client`: with two calls of one caller a work comes from the pool; three callers fill and
overflow the queue. `file_server`: two requests are a winner and a loser, or a reader beside the
cleaner; one request may follow another. `mysql_conn`: sizes are at and beside the limits; one result
behind another is enough to be taken for the next answer. `db_model`: no call looks further back than
what the builder holds, and two columns give every pairing of keys with values; every character that
`Carries` or `Formatted` excludes, and every form that `Plain`, `Alone` or `CommentsLoad` does, is in the
instance, and the run fails when one of them is taken for harmless. `application`: a split
and a conflict take two routes, a promotion a third.

Every property of a passing run has a mutant: a small wrong version of one definition, kept beside it
and marked "Mutant" or named for what it gets wrong, with which TLC finds the property violated.

Deadlock is checked except where the system may really stop: after `Stop` in `worker_pool`, when
callers have made their calls (`pipeline_client`, `file_server`, `application`, `db_model`, `server`),
and in `redis_model_returns`, whose bound on the pools may stop a caller.

### Fairness

`RedisPool`: strong fairness of each goroutine inside `get`, `put` or holding a connection (the
runtime schedules it; `sync.Mutex` hands a contended lock over; Dial and TestOnBorrow return; a
borrower closes its connection, as the comment on `Get` demands), weak fairness of the rest of
`Pool.Close`. Nobody has to call `Get` or `Close`. `RedisCalls`: the server answers and `Close` runs
on. `WorkerPool`: goroutines run and `WorkerFunc` returns; nobody has to connect and the listener
need not fail. `ClientCalls`: goroutines run, a dial has a timeout, and every read ends because the
server answers or closes, or because of its deadline (which may be missing, see Findings). Nobody has
to call `Do`, and `Quiesces` asks only what happens once nobody does. `PipelineClient`: goroutines go
on, timers fire, the server answers. `FileServer`: requests go on and the cleaning goroutine, which
wakes on a timer, finds files overdue sooner or later. The other modules state no liveness in a run.

## Findings

With a run: `Do` and `Query` leak a connection each time they rebuild a pool (`cache/redis.go:436`):
`defer c.Close()` is bound to the first, failed connection, and the second one is never closed. After
`MaxActive` such calls the new pool is exhausted and is rebuilt in turn. `getConn` returns the
connection and its callers defer the Close afterwards, so they do not leak. `Ping`
(`cache/redis.go:103`) closes neither of its connections; with `"Ping"` among `Ops` the same
property fails after a single call.

Stated as a property that the code does not keep. TLC refutes each in seconds when it is put in place
of the properties of the run's configuration, with the change given:

| Property | Module | Change | What the code does |
|---|---|---|---|
| `NoFullTableDelete` | `MCDbModel` | | a `Save` of a struct without key and table panics and leaves its `1=1` in `WhereStr` (`data/db.go:644`), which the guard of the next `Delete` takes for a condition (753). With `Users = {u1, u2}` another caller's reset between the guard and the statement does the same |
| `DeleteBindsItsKeys` | `MCDbModel` | | several keys and their values are paired in the order of a loop over a Go map (`data/db.go:767`; also `FindByPK`, `287`) |
| `ReadsHaveDeadline` | `MCClientCalls` | | `releaseClientConn` keeps the stamps of the last connection, and a recent stamp lets `doNonNilReqResp` skip `SetReadDeadline` (`client.go:1105`): a silent server holds the call and its slot for ever |
| `NoEarlyTimeout` | `MCPipelineClient` | | a pooled work brings a timer that has fired (`client.go:2151`): ErrTimeout long before the deadline (documented at 1663) |
| `CloseIsHonoured` | `MCServer` | a client of kinds `{"plain", "rawClose"}` | `Connection: close` of a GET is looked at after the request was reset (`server.go:1557`, `1572`) |
| `NotFoundIsMissing` | `MCFileServer` | | a stale compressed file is removed (`fs.go:1125`) between another request's Stat and Open, which the comment at 1033 calls safe: 404 for a file that exists |
| `RestIsDiscarded` | `MCMysqlConn` | `Careless = {"execmore"}` | `Exec` of several statements whose first returns rows leaves the other results unread (`connection.go:300`; README.md:245 says they are discarded) |
| `CompressedArrives` | `MCHttpMessage` | `Sides = {"response"}`, `Careless = {"gzip"}` | compressing a body stream of known size keeps the announced size (`http.go:1189`, `1123`) |
| `SlashIsRecommended` | `MCApplication` | | a catch-all added below a node with children is not recommended for the path without its slash (`tree.go:329`, `428`) |

Met while modelling, in the order of the modules:

- *Redis.* The client clears its idea of the session when `EXEC` or `UNWATCH` is sent, whatever the
  server answers (`Legal` above). `Select` (`redis.go:114`) changes the database of one pooled
  connection. The getters drop errors, so that an absent key, a wrong type and a failed connection are
  all the zero value. `GetHashList` cuts its prefix with `TrimLeft`, which removes a set of characters
  (`redis.go:211`). A number above 1 is not true for `GetBool`. `omitempty` leaves stale fields in a hash.
- *Server.* A HEAD request that times out is answered with a body (1554). `MaxKeepaliveDuration` drops
  answers that were not flushed (1465). An answer is withheld while half of the next request is
  buffered. `TimeoutHandler` used without `Serve` always answers 429, its channel being nil; 429 also
  counts handlers that only linger (314). User values of a request that timed out are not closed.
- *Messages.* `Add` on a response repeats a canonical key; `Del` removes one of two equal keys;
  `SetConnectionClose` on unparsed raw headers is lost; changing the header's target or the URI's
  arguments directly, a form, or the status after the body leaves two places in disagreement
  (`Careless` in `HttpMessage` names each pattern). `SetMethod` appends (`header.go:467`).
  `Cookie.ParseBytes` knows the names of attributes in one case only (`cookie.go:278`).
- *Clients.* On a timeout `GetDeadline` returns the caller's buffer while the late goroutine still
  writes to it (`client.go:705`, `722`). After `ErrTimeout` the caller's request has lost its body,
  which was swapped into the copy (919, 941): calling again sends none. The cleaner of a `Client` forgets
  `HostClient`s that are in use (`client.go:421`): one that is new, whose `lastUseTime` is still 0, or one
  whose call takes longer than a minute. The next call makes another one, so that more than `MaxConnsPerHost`
  connections go to the host, of which line 174 says "Maximum number of connections per each host". A connection dialed after its
  timeout is closed by nobody (`tcpdialer.go:236`). A call without a deadline may stay in `chW` behind a
  worker that ended until somebody calls again (`client.go:1747`); `OnlyQueuedWorkWaits` says that its
  own work is then in `chW`, and that this is the only place where one stays.
- *Files.* A big reader opens the file again by name (`fs.go:450`) and may get the next version, or,
  when it is shorter, an end too early. `bytes=-0` is a 206 without a body. A compressed file that could
  not be written is answered by 403 for `index.html`. `readFileHeader` leaks the file when it fails (1146).
- *mysql.* An empty local file spins in `handleInFileRequest` (`infile.go:149`). `ErrBadConn` after a
  command was sent makes `database/sql` repeat it (`packets.go:31`). A wrong sequence number keeps the
  connection (44). The packet of an execution may pass the limit by four bytes (1013). A binary TIME of some
  days and less than 100 hours in all comes out with three digits of hours (`utils.go:358`); a negative one
  of at least 100 hours and one decimal loses its fraction (414).
- *Application.* `FileNotFound` is one global: a missing file of one request may be reported through
  the `Context` of another (`http.go:468`). `AllowCrossDomain`, `CrossOrigin` and `Errors` of a pooled
  `Context` are never reset (152). A route below a catch-all is accepted and never found (`tree.go:147`).
  Redirects drop the query (`http.go:394`), and `/.` redirects to itself (`tree.go:640`).
- *Start-up.* Two first calls of `D` build two models, of which one is lost with its connections. When the
  file is replaced between their loads, a model may be built of both versions, the user of one and the
  password of the other (`frame.go:89`, `133`, `98`-`118`): `BuiltAsConfigured` says each setting is of some
  version, not that all are of one. With
  the database down `NewDb` keeps nil pools for ever. A number or boolean in the JSON file where a
  string is expected is silently the default, so that a port 3307 is 3306. `Set` and `String` of an INI
  container spell paths differently ("." and "->") and only one changes the case. `NewDb` writes
  the DSN without escapes (`data/db.go:74`): with a ":" in the user, an "@" in the address, a "/" or "?" in
  the database or one of "/&%+" in the charset it connects as something else or, when the DSN is refused,
  not at all. `FormatDSN` does the same with user, address, database and collation (`dsn.go:65`-`86`). An INI
  file is saved without quotes (`ini.go:343`, `379`): a value with a blank at an end, which quotes let
  through (`157`), one set with a quote in front, and one of the form "${...}" are something else when they
  are loaded again, and of two keys that `Set` made differ in case one is lost. A comment ";#..." loses
  its "#", and is lost when that is all of it. A struct's "date" is never read back and "datetime" shifts by the
  zone; NULL becomes the text "NULL". SQL errors are recovered and dropped (`data/db.go:866`).

## Proofs

Eight modules hold theorems. All have the same
form: an inductive invariant `IInv` (or one for each part), `Init => IInv`, `IInv /\ [Next]_vars => IInv'`
with one case for each action, and the properties as consequences. The assumptions on constants are those
named `...Assumption` in the modules: limits are natural numbers, sets of goroutines and connections that
are counted are finite, words like `Nobody` are not members of the sets they are no member of. TLC
evaluates each of them in a run.

### The redis pool

`RedisPoolProofs` proves, for any finite set of goroutines, any set of connections and any
configurations:

| Theorem | States |
|---|---|
| `PoolTypes` | `Spec => []TypeOK` |
| `PoolCountsExactly` | `Spec => []ActiveIsExact` |
| `PoolKeepsLimits` | `Spec => []WithinLimits` |
| `PoolLendsExclusively` | `Spec => [](OneOwner /\ NoneLost)` |
| `ClosedPoolStaysEmpty` | `Spec => []ClosedPoolIsEmpty` |
| `PoolLosesNoWakeup` | `Spec => []NoLostWakeup` |
| `PoolImplementsLease` | `Spec => ImplementsLease` |

The assumptions are those of `RedisPool`: goroutines are finitely many, `Nobody` is neither a
goroutine nor a connection, no goroutine is one of the words `ConnLease` uses for other owners, and
configurations are well typed.

The inductive invariant `IInv` adds to the checked properties what they need to be preserved by one
step: who may hold the mutex at which place (`LockDiscipline`), at which places a goroutine holds a
connection and at which `left` and `drop` are zero (`HandsDiscipline`), that exactly the parked
goroutines are in `waiting` (`WaitDiscipline`), and for the wakeups that only a pool with `Wait`
parks anybody and that the loop of `get` looks at every connection that came after it was entered
(`ScanFresh`). `ActiveIsExact` alone is not inductive: `DialRelease` needs to know that its
goroutine is one of those counted, `WithinLimits` needs the count while the mutex is free, and
`NoLostWakeup` needs all of them, because it compares the free slots with the number of goroutines
that will look. The steps are one lemma per group of actions, with one case per action; the
cardinalities go through the library's theorems on finite sets.

The refinement maps every step of `RedisPool` to a step of `ConnLease` or to a stutter; the step
that needs care is `StartDial`, which counts a connection that has no identity yet, so that the
limit of `Create` holds when `DialSucceeds` gives it one.

### A redis connection

`PooledConnProofs` proves, for any subset of the nine commands, any number of commands per borrower and
any number of messages:

| Theorem | States |
|---|---|
| `PooledConnTypes` | `Spec => []TypeOK` |
| `PooledConnCleanInPool` | `Spec => []CleanInPool` |
| `PooledConnDoGetsItsReply` | `Spec => []DoGetsItsReply` |
| `PooledConnPendingIsOwed` | `Spec => []PendingIsOwed` |

Whether a connection is clean is decided by commands that have not reached the server when the client
decides it. So the invariant speaks of every session on the way (`Chain`): the one the server has now and
the one after each command in `out`. `AllForeseen` says that no session on the way is in a loud mode
(subscriptions, monitor) that the client does not know of; `Tracked` compares what the client tracks with
the last of them while the connection is borrowed, and `Cleaned` and `Marked` while `Close` cleans up:
which session `UNWATCH`, `DISCARD` and the rest lead to, and that the sentinel is the last reply that
comes, or that an error will come first. `Owed` counts, and `Latest` says that the last reply on its way
is the one `Do` waits for.

### The worker pool

`WorkerPoolProofs` proves, for any connections, any finite set of channels, any limit and both
capacities:

| Theorem | States |
|---|---|
| `WorkerPoolTypes` | `Spec => []TypeOK` |
| `WorkersAreCounted` | `Spec => []WorkersCounted` |
| `RecycledChansAreEmpty` | `Spec => []RecycledChanIsEmpty` |
| `IdleWorkersHaveOneSender` | `Spec => []OneSenderPerIdleWorker` |
| `ConnsAreAtOnePlace` | `Spec => []ConnAtOnePlace` |

Its inductive invariant `IInv` says list by list what `OneSenderPerIdleWorker` says of their
concatenation (`AppointedInv`), and with quantifiers what `ConnAtOnePlace` says with cardinalities
(`PlacesInv`), so that a step is set arithmetic: the lemmas `OnceHeadTail`, `OnceSplit`, `OnceLast`
and `OnceAppend` tell what taking from a list without repetition leaves. `HandInv` ties the local
variables of `Serve` and `clean` to their places, and `ChannelsInv` says that only a worker at its
receive has something on its channel: a recycled channel is empty, and a worker that is released
becomes idle. The two properties follow in the end by `OnceConcat` and by counting sets with at
most one member.

### Clients

`ClientCallsProofs` proves, for any number of goroutines, connections, cleaners, callers and dials and
any limits:

| Theorem | States |
|---|---|
| `HostTypes` | `Spec => []TypeOK` of `HostClient` |
| `HostCountExact` | `Spec => []CountExact` |
| `HostImplementsLease` | `Spec => ImplementsLease` |
| `DialerBooks` | `Spec => []DialerKeepsItsBooks` |
| `CallAnswersAreOwn` | `Spec => []AnswersAreOwn` |
| `CallPenaltiesAreOwed` | `Spec => []PenaltiesAreOwed` |
| `ClientMapsHaveCleaners` | `HostsSpec => []EachMapHasItsCleaner` |

`Spec` is that of `ClientCalls`, so that the first three hold with a dialer and callers around the
`HostClient`. A lemma says that each step of the whole is one of the `HostClient` or leaves it alone, and
likewise for the dialer. `HostInv` says that a connection is with one call, in the pool or on the list of
one cleaner (`Hands`, `Sweeping`, `Apart`) and counts them all (`CountExact`), also while a cleaner is
between counting out and closing. The refinement knows the owner of each connection by its place
(`OwnerFacts`): a step that leaves a connection at its place leaves its owner, and each action moves one
at most, except the scan of the cleaner, which moves a list that stays with the pool. `DialInv` ties each
channel to one dial and each slot to one goroutine. In `CallInv`, `Jobs` says which goroutine answers
which caller, also after the caller timed out, so that a kit is in the pool only when nobody will touch
it; `PenaltiesAreOwed` is inductive together with the types.

### The pipelined connection

`PipelineClientProofs` proves, for any callers, more works than callers, any queue and any numbers of
calls and faults:

| Theorem | States |
|---|---|
| `PipelineTypes` | `Spec => []TypeOK` |
| `PipelineAnswersMatch` | `Spec => []AnswersMatch` |
| `PipelineWorksAreKept` | `Spec => []EachWorkIsSomewhere` |

That a response goes to its request is a fact about order. `Aligned` says it: while the connection is
used, the works that wait (the reader's, those of `chR`, the one the writer is about to put there) and
the requests the server has or will have (`out`, then what is buffered) are in the same order. It needs
`Phases` (which of worker, writer and reader run when), `Apart` (no work is in two places), `Kept` (where
a work is in its life, put back only when nobody has it) and `Owned` (each call has a work of its own).

### Connections served

`ServerProofs` proves, for finite sets of connections, contexts and per-IP wrappers and any settings:

| Theorem | States |
|---|---|
| `ServerTypes` | `Spec => []TypeOK` |
| `ServerContextsApart` | `Spec => []ContextsApart` |
| `ServerLimitsKept` | `Spec => []LimitsKept` |
| `ServerAnswersInOrder` | `Spec => []AnswersInOrder` |

`CtxInv` says which place has a context (`Hands`), who has its reader (`Readers`), and in what condition
contexts are in the pool, in use, and left to a handler that is late (`Conditions`). `LimitInv` equates
each counter with the number of connections at the places where it counts them (`Counts`), and gives each
registered connection a wrapper of its own (`Wrapped`). The code makes a wrapper when its pool is empty;
the model has at least as many as connections, and that one is free when it is needed is a lemma, by
counting.

`AnswersInOrder` compares what was said with what was asked. Its invariant `OrderInv` says at every place of
`serveConn` which request is next, in three independent counts: the number of the last thing said (`Position`,
with `Follows` for two neighbours and a 100 that its answer follows), the units that the parser has taken
(`Units`), and the request that the context holds (`Asked`). `AnswersInOrder` alone is not inductive: that
an answer bears the number of its request needs the units to stand behind that request, and that it is
made of its own handler's work needs the context to hold that request, also after a timeout has replaced the
context. Both rest on `IInv`, by which nobody else writes to a context in use. The only assumption added
is that the value for "no request" is not a request.

### Files

`FileServerProofs` proves, for finitely many goroutines, any requests, lengths and settings:

| Theorem | States |
|---|---|
| `FileServerTypes` | `Spec => []TypeOK` |
| `FileReadersAreCounted` | `Spec => []ReadersAreCounted` |
| `FilesAreKept` | `Spec => []NothingForgotten` |
| `FileBodiesAreWhatWasAsked` | `Spec => []BodiesAreWhatWasAsked` |

`Books` is about files: a new one is known to its maker only (`Hands`); caches, pending and releasing
files are apart and hold exactly the other open ones (`Lists`); `readersCount` is the number of requests
that read it, and who reads a file finds it in a cache or pending, so that the cleaner never closes it
(`Counts`). `Bodies` is about readers: one that waits for its next use begins at the beginning and is of
the encoding of its file (`ReadersWait`, the reason why `Rewound` matters), and a body is the piece that
was asked of the version of its reader (`HasRead`). The arithmetic of ranges, from the header to what
`UpdateByteRange` and the `LimitedReader` make of it, is `SentIsAsked`.

### The query builder

`DbModelProofs` proves, for any columns, tables, conditions and structs with finitely many keys:

| Theorem | States |
|---|---|
| `DbModelTypes` | `Spec => []TypeOK` |
| `DbModelCarriesNothing` | `Spec => []NothingCarriedOver` |
| `DbModelArgsFit` | `Alone => (Spec => []ArgsFitPlaceholders)` |
| `DbModelUpdatesByKeys` | `Alone => (Spec => []UpdateBindsItsColumns)` |

The first two hold for any number of goroutines that share the builder, the others for one (`Alone`): two
callers of `D` get the same `DbModel`, and the findings show what they can do to each other.
`MatchInv` says of the fields, at every moment outside of a statement, what the properties say of the
statement: the condition that is left has as many placeholders as `Param` has arguments, each the value of its
column or the empty value of `SetPK`, and between the guard of `Delete` and its statement the values given
are as many as the keys. That it must hold after calls that failed, too, is what makes it worth proving: a
`Save` that panics leaves the condition it has made. `FindByPK` and `Delete` keep only the number, as they
pair values with keys in the order of a map.

### What the theorems cover

These state properties that runs check: `PoolLosesNoWakeup`, `PoolImplementsLease` (`redis_pool`);
`PooledConnCleanInPool`, `PooledConnDoGetsItsReply` (`pooled_conn`); `IdleWorkersHaveOneSender`
(`worker_pool`); `ServerAnswersInOrder`, `ServerContextsApart`, `ServerLimitsKept` (`server`); `HostImplementsLease`, `DialerBooks`,
`CallAnswersAreOwn`, `CallPenaltiesAreOwed`, `ClientMapsHaveCleaners` (`host_client`); `PipelineAnswersMatch`
(`pipeline_client`); `FileReadersAreCounted`, `FileBodiesAreWhatWasAsked` (`file_server`);
`DbModelArgsFit`, `DbModelCarriesNothing` (`db_model`). The others state
invariants that hold on the same instances and that these rest on. `PooledConnProofs` is about `PooledConn`
by itself; the run extends it with the calls of `RedisCalls`; likewise `DbModelProofs` about `DbModel`, which
the run uses as part of `Startup`.

Checked by TLC only:

- Liveness: the provers have no backend for ENABLED and fairness.
- `CallsTellTheTruth`, the properties of `mysql_conn` and `application`, and those of `Startup`: their
  modules compute with recursive operators (`RedisReply`, `RedisCalls`, `MysqlConn`, `Router`, `Config`,
  `Dsn`), which the provers do not accept.
- The HTTP messages, which are folds over tokens: what they compute for every input is an induction.

## Not modelled

- `publish` and `subscribe` of redigo (`pubsub.go`), `DialURL`, arrays inside arrays: conversions of
  one reply, or used by nothing in the repository.
- The choice of a connection in `PipelineClient.getConnClient`: small, and its connections are modelled.
- Directory listings, the scanning of bytes in headers, URIs and arguments, percent encoding, dates:
  sequential conversions with tests of their own.
- In-memory connections (`fasthttputil`), `reuseport`, `fasthttpadaptor`, `expvarhandler`, TLS:
  interfaces to the standard library and the kernel.
- `redisx.ConnMux`, `bytebufferpool`, `stackless`: not on the path of any other modelled component.
- Compression and `klauspost`: pure functions over bytes, vendored. What is modelled of them is who
  compresses what and which length is announced.
- Password scrambling of the mysql driver.
- Text, log, encryption and validation helpers of the framework: stateless.

## Plan

1. `RedisModel`: that `getConn` and its callers return what they take, as a theorem beside the run that
   shows that `Do` does not.
2. `ConnMux` and the in-memory pipes as modules.
