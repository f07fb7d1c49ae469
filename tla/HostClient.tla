----------------------------- MODULE HostClient -----------------------------
(* HostClient of router/fasthttp/client.go: the connections it keeps to one    *)
(* host, the goroutine that closes idle ones, and Do with its retries.         *)
(*                                                                             *)
(* rpc[r] is where the goroutine r is in Do, which it may call again and       *)
(* again; the Do of a DoDeadline whose caller has given up is one like the     *)
(* others. A step is the code up to the next c.connsLock section or call to    *)
(* the network. Time is not kept. ReadTimeout is set; WriteTimeout, whose      *)
(* stamps are handled like those of ReadTimeout, is left out, and so are       *)
(* lastUseTime, which only Client reads. TCPDialer refines the dial, and       *)
(* ClientCalls puts the calls with deadlines and LBClient on top.              *)
EXTENDS Integers, Sequences, SequencesExt

CONSTANTS
    Threads,            \* the goroutines that call Do
    Idempotent,         \* those whose requests are GET, HEAD or PUT
    Wrappers,           \* the identities of clientConns, numbers
    Cleaners,           \* the identities of goroutines running connsCleaner, too
    MaxConns,
    MaxAttempts,        \* maxAttempts of Do, 5 in the code
    Nil

ASSUME IdempotentAssumption == Idempotent \subseteq Threads
ASSUME FiniteAssumption == IsFiniteSet(Threads) /\ IsFiniteSet(Wrappers) /\ IsFiniteSet(Cleaners)
ASSUME MaxAssumption == MaxConns \in Nat \ {0} /\ MaxAttempts \in Nat \ {0}
ASSUME NumberAssumption == Wrappers \cup Cleaners \subseteq Nat
ASSUME NilAssumption == Nil \notin Threads \cup Wrappers

\* A goroutine is none of the other owners of ConnLease.
ASSUME OwnersAssumption == Threads \cap {"none", "pool", "dying"} = {}

VARIABLES
    connsCount, conns, connsCleanerRun,
    stamped,            \* the clientConns whose lastReadDeadlineTime is not zero
    armed,              \* those whose socket has a read deadline
    rpc, cc, attempts,  \* of each Do: its place and its variables
    kpc, scratch,       \* of each cleaner: its place, what it has to close
    seen                \* how many of conns were idle when it slept, and still are

pool == <<connsCount, conns, connsCleanerRun>>
wrappers == <<stamped, armed>>
doing == <<rpc, cc, attempts>>
cleaning == <<kpc, scratch, seen>>
vars == <<pool, wrappers, doing, cleaning>>

Places == {"idle", "acquire", "spawn", "dial", "write", "read", "close", "retry"}

TypeOK ==
    /\ connsCount \in 0..MaxConns
    /\ conns \in Seq(Wrappers)
    /\ connsCleanerRun \in BOOLEAN
    /\ armed \subseteq stamped /\ stamped \subseteq Wrappers
    /\ rpc \in [Threads -> Places]
    /\ cc \in [Threads -> Wrappers \cup {Nil}]
    /\ attempts \in [Threads -> 0..MaxAttempts]
    /\ kpc \in [Cleaners -> {"free", "scan", "sweep", "close"}]
    /\ scratch \in [Cleaners -> Seq(Wrappers)]
    /\ seen \in [Cleaners -> Nat]

Init ==
    /\ connsCount = 0 /\ conns = <<>> /\ connsCleanerRun = FALSE
    /\ stamped = {} /\ armed = {}
    /\ rpc = [r \in Threads |-> "idle"] /\ cc = [r \in Threads |-> Nil]
    /\ attempts = [r \in Threads |-> 0]
    /\ kpc = [k \in Cleaners |-> "free"] /\ scratch = [k \in Cleaners |-> <<>>]
    /\ seen = [k \in Cleaners |-> 0]

Go(r, place) == rpc' = [rpc EXCEPT ![r] = place]

Return(r) ==
    /\ Go(r, "idle")
    /\ attempts' = [attempts EXCEPT ![r] = 0]

-----------------------------------------------------------------------------
(* Do: acquireConn *)

Begin(r) ==
    /\ rpc[r] = "idle"
    /\ Go(r, "acquire")
    /\ UNCHANGED <<pool, wrappers, cc, attempts, cleaning>>

\* The connection that was used last is taken first.
AcquireIdle(r) ==
    /\ rpc[r] = "acquire"
    /\ conns # <<>>
    /\ cc' = [cc EXCEPT ![r] = Last(conns)]
    /\ conns' = Front(conns)
    /\ seen' = [k \in Cleaners |-> IF seen[k] = Len(conns) THEN seen[k] - 1 ELSE seen[k]]
    /\ Go(r, "write")
    /\ UNCHANGED <<connsCount, connsCleanerRun, wrappers, attempts, kpc, scratch>>

AcquireNew(r) ==
    /\ rpc[r] = "acquire"
    /\ conns = <<>>
    /\ connsCount < MaxConns
    /\ connsCount' = connsCount + 1
    /\ connsCleanerRun' = TRUE
    /\ Go(r, IF connsCleanerRun THEN "dial" ELSE "spawn")
    /\ UNCHANGED <<conns, wrappers, cc, attempts, cleaning>>

\* ErrNoFreeConns: nobody waits for a connection.
AcquireNone(r) ==
    /\ rpc[r] = "acquire"
    /\ conns = <<>>
    /\ connsCount >= MaxConns
    /\ Return(r)
    /\ UNCHANGED <<pool, wrappers, cc, cleaning>>

SpawnCleaner(r) ==
    /\ rpc[r] = "spawn"
    /\ \E k \in Cleaners :
          /\ kpc[k] = "free"
          /\ \A j \in Cleaners : kpc[j] = "free" => k <= j
          /\ kpc' = [kpc EXCEPT ![k] = "scan"]
          /\ seen' = [seen EXCEPT ![k] = 0]
    /\ Go(r, "dial")
    /\ UNCHANGED <<pool, wrappers, cc, attempts, scratch>>

Free(w) ==
    /\ \A r \in Threads : cc[r] # w
    /\ w \notin ToSet(conns)
    /\ \A k \in Cleaners : w \notin ToSet(scratch[k])

\* Free ones with the same stamp are alike: of those the first is taken.
Pooled(w) ==
    /\ Free(w)
    /\ \A v \in Wrappers : Free(v) /\ (v \in stamped <=> w \in stamped) => w <= v

\* dialHostHard and acquireClientConn: a clientConn from clientConnPool keeps
\* the stamp its last connection left; the new socket has no deadline.
Dial(r) ==
    /\ rpc[r] = "dial"
    /\ \E w \in Wrappers :
          /\ Pooled(w)
          /\ cc' = [cc EXCEPT ![r] = w]
    /\ Go(r, "write")
    /\ UNCHANGED <<pool, wrappers, attempts, cleaning>>

DialFails(r) ==
    /\ rpc[r] = "dial"
    /\ connsCount' = connsCount - 1
    /\ Return(r)
    /\ UNCHANGED <<conns, connsCleanerRun, wrappers, cc, cleaning>>

-----------------------------------------------------------------------------
(* Do: the use of a connection *)

\* The request is written, and the read deadline set: always with a stamp of
\* zero, otherwise only when a quarter of ReadTimeout has passed since it.
WriteRequest(r) ==
    /\ rpc[r] = "write"
    /\ \/ /\ stamped' = stamped \cup {cc[r]}
          /\ armed' = armed \cup {cc[r]}
       \/ /\ cc[r] \in stamped
          /\ UNCHANGED wrappers
    /\ Go(r, "read")
    /\ UNCHANGED <<pool, cc, attempts, cleaning>>

\* Mutant: the attempts are not counted.
DiscardUncounted(r, retry) ==
    /\ connsCount' = connsCount - 1
    /\ Go(r, IF retry THEN "retry" ELSE "close")
    /\ UNCHANGED <<conns, connsCleanerRun, wrappers, cc, attempts, cleaning>>

\* The first half of closeConn: the count is down while the socket is open.
\* After the second half Do tries again, at most maxAttempts times in all.
Discard(r, retry) ==
    /\ connsCount' = connsCount - 1
    /\ attempts' = [attempts EXCEPT ![r] = IF retry THEN @ + 1 ELSE @]
    /\ Go(r, IF retry /\ attempts'[r] < MaxAttempts THEN "retry" ELSE "close")
    /\ UNCHANGED <<conns, connsCleanerRun, wrappers, cc, cleaning>>

\* A deadline could not be set, or the request not be written.
WriteFails(r) == rpc[r] = "write" /\ Discard(r, r \in Idempotent)

\* The server closed before it answered, or the answer could not be read. A
\* request that is not idempotent is repeated only in the first case.
ReadFails(r) == rpc[r] = "read" /\ \E eof \in BOOLEAN : Discard(r, r \in Idempotent \/ eof)

\* MaxConnDuration is over, or one side asked for "Connection: close".
ReadThenClose(r) == rpc[r] = "read" /\ Discard(r, FALSE)

\* releaseConn
ReadThenKeep(r) ==
    /\ rpc[r] = "read"
    /\ conns' = Append(conns, cc[r])
    /\ cc' = [cc EXCEPT ![r] = Nil]
    /\ Return(r)
    /\ UNCHANGED <<connsCount, connsCleanerRun, wrappers, cleaning>>

\* The rest of closeConn: the socket is closed, and the clientConn pooled.
CloseConn(r) ==
    /\ rpc[r] \in {"close", "retry"}
    /\ cc' = [cc EXCEPT ![r] = Nil]
    /\ armed' = armed \ {cc[r]}
    /\ IF rpc[r] = "retry" THEN Go(r, "acquire") /\ UNCHANGED attempts ELSE Return(r)
    /\ UNCHANGED <<pool, stamped, cleaning>>

-----------------------------------------------------------------------------
(* connsCleaner *)

\* Mutant: the connections to be closed stay in c.conns.
ScanOnly(k) ==
    /\ kpc[k] = "scan"
    /\ \E n \in seen[k]..Len(conns) : scratch' = [scratch EXCEPT ![k] = SubSeq(conns, 1, n)]
    /\ kpc' = [kpc EXCEPT ![k] = "sweep"]
    /\ UNCHANGED <<pool, wrappers, doing, seen>>

\* The first n are overdue, among them those that were idle at the last scan.
Scan(k) ==
    /\ kpc[k] = "scan"
    /\ \E n \in seen[k]..Len(conns) :
          /\ scratch' = [scratch EXCEPT ![k] = SubSeq(conns, 1, n)]
          /\ conns' = SubSeq(conns, n + 1, Len(conns))
          /\ seen' = [seen EXCEPT ![k] = Len(conns) - n]
    /\ kpc' = [kpc EXCEPT ![k] = "sweep"]
    /\ UNCHANGED <<connsCount, connsCleanerRun, wrappers, doing>>

SweepCount(k) ==
    /\ kpc[k] = "sweep"
    /\ scratch[k] # <<>>
    /\ connsCount' = connsCount - 1
    /\ kpc' = [kpc EXCEPT ![k] = "close"]
    /\ UNCHANGED <<conns, connsCleanerRun, wrappers, doing, scratch, seen>>

SweepClose(k) ==
    /\ kpc[k] = "close"
    /\ scratch' = [scratch EXCEPT ![k] = Tail(@)]
    /\ armed' = armed \ {Head(scratch[k])}
    /\ kpc' = [kpc EXCEPT ![k] = "sweep"]
    /\ UNCHANGED <<pool, stamped, doing, seen>>

Swept(k) == kpc[k] = "sweep" /\ scratch[k] = <<>>

\* Mutant: the cleaner stops when nothing is idle.
StopEarly(k) ==
    /\ Swept(k)
    /\ conns = <<>>
    /\ connsCleanerRun' = FALSE
    /\ kpc' = [kpc EXCEPT ![k] = "free"]
    /\ UNCHANGED <<connsCount, conns, wrappers, doing, scratch, seen>>

Stop(k) ==
    /\ Swept(k)
    /\ connsCount = 0
    /\ connsCleanerRun' = FALSE
    /\ kpc' = [kpc EXCEPT ![k] = "free"]
    /\ UNCHANGED <<connsCount, conns, wrappers, doing, scratch, seen>>

Sleep(k) ==
    /\ Swept(k)
    /\ connsCount # 0
    /\ kpc' = [kpc EXCEPT ![k] = "scan"]
    /\ UNCHANGED <<pool, wrappers, doing, scratch, seen>>

-----------------------------------------------------------------------------
(* A call of Do but for the dial and the answer, and the cleaner.              *)

Working(r) ==
    \/ AcquireIdle(r) \/ AcquireNew(r) \/ AcquireNone(r) \/ SpawnCleaner(r)
    \/ WriteRequest(r) \/ CloseConn(r)

Cleaner(k) == Scan(k) \/ SweepCount(k) \/ SweepClose(k) \/ Stop(k) \/ Sleep(k)

-----------------------------------------------------------------------------
(* Safety *)

At(places) == {r \in Threads : rpc[r] \in places}

\* The connections a cleaner has taken out and not yet subtracted.
Unswept(k) == ToSet(IF kpc[k] = "close" THEN Tail(scratch[k]) ELSE scratch[k])

Live ==
    {cc[r] : r \in At({"write", "read"})} \cup ToSet(conns) \cup UNION {Unswept(k) : k \in Cleaners}

\* connsCount is the number of connections idle, in use, about to be swept or
\* being dialed, through every way they end: a slot lost in it would be lost to
\* the host for ever.
CountExact == connsCount = Cardinality(Live) + Cardinality(At({"spawn", "dial"}))

\* A response is read under a deadline: "Maximum duration for full response
\* reading (including body)" (client.go:536). It is not, on a clientConn whose
\* last connection was given its deadline a short while ago.
ReadsHaveDeadline == \A r \in Threads : rpc[r] = "read" => cc[r] \in armed

-----------------------------------------------------------------------------
(* The lease of connections: a connection belongs to the call that uses it, to *)
(* the pool while it is idle or waits in the cleaner's list, and is dying once *)
(* connsCount does not count it any more, until it is closed.                  *)

Closing(w) ==
    \/ \E r \in Threads : cc[r] = w /\ rpc[r] \in {"close", "retry"}
    \/ \E k \in Cleaners : kpc[k] = "close" /\ w = Head(scratch[k])

Owner == [w \in Wrappers |->
    IF Closing(w) THEN "dying"
    ELSE IF \E r \in Threads : cc[r] = w THEN CHOOSE r \in Threads : cc[r] = w
    ELSE IF Free(w) THEN "none" ELSE "pool"]

Lease == INSTANCE ConnLease
    WITH Threads <- Threads, Conns <- Wrappers, owner <- Owner, limit <- MaxConns, shut <- FALSE

\* Each connection is created for one call, within MaxConns, used by one call
\* at a time, and closed once: by the call that failed on it or by the cleaner,
\* never while it can be acquired.
ImplementsLease == Lease!LeaseSpec

-----------------------------------------------------------------------------
(* Liveness *)

Resting == \A r \in Threads : rpc[r] = "idle"
Nothing == connsCount = 0 /\ \A w \in Wrappers : Free(w) /\ \A k \in Cleaners : kpc[k] = "free"

\* Every call of Do ends, with an answer or an error, after so many attempts.
\* When the client is no longer used all its connections are closed in the end,
\* and then the cleaner ends: no goroutine and no socket outlives the use.
Quiesces ==
    /\ \A r \in Threads : []<>(rpc[r] = "idle")
    /\ <>[]Resting => <>[]Nothing
=============================================================================
