----------------------------- MODULE WorkerPool -----------------------------
(* The accept loop of router/fasthttp/server.go (Serve) and the pool of worker *)
(* goroutines it hands connections to, workerpool.go.                          *)
(*                                                                             *)
(* A worker lives with its workerChan ch, which returns to workerChanPool when *)
(* the worker has ended and may then carry the next one: wpc[ch] is where the  *)
(* worker of ch is, "free" when there is none. A step is the code from one     *)
(* acquisition of wp.lock to its release, one channel operation, or one call;  *)
(* only Stop holds wp.lock across channel operations. Time is not kept: how    *)
(* many idle workers are overdue is decided when clean looks. The limit per IP *)
(* of acceptConn is the module Server.                                     *)
EXTENDS Integers, Sequences, FiniteSets

CONSTANTS
    Conns,              \* the connections the listener accepts
    Chans,              \* the identities of workerChans
    MaxWorkersCount,
    Caps,               \* the values workerChanCap may have
    Nil,                \* the nil that tells a worker to stop
    Empty               \* nothing is in the channel

ASSUME MaxAssumption == MaxWorkersCount \in Nat
ASSUME CapsAssumption == Caps \subseteq {0, 1}
ASSUME MessagesAssumption == Nil \notin Conns /\ Empty \notin Conns \cup {Nil}
ASSUME ChansAssumption == IsFiniteSet(Chans)

VARIABLES
    cap,                \* workerChanCap, 0 under GOMAXPROCS=1
    workersCount, mustStop, ready,
    stopCh,             \* wp.stopCh was closed
    buf,                \* what was sent on ch.ch and not received yet
    wpc, job,           \* of each worker: where it is, the connection it serves
    spc, hand, target,  \* Serve: where it is, its connection, the workerChan it got
    cpc, scratch,       \* the goroutine of Start: where it is, whom it has to stop
    fate                \* of each connection

serving == <<spc, hand, target>>
cleaning == <<cpc, scratch>>
vars == <<cap, workersCount, mustStop, ready, stopCh, buf, wpc, job, serving, cleaning, fate>>

\* The places of a worker that workersCount counts.
Live == {"recv", "serve", "release", "exit"}

TypeOK ==
    /\ cap \in Caps
    /\ workersCount \in Int
    /\ mustStop \in BOOLEAN
    /\ ready \in Seq(Chans)
    /\ stopCh \in BOOLEAN
    /\ buf \in [Chans -> Conns \cup {Nil, Empty}]
    /\ wpc \in [Chans -> Live \cup {"put", "free"}]
    /\ job \in [Chans -> Conns \cup {Nil}]
    /\ spc \in {"accept", "getCh", "spawn", "send", "stop", "stopping", "done"}
    /\ hand \in Conns \cup {Nil}
    /\ target \in Chans \cup {Nil}
    /\ cpc \in {"clean", "notify", "ended"}
    /\ scratch \in Seq(Chans)
    /\ fate \in [Conns -> {"new", "accepted", "sent", "serving", "closed", "hijacked"}]

Init ==
    /\ cap \in Caps
    /\ workersCount = 0
    /\ mustStop = FALSE
    /\ ready = <<>>
    /\ stopCh = FALSE
    /\ buf = [ch \in Chans |-> Empty]
    /\ wpc = [ch \in Chans |-> "free"]
    /\ job = [ch \in Chans |-> Nil]
    /\ spc = "accept" /\ hand = Nil /\ target = Nil
    /\ cpc = "clean" /\ scratch = <<>>
    /\ fate = [c \in Conns |-> "new"]

Unlocked == spc # "stopping"

\* ch.ch <- m : an unbuffered channel needs a receiver, a buffered one room.
Send(ch, m) ==
    /\ buf[ch] = Empty
    /\ cap = 0 => wpc[ch] = "recv"
    /\ buf' = [buf EXCEPT ![ch] = m]

-----------------------------------------------------------------------------
(* Server.Serve *)

Accept ==
    /\ spc = "accept"
    /\ \E c \in Conns :
          /\ fate[c] = "new"
          /\ hand' = c
          /\ fate' = [fate EXCEPT ![c] = "accepted"]
    /\ spc' = "getCh"
    /\ UNCHANGED <<cap, workersCount, mustStop, ready, stopCh, buf, wpc, job, target, cleaning>>

\* getCh: the worker that became idle last serves the connection.
PopReady ==
    /\ spc = "getCh"
    /\ ready # <<>>
    /\ target' = ready[Len(ready)]
    /\ ready' = SubSeq(ready, 1, Len(ready) - 1)
    /\ spc' = "send"
    /\ UNCHANGED <<cap, workersCount, mustStop, stopCh, buf, wpc, job, hand, cleaning, fate>>

CountWorker ==
    /\ spc = "getCh"
    /\ ready = <<>>
    /\ workersCount < MaxWorkersCount
    /\ workersCount' = workersCount + 1
    /\ spc' = "spawn"
    /\ UNCHANGED <<cap, mustStop, ready, stopCh, buf, wpc, job, hand, target, cleaning, fate>>

\* workerChanPool.Get, or a new workerChan, and go workerFunc. ch is written
\* only by workerFunc and its senders, so a pooled one comes as it was left.
Spawn ==
    /\ spc = "spawn"
    /\ \E ch \in Chans :
          /\ wpc[ch] = "free"
          /\ wpc' = [wpc EXCEPT ![ch] = "recv"]
          /\ target' = ch
    /\ spc' = "send"
    /\ UNCHANGED <<cap, workersCount, mustStop, ready, stopCh, buf, job, hand, cleaning, fate>>

\* No worker may be added: an error response, and the connection is closed.
Refuse ==
    /\ spc = "getCh"
    /\ ready = <<>>
    /\ workersCount >= MaxWorkersCount
    /\ fate' = [fate EXCEPT ![hand] = "closed"]
    /\ hand' = Nil
    /\ spc' = "accept"
    /\ UNCHANGED <<cap, workersCount, mustStop, ready, stopCh, buf, wpc, job, target, cleaning>>

SendConn ==
    /\ spc = "send"
    /\ Send(target, hand)
    /\ fate' = [fate EXCEPT ![hand] = "sent"]
    /\ hand' = Nil /\ target' = Nil
    /\ spc' = "accept"
    /\ UNCHANGED <<cap, workersCount, mustStop, ready, stopCh, wpc, job, cleaning>>

\* A permanent error of Accept: wp.Stop closes stopCh, then locks.
AcceptFails ==
    /\ spc = "accept"
    /\ stopCh' = TRUE
    /\ spc' = "stop"
    /\ UNCHANGED <<cap, workersCount, mustStop, ready, buf, wpc, job, hand, target, cleaning, fate>>

StopLocks ==
    /\ spc = "stop"
    /\ spc' = "stopping"
    /\ UNCHANGED <<cap, workersCount, mustStop, ready, stopCh, buf, wpc, job, hand, target, cleaning, fate>>

StopSends ==
    /\ spc = "stopping"
    /\ ready # <<>>
    /\ Send(Head(ready), Nil)
    /\ ready' = Tail(ready)
    /\ UNCHANGED <<cap, workersCount, mustStop, stopCh, wpc, job, serving, cleaning, fate>>

\* Mutant: Stop does not set mustStop.
StopUnlocksOnly ==
    /\ spc = "stopping"
    /\ ready = <<>>
    /\ spc' = "done"
    /\ UNCHANGED <<cap, workersCount, mustStop, ready, stopCh, buf, wpc, job, hand, target, cleaning, fate>>

StopUnlocks ==
    /\ spc = "stopping"
    /\ ready = <<>>
    /\ mustStop' = TRUE
    /\ spc' = "done"
    /\ UNCHANGED <<cap, workersCount, ready, stopCh, buf, wpc, job, hand, target, cleaning, fate>>

-----------------------------------------------------------------------------
(* workerFunc and release *)

ReceiveConn(ch) ==
    /\ wpc[ch] = "recv"
    /\ buf[ch] \in Conns
    /\ job' = [job EXCEPT ![ch] = buf[ch]]
    /\ fate' = [fate EXCEPT ![buf[ch]] = "serving"]
    /\ buf' = [buf EXCEPT ![ch] = Empty]
    /\ wpc' = [wpc EXCEPT ![ch] = "serve"]
    /\ UNCHANGED <<cap, workersCount, mustStop, ready, stopCh, serving, cleaning>>

ReceiveStop(ch) ==
    /\ wpc[ch] = "recv"
    /\ buf[ch] = Nil
    /\ buf' = [buf EXCEPT ![ch] = Empty]
    /\ wpc' = [wpc EXCEPT ![ch] = "exit"]
    /\ UNCHANGED <<cap, workersCount, mustStop, ready, stopCh, job, serving, cleaning, fate>>

\* WorkerFunc returns; the worker closes the connection unless it was hijacked.
ServeReturns(ch) ==
    /\ wpc[ch] = "serve"
    /\ \E end \in {"closed", "hijacked"} : fate' = [fate EXCEPT ![job[ch]] = end]
    /\ job' = [job EXCEPT ![ch] = Nil]
    /\ wpc' = [wpc EXCEPT ![ch] = "release"]
    /\ UNCHANGED <<cap, workersCount, mustStop, ready, stopCh, buf, serving, cleaning>>

ReleaseToReady(ch) ==
    /\ wpc[ch] = "release"
    /\ Unlocked
    /\ ~mustStop
    /\ ready' = Append(ready, ch)
    /\ wpc' = [wpc EXCEPT ![ch] = "recv"]
    /\ UNCHANGED <<cap, workersCount, mustStop, stopCh, buf, job, serving, cleaning, fate>>

ReleaseStops(ch) ==
    /\ wpc[ch] = "release"
    /\ Unlocked
    /\ mustStop
    /\ wpc' = [wpc EXCEPT ![ch] = "exit"]
    /\ UNCHANGED <<cap, workersCount, mustStop, ready, stopCh, buf, job, serving, cleaning, fate>>

Exit(ch) ==
    /\ wpc[ch] = "exit"
    /\ Unlocked
    /\ workersCount' = workersCount - 1
    /\ wpc' = [wpc EXCEPT ![ch] = "put"]
    /\ UNCHANGED <<cap, mustStop, ready, stopCh, buf, job, serving, cleaning, fate>>

\* workerChanPool.Put
PutChan(ch) ==
    /\ wpc[ch] = "put"
    /\ wpc' = [wpc EXCEPT ![ch] = "free"]
    /\ UNCHANGED <<cap, workersCount, mustStop, ready, stopCh, buf, job, serving, cleaning, fate>>

-----------------------------------------------------------------------------
(* The goroutine of Start: clean, and sleep until the next time *)

\* Mutant: the overdue workers stay in wp.ready.
CleanLeavesReady ==
    /\ cpc = "clean"
    /\ Unlocked
    /\ \E n \in 0..Len(ready) : scratch' = SubSeq(ready, 1, n)
    /\ cpc' = "notify"
    /\ UNCHANGED <<cap, workersCount, mustStop, ready, stopCh, buf, wpc, job, serving, fate>>

Clean ==
    /\ cpc = "clean"
    /\ Unlocked
    /\ \E n \in 0..Len(ready) :     \* the first n have been idle for too long
          /\ scratch' = SubSeq(ready, 1, n)
          /\ ready' = SubSeq(ready, n + 1, Len(ready))
    /\ cpc' = "notify"
    /\ UNCHANGED <<cap, workersCount, mustStop, stopCh, buf, wpc, job, serving, fate>>

Notify ==
    /\ cpc = "notify"
    /\ scratch # <<>>
    /\ Send(Head(scratch), Nil)
    /\ scratch' = Tail(scratch)
    /\ UNCHANGED <<cap, workersCount, mustStop, ready, stopCh, wpc, job, serving, cpc, fate>>

CleanDone ==
    /\ cpc = "notify"
    /\ scratch = <<>>
    /\ cpc' = IF stopCh THEN "ended" ELSE "clean"
    /\ UNCHANGED <<cap, workersCount, mustStop, ready, stopCh, buf, wpc, job, serving, scratch, fate>>

-----------------------------------------------------------------------------
Worker(ch) ==
    \/ ReceiveConn(ch) \/ ReceiveStop(ch) \/ ServeReturns(ch)
    \/ ReleaseToReady(ch) \/ ReleaseStops(ch) \/ Exit(ch) \/ PutChan(ch)

\* What Serve does once it has a connection or the listener has failed.
Serve ==
    \/ PopReady \/ CountWorker \/ Spawn \/ Refuse \/ SendConn
    \/ StopLocks \/ StopSends \/ StopUnlocks

Cleaner == Clean \/ Notify \/ CleanDone

Next ==
    \/ Accept \/ AcceptFails
    \/ Serve
    \/ \E ch \in Chans : Worker(ch)
    \/ Cleaner

Spec == Init /\ [][Next]_vars

\* Goroutines are scheduled and WorkerFunc returns; nobody has to connect, and
\* the listener may work for ever. wp.lock is held for long only once, by Stop.
FairSpec ==
    /\ Spec
    /\ WF_vars(Serve)
    /\ \A ch \in Chans : WF_vars(Worker(ch))
    /\ WF_vars(Cleaner)

-----------------------------------------------------------------------------
(* Safety *)

LiveWorkers == {ch \in Chans : wpc[ch] \in Live}

\* workersCount is the number of workers running and about to run, through every
\* way a worker ends, and it never passes MaxWorkersCount: Server.Concurrency.
WorkersCounted ==
    /\ workersCount = Cardinality(LiveWorkers) + (IF spc = "spawn" THEN 1 ELSE 0)
    /\ workersCount <= MaxWorkersCount

\* The channels somebody is going to send on: getCh, Stop, clean.
Appointed == ready \o scratch \o (IF spc = "send" THEN <<target>> ELSE <<>>)

\* Exactly one sender will come to each worker that waits with nothing sent to
\* it, and to no other: no idle worker is forgotten, none is told to stop and
\* given a connection, and on a buffered channel no send ever blocks.
OneSenderPerIdleWorker ==
    /\ \A i, j \in 1..Len(Appointed) : Appointed[i] = Appointed[j] => i = j
    /\ {Appointed[i] : i \in 1..Len(Appointed)} =
          {ch \in Chans : wpc[ch] = "recv" /\ buf[ch] = Empty}

\* Every accepted connection is at one place: with the acceptor, on one channel,
\* with one worker, or finished; so it is served once and closed once.
ConnAtOnePlace ==
    \A c \in Conns :
        /\ fate[c] = "accepted" <=> hand = c
        /\ Cardinality({ch \in Chans : buf[ch] = c}) = (IF fate[c] = "sent" THEN 1 ELSE 0)
        /\ Cardinality({ch \in Chans : job[ch] = c}) = (IF fate[c] = "serving" THEN 1 ELSE 0)

\* A workerChan that left its worker carries nothing: neither a connection that
\* nobody would serve nor a nil that would stop the next worker it is given to.
RecycledChanIsEmpty ==
    \A ch \in Chans : wpc[ch] \in {"exit", "put", "free"} => buf[ch] = Empty

-----------------------------------------------------------------------------
(* Liveness *)

\* Every accepted connection is answered and let go of.
AcceptedIsAnswered ==
    \A c \in Conns : fate[c] = "accepted" ~> fate[c] \in {"closed", "hijacked"}

\* "Do not wait for busy workers - they will stop after serving the connection":
\* after Stop every worker ends, the idle, the busy and those clean had taken
\* from the list, and so does the goroutine of Start.
StopEndsWorkers ==
    stopCh ~> workersCount = 0 /\ (\A ch \in Chans : wpc[ch] = "free") /\ cpc = "ended"
=============================================================================
