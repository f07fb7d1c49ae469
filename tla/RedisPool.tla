------------------------------ MODULE RedisPool ------------------------------
(* The connection pool of cache/redigo/redis/pool.go: a list of idle           *)
(* connections, a count of allocated ones, and a condition variable, guarded   *)
(* by one mutex that get() gives up around every Close, TestOnBorrow and Dial. *)
(*                                                                             *)
(* A goroutine is at the place pc[t] of Get or Close; a step is the code from  *)
(* one acquisition or release of p.mu to the next, or a call made unlocked.    *)
(* The time an idle connection has spent in the pool is not kept: whether the  *)
(* oldest one is stale is decided when the code looks.                         *)
EXTENDS Integers, Sequences, FiniteSets

CONSTANTS
    Threads,    \* the goroutines that borrow connections
    Conns,      \* the identities of redis connections
    Configs,    \* the settings a Pool may be built with
    Nobody      \* p.mu is unlocked; no connection

ASSUME NobodyAssumption == Nobody \notin Threads \cup Conns

ASSUME ThreadsAssumption == IsFiniteSet(Threads)

\* A goroutine is none of the other owners of ConnLease.
ASSUME OwnersAssumption == Threads \cap {"none", "pool", "dying"} = {}

ASSUME ConfigAssumption ==
    Configs \subseteq [MaxIdle : Nat, MaxActive : Nat, Wait : BOOLEAN,
                       IdleTimeout : BOOLEAN, TestOnBorrow : BOOLEAN]

VARIABLES
    cfg,        \* the exported fields of the Pool, never written after it is built
    mu,         \* the holder of p.mu
    closed, active, idle,
    waiting,    \* the goroutines parked in p.cond.Wait
    closing,    \* the connections Pool.Close took out and has not closed yet
    open,       \* the connections dialed and not closed
    pc, have,   \* where a goroutine is, and the connection in its hands
    left,       \* what remains of n - i in the loops of get, 0 outside them
    drop        \* put: c.Err() # nil or forceClose, FALSE outside put

vars == <<cfg, mu, closed, active, idle, waiting, closing, open, pc, have, left, drop>>

\* Places of get and put that count as one in p.active.
Counted == {"test", "testClose", "relockScan", "dial", "dialFail", "held", "put"}
\* Places where a connection is already uncounted and only waits for its Close.
Discarding == {"pruneClose", "putClose"}
Places == Counted \cup Discarding \cup
          {"out", "prune", "relockPrune", "scan", "wait", "woken"}
\* Places that run under p.mu.
Locked == {"prune", "scan"}

TypeOK ==
    /\ cfg \in Configs
    /\ mu \in Threads \cup {Nobody}
    /\ closed \in BOOLEAN
    /\ active \in Int
    /\ idle \in Seq(Conns)
    /\ waiting \in SUBSET Threads
    /\ closing \in SUBSET Conns
    /\ open \in SUBSET Conns
    /\ pc \in [Threads -> Places]
    /\ have \in [Threads -> Conns \cup {Nobody}]
    /\ left \in [Threads -> Nat]
    /\ drop \in [Threads -> BOOLEAN]

Init ==
    /\ cfg \in Configs
    /\ mu = Nobody
    /\ closed = FALSE
    /\ active = 0
    /\ idle = <<>>
    /\ waiting = {}
    /\ closing = {}
    /\ open = {}
    /\ pc = [t \in Threads |-> "out"]
    /\ have = [t \in Threads |-> Nobody]
    /\ left = [t \in Threads |-> 0]
    /\ drop = [t \in Threads |-> FALSE]

IdleSet == {idle[i] : i \in 1..Len(idle)}
Oldest == idle[Len(idle)]
ButOldest == SubSeq(idle, 1, Len(idle) - 1)

UnderLimit == cfg.MaxActive = 0 \/ active < cfg.MaxActive

Goto(t, p) ==
    /\ pc' = [pc EXCEPT ![t] = p]
    /\ UNCHANGED waiting

(* t goes to place p and p.cond.Signal() wakes one waiter, if there is any.    *)
Signal(t, p) ==
    IF waiting = {}
    THEN /\ pc' = [pc EXCEPT ![t] = p]
         /\ UNCHANGED waiting
    ELSE \E w \in waiting :
            /\ pc' = [pc EXCEPT ![t] = p, ![w] = "woken"]
            /\ waiting' = waiting \ {w}

(* Pool.release followed by t going to place p. *)
Release(t, p) ==
    /\ active' = active - 1
    /\ Signal(t, p)

Lock(t) == mu = Nobody /\ mu' = t
Unlock(t) == mu = t /\ mu' = Nobody

(* Close of the connection in t's hands, which t lets go of. *)
CloseHeld(t) ==
    /\ open' = open \ {have[t]}
    /\ have' = [have EXCEPT ![t] = Nobody]

-----------------------------------------------------------------------------
(* get: pruning *)

\* p.mu.Lock and the n of the prune loop, which runs only under an IdleTimeout.
Get(t) ==
    /\ pc[t] = "out"
    /\ Lock(t)
    /\ left' = [left EXCEPT ![t] = IF cfg.IdleTimeout THEN Len(idle) ELSE 0]
    /\ Goto(t, "prune")
    /\ UNCHANGED <<cfg, closed, active, idle, closing, open, have, drop>>

\* The oldest idle connection timed out: remove it, release, unlock to close it.
PruneStale(t) ==
    /\ pc[t] = "prune"
    /\ left[t] > 0
    /\ idle # <<>>
    /\ Unlock(t)
    /\ have' = [have EXCEPT ![t] = Oldest]
    /\ idle' = ButOldest
    /\ left' = [left EXCEPT ![t] = @ - 1]
    /\ Release(t, "pruneClose")
    /\ UNCHANGED <<cfg, closed, closing, open, drop>>

PruneClose(t) ==
    /\ pc[t] = "pruneClose"
    /\ CloseHeld(t)
    /\ Goto(t, "relockPrune")
    /\ UNCHANGED <<cfg, mu, closed, active, idle, closing, left, drop>>

RelockPrune(t) ==
    /\ pc[t] = "relockPrune"
    /\ Lock(t)
    /\ Goto(t, "prune")
    /\ UNCHANGED <<cfg, closed, active, idle, closing, open, have, left, drop>>

\* n rounds done, nothing idle, or the oldest idle connection is still fresh.
PruneDone(t) ==
    /\ pc[t] = "prune"
    /\ mu = t
    /\ left' = [left EXCEPT ![t] = Len(idle)]
    /\ Goto(t, "scan")
    /\ UNCHANGED <<cfg, mu, closed, active, idle, closing, open, have, drop>>

-----------------------------------------------------------------------------
(* get: taking an idle connection *)


TakeIdle(t) ==
    /\ pc[t] = "scan"
    /\ left[t] > 0
    /\ idle # <<>>
    /\ Unlock(t)
    /\ have' = [have EXCEPT ![t] = Head(idle)]
    /\ idle' = Tail(idle)
    /\ left' = [left EXCEPT ![t] = @ - 1]
    /\ Goto(t, "test")
    /\ UNCHANGED <<cfg, closed, active, closing, open, drop>>

\* TestOnBorrow is nil or returns nil: get returns the connection.
TestPasses(t) ==
    /\ pc[t] = "test"
    /\ Goto(t, "held")
    /\ left' = [left EXCEPT ![t] = 0]
    /\ UNCHANGED <<cfg, mu, closed, active, idle, closing, open, have, drop>>

TestFails(t) ==
    /\ pc[t] = "test"
    /\ cfg.TestOnBorrow
    /\ Goto(t, "testClose")
    /\ UNCHANGED <<cfg, mu, closed, active, idle, closing, open, have, left, drop>>

TestClose(t) ==
    /\ pc[t] = "testClose"
    /\ CloseHeld(t)
    /\ Goto(t, "relockScan")
    /\ UNCHANGED <<cfg, mu, closed, active, idle, closing, left, drop>>

RelockScan(t) ==
    /\ pc[t] = "relockScan"
    /\ Lock(t)
    /\ Release(t, "scan")
    /\ UNCHANGED <<cfg, closed, idle, closing, open, have, left, drop>>

-----------------------------------------------------------------------------
(* get: no idle connection is left to try *)

ScanDone(t) ==
    /\ pc[t] = "scan"
    /\ left[t] = 0 \/ idle = <<>>

GetOnClosedPool(t) ==
    /\ ScanDone(t)
    /\ closed
    /\ Unlock(t)
    /\ Goto(t, "out")
    /\ left' = [left EXCEPT ![t] = 0]
    /\ UNCHANGED <<cfg, closed, active, idle, closing, open, have, drop>>


\* Mutant: the slot is not taken before the mutex is released for Dial.
StartDialUncounted(t) ==
    /\ ScanDone(t)
    /\ ~closed
    /\ UnderLimit
    /\ Unlock(t)
    /\ Goto(t, "dial")
    /\ left' = [left EXCEPT ![t] = 0]
    /\ UNCHANGED <<cfg, closed, active, idle, closing, open, have, drop>>

StartDial(t) ==
    /\ ScanDone(t)
    /\ ~closed
    /\ UnderLimit
    /\ Unlock(t)
    /\ active' = active + 1
    /\ Goto(t, "dial")
    /\ left' = [left EXCEPT ![t] = 0]
    /\ UNCHANGED <<cfg, closed, idle, closing, open, have, drop>>

DialSucceeds(t) ==
    /\ pc[t] = "dial"
    /\ \E c \in Conns \ open :
          /\ open' = open \cup {c}
          /\ have' = [have EXCEPT ![t] = c]
    /\ Goto(t, "held")
    /\ UNCHANGED <<cfg, mu, closed, active, idle, closing, left, drop>>

DialFails(t) ==
    /\ pc[t] = "dial"
    /\ Goto(t, "dialFail")
    /\ UNCHANGED <<cfg, mu, closed, active, idle, closing, open, have, left, drop>>


DialRelease(t) ==
    /\ pc[t] = "dialFail"
    /\ mu = Nobody
    /\ Release(t, "out")
    /\ UNCHANGED <<cfg, mu, closed, idle, closing, open, have, left, drop>>

Exhausted(t) ==
    /\ ScanDone(t)
    /\ ~closed
    /\ ~UnderLimit
    /\ ~cfg.Wait
    /\ Unlock(t)
    /\ Goto(t, "out")
    /\ left' = [left EXCEPT ![t] = 0]
    /\ UNCHANGED <<cfg, closed, active, idle, closing, open, have, drop>>

\* p.cond.Wait: unlocks and parks; when it returns, the loop starts over.
CondWait(t) ==
    /\ ScanDone(t)
    /\ ~closed
    /\ ~UnderLimit
    /\ cfg.Wait
    /\ Unlock(t)
    /\ pc' = [pc EXCEPT ![t] = "wait"]
    /\ waiting' = waiting \cup {t}
    /\ left' = [left EXCEPT ![t] = 0]
    /\ UNCHANGED <<cfg, closed, active, idle, closing, open, have, drop>>

RelockWoken(t) ==
    /\ pc[t] = "woken"
    /\ Lock(t)
    /\ left' = [left EXCEPT ![t] = Len(idle)]
    /\ Goto(t, "scan")
    /\ UNCHANGED <<cfg, closed, active, idle, closing, open, have, drop>>

-----------------------------------------------------------------------------
(* The borrower's use of the connection, and put *)

\* pooledConnection.Close reaches put, which reads c.Err() before it locks: the
\* connection may have failed in use, or be in a state that forces its Close.
ReturnConn(t) ==
    /\ pc[t] = "held"
    /\ \E unfit \in BOOLEAN : drop' = [drop EXCEPT ![t] = unfit]
    /\ Goto(t, "put")
    /\ UNCHANGED <<cfg, mu, closed, active, idle, closing, open, have, left>>


PutIdle(t) ==
    /\ pc[t] = "put"
    /\ mu = Nobody
    /\ ~closed /\ ~drop[t]
    /\ Len(idle) < cfg.MaxIdle
    /\ idle' = <<have[t]>> \o idle
    /\ have' = [have EXCEPT ![t] = Nobody]
    /\ Signal(t, "out")
    /\ drop' = [drop EXCEPT ![t] = FALSE]
    /\ UNCHANGED <<cfg, mu, closed, active, closing, open, left>>

\* The list would grow past MaxIdle: its oldest connection leaves instead.
PutEvict(t) ==
    /\ pc[t] = "put"
    /\ mu = Nobody
    /\ ~closed /\ ~drop[t]
    /\ Len(idle) >= cfg.MaxIdle
    /\ LET pushed == <<have[t]>> \o idle
       IN  /\ idle' = SubSeq(pushed, 1, Len(idle))
           /\ have' = [have EXCEPT ![t] = pushed[Len(pushed)]]
    /\ Release(t, "putClose")
    /\ drop' = [drop EXCEPT ![t] = FALSE]
    /\ UNCHANGED <<cfg, mu, closed, closing, open, left>>


PutDrop(t) ==
    /\ pc[t] = "put"
    /\ mu = Nobody
    /\ closed \/ drop[t]
    /\ Release(t, "putClose")
    /\ drop' = [drop EXCEPT ![t] = FALSE]
    /\ UNCHANGED <<cfg, mu, closed, idle, closing, open, have, left>>

PutClose(t) ==
    /\ pc[t] = "putClose"
    /\ CloseHeld(t)
    /\ Goto(t, "out")
    /\ UNCHANGED <<cfg, mu, closed, active, idle, closing, left, drop>>

-----------------------------------------------------------------------------
(* Pool.Close, called by whoever owns the pool, any number of times *)


ClosePool ==
    /\ mu = Nobody
    /\ closed' = TRUE
    /\ active' = active - Len(idle)
    /\ closing' = closing \cup IdleSet
    /\ idle' = <<>>
    /\ waiting' = {}
    /\ pc' = [t \in Threads |-> IF t \in waiting THEN "woken" ELSE pc[t]]
    /\ UNCHANGED <<cfg, mu, open, have, left, drop>>

CloseTaken ==
    /\ \E c \in closing :
          /\ closing' = closing \ {c}
          /\ open' = open \ {c}
    /\ UNCHANGED <<cfg, mu, closed, active, idle, waiting, pc, have, left, drop>>

-----------------------------------------------------------------------------
\* What get, put and the Close of the returned connection do once called.
Progress(t) ==
    \/ PruneStale(t) \/ PruneClose(t) \/ RelockPrune(t) \/ PruneDone(t)
    \/ TakeIdle(t) \/ TestPasses(t) \/ TestFails(t) \/ TestClose(t) \/ RelockScan(t)
    \/ GetOnClosedPool(t) \/ StartDial(t) \/ DialSucceeds(t) \/ DialFails(t)
    \/ DialRelease(t) \/ Exhausted(t) \/ CondWait(t) \/ RelockWoken(t)
    \/ ReturnConn(t) \/ PutIdle(t) \/ PutEvict(t) \/ PutDrop(t) \/ PutClose(t)

Next ==
    \/ \E t \in Threads : Get(t) \/ Progress(t)
    \/ ClosePool
    \/ CloseTaken

Spec == Init /\ [][Next]_vars

\* Goroutines are scheduled, a contended mutex is handed over (sync.Mutex does
\* not starve), Dial and TestOnBorrow return, and a borrower closes what it got,
\* as Get asks of it. Nobody has to call Get or Pool.Close.
Fairness ==
    /\ \A t \in Threads : SF_vars(Progress(t))
    /\ WF_vars(CloseTaken)

FairSpec == Spec /\ Fairness

-----------------------------------------------------------------------------
(* Safety *)

\* p.active counts exactly the idle connections and the connections that are
\* dialed, tested, borrowed or on their way back: no path through get and put,
\* failing ones included, forgets a release or releases twice.
ActiveIsExact ==
    active = Len(idle) + Cardinality({t \in Threads : pc[t] \in Counted})

\* "Maximum number of connections allocated by the pool at a given time": the
\* limit holds although get dials, tests and closes with p.mu unlocked.
WithinLimits ==
    /\ cfg.MaxActive > 0 => active <= cfg.MaxActive
    /\ Len(idle) <= cfg.MaxIdle

\* The connections t answers for.
Hands(t) == {have[t]} \ {Nobody}

\* No two goroutines hold one connection, and none holds one that is idle or
\* that Pool.Close is about to close.
OneOwner ==
    /\ \A i, j \in 1..Len(idle) : idle[i] = idle[j] => i = j
    /\ \A t \in Threads :
          /\ Hands(t) \cap (IdleSet \cup closing) = {}
          /\ \A u \in Threads \ {t} : Hands(t) \cap Hands(u) = {}
    /\ IdleSet \cap closing = {}

\* Every connection that was dialed and not closed is still in someone's hands,
\* so none leaks and none is closed while it can still be lent.
NoneLost ==
    \A c \in Conns :
        c \in open <=> c \in IdleSet \cup closing \cup UNION {Hands(t) : t \in Threads}

\* A closed pool lends from no list: put cannot refill it after Pool.Close.
ClosedPoolIsEmpty == closed => idle = <<>>

\* What a caller of get could have at once: idle connections, room to dial.
Available == Len(idle) + cfg.MaxActive - active

\* Signals are not lost: while goroutines are parked in cond.Wait, there is for
\* every idle connection and every free slot a goroutine of its own that was
\* woken, or is in the loop of get, and will look; after Pool.Close none parks.
NoLostWakeup ==
    waiting # {} =>
        /\ Available <= Cardinality({t \in Threads : pc[t] \in {"woken", "scan"}})
        /\ ~closed

-----------------------------------------------------------------------------
(* The pool keeps the promise of ConnLease *)

\* Places where a goroutine's connection is its own: being tried, used or returned.
Owning == {"test", "held", "put"}

Owner ==
    [c \in Conns |->
        CASE c \in IdleSet -> "pool"
          [] \E t \in Threads : pc[t] \in Owning /\ have[t] = c ->
                CHOOSE t \in Threads : pc[t] \in Owning /\ have[t] = c
          [] c \in open /\ c \notin IdleSet /\ ~\E t \in Threads : pc[t] \in Owning /\ have[t] = c ->
                "dying"
          [] OTHER -> "none"]

Lease == INSTANCE ConnLease WITH owner <- Owner, limit <- cfg.MaxActive, shut <- closed

\* Each step of the pool is one of the lease's, or does not concern it: in every
\* interleaving of get, put and Close a connection goes from hand to hand as in
\* ConnLease, none is created beyond MaxActive and none stored after Close.
ImplementsLease == Lease!LeaseSpec

-----------------------------------------------------------------------------
(* Liveness, under Fairness *)

\* A goroutine parked in cond.Wait is not forgotten by Pool.Close, and every
\* connection is closed once the pool is.
ClosedPoolDrains ==
    closed ~> open = {} /\ (\A t \in Threads : pc[t] # "wait")

\* While the goroutine t is parked, wakeups keep coming: those who hold the
\* connections it waits for signal when they let go of them.
WaitersAreWoken ==
    \A t \in Threads : pc[t] = "wait" ~> \E u \in Threads : pc[u] = "woken"

=============================================================================
