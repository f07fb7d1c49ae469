----------------------------- MODULE RedisModel -----------------------------
(* How cache/redis.go uses its pools: a call takes a connection, and when the  *)
(* pool has none to give it builds another pool and takes one from there. Do   *)
(* and Query put the new pool in place of the old one for everybody (r.redis-  *)
(* Writer, r.redisReader), getConn keeps it to itself, and Ping looks at one   *)
(* connection of the pool. The reader and the writer pool behave alike; one of *)
(* them is modelled. Pools are as RedisPool has them under Wait = FALSE, which *)
(* is how Connect builds them: Get never waits.                                *)
EXTENDS Integers

CONSTANTS
    Callers,    \* goroutines that call the RedisModel
    Ops,        \* what they call: "Do" (Do, Query and what is built on them),
                \* "batch" (GetHashList, SetValues, by way of getConn), "Ping"
    MaxActive,  \* settings.MaxActive
    MaxPools,   \* bound: pools built
    NoConn      \* an errorConnection

Pools == 1..MaxPools

VARIABLES
    up,         \* redis accepts connections
    built,      \* pools built so far
    current,    \* r.redisWriter
    lent, idle, \* of each pool: connections lent, and in its idle list
    pc, op,     \* where a caller is, and what it called
    deferred,   \* the pool of the connection whose Close is deferred
    conn        \* the pool of the connection c, NoConn if c.Err() # nil

vars == <<up, built, current, lent, idle, pc, op, deferred, conn>>

Init ==
    /\ up = TRUE
    /\ built = 1
    /\ current = 1
    /\ lent = [p \in Pools |-> 0]
    /\ idle = [p \in Pools |-> 0]
    /\ pc = [t \in Callers |-> "out"]
    /\ op \in [Callers -> Ops]
    /\ deferred = [t \in Callers |-> NoConn]
    /\ conn = [t \in Callers |-> NoConn]

Lend(t, p) ==
    /\ lent' = [lent EXCEPT ![p] = @ + 1]
    /\ conn' = [conn EXCEPT ![t] = p]

\* p.Get(): an idle connection that passes TestOnBorrow (a failing one is closed
\* and the next one tried), a new one, or an errorConnection.
PoolGet(t, p) ==
    \/ /\ up /\ idle[p] > 0
       /\ Lend(t, p)
       /\ idle' = [idle EXCEPT ![p] = @ - 1]
    \/ /\ up /\ idle[p] = 0 /\ lent[p] < MaxActive
       /\ Lend(t, p)
       /\ UNCHANGED idle
    \/ /\ up /\ idle[p] = 0 /\ lent[p] >= MaxActive
       /\ conn' = [conn EXCEPT ![t] = NoConn]
       /\ UNCHANGED <<lent, idle>>
    \/ /\ ~up
       /\ idle' = [idle EXCEPT ![p] = 0]
       /\ conn' = [conn EXCEPT ![t] = NoConn]
       /\ UNCHANGED lent

\* The first Get. Do and Query defer the Close of what it returns at once, the
\* callers of getConn that of what getConn finds in the end, Ping none.
Call(t) ==
    /\ pc[t] = "out"
    /\ \E o \in Ops :
          /\ op' = [op EXCEPT ![t] = o]
          /\ PoolGet(t, current)
          /\ deferred' = [deferred EXCEPT ![t] = IF o = "Ping" THEN NoConn ELSE conn'[t]]
          /\ pc' = [pc EXCEPT ![t] = IF conn'[t] = NoConn /\ o # "Ping" THEN "rebuild" ELSE "run"]
    /\ UNCHANGED <<up, built, current>>

\* r.Connect, and the second Get: of the field for Do, of a local for getConn.
Rebuild(t) ==
    /\ pc[t] = "rebuild"
    /\ built < MaxPools
    /\ built' = built + 1
    /\ IF op[t] = "Do"
       THEN current' = built' /\ UNCHANGED <<lent, idle, conn>>
       ELSE PoolGet(t, built') /\ UNCHANGED current
    /\ pc' = [pc EXCEPT ![t] = IF op[t] = "Do" THEN "again" ELSE "run"]
    /\ deferred' = [deferred EXCEPT ![t] = IF op[t] = "Do" THEN @ ELSE conn'[t]]
    /\ UNCHANGED <<up, op>>

GetAgain(t) ==
    /\ pc[t] = "again"
    /\ PoolGet(t, current)
    /\ pc' = [pc EXCEPT ![t] = "run"]
    /\ UNCHANGED <<up, built, current, op, deferred>>

\* The command runs (or the error is returned), then the deferred Close puts the
\* connection back: into the idle list or, in error, away.
Return(t) ==
    /\ pc[t] = "run"
    /\ IF deferred[t] = NoConn
       THEN UNCHANGED <<lent, idle>>
       ELSE /\ lent' = [lent EXCEPT ![deferred[t]] = @ - 1]
            /\ idle' = [idle EXCEPT ![deferred[t]] = IF up THEN @ + 1 ELSE @]
    /\ deferred' = [deferred EXCEPT ![t] = NoConn]
    /\ conn' = [conn EXCEPT ![t] = NoConn]
    /\ pc' = [pc EXCEPT ![t] = "out"]
    /\ UNCHANGED <<up, built, current, op>>

\* Redis goes away and comes back.
Flip ==
    /\ up' = ~up
    /\ UNCHANGED <<built, current, lent, idle, pc, op, deferred, conn>>

Next ==
    \/ \E t \in Callers : Call(t) \/ Rebuild(t) \/ GetAgain(t) \/ Return(t)
    \/ Flip

Spec == Init /\ [][Next]_vars

\* "The application must close the returned connection": when no call of the
\* RedisModel is running, no pool has a connection out. Do and Query break it
\* after they rebuilt the pool (the deferred Close is bound to the connection
\* that failed), and Ping, which closes nothing, whenever it is called.
ConnsAreReturned ==
    (\A t \in Callers : pc[t] = "out") => \A p \in Pools : lent[p] = 0
=============================================================================
