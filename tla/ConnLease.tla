------------------------------ MODULE ConnLease ------------------------------
(* What a connection pool promises its callers, whatever lists, counters and   *)
(* locks it is made of: a connection is created for one goroutine, belongs to  *)
(* one goroutine or to the pool at a time, passes between them one at a time,  *)
(* is destroyed once, and the connections in use or in store never exceed the  *)
(* limit. After the pool is shut nothing is stored any more.                   *)
EXTENDS Integers, FiniteSets

CONSTANTS Threads, Conns

VARIABLES
    owner,      \* of each connection: "none", "pool", "dying" or a goroutine
    limit,      \* of connections at a time, 0 for none
    shut        \* the pool was closed

leaseVars == <<owner, limit, shut>>

Allocated == {c \in Conns : owner[c] \in Threads \cup {"pool"}}

LeaseInit ==
    /\ owner = [c \in Conns |-> "none"]
    /\ limit \in Nat
    /\ shut = FALSE

Move(c, from, to) ==
    /\ owner[c] = from
    /\ owner' = [owner EXCEPT ![c] = to]

Create(t, c) ==
    /\ limit = 0 \/ Cardinality(Allocated) < limit
    /\ Move(c, "none", t)
    /\ UNCHANGED <<limit, shut>>

Lend(t, c) ==
    /\ Move(c, "pool", t)
    /\ UNCHANGED <<limit, shut>>

\* t gives c back, and a stored connection (or c itself) may have to make room.
GiveBack(t, c) ==
    /\ ~shut
    /\ owner[c] = t
    /\ \/ owner' = [owner EXCEPT ![c] = "pool"]
       \/ owner' = [owner EXCEPT ![c] = "dying"]
       \/ \E d \in Conns \ {c} :
             /\ owner[d] = "pool"
             /\ owner' = [owner EXCEPT ![c] = "pool", ![d] = "dying"]
    /\ UNCHANGED <<limit, shut>>

Discard(t, c) ==
    /\ Move(c, t, "dying")
    /\ UNCHANGED <<limit, shut>>

Expire(c) ==
    /\ Move(c, "pool", "dying")
    /\ UNCHANGED <<limit, shut>>

Destroy(c) ==
    /\ Move(c, "dying", "none")
    /\ UNCHANGED <<limit, shut>>

Shut ==
    /\ shut' = TRUE
    /\ owner' = [c \in Conns |-> IF owner[c] = "pool" THEN "dying" ELSE owner[c]]
    /\ UNCHANGED limit

LeaseNext ==
    \/ \E c \in Conns :
          \/ \E t \in Threads : Create(t, c) \/ Lend(t, c) \/ GiveBack(t, c) \/ Discard(t, c)
          \/ Expire(c)
          \/ Destroy(c)
    \/ Shut

LeaseSpec == LeaseInit /\ [][LeaseNext]_leaseVars
=============================================================================
