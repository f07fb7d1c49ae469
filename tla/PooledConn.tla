------------------------------ MODULE PooledConn ------------------------------
(* One redis connection through the hands of its borrowers: the session state  *)
(* that pooledConnection tracks (cache/redigo/redis/pool.go, commandinfo.go),  *)
(* the pipeline of conn (conn.go: pending, Send, Receive, Do) and the clean-up *)
(* of pooledConnection.Close, against a redis server (external) that answers   *)
(* in order and pushes messages to subscribers whenever it likes.              *)
(* A sent command may reach the server before Flush: bufio spills when full.   *)
EXTENDS Integers, Sequences, SequencesExt

CONSTANTS
    Commands,   \* the commands borrowers use
    MaxCmds,    \* bound: commands per borrower
    MaxPushes   \* bound: messages pushed per borrower

ASSUME CommandsAssumption ==
    Commands \subseteq {"GET", "WATCH", "UNWATCH", "MULTI", "EXEC", "DISCARD",
                        "SUBSCRIBE", "PSUBSCRIBE", "MONITOR"}

VARIABLES
    state,      \* pc.state: the modes pooledConnection believes the session is in
    pending,    \* c.pending
    broken,     \* c.err # nil
    place,      \* where the borrower is
    toRead,     \* replies the running Do still reads
    lastRead,   \* the last item read
    sent,       \* commands this borrower sent; also names the latest command
    pushed,     \* messages pushed to this borrower
    out,        \* commands on their way to the server
    srv,        \* the session on the server
    replies     \* what the server sent and nobody read

local == <<state, pending, place, toRead, lastRead, sent>>
wire == <<out, srv, replies, pushed>>
vars == <<local, broken, wire>>

\* commandInfos: the modes a command sets and clears.
Sets(cmd) ==
    CASE cmd = "WATCH" -> {"watch"}
      [] cmd = "MULTI" -> {"multi"}
      [] cmd \in {"SUBSCRIBE", "PSUBSCRIBE"} -> {"subscribe"}
      [] cmd = "MONITOR" -> {"monitor"}
      [] OTHER -> {}
Clears(cmd) ==
    CASE cmd = "UNWATCH" -> {"watch"}
      [] cmd \in {"EXEC", "DISCARD"} -> {"watch", "multi"}
      [] OTHER -> {}

-----------------------------------------------------------------------------
(* The server (external) *)

Channels == {"SUBSCRIBE", "PSUBSCRIBE"}
Fresh == [watch |-> FALSE, multi |-> FALSE, queued |-> {}, subs |-> {}, monitor |-> FALSE]

Rejects(s, cmd) ==
    \/ s.subs # {} /\ cmd \notin Channels \cup {"UNSUBSCRIBE", "PUNSUBSCRIBE"}
    \/ s.multi /\ cmd \in {"MULTI", "WATCH", "MONITOR"}
    \/ ~s.multi /\ cmd \in {"EXEC", "DISCARD"}

Serve(s, cmd) ==
    IF Rejects(s, cmd) THEN s
    ELSE IF s.multi /\ cmd \notin {"EXEC", "DISCARD"}
    THEN [s EXCEPT !.queued = @ \cup ({cmd} \cap Channels)]
    ELSE CASE cmd = "EXEC" -> [s EXCEPT !.multi = FALSE, !.watch = FALSE, !.subs = s.queued, !.queued = {}]
           [] cmd = "DISCARD" -> [s EXCEPT !.multi = FALSE, !.watch = FALSE, !.queued = {}]
           [] cmd \in Channels -> [s EXCEPT !.subs = @ \cup {cmd}]
           [] cmd = "UNSUBSCRIBE" -> [s EXCEPT !.subs = @ \ {"SUBSCRIBE"}]
           [] cmd = "PUNSUBSCRIBE" -> [s EXCEPT !.subs = @ \ {"PSUBSCRIBE"}]
           [] cmd = "WATCH" -> [s EXCEPT !.watch = TRUE]
           [] cmd = "UNWATCH" -> [s EXCEPT !.watch = FALSE]
           [] cmd = "MULTI" -> [s EXCEPT !.multi = TRUE]
           [] cmd = "MONITOR" -> [s EXCEPT !.monitor = TRUE]
           [] OTHER -> s

\* A command on its way: whose it is, and the session that it will leave (history).
Ahead(o) == IF o = <<>> THEN srv ELSE Last(o).after
Sent(o, of, cmd) == Append(o, [of |-> of, is |-> cmd, after |-> Serve(Ahead(o), cmd)])

\* A reply on its way: the command it belongs to, and what it is.
Item(of, is) == [of |-> of, is |-> is]

ServerAnswers ==
    /\ out # <<>>
    /\ LET cmd == Head(out).is
       IN  /\ srv' = Serve(srv, cmd)
           /\ \/ replies' = Append(replies, Item(Head(out).of,
                     IF Rejects(srv, cmd) THEN "error" ELSE IF cmd = "ECHO" THEN "sentinel" ELSE "ok"))
              \/ /\ cmd = "GET"       \* a command may fail for reasons of its own
                 /\ replies' = Append(replies, Item(Head(out).of, "error"))
    /\ out' = Tail(out)
    /\ UNCHANGED <<local, broken, pushed>>

ServerPushes ==
    /\ srv.subs # {} \/ srv.monitor
    /\ pushed < MaxPushes
    /\ pushed' = pushed + 1
    /\ replies' = Append(replies, Item(0, "message"))
    /\ UNCHANGED <<local, broken, out, srv>>

-----------------------------------------------------------------------------
(* The borrower: Send, Receive, Do of pooledConnection and conn *)

\* The borrower knows redis: it sends what the server will accept when it comes.
Legal(cmd) == ~Rejects(Ahead(out), cmd)

Track(cmd) == state' = (state \cup Sets(cmd)) \ Clears(cmd)

Send(cmd) ==
    /\ place = "app"
    /\ sent < MaxCmds /\ Legal(cmd)
    /\ Track(cmd)
    /\ pending' = pending + 1
    /\ sent' = sent + 1
    /\ out' = Sent(out, sent', cmd)
    /\ UNCHANGED <<broken, place, toRead, lastRead, srv, replies, pushed>>

Receive ==
    /\ place = "app"
    /\ replies # <<>>
    /\ replies' = Tail(replies)
    /\ pending' = IF pending > 0 THEN pending - 1 ELSE 0
    /\ UNCHANGED <<state, broken, place, toRead, lastRead, sent, out, srv, pushed>>

\* Mutant: Do reads one reply, whatever was pending.
DoReadsOne(cmd) ==
    /\ place = "app"
    /\ sent < MaxCmds /\ Legal(cmd)
    /\ Track(cmd)
    /\ toRead' = 1
    /\ pending' = 0
    /\ sent' = sent + 1
    /\ out' = Sent(out, sent', cmd)
    /\ place' = "do"
    /\ UNCHANGED <<broken, lastRead, srv, replies, pushed>>

\* Do claims all pending replies and its own at once, then reads them.
Do(cmd) ==
    /\ place = "app"
    /\ sent < MaxCmds /\ Legal(cmd)
    /\ Track(cmd)
    /\ toRead' = pending + 1
    /\ pending' = 0
    /\ sent' = sent + 1
    /\ out' = Sent(out, sent', cmd)
    /\ place' = "do"
    /\ UNCHANGED <<broken, lastRead, srv, replies, pushed>>

DoReads ==
    /\ place \in {"do", "finish"}
    /\ toRead > 0
    /\ replies # <<>>
    /\ lastRead' = Head(replies).of
    /\ replies' = Tail(replies)
    /\ toRead' = toRead - 1
    /\ UNCHANGED <<state, pending, broken, place, sent, out, srv, pushed>>

DoReturns ==
    /\ place = "do"
    /\ toRead = 0
    /\ place' = "app"
    /\ lastRead' = 0
    /\ UNCHANGED <<state, pending, broken, toRead, sent, wire>>

-----------------------------------------------------------------------------
(* pooledConnection.Close *)

\* Mutant: watched keys are looked at before the transaction.
ResetWatchFirst(o) ==
    IF "watch" \in state THEN Sent(o, 0, "UNWATCH")
    ELSE IF "multi" \in state THEN Sent(o, 0, "DISCARD")
    ELSE o

Reset(o) ==
    IF "multi" \in state THEN Sent(o, 0, "DISCARD")
    ELSE IF "watch" \in state THEN Sent(o, 0, "UNWATCH")
    ELSE o

LeaveChannels(o) == Sent(Sent(o, 0, "UNSUBSCRIBE"), 0, "PUNSUBSCRIBE")

\* Mutant: no sentinel marks the end of the messages.
UnsubscribeUnmarked(o) == IF "subscribe" \in state THEN LeaveChannels(o) ELSE o
Unsubscribe(o) == IF "subscribe" \in state THEN Sent(LeaveChannels(o), 0, "ECHO") ELSE o

CloseSends ==
    /\ place = "app"
    /\ out' = Unsubscribe(Reset(out))
    /\ pending' = pending + Len(out') - Len(out)
    /\ state' = state \ (IF "multi" \in state THEN {"multi", "watch"} ELSE {"watch"})
    /\ place' = IF "subscribe" \in state THEN "drain" ELSE "drained"
    /\ UNCHANGED <<broken, toRead, lastRead, sent, srv, replies, pushed>>

\* Receive until the sentinel comes back or a reply is an error.
Drain ==
    /\ place = "drain"
    /\ replies # <<>>
    /\ replies' = Tail(replies)
    /\ pending' = IF pending > 0 THEN pending - 1 ELSE 0
    /\ LET is == Head(replies).is
       IN  /\ place' = IF is \in {"sentinel", "error"} THEN "drained" ELSE "drain"
           /\ state' = IF is = "sentinel" THEN state \ {"subscribe"} ELSE state
    /\ UNCHANGED <<broken, toRead, lastRead, sent, out, srv, pushed>>

\* c.Do(""): read what is still pending.
Finish ==
    /\ place = "drained"
    /\ toRead' = pending
    /\ pending' = 0
    /\ place' = "finish"
    /\ UNCHANGED <<state, broken, lastRead, sent, wire>>

\* put: back into the idle list, or closed if in error or in a mode (forceClose).
Put ==
    /\ place = "finish"
    /\ toRead = 0
    /\ place' = IF broken \/ state # {} THEN "closed" ELSE "pool"
    /\ lastRead' = 0
    /\ sent' = 0
    /\ pushed' = 0
    /\ UNCHANGED <<state, pending, broken, toRead, out, srv, replies>>

\* The connection fails: conn.fatal. Every later read and write returns at once
\* with the error, the loop of Close breaks, and the borrower is left with put.
Fail ==
    /\ place \in {"app", "do", "drain", "finish"}
    /\ ~broken
    /\ broken' = TRUE
    /\ toRead' = 0
    /\ place' = "finish"
    /\ out' = <<>>
    /\ replies' = <<>>
    /\ UNCHANGED <<state, pending, lastRead, sent, srv, pushed>>

\* The pool dials another connection in place of a closed one.
Redial ==
    /\ place = "closed"
    /\ place' = "pool"
    /\ state' = {} /\ pending' = 0 /\ broken' = FALSE
    /\ srv' = Fresh
    /\ out' = <<>> /\ replies' = <<>>
    /\ UNCHANGED <<toRead, lastRead, sent, pushed>>

Borrow ==
    /\ place = "pool"
    /\ place' = "app"
    /\ state' = {}
    /\ UNCHANGED <<pending, broken, toRead, lastRead, sent, wire>>

-----------------------------------------------------------------------------
Init ==
    /\ state = {} /\ pending = 0 /\ broken = FALSE
    /\ place = "pool"
    /\ toRead = 0 /\ lastRead = 0 /\ sent = 0 /\ pushed = 0
    /\ out = <<>> /\ srv = Fresh /\ replies = <<>>

Next ==
    \/ ServerAnswers \/ ServerPushes
    \/ \E cmd \in Commands : Send(cmd) \/ Do(cmd)
    \/ Receive \/ DoReads \/ DoReturns
    \/ CloseSends \/ Drain \/ Finish \/ Put
    \/ Fail \/ Redial \/ Borrow

Spec == Init /\ [][Next]_vars

\* Whatever a borrower left behind (a transaction, watched keys, subscriptions,
\* unread replies, messages on the way), the next one gets a session in none of
\* the modes, and no reply but its own can come down the connection.
CleanInPool ==
    place = "pool" =>
        /\ ~broken
        /\ srv = Fresh
        /\ out = <<>> /\ replies = <<>> /\ pending = 0

\* The result of Do is the server's reply to that very command, however many
\* commands were pipelined or answered before it; a session that subscribed or
\* monitors reads messages as well and is not covered.
DoGetsItsReply ==
    place = "do" /\ toRead = 0 /\ state \cap {"subscribe", "monitor"} = {} => lastRead = sent

\* pending never exceeds what is still to come, so that Do never waits for a
\* reply the server does not owe.
PendingIsOwed ==
    ~broken => pending + toRead <= Len(out) + Len(replies)
==============================================================================
