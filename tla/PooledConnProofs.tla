--------------------------- MODULE PooledConnProofs ---------------------------
(***************************************************************************)
(* Theorems of PooledConn: a connection that returns to the pool is clean, *)
(* the result of Do is the reply to its command, and the client never      *)
(* counts more replies than the server owes.                               *)
(*                                                                         *)
(* The client only sees what it sent; whether the session is clean is      *)
(* decided by commands that have not reached the server yet.  So the       *)
(* invariant speaks of every session on the way: that of the server now    *)
(* and the one after each command in out.                                  *)
(***************************************************************************)
EXTENDS PooledConn, SequenceTheorems, TLAPS

Modes == {"watch", "multi", "subscribe", "monitor"}
Loud == {"subscribe", "monitor"}
Sendable == Commands \cup {"GET", "UNWATCH", "DISCARD", "UNSUBSCRIBE", "PUNSUBSCRIBE", "ECHO"}
SessionSet == [watch : BOOLEAN, multi : BOOLEAN, queued : SUBSET Channels, subs : SUBSET Channels,
               monitor : BOOLEAN]
OutItems == [of : Nat, is : Sendable, after : SessionSet]
ReplyItems == [of : Nat, is : {"ok", "error", "sentinel", "message"}]

TypeOK ==
    /\ state \in SUBSET Modes
    /\ pending \in Nat /\ toRead \in Nat /\ lastRead \in Nat /\ sent \in Nat /\ pushed \in Nat
    /\ broken \in BOOLEAN
    /\ place \in {"pool", "app", "do", "drain", "drained", "finish", "closed"}
    /\ out \in Seq(OutItems) /\ srv \in SessionSet /\ replies \in Seq(ReplyItems)

-----------------------------------------------------------------------------
(* The inductive invariant *)

\* The session that the i-th command on its way will find.
Before(o, i) == IF i = 1 THEN srv ELSE o[i - 1].after
Linked(o) == \A i \in 1..Len(o) : o[i].after = Serve(Before(o, i), o[i].is)
Chain == Linked(out)

\* A transaction is not opened by a subscriber, and only it queues.
Sound(s) == (s.multi => s.subs = {}) /\ (~s.multi => s.queued = {})

\* A mode of the server that the client knows nothing of does not come up.
Foreseen(modes, s) ==
    /\ Sound(s)
    /\ modes \cap Loud = {} => s.subs = {} /\ s.queued = {}
    /\ "monitor" \notin modes => ~s.monitor
AllForeseen == ~broken => Foreseen(state, srv) /\ \A i \in 1..Len(out) : Foreseen(state, out[i].after)

\* A transaction and watched keys, while the connection is borrowed.
Tracked ==
    ~broken /\ place \in {"app", "do"} =>
        /\ Ahead(out).multi <=> "multi" \in state
        /\ Ahead(out).watch => Ahead(out).multi \/ "watch" \in state

\* What the clean-up leads to; while it drains, or an error will stop it.
Refused(o) == \E i \in 1..Len(o) : Rejects(Before(o, i), o[i].is)
ErrorComes ==
    \/ \E i \in 1..Len(replies) : replies[i].is = "error"
    \/ Refused(out)

Cleaned ==
    ~broken /\ "monitor" \notin state =>
        /\ place \in {"drained", "finish", "pool"} /\ "subscribe" \notin state => Ahead(out) = Fresh
        /\ place = "drain" =>
             /\ Ahead(out).subs = {}
             /\ Ahead(out) = Fresh \/ ErrorComes

\* The sentinel is the last thing that comes, and there is one.
Unmarked(n, m) ==
    /\ \A i \in 1..n : out[i].is # "ECHO"
    /\ \A i \in 1..m : replies[i].is # "sentinel"
Marked ==
    ~broken =>
        /\ place \in {"pool", "app", "do"} => Unmarked(Len(out), Len(replies))
        /\ place = "drain" =>
             /\ "subscribe" \in state
             /\ "monitor" \notin state =>
                  IF out # <<>> THEN Last(out).is = "ECHO" /\ Unmarked(Len(out) - 1, Len(replies))
                  ELSE /\ replies # <<>> /\ Last(replies).is = "sentinel"
                       /\ Unmarked(0, Len(replies) - 1)

\* What the client waits for is on its way, and nothing else is unless messages
\* may come.
Owed ==
    ~broken =>
        /\ pending + toRead <= Len(out) + Len(replies)
        /\ state \cap Loud = {} => pending + toRead = Len(out) + Len(replies)
        /\ place \in {"do", "finish"} => pending = 0
        /\ place \notin {"do", "finish"} => toRead = 0

\* The last thing that is on its way answers the command of Do.
Latest ==
    ~broken /\ place = "do" /\ state \cap Loud = {} =>
        IF toRead = 0 THEN lastRead = sent
        ELSE IF out # <<>> THEN Last(out).of = sent
        ELSE Last(replies).of = sent

PlacesOK ==
    /\ broken => place \in {"finish", "closed"}
    /\ place = "pool" => state = {} /\ pending = 0
    /\ place \in {"pool", "closed"} => toRead = 0

IInv ==
    /\ TypeOK /\ PlacesOK /\ Chain
    /\ AllForeseen /\ Tracked /\ Cleaned /\ Marked /\ Owed /\ Latest

-----------------------------------------------------------------------------
(* What a command does to a session *)

\* A session stays a session.
LEMMA ServeType ==
    ASSUME NEW s \in SessionSet, NEW cmd \in Sendable
    PROVE  Serve(s, cmd) \in SessionSet
BY CommandsAssumption DEF Serve, SessionSet, Sendable, Channels

\* Only a transaction queues, and no subscriber opens one.
LEMMA ServeSound ==
    ASSUME NEW s \in SessionSet, NEW cmd \in Sendable, Sound(s)
    PROVE  Sound(Serve(s, cmd))
BY CommandsAssumption DEF Serve, SessionSet, Sendable, Channels, Rejects, Sound

\* Subscriptions, queued or not, and monitoring come from their commands alone.
LEMMA ServeQuiet ==
    ASSUME NEW s \in SessionSet, NEW cmd \in Sendable
    PROVE  /\ cmd \notin Channels /\ s.subs = {} /\ s.queued = {}
                => Serve(s, cmd).subs = {} /\ Serve(s, cmd).queued = {}
           /\ cmd # "MONITOR" /\ ~s.monitor => ~Serve(s, cmd).monitor
BY CommandsAssumption DEF Serve, SessionSet, Sendable, Channels, Rejects

\* What a legal command does to transactions and watched keys.
LEMMA ServeModes ==
    ASSUME NEW s \in SessionSet, NEW cmd \in Commands, ~Rejects(s, cmd)
    PROVE  /\ cmd = "MULTI" => Serve(s, cmd).multi
           /\ cmd \in {"EXEC", "DISCARD"} => ~Serve(s, cmd).multi /\ ~Serve(s, cmd).watch
           /\ cmd \notin {"MULTI", "EXEC", "DISCARD"} => Serve(s, cmd).multi = s.multi
           /\ cmd \notin {"WATCH", "EXEC", "DISCARD"} /\ Serve(s, cmd).watch => s.watch
           /\ cmd = "UNWATCH" /\ Serve(s, cmd).watch => s.multi
BY CommandsAssumption DEF Serve, SessionSet, Channels, Rejects

-----------------------------------------------------------------------------
(* What sending does to the queue *)

\* A command is appended with the session it leads to; the rest stays.
LEMMA SentProps ==
    ASSUME NEW o \in Seq(OutItems), NEW of \in Nat, NEW cmd \in Sendable, srv \in SessionSet
    PROVE  LET n == Sent(o, of, cmd)
           IN  /\ n \in Seq(OutItems) /\ n # <<>> /\ Len(n) = Len(o) + 1
               /\ \A i \in 1..Len(o) : n[i] = o[i]
               /\ n[Len(n)] = [of |-> of, is |-> cmd, after |-> Serve(Ahead(o), cmd)]
               /\ Last(n) = n[Len(n)]
               /\ Ahead(n) = Serve(Ahead(o), cmd)
               /\ Before(o, Len(o) + 1) = Ahead(o)
               /\ \A i \in 1..Len(n) : Before(n, i) = Before(o, i)
               /\ Ahead(o) \in SessionSet
<1> DEFINE x == [of |-> of, is |-> cmd, after |-> Serve(Ahead(o), cmd)]
           n == Append(o, x)
<1>1. Ahead(o) \in SessionSet
    <2>1. CASE o = <<>>
        BY <2>1 DEF Ahead
    <2>2. CASE o # <<>>
        <3>1. o[Len(o)] \in OutItems
            BY <2>2
        <3> QED BY <2>2, <3>1 DEF Ahead, Last, OutItems
    <2> QED BY <2>1, <2>2
<1>2. x \in OutItems
    BY <1>1, ServeType DEF OutItems
<1>3. /\ n \in Seq(OutItems) /\ n # <<>> /\ Len(n) = Len(o) + 1
      /\ \A i \in 1..Len(o) : n[i] = o[i]
      /\ n[Len(n)] = x
    BY <1>2
<1>4. Last(n) = n[Len(n)]
    BY DEF Last
<1>5. x.after = Serve(Ahead(o), cmd)
    OBVIOUS
<1>6. Ahead(n) = Serve(Ahead(o), cmd)
    BY <1>3, <1>4, <1>5 DEF Ahead
<1>7. Before(o, Len(o) + 1) = Ahead(o)
    BY DEF Before, Ahead, Last
<1>8. \A i \in 1..Len(n) : Before(n, i) = Before(o, i)
    BY <1>3 DEF Before
<1> QED BY <1>1, <1>3, <1>4, <1>6, <1>7, <1>8 DEF Sent

\* Every command leads from the session before it to the one it carries.
LEMMA SentLinked ==
    ASSUME NEW o \in Seq(OutItems), NEW of \in Nat, NEW cmd \in Sendable, srv \in SessionSet,
           Linked(o)
    PROVE  Linked(Sent(o, of, cmd))
<1> DEFINE n == Sent(o, of, cmd)
<1> HIDE DEF n
<1>1. /\ Len(n) = Len(o) + 1 /\ Len(o) \in Nat
      /\ \A i \in 1..Len(o) : n[i] = o[i]
      /\ n[Len(n)] = [of |-> of, is |-> cmd, after |-> Serve(Ahead(o), cmd)]
      /\ Before(o, Len(o) + 1) = Ahead(o)
      /\ \A i \in 1..Len(n) : Before(n, i) = Before(o, i)
    BY SentProps DEF n
<1>2. ASSUME NEW i \in 1..Len(n)
      PROVE  n[i].after = Serve(Before(n, i), n[i].is)
    <2>1. CASE i \in 1..Len(o)
        BY <2>1, <1>1 DEF Linked
    <2>2. CASE i = Len(n)
        BY <2>2, <1>1
    <2> QED BY <2>1, <2>2, <1>1
<1> QED BY <1>2 DEF Linked, n

\* The server has taken the first command.
LEMMA TailProps ==
    ASSUME NEW o \in Seq(OutItems), o # <<>>, srv \in SessionSet, Linked(o),
           srv' = Serve(srv, Head(o).is)
    PROVE  /\ Tail(o) \in Seq(OutItems) /\ Len(Tail(o)) = Len(o) - 1
           /\ \A i \in 1..Len(Tail(o)) : Tail(o)[i] = o[i + 1]
           /\ o[1] = Head(o) /\ srv' = o[1].after /\ srv' \in SessionSet
           /\ Tail(o) # <<>> => Last(Tail(o)) = Last(o)
           /\ Tail(o) = <<>> => Last(o) = Head(o)
<1>1. /\ Tail(o) \in Seq(OutItems) /\ Len(Tail(o)) = Len(o) - 1 /\ Len(o) \in Nat \ {0}
      /\ \A i \in 1..Len(Tail(o)) : Tail(o)[i] = o[i + 1]
      /\ o[1] = Head(o)
    OBVIOUS
<1>2. Before(o, 1) = srv
    BY DEF Before
<1>3. srv' = o[1].after
    BY <1>1, <1>2 DEF Linked
<1>4. o[1] \in OutItems
    BY <1>1
<1>5. srv' \in SessionSet
    BY <1>3, <1>4 DEF OutItems
<1>6. /\ Tail(o) # <<>> => Last(Tail(o)) = Last(o)
      /\ Tail(o) = <<>> => Last(o) = Head(o)
    <2>1. CASE Len(o) = 1
        <3>1. Len(Tail(o)) = 0
            BY <2>1, <1>1
        <3>2. Tail(o) = <<>>
            BY <3>1, <1>1, EmptySeq
        <3> QED BY <2>1, <3>2, <1>1 DEF Last
    <2>2. CASE Len(o) > 1
        <3>1. Tail(o)[Len(o) - 1] = o[Len(o)] /\ Tail(o) # <<>>
            BY <2>2, <1>1
        <3> QED BY <3>1, <1>1 DEF Last
    <2> QED BY <2>1, <2>2, <1>1
<1> QED BY <1>1, <1>3, <1>5, <1>6

-----------------------------------------------------------------------------
(* One lemma per step *)

LEMMA InitIInv == Init => IInv
<1> SUFFICES ASSUME Init PROVE IInv
    OBVIOUS
<1>1. Fresh \in SessionSet /\ Foreseen({}, Fresh)
    BY DEF Fresh, SessionSet, Foreseen, Sound
<1>2. TypeOK /\ PlacesOK
    <2>1. <<>> \in Seq(OutItems) /\ <<>> \in Seq(ReplyItems)
        OBVIOUS
    <2> QED BY <1>1, <2>1 DEF Init, TypeOK, PlacesOK
<1>3. Chain /\ AllForeseen /\ Tracked /\ Owed /\ Latest
    BY <1>1 DEF Init, Chain, Linked, AllForeseen, Tracked, Owed, Latest
<1>4. Cleaned /\ Marked
    BY DEF Init, Cleaned, Marked, Unmarked, Ahead
<1> QED BY <1>2, <1>3, <1>4 DEF IInv

LEMMA ServerAnswersStep == IInv /\ ServerAnswers => IInv'
<1> SUFFICES ASSUME IInv, ServerAnswers PROVE IInv'
    OBVIOUS
<1> USE DEF IInv
<1>1. PICK x \in ReplyItems :
        /\ replies' = Append(replies, x)
        /\ x.of = Head(out).of
        /\ Rejects(srv, Head(out).is) => x.is = "error"
        /\ ~Rejects(srv, Head(out).is) => x.is \in {"error", "sentinel", "ok"}
        /\ Head(out).is # "ECHO" => x.is # "sentinel"
        /\ Head(out).is = "ECHO" /\ ~Rejects(srv, Head(out).is) => x.is = "sentinel"
    <2>1. Head(out) \in OutItems
        BY DEF ServerAnswers, TypeOK
    <2>2. CASE replies' = Append(replies, Item(Head(out).of,
                    IF Rejects(srv, Head(out).is) THEN "error"
                    ELSE IF Head(out).is = "ECHO" THEN "sentinel" ELSE "ok"))
        BY <2>1, <2>2 DEF Item, ReplyItems, OutItems
    <2>3. CASE Head(out).is = "GET" /\ replies' = Append(replies, Item(Head(out).of, "error"))
        BY <2>1, <2>3 DEF Item, ReplyItems, OutItems
    <2> QED BY <2>2, <2>3 DEF ServerAnswers
<1>2. /\ out # <<>> /\ out' = Tail(out) /\ srv' = Serve(srv, Head(out).is)
      /\ UNCHANGED <<state, pending, place, toRead, lastRead, sent, broken, pushed>>
    BY DEF ServerAnswers, local
<1>3. /\ Tail(out) \in Seq(OutItems) /\ Len(Tail(out)) = Len(out) - 1
      /\ \A i \in 1..Len(Tail(out)) : Tail(out)[i] = out[i + 1]
      /\ out[1] = Head(out) /\ srv' = out[1].after /\ srv' \in SessionSet
      /\ Tail(out) # <<>> => Last(Tail(out)) = Last(out)
      /\ Tail(out) = <<>> => Last(out) = Head(out)
      /\ Len(out) \in Nat \ {0}
    BY <1>2, TailProps DEF TypeOK, Chain
<1>4. /\ replies' \in Seq(ReplyItems) /\ Len(replies') = Len(replies) + 1 /\ Len(replies) \in Nat
      /\ \A i \in 1..Len(replies) : replies'[i] = replies[i]
      /\ replies'[Len(replies')] = x /\ Last(replies') = x /\ replies' # <<>>
    BY <1>1 DEF TypeOK, Last
<1>5. \A i \in 1..Len(out') : Before(out, i)' = Before(out, i + 1)
    BY <1>2, <1>3 DEF Before
<1>6. Ahead(out)' = Ahead(out)
    BY <1>2, <1>3 DEF Ahead, Last
<1>7. TypeOK' /\ PlacesOK'
    BY <1>2, <1>3, <1>4 DEF TypeOK, PlacesOK
<1>8. Chain'
    BY <1>2, <1>3, <1>5 DEF Chain, Linked
<1>9. AllForeseen'
    BY <1>2, <1>3 DEF AllForeseen, Foreseen
<1>10. Tracked'
    BY <1>2, <1>6 DEF Tracked
<1>11. ErrorComes => ErrorComes'
    BY <1>1, <1>2, <1>3, <1>4, <1>5 DEF ErrorComes, Refused, Before
<1>12. Cleaned'
    BY <1>2, <1>6, <1>11 DEF Cleaned, Fresh
<1>13. Marked'
    <2>1. ASSUME ~broken, place \in {"pool", "app", "do"}
          PROVE  Unmarked(Len(out), Len(replies))'
        BY <2>1, <1>1, <1>2, <1>3, <1>4 DEF Marked, Unmarked
    <2>2. ASSUME ~broken, place = "drain", "monitor" \notin state, Len(out) > 1
          PROVE  out' # <<>> /\ Last(out').is = "ECHO" /\ Unmarked(Len(out) - 1, Len(replies))'
        <3>1. out' # <<>> /\ Last(out') = Last(out)
            <4>1. Len(Tail(out)) > 0
                BY <2>2, <1>3
            <4>2. ASSUME NEW o \in Seq(OutItems), Len(o) > 0
                  PROVE  o # <<>>
                BY <4>2
            <4> QED BY <4>1, <4>2, <1>2, <1>3
        <3>2. Unmarked(Len(out) - 1, Len(replies)) /\ Last(out).is = "ECHO"
            BY <2>2, <1>2 DEF Marked
        <3> QED BY <2>2, <3>1, <3>2, <1>1, <1>2, <1>3, <1>4 DEF Unmarked
    <2>3. ASSUME ~broken, place = "drain", "monitor" \notin state, Len(out) = 1
          PROVE  /\ out' = <<>> /\ replies' # <<>> /\ Last(replies').is = "sentinel"
                 /\ Unmarked(0, Len(replies) - 1)'
        <3>1. out' = <<>>
            BY <2>3, <1>2, <1>3
        <3>2. Unmarked(Len(out) - 1, Len(replies)) /\ Head(out).is = "ECHO"
            BY <2>3, <1>2, <1>3, <3>1 DEF Marked
        <3>3. Ahead(out)'.subs = {} /\ Ahead(out)' = srv'
            BY <2>3, <3>1, <1>6 DEF Cleaned, Ahead
        <3>4. srv \in SessionSet /\ Head(out).is \in Sendable
            <4>1. out[1] \in OutItems
                BY <1>3 DEF TypeOK
            <4> QED BY <4>1, <1>3 DEF TypeOK, OutItems
        <3>5. srv.subs = {}
            BY <3>2, <3>3, <3>4, <1>2 DEF Serve, Channels
        <3>6. ~Rejects(srv, Head(out).is)
            BY <3>2, <3>5 DEF Rejects
        <3> QED BY <3>1, <3>2, <3>6, <1>1, <1>4 DEF Unmarked
    <2> QED BY <2>1, <2>2, <2>3, <1>2, <1>3 DEF Marked
<1>14. Owed' /\ Latest'
    BY <1>1, <1>2, <1>3, <1>4 DEF Owed, Latest, TypeOK
<1> QED BY <1>7, <1>8, <1>9, <1>10, <1>12, <1>13, <1>14

LEMMA ServerPushesStep == IInv /\ ServerPushes => IInv'
<1> SUFFICES ASSUME IInv, ServerPushes PROVE IInv'
    OBVIOUS
<1> USE DEF IInv
<1> DEFINE x == Item(0, "message")
<1>1. /\ srv.subs # {} \/ srv.monitor
      /\ replies' = Append(replies, x) /\ pushed' = pushed + 1
      /\ UNCHANGED <<state, pending, place, toRead, lastRead, sent, broken, out, srv>>
    BY DEF ServerPushes, local
<1>2. x \in ReplyItems /\ x.is = "message"
    BY DEF Item, ReplyItems
<1>3. /\ replies' \in Seq(ReplyItems) /\ Len(replies') = Len(replies) + 1 /\ Len(replies) \in Nat
      /\ \A i \in 1..Len(replies) : replies'[i] = replies[i]
      /\ replies'[Len(replies')] = x
    BY <1>1, <1>2 DEF TypeOK
<1>4. Len(out) \in Nat
    BY DEF TypeOK
<1>5. ~broken => state \cap Loud # {}
    BY <1>1 DEF AllForeseen, Foreseen, Loud
<1>6. TypeOK' /\ PlacesOK' /\ Owed' /\ Latest'
    BY <1>1, <1>3, <1>4, <1>5 DEF TypeOK, PlacesOK, Owed, Latest
<1>7. Chain' /\ AllForeseen' /\ Tracked'
    BY <1>1 DEF Chain, Linked, Before, AllForeseen, Foreseen, Tracked, Ahead
<1>8. Cleaned'
    <2>1. ErrorComes => ErrorComes'
        BY <1>1, <1>3 DEF ErrorComes, Refused, Before
    <2> QED BY <2>1, <1>1 DEF Cleaned, Ahead
<1>9. Marked'
    <2>1. \A n \in Nat : Unmarked(n, Len(replies)) => Unmarked(n, Len(replies))'
        BY <1>1, <1>2, <1>3 DEF Unmarked
    <2>2. ~broken /\ place = "drain" /\ "monitor" \notin state => out # <<>>
        BY <1>1 DEF Cleaned, AllForeseen, Foreseen, Ahead
    <2> QED BY <2>1, <2>2, <1>1, <1>4, EmptySeq DEF Marked, TypeOK
<1> QED BY <1>6, <1>7, <1>8, <1>9

\* What Track does to the modes the client believes in.
LEMMA TrackProps ==
    ASSUME NEW cmd \in Commands, state \in SUBSET Modes, Track(cmd)
    PROVE  /\ state' \in SUBSET Modes
           /\ state \cap Loud \subseteq state'
           /\ cmd \in Channels => "subscribe" \in state'
           /\ cmd = "MONITOR" => "monitor" \in state'
           /\ "multi" \in state' <=>
                cmd = "MULTI" \/ ("multi" \in state /\ cmd \notin {"EXEC", "DISCARD"})
           /\ "watch" \in state /\ cmd \notin {"UNWATCH", "EXEC", "DISCARD"} => "watch" \in state'
           /\ cmd = "WATCH" => "watch" \in state'
BY CommandsAssumption DEF Track, Sets, Clears, Modes, Loud, Channels

\* What Send and Do have in common: a legal command is tracked and sent.
LEMMA SendingStep ==
    ASSUME IInv, NEW cmd \in Commands, place = "app", Legal(cmd), Track(cmd),
           sent' = sent + 1, out' = Sent(out, sent', cmd), place' \in {"app", "do"},
           UNCHANGED <<broken, srv, replies>>
    PROVE  /\ state' \in SUBSET Modes /\ out' \in Seq(OutItems) /\ ~broken
           /\ out' # <<>> /\ Len(out') = Len(out) + 1 /\ Last(out').of = sent'
           /\ state' \cap Loud = {} => state \cap Loud = {}
           /\ Chain' /\ AllForeseen' /\ Tracked' /\ Cleaned' /\ Marked'
<1> USE DEF IInv
<1>1. cmd \in Sendable /\ cmd # "ECHO" /\ sent' \in Nat /\ srv \in SessionSet /\ Len(out) \in Nat
    BY CommandsAssumption DEF Sendable, TypeOK
<1>2. /\ out' \in Seq(OutItems) /\ out' # <<>> /\ Len(out') = Len(out) + 1
      /\ \A i \in 1..Len(out) : out'[i] = out[i]
      /\ out'[Len(out')] = [of |-> sent', is |-> cmd, after |-> Serve(Ahead(out), cmd)]
      /\ Last(out') = out'[Len(out')]
      /\ Ahead(out') = Serve(Ahead(out), cmd)
      /\ Ahead(out) \in SessionSet
    BY <1>1, SentProps DEF TypeOK
<1>3. ~broken
    BY DEF PlacesOK
<1>4. /\ state' \in SUBSET Modes
      /\ state \cap Loud \subseteq state'
      /\ cmd \in Channels => "subscribe" \in state'
      /\ cmd = "MONITOR" => "monitor" \in state'
      /\ "multi" \in state' <=>
            cmd = "MULTI" \/ ("multi" \in state /\ cmd \notin {"EXEC", "DISCARD"})
      /\ "watch" \in state /\ cmd \notin {"UNWATCH", "EXEC", "DISCARD"} => "watch" \in state'
      /\ cmd = "WATCH" => "watch" \in state'
    BY TrackProps DEF TypeOK
<1>5. state' \cap Loud = {} => state \cap Loud = {}
    BY <1>4
<1>6. Chain'
    <2>1. Linked(out')
        BY <1>1, SentLinked DEF TypeOK, Chain
    <2> QED BY <2>1 DEF Chain, Linked, Before
<1>7. Foreseen(state, Ahead(out))
    BY <1>3 DEF AllForeseen, Ahead, Last, TypeOK
<1>8. AllForeseen'
    <2>1. ASSUME NEW s, Foreseen(state, s)
          PROVE  Foreseen(state', s)
        BY <2>1, <1>4, <1>5 DEF Foreseen, Loud
    <2>2. Foreseen(state', Serve(Ahead(out), cmd))
        <3>1. Sound(Serve(Ahead(out), cmd))
            BY <1>1, <1>2, <1>7, ServeSound DEF Foreseen
        <3>2. state' \cap Loud = {} =>
                /\ Serve(Ahead(out), cmd).subs = {} /\ Serve(Ahead(out), cmd).queued = {}
            BY <1>1, <1>2, <1>4, <1>5, <1>7, ServeQuiet DEF Foreseen, Loud
        <3>3. "monitor" \notin state' => ~Serve(Ahead(out), cmd).monitor
            BY <1>1, <1>2, <1>4, <1>7, ServeQuiet DEF Foreseen, Loud
        <3> QED BY <3>1, <3>2, <3>3 DEF Foreseen
    <2> QED BY <2>1, <2>2, <1>1, <1>2, <1>3 DEF AllForeseen
<1>9. Tracked'
    <2>1. /\ Ahead(out).multi <=> "multi" \in state
          /\ Ahead(out).watch => Ahead(out).multi \/ "watch" \in state
        BY <1>3 DEF Tracked
    <2>2. /\ Ahead(out').multi <=> "multi" \in state'
          /\ Ahead(out').watch => Ahead(out').multi \/ "watch" \in state'
        <3>1. /\ cmd = "MULTI" => Ahead(out').multi
              /\ cmd \in {"EXEC", "DISCARD"} => ~Ahead(out').multi /\ ~Ahead(out').watch
              /\ cmd \notin {"MULTI", "EXEC", "DISCARD"} => Ahead(out').multi = Ahead(out).multi
              /\ cmd \notin {"WATCH", "EXEC", "DISCARD"} /\ Ahead(out').watch => Ahead(out).watch
              /\ cmd = "UNWATCH" /\ Ahead(out').watch => Ahead(out).multi
            BY <1>2, ServeModes DEF Legal
        <3> QED BY <3>1, <2>1, <1>4
    <2> QED BY <2>2 DEF Tracked, Ahead
<1>10. Cleaned'
    BY DEF Cleaned
<1>11. Marked'
    BY <1>1, <1>2, <1>3 DEF Marked, Unmarked
<1> QED BY <1>2, <1>3, <1>4, <1>5, <1>6, <1>8, <1>9, <1>10, <1>11

LEMMA SendStep == ASSUME NEW cmd \in Commands PROVE IInv /\ Send(cmd) => IInv'
<1> SUFFICES ASSUME IInv, Send(cmd) PROVE IInv'
    OBVIOUS
<1>1. /\ state' \in SUBSET Modes /\ out' \in Seq(OutItems) /\ ~broken
      /\ Len(out') = Len(out) + 1
      /\ state' \cap Loud = {} => state \cap Loud = {}
      /\ Chain' /\ AllForeseen' /\ Tracked' /\ Cleaned' /\ Marked'
    BY SendingStep DEF Send
<1>2. TypeOK' /\ PlacesOK' /\ Owed' /\ Latest'
    BY <1>1 DEF IInv, Send, TypeOK, PlacesOK, Owed, Latest
<1> QED BY <1>1, <1>2 DEF IInv

LEMMA DoStep == ASSUME NEW cmd \in Commands PROVE IInv /\ Do(cmd) => IInv'
<1> SUFFICES ASSUME IInv, Do(cmd) PROVE IInv'
    OBVIOUS
<1>1. /\ state' \in SUBSET Modes /\ out' \in Seq(OutItems) /\ ~broken
      /\ out' # <<>> /\ Len(out') = Len(out) + 1 /\ Last(out').of = sent'
      /\ state' \cap Loud = {} => state \cap Loud = {}
      /\ Chain' /\ AllForeseen' /\ Tracked' /\ Cleaned' /\ Marked'
    BY SendingStep DEF Do
<1>2. TypeOK' /\ PlacesOK' /\ Owed' /\ Latest'
    BY <1>1 DEF IInv, Do, TypeOK, PlacesOK, Owed, Latest
<1> QED BY <1>1, <1>2 DEF IInv

\* Reading the first reply.
LEMMA ReadProps ==
    ASSUME TypeOK, replies # <<>>
    PROVE  /\ Tail(replies) \in Seq(ReplyItems) /\ Len(Tail(replies)) = Len(replies) - 1
           /\ Len(replies) \in Nat \ {0} /\ Len(out) \in Nat
           /\ \A i \in 1..Len(Tail(replies)) : Tail(replies)[i] = replies[i + 1]
           /\ replies[1] = Head(replies) /\ replies[1] \in ReplyItems /\ Head(replies).of \in Nat
           /\ Len(replies) > 1 => Tail(replies) # <<>> /\ Last(Tail(replies)) = Last(replies)
           /\ Len(replies) = 1 => Last(replies) = Head(replies)
<1>1. /\ Tail(replies) \in Seq(ReplyItems) /\ Len(Tail(replies)) = Len(replies) - 1
      /\ Len(replies) \in Nat \ {0} /\ Len(out) \in Nat
      /\ \A i \in 1..Len(Tail(replies)) : Tail(replies)[i] = replies[i + 1]
      /\ replies[1] = Head(replies) /\ replies[1] \in ReplyItems
    BY DEF TypeOK
<1>2. Head(replies).of \in Nat
    BY <1>1 DEF ReplyItems
<1>3. ASSUME Len(replies) > 1
      PROVE  Tail(replies) # <<>> /\ Last(Tail(replies)) = Last(replies)
    <2>1. ASSUME NEW o \in Seq(ReplyItems), Len(o) > 0
          PROVE  o # <<>>
        BY <2>1
    <2>2. Last(Tail(replies)) = Last(replies)
        BY <1>1, <1>3 DEF Last
    <2> QED BY <2>1, <2>2, <1>1, <1>3
<1>4. Len(replies) = 1 => Last(replies) = Head(replies)
    BY <1>1 DEF Last
<1> QED BY <1>1, <1>2, <1>3, <1>4

LEMMA ReceiveStep == IInv /\ Receive => IInv'
<1> SUFFICES ASSUME IInv, Receive PROVE IInv'
    OBVIOUS
<1> USE DEF IInv
<1>1. /\ Tail(replies) \in Seq(ReplyItems) /\ Len(Tail(replies)) = Len(replies) - 1
      /\ Len(replies) \in Nat \ {0} /\ Len(out) \in Nat
      /\ \A i \in 1..Len(Tail(replies)) : Tail(replies)[i] = replies[i + 1]
    BY ReadProps DEF Receive
<1>2. TypeOK' /\ PlacesOK' /\ Owed' /\ Latest'
    BY <1>1 DEF Receive, TypeOK, PlacesOK, Owed, Latest
<1>3. Chain' /\ AllForeseen' /\ Tracked' /\ Cleaned'
    BY DEF Receive, Chain, Linked, Before, AllForeseen, Tracked, Cleaned, Ahead
<1>4. Marked'
    BY <1>1 DEF Receive, Marked, Unmarked
<1> QED BY <1>2, <1>3, <1>4

LEMMA DoReadsStep == IInv /\ DoReads => IInv'
<1> SUFFICES ASSUME IInv, DoReads PROVE IInv'
    OBVIOUS
<1> USE DEF IInv
<1>1. /\ Tail(replies) \in Seq(ReplyItems) /\ Len(Tail(replies)) = Len(replies) - 1
      /\ Len(replies) \in Nat \ {0} /\ Len(out) \in Nat
      /\ \A i \in 1..Len(Tail(replies)) : Tail(replies)[i] = replies[i + 1]
      /\ Head(replies).of \in Nat
      /\ Len(replies) > 1 => Tail(replies) # <<>> /\ Last(Tail(replies)) = Last(replies)
      /\ Len(replies) = 1 => Last(replies) = Head(replies)
    BY ReadProps DEF DoReads
<1>2. TypeOK' /\ PlacesOK' /\ Owed'
    BY <1>1 DEF DoReads, TypeOK, PlacesOK, Owed
<1>3. Chain' /\ AllForeseen' /\ Tracked' /\ Cleaned'
    BY DEF DoReads, Chain, Linked, Before, AllForeseen, Tracked, Cleaned, Ahead
<1>4. Marked'
    BY <1>1 DEF DoReads, Marked, Unmarked
<1>5. Latest'
    <2>1. SUFFICES ASSUME ~broken, place = "do", state \cap Loud = {}
          PROVE  IF toRead - 1 = 0 THEN Head(replies).of = sent
                 ELSE IF out # <<>> THEN Last(out).of = sent
                 ELSE Last(Tail(replies)).of = sent
        BY DEF DoReads, Latest
    <2>2. /\ toRead = Len(out) + Len(replies) /\ toRead > 0
          /\ IF out # <<>> THEN Last(out).of = sent ELSE Last(replies).of = sent
        BY <2>1 DEF Owed, Latest, DoReads, TypeOK
    <2>3. (out = <<>>) = (Len(out) = 0)
        BY DEF TypeOK
    <2> QED BY <2>2, <2>3, <1>1
<1> QED BY <1>2, <1>3, <1>4, <1>5

LEMMA DoReturnsStep == IInv /\ DoReturns => IInv'
<1> SUFFICES ASSUME IInv, DoReturns PROVE IInv'
    OBVIOUS
<1> USE DEF IInv
<1>1. TypeOK' /\ PlacesOK' /\ Owed' /\ Latest'
    BY DEF DoReturns, wire, TypeOK, PlacesOK, Owed, Latest
<1>2. Chain' /\ AllForeseen' /\ Tracked' /\ Cleaned' /\ Marked'
    BY DEF DoReturns, wire, Chain, Linked, Before, AllForeseen, Tracked, Cleaned, Ahead, Marked,
           Unmarked
<1> QED BY <1>1, <1>2

\* A session in none of the modes is a fresh one.
LEMMA IsFresh ==
    ASSUME NEW s \in SessionSet, ~s.multi, ~s.watch, s.queued = {}, s.subs = {}, ~s.monitor
    PROVE  s = Fresh
BY DEF SessionSet, Fresh

\* A queue that the clean-up can work on, and what stays true of it.
Cleanable(o) ==
    /\ o \in Seq(OutItems) /\ Linked(o) /\ Foreseen(state, Ahead(o))
    /\ \A i \in 1..Len(o) : o[i].is # "ECHO" /\ Foreseen(state, o[i].after)

LEMMA CleaningStep ==
    ASSUME srv \in SessionSet, NEW o, Cleanable(o),
           NEW cmd \in {"DISCARD", "UNWATCH", "UNSUBSCRIBE", "PUNSUBSCRIBE", "ECHO"}
    PROVE  LET n == Sent(o, 0, cmd)
           IN  /\ cmd # "ECHO" => Cleanable(n)
               /\ n \in Seq(OutItems) /\ Linked(n) /\ n # <<>> /\ Len(n) = Len(o) + 1
               /\ \A i \in 1..Len(n) : Foreseen(state, n[i].after)
               /\ \A i \in 1..Len(o) : n[i].is # "ECHO"
               /\ Last(n).is = cmd
               /\ Ahead(n) = Serve(Ahead(o), cmd)
               /\ Ahead(o) \in SessionSet /\ Ahead(n) \in SessionSet
               /\ Refused(o) \/ Rejects(Ahead(o), cmd) => Refused(n)
<1> DEFINE n == Sent(o, 0, cmd)
<1> HIDE DEF n
<1>1. cmd \in Sendable /\ 0 \in Nat /\ o \in Seq(OutItems) /\ Len(o) \in Nat
    BY DEF Sendable, Cleanable
<1>2. /\ n \in Seq(OutItems) /\ n # <<>> /\ Len(n) = Len(o) + 1
      /\ \A i \in 1..Len(o) : n[i] = o[i]
      /\ n[Len(n)] = [of |-> 0, is |-> cmd, after |-> Serve(Ahead(o), cmd)]
      /\ Last(n) = n[Len(n)]
      /\ Ahead(n) = Serve(Ahead(o), cmd)
      /\ Before(o, Len(o) + 1) = Ahead(o)
      /\ \A i \in 1..Len(n) : Before(n, i) = Before(o, i)
      /\ Ahead(o) \in SessionSet
    BY <1>1, SentProps DEF n
<1>3. Linked(n)
    BY <1>1, SentLinked DEF n, Cleanable
<1>4. Ahead(n) \in SessionSet
    BY <1>1, <1>2, ServeType
<1>5. Foreseen(state, Ahead(n))
    <2>1. Sound(Ahead(n))
        BY <1>1, <1>2, ServeSound DEF Cleanable, Foreseen
    <2>2. /\ state \cap Loud = {} => Ahead(n).subs = {} /\ Ahead(n).queued = {}
          /\ "monitor" \notin state => ~Ahead(n).monitor
        <3>1. cmd \notin Channels /\ cmd # "MONITOR"
            BY DEF Channels
        <3> QED BY <3>1, <1>1, <1>2, ServeQuiet DEF Cleanable, Foreseen
    <2> QED BY <2>1, <2>2 DEF Foreseen
<1>6. \A i \in 1..Len(n) : Foreseen(state, n[i].after)
    BY <1>1, <1>2, <1>5 DEF Cleanable
<1>7. \A i \in 1..Len(o) : n[i].is # "ECHO"
    BY <1>2 DEF Cleanable
<1>8. Refused(o) \/ Rejects(Ahead(o), cmd) => Refused(n)
    BY <1>1, <1>2 DEF Refused
<1>9. cmd # "ECHO" => Cleanable(n)
    BY <1>1, <1>2, <1>3, <1>5, <1>6, <1>7 DEF Cleanable
<1> QED BY <1>2, <1>3, <1>4, <1>6, <1>7, <1>8, <1>9 DEF n

\* What the clean-up does to a session.
LEMMA ResetSession ==
    ASSUME NEW s \in SessionSet, Sound(s)
    PROVE  /\ s.multi => LET t == Serve(s, "DISCARD") IN
                ~t.multi /\ ~t.watch /\ t.queued = {} /\ t.subs = {} /\ t.monitor = s.monitor
           /\ ~s.multi => LET t == Serve(s, "UNWATCH") IN
                /\ ~t.multi /\ t.queued = {} /\ t.subs = s.subs /\ t.monitor = s.monitor
                /\ t.watch => Rejects(s, "UNWATCH")
BY DEF Sound, Serve, SessionSet, Rejects, Channels

LEMMA UnsubscribeSession ==
    ASSUME NEW s \in SessionSet, ~s.multi, s.queued = {}
    PROVE  LET t == Serve(Serve(Serve(s, "UNSUBSCRIBE"), "PUNSUBSCRIBE"), "ECHO")
           IN  t.subs = {} /\ ~t.multi /\ t.queued = {} /\ t.watch = s.watch /\ t.monitor = s.monitor
<1> DEFINE u == Serve(s, "UNSUBSCRIBE")
           v == Serve(u, "PUNSUBSCRIBE")
<1>1. u = [s EXCEPT !.subs = @ \ {"SUBSCRIBE"}]
    BY DEF Serve, SessionSet, Rejects, Channels
<1>2. u \in SessionSet /\ ~u.multi /\ u.queued = {} /\ u.watch = s.watch /\ u.monitor = s.monitor
      /\ u.subs \subseteq {"PSUBSCRIBE"}
    BY <1>1 DEF SessionSet, Channels
<1> HIDE DEF u
<1>3. v = [u EXCEPT !.subs = @ \ {"PSUBSCRIBE"}]
    BY <1>2 DEF Serve, SessionSet, Rejects, Channels
<1>4. v \in SessionSet /\ ~v.multi /\ v.queued = {} /\ v.watch = s.watch /\ v.monitor = s.monitor
      /\ v.subs = {}
    BY <1>2, <1>3 DEF SessionSet, Channels
<1> HIDE DEF v
<1>5. Serve(v, "ECHO") = v
    BY <1>4 DEF Serve, SessionSet, Rejects, Channels
<1> QED BY <1>4, <1>5 DEF u, v

LEMMA CloseSendsStep == IInv /\ CloseSends => IInv'
<1> SUFFICES ASSUME IInv, CloseSends PROVE IInv'
    OBVIOUS
<1> USE DEF IInv
<1> DEFINE r == Reset(out)
           n == Unsubscribe(r)
<1>1. /\ place = "app" /\ out' = n
      /\ pending' = pending + Len(n) - Len(out)
      /\ state' = state \ (IF "multi" \in state THEN {"multi", "watch"} ELSE {"watch"})
      /\ place' = IF "subscribe" \in state THEN "drain" ELSE "drained"
      /\ UNCHANGED <<broken, toRead, lastRead, sent, srv, replies, pushed>>
    BY DEF CloseSends
<1>2. /\ ~broken /\ srv \in SessionSet /\ Len(out) \in Nat /\ Len(replies) \in Nat
    BY <1>1 DEF PlacesOK, TypeOK
<1>3. Cleanable(out) /\ Ahead(out) \in SessionSet
    <2>1. Foreseen(state, Ahead(out)) /\ Ahead(out) \in SessionSet
        <3>1. CASE out = <<>>
            BY <3>1, <1>2 DEF AllForeseen, Ahead
        <3>2. CASE out # <<>>
            <4>1. Len(out) \in 1..Len(out) /\ out[Len(out)] \in OutItems
                BY <3>2 DEF TypeOK
            <4> QED BY <3>2, <4>1, <1>2 DEF AllForeseen, Ahead, Last, OutItems
        <3> QED BY <3>1, <3>2
    <2> QED BY <1>1, <1>2, <2>1 DEF Cleanable, Chain, AllForeseen, Marked, Unmarked, TypeOK
<1>4. /\ Ahead(out).multi <=> "multi" \in state
      /\ Ahead(out).watch => Ahead(out).multi \/ "watch" \in state
    BY <1>1, <1>2 DEF Tracked
<1>5. Sound(Ahead(out))
    BY <1>3 DEF Cleanable, Foreseen
<1>6. /\ Cleanable(r) /\ Ahead(r) \in SessionSet /\ Len(r) \in Nat /\ Len(r) >= Len(out)
      /\ ~Ahead(r).multi /\ Ahead(r).queued = {}
      /\ Ahead(r).watch => Refused(r) /\ Ahead(r).subs # {}
    <2>1. CASE "multi" \in state
        <3>1. r = Sent(out, 0, "DISCARD")
            BY <2>1 DEF Reset
        <3>2. /\ Cleanable(r) /\ Ahead(r) = Serve(Ahead(out), "DISCARD") /\ Ahead(r) \in SessionSet
              /\ Len(r) = Len(out) + 1
            BY <3>1, <1>2, <1>3, CleaningStep
        <3> QED BY <2>1, <3>2, <1>2, <1>3, <1>4, <1>5, ResetSession
    <2>2. CASE "multi" \notin state /\ "watch" \in state
        <3>1. r = Sent(out, 0, "UNWATCH")
            BY <2>2 DEF Reset
        <3>2. /\ Cleanable(r) /\ Ahead(r) = Serve(Ahead(out), "UNWATCH") /\ Ahead(r) \in SessionSet
              /\ Len(r) = Len(out) + 1
              /\ Rejects(Ahead(out), "UNWATCH") => Refused(r)
            BY <3>1, <1>2, <1>3, CleaningStep
        <3>3. /\ ~Ahead(r).multi /\ Ahead(r).queued = {} /\ Ahead(r).subs = Ahead(out).subs
              /\ Ahead(r).watch => Rejects(Ahead(out), "UNWATCH")
            BY <2>2, <3>2, <1>3, <1>4, <1>5, ResetSession
        <3>4. Rejects(Ahead(out), "UNWATCH") => Ahead(out).subs # {}
            BY <2>2, <1>4 DEF Rejects
        <3> QED BY <3>2, <3>3, <3>4, <1>2
    <2>3. CASE "multi" \notin state /\ "watch" \notin state
        <3>1. r = out
            BY <2>3 DEF Reset
        <3> QED BY <2>3, <3>1, <1>2, <1>3, <1>4, <1>5 DEF Sound
    <2> QED BY <2>1, <2>2, <2>3
<1>7. state' \in SUBSET Modes /\ state' \cap Loud = state \cap Loud
    BY <1>1 DEF TypeOK, Modes, Loud
<1>8. \A s : Foreseen(state, s) => Foreseen(state', s)
    BY <1>7 DEF Foreseen, Loud
<1>9. "monitor" \notin state => ~Ahead(r).monitor
    BY <1>6 DEF Cleanable, Foreseen
<1> HIDE DEF r
<1>10. CASE "subscribe" \in state
    <2> DEFINE a == Sent(r, 0, "UNSUBSCRIBE")
               b == Sent(a, 0, "PUNSUBSCRIBE")
    <2>1. n = Sent(b, 0, "ECHO")
        BY <1>10 DEF Unsubscribe, LeaveChannels
    <2>2. /\ Cleanable(a) /\ Ahead(a) = Serve(Ahead(r), "UNSUBSCRIBE") /\ Len(a) = Len(r) + 1
          /\ Refused(r) => Refused(a)
        BY <1>2, <1>6, CleaningStep
    <2> HIDE DEF a
    <2>3. /\ Cleanable(b) /\ Ahead(b) = Serve(Ahead(a), "PUNSUBSCRIBE") /\ Len(b) = Len(a) + 1
          /\ Refused(a) => Refused(b)
        BY <1>2, <2>2, CleaningStep
    <2> HIDE DEF b, n
    <2>4. /\ n \in Seq(OutItems) /\ Linked(n) /\ n # <<>> /\ Len(n) = Len(b) + 1
          /\ \A i \in 1..Len(n) : Foreseen(state, n[i].after)
          /\ \A i \in 1..Len(b) : n[i].is # "ECHO"
          /\ Last(n).is = "ECHO"
          /\ Ahead(n) = Serve(Ahead(b), "ECHO")
          /\ Ahead(n) \in SessionSet
          /\ Refused(b) => Refused(n)
        BY <1>2, <2>1, <2>3, CleaningStep
    <2>5. Len(n) = Len(r) + 3
        BY <1>6, <2>2, <2>3, <2>4
    <2>6. /\ Ahead(n).subs = {} /\ ~Ahead(n).multi /\ Ahead(n).queued = {}
          /\ Ahead(n).watch = Ahead(r).watch /\ Ahead(n).monitor = Ahead(r).monitor
        BY <1>6, <2>2, <2>3, <2>4, UnsubscribeSession
    <2>7. place' = "drain" /\ "subscribe" \in state'
        BY <1>1, <1>10
    <2>8. Linked(out)' /\ (Refused(n) => Refused(out)') /\ Ahead(out)' = Ahead(n)
        BY <1>1, <2>4 DEF Linked, Refused, Before, Ahead
    <2>9. TypeOK' /\ PlacesOK' /\ Owed' /\ Latest'
        <3>1. pending \in Nat /\ pending' \in Nat /\ toRead = 0
            BY <1>1, <1>2, <1>6, <2>5 DEF TypeOK, Owed
        <3>2. TypeOK'
            BY <3>1, <1>1, <1>7, <2>4, <2>7 DEF TypeOK
        <3>3. PlacesOK' /\ Latest'
            BY <1>1, <1>2, <2>7 DEF PlacesOK, Latest
        <3>4. Owed'
            BY <3>1, <1>1, <1>2, <1>6, <1>7, <2>5, <2>7 DEF Owed
        <3> QED BY <3>2, <3>3, <3>4
    <2>10. Chain' /\ AllForeseen' /\ Tracked'
        BY <1>1, <1>2, <1>8, <2>4, <2>7, <2>8 DEF Chain, AllForeseen, Tracked
    <2>11. Cleaned'
        <3>1. "monitor" \notin state => Ahead(n) = Fresh \/ Refused(n)
            <4>1. CASE Ahead(r).watch
                BY <4>1, <1>6, <2>2, <2>3, <2>4
            <4>2. CASE ~Ahead(r).watch
                BY <4>2, <1>9, <2>4, <2>6, IsFresh
            <4> QED BY <4>1, <4>2
        <3> QED BY <3>1, <1>1, <1>7, <2>6, <2>7, <2>8 DEF Cleaned, ErrorComes, Loud
    <2>12. Marked'
        <3>1. Unmarked(Len(out) - 1, Len(replies))'
            <4>1. \A i \in 1..Len(replies) : replies[i].is # "sentinel"
                BY <1>1, <1>2 DEF Marked, Unmarked
            <4> QED BY <4>1, <1>1, <1>6, <2>2, <2>3, <2>4 DEF Unmarked
        <3> QED BY <3>1, <1>1, <2>4, <2>7 DEF Marked
    <2> QED BY <2>9, <2>10, <2>11, <2>12
<1>11. CASE "subscribe" \notin state
    <2>1. n = r
        BY <1>11 DEF Unsubscribe
    <2> HIDE DEF n
    <2>2. place' = "drained" /\ "subscribe" \notin state'
        BY <1>1, <1>11
    <2>3. /\ n \in Seq(OutItems) /\ Linked(n)
          /\ \A i \in 1..Len(n) : Foreseen(state, n[i].after)
        BY <1>6, <2>1 DEF Cleanable
    <2>4. Linked(out)' /\ Ahead(out)' = Ahead(n)
        BY <1>1, <2>3 DEF Linked, Before, Ahead
    <2>5. TypeOK' /\ PlacesOK' /\ Latest' /\ Marked'
        BY <1>1, <1>2, <1>6, <1>7, <2>1, <2>2, <2>3 DEF TypeOK, PlacesOK, Latest, Marked
    <2>6. Owed'
        BY <1>1, <1>2, <1>6, <1>7, <2>1, <2>2 DEF Owed, TypeOK
    <2>7. Chain' /\ AllForeseen' /\ Tracked'
        BY <1>1, <1>2, <1>8, <2>2, <2>3, <2>4 DEF Chain, AllForeseen, Tracked
    <2>8. Cleaned'
        <3>1. ASSUME "monitor" \notin state
              PROVE  Ahead(n) = Fresh
            <4>1. Ahead(r).subs = {}
                BY <3>1, <1>6, <1>11 DEF Cleanable, Foreseen, Loud
            <4> QED BY <3>1, <4>1, <1>6, <1>9, <2>1, IsFresh
        <3> QED BY <3>1, <1>1, <1>7, <2>2, <2>4 DEF Cleaned, Loud
    <2> QED BY <2>5, <2>6, <2>7, <2>8
<1> QED BY <1>10, <1>11

LEMMA DrainStep == IInv /\ Drain => IInv'
<1> SUFFICES ASSUME IInv, Drain PROVE IInv'
    OBVIOUS
<1> USE DEF IInv
<1> DEFINE is == Head(replies).is
<1>1. /\ place = "drain" /\ replies # <<>> /\ replies' = Tail(replies)
      /\ pending' = IF pending > 0 THEN pending - 1 ELSE 0
      /\ place' = IF is \in {"sentinel", "error"} THEN "drained" ELSE "drain"
      /\ state' = IF is = "sentinel" THEN state \ {"subscribe"} ELSE state
      /\ UNCHANGED <<broken, toRead, lastRead, sent, out, srv, pushed>>
    BY DEF Drain
<1>2. /\ Tail(replies) \in Seq(ReplyItems) /\ Len(Tail(replies)) = Len(replies) - 1
      /\ Len(replies) \in Nat \ {0} /\ Len(out) \in Nat
      /\ \A i \in 1..Len(Tail(replies)) : Tail(replies)[i] = replies[i + 1]
      /\ replies[1] = Head(replies)
      /\ Len(replies) > 1 => Tail(replies) # <<>> /\ Last(Tail(replies)) = Last(replies)
      /\ Len(replies) = 1 => Last(replies) = Head(replies)
    BY <1>1, ReadProps
<1>3. ~broken /\ "subscribe" \in state
    BY <1>1 DEF PlacesOK, Marked
<1>4. TypeOK' /\ PlacesOK' /\ Chain' /\ Tracked' /\ Latest'
    BY <1>1, <1>2, <1>3 DEF TypeOK, PlacesOK, Chain, Linked, Before, Tracked, Latest, Ahead
<1>5. pending' + toRead' <= Len(out') + Len(replies')
    BY <1>1, <1>2, <1>3 DEF Owed, TypeOK
<1>6. CASE is # "sentinel"
    <2>1. AllForeseen'
        BY <1>1, <1>6 DEF AllForeseen
    <2>2. Owed'
        BY <1>1, <1>3, <1>5, <1>6 DEF Owed, Loud
    <2>3. Cleaned'
        <3>1. is # "error" /\ ErrorComes => ErrorComes'
            <4>1. Refused(out) => Refused(out)'
                BY <1>1 DEF Refused, Before
            <4>2. ASSUME NEW i \in 1..Len(replies), replies[i].is = "error", is # "error"
                  PROVE  \E j \in 1..Len(Tail(replies)) : Tail(replies)[j].is = "error"
                <5>1. i - 1 \in 1..Len(Tail(replies)) /\ Tail(replies)[i - 1] = replies[i]
                    BY <4>2, <1>2
                <5> QED BY <5>1, <4>2
            <4> QED BY <4>1, <4>2, <1>1 DEF ErrorComes
        <3> QED BY <3>1, <1>1, <1>3, <1>6 DEF Cleaned, Ahead
    <2>4. Marked'
        <3>1. ASSUME is # "error", "monitor" \notin state, out = <<>>
              PROVE  /\ Tail(replies) # <<>> /\ Last(Tail(replies)).is = "sentinel"
                     /\ Unmarked(0, Len(replies) - 1)'
            <4>1. Last(replies).is = "sentinel" /\ Unmarked(0, Len(replies) - 1)
                BY <3>1, <1>1, <1>3 DEF Marked
            <4>2. Len(replies) > 1
                BY <4>1, <1>2, <1>6
            <4> QED BY <4>1, <4>2, <1>1, <1>2 DEF Unmarked
        <3>2. ASSUME "monitor" \notin state, out # <<>>
              PROVE  Last(out).is = "ECHO" /\ Unmarked(Len(out) - 1, Len(replies))'
            <4>1. Last(out).is = "ECHO" /\ Unmarked(Len(out) - 1, Len(replies))
                BY <3>2, <1>1, <1>3 DEF Marked
            <4> QED BY <4>1, <1>1, <1>2 DEF Unmarked
        <3> QED BY <3>1, <3>2, <1>1, <1>3, <1>6 DEF Marked
    <2> QED BY <1>4, <2>1, <2>2, <2>3, <2>4
<1>7. CASE is = "sentinel"
    <2>1. ASSUME "monitor" \notin state
          PROVE  out = <<>> /\ Len(replies) = 1 /\ srv = Fresh
        <3>1. out = <<>>
            BY <2>1, <1>1, <1>2, <1>3, <1>7 DEF Marked, Unmarked
        <3>2. Len(replies) = 1
            BY <2>1, <3>1, <1>1, <1>2, <1>3, <1>7 DEF Marked, Unmarked
        <3>3. ~ErrorComes
            BY <3>1, <3>2, <1>2, <1>7 DEF ErrorComes, Refused
        <3> QED BY <2>1, <3>1, <3>2, <3>3, <1>1, <1>3 DEF Cleaned, Ahead
    <2>2. AllForeseen'
        <3>1. CASE "monitor" \in state
            BY <3>1, <1>1, <1>7 DEF AllForeseen, Foreseen, Loud
        <3>2. CASE "monitor" \notin state
            BY <3>2, <2>1, <1>1 DEF AllForeseen, Foreseen, Fresh, Sound
        <3> QED BY <3>1, <3>2
    <2>3. Owed'
        <3>1. CASE "monitor" \in state
            BY <3>1, <1>1, <1>3, <1>5, <1>7 DEF Owed, Loud
        <3>2. CASE "monitor" \notin state
            BY <3>2, <2>1, <1>1, <1>2, <1>3, <1>5, <1>7 DEF Owed, TypeOK
        <3> QED BY <3>1, <3>2
    <2>4. Cleaned'
        BY <2>1, <1>1, <1>7 DEF Cleaned, Ahead
    <2>5. Marked'
        BY <1>1, <1>7 DEF Marked
    <2> QED BY <1>4, <2>2, <2>3, <2>4, <2>5
<1> QED BY <1>6, <1>7

LEMMA FinishStep == IInv /\ Finish => IInv'
<1> SUFFICES ASSUME IInv, Finish PROVE IInv'
    OBVIOUS
<1> USE DEF IInv
<1>1. TypeOK' /\ PlacesOK' /\ Owed' /\ Latest'
    BY DEF Finish, wire, TypeOK, PlacesOK, Owed, Latest
<1>2. Chain' /\ AllForeseen' /\ Tracked' /\ Cleaned' /\ Marked'
    BY DEF Finish, wire, Chain, Linked, Before, AllForeseen, Tracked, Cleaned, Ahead, Marked
<1> QED BY <1>1, <1>2

LEMMA PutStep == IInv /\ Put => IInv'
<1> SUFFICES ASSUME IInv, Put PROVE IInv'
    OBVIOUS
<1> USE DEF IInv
<1>1. TypeOK' /\ PlacesOK' /\ Owed' /\ Latest'
    BY DEF Put, TypeOK, PlacesOK, Owed, Latest
<1>2. Chain' /\ AllForeseen' /\ Tracked' /\ Cleaned'
    BY DEF Put, Chain, Linked, Before, AllForeseen, Tracked, Cleaned, Ahead
<1>3. Marked'
    <2>1. place' = "pool" => Len(out) = 0 /\ Len(replies) = 0
        BY DEF Put, Owed, TypeOK
    <2> QED BY <2>1 DEF Put, Marked, Unmarked
<1> QED BY <1>1, <1>2, <1>3

LEMMA FailStep == IInv /\ Fail => IInv'
<1> SUFFICES ASSUME IInv, Fail PROVE IInv'
    OBVIOUS
<1> USE DEF IInv
<1>1. <<>> \in Seq(OutItems) /\ <<>> \in Seq(ReplyItems)
    OBVIOUS
<1>2. TypeOK' /\ PlacesOK' /\ Owed' /\ Latest'
    BY <1>1 DEF Fail, TypeOK, PlacesOK, Owed, Latest
<1>3. Chain' /\ AllForeseen' /\ Tracked' /\ Cleaned' /\ Marked'
    BY DEF Fail, Chain, Linked, AllForeseen, Tracked, Cleaned, Marked
<1> QED BY <1>2, <1>3

LEMMA RedialStep == IInv /\ Redial => IInv'
<1> SUFFICES ASSUME IInv, Redial PROVE IInv'
    OBVIOUS
<1> USE DEF IInv
<1>1. <<>> \in Seq(OutItems) /\ <<>> \in Seq(ReplyItems)
    OBVIOUS
<1>2. Fresh \in SessionSet /\ Foreseen({}, Fresh)
    BY DEF Fresh, SessionSet, Foreseen, Sound
<1>3. TypeOK' /\ PlacesOK' /\ Owed' /\ Latest'
    <2>1. TypeOK'
        BY <1>1, <1>2 DEF Redial, TypeOK
    <2>2. PlacesOK' /\ Latest'
        BY DEF Redial, PlacesOK, Latest
    <2>3. Len(<<>>) = 0 /\ toRead = 0
        BY DEF Redial, PlacesOK
    <2>4. Owed'
        BY <2>3 DEF Redial, Owed
    <2> QED BY <2>1, <2>2, <2>4
<1>4. Chain' /\ AllForeseen' /\ Tracked' /\ Cleaned' /\ Marked'
    BY <1>2 DEF Redial, Chain, Linked, AllForeseen, Tracked, Cleaned, Ahead, Marked, Unmarked
<1> QED BY <1>3, <1>4

LEMMA BorrowStep == IInv /\ Borrow => IInv'
<1> SUFFICES ASSUME IInv, Borrow PROVE IInv'
    OBVIOUS
<1> USE DEF IInv
<1>1. state' = state /\ ~broken /\ state = {}
    BY DEF Borrow, PlacesOK
<1>2. TypeOK' /\ PlacesOK' /\ Owed' /\ Latest'
    BY <1>1 DEF Borrow, wire, TypeOK, PlacesOK, Owed, Latest
<1>3. Chain' /\ AllForeseen' /\ Cleaned' /\ Marked'
    BY <1>1 DEF Borrow, wire, Chain, Linked, Before, AllForeseen, Cleaned, Ahead, Marked, Unmarked
<1>4. Tracked'
    <2>1. Ahead(out) = Fresh
        BY <1>1 DEF Borrow, Cleaned
    <2>2. Ahead(out)' = Ahead(out)
        BY DEF Borrow, wire, Ahead
    <2> QED BY <1>1, <2>1, <2>2 DEF Tracked, Fresh
<1> QED BY <1>2, <1>3, <1>4

LEMMA StutterStep == IInv /\ UNCHANGED vars => IInv'
<1> SUFFICES ASSUME IInv, UNCHANGED vars PROVE IInv'
    OBVIOUS
<1> USE DEF IInv, vars, local, wire
<1>1. TypeOK' /\ PlacesOK' /\ Owed' /\ Latest'
    BY DEF TypeOK, PlacesOK, Owed, Latest
<1>2. Chain' /\ AllForeseen' /\ Tracked' /\ Cleaned' /\ Marked'
    BY DEF Chain, Linked, Before, AllForeseen, Tracked, Cleaned, ErrorComes, Refused, Ahead,
           Marked, Unmarked
<1> QED BY <1>1, <1>2

-----------------------------------------------------------------------------
(* The theorems *)

\* Every state of a connection satisfies the inductive invariant.
THEOREM PooledConnInvariant == Spec => []IInv
<1>1. IInv /\ [Next]_vars => IInv'
    BY ServerAnswersStep, ServerPushesStep, SendStep, DoStep, ReceiveStep, DoReadsStep,
       DoReturnsStep, CloseSendsStep, DrainStep, FinishStep, PutStep, FailStep, RedialStep,
       BorrowStep, StutterStep DEF Next
<1> QED BY <1>1, InitIInv, PTL DEF Spec

\* The state has its types: the client's modes, the commands and the replies on
\* their way, and the session of the server (pool.go, conn.go).
THEOREM PooledConnTypes == Spec => []TypeOK
BY PooledConnInvariant, PTL DEF IInv

\* pooledConnection.Close leaves no mode, no unread reply and no error behind:
\* whatever the borrower pipelined, opened or subscribed to, the connection in
\* the idle list is as good as a new one (pool.go 362-402).
THEOREM PooledConnCleanInPool == Spec => []CleanInPool
<1>1. IInv => CleanInPool
    <2>1. SUFFICES ASSUME IInv, place = "pool"
          PROVE  /\ ~broken /\ srv = Fresh
                 /\ out = <<>> /\ replies = <<>> /\ pending = 0
        BY DEF CleanInPool
    <2>2. ~broken /\ state = {} /\ pending = 0 /\ toRead = 0
        BY <2>1 DEF IInv, PlacesOK
    <2>3. Len(out) + Len(replies) = 0 /\ Len(out) \in Nat /\ Len(replies) \in Nat
        BY <2>1, <2>2 DEF IInv, Owed, TypeOK
    <2>4. out = <<>> /\ replies = <<>>
        BY <2>1, <2>3, EmptySeq DEF IInv, TypeOK
    <2> QED BY <2>1, <2>2, <2>4 DEF IInv, Cleaned, Ahead
<1> QED BY <1>1, PooledConnInvariant, PTL

\* Do returns the reply to its own command, after any number of pipelined ones,
\* while the session takes no messages (conn.go 594-633).
THEOREM PooledConnDoGetsItsReply == Spec => []DoGetsItsReply
<1>1. IInv => DoGetsItsReply
    BY DEF IInv, PlacesOK, Latest, DoGetsItsReply, Loud
<1> QED BY <1>1, PooledConnInvariant, PTL

\* The client never waits for a reply that the server does not owe it.
THEOREM PooledConnPendingIsOwed == Spec => []PendingIsOwed
<1>1. IInv => PendingIsOwed
    BY DEF IInv, Owed, PendingIsOwed
<1> QED BY <1>1, PooledConnInvariant, PTL

=============================================================================
