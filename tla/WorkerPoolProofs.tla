--------------------------- MODULE WorkerPoolProofs ---------------------------
(* Theorems about WorkerPool, for every number of connections, workers and     *)
(* channels and both capacities.                                               *)
EXTENDS WorkerPool, FiniteSetTheorems, SequenceTheorems, TLAPS

-------------------------------------------------------------------------------
(* Lists without repetition, as those of idle workers and of connections: what   *)
(* is in them when elements are taken or added, or when they are cut or joined.  *)

Members(s) == {s[i] : i \in 1..Len(s)}
Once(s) == \A i, j \in 1..Len(s) : s[i] = s[j] => i = j

LEMMA OnceEmpty == Once(<<>>) /\ Members(<<>>) = {}
  BY DEF Once, Members

LEMMA OnceHeadTail ==
  ASSUME NEW S, NEW s \in Seq(S), s # <<>>, Once(s)
  PROVE  /\ Head(s) \in S /\ Tail(s) \in Seq(S)
         /\ Once(Tail(s))
         /\ Members(Tail(s)) = Members(s) \ {Head(s)}
         /\ Head(s) \in Members(s)
  <1> DEFINE n == Len(s)
  <1>1. n \in Nat \ {0} /\ Head(s) = s[1] /\ Head(s) \in S /\ Tail(s) \in Seq(S)
    OBVIOUS
  <1>2. Len(Tail(s)) = n - 1 /\ \A i \in 1..n - 1 : Tail(s)[i] = s[i + 1]
    OBVIOUS
  <1> DEFINE r == Tail(s)
  <1> HIDE DEF r, n
  <1>3. \A i \in 1..n - 1 : i + 1 \in 1..n
    BY <1>1
  <1>4. Once(r)
    <2> SUFFICES ASSUME NEW i \in 1..n - 1, NEW j \in 1..n - 1, r[i] = r[j] PROVE i = j
      BY <1>2 DEF Once, r
    <2>1. s[i + 1] = s[j + 1]
      BY <1>2 DEF r
    <2>2. i + 1 = j + 1
      BY <2>1, <1>3 DEF Once, n
    <2> QED BY <2>2, <1>1
  <1>5. Members(r) = Members(s) \ {Head(s)}
    <2>1. ASSUME NEW x \in Members(r) PROVE x \in Members(s) \ {Head(s)}
      <3>1. PICK i \in 1..n - 1 : x = s[i + 1]
        BY <1>2 DEF Members, r
      <3>2. i + 1 \in 1..n /\ 1 \in 1..n /\ i + 1 # 1
        BY <1>1
      <3> QED BY <3>1, <3>2, <1>1 DEF Members, Once, n
    <2>2. ASSUME NEW x \in Members(s) \ {Head(s)} PROVE x \in Members(r)
      <3>1. PICK i \in 1..n : x = s[i]
        BY DEF Members, n
      <3>2. i - 1 \in 1..n - 1 /\ (i - 1) + 1 = i
        BY <3>1, <1>1
      <3> QED BY <3>1, <3>2, <1>2 DEF Members, r
    <2> QED BY <2>1, <2>2
  <1>6. Head(s) \in Members(s)
    BY <1>1 DEF Members, n
  <1> QED BY <1>1, <1>4, <1>5, <1>6 DEF r

LEMMA OnceSplit ==
  ASSUME NEW S, NEW s \in Seq(S), NEW k \in 0..Len(s), Once(s)
  PROVE  LET p == SubSeq(s, 1, k)
             q == SubSeq(s, k + 1, Len(s))
         IN  /\ p \in Seq(S) /\ q \in Seq(S)
             /\ Once(p) /\ Once(q)
             /\ Members(p) \cap Members(q) = {}
             /\ Members(p) \cup Members(q) = Members(s)
  <1> DEFINE p == SubSeq(s, 1, k)
             q == SubSeq(s, k + 1, Len(s))
             n == Len(s)
  <1>1. n \in Nat /\ k \in Nat /\ k <= n /\ \A i \in 1..n : s[i] \in S
    OBVIOUS
  <1>2. p \in Seq(S) /\ Len(p) = (IF 1 <= k THEN k - 1 + 1 ELSE 0)
        /\ \A i \in 1..k - 1 + 1 : p[i] = s[1 + i - 1]
    <2>1. \A i \in 1..k : s[i] \in S
      BY <1>1
    <2> HIDE DEF n
    <2> QED BY <2>1, <1>1, SubSeqProperties
  <1>3. q \in Seq(S) /\ Len(q) = (IF k + 1 <= n THEN n - (k + 1) + 1 ELSE 0)
        /\ \A i \in 1..n - (k + 1) + 1 : q[i] = s[k + 1 + i - 1]
    <2>1. \A i \in k + 1..n : s[i] \in S
      BY <1>1
    <2>2. k + 1 \in Int /\ n \in Int
      BY <1>1
    <2> QED BY <2>1, <2>2, SubSeqProperties
  <1> HIDE DEF p, q, n
  <1>4. Len(p) = k /\ \A i \in 1..k : p[i] = s[i]
    <2>1. k - 1 + 1 = k /\ (~(1 <= k) => k = 0) /\ \A i \in 1..k : 1 + i - 1 = i
      BY <1>1
    <2> QED BY <1>2, <2>1
  <1>5. Len(q) = n - k /\ \A i \in 1..n - k : q[i] = s[k + i]
    <2>1. n - (k + 1) + 1 = n - k /\ (~(k + 1 <= n) => n - k = 0) /\ \A i \in 1..n - k : k + 1 + i - 1 = k + i
      BY <1>1
    <2> QED BY <1>3, <2>1
  <1>6. \A i \in 1..n - k : k + i \in 1..n /\ k + i > k
    BY <1>1
  <1>7. \A i \in 1..k : i \in 1..n /\ i <= k
    BY <1>1
  <1>8. Once(p)
    <2> SUFFICES ASSUME NEW i \in 1..k, NEW j \in 1..k, p[i] = p[j] PROVE i = j
      BY <1>4 DEF Once
    <2> QED BY <1>4, <1>7 DEF Once, n
  <1>9. Once(q)
    <2> SUFFICES ASSUME NEW i \in 1..n - k, NEW j \in 1..n - k, q[i] = q[j] PROVE i = j
      BY <1>5 DEF Once
    <2>1. k + i = k + j
      BY <1>5, <1>6 DEF Once, n
    <2> QED BY <2>1, <1>1
  <1>10. Members(p) \cap Members(q) = {}
    <2> SUFFICES ASSUME NEW i \in 1..k, NEW j \in 1..n - k, p[i] = q[j] PROVE FALSE
      BY <1>4, <1>5 DEF Members
    <2>1. s[i] = s[k + j]
      BY <1>4, <1>5
    <2>2. i = k + j
      BY <2>1, <1>6, <1>7 DEF Once, n
    <2> QED BY <2>2, <1>1
  <1>11. Members(p) \cup Members(q) = Members(s)
    <2>1. ASSUME NEW x \in Members(s) PROVE x \in Members(p) \cup Members(q)
      <3>1. PICK i \in 1..n : x = s[i]
        BY DEF Members, n
      <3>2. CASE i <= k
        <4>1. i \in 1..k
          BY <3>2, <1>1
        <4> QED BY <4>1, <3>1, <1>4 DEF Members
      <3>3. CASE i > k
        <4>1. i - k \in 1..n - k /\ k + (i - k) = i
          BY <3>3, <1>1
        <4> QED BY <4>1, <3>1, <1>5 DEF Members
      <3> QED BY <3>2, <3>3, <1>1
    <2>2. Members(p) \subseteq Members(s)
      BY <1>4, <1>7 DEF Members, n
    <2>3. Members(q) \subseteq Members(s)
      BY <1>5, <1>6 DEF Members, n
    <2> QED BY <2>1, <2>2, <2>3
  <1> QED BY <1>2, <1>3, <1>8, <1>9, <1>10, <1>11 DEF p, q, n

LEMMA OnceLast ==
  ASSUME NEW S, NEW s \in Seq(S), s # <<>>, Once(s)
  PROVE  LET p == SubSeq(s, 1, Len(s) - 1)
         IN  /\ s[Len(s)] \in Members(s) /\ s[Len(s)] \in S
             /\ p \in Seq(S) /\ Once(p)
             /\ Members(p) = Members(s) \ {s[Len(s)]}
  <1> DEFINE p == SubSeq(s, 1, Len(s) - 1)
             n == Len(s)
             q == SubSeq(s, (n - 1) + 1, n)
  <1>1. n \in Nat \ {0} /\ s[n] \in S /\ \A i \in 1..n : s[i] \in S
    OBVIOUS
  <1>2. n - 1 \in 0..Len(s) /\ (n - 1) + 1 = n
    BY <1>1
  <1>3. /\ p \in Seq(S) /\ Once(p)
        /\ Members(p) \cap Members(q) = {}
        /\ Members(p) \cup Members(q) = Members(s)
    BY <1>2, OnceSplit
  <1>4. Len(q) = 1 /\ q[1] = s[n]
    <2>1. \A i \in n..n : s[i] \in S
      BY <1>1
    <2>2. /\ Len(SubSeq(s, n, n)) = (IF n <= n THEN n - n + 1 ELSE 0)
          /\ \A i \in 1..n - n + 1 : SubSeq(s, n, n)[i] = s[n + i - 1]
      BY <2>1, <1>1, SubSeqProperties
    <2> HIDE DEF n
    <2>3. n <= n /\ n - n + 1 = 1 /\ 1 \in 1..n - n + 1 /\ n + 1 - 1 = n
      BY <1>1
    <2> QED BY <2>2, <2>3, <1>2
  <1> HIDE DEF q, p, n
  <1>5. Members(q) = {s[n]}
    BY <1>4 DEF Members
  <1> QED BY <1>1, <1>3, <1>5 DEF p, n

LEMMA OnceAppend ==
  ASSUME NEW S, NEW s \in Seq(S), NEW x \in S, Once(s), x \notin Members(s)
  PROVE  /\ Append(s, x) \in Seq(S)
         /\ Once(Append(s, x))
         /\ Members(Append(s, x)) = Members(s) \cup {x}
  <1> DEFINE r == Append(s, x)
             n == Len(s)
  <1>1. /\ n \in Nat /\ r \in Seq(S) /\ Len(r) = n + 1
        /\ r[n + 1] = x /\ \A i \in 1..n : r[i] = s[i]
    OBVIOUS
  <1> HIDE DEF r, n
  <1>2. \A i \in 1..n + 1 : i \in 1..n \/ i = n + 1
    BY <1>1
  <1>3. \A i \in 1..n : r[i] \in Members(s) /\ i \in 1..n + 1
    BY <1>1 DEF Members, n
  <1>4. n + 1 \in 1..n + 1
    BY <1>1
  <1>5. Once(r)
    <2> SUFFICES ASSUME NEW i \in 1..n + 1, NEW j \in 1..n + 1, r[i] = r[j] PROVE i = j
      BY <1>1 DEF Once
    <2> QED BY <1>1, <1>2, <1>3 DEF Once, n
  <1>6. Members(r) = Members(s) \cup {x}
    BY <1>1, <1>2, <1>3, <1>4 DEF Members, n
  <1> QED BY <1>1, <1>5, <1>6 DEF r

LEMMA OnceConcat ==
  ASSUME NEW S, NEW s \in Seq(S), NEW t \in Seq(S), Once(s), Once(t),
         Members(s) \cap Members(t) = {}
  PROVE  /\ s \o t \in Seq(S)
         /\ Once(s \o t)
         /\ Members(s \o t) = Members(s) \cup Members(t)
  <1> DEFINE r == s \o t
             m == Len(s)
             n == Len(t)
  <1>1. /\ m \in Nat /\ n \in Nat /\ r \in Seq(S) /\ Len(r) = m + n
        /\ \A i \in 1..m + n : r[i] = IF i <= m THEN s[i] ELSE t[i - m]
    BY ConcatProperties
  <1> HIDE DEF r, m, n
  <1>2. \A i \in 1..m : i \in 1..m + n /\ r[i] = s[i] /\ r[i] \in Members(s)
    <2>1. \A i \in 1..m : i \in 1..m + n /\ i <= m
      BY <1>1
    <2> QED BY <2>1, <1>1 DEF Members, m
  <1>3. \A j \in 1..n : m + j \in 1..m + n /\ r[m + j] = t[j] /\ r[m + j] \in Members(t)
    <2>1. \A j \in 1..n : m + j \in 1..m + n /\ ~(m + j <= m) /\ (m + j) - m = j
      BY <1>1
    <2> QED BY <2>1, <1>1 DEF Members, n
  <1>4. \A i \in 1..m + n : i \in 1..m \/ \E j \in 1..n : i = m + j
    <2> SUFFICES ASSUME NEW i \in 1..m + n, i \notin 1..m PROVE \E j \in 1..n : i = m + j
      OBVIOUS
    <2>1. i - m \in 1..n /\ i = m + (i - m)
      BY <1>1
    <2> QED BY <2>1
  <1>5. Once(r)
    <2> SUFFICES ASSUME NEW i \in 1..m + n, NEW j \in 1..m + n, r[i] = r[j] PROVE i = j
      BY <1>1 DEF Once
    <2>1. CASE i \in 1..m /\ j \in 1..m
      BY <2>1, <1>2 DEF Once, m
    <2>2. CASE i \in 1..m /\ j \notin 1..m
      BY <2>2, <1>2, <1>3, <1>4
    <2>3. CASE i \notin 1..m /\ j \in 1..m
      BY <2>3, <1>2, <1>3, <1>4
    <2>4. CASE i \notin 1..m /\ j \notin 1..m
      <3>1. PICK a \in 1..n, b \in 1..n : i = m + a /\ j = m + b
        BY <2>4, <1>4
      <3>2. t[a] = t[b]
        BY <3>1, <1>3
      <3> QED BY <3>1, <3>2 DEF Once, n
    <2> QED BY <2>1, <2>2, <2>3, <2>4
  <1>6. Members(r) = Members(s) \cup Members(t)
    <2>1. Members(r) \subseteq Members(s) \cup Members(t)
      <3> SUFFICES ASSUME NEW i \in 1..m + n PROVE r[i] \in Members(s) \cup Members(t)
        BY <1>1 DEF Members
      <3> QED BY <1>2, <1>3, <1>4
    <2>2. Members(s) \subseteq Members(r)
      BY <1>1, <1>2 DEF Members, m
    <2>3. Members(t) \subseteq Members(r)
      <3> SUFFICES ASSUME NEW j \in 1..n PROVE t[j] \in Members(r)
        BY DEF Members, n
      <3>1. m + j \in 1..Len(r) /\ r[m + j] = t[j]
        BY <1>1, <1>3
      <3> QED BY <3>1 DEF Members
    <2> QED BY <2>1, <2>2, <2>3
  <1> QED BY <1>1, <1>5, <1>6 DEF r

-----------------------------------------------------------------------------
(* The inductive invariant                                                     *)

(* Serve has a connection from Accept to the send or the refusal, and a channel *)
(* for the send; clean has a list only while it works it off.                   *)
HandInv ==
    /\ hand \in Conns <=> spc \in {"getCh", "spawn", "send"}
    /\ spc = "send" => target \in Chans
    /\ cpc # "notify" => scratch = <<>>

(* Only a worker at its receive has something on its channel, and only one that *)
(* serves has a connection.                                                     *)
ChannelsInv ==
    \A ch \in Chans : /\ buf[ch] # Empty => wpc[ch] = "recv"
                      /\ job[ch] \in Conns <=> wpc[ch] = "serve"

Idle == {ch \in Chans : wpc[ch] = "recv" /\ buf[ch] = Empty}
Aim == IF spc = "send" THEN {target} ELSE {}

(* OneSenderPerIdleWorker, list by list. *)
AppointedInv ==
    /\ Once(ready) /\ Once(scratch)
    /\ Members(ready) \cap Members(scratch) = {}
    /\ Aim \cap (Members(ready) \cup Members(scratch)) = {}
    /\ Members(ready) \cup Members(scratch) \cup Aim = Idle

(* ConnAtOnePlace without counting. *)
PlacesInv ==
    /\ \A c \in Conns :
          /\ fate[c] = "accepted" <=> hand = c
          /\ fate[c] = "sent" <=> \E ch \in Chans : buf[ch] = c
          /\ fate[c] = "serving" <=> \E ch \in Chans : job[ch] = c
    /\ \A x, y \in Chans : buf[x] \in Conns /\ buf[x] = buf[y] => x = y
    /\ \A x, y \in Chans : job[x] \in Conns /\ job[x] = job[y] => x = y

IInv == TypeOK /\ HandInv /\ ChannelsInv /\ AppointedInv /\ PlacesInv /\ WorkersCounted

LEMMA IInvInit == Init => IInv
  <1> SUFFICES ASSUME Init PROVE IInv
    OBVIOUS
  <1> USE MessagesAssumption
  <1>1. TypeOK
    <2>1. buf \in [Chans -> Conns \cup {Nil, Empty}] /\ job \in [Chans -> Conns \cup {Nil}]
      BY DEF Init
    <2>2. wpc \in [Chans -> Live \cup {"put", "free"}]
      BY DEF Init
    <2>3. ready \in Seq(Chans) /\ scratch \in Seq(Chans)
      BY DEF Init
    <2>4. fate \in [Conns -> {"new", "accepted", "sent", "serving", "closed", "hijacked"}]
      BY DEF Init
    <2>5. mustStop \in BOOLEAN /\ stopCh \in BOOLEAN
      BY Zenon DEF Init
    <2> QED BY <2>1, <2>2, <2>3, <2>4, <2>5 DEF Init, TypeOK
  <1>2. HandInv /\ ChannelsInv
    BY DEF Init, HandInv, ChannelsInv
  <1>3. AppointedInv
    BY OnceEmpty DEF Init, AppointedInv, Idle, Aim
  <1>4. PlacesInv
    BY DEF Init, PlacesInv
  <1>5. WorkersCounted
    <2>1. LiveWorkers = {}
      BY DEF Init, LiveWorkers, Live
    <2> QED BY <2>1, FS_EmptySet, MaxAssumption DEF Init, WorkersCounted
  <1> QED BY <1>1, <1>2, <1>3, <1>4, <1>5 DEF IInv

LEMMA ShapeNext == IInv /\ [Next]_vars => (TypeOK /\ HandInv /\ ChannelsInv)'
  <1> SUFFICES ASSUME IInv, [Next]_vars PROVE (TypeOK /\ HandInv /\ ChannelsInv)'
    OBVIOUS
  <1> USE MessagesAssumption
  <1>1. ASSUME Accept PROVE (TypeOK /\ HandInv /\ ChannelsInv)'
    BY <1>1 DEF Accept, serving, cleaning, IInv, TypeOK, HandInv, ChannelsInv, Live
  <1>2. ASSUME CountWorker PROVE (TypeOK /\ HandInv /\ ChannelsInv)'
    BY <1>2 DEF CountWorker, serving, cleaning, IInv, TypeOK, HandInv, ChannelsInv, Live
  <1>3. ASSUME Refuse PROVE (TypeOK /\ HandInv /\ ChannelsInv)'
    BY <1>3 DEF Refuse, serving, cleaning, IInv, TypeOK, HandInv, ChannelsInv, Live
  <1>4. ASSUME AcceptFails PROVE (TypeOK /\ HandInv /\ ChannelsInv)'
    BY <1>4 DEF AcceptFails, serving, cleaning, IInv, TypeOK, HandInv, ChannelsInv, Live
  <1>5. ASSUME StopLocks PROVE (TypeOK /\ HandInv /\ ChannelsInv)'
    BY <1>5 DEF StopLocks, serving, cleaning, IInv, TypeOK, HandInv, ChannelsInv, Live
  <1>6. ASSUME StopUnlocks PROVE (TypeOK /\ HandInv /\ ChannelsInv)'
    BY <1>6 DEF StopUnlocks, serving, cleaning, IInv, TypeOK, HandInv, ChannelsInv, Live
  <1>7. ASSUME PopReady PROVE (TypeOK /\ HandInv /\ ChannelsInv)'
    <2>1. ready[Len(ready)] \in Chans /\ ready' \in Seq(Chans)
      BY <1>7, OnceLast DEF PopReady, IInv, TypeOK, AppointedInv
    <2> QED BY <1>7, <2>1 DEF PopReady, serving, cleaning, IInv, TypeOK, HandInv, ChannelsInv, Live
  <1>8. ASSUME Spawn PROVE (TypeOK /\ HandInv /\ ChannelsInv)'
    BY <1>8 DEF Spawn, serving, cleaning, IInv, TypeOK, HandInv, ChannelsInv, Live
  <1>9. ASSUME SendConn PROVE (TypeOK /\ HandInv /\ ChannelsInv)'
    <2>1. target \in Chans /\ hand \in Conns
      BY <1>9 DEF SendConn, IInv, HandInv
    <2>2. wpc[target] = "recv"
      BY <1>9, <2>1 DEF SendConn, IInv, AppointedInv, Aim, Idle
    <2>3. TypeOK' /\ HandInv'
      BY <1>9, <2>1 DEF SendConn, Send, cleaning, IInv, TypeOK, HandInv
    <2>4. ChannelsInv'
      BY <1>9, <2>1, <2>2 DEF SendConn, Send, IInv, TypeOK, ChannelsInv
    <2> QED BY <2>3, <2>4
  <1>10. ASSUME StopSends PROVE (TypeOK /\ HandInv /\ ChannelsInv)'
    <2>1. Head(ready) \in Members(ready) /\ Head(ready) \in Chans /\ ready' \in Seq(Chans)
      BY <1>10, OnceHeadTail DEF StopSends, IInv, TypeOK, AppointedInv
    <2>2. wpc[Head(ready)] = "recv"
      BY <2>1 DEF IInv, AppointedInv, Idle
    <2>3. TypeOK' /\ HandInv'
      BY <1>10, <2>1 DEF StopSends, Send, serving, cleaning, IInv, TypeOK, HandInv
    <2>4. ChannelsInv'
      BY <1>10, <2>1, <2>2 DEF StopSends, Send, IInv, TypeOK, ChannelsInv
    <2> QED BY <2>3, <2>4
  <1>11. ASSUME NEW ch \in Chans, ReceiveConn(ch) PROVE (TypeOK /\ HandInv /\ ChannelsInv)'
    <2>1. TypeOK' /\ HandInv'
      BY <1>11 DEF ReceiveConn, serving, cleaning, IInv, TypeOK, HandInv, Live
    <2>2. ChannelsInv'
      BY <1>11 DEF ReceiveConn, IInv, TypeOK, ChannelsInv
    <2> QED BY <2>1, <2>2
  <1>12. ASSUME NEW ch \in Chans, ReceiveStop(ch) PROVE (TypeOK /\ HandInv /\ ChannelsInv)'
    <2>1. TypeOK' /\ HandInv'
      BY <1>12 DEF ReceiveStop, serving, cleaning, IInv, TypeOK, HandInv, Live
    <2>2. ChannelsInv'
      BY <1>12 DEF ReceiveStop, IInv, TypeOK, ChannelsInv
    <2> QED BY <2>1, <2>2
  <1>13. ASSUME NEW ch \in Chans, ServeReturns(ch) PROVE (TypeOK /\ HandInv /\ ChannelsInv)'
    <2>1. TypeOK' /\ HandInv'
      BY <1>13 DEF ServeReturns, serving, cleaning, IInv, TypeOK, HandInv, Live
    <2>2. ChannelsInv'
      BY <1>13 DEF ServeReturns, IInv, TypeOK, ChannelsInv
    <2> QED BY <2>1, <2>2
  <1>14. ASSUME NEW ch \in Chans, ReleaseStops(ch) PROVE (TypeOK /\ HandInv /\ ChannelsInv)'
    <2>1. TypeOK' /\ HandInv'
      BY <1>14 DEF ReleaseStops, serving, cleaning, IInv, TypeOK, HandInv, Live
    <2>2. ChannelsInv'
      BY <1>14 DEF ReleaseStops, IInv, TypeOK, ChannelsInv
    <2> QED BY <2>1, <2>2
  <1>15. ASSUME NEW ch \in Chans, Exit(ch) PROVE (TypeOK /\ HandInv /\ ChannelsInv)'
    <2>1. TypeOK' /\ HandInv'
      BY <1>15 DEF Exit, serving, cleaning, IInv, TypeOK, HandInv, Live
    <2>2. ChannelsInv'
      BY <1>15 DEF Exit, IInv, TypeOK, ChannelsInv
    <2> QED BY <2>1, <2>2
  <1>16. ASSUME NEW ch \in Chans, PutChan(ch) PROVE (TypeOK /\ HandInv /\ ChannelsInv)'
    <2>1. TypeOK' /\ HandInv'
      BY <1>16 DEF PutChan, serving, cleaning, IInv, TypeOK, HandInv, Live
    <2>2. ChannelsInv'
      BY <1>16 DEF PutChan, IInv, TypeOK, ChannelsInv
    <2> QED BY <2>1, <2>2
  <1>17. ASSUME NEW ch \in Chans, ReleaseToReady(ch) PROVE (TypeOK /\ HandInv /\ ChannelsInv)'
    <2>1. ready' \in Seq(Chans)
      BY <1>17 DEF ReleaseToReady, IInv, TypeOK
    <2>2. TypeOK' /\ HandInv'
      BY <1>17, <2>1 DEF ReleaseToReady, serving, cleaning, IInv, TypeOK, HandInv, Live
    <2>3. ChannelsInv'
      BY <1>17 DEF ReleaseToReady, IInv, TypeOK, ChannelsInv
    <2> QED BY <2>2, <2>3
  <1>18. ASSUME Clean PROVE (TypeOK /\ HandInv /\ ChannelsInv)'
    <2>1. ready' \in Seq(Chans) /\ scratch' \in Seq(Chans)
      BY <1>18, OnceSplit DEF Clean, IInv, TypeOK, AppointedInv
    <2> QED BY <1>18, <2>1 DEF Clean, serving, cleaning, IInv, TypeOK, HandInv, ChannelsInv, Live
  <1>19. ASSUME Notify PROVE (TypeOK /\ HandInv /\ ChannelsInv)'
    <2>1. Head(scratch) \in Members(scratch) /\ Head(scratch) \in Chans /\ scratch' \in Seq(Chans)
      BY <1>19, OnceHeadTail DEF Notify, IInv, TypeOK, AppointedInv
    <2>2. wpc[Head(scratch)] = "recv"
      BY <2>1 DEF IInv, AppointedInv, Idle
    <2>3. TypeOK' /\ HandInv'
      BY <1>19, <2>1 DEF Notify, Send, serving, IInv, TypeOK, HandInv
    <2>4. ChannelsInv'
      BY <1>19, <2>1, <2>2 DEF Notify, Send, IInv, TypeOK, ChannelsInv
    <2> QED BY <2>3, <2>4
  <1>20. ASSUME CleanDone PROVE (TypeOK /\ HandInv /\ ChannelsInv)'
    BY <1>20 DEF CleanDone, serving, cleaning, IInv, TypeOK, HandInv, ChannelsInv, Live
  <1>21. ASSUME UNCHANGED vars PROVE (TypeOK /\ HandInv /\ ChannelsInv)'
    BY <1>21 DEF vars, serving, cleaning, IInv, TypeOK, HandInv, ChannelsInv
  <1> QED
    BY <1>1, <1>2, <1>3, <1>4, <1>5, <1>6, <1>7, <1>8, <1>9, <1>10, <1>11,
        <1>12, <1>13, <1>14, <1>15, <1>16, <1>17, <1>18, <1>19, <1>20, <1>21
    DEF Next, Serve, Worker, Cleaner

LEMMA AppointedNext == IInv /\ [Next]_vars => AppointedInv'
  <1> SUFFICES ASSUME IInv, [Next]_vars PROVE AppointedInv'
    OBVIOUS
  <1> USE MessagesAssumption
  <1>1. CASE ready' = ready /\ scratch' = scratch /\ Aim' = Aim /\ Idle' = Idle
    BY <1>1 DEF IInv, AppointedInv
  <1>2. ASSUME Accept PROVE AppointedInv'
    BY <1>2, <1>1 DEF Accept, serving, cleaning, Aim, Idle
  <1>3. ASSUME CountWorker PROVE AppointedInv'
    BY <1>3, <1>1 DEF CountWorker, serving, cleaning, Aim, Idle
  <1>4. ASSUME Refuse PROVE AppointedInv'
    BY <1>4, <1>1 DEF Refuse, serving, cleaning, Aim, Idle
  <1>5. ASSUME AcceptFails PROVE AppointedInv'
    BY <1>5, <1>1 DEF AcceptFails, serving, cleaning, Aim, Idle
  <1>6. ASSUME StopLocks PROVE AppointedInv'
    BY <1>6, <1>1 DEF StopLocks, serving, cleaning, Aim, Idle
  <1>7. ASSUME StopUnlocks PROVE AppointedInv'
    BY <1>7, <1>1 DEF StopUnlocks, serving, cleaning, Aim, Idle
  <1>8. ASSUME CleanDone PROVE AppointedInv'
    BY <1>8, <1>1 DEF CleanDone, serving, cleaning, Aim, Idle
  <1>9. ASSUME NEW ch \in Chans, ReceiveConn(ch) PROVE AppointedInv'
    <2>1. Idle' = Idle
      BY <1>9 DEF ReceiveConn, Idle, IInv, TypeOK
    <2> QED BY <1>9, <1>1, <2>1 DEF ReceiveConn, serving, cleaning, Aim
  <1>10. ASSUME NEW ch \in Chans, ReceiveStop(ch) PROVE AppointedInv'
    <2>1. Idle' = Idle
      BY <1>10 DEF ReceiveStop, Idle, IInv, TypeOK
    <2> QED BY <1>10, <1>1, <2>1 DEF ReceiveStop, serving, cleaning, Aim
  <1>11. ASSUME NEW ch \in Chans, ServeReturns(ch) PROVE AppointedInv'
    <2>1. Idle' = Idle
      BY <1>11 DEF ServeReturns, Idle, IInv, TypeOK
    <2> QED BY <1>11, <1>1, <2>1 DEF ServeReturns, serving, cleaning, Aim
  <1>12. ASSUME NEW ch \in Chans, ReleaseStops(ch) PROVE AppointedInv'
    <2>1. Idle' = Idle
      BY <1>12 DEF ReleaseStops, Idle, IInv, TypeOK
    <2> QED BY <1>12, <1>1, <2>1 DEF ReleaseStops, serving, cleaning, Aim
  <1>13. ASSUME NEW ch \in Chans, Exit(ch) PROVE AppointedInv'
    <2>1. Idle' = Idle
      BY <1>13 DEF Exit, Idle, IInv, TypeOK
    <2> QED BY <1>13, <1>1, <2>1 DEF Exit, serving, cleaning, Aim
  <1>14. ASSUME NEW ch \in Chans, PutChan(ch) PROVE AppointedInv'
    <2>1. Idle' = Idle
      BY <1>14 DEF PutChan, Idle, IInv, TypeOK
    <2> QED BY <1>14, <1>1, <2>1 DEF PutChan, serving, cleaning, Aim
  <1>15. ASSUME PopReady PROVE AppointedInv'
    <2> DEFINE ch == ready[Len(ready)]
    <2>1. /\ ch \in Members(ready) /\ Once(ready')
          /\ Members(ready') = Members(ready) \ {ch}
      BY <1>15, OnceLast DEF PopReady, IInv, TypeOK, AppointedInv
    <2> HIDE DEF ch
    <2>2. Aim = {} /\ Aim' = {ch} /\ Idle' = Idle /\ scratch' = scratch
      BY <1>15 DEF PopReady, Aim, Idle, cleaning, ch
    <2> QED BY <2>1, <2>2 DEF IInv, AppointedInv
  <1>16. ASSUME Spawn PROVE AppointedInv'
    <2>1. PICK ch \in Chans : wpc[ch] = "free" /\ wpc' = [wpc EXCEPT ![ch] = "recv"] /\ target' = ch
      BY <1>16 DEF Spawn
    <2>2. buf[ch] = Empty
      BY <2>1 DEF IInv, ChannelsInv
    <2>3. Aim = {} /\ Aim' = {ch} /\ ready' = ready /\ scratch' = scratch
      BY <1>16, <2>1 DEF Spawn, Aim, cleaning
    <2>4. Idle' = Idle \cup {ch} /\ ch \notin Idle
      BY <1>16, <2>1, <2>2 DEF Spawn, Idle, IInv, TypeOK
    <2> QED BY <2>3, <2>4 DEF IInv, AppointedInv
  <1>17. ASSUME SendConn PROVE AppointedInv'
    <2>1. Aim = {target} /\ Aim' = {} /\ ready' = ready /\ scratch' = scratch
      BY <1>17 DEF SendConn, Aim, cleaning
    <2>2. Idle' = Idle \ {target}
      BY <1>17 DEF SendConn, Send, Idle, IInv, TypeOK, HandInv
    <2> QED BY <2>1, <2>2 DEF IInv, AppointedInv
  <1>18. ASSUME StopSends PROVE AppointedInv'
    <2> DEFINE ch == Head(ready)
    <2>1. /\ ch \in Members(ready) /\ Once(ready')
          /\ Members(ready') = Members(ready) \ {ch}
      BY <1>18, OnceHeadTail DEF StopSends, IInv, TypeOK, AppointedInv
    <2>2. buf' = [buf EXCEPT ![ch] = Nil]
      BY <1>18 DEF StopSends, Send
    <2> HIDE DEF ch
    <2>3. Aim' = Aim /\ scratch' = scratch
      BY <1>18 DEF StopSends, Aim, serving, cleaning
    <2>4. Idle' = Idle \ {ch}
      BY <1>18, <2>2 DEF StopSends, Idle, IInv, TypeOK
    <2> QED BY <2>1, <2>3, <2>4 DEF IInv, AppointedInv
  <1>19. ASSUME Notify PROVE AppointedInv'
    <2> DEFINE ch == Head(scratch)
    <2>1. /\ ch \in Members(scratch) /\ Once(scratch')
          /\ Members(scratch') = Members(scratch) \ {ch}
      BY <1>19, OnceHeadTail DEF Notify, IInv, TypeOK, AppointedInv
    <2>2. buf' = [buf EXCEPT ![ch] = Nil]
      BY <1>19 DEF Notify, Send
    <2> HIDE DEF ch
    <2>3. Aim' = Aim /\ ready' = ready
      BY <1>19 DEF Notify, Aim, serving
    <2>4. Idle' = Idle \ {ch}
      BY <1>19, <2>2 DEF Notify, Idle, IInv, TypeOK
    <2> QED BY <2>1, <2>3, <2>4 DEF IInv, AppointedInv
  <1>20. ASSUME NEW ch \in Chans, ReleaseToReady(ch) PROVE AppointedInv'
    <2>1. buf[ch] = Empty /\ ch \notin Idle
      BY <1>20 DEF ReleaseToReady, Idle, IInv, ChannelsInv
    <2>2. ch \notin Members(ready)
      BY <2>1 DEF IInv, AppointedInv
    <2>3. Once(ready') /\ Members(ready') = Members(ready) \cup {ch}
      BY <1>20, <2>2, OnceAppend DEF ReleaseToReady, IInv, TypeOK, AppointedInv
    <2>4. Aim' = Aim /\ scratch' = scratch
      BY <1>20 DEF ReleaseToReady, Aim, serving, cleaning
    <2>5. Idle' = Idle \cup {ch}
      BY <1>20, <2>1 DEF ReleaseToReady, Idle, IInv, TypeOK
    <2> QED BY <2>1, <2>3, <2>4, <2>5 DEF IInv, AppointedInv
  <1>21. ASSUME Clean PROVE AppointedInv'
    <2>1. PICK k \in 0..Len(ready) : /\ scratch' = SubSeq(ready, 1, k)
                                     /\ ready' = SubSeq(ready, k + 1, Len(ready))
      BY <1>21 DEF Clean
    <2>2. /\ Once(scratch') /\ Once(ready')
          /\ Members(scratch') \cap Members(ready') = {}
          /\ Members(scratch') \cup Members(ready') = Members(ready)
      BY <2>1, OnceSplit DEF IInv, TypeOK, AppointedInv
    <2>3. Members(scratch) = {}
      BY <1>21, OnceEmpty DEF Clean, IInv, HandInv
    <2>4. Aim' = Aim /\ Idle' = Idle
      BY <1>21 DEF Clean, Aim, Idle, serving
    <2> QED BY <2>2, <2>3, <2>4 DEF IInv, AppointedInv
  <1>22. ASSUME UNCHANGED vars PROVE AppointedInv'
    BY <1>22, <1>1 DEF vars, serving, cleaning, Aim, Idle
  <1> QED
    BY <1>2, <1>3, <1>4, <1>5, <1>6, <1>7, <1>8, <1>9, <1>10, <1>11, <1>12,
       <1>13, <1>14, <1>15, <1>16, <1>17, <1>18, <1>19, <1>20, <1>21, <1>22
    DEF Next, Serve, Worker, Cleaner

LEMMA PlacesNext == IInv /\ [Next]_vars => PlacesInv'
  <1> SUFFICES ASSUME IInv, [Next]_vars PROVE PlacesInv'
    OBVIOUS
  <1> USE MessagesAssumption
  <1>1. CASE UNCHANGED <<fate, hand, buf, job>>
    BY <1>1 DEF IInv, PlacesInv
  <1>2. ASSUME PopReady PROVE PlacesInv'
    BY <1>2, <1>1 DEF PopReady, serving, cleaning
  <1>3. ASSUME CountWorker PROVE PlacesInv'
    BY <1>3, <1>1 DEF CountWorker, serving, cleaning
  <1>4. ASSUME Spawn PROVE PlacesInv'
    BY <1>4, <1>1 DEF Spawn, serving, cleaning
  <1>5. ASSUME AcceptFails PROVE PlacesInv'
    BY <1>5, <1>1 DEF AcceptFails, serving, cleaning
  <1>6. ASSUME StopLocks PROVE PlacesInv'
    BY <1>6, <1>1 DEF StopLocks, serving, cleaning
  <1>7. ASSUME StopUnlocks PROVE PlacesInv'
    BY <1>7, <1>1 DEF StopUnlocks, serving, cleaning
  <1>8. ASSUME Clean PROVE PlacesInv'
    BY <1>8, <1>1 DEF Clean, serving, cleaning
  <1>9. ASSUME CleanDone PROVE PlacesInv'
    BY <1>9, <1>1 DEF CleanDone, serving, cleaning
  <1>10. ASSUME NEW ch \in Chans, ReleaseToReady(ch) PROVE PlacesInv'
    BY <1>10, <1>1 DEF ReleaseToReady, serving, cleaning
  <1>11. ASSUME NEW ch \in Chans, ReleaseStops(ch) PROVE PlacesInv'
    BY <1>11, <1>1 DEF ReleaseStops, serving, cleaning
  <1>12. ASSUME NEW ch \in Chans, Exit(ch) PROVE PlacesInv'
    BY <1>12, <1>1 DEF Exit, serving, cleaning
  <1>13. ASSUME NEW ch \in Chans, PutChan(ch) PROVE PlacesInv'
    BY <1>13, <1>1 DEF PutChan, serving, cleaning
  <1>14. ASSUME Accept PROVE PlacesInv'
    BY <1>14 DEF Accept, IInv, TypeOK, HandInv, PlacesInv
  <1>15. ASSUME Refuse PROVE PlacesInv'
    BY <1>15 DEF Refuse, IInv, TypeOK, HandInv, PlacesInv
  <1>16. ASSUME SendConn PROVE PlacesInv'
    <2>1. target \in Chans /\ hand \in Conns /\ fate[hand] = "accepted"
      BY <1>16 DEF SendConn, IInv, HandInv, PlacesInv
    <2>2. \A ch \in Chans : buf[ch] # hand /\ job[ch] # hand
      BY <2>1 DEF IInv, PlacesInv
    <2>3. /\ buf[target] = Empty /\ buf' = [buf EXCEPT ![target] = hand]
          /\ fate' = [fate EXCEPT ![hand] = "sent"] /\ hand' = Nil /\ job' = job
      BY <1>16 DEF SendConn, Send
    <2>4. \A c \in Conns : fate'[c] = "accepted" <=> hand' = c
      BY <2>1, <2>3 DEF IInv, TypeOK, PlacesInv
    <2>5. \A c \in Conns : fate'[c] = "sent" <=> \E ch \in Chans : buf'[ch] = c
      BY <2>1, <2>2, <2>3 DEF IInv, TypeOK, PlacesInv
    <2>6. \A c \in Conns : fate'[c] = "serving" <=> \E ch \in Chans : job'[ch] = c
      BY <2>1, <2>2, <2>3 DEF IInv, TypeOK, PlacesInv
    <2>7. \A x, y \in Chans : buf'[x] \in Conns /\ buf'[x] = buf'[y] => x = y
      BY <2>1, <2>2, <2>3 DEF IInv, TypeOK, PlacesInv
    <2> QED BY <2>3, <2>4, <2>5, <2>6, <2>7 DEF IInv, PlacesInv
  <1>17. ASSUME StopSends PROVE PlacesInv'
    <2> DEFINE ch == Head(ready)
    <2>1. ch \in Chans
      BY <1>17, OnceHeadTail DEF StopSends, IInv, TypeOK, AppointedInv
    <2>2. /\ buf[ch] = Empty /\ buf' = [buf EXCEPT ![ch] = Nil]
          /\ fate' = fate /\ hand' = hand /\ job' = job
      BY <1>17 DEF StopSends, Send, serving
    <2> HIDE DEF ch
    <2>3. \A x \in Chans, c \in Conns : buf'[x] = c <=> buf[x] = c
      BY <2>1, <2>2 DEF IInv, TypeOK
    <2> QED BY <2>2, <2>3 DEF IInv, PlacesInv
  <1>18. ASSUME Notify PROVE PlacesInv'
    <2> DEFINE ch == Head(scratch)
    <2>1. ch \in Chans
      BY <1>18, OnceHeadTail DEF Notify, IInv, TypeOK, AppointedInv
    <2>2. /\ buf[ch] = Empty /\ buf' = [buf EXCEPT ![ch] = Nil]
          /\ fate' = fate /\ hand' = hand /\ job' = job
      BY <1>18 DEF Notify, Send, serving
    <2> HIDE DEF ch
    <2>3. \A x \in Chans, c \in Conns : buf'[x] = c <=> buf[x] = c
      BY <2>1, <2>2 DEF IInv, TypeOK
    <2> QED BY <2>2, <2>3 DEF IInv, PlacesInv
  <1>19. ASSUME NEW ch \in Chans, ReceiveStop(ch) PROVE PlacesInv'
    <2>1. \A x \in Chans, c \in Conns : buf'[x] = c <=> buf[x] = c
      BY <1>19 DEF ReceiveStop, IInv, TypeOK
    <2> QED BY <1>19, <2>1 DEF ReceiveStop, serving, IInv, PlacesInv
  <1>20. ASSUME NEW ch \in Chans, ReceiveConn(ch) PROVE PlacesInv'
    <2> DEFINE d == buf[ch]
    <2>1. /\ d \in Conns /\ d = buf[ch] /\ buf' = [buf EXCEPT ![ch] = Empty] /\ job' = [job EXCEPT ![ch] = d]
          /\ fate' = [fate EXCEPT ![d] = "serving"] /\ hand' = hand
      BY <1>20 DEF ReceiveConn, serving
    <2> HIDE DEF d
    <2>2. fate[d] = "sent" /\ hand # d /\ (\A x \in Chans : job[x] # d) /\ job[ch] \notin Conns
      BY <1>20, <2>1 DEF ReceiveConn, IInv, PlacesInv, ChannelsInv
    <2>3. \A x \in Chans : x # ch => buf[x] # d
      BY <2>1 DEF IInv, PlacesInv
    <2>4. \A x \in Chans, c \in Conns : buf'[x] = c <=> (buf[x] = c /\ c # d)
      BY <2>1, <2>3 DEF IInv, TypeOK
    <2>5. \A x \in Chans, c \in Conns : job'[x] = c <=> (job[x] = c \/ (x = ch /\ c = d))
      BY <2>1, <2>2 DEF IInv, TypeOK
    <2>6. \A c \in Conns : fate'[c] = IF c = d THEN "serving" ELSE fate[c]
      BY <2>1 DEF IInv, TypeOK
    <2>7. \A c \in Conns : /\ fate'[c] = "accepted" <=> hand' = c
                           /\ fate'[c] = "sent" <=> \E x \in Chans : buf'[x] = c
      BY <2>1, <2>2, <2>4, <2>6 DEF IInv, PlacesInv
    <2>8. \A c \in Conns : fate'[c] = "serving" <=> \E x \in Chans : job'[x] = c
      BY <2>5, <2>6 DEF IInv, PlacesInv
    <2>9. \A x, y \in Chans : buf'[x] \in Conns /\ buf'[x] = buf'[y] => x = y
      BY <2>4 DEF IInv, PlacesInv
    <2>10. \A x, y \in Chans : job'[x] \in Conns /\ job'[x] = job'[y] => x = y
      BY <2>2, <2>5 DEF IInv, PlacesInv
    <2> QED BY <2>7, <2>8, <2>9, <2>10 DEF PlacesInv
  <1>21. ASSUME NEW ch \in Chans, ServeReturns(ch) PROVE PlacesInv'
    <2> DEFINE d == job[ch]
    <2>1. d \in Conns
      BY <1>21 DEF ServeReturns, IInv, ChannelsInv
    <2>2. PICK end \in {"closed", "hijacked"} : fate' = [fate EXCEPT ![d] = end]
      BY <1>21 DEF ServeReturns
    <2>3. buf' = buf /\ job' = [job EXCEPT ![ch] = Nil] /\ hand' = hand
      BY <1>21 DEF ServeReturns, serving
    <2>4. fate[d] = "serving" /\ \A x \in Chans : x # ch => job[x] # d
      BY <2>1 DEF IInv, PlacesInv
    <2>5. \A x \in Chans, c \in Conns : job'[x] = c <=> (job[x] = c /\ c # d)
      BY <2>3, <2>4 DEF IInv, TypeOK
    <2>6. \A c \in Conns : fate'[c] = IF c = d THEN end ELSE fate[c]
      BY <2>1, <2>2 DEF IInv, TypeOK
    <2> HIDE DEF d
    <2>7. \A c \in Conns : /\ fate'[c] = "accepted" <=> hand' = c
                           /\ fate'[c] = "sent" <=> \E x \in Chans : buf'[x] = c
      BY <2>1, <2>3, <2>4, <2>6 DEF IInv, PlacesInv
    <2>8. \A c \in Conns : fate'[c] = "serving" <=> \E x \in Chans : job'[x] = c
      BY <2>5, <2>6 DEF IInv, PlacesInv
    <2>9. \A x, y \in Chans : job'[x] \in Conns /\ job'[x] = job'[y] => x = y
      BY <2>5 DEF IInv, PlacesInv
    <2> QED BY <2>3, <2>7, <2>8, <2>9 DEF IInv, PlacesInv
  <1>22. ASSUME UNCHANGED vars PROVE PlacesInv'
    BY <1>22, <1>1 DEF vars, serving
  <1> QED
    BY <1>2, <1>3, <1>4, <1>5, <1>6, <1>7, <1>8, <1>9, <1>10, <1>11, <1>12,
       <1>13, <1>14, <1>15, <1>16, <1>17, <1>18, <1>19, <1>20, <1>21, <1>22
    DEF Next, Serve, Worker, Cleaner

(* What a worker that starts, ends or goes on does to the number of them. *)
LEMMA LiveFinite == IsFiniteSet(LiveWorkers) /\ Cardinality(LiveWorkers) \in Nat
  <1>1. LiveWorkers \in SUBSET Chans
    BY DEF LiveWorkers
  <1> QED BY <1>1, ChansAssumption, FS_Subset, FS_CardinalityType

LEMMA CountNext == IInv /\ [Next]_vars => WorkersCounted'
  <1> SUFFICES ASSUME IInv, [Next]_vars PROVE WorkersCounted'
    OBVIOUS
  <1> USE MaxAssumption
  <1>1. CASE /\ workersCount' = workersCount /\ LiveWorkers' = LiveWorkers
             /\ spc' = "spawn" <=> spc = "spawn"
    BY <1>1 DEF IInv, WorkersCounted
  <1>2. ASSUME Accept PROVE WorkersCounted'
    BY <1>2, <1>1 DEF Accept, serving, cleaning, LiveWorkers
  <1>3. ASSUME PopReady PROVE WorkersCounted'
    BY <1>3, <1>1 DEF PopReady, serving, cleaning, LiveWorkers
  <1>4. ASSUME Refuse PROVE WorkersCounted'
    BY <1>4, <1>1 DEF Refuse, serving, cleaning, LiveWorkers
  <1>5. ASSUME SendConn PROVE WorkersCounted'
    BY <1>5, <1>1 DEF SendConn, serving, cleaning, LiveWorkers
  <1>6. ASSUME AcceptFails PROVE WorkersCounted'
    BY <1>6, <1>1 DEF AcceptFails, serving, cleaning, LiveWorkers
  <1>7. ASSUME StopLocks PROVE WorkersCounted'
    BY <1>7, <1>1 DEF StopLocks, serving, cleaning, LiveWorkers
  <1>8. ASSUME StopUnlocks PROVE WorkersCounted'
    BY <1>8, <1>1 DEF StopUnlocks, serving, cleaning, LiveWorkers
  <1>9. ASSUME StopSends PROVE WorkersCounted'
    BY <1>9, <1>1 DEF StopSends, serving, cleaning, LiveWorkers
  <1>10. ASSUME Clean PROVE WorkersCounted'
    BY <1>10, <1>1 DEF Clean, serving, cleaning, LiveWorkers
  <1>11. ASSUME Notify PROVE WorkersCounted'
    BY <1>11, <1>1 DEF Notify, serving, cleaning, LiveWorkers
  <1>12. ASSUME CleanDone PROVE WorkersCounted'
    BY <1>12, <1>1 DEF CleanDone, serving, cleaning, LiveWorkers
  <1>13. ASSUME NEW ch \in Chans, ReceiveConn(ch) PROVE WorkersCounted'
    <2>1. LiveWorkers' = LiveWorkers
      BY <1>13 DEF ReceiveConn, LiveWorkers, Live, IInv, TypeOK
    <2> QED BY <1>13, <1>1, <2>1 DEF ReceiveConn, serving
  <1>14. ASSUME NEW ch \in Chans, ReceiveStop(ch) PROVE WorkersCounted'
    <2>1. LiveWorkers' = LiveWorkers
      BY <1>14 DEF ReceiveStop, LiveWorkers, Live, IInv, TypeOK
    <2> QED BY <1>14, <1>1, <2>1 DEF ReceiveStop, serving
  <1>15. ASSUME NEW ch \in Chans, ServeReturns(ch) PROVE WorkersCounted'
    <2>1. LiveWorkers' = LiveWorkers
      BY <1>15 DEF ServeReturns, LiveWorkers, Live, IInv, TypeOK
    <2> QED BY <1>15, <1>1, <2>1 DEF ServeReturns, serving
  <1>16. ASSUME NEW ch \in Chans, ReleaseToReady(ch) PROVE WorkersCounted'
    <2>1. LiveWorkers' = LiveWorkers
      BY <1>16 DEF ReleaseToReady, LiveWorkers, Live, IInv, TypeOK
    <2> QED BY <1>16, <1>1, <2>1 DEF ReleaseToReady, serving
  <1>17. ASSUME NEW ch \in Chans, ReleaseStops(ch) PROVE WorkersCounted'
    <2>1. LiveWorkers' = LiveWorkers
      BY <1>17 DEF ReleaseStops, LiveWorkers, Live, IInv, TypeOK
    <2> QED BY <1>17, <1>1, <2>1 DEF ReleaseStops, serving
  <1>18. ASSUME NEW ch \in Chans, PutChan(ch) PROVE WorkersCounted'
    <2>1. LiveWorkers' = LiveWorkers
      BY <1>18 DEF PutChan, LiveWorkers, Live, IInv, TypeOK
    <2> QED BY <1>18, <1>1, <2>1 DEF PutChan, serving
  <1>19. ASSUME CountWorker PROVE WorkersCounted'
    <2>1. LiveWorkers' = LiveWorkers /\ workersCount' = workersCount + 1 /\ workersCount < MaxWorkersCount
      BY <1>19 DEF CountWorker, LiveWorkers
    <2>2. spc # "spawn" /\ spc' = "spawn"
      BY <1>19 DEF CountWorker
    <2> QED BY <2>1, <2>2, LiveFinite DEF IInv, WorkersCounted
  <1>20. ASSUME Spawn PROVE WorkersCounted'
    <2>1. PICK ch \in Chans : wpc[ch] = "free" /\ wpc' = [wpc EXCEPT ![ch] = "recv"]
      BY <1>20 DEF Spawn
    <2>2. LiveWorkers' = LiveWorkers \cup {ch} /\ ch \notin LiveWorkers
      BY <2>1 DEF LiveWorkers, Live, IInv, TypeOK
    <2>3. Cardinality(LiveWorkers') = Cardinality(LiveWorkers) + 1
      BY <2>2, LiveFinite, FS_AddElement
    <2>4. spc = "spawn" /\ spc' # "spawn" /\ workersCount' = workersCount
      BY <1>20 DEF Spawn
    <2> QED BY <2>3, <2>4, LiveFinite DEF IInv, WorkersCounted
  <1>21. ASSUME NEW ch \in Chans, Exit(ch) PROVE WorkersCounted'
    <2>1. LiveWorkers' = LiveWorkers \ {ch} /\ ch \in LiveWorkers
      BY <1>21 DEF Exit, LiveWorkers, Live, IInv, TypeOK
    <2>2. Cardinality(LiveWorkers') = Cardinality(LiveWorkers) - 1
      BY <2>1, LiveFinite, FS_RemoveElement
    <2>3. spc' = spc /\ workersCount' = workersCount - 1
      BY <1>21 DEF Exit, serving
    <2> QED BY <2>2, <2>3, LiveFinite DEF IInv, WorkersCounted
  <1>22. ASSUME UNCHANGED vars PROVE WorkersCounted'
    BY <1>22, <1>1 DEF vars, serving, LiveWorkers
  <1> QED
    BY <1>2, <1>3, <1>4, <1>5, <1>6, <1>7, <1>8, <1>9, <1>10, <1>11, <1>12,
       <1>13, <1>14, <1>15, <1>16, <1>17, <1>18, <1>19, <1>20, <1>21, <1>22
    DEF Next, Serve, Worker, Cleaner

-----------------------------------------------------------------------------
(* The theorems                                                                *)

(* The acceptor, the workers, the cleaner and Stop keep the invariant, whatever *)
(* their order: workerpool.go, and Serve in server.go.                          *)
THEOREM WorkerPoolInvariant == Spec => []IInv
  <1>1. Init => IInv
    BY IInvInit
  <1>2. IInv /\ [Next]_vars => IInv'
    BY ShapeNext, AppointedNext, PlacesNext, CountNext DEF IInv
  <1> QED BY <1>1, <1>2, PTL DEF Spec

(* Every variable of the worker pool keeps its type. *)
THEOREM WorkerPoolTypes == Spec => []TypeOK
  <1>. IInv => TypeOK
    BY DEF IInv
  <1> QED BY WorkerPoolInvariant, PTL

(* workersCount is exactly the number of workers, and never more than           *)
(* MaxWorkersCount.                                                             *)
THEOREM WorkersAreCounted == Spec => []WorkersCounted
  <1>. IInv => WorkersCounted
    BY DEF IInv
  <1> QED BY WorkerPoolInvariant, PTL

(* A channel without a worker at its receive is empty. *)
THEOREM RecycledChansAreEmpty == Spec => []RecycledChanIsEmpty
  <1>. IInv => RecycledChanIsEmpty
    BY DEF IInv, ChannelsInv, RecycledChanIsEmpty
  <1> QED BY WorkerPoolInvariant, PTL

LEMMA AppointedApart == IInv => OneSenderPerIdleWorker
  <1> SUFFICES ASSUME IInv PROVE OneSenderPerIdleWorker
    OBVIOUS
  <1> DEFINE a == IF spc = "send" THEN <<target>> ELSE <<>>
  <1>1. a \in Seq(Chans) /\ Once(a) /\ Members(a) = Aim
    <2>1. CASE spc = "send"
      <3>1. target \in Chans /\ a = <<target>>
        BY <2>1 DEF IInv, HandInv
      <3>2. <<target>> \in Seq(Chans) /\ Len(<<target>>) = 1 /\ <<target>>[1] = target
        BY <3>1
      <3>3. Once(<<target>>) /\ Members(<<target>>) = {target}
        BY <3>2 DEF Once, Members
      <3> QED BY <2>1, <3>1, <3>2, <3>3 DEF Aim
    <2>2. CASE spc # "send"
      BY <2>2, OnceEmpty DEF Aim
    <2> QED BY <2>1, <2>2
  <1>2. /\ ready \in Seq(Chans) /\ scratch \in Seq(Chans)
        /\ Once(ready) /\ Once(scratch)
        /\ Members(ready) \cap Members(scratch) = {}
    BY DEF IInv, TypeOK, AppointedInv
  <1> HIDE DEF a
  <1> DEFINE b == ready \o scratch
  <1>3. b \in Seq(Chans) /\ Once(b) /\ Members(b) = Members(ready) \cup Members(scratch)
    BY <1>2, OnceConcat
  <1> HIDE DEF b
  <1>4. Members(b) \cap Members(a) = {}
    BY <1>1, <1>3 DEF IInv, AppointedInv
  <1>5. Once(b \o a) /\ Members(b \o a) = Members(b) \cup Members(a)
    BY <1>1, <1>3, <1>4, OnceConcat
  <1>6. Appointed = b \o a
    BY DEF Appointed, a, b
  <1>7. Members(Appointed) = {ch \in Chans : wpc[ch] = "recv" /\ buf[ch] = Empty}
    BY <1>1, <1>3, <1>5, <1>6 DEF IInv, AppointedInv, Idle
  <1> QED BY <1>5, <1>6, <1>7 DEF OneSenderPerIdleWorker, Once, Members

(* getCh, clean and Stop never appoint the same idle worker, and leave none out. *)
THEOREM IdleWorkersHaveOneSender == Spec => []OneSenderPerIdleWorker
  <1>. IInv => OneSenderPerIdleWorker
    BY AppointedApart
  <1> QED BY WorkerPoolInvariant, PTL

(* At most one channel carries c, or is served with c. *)
LEMMA CountPlaces ==
  ASSUME NEW T, T \subseteq Chans, \A x, y \in T : x = y
  PROVE  Cardinality(T) = IF T = {} THEN 0 ELSE 1
  <1>1. CASE T = {}
    BY <1>1, FS_EmptySet
  <1>2. CASE T # {}
    <2>1. PICK x \in T : T = {x}
      BY <1>2
    <2> QED BY <1>2, <2>1, FS_Singleton
  <1> QED BY <1>1, <1>2

LEMMA PlacesCounted == IInv => ConnAtOnePlace
  <1> SUFFICES ASSUME IInv, NEW c \in Conns
               PROVE  /\ fate[c] = "accepted" <=> hand = c
                      /\ Cardinality({ch \in Chans : buf[ch] = c}) = (IF fate[c] = "sent" THEN 1 ELSE 0)
                      /\ Cardinality({ch \in Chans : job[ch] = c}) = (IF fate[c] = "serving" THEN 1 ELSE 0)
    BY DEF ConnAtOnePlace
  <1> DEFINE B == {ch \in Chans : buf[ch] = c}
             J == {ch \in Chans : job[ch] = c}
  <1>1. B \subseteq Chans /\ (\A x, y \in B : x = y) /\ (B # {} <=> fate[c] = "sent")
    BY DEF IInv, PlacesInv
  <1>2. J \subseteq Chans /\ (\A x, y \in J : x = y) /\ (J # {} <=> fate[c] = "serving")
    BY DEF IInv, PlacesInv
  <1>3. fate[c] = "accepted" <=> hand = c
    BY DEF IInv, PlacesInv
  <1> HIDE DEF B, J
  <1>4. Cardinality(B) = IF B = {} THEN 0 ELSE 1
    BY <1>1, CountPlaces
  <1>5. Cardinality(J) = IF J = {} THEN 0 ELSE 1
    BY <1>2, CountPlaces
  <1> QED BY <1>1, <1>2, <1>3, <1>4, <1>5 DEF B, J

(* Each accepted connection is with the acceptor, on one channel, with one      *)
(* worker or finished.                                                          *)
THEOREM ConnsAreAtOnePlace == Spec => []ConnAtOnePlace
  <1>. IInv => ConnAtOnePlace
    BY PlacesCounted
  <1> QED BY WorkerPoolInvariant, PTL
===============================================================================
