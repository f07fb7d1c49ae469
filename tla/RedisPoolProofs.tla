---------------------------- MODULE RedisPoolProofs ----------------------------
(* Theorems about RedisPool, for every set of goroutines and connections and   *)
(* every setting of the pool: its invariants, and that it implements ConnLease.*)
EXTENDS RedisPool, FiniteSetTheorems, SequenceTheorems, TLAPS

(* Who holds p.mu is where it is held. *)
LockDiscipline == \A t \in Threads : mu = t <=> pc[t] \in Locked

(* A goroutine has a connection exactly where the code has one in a variable. *)
Holding == {"pruneClose", "test", "testClose", "held", "put", "putClose"}
HandsDiscipline == \A t \in Threads : have[t] # Nobody <=> pc[t] \in Holding

(* The wait set of p.cond. *)
WaitDiscipline == waiting = {t \in Threads : pc[t] = "wait"}

Shape == TypeOK /\ LockDiscipline /\ HandsDiscipline /\ WaitDiscipline

-----------------------------------------------------------------------------
(* The frame of the invariants: types, the lock, the hands, the wait set *)

LEMMA ShapeInit == Init => Shape
  <1> SUFFICES ASSUME Init PROVE Shape
    OBVIOUS
  <1>1. TypeOK
    <2>1. pc \in [Threads -> Places] /\ have \in [Threads -> Conns \cup {Nobody}]
      BY DEF Init, Places
    <2>2. left \in [Threads -> Nat] /\ drop \in [Threads -> BOOLEAN]
      BY DEF Init
    <2>3. idle \in Seq(Conns)
      BY DEF Init
    <2>4. closed \in BOOLEAN
      BY Zenon DEF Init
    <2> QED BY <2>1, <2>2, <2>3, <2>4 DEF Init, TypeOK
  <1>2. LockDiscipline /\ HandsDiscipline /\ WaitDiscipline
    BY NobodyAssumption
    DEF Init, LockDiscipline, HandsDiscipline, WaitDiscipline, Locked, Holding
  <1> QED BY <1>1, <1>2 DEF Shape

(* A goroutine that signals moves, and one that waited is woken. *)
LEMMA SignalShape ==
  ASSUME Shape, NEW t \in Threads, NEW p \in Places \ {"wait"}, pc[t] # "wait", Signal(t, p)
  PROVE  /\ pc' \in [Threads -> Places]
         /\ waiting' = {u \in Threads : pc'[u] = "wait"}
         /\ pc'[t] = p
         /\ \A u \in Threads \ {t} : pc'[u] = pc[u] \/ (pc[u] = "wait" /\ pc'[u] = "woken")
  <1>1. CASE waiting = {}
    BY <1>1 DEF Signal, Shape, TypeOK, WaitDiscipline
  <1>2. CASE waiting # {}
    <2>1. PICK w \in waiting : /\ pc' = [pc EXCEPT ![t] = p, ![w] = "woken"]
                               /\ waiting' = waiting \ {w}
      BY <1>2 DEF Signal
    <2>2. w \in Threads /\ pc[w] = "wait" /\ w # t /\ "woken" \in Places
      BY <2>1 DEF Shape, WaitDiscipline, Places
    <2> QED BY <2>1, <2>2 DEF Shape, TypeOK, WaitDiscipline
  <1> QED BY <1>1, <1>2

(* The same for a step that signals nobody. *)
LEMMA GotoShape ==
  ASSUME Shape, NEW t \in Threads, NEW p \in Places \ {"wait"}, pc[t] # "wait", Goto(t, p)
  PROVE  /\ pc' \in [Threads -> Places]
         /\ waiting' = {u \in Threads : pc'[u] = "wait"}
         /\ pc'[t] = p
         /\ \A u \in Threads \ {t} : pc'[u] = pc[u]
  BY DEF Goto, Shape, TypeOK, WaitDiscipline

(* A prefix of a sequence of connections. *)
LEMMA PrefixProperties ==
  ASSUME NEW q \in Seq(Conns), NEW n \in Nat, n <= Len(q)
  PROVE  /\ SubSeq(q, 1, n) \in Seq(Conns)
         /\ Len(SubSeq(q, 1, n)) = n
         /\ \A i \in 1..n : SubSeq(q, 1, n)[i] = q[i]
  <1>1. \A i \in 1..n : q[i] \in Conns
    OBVIOUS
  <1>2. /\ SubSeq(q, 1, n) \in Seq(Conns)
        /\ Len(SubSeq(q, 1, n)) = IF 1 <= n THEN n - 1 + 1 ELSE 0
        /\ \A i \in 1..n - 1 + 1 : SubSeq(q, 1, n)[i] = q[1 + i - 1]
    BY <1>1, SubSeqProperties
  <1>3. n - 1 + 1 = n /\ (~(1 <= n) => n = 0) /\ \A i \in 1..n : 1 + i - 1 = i
    OBVIOUS
  <1> QED BY <1>2, <1>3

(* What taking from either end of the idle list leaves. *)
LEMMA IdleEnds ==
  ASSUME NEW q \in Seq(Conns), q # <<>>
  PROVE  /\ q[Len(q)] \in Conns /\ SubSeq(q, 1, Len(q) - 1) \in Seq(Conns)
         /\ Head(q) = q[1] /\ q[1] \in Conns /\ Tail(q) \in Seq(Conns)
         /\ Len(q) \in Nat \ {0}
         /\ Len(Tail(q)) = Len(q) - 1 /\ Len(SubSeq(q, 1, Len(q) - 1)) = Len(q) - 1
         /\ \A i \in 1..Len(q) - 1 : Tail(q)[i] = q[i + 1] /\ SubSeq(q, 1, Len(q) - 1)[i] = q[i]
  <1>1. Len(q) \in Nat \ {0}
    OBVIOUS
  <1>2. q[Len(q)] \in Conns
    BY <1>1
  <1>3. Head(q) = q[1] /\ q[1] \in Conns /\ Tail(q) \in Seq(Conns)
    BY <1>1
  <1>4. Len(Tail(q)) = Len(q) - 1 /\ \A i \in 1..Len(q) - 1 : Tail(q)[i] = q[i + 1]
    BY <1>1
  <1>5. Len(q) - 1 \in Nat /\ Len(q) - 1 <= Len(q)
    BY <1>1
  <1> QED BY <1>1, <1>2, <1>3, <1>4, <1>5, PrefixProperties

(* What pushing at the front gives, and dropping the back after it. *)
LEMMA IdlePush ==
  ASSUME NEW q \in Seq(Conns), NEW c \in Conns
  PROVE  LET r == <<c>> \o q IN
         /\ r \in Seq(Conns) /\ Len(r) = Len(q) + 1
         /\ \A i \in 1..Len(q) : r[i + 1] = q[i]
         /\ r[1] = c
         /\ SubSeq(r, 1, Len(q)) \in Seq(Conns) /\ Len(SubSeq(r, 1, Len(q))) = Len(q)
         /\ \A i \in 1..Len(q) : SubSeq(r, 1, Len(q))[i] = r[i]
         /\ r[Len(r)] \in Conns
  <1> DEFINE r == <<c>> \o q
  <1>1. /\ r \in Seq(Conns) /\ Len(r) = Len(q) + 1
        /\ \A i \in 1..Len(q) : r[i + 1] = q[i]
        /\ r[1] = c
        /\ Len(q) \in Nat
    OBVIOUS
  <1> HIDE DEF r
  <1>2. r[Len(r)] \in Conns /\ Len(q) <= Len(r)
    BY <1>1
  <1>3. /\ SubSeq(r, 1, Len(q)) \in Seq(Conns) /\ Len(SubSeq(r, 1, Len(q))) = Len(q)
        /\ \A i \in 1..Len(q) : SubSeq(r, 1, Len(q))[i] = r[i]
    BY <1>1, <1>2, PrefixProperties
  <1> QED BY <1>1, <1>2, <1>3 DEF r

LEMMA ShapeNext == Shape /\ [Next]_vars => Shape'
  <1> SUFFICES ASSUME Shape, [Next]_vars PROVE Shape'
    OBVIOUS
  <1> USE NobodyAssumption
  <1>1. ASSUME NEW t \in Threads, Get(t) PROVE Shape'
    <2>1. /\ pc' \in [Threads -> Places]
          /\ waiting' = {u \in Threads : pc'[u] = "wait"}
          /\ pc'[t] = "prune"
          /\ \A u \in Threads \ {t} : pc'[u] = pc[u]
      BY <1>1, GotoShape DEF Get, Places, Counted, Discarding
    <2>2. left' \in [Threads -> Nat]
      BY <1>1, <2>1 DEF Get, Lock, Unlock, Shape, TypeOK
    <2>3. TypeOK'
      BY <1>1, <2>1, <2>2 DEF Get, Lock, Unlock, Shape, TypeOK, HandsDiscipline, Holding
    <2>4. LockDiscipline' /\ HandsDiscipline' /\ WaitDiscipline'
      BY <1>1, <2>1, <2>2 DEF Get, Lock, Unlock, Shape, TypeOK, LockDiscipline,
        HandsDiscipline, WaitDiscipline, Locked, Holding
    <2> QED BY <2>3, <2>4, <2>1 DEF Shape, WaitDiscipline
  <1>2. ASSUME NEW t \in Threads, PruneStale(t) PROVE Shape'
    <2>1. /\ pc' \in [Threads -> Places]
          /\ waiting' = {u \in Threads : pc'[u] = "wait"}
          /\ pc'[t] = "pruneClose"
          /\ \A u \in Threads \ {t} : pc'[u] = pc[u] \/ (pc[u] = "wait" /\ pc'[u] = "woken")
      BY <1>2, SignalShape DEF PruneStale, Release, Places, Counted, Discarding
    <2>2. left' \in [Threads -> Nat]
      BY <1>2, <2>1, IdleEnds DEF PruneStale, Release, Lock, Unlock, Oldest, ButOldest, Shape, TypeOK
    <2>3. idle' \in Seq(Conns)
      BY <1>2, <2>1, <2>2, IdleEnds DEF PruneStale, Release, Lock, Unlock, Oldest, ButOldest, Shape, TypeOK
    <2>4. have' \in [Threads -> Conns \cup {Nobody}] /\ have'[t] # Nobody /\ \A u \in Threads \ {t} : have'[u] = have[u]
      BY <1>2, <2>1, <2>2, <2>3, IdleEnds DEF PruneStale, Release, Lock, Unlock, Oldest, ButOldest, Shape, TypeOK
    <2>5. TypeOK'
      BY <1>2, <2>1, <2>2, <2>3, <2>4 DEF PruneStale, Release, Lock, Unlock, Oldest, ButOldest, Shape, TypeOK, HandsDiscipline, Holding
    <2>6. LockDiscipline' /\ HandsDiscipline' /\ WaitDiscipline'
      BY <1>2, <2>1, <2>2, <2>3, <2>4 DEF PruneStale, Release, Lock, Unlock, Oldest, ButOldest, Shape, TypeOK, LockDiscipline,
        HandsDiscipline, WaitDiscipline, Locked, Holding
    <2> QED BY <2>5, <2>6, <2>1 DEF Shape, WaitDiscipline
  <1>3. ASSUME NEW t \in Threads, PruneClose(t) PROVE Shape'
    <2>1. /\ pc' \in [Threads -> Places]
          /\ waiting' = {u \in Threads : pc'[u] = "wait"}
          /\ pc'[t] = "relockPrune"
          /\ \A u \in Threads \ {t} : pc'[u] = pc[u]
      BY <1>3, GotoShape DEF PruneClose, Places, Counted, Discarding
    <2>2. TypeOK'
      BY <1>3, <2>1 DEF PruneClose, CloseHeld, Lock, Unlock, Shape, TypeOK, HandsDiscipline, Holding
    <2>3. LockDiscipline' /\ HandsDiscipline' /\ WaitDiscipline'
      BY <1>3, <2>1 DEF PruneClose, CloseHeld, Lock, Unlock, Shape, TypeOK, LockDiscipline,
        HandsDiscipline, WaitDiscipline, Locked, Holding
    <2> QED BY <2>2, <2>3, <2>1 DEF Shape, WaitDiscipline
  <1>4. ASSUME NEW t \in Threads, RelockPrune(t) PROVE Shape'
    <2>1. /\ pc' \in [Threads -> Places]
          /\ waiting' = {u \in Threads : pc'[u] = "wait"}
          /\ pc'[t] = "prune"
          /\ \A u \in Threads \ {t} : pc'[u] = pc[u]
      BY <1>4, GotoShape DEF RelockPrune, Places, Counted, Discarding
    <2>2. TypeOK'
      BY <1>4, <2>1 DEF RelockPrune, Lock, Unlock, Shape, TypeOK, HandsDiscipline, Holding
    <2>3. LockDiscipline' /\ HandsDiscipline' /\ WaitDiscipline'
      BY <1>4, <2>1 DEF RelockPrune, Lock, Unlock, Shape, TypeOK, LockDiscipline,
        HandsDiscipline, WaitDiscipline, Locked, Holding
    <2> QED BY <2>2, <2>3, <2>1 DEF Shape, WaitDiscipline
  <1>5. ASSUME NEW t \in Threads, PruneDone(t) PROVE Shape'
    <2>1. /\ pc' \in [Threads -> Places]
          /\ waiting' = {u \in Threads : pc'[u] = "wait"}
          /\ pc'[t] = "scan"
          /\ \A u \in Threads \ {t} : pc'[u] = pc[u]
      BY <1>5, GotoShape DEF PruneDone, Places, Counted, Discarding
    <2>2. left' \in [Threads -> Nat]
      BY <1>5, <2>1 DEF PruneDone, Lock, Unlock, Shape, TypeOK
    <2>3. TypeOK'
      BY <1>5, <2>1, <2>2 DEF PruneDone, Lock, Unlock, Shape, TypeOK, HandsDiscipline, Holding
    <2>4. LockDiscipline' /\ HandsDiscipline' /\ WaitDiscipline'
      BY <1>5, <2>1, <2>2 DEF PruneDone, Lock, Unlock, Shape, TypeOK, LockDiscipline,
        HandsDiscipline, WaitDiscipline, Locked, Holding
    <2> QED BY <2>3, <2>4, <2>1 DEF Shape, WaitDiscipline
  <1>6. ASSUME NEW t \in Threads, TakeIdle(t) PROVE Shape'
    <2>1. /\ pc' \in [Threads -> Places]
          /\ waiting' = {u \in Threads : pc'[u] = "wait"}
          /\ pc'[t] = "test"
          /\ \A u \in Threads \ {t} : pc'[u] = pc[u]
      BY <1>6, GotoShape DEF TakeIdle, Places, Counted, Discarding
    <2>2. left' \in [Threads -> Nat]
      BY <1>6, <2>1, IdleEnds DEF TakeIdle, Lock, Unlock, Shape, TypeOK
    <2>3. idle' \in Seq(Conns)
      BY <1>6, <2>1, <2>2, IdleEnds DEF TakeIdle, Lock, Unlock, Shape, TypeOK
    <2>4. have' \in [Threads -> Conns \cup {Nobody}] /\ have'[t] # Nobody /\ \A u \in Threads \ {t} : have'[u] = have[u]
      BY <1>6, <2>1, <2>2, <2>3, IdleEnds DEF TakeIdle, Lock, Unlock, Shape, TypeOK
    <2>5. TypeOK'
      BY <1>6, <2>1, <2>2, <2>3, <2>4 DEF TakeIdle, Lock, Unlock, Shape, TypeOK, HandsDiscipline, Holding
    <2>6. LockDiscipline' /\ HandsDiscipline' /\ WaitDiscipline'
      BY <1>6, <2>1, <2>2, <2>3, <2>4 DEF TakeIdle, Lock, Unlock, Shape, TypeOK, LockDiscipline,
        HandsDiscipline, WaitDiscipline, Locked, Holding
    <2> QED BY <2>5, <2>6, <2>1 DEF Shape, WaitDiscipline
  <1>7. ASSUME NEW t \in Threads, TestPasses(t) PROVE Shape'
    <2>1. /\ pc' \in [Threads -> Places]
          /\ waiting' = {u \in Threads : pc'[u] = "wait"}
          /\ pc'[t] = "held"
          /\ \A u \in Threads \ {t} : pc'[u] = pc[u]
      BY <1>7, GotoShape DEF TestPasses, Places, Counted, Discarding
    <2>2. TypeOK'
      BY <1>7, <2>1 DEF TestPasses, Lock, Unlock, Shape, TypeOK, HandsDiscipline, Holding
    <2>3. LockDiscipline' /\ HandsDiscipline' /\ WaitDiscipline'
      BY <1>7, <2>1 DEF TestPasses, Lock, Unlock, Shape, TypeOK, LockDiscipline,
        HandsDiscipline, WaitDiscipline, Locked, Holding
    <2> QED BY <2>2, <2>3, <2>1 DEF Shape, WaitDiscipline
  <1>8. ASSUME NEW t \in Threads, TestFails(t) PROVE Shape'
    <2>1. /\ pc' \in [Threads -> Places]
          /\ waiting' = {u \in Threads : pc'[u] = "wait"}
          /\ pc'[t] = "testClose"
          /\ \A u \in Threads \ {t} : pc'[u] = pc[u]
      BY <1>8, GotoShape DEF TestFails, Places, Counted, Discarding
    <2>2. TypeOK'
      BY <1>8, <2>1 DEF TestFails, Lock, Unlock, Shape, TypeOK, HandsDiscipline, Holding
    <2>3. LockDiscipline' /\ HandsDiscipline' /\ WaitDiscipline'
      BY <1>8, <2>1 DEF TestFails, Lock, Unlock, Shape, TypeOK, LockDiscipline,
        HandsDiscipline, WaitDiscipline, Locked, Holding
    <2> QED BY <2>2, <2>3, <2>1 DEF Shape, WaitDiscipline
  <1>9. ASSUME NEW t \in Threads, TestClose(t) PROVE Shape'
    <2>1. /\ pc' \in [Threads -> Places]
          /\ waiting' = {u \in Threads : pc'[u] = "wait"}
          /\ pc'[t] = "relockScan"
          /\ \A u \in Threads \ {t} : pc'[u] = pc[u]
      BY <1>9, GotoShape DEF TestClose, Places, Counted, Discarding
    <2>2. TypeOK'
      BY <1>9, <2>1 DEF TestClose, CloseHeld, Lock, Unlock, Shape, TypeOK, HandsDiscipline, Holding
    <2>3. LockDiscipline' /\ HandsDiscipline' /\ WaitDiscipline'
      BY <1>9, <2>1 DEF TestClose, CloseHeld, Lock, Unlock, Shape, TypeOK, LockDiscipline,
        HandsDiscipline, WaitDiscipline, Locked, Holding
    <2> QED BY <2>2, <2>3, <2>1 DEF Shape, WaitDiscipline
  <1>10. ASSUME NEW t \in Threads, RelockScan(t) PROVE Shape'
    <2>1. /\ pc' \in [Threads -> Places]
          /\ waiting' = {u \in Threads : pc'[u] = "wait"}
          /\ pc'[t] = "scan"
          /\ \A u \in Threads \ {t} : pc'[u] = pc[u] \/ (pc[u] = "wait" /\ pc'[u] = "woken")
      BY <1>10, SignalShape DEF RelockScan, Release, Places, Counted, Discarding
    <2>2. TypeOK'
      BY <1>10, <2>1 DEF RelockScan, Release, Lock, Unlock, Shape, TypeOK, HandsDiscipline, Holding
    <2>3. LockDiscipline' /\ HandsDiscipline' /\ WaitDiscipline'
      BY <1>10, <2>1 DEF RelockScan, Release, Lock, Unlock, Shape, TypeOK, LockDiscipline,
        HandsDiscipline, WaitDiscipline, Locked, Holding
    <2> QED BY <2>2, <2>3, <2>1 DEF Shape, WaitDiscipline
  <1>11. ASSUME NEW t \in Threads, GetOnClosedPool(t) PROVE Shape'
    <2>1. /\ pc' \in [Threads -> Places]
          /\ waiting' = {u \in Threads : pc'[u] = "wait"}
          /\ pc'[t] = "out"
          /\ \A u \in Threads \ {t} : pc'[u] = pc[u]
      BY <1>11, GotoShape DEF GetOnClosedPool, ScanDone, Places, Counted, Discarding
    <2>2. TypeOK'
      BY <1>11, <2>1 DEF GetOnClosedPool, ScanDone, Lock, Unlock, Shape, TypeOK, HandsDiscipline, Holding
    <2>3. LockDiscipline' /\ HandsDiscipline' /\ WaitDiscipline'
      BY <1>11, <2>1 DEF GetOnClosedPool, ScanDone, Lock, Unlock, Shape, TypeOK, LockDiscipline,
        HandsDiscipline, WaitDiscipline, Locked, Holding
    <2> QED BY <2>2, <2>3, <2>1 DEF Shape, WaitDiscipline
  <1>12. ASSUME NEW t \in Threads, StartDial(t) PROVE Shape'
    <2>1. /\ pc' \in [Threads -> Places]
          /\ waiting' = {u \in Threads : pc'[u] = "wait"}
          /\ pc'[t] = "dial"
          /\ \A u \in Threads \ {t} : pc'[u] = pc[u]
      BY <1>12, GotoShape DEF StartDial, ScanDone, Places, Counted, Discarding
    <2>2. left' \in [Threads -> Nat]
      BY <1>12, <2>1 DEF StartDial, ScanDone, Lock, Unlock, Shape, TypeOK
    <2>3. active' \in Int
      BY <1>12, <2>1, <2>2 DEF StartDial, ScanDone, Lock, Unlock, Shape, TypeOK
    <2>4. TypeOK'
      BY <1>12, <2>1, <2>2, <2>3 DEF StartDial, ScanDone, Lock, Unlock, Shape, TypeOK, HandsDiscipline, Holding
    <2>5. LockDiscipline' /\ HandsDiscipline' /\ WaitDiscipline'
      BY <1>12, <2>1, <2>2, <2>3 DEF StartDial, ScanDone, Lock, Unlock, Shape, TypeOK, LockDiscipline,
        HandsDiscipline, WaitDiscipline, Locked, Holding
    <2> QED BY <2>4, <2>5, <2>1 DEF Shape, WaitDiscipline
  <1>13. ASSUME NEW t \in Threads, DialSucceeds(t) PROVE Shape'
    <2>1. /\ pc' \in [Threads -> Places]
          /\ waiting' = {u \in Threads : pc'[u] = "wait"}
          /\ pc'[t] = "held"
          /\ \A u \in Threads \ {t} : pc'[u] = pc[u]
      BY <1>13, GotoShape DEF DialSucceeds, Places, Counted, Discarding
    <2>2. have' \in [Threads -> Conns \cup {Nobody}]
      BY <1>13, <2>1 DEF DialSucceeds, Lock, Unlock, Shape, TypeOK
    <2>3. TypeOK'
      BY <1>13, <2>1, <2>2 DEF DialSucceeds, Lock, Unlock, Shape, TypeOK, HandsDiscipline, Holding
    <2>4. LockDiscipline' /\ HandsDiscipline' /\ WaitDiscipline'
      BY <1>13, <2>1, <2>2 DEF DialSucceeds, Lock, Unlock, Shape, TypeOK, LockDiscipline,
        HandsDiscipline, WaitDiscipline, Locked, Holding
    <2> QED BY <2>3, <2>4, <2>1 DEF Shape, WaitDiscipline
  <1>14. ASSUME NEW t \in Threads, DialFails(t) PROVE Shape'
    <2>1. /\ pc' \in [Threads -> Places]
          /\ waiting' = {u \in Threads : pc'[u] = "wait"}
          /\ pc'[t] = "dialFail"
          /\ \A u \in Threads \ {t} : pc'[u] = pc[u]
      BY <1>14, GotoShape DEF DialFails, Places, Counted, Discarding
    <2>2. TypeOK'
      BY <1>14, <2>1 DEF DialFails, Lock, Unlock, Shape, TypeOK, HandsDiscipline, Holding
    <2>3. LockDiscipline' /\ HandsDiscipline' /\ WaitDiscipline'
      BY <1>14, <2>1 DEF DialFails, Lock, Unlock, Shape, TypeOK, LockDiscipline,
        HandsDiscipline, WaitDiscipline, Locked, Holding
    <2> QED BY <2>2, <2>3, <2>1 DEF Shape, WaitDiscipline
  <1>15. ASSUME NEW t \in Threads, DialRelease(t) PROVE Shape'
    <2>1. /\ pc' \in [Threads -> Places]
          /\ waiting' = {u \in Threads : pc'[u] = "wait"}
          /\ pc'[t] = "out"
          /\ \A u \in Threads \ {t} : pc'[u] = pc[u] \/ (pc[u] = "wait" /\ pc'[u] = "woken")
      BY <1>15, SignalShape DEF DialRelease, Release, Places, Counted, Discarding
    <2>2. TypeOK'
      BY <1>15, <2>1 DEF DialRelease, Release, Lock, Unlock, Shape, TypeOK, HandsDiscipline, Holding
    <2>3. LockDiscipline' /\ HandsDiscipline' /\ WaitDiscipline'
      BY <1>15, <2>1 DEF DialRelease, Release, Lock, Unlock, Shape, TypeOK, LockDiscipline,
        HandsDiscipline, WaitDiscipline, Locked, Holding
    <2> QED BY <2>2, <2>3, <2>1 DEF Shape, WaitDiscipline
  <1>16. ASSUME NEW t \in Threads, Exhausted(t) PROVE Shape'
    <2>1. /\ pc' \in [Threads -> Places]
          /\ waiting' = {u \in Threads : pc'[u] = "wait"}
          /\ pc'[t] = "out"
          /\ \A u \in Threads \ {t} : pc'[u] = pc[u]
      BY <1>16, GotoShape DEF Exhausted, ScanDone, Places, Counted, Discarding
    <2>2. TypeOK'
      BY <1>16, <2>1 DEF Exhausted, ScanDone, Lock, Unlock, Shape, TypeOK, HandsDiscipline, Holding
    <2>3. LockDiscipline' /\ HandsDiscipline' /\ WaitDiscipline'
      BY <1>16, <2>1 DEF Exhausted, ScanDone, Lock, Unlock, Shape, TypeOK, LockDiscipline,
        HandsDiscipline, WaitDiscipline, Locked, Holding
    <2> QED BY <2>2, <2>3, <2>1 DEF Shape, WaitDiscipline
  <1>17. ASSUME NEW t \in Threads, CondWait(t) PROVE Shape'
    <2>1. /\ pc' \in [Threads -> Places]
          /\ waiting' = {u \in Threads : pc'[u] = "wait"}
          /\ pc'[t] = "wait"
          /\ \A u \in Threads \ {t} : pc'[u] = pc[u]
      BY <1>17 DEF CondWait, ScanDone, Shape, TypeOK, WaitDiscipline, Places
    <2>2. TypeOK'
      BY <1>17, <2>1 DEF CondWait, ScanDone, Lock, Unlock, Shape, TypeOK, HandsDiscipline, Holding
    <2>3. LockDiscipline' /\ HandsDiscipline' /\ WaitDiscipline'
      BY <1>17, <2>1 DEF CondWait, ScanDone, Lock, Unlock, Shape, TypeOK, LockDiscipline,
        HandsDiscipline, WaitDiscipline, Locked, Holding
    <2> QED BY <2>2, <2>3, <2>1 DEF Shape, WaitDiscipline
  <1>18. ASSUME NEW t \in Threads, RelockWoken(t) PROVE Shape'
    <2>1. /\ pc' \in [Threads -> Places]
          /\ waiting' = {u \in Threads : pc'[u] = "wait"}
          /\ pc'[t] = "scan"
          /\ \A u \in Threads \ {t} : pc'[u] = pc[u]
      BY <1>18, GotoShape DEF RelockWoken, Places, Counted, Discarding
    <2>2. left' \in [Threads -> Nat]
      BY <1>18, <2>1 DEF RelockWoken, Lock, Unlock, Shape, TypeOK
    <2>3. TypeOK'
      BY <1>18, <2>1, <2>2 DEF RelockWoken, Lock, Unlock, Shape, TypeOK, HandsDiscipline, Holding
    <2>4. LockDiscipline' /\ HandsDiscipline' /\ WaitDiscipline'
      BY <1>18, <2>1, <2>2 DEF RelockWoken, Lock, Unlock, Shape, TypeOK, LockDiscipline,
        HandsDiscipline, WaitDiscipline, Locked, Holding
    <2> QED BY <2>3, <2>4, <2>1 DEF Shape, WaitDiscipline
  <1>19. ASSUME NEW t \in Threads, ReturnConn(t) PROVE Shape'
    <2>1. /\ pc' \in [Threads -> Places]
          /\ waiting' = {u \in Threads : pc'[u] = "wait"}
          /\ pc'[t] = "put"
          /\ \A u \in Threads \ {t} : pc'[u] = pc[u]
      BY <1>19, GotoShape DEF ReturnConn, Places, Counted, Discarding
    <2>2. TypeOK'
      BY <1>19, <2>1 DEF ReturnConn, Lock, Unlock, Shape, TypeOK, HandsDiscipline, Holding
    <2>3. LockDiscipline' /\ HandsDiscipline' /\ WaitDiscipline'
      BY <1>19, <2>1 DEF ReturnConn, Lock, Unlock, Shape, TypeOK, LockDiscipline,
        HandsDiscipline, WaitDiscipline, Locked, Holding
    <2> QED BY <2>2, <2>3, <2>1 DEF Shape, WaitDiscipline
  <1>20. ASSUME NEW t \in Threads, PutIdle(t) PROVE Shape'
    <2>1. /\ pc' \in [Threads -> Places]
          /\ waiting' = {u \in Threads : pc'[u] = "wait"}
          /\ pc'[t] = "out"
          /\ \A u \in Threads \ {t} : pc'[u] = pc[u] \/ (pc[u] = "wait" /\ pc'[u] = "woken")
      BY <1>20, SignalShape DEF PutIdle, Places, Counted, Discarding
    <2>2. have[t] \in Conns
      BY <1>20, <2>1, IdlePush DEF PutIdle, Lock, Unlock, Shape, TypeOK, HandsDiscipline, Holding
    <2>3. drop' \in [Threads -> BOOLEAN]
      BY <1>20, <2>1, <2>2, IdlePush DEF PutIdle, Lock, Unlock, Shape, TypeOK
    <2>4. idle' \in Seq(Conns)
      BY <1>20, <2>1, <2>2, <2>3, IdlePush DEF PutIdle, Lock, Unlock, Shape, TypeOK
    <2>5. TypeOK'
      BY <1>20, <2>1, <2>2, <2>3, <2>4 DEF PutIdle, Lock, Unlock, Shape, TypeOK, HandsDiscipline, Holding
    <2>6. LockDiscipline' /\ HandsDiscipline' /\ WaitDiscipline'
      BY <1>20, <2>1, <2>2, <2>3, <2>4 DEF PutIdle, Lock, Unlock, Shape, TypeOK, LockDiscipline,
        HandsDiscipline, WaitDiscipline, Locked, Holding
    <2> QED BY <2>5, <2>6, <2>1 DEF Shape, WaitDiscipline
  <1>21. ASSUME NEW t \in Threads, PutEvict(t) PROVE Shape'
    <2>1. /\ pc' \in [Threads -> Places]
          /\ waiting' = {u \in Threads : pc'[u] = "wait"}
          /\ pc'[t] = "putClose"
          /\ \A u \in Threads \ {t} : pc'[u] = pc[u] \/ (pc[u] = "wait" /\ pc'[u] = "woken")
      BY <1>21, SignalShape DEF PutEvict, Release, Places, Counted, Discarding
    <2>2. have[t] \in Conns
      BY <1>21, <2>1, IdlePush DEF PutEvict, Release, Lock, Unlock, Shape, TypeOK, HandsDiscipline, Holding
    <2>3. drop' \in [Threads -> BOOLEAN]
      BY <1>21, <2>1, <2>2, IdlePush DEF PutEvict, Release, Lock, Unlock, Shape, TypeOK
    <2>4. idle' \in Seq(Conns)
      BY <1>21, <2>1, <2>2, <2>3, IdlePush DEF PutEvict, Release, Lock, Unlock, Shape, TypeOK
    <2>5. have' \in [Threads -> Conns \cup {Nobody}] /\ have'[t] # Nobody /\ \A u \in Threads \ {t} : have'[u] = have[u]
      BY <1>21, <2>1, <2>2, <2>3, <2>4, IdlePush DEF PutEvict, Release, Lock, Unlock, Shape, TypeOK
    <2>6. TypeOK'
      BY <1>21, <2>1, <2>2, <2>3, <2>4, <2>5 DEF PutEvict, Release, Lock, Unlock, Shape, TypeOK, HandsDiscipline, Holding
    <2>7. LockDiscipline' /\ HandsDiscipline' /\ WaitDiscipline'
      BY <1>21, <2>1, <2>2, <2>3, <2>4, <2>5 DEF PutEvict, Release, Lock, Unlock, Shape, TypeOK, LockDiscipline,
        HandsDiscipline, WaitDiscipline, Locked, Holding
    <2> QED BY <2>6, <2>7, <2>1 DEF Shape, WaitDiscipline
  <1>22. ASSUME NEW t \in Threads, PutDrop(t) PROVE Shape'
    <2>1. /\ pc' \in [Threads -> Places]
          /\ waiting' = {u \in Threads : pc'[u] = "wait"}
          /\ pc'[t] = "putClose"
          /\ \A u \in Threads \ {t} : pc'[u] = pc[u] \/ (pc[u] = "wait" /\ pc'[u] = "woken")
      BY <1>22, SignalShape DEF PutDrop, Release, Places, Counted, Discarding
    <2>2. drop' \in [Threads -> BOOLEAN]
      BY <1>22, <2>1 DEF PutDrop, Release, Lock, Unlock, Shape, TypeOK
    <2>3. TypeOK'
      BY <1>22, <2>1, <2>2 DEF PutDrop, Release, Lock, Unlock, Shape, TypeOK, HandsDiscipline, Holding
    <2>4. LockDiscipline' /\ HandsDiscipline' /\ WaitDiscipline'
      BY <1>22, <2>1, <2>2 DEF PutDrop, Release, Lock, Unlock, Shape, TypeOK, LockDiscipline,
        HandsDiscipline, WaitDiscipline, Locked, Holding
    <2> QED BY <2>3, <2>4, <2>1 DEF Shape, WaitDiscipline
  <1>23. ASSUME NEW t \in Threads, PutClose(t) PROVE Shape'
    <2>1. /\ pc' \in [Threads -> Places]
          /\ waiting' = {u \in Threads : pc'[u] = "wait"}
          /\ pc'[t] = "out"
          /\ \A u \in Threads \ {t} : pc'[u] = pc[u]
      BY <1>23, GotoShape DEF PutClose, Places, Counted, Discarding
    <2>2. TypeOK'
      BY <1>23, <2>1 DEF PutClose, CloseHeld, Lock, Unlock, Shape, TypeOK, HandsDiscipline, Holding
    <2>3. LockDiscipline' /\ HandsDiscipline' /\ WaitDiscipline'
      BY <1>23, <2>1 DEF PutClose, CloseHeld, Lock, Unlock, Shape, TypeOK, LockDiscipline,
        HandsDiscipline, WaitDiscipline, Locked, Holding
    <2> QED BY <2>2, <2>3, <2>1 DEF Shape, WaitDiscipline
  <1>24. ASSUME ClosePool PROVE Shape'
    <2>1. /\ pc' \in [Threads -> Places]
          /\ waiting' = {u \in Threads : pc'[u] = "wait"}
          /\ \A u \in Threads : pc'[u] = pc[u] \/ (pc[u] = "wait" /\ pc'[u] = "woken")
      BY <1>24 DEF ClosePool, Shape, TypeOK, WaitDiscipline, Places
    <2>2. TypeOK'
      BY <1>24, <2>1 DEF ClosePool, Shape, TypeOK, IdleSet
    <2>3. LockDiscipline' /\ HandsDiscipline'
      BY <1>24, <2>1 DEF ClosePool, Shape, TypeOK, LockDiscipline, HandsDiscipline, Locked, Holding
    <2> QED BY <2>1, <2>2, <2>3 DEF Shape, WaitDiscipline
  <1>25. ASSUME CloseTaken PROVE Shape'
    BY <1>25 DEF CloseTaken, Shape, TypeOK, LockDiscipline, HandsDiscipline, WaitDiscipline
  <1>26. ASSUME UNCHANGED vars PROVE Shape'
    BY <1>26 DEF vars, Shape, TypeOK, LockDiscipline, HandsDiscipline, WaitDiscipline
  <1> QED
    BY <1>1, <1>2, <1>3, <1>4, <1>5, <1>6, <1>7, <1>8, <1>9, <1>10, <1>11, <1>12, <1>13, <1>14, <1>15, <1>16, <1>17, <1>18, <1>19, <1>20, <1>21, <1>22, <1>23, <1>24, <1>25, <1>26 DEF Next, Progress

-----------------------------------------------------------------------------
(* Counting: what p.active stands for *)

(* One goroutine moves: the number of those in A follows it. *)
LEMMA CountMove ==
  ASSUME NEW f \in [Threads -> Places], NEW g \in [Threads -> Places], NEW A,
         NEW t \in Threads, \A u \in Threads \ {t} : g[u] \in A <=> f[u] \in A
  PROVE  LET F == {u \in Threads : f[u] \in A}
             G == {u \in Threads : g[u] \in A}
         IN  /\ Cardinality(F) \in Nat /\ Cardinality(G) \in Nat
             /\ f[t] \in A <=> g[t] \in A => Cardinality(G) = Cardinality(F)
             /\ f[t] \in A /\ g[t] \notin A => Cardinality(G) = Cardinality(F) - 1
             /\ f[t] \notin A /\ g[t] \in A => Cardinality(G) = Cardinality(F) + 1
  <1> DEFINE F == {u \in Threads : f[u] \in A}
             G == {u \in Threads : g[u] \in A}
  <1>1. IsFiniteSet(F) /\ IsFiniteSet(G)
    BY ThreadsAssumption, FS_Subset
  <1>2. Cardinality(F) \in Nat /\ Cardinality(G) \in Nat
    BY <1>1, FS_CardinalityType
  <1>3. ASSUME f[t] \in A <=> g[t] \in A PROVE Cardinality(G) = Cardinality(F)
    <2>1. F = G
      BY <1>3
    <2> QED BY <2>1
  <1>4. ASSUME f[t] \in A, g[t] \notin A PROVE Cardinality(G) = Cardinality(F) - 1
    <2>1. G = F \ {t} /\ t \in F
      BY <1>4
    <2> QED BY <2>1, <1>1, FS_RemoveElement
  <1>5. ASSUME f[t] \notin A, g[t] \in A PROVE Cardinality(G) = Cardinality(F) + 1
    <2>1. G = F \cup {t} /\ t \notin F
      BY <1>5
    <2> QED BY <2>1, <1>1, FS_AddElement
  <1> QED BY <1>2, <1>3, <1>4, <1>5

InUse == Cardinality({t \in Threads : pc[t] \in Counted})

LEMMA InUseType == TypeOK => InUse \in Nat
  BY ThreadsAssumption, FS_Subset, FS_CardinalityType DEF InUse

(* A step of t leaves the others in place, but for a waiter it may wake. *)
OthersStay(t) ==
  /\ pc' \in [Threads -> Places]
  /\ \A u \in Threads \ {t} : pc'[u] = pc[u] \/ (pc[u] = "wait" /\ pc'[u] = "woken")

LEMMA InUseMove ==
  ASSUME TypeOK, NEW t \in Threads, OthersStay(t)
  PROVE  /\ pc[t] \in Counted <=> pc'[t] \in Counted => InUse' = InUse
         /\ pc[t] \in Counted /\ pc'[t] \notin Counted => InUse' = InUse - 1
         /\ pc[t] \notin Counted /\ pc'[t] \in Counted => InUse' = InUse + 1
  <1>1. \A u \in Threads \ {t} : pc'[u] \in Counted <=> pc[u] \in Counted
    BY DEF OthersStay, Counted
  <1>2. pc \in [Threads -> Places] /\ pc' \in [Threads -> Places]
    BY DEF OthersStay, TypeOK
  <1> QED BY <1>1, <1>2, CountMove DEF InUse

Accounting == ActiveIsExact /\ WithinLimits

LEMMA AccountingInit == Init => Accounting
  <1> SUFFICES ASSUME Init PROVE Accounting
    OBVIOUS
  <1>1. {t \in Threads : pc[t] \in Counted} = {}
    BY DEF Init, Counted
  <1>2. Cardinality({t \in Threads : pc[t] \in Counted}) = 0
    BY <1>1, FS_EmptySet
  <1>3. cfg.MaxActive \in Nat /\ cfg.MaxIdle \in Nat
    BY ConfigAssumption DEF Init
  <1> QED BY <1>2, <1>3 DEF Init, Accounting, ActiveIsExact, WithinLimits

LEMMA AccountingNext == Shape /\ Accounting /\ [Next]_vars => Accounting'
  <1> SUFFICES ASSUME Shape, Accounting, [Next]_vars PROVE Accounting'
    OBVIOUS
  <1>0. /\ cfg.MaxActive \in Nat /\ cfg.MaxIdle \in Nat
        /\ InUse \in Nat /\ Len(idle) \in Nat /\ active = Len(idle) + InUse
        /\ idle \in Seq(Conns)
    BY ConfigAssumption, InUseType DEF Shape, TypeOK, Accounting, ActiveIsExact, InUse
  <1> USE DEF Accounting, WithinLimits
  <1>1. ASSUME NEW t \in Threads, Get(t) PROVE Accounting'
    <2>1. OthersStay(t) /\ pc'[t] = "prune"
      BY <1>1, GotoShape DEF Get, OthersStay, Places, Counted, Discarding
    <2>2. InUse' = InUse
      BY <1>1, <2>1, InUseMove DEF Get, Shape, Counted
    <2> QED BY <1>0, <1>1, <2>2 DEF Get, UnderLimit, ActiveIsExact, InUse
  <1>2. ASSUME NEW t \in Threads, PruneStale(t) PROVE Accounting'
    <2>1. OthersStay(t) /\ pc'[t] = "pruneClose"
      BY <1>2, SignalShape DEF PruneStale, Release, OthersStay, Places, Counted, Discarding
    <2>2. InUse' = InUse
      BY <1>2, <2>1, InUseMove DEF PruneStale, Shape, Counted
    <2>4. Len(idle') = Len(idle) - 1 /\ active' = active - 1
      BY <1>0, <1>2, IdleEnds DEF PruneStale, Release, Oldest, ButOldest
    <2> QED BY <1>0, <1>2, <2>2, <2>4 DEF PruneStale, ActiveIsExact, InUse
  <1>3. ASSUME NEW t \in Threads, PruneClose(t) PROVE Accounting'
    <2>1. OthersStay(t) /\ pc'[t] = "relockPrune"
      BY <1>3, GotoShape DEF PruneClose, OthersStay, Places, Counted, Discarding
    <2>2. InUse' = InUse
      BY <1>3, <2>1, InUseMove DEF PruneClose, Shape, Counted
    <2> QED BY <1>0, <1>3, <2>2 DEF PruneClose, UnderLimit, ActiveIsExact, InUse
  <1>4. ASSUME NEW t \in Threads, RelockPrune(t) PROVE Accounting'
    <2>1. OthersStay(t) /\ pc'[t] = "prune"
      BY <1>4, GotoShape DEF RelockPrune, OthersStay, Places, Counted, Discarding
    <2>2. InUse' = InUse
      BY <1>4, <2>1, InUseMove DEF RelockPrune, Shape, Counted
    <2> QED BY <1>0, <1>4, <2>2 DEF RelockPrune, UnderLimit, ActiveIsExact, InUse
  <1>5. ASSUME NEW t \in Threads, PruneDone(t) PROVE Accounting'
    <2>1. OthersStay(t) /\ pc'[t] = "scan"
      BY <1>5, GotoShape DEF PruneDone, OthersStay, Places, Counted, Discarding
    <2>2. InUse' = InUse
      BY <1>5, <2>1, InUseMove DEF PruneDone, Shape, Counted
    <2> QED BY <1>0, <1>5, <2>2 DEF PruneDone, UnderLimit, ActiveIsExact, InUse
  <1>6. ASSUME NEW t \in Threads, TakeIdle(t) PROVE Accounting'
    <2>1. OthersStay(t) /\ pc'[t] = "test"
      BY <1>6, GotoShape DEF TakeIdle, OthersStay, Places, Counted, Discarding
    <2>2. InUse' = InUse + 1
      BY <1>6, <2>1, InUseMove DEF TakeIdle, Shape, Counted
    <2>4. Len(idle') = Len(idle) - 1 /\ active' = active
      BY <1>0, <1>6, IdleEnds DEF TakeIdle, Oldest, ButOldest
    <2> QED BY <1>0, <1>6, <2>2, <2>4 DEF TakeIdle, ActiveIsExact, InUse
  <1>7. ASSUME NEW t \in Threads, TestPasses(t) PROVE Accounting'
    <2>1. OthersStay(t) /\ pc'[t] = "held"
      BY <1>7, GotoShape DEF TestPasses, OthersStay, Places, Counted, Discarding
    <2>2. InUse' = InUse
      BY <1>7, <2>1, InUseMove DEF TestPasses, Shape, Counted
    <2> QED BY <1>0, <1>7, <2>2 DEF TestPasses, UnderLimit, ActiveIsExact, InUse
  <1>8. ASSUME NEW t \in Threads, TestFails(t) PROVE Accounting'
    <2>1. OthersStay(t) /\ pc'[t] = "testClose"
      BY <1>8, GotoShape DEF TestFails, OthersStay, Places, Counted, Discarding
    <2>2. InUse' = InUse
      BY <1>8, <2>1, InUseMove DEF TestFails, Shape, Counted
    <2> QED BY <1>0, <1>8, <2>2 DEF TestFails, UnderLimit, ActiveIsExact, InUse
  <1>9. ASSUME NEW t \in Threads, TestClose(t) PROVE Accounting'
    <2>1. OthersStay(t) /\ pc'[t] = "relockScan"
      BY <1>9, GotoShape DEF TestClose, OthersStay, Places, Counted, Discarding
    <2>2. InUse' = InUse
      BY <1>9, <2>1, InUseMove DEF TestClose, Shape, Counted
    <2> QED BY <1>0, <1>9, <2>2 DEF TestClose, UnderLimit, ActiveIsExact, InUse
  <1>10. ASSUME NEW t \in Threads, RelockScan(t) PROVE Accounting'
    <2>1. OthersStay(t) /\ pc'[t] = "scan"
      BY <1>10, SignalShape DEF RelockScan, Release, OthersStay, Places, Counted, Discarding
    <2>2. InUse' = InUse - 1
      BY <1>10, <2>1, InUseMove DEF RelockScan, Shape, Counted
    <2> QED BY <1>0, <1>10, <2>2 DEF RelockScan, Release, UnderLimit, ActiveIsExact, InUse
  <1>11. ASSUME NEW t \in Threads, GetOnClosedPool(t) PROVE Accounting'
    <2>1. OthersStay(t) /\ pc'[t] = "out"
      BY <1>11, GotoShape DEF GetOnClosedPool, ScanDone, OthersStay, Places, Counted, Discarding
    <2>2. InUse' = InUse
      BY <1>11, <2>1, InUseMove DEF GetOnClosedPool, ScanDone, Shape, Counted
    <2> QED BY <1>0, <1>11, <2>2 DEF GetOnClosedPool, ScanDone, UnderLimit, ActiveIsExact, InUse
  <1>12. ASSUME NEW t \in Threads, StartDial(t) PROVE Accounting'
    <2>1. OthersStay(t) /\ pc'[t] = "dial"
      BY <1>12, GotoShape DEF StartDial, ScanDone, OthersStay, Places, Counted, Discarding
    <2>2. InUse' = InUse + 1
      BY <1>12, <2>1, InUseMove DEF StartDial, ScanDone, Shape, Counted
    <2> QED BY <1>0, <1>12, <2>2 DEF StartDial, ScanDone, UnderLimit, ActiveIsExact, InUse
  <1>13. ASSUME NEW t \in Threads, DialSucceeds(t) PROVE Accounting'
    <2>1. OthersStay(t) /\ pc'[t] = "held"
      BY <1>13, GotoShape DEF DialSucceeds, OthersStay, Places, Counted, Discarding
    <2>2. InUse' = InUse
      BY <1>13, <2>1, InUseMove DEF DialSucceeds, Shape, Counted
    <2> QED BY <1>0, <1>13, <2>2 DEF DialSucceeds, UnderLimit, ActiveIsExact, InUse
  <1>14. ASSUME NEW t \in Threads, DialFails(t) PROVE Accounting'
    <2>1. OthersStay(t) /\ pc'[t] = "dialFail"
      BY <1>14, GotoShape DEF DialFails, OthersStay, Places, Counted, Discarding
    <2>2. InUse' = InUse
      BY <1>14, <2>1, InUseMove DEF DialFails, Shape, Counted
    <2> QED BY <1>0, <1>14, <2>2 DEF DialFails, UnderLimit, ActiveIsExact, InUse
  <1>15. ASSUME NEW t \in Threads, DialRelease(t) PROVE Accounting'
    <2>1. OthersStay(t) /\ pc'[t] = "out"
      BY <1>15, SignalShape DEF DialRelease, Release, OthersStay, Places, Counted, Discarding
    <2>2. InUse' = InUse - 1
      BY <1>15, <2>1, InUseMove DEF DialRelease, Shape, Counted
    <2> QED BY <1>0, <1>15, <2>2 DEF DialRelease, Release, UnderLimit, ActiveIsExact, InUse
  <1>16. ASSUME NEW t \in Threads, Exhausted(t) PROVE Accounting'
    <2>1. OthersStay(t) /\ pc'[t] = "out"
      BY <1>16, GotoShape DEF Exhausted, ScanDone, OthersStay, Places, Counted, Discarding
    <2>2. InUse' = InUse
      BY <1>16, <2>1, InUseMove DEF Exhausted, ScanDone, Shape, Counted
    <2> QED BY <1>0, <1>16, <2>2 DEF Exhausted, ScanDone, UnderLimit, ActiveIsExact, InUse
  <1>17. ASSUME NEW t \in Threads, CondWait(t) PROVE Accounting'
    <2>1. OthersStay(t) /\ pc'[t] = "wait"
      BY <1>17 DEF CondWait, ScanDone, Shape, TypeOK, OthersStay, Places
    <2>2. InUse' = InUse
      BY <1>17, <2>1, InUseMove DEF CondWait, ScanDone, Shape, Counted
    <2> QED BY <1>0, <1>17, <2>2 DEF CondWait, ScanDone, UnderLimit, ActiveIsExact, InUse
  <1>18. ASSUME NEW t \in Threads, RelockWoken(t) PROVE Accounting'
    <2>1. OthersStay(t) /\ pc'[t] = "scan"
      BY <1>18, GotoShape DEF RelockWoken, OthersStay, Places, Counted, Discarding
    <2>2. InUse' = InUse
      BY <1>18, <2>1, InUseMove DEF RelockWoken, Shape, Counted
    <2> QED BY <1>0, <1>18, <2>2 DEF RelockWoken, UnderLimit, ActiveIsExact, InUse
  <1>19. ASSUME NEW t \in Threads, ReturnConn(t) PROVE Accounting'
    <2>1. OthersStay(t) /\ pc'[t] = "put"
      BY <1>19, GotoShape DEF ReturnConn, OthersStay, Places, Counted, Discarding
    <2>2. InUse' = InUse
      BY <1>19, <2>1, InUseMove DEF ReturnConn, Shape, Counted
    <2> QED BY <1>0, <1>19, <2>2 DEF ReturnConn, UnderLimit, ActiveIsExact, InUse
  <1>20. ASSUME NEW t \in Threads, PutIdle(t) PROVE Accounting'
    <2>1. OthersStay(t) /\ pc'[t] = "out"
      BY <1>20, SignalShape DEF PutIdle, OthersStay, Places, Counted, Discarding
    <2>2. InUse' = InUse - 1
      BY <1>20, <2>1, InUseMove DEF PutIdle, Shape, Counted
    <2>3. have[t] \in Conns
      BY <1>20 DEF PutIdle, Shape, TypeOK, HandsDiscipline, Holding
    <2>4. Len(idle') = Len(idle) + 1 /\ active' = active
      BY <1>0, <1>20, <2>3, IdlePush DEF PutIdle
    <2> QED BY <1>0, <1>20, <2>2, <2>4 DEF PutIdle, ActiveIsExact, InUse
  <1>21. ASSUME NEW t \in Threads, PutEvict(t) PROVE Accounting'
    <2>1. OthersStay(t) /\ pc'[t] = "putClose"
      BY <1>21, SignalShape DEF PutEvict, Release, OthersStay, Places, Counted, Discarding
    <2>2. InUse' = InUse - 1
      BY <1>21, <2>1, InUseMove DEF PutEvict, Shape, Counted
    <2>3. have[t] \in Conns
      BY <1>21 DEF PutEvict, Shape, TypeOK, HandsDiscipline, Holding
    <2>4. Len(idle') = Len(idle) /\ active' = active - 1
      BY <1>0, <1>21, <2>3, IdlePush DEF PutEvict, Release
    <2>5. cfg' = cfg
      BY <1>21 DEF PutEvict
    <2> QED BY <1>0, <2>2, <2>4, <2>5 DEF ActiveIsExact, InUse
  <1>22. ASSUME NEW t \in Threads, PutDrop(t) PROVE Accounting'
    <2>1. OthersStay(t) /\ pc'[t] = "putClose"
      BY <1>22, SignalShape DEF PutDrop, Release, OthersStay, Places, Counted, Discarding
    <2>2. InUse' = InUse - 1
      BY <1>22, <2>1, InUseMove DEF PutDrop, Shape, Counted
    <2> QED BY <1>0, <1>22, <2>2 DEF PutDrop, Release, UnderLimit, ActiveIsExact, InUse
  <1>23. ASSUME NEW t \in Threads, PutClose(t) PROVE Accounting'
    <2>1. OthersStay(t) /\ pc'[t] = "out"
      BY <1>23, GotoShape DEF PutClose, OthersStay, Places, Counted, Discarding
    <2>2. InUse' = InUse
      BY <1>23, <2>1, InUseMove DEF PutClose, Shape, Counted
    <2> QED BY <1>0, <1>23, <2>2 DEF PutClose, UnderLimit, ActiveIsExact, InUse
  <1>24. ASSUME ClosePool PROVE Accounting'
    <2>1. pc' \in [Threads -> Places] /\ \A u \in Threads : pc'[u] \in Counted <=> pc[u] \in Counted
      BY <1>24 DEF ClosePool, Shape, TypeOK, WaitDiscipline, Places, Counted
    <2>2. InUse' = InUse
      <3>1. {u \in Threads : pc'[u] \in Counted} = {u \in Threads : pc[u] \in Counted}
        BY <2>1
      <3> QED BY <3>1 DEF InUse
    <2>3. Len(idle') = 0 /\ active' = active - Len(idle)
      BY <1>24 DEF ClosePool
    <2> QED BY <1>0, <1>24, <2>2, <2>3 DEF ClosePool, ActiveIsExact, InUse
  <1>25. ASSUME CloseTaken PROVE Accounting'
    BY <1>25 DEF CloseTaken, ActiveIsExact
  <1>26. ASSUME UNCHANGED vars PROVE Accounting'
    BY <1>26 DEF vars, ActiveIsExact
  <1> QED
    BY <1>1, <1>2, <1>3, <1>4, <1>5, <1>6, <1>7, <1>8, <1>9, <1>10, <1>11, <1>12, <1>13, <1>14, <1>15, <1>16, <1>17, <1>18, <1>19, <1>20, <1>21, <1>22, <1>23, <1>24, <1>25, <1>26 DEF Next, Progress

-----------------------------------------------------------------------------
(* Ownership: every open connection is in one place *)

Listed(q) == {q[i] : i \in 1..Len(q)}
Distinct(q) == \A i, j \in 1..Len(q) : q[i] = q[j] => i = j

(* Taking one end off a list without repetitions removes that element. *)
LEMMA ListedEnds ==
  ASSUME NEW q \in Seq(Conns), q # <<>>, Distinct(q)
  PROVE  /\ Distinct(Tail(q)) /\ Listed(Tail(q)) = Listed(q) \ {Head(q)}
         /\ Head(q) \in Listed(q)
         /\ Distinct(SubSeq(q, 1, Len(q) - 1))
         /\ Listed(SubSeq(q, 1, Len(q) - 1)) = Listed(q) \ {q[Len(q)]}
         /\ q[Len(q)] \in Listed(q)
  <1> DEFINE r == SubSeq(q, 1, Len(q) - 1)
             l == Tail(q)
  <1>1. /\ Len(q) \in Nat \ {0} /\ Len(l) = Len(q) - 1 /\ Len(r) = Len(q) - 1
        /\ \A i \in 1..Len(q) - 1 : l[i] = q[i + 1] /\ r[i] = q[i]
        /\ Head(q) = q[1]
    BY IdleEnds
  <1> HIDE DEF r, l
  <1>2. Distinct(l) /\ Distinct(r)
    BY <1>1 DEF Distinct
  <1>3. Listed(r) = Listed(q) \ {q[Len(q)]} /\ q[Len(q)] \in Listed(q)
    BY <1>1 DEF Distinct, Listed
  <1>4. q[1] \in Listed(q) /\ \A x \in Listed(l) : x \in Listed(q) /\ x # q[1]
    BY <1>1 DEF Distinct, Listed
  <1>5. ASSUME NEW i \in 1..Len(q), q[i] # q[1] PROVE q[i] \in Listed(l)
    <2>1. i - 1 \in 1..Len(l) /\ l[i - 1] = q[i]
      BY <1>1, <1>5
    <2> QED BY <2>1 DEF Listed
  <1>6. Listed(l) = Listed(q) \ {q[1]}
    BY <1>4, <1>5 DEF Listed
  <1> QED BY <1>1, <1>2, <1>3, <1>4, <1>6 DEF r, l

(* Pushing a connection that is not in the list adds it. *)
LEMMA ListedPush ==
  ASSUME NEW q \in Seq(Conns), NEW c \in Conns, Distinct(q), c \notin Listed(q)
  PROVE  Distinct(<<c>> \o q) /\ Listed(<<c>> \o q) = Listed(q) \cup {c}
  <1> DEFINE r == <<c>> \o q
  <1>1. /\ Len(q) \in Nat /\ Len(r) = Len(q) + 1 /\ r[1] = c
        /\ \A i \in 1..Len(q) : r[i + 1] = q[i]
    BY IdlePush
  <1> HIDE DEF r
  <1>2. \A j \in 1..Len(r) : j = 1 \/ (j - 1 \in 1..Len(q) /\ r[j] = q[j - 1])
    <2> TAKE j \in 1..Len(r)
    <2>1. CASE j = 1
      BY <2>1
    <2>2. CASE j # 1
      <3>1. j - 1 \in 1..Len(q) /\ (j - 1) + 1 = j
        BY <1>1, <2>2
      <3> QED BY <3>1, <1>1
    <2> QED BY <2>1, <2>2
  <1>3. Distinct(r)
    <2> SUFFICES ASSUME NEW i \in 1..Len(r), NEW j \in 1..Len(r), r[i] = r[j] PROVE i = j
      BY DEF Distinct
    <2>1. \A k \in 1..Len(q) : q[k] # c
      BY DEF Listed
    <2>2. CASE i = 1 \/ j = 1
      BY <1>1, <1>2, <2>1, <2>2
    <2>3. CASE i # 1 /\ j # 1
      <3>1. i - 1 \in 1..Len(q) /\ j - 1 \in 1..Len(q) /\ q[i - 1] = q[j - 1]
        BY <1>2, <2>3
      <3>2. i - 1 = j - 1
        BY <3>1 DEF Distinct
      <3> QED BY <1>1, <3>2
    <2> QED BY <2>2, <2>3
  <1>4. \A x \in Listed(r) : x = c \/ x \in Listed(q)
    BY <1>1, <1>2 DEF Listed
  <1>5. c \in Listed(r)
    BY <1>1 DEF Listed
  <1>6. ASSUME NEW i \in 1..Len(q) PROVE q[i] \in Listed(r)
    <2>1. i + 1 \in 1..Len(r) /\ r[i + 1] = q[i]
      BY <1>1
    <2> QED BY <2>1 DEF Listed
  <1>7. Listed(r) = Listed(q) \cup {c}
    BY <1>4, <1>5, <1>6 DEF Listed
  <1> QED BY <1>3, <1>7 DEF r

(* OneOwner and NoneLost, connection by connection. *)
Owned ==
  /\ Distinct(idle)
  /\ Listed(idle) \cap closing = {}
  /\ \A t \in Threads : have[t] \notin Listed(idle) /\ have[t] \notin closing
  /\ \A t, u \in Threads : have[t] = have[u] /\ have[t] # Nobody => t = u
  /\ \A c \in Conns :
        c \in open <=> c \in Listed(idle) \/ c \in closing \/ \E t \in Threads : have[t] = c

LEMMA OwnedGives == TypeOK /\ Owned => OneOwner /\ NoneLost
  <1> SUFFICES ASSUME TypeOK, Owned PROVE OneOwner /\ NoneLost
    OBVIOUS
  <1>1. OneOwner
    BY DEF TypeOK, Owned, OneOwner, Hands, IdleSet, Listed, Distinct
  <1>2. \A c \in Conns : c \in UNION {Hands(t) : t \in Threads} <=> \E t \in Threads : have[t] = c
    BY NobodyAssumption DEF Hands
  <1>3. IdleSet = Listed(idle)
    BY DEF IdleSet, Listed
  <1>4. NoneLost
    BY <1>2, <1>3 DEF Owned, NoneLost
  <1> QED BY <1>1, <1>4

Ownership == Owned /\ ClosedPoolIsEmpty

LEMMA OwnershipInit == Init => Ownership
  <1> SUFFICES ASSUME Init PROVE Ownership
    OBVIOUS
  <1>1. Listed(idle) = {} /\ Distinct(idle)
    BY DEF Init, Listed, Distinct
  <1> QED BY <1>1, NobodyAssumption DEF Init, Ownership, Owned, ClosedPoolIsEmpty

(* Steps that move no connection. *)
LEMMA OwnershipKept ==
  ASSUME Ownership, UNCHANGED <<closed, idle, closing, open, have>>
  PROVE  Ownership'
  BY DEF Ownership, Owned, ClosedPoolIsEmpty

LEMMA OwnershipNext == Shape /\ Ownership /\ [Next]_vars => Ownership'
  <1> SUFFICES ASSUME Shape, Ownership, [Next]_vars PROVE Ownership'
    OBVIOUS
  <1>0. /\ idle \in Seq(Conns) /\ Listed(idle) \subseteq Conns /\ Nobody \notin Listed(idle)
        /\ have \in [Threads -> Conns \cup {Nobody}] /\ Nobody \notin Conns
        /\ open \subseteq Conns /\ closing \subseteq Conns
    BY NobodyAssumption DEF Shape, TypeOK, Listed
  <1>1. ASSUME NEW t \in Threads, Get(t) PROVE Ownership'
    BY <1>1, OwnershipKept DEF Get
  <1>2. ASSUME NEW t \in Threads, PruneStale(t) PROVE Ownership'
    <2>1. /\ Distinct(idle') /\ Listed(idle') = Listed(idle) \ {Oldest} /\ Oldest \in Listed(idle)
          /\ have' = [have EXCEPT ![t] = Oldest] /\ have[t] = Nobody
      BY <1>0, <1>2, ListedEnds DEF PruneStale, Oldest, ButOldest, Ownership, Owned,
        Shape, HandsDiscipline, Holding
    <2>2. UNCHANGED <<closed, closing, open>> /\ idle # <<>>
      BY <1>2 DEF PruneStale
    <2> HIDE DEF Oldest
    <2> QED BY <1>0, <2>1, <2>2 DEF Ownership, Owned, ClosedPoolIsEmpty
  <1>3. ASSUME NEW t \in Threads, PruneClose(t) PROVE Ownership'
    <2>1. /\ have[t] \in Conns /\ UNCHANGED <<closed, idle, closing>>
          /\ open' = open \ {have[t]} /\ have' = [have EXCEPT ![t] = Nobody]
      BY <1>0, <1>3 DEF PruneClose, CloseHeld, Shape, HandsDiscipline, Holding
    <2> QED BY <1>0, <2>1 DEF Ownership, Owned, ClosedPoolIsEmpty
  <1>4. ASSUME NEW t \in Threads, RelockPrune(t) PROVE Ownership'
    BY <1>4, OwnershipKept DEF RelockPrune
  <1>5. ASSUME NEW t \in Threads, PruneDone(t) PROVE Ownership'
    BY <1>5, OwnershipKept DEF PruneDone
  <1>6. ASSUME NEW t \in Threads, TakeIdle(t) PROVE Ownership'
    <2>1. /\ Distinct(idle') /\ Listed(idle') = Listed(idle) \ {Head(idle)}
          /\ Head(idle) \in Listed(idle)
          /\ have' = [have EXCEPT ![t] = Head(idle)] /\ have[t] = Nobody
      BY <1>0, <1>6, ListedEnds DEF TakeIdle, Ownership, Owned, Shape, HandsDiscipline, Holding
    <2>2. UNCHANGED <<closed, closing, open>> /\ idle # <<>>
      BY <1>6 DEF TakeIdle
    <2> QED BY <1>0, <2>1, <2>2 DEF Ownership, Owned, ClosedPoolIsEmpty
  <1>7. ASSUME NEW t \in Threads, TestPasses(t) PROVE Ownership'
    BY <1>7, OwnershipKept DEF TestPasses
  <1>8. ASSUME NEW t \in Threads, TestFails(t) PROVE Ownership'
    BY <1>8, OwnershipKept DEF TestFails
  <1>9. ASSUME NEW t \in Threads, TestClose(t) PROVE Ownership'
    <2>1. /\ have[t] \in Conns /\ UNCHANGED <<closed, idle, closing>>
          /\ open' = open \ {have[t]} /\ have' = [have EXCEPT ![t] = Nobody]
      BY <1>0, <1>9 DEF TestClose, CloseHeld, Shape, HandsDiscipline, Holding
    <2> QED BY <1>0, <2>1 DEF Ownership, Owned, ClosedPoolIsEmpty
  <1>10. ASSUME NEW t \in Threads, RelockScan(t) PROVE Ownership'
    BY <1>10, OwnershipKept DEF RelockScan
  <1>11. ASSUME NEW t \in Threads, GetOnClosedPool(t) PROVE Ownership'
    BY <1>11, OwnershipKept DEF GetOnClosedPool
  <1>12. ASSUME NEW t \in Threads, StartDial(t) PROVE Ownership'
    BY <1>12, OwnershipKept DEF StartDial
  <1>13. ASSUME NEW t \in Threads, DialSucceeds(t) PROVE Ownership'
    <2>1. /\ have[t] = Nobody /\ UNCHANGED <<closed, idle, closing>>
          /\ \E c \in Conns \ open : open' = open \cup {c} /\ have' = [have EXCEPT ![t] = c]
      BY <1>13 DEF DialSucceeds, Shape, HandsDiscipline, Holding
    <2> QED BY <1>0, <2>1 DEF Ownership, Owned, ClosedPoolIsEmpty
  <1>14. ASSUME NEW t \in Threads, DialFails(t) PROVE Ownership'
    BY <1>14, OwnershipKept DEF DialFails
  <1>15. ASSUME NEW t \in Threads, DialRelease(t) PROVE Ownership'
    BY <1>15, OwnershipKept DEF DialRelease
  <1>16. ASSUME NEW t \in Threads, Exhausted(t) PROVE Ownership'
    BY <1>16, OwnershipKept DEF Exhausted
  <1>17. ASSUME NEW t \in Threads, CondWait(t) PROVE Ownership'
    BY <1>17, OwnershipKept DEF CondWait
  <1>18. ASSUME NEW t \in Threads, RelockWoken(t) PROVE Ownership'
    BY <1>18, OwnershipKept DEF RelockWoken
  <1>19. ASSUME NEW t \in Threads, ReturnConn(t) PROVE Ownership'
    BY <1>19, OwnershipKept DEF ReturnConn
  <1>20. ASSUME NEW t \in Threads, PutIdle(t) PROVE Ownership'
    <2>1. have[t] \in Conns /\ have[t] \notin Listed(idle)
      BY <1>0, <1>20 DEF PutIdle, Shape, HandsDiscipline, Holding, Ownership, Owned
    <2>2. Distinct(idle') /\ Listed(idle') = Listed(idle) \cup {have[t]}
      BY <1>0, <1>20, <2>1, ListedPush DEF PutIdle, Ownership, Owned
    <2>3. /\ ~closed /\ UNCHANGED <<closed, closing, open>>
          /\ have' = [have EXCEPT ![t] = Nobody]
      BY <1>20 DEF PutIdle
    <2> QED BY <1>0, <2>1, <2>2, <2>3 DEF Ownership, Owned, ClosedPoolIsEmpty
  <1>21. ASSUME NEW t \in Threads, PutEvict(t) PROVE Ownership'
    <2> DEFINE r == <<have[t]>> \o idle
               e == r[Len(r)]
    <2>1. have[t] \in Conns /\ have[t] \notin Listed(idle)
      BY <1>0, <1>21 DEF PutEvict, Shape, HandsDiscipline, Holding, Ownership, Owned
    <2>2. Distinct(r) /\ Listed(r) = Listed(idle) \cup {have[t]}
      BY <1>0, <2>1, ListedPush DEF Ownership, Owned
    <2>3. r \in Seq(Conns) /\ Len(r) - 1 = Len(idle) /\ r # <<>>
      BY <1>0, <2>1, IdlePush
    <2>4. idle' = SubSeq(r, 1, Len(r) - 1) /\ have' = [have EXCEPT ![t] = e]
      BY <1>21, <2>3 DEF PutEvict
    <2>5. ~closed /\ UNCHANGED <<closed, closing, open>>
      BY <1>21 DEF PutEvict
    <2> HIDE DEF r
    <2>6. Distinct(idle') /\ Listed(idle') = Listed(r) \ {e} /\ e \in Listed(r)
      BY <2>2, <2>3, <2>4, ListedEnds
    <2> HIDE DEF e
    <2> QED BY <1>0, <2>1, <2>2, <2>4, <2>5, <2>6 DEF Ownership, Owned, ClosedPoolIsEmpty
  <1>22. ASSUME NEW t \in Threads, PutDrop(t) PROVE Ownership'
    BY <1>22, OwnershipKept DEF PutDrop
  <1>23. ASSUME NEW t \in Threads, PutClose(t) PROVE Ownership'
    <2>1. /\ have[t] \in Conns /\ UNCHANGED <<closed, idle, closing>>
          /\ open' = open \ {have[t]} /\ have' = [have EXCEPT ![t] = Nobody]
      BY <1>0, <1>23 DEF PutClose, CloseHeld, Shape, HandsDiscipline, Holding
    <2> QED BY <1>0, <2>1 DEF Ownership, Owned, ClosedPoolIsEmpty
  <1>24. ASSUME ClosePool PROVE Ownership'
    <2>1. /\ idle' = <<>> /\ closing' = closing \cup Listed(idle)
          /\ UNCHANGED <<open, have>>
      BY <1>24 DEF ClosePool, IdleSet, Listed
    <2>2. Listed(idle') = {} /\ Distinct(idle')
      BY <2>1 DEF Listed, Distinct
    <2> QED BY <1>0, <2>1, <2>2 DEF Ownership, Owned, ClosedPoolIsEmpty
  <1>25. ASSUME CloseTaken PROVE Ownership'
    <2>1. PICK c \in closing : closing' = closing \ {c} /\ open' = open \ {c}
      BY <1>25 DEF CloseTaken
    <2>2. UNCHANGED <<closed, idle, have>>
      BY <1>25 DEF CloseTaken
    <2> QED BY <1>0, <2>1, <2>2 DEF Ownership, Owned, ClosedPoolIsEmpty
  <1>26. ASSUME UNCHANGED vars PROVE Ownership'
    BY <1>26, OwnershipKept DEF vars
  <1> QED
    BY <1>1, <1>2, <1>3, <1>4, <1>5, <1>6, <1>7, <1>8, <1>9, <1>10, <1>11, <1>12, <1>13, <1>14, <1>15, <1>16, <1>17, <1>18, <1>19, <1>20, <1>21, <1>22, <1>23, <1>24, <1>25, <1>26 DEF Next, Progress

-----------------------------------------------------------------------------
(* No lost wakeups *)

Looking == {"woken", "scan"}
Lookers == Cardinality({t \in Threads : pc[t] \in Looking})

LEMMA LookersMove ==
  ASSUME TypeOK, NEW t \in Threads, pc' \in [Threads -> Places],
         \A u \in Threads \ {t} : pc'[u] = pc[u]
  PROVE  /\ Lookers \in Nat
         /\ pc[t] \in Looking <=> pc'[t] \in Looking => Lookers' = Lookers
         /\ pc[t] \in Looking /\ pc'[t] \notin Looking => Lookers' = Lookers - 1
         /\ pc[t] \notin Looking /\ pc'[t] \in Looking => Lookers' = Lookers + 1
  <1>1. \A u \in Threads \ {t} : pc'[u] \in Looking <=> pc[u] \in Looking
    OBVIOUS
  <1>2. pc \in [Threads -> Places]
    BY DEF TypeOK
  <1> QED BY <1>1, <1>2, CountMove DEF Lookers

(* A signal that finds a waiter adds one to those who look. *)
LEMMA LookersSignal ==
  ASSUME Shape, NEW t \in Threads, NEW p \in Places \ {"wait"}, pc[t] # "wait",
         Signal(t, p), waiting # {}
  PROVE  /\ Lookers \in Nat
         /\ pc[t] \in Looking <=> p \in Looking => Lookers' = Lookers + 1
         /\ pc[t] \in Looking /\ p \notin Looking => Lookers' = Lookers
         /\ pc[t] \notin Looking /\ p \in Looking => Lookers' = Lookers + 2
  <1>1. PICK w \in waiting : pc' = [pc EXCEPT ![t] = p, ![w] = "woken"]
    BY DEF Signal
  <1>2. /\ w \in Threads /\ pc[w] = "wait" /\ w # t
        /\ pc \in [Threads -> Places] /\ "woken" \in Places
    BY <1>1 DEF Shape, TypeOK, WaitDiscipline, Places
  <1> DEFINE mid == [pc EXCEPT ![t] = p]
             M == {u \in Threads : mid[u] \in Looking}
  <1>3. /\ mid \in [Threads -> Places] /\ pc' \in [Threads -> Places]
        /\ mid[t] = p /\ mid[w] = "wait" /\ pc'[w] = "woken"
        /\ \A u \in Threads \ {t} : mid[u] = pc[u]
        /\ \A u \in Threads \ {w} : pc'[u] = mid[u]
    BY <1>1, <1>2
  <1> HIDE DEF mid
  <1>4. /\ Lookers \in Nat /\ Cardinality(M) \in Nat
        /\ pc[t] \in Looking <=> p \in Looking => Cardinality(M) = Lookers
        /\ pc[t] \in Looking /\ p \notin Looking => Cardinality(M) = Lookers - 1
        /\ pc[t] \notin Looking /\ p \in Looking => Cardinality(M) = Lookers + 1
    BY <1>2, <1>3, CountMove DEF Lookers
  <1>5. "wait" \notin Looking /\ "woken" \in Looking
    BY DEF Looking
  <1>6. Lookers' = Cardinality(M) + 1
    BY <1>2, <1>3, <1>5, CountMove DEF Lookers
  <1> QED BY <1>4, <1>6

(* Only pools with a limit and with Wait have waiters, only open ones, and no  *)
(* more can be had than there are goroutines on their way to have it.          *)
WaitersCovered ==
  waiting # {} => /\ cfg.Wait /\ cfg.MaxActive > 0
                  /\ ~closed
                  /\ Available <= Lookers

(* In the loop of get under p.mu: either n still is the length of the list or  *)
(* a slot is free (it was released in the same critical section).              *)
ScanFresh == \A t \in Threads : pc[t] = "scan" => left[t] = Len(idle) \/ UnderLimit

Wakeups == WaitersCovered /\ ScanFresh

LEMMA WakeupsGive == Wakeups => NoLostWakeup
  BY DEF Wakeups, WaitersCovered, NoLostWakeup, Lookers, Looking

LEMMA WakeupsInit == Init => Wakeups
  BY DEF Init, Wakeups, WaitersCovered, ScanFresh

LEMMA WakeupsNext == Shape /\ Accounting /\ Wakeups /\ [Next]_vars => Wakeups'
  <1> SUFFICES ASSUME Shape, Accounting, Wakeups, [Next]_vars PROVE Wakeups'
    OBVIOUS
  <1>0. /\ cfg.MaxActive \in Nat /\ idle \in Seq(Conns) /\ Len(idle) \in Nat /\ active \in Int
        /\ cfg.MaxActive > 0 => active <= cfg.MaxActive
        /\ \A t \in Threads : pc[t] = "scan" <=> mu = t /\ pc[t] # "prune"
        /\ Nobody \notin Threads
        /\ left \in [Threads -> Nat]
        /\ pc \in [Threads -> Places]
    BY ConfigAssumption, NobodyAssumption
    DEF Shape, TypeOK, Accounting, WithinLimits, LockDiscipline, Locked
  <1>1. ASSUME NEW t \in Threads, Get(t) PROVE Wakeups'
    <2>1. idle' = idle /\ active' = active /\ UNCHANGED <<cfg, closed>>
      BY <1>1 DEF Get
    <2>2. Goto(t, "prune") /\ pc[t] = "out" /\ "prune" \in Places \ {"wait"}
      BY <1>1 DEF Get, Places, Counted, Discarding
    <2>3. /\ pc' \in [Threads -> Places] /\ pc'[t] = "prune"
          /\ \A u \in Threads \ {t} : pc'[u] = pc[u]
          /\ waiting' = waiting
      BY <2>2, GotoShape DEF Goto
    <2>4. Lookers' = Lookers /\ Lookers \in Nat
      BY <2>2, <2>3, LookersMove DEF Shape, Looking
    <2>5. WaitersCovered'
      BY <1>0, <2>1, <2>3, <2>4 DEF Wakeups, WaitersCovered, Available
    <2>6. ScanFresh'
      BY <1>0, <1>1, <2>1, <2>2, <2>3 DEF Get, Lock, Unlock, Wakeups, ScanFresh, UnderLimit
    <2> QED BY <2>5, <2>6 DEF Wakeups
  <1>2. ASSUME NEW t \in Threads, PruneStale(t) PROVE Wakeups'
    <2>1. Len(idle') = Len(idle) - 1 /\ active' = active - 1 /\ UNCHANGED <<cfg, closed>>
      BY <1>0, <1>2, IdleEnds DEF PruneStale, Release, Oldest, ButOldest
    <2>2. Signal(t, "pruneClose") /\ pc[t] = "prune" /\ "pruneClose" \in Places \ {"wait"}
      BY <1>2 DEF PruneStale, Release, Places, Counted, Discarding
    <2>3. /\ OthersStay(t) /\ pc'[t] = "pruneClose"
          /\ waiting # {} \/ waiting' = {}
      BY <2>2, SignalShape DEF OthersStay, Signal
    <2>4. waiting # {} => Lookers' = Lookers + 1 /\ Lookers \in Nat
      BY <2>2, LookersSignal DEF Looking
    <2>5. WaitersCovered'
      BY <1>0, <2>1, <2>3, <2>4 DEF Wakeups, WaitersCovered, Available
    <2>6. ScanFresh'
      BY <1>0, <1>2, <2>1, <2>2, <2>3 DEF PruneStale, Lock, Unlock, Wakeups, ScanFresh, UnderLimit, OthersStay
    <2> QED BY <2>5, <2>6 DEF Wakeups
  <1>3. ASSUME NEW t \in Threads, PruneClose(t) PROVE Wakeups'
    <2>1. idle' = idle /\ active' = active /\ UNCHANGED <<cfg, closed>>
      BY <1>3 DEF PruneClose
    <2>2. Goto(t, "relockPrune") /\ pc[t] = "pruneClose" /\ "relockPrune" \in Places \ {"wait"}
      BY <1>3 DEF PruneClose, Places, Counted, Discarding
    <2>3. /\ pc' \in [Threads -> Places] /\ pc'[t] = "relockPrune"
          /\ \A u \in Threads \ {t} : pc'[u] = pc[u]
          /\ waiting' = waiting
      BY <2>2, GotoShape DEF Goto
    <2>4. Lookers' = Lookers /\ Lookers \in Nat
      BY <2>2, <2>3, LookersMove DEF Shape, Looking
    <2>5. WaitersCovered'
      BY <1>0, <2>1, <2>3, <2>4 DEF Wakeups, WaitersCovered, Available
    <2>6. ScanFresh'
      BY <1>0, <1>3, <2>1, <2>2, <2>3 DEF PruneClose, Lock, Unlock, Wakeups, ScanFresh, UnderLimit
    <2> QED BY <2>5, <2>6 DEF Wakeups
  <1>4. ASSUME NEW t \in Threads, RelockPrune(t) PROVE Wakeups'
    <2>1. idle' = idle /\ active' = active /\ UNCHANGED <<cfg, closed>>
      BY <1>4 DEF RelockPrune
    <2>2. Goto(t, "prune") /\ pc[t] = "relockPrune" /\ "prune" \in Places \ {"wait"}
      BY <1>4 DEF RelockPrune, Places, Counted, Discarding
    <2>3. /\ pc' \in [Threads -> Places] /\ pc'[t] = "prune"
          /\ \A u \in Threads \ {t} : pc'[u] = pc[u]
          /\ waiting' = waiting
      BY <2>2, GotoShape DEF Goto
    <2>4. Lookers' = Lookers /\ Lookers \in Nat
      BY <2>2, <2>3, LookersMove DEF Shape, Looking
    <2>5. WaitersCovered'
      BY <1>0, <2>1, <2>3, <2>4 DEF Wakeups, WaitersCovered, Available
    <2>6. ScanFresh'
      BY <1>0, <1>4, <2>1, <2>2, <2>3 DEF RelockPrune, Lock, Unlock, Wakeups, ScanFresh, UnderLimit
    <2> QED BY <2>5, <2>6 DEF Wakeups
  <1>5. ASSUME NEW t \in Threads, PruneDone(t) PROVE Wakeups'
    <2>1. idle' = idle /\ active' = active /\ UNCHANGED <<cfg, closed>>
      BY <1>5 DEF PruneDone
    <2>2. Goto(t, "scan") /\ pc[t] = "prune" /\ "scan" \in Places \ {"wait"}
      BY <1>5 DEF PruneDone, Places, Counted, Discarding
    <2>3. /\ pc' \in [Threads -> Places] /\ pc'[t] = "scan"
          /\ \A u \in Threads \ {t} : pc'[u] = pc[u]
          /\ waiting' = waiting
      BY <2>2, GotoShape DEF Goto
    <2>4. Lookers' = Lookers + 1 /\ Lookers \in Nat
      BY <2>2, <2>3, LookersMove DEF Shape, Looking
    <2>5. WaitersCovered'
      BY <1>0, <2>1, <2>3, <2>4 DEF Wakeups, WaitersCovered, Available
    <2>6. ScanFresh'
      BY <1>0, <1>5, <2>1, <2>2, <2>3 DEF PruneDone, Lock, Unlock, Wakeups, ScanFresh, UnderLimit
    <2> QED BY <2>5, <2>6 DEF Wakeups
  <1>6. ASSUME NEW t \in Threads, TakeIdle(t) PROVE Wakeups'
    <2>1. Len(idle') = Len(idle) - 1 /\ active' = active /\ UNCHANGED <<cfg, closed>>
      BY <1>0, <1>6, IdleEnds DEF TakeIdle, Oldest, ButOldest
    <2>2. Goto(t, "test") /\ pc[t] = "scan" /\ "test" \in Places \ {"wait"}
      BY <1>6 DEF TakeIdle, Places, Counted, Discarding
    <2>3. /\ pc' \in [Threads -> Places] /\ pc'[t] = "test"
          /\ \A u \in Threads \ {t} : pc'[u] = pc[u]
          /\ waiting' = waiting
      BY <2>2, GotoShape DEF Goto
    <2>4. Lookers' = Lookers - 1 /\ Lookers \in Nat
      BY <2>2, <2>3, LookersMove DEF Shape, Looking
    <2>5. WaitersCovered'
      BY <1>0, <2>1, <2>3, <2>4 DEF Wakeups, WaitersCovered, Available
    <2>6. ScanFresh'
      BY <1>0, <1>6, <2>1, <2>2, <2>3 DEF TakeIdle, Lock, Unlock, Wakeups, ScanFresh, UnderLimit
    <2> QED BY <2>5, <2>6 DEF Wakeups
  <1>7. ASSUME NEW t \in Threads, TestPasses(t) PROVE Wakeups'
    <2>1. idle' = idle /\ active' = active /\ UNCHANGED <<cfg, closed>>
      BY <1>7 DEF TestPasses
    <2>2. Goto(t, "held") /\ pc[t] = "test" /\ "held" \in Places \ {"wait"}
      BY <1>7 DEF TestPasses, Places, Counted, Discarding
    <2>3. /\ pc' \in [Threads -> Places] /\ pc'[t] = "held"
          /\ \A u \in Threads \ {t} : pc'[u] = pc[u]
          /\ waiting' = waiting
      BY <2>2, GotoShape DEF Goto
    <2>4. Lookers' = Lookers /\ Lookers \in Nat
      BY <2>2, <2>3, LookersMove DEF Shape, Looking
    <2>5. WaitersCovered'
      BY <1>0, <2>1, <2>3, <2>4 DEF Wakeups, WaitersCovered, Available
    <2>6. ScanFresh'
      BY <1>0, <1>7, <2>1, <2>2, <2>3 DEF TestPasses, Lock, Unlock, Wakeups, ScanFresh, UnderLimit
    <2> QED BY <2>5, <2>6 DEF Wakeups
  <1>8. ASSUME NEW t \in Threads, TestFails(t) PROVE Wakeups'
    <2>1. idle' = idle /\ active' = active /\ UNCHANGED <<cfg, closed>>
      BY <1>8 DEF TestFails
    <2>2. Goto(t, "testClose") /\ pc[t] = "test" /\ "testClose" \in Places \ {"wait"}
      BY <1>8 DEF TestFails, Places, Counted, Discarding
    <2>3. /\ pc' \in [Threads -> Places] /\ pc'[t] = "testClose"
          /\ \A u \in Threads \ {t} : pc'[u] = pc[u]
          /\ waiting' = waiting
      BY <2>2, GotoShape DEF Goto
    <2>4. Lookers' = Lookers /\ Lookers \in Nat
      BY <2>2, <2>3, LookersMove DEF Shape, Looking
    <2>5. WaitersCovered'
      BY <1>0, <2>1, <2>3, <2>4 DEF Wakeups, WaitersCovered, Available
    <2>6. ScanFresh'
      BY <1>0, <1>8, <2>1, <2>2, <2>3 DEF TestFails, Lock, Unlock, Wakeups, ScanFresh, UnderLimit
    <2> QED BY <2>5, <2>6 DEF Wakeups
  <1>9. ASSUME NEW t \in Threads, TestClose(t) PROVE Wakeups'
    <2>1. idle' = idle /\ active' = active /\ UNCHANGED <<cfg, closed>>
      BY <1>9 DEF TestClose
    <2>2. Goto(t, "relockScan") /\ pc[t] = "testClose" /\ "relockScan" \in Places \ {"wait"}
      BY <1>9 DEF TestClose, Places, Counted, Discarding
    <2>3. /\ pc' \in [Threads -> Places] /\ pc'[t] = "relockScan"
          /\ \A u \in Threads \ {t} : pc'[u] = pc[u]
          /\ waiting' = waiting
      BY <2>2, GotoShape DEF Goto
    <2>4. Lookers' = Lookers /\ Lookers \in Nat
      BY <2>2, <2>3, LookersMove DEF Shape, Looking
    <2>5. WaitersCovered'
      BY <1>0, <2>1, <2>3, <2>4 DEF Wakeups, WaitersCovered, Available
    <2>6. ScanFresh'
      BY <1>0, <1>9, <2>1, <2>2, <2>3 DEF TestClose, Lock, Unlock, Wakeups, ScanFresh, UnderLimit
    <2> QED BY <2>5, <2>6 DEF Wakeups
  <1>10. ASSUME NEW t \in Threads, RelockScan(t) PROVE Wakeups'
    <2>1. idle' = idle /\ active' = active - 1 /\ UNCHANGED <<cfg, closed>>
      BY <1>10 DEF RelockScan, Release
    <2>2. Signal(t, "scan") /\ pc[t] = "relockScan" /\ "scan" \in Places \ {"wait"}
      BY <1>10 DEF RelockScan, Release, Places, Counted, Discarding
    <2>3. /\ OthersStay(t) /\ pc'[t] = "scan"
          /\ waiting # {} \/ waiting' = {}
      BY <2>2, SignalShape DEF OthersStay, Signal
    <2>4. waiting # {} => Lookers' = Lookers + 2 /\ Lookers \in Nat
      BY <2>2, LookersSignal DEF Looking
    <2>5. WaitersCovered'
      BY <1>0, <2>1, <2>3, <2>4 DEF Wakeups, WaitersCovered, Available
    <2>6. ScanFresh'
      BY <1>0, <1>10, <2>1, <2>2, <2>3 DEF RelockScan, Lock, Unlock, Wakeups, ScanFresh, UnderLimit, OthersStay
    <2> QED BY <2>5, <2>6 DEF Wakeups
  <1>11. ASSUME NEW t \in Threads, GetOnClosedPool(t) PROVE Wakeups'
    <2>1. idle' = idle /\ active' = active /\ UNCHANGED <<cfg, closed>>
      BY <1>11 DEF GetOnClosedPool
    <2>2. Goto(t, "out") /\ pc[t] = "scan" /\ "out" \in Places \ {"wait"}
      BY <1>11 DEF GetOnClosedPool, ScanDone, Places, Counted, Discarding
    <2>3. /\ pc' \in [Threads -> Places] /\ pc'[t] = "out"
          /\ \A u \in Threads \ {t} : pc'[u] = pc[u]
          /\ waiting' = waiting
      BY <2>2, GotoShape DEF Goto
    <2>4. Lookers' = Lookers - 1 /\ Lookers \in Nat
      BY <2>2, <2>3, LookersMove DEF Shape, Looking
    <2>5. WaitersCovered'
      BY <1>0, <1>11, <2>1, <2>3, <2>4 DEF GetOnClosedPool, Wakeups, WaitersCovered, Available
    <2>6. ScanFresh'
      BY <1>0, <1>11, <2>1, <2>2, <2>3 DEF GetOnClosedPool, Lock, Unlock, Wakeups, ScanFresh, UnderLimit
    <2> QED BY <2>5, <2>6 DEF Wakeups
  <1>12. ASSUME NEW t \in Threads, StartDial(t) PROVE Wakeups'
    <2>1. idle' = idle /\ active' = active + 1 /\ UNCHANGED <<cfg, closed>>
      BY <1>12 DEF StartDial
    <2>2. Goto(t, "dial") /\ pc[t] = "scan" /\ "dial" \in Places \ {"wait"}
      BY <1>12 DEF StartDial, ScanDone, Places, Counted, Discarding
    <2>3. /\ pc' \in [Threads -> Places] /\ pc'[t] = "dial"
          /\ \A u \in Threads \ {t} : pc'[u] = pc[u]
          /\ waiting' = waiting
      BY <2>2, GotoShape DEF Goto
    <2>4. Lookers' = Lookers - 1 /\ Lookers \in Nat
      BY <2>2, <2>3, LookersMove DEF Shape, Looking
    <2>5. WaitersCovered'
      BY <1>0, <2>1, <2>3, <2>4 DEF Wakeups, WaitersCovered, Available
    <2>6. ScanFresh'
      BY <1>0, <1>12, <2>1, <2>2, <2>3 DEF StartDial, Lock, Unlock, Wakeups, ScanFresh, UnderLimit
    <2> QED BY <2>5, <2>6 DEF Wakeups
  <1>13. ASSUME NEW t \in Threads, DialSucceeds(t) PROVE Wakeups'
    <2>1. idle' = idle /\ active' = active /\ UNCHANGED <<cfg, closed>>
      BY <1>13 DEF DialSucceeds
    <2>2. Goto(t, "held") /\ pc[t] = "dial" /\ "held" \in Places \ {"wait"}
      BY <1>13 DEF DialSucceeds, Places, Counted, Discarding
    <2>3. /\ pc' \in [Threads -> Places] /\ pc'[t] = "held"
          /\ \A u \in Threads \ {t} : pc'[u] = pc[u]
          /\ waiting' = waiting
      BY <2>2, GotoShape DEF Goto
    <2>4. Lookers' = Lookers /\ Lookers \in Nat
      BY <2>2, <2>3, LookersMove DEF Shape, Looking
    <2>5. WaitersCovered'
      BY <1>0, <2>1, <2>3, <2>4 DEF Wakeups, WaitersCovered, Available
    <2>6. ScanFresh'
      BY <1>0, <1>13, <2>1, <2>2, <2>3 DEF DialSucceeds, Lock, Unlock, Wakeups, ScanFresh, UnderLimit
    <2> QED BY <2>5, <2>6 DEF Wakeups
  <1>14. ASSUME NEW t \in Threads, DialFails(t) PROVE Wakeups'
    <2>1. idle' = idle /\ active' = active /\ UNCHANGED <<cfg, closed>>
      BY <1>14 DEF DialFails
    <2>2. Goto(t, "dialFail") /\ pc[t] = "dial" /\ "dialFail" \in Places \ {"wait"}
      BY <1>14 DEF DialFails, Places, Counted, Discarding
    <2>3. /\ pc' \in [Threads -> Places] /\ pc'[t] = "dialFail"
          /\ \A u \in Threads \ {t} : pc'[u] = pc[u]
          /\ waiting' = waiting
      BY <2>2, GotoShape DEF Goto
    <2>4. Lookers' = Lookers /\ Lookers \in Nat
      BY <2>2, <2>3, LookersMove DEF Shape, Looking
    <2>5. WaitersCovered'
      BY <1>0, <2>1, <2>3, <2>4 DEF Wakeups, WaitersCovered, Available
    <2>6. ScanFresh'
      BY <1>0, <1>14, <2>1, <2>2, <2>3 DEF DialFails, Lock, Unlock, Wakeups, ScanFresh, UnderLimit
    <2> QED BY <2>5, <2>6 DEF Wakeups
  <1>15. ASSUME NEW t \in Threads, DialRelease(t) PROVE Wakeups'
    <2>1. idle' = idle /\ active' = active - 1 /\ UNCHANGED <<cfg, closed>>
      BY <1>15 DEF DialRelease, Release
    <2>2. Signal(t, "out") /\ pc[t] = "dialFail" /\ "out" \in Places \ {"wait"}
      BY <1>15 DEF DialRelease, Release, Places, Counted, Discarding
    <2>3. /\ OthersStay(t) /\ pc'[t] = "out"
          /\ waiting # {} \/ waiting' = {}
      BY <2>2, SignalShape DEF OthersStay, Signal
    <2>4. waiting # {} => Lookers' = Lookers + 1 /\ Lookers \in Nat
      BY <2>2, LookersSignal DEF Looking
    <2>5. WaitersCovered'
      BY <1>0, <2>1, <2>3, <2>4 DEF Wakeups, WaitersCovered, Available
    <2>6. ScanFresh'
      BY <1>0, <1>15, <2>1, <2>2, <2>3 DEF DialRelease, Lock, Unlock, Wakeups, ScanFresh, UnderLimit, OthersStay
    <2> QED BY <2>5, <2>6 DEF Wakeups
  <1>16. ASSUME NEW t \in Threads, Exhausted(t) PROVE Wakeups'
    <2>1. idle' = idle /\ active' = active /\ UNCHANGED <<cfg, closed>>
      BY <1>16 DEF Exhausted
    <2>2. Goto(t, "out") /\ pc[t] = "scan" /\ "out" \in Places \ {"wait"}
      BY <1>16 DEF Exhausted, ScanDone, Places, Counted, Discarding
    <2>3. /\ pc' \in [Threads -> Places] /\ pc'[t] = "out"
          /\ \A u \in Threads \ {t} : pc'[u] = pc[u]
          /\ waiting' = waiting
      BY <2>2, GotoShape DEF Goto
    <2>4. Lookers' = Lookers - 1 /\ Lookers \in Nat
      BY <2>2, <2>3, LookersMove DEF Shape, Looking
    <2>5. WaitersCovered'
      BY <1>0, <1>16, <2>1, <2>3, <2>4 DEF Exhausted, Wakeups, WaitersCovered, Available
    <2>6. ScanFresh'
      BY <1>0, <1>16, <2>1, <2>2, <2>3 DEF Exhausted, Lock, Unlock, Wakeups, ScanFresh, UnderLimit
    <2> QED BY <2>5, <2>6 DEF Wakeups
  <1>17. ASSUME NEW t \in Threads, CondWait(t) PROVE Wakeups'
    <2>1. idle' = idle /\ active' = active /\ UNCHANGED <<cfg, closed>>
      BY <1>17 DEF CondWait
    <2>2. /\ pc' \in [Threads -> Places] /\ pc'[t] = "wait" /\ pc[t] = "scan"
          /\ \A u \in Threads \ {t} : pc'[u] = pc[u]
      BY <1>0, <1>17 DEF CondWait, ScanDone, Places, Counted, Discarding
    <2>3. Len(idle) = 0 /\ ~UnderLimit /\ ~closed /\ cfg.Wait
      BY <1>0, <1>17 DEF CondWait, ScanDone, Wakeups, ScanFresh
    <2>4. Lookers' = Lookers - 1 /\ Lookers \in Nat /\ Lookers' \in Nat
      <3>1. TypeOK' 
        BY <1>17, ShapeNext DEF Next, Progress, Shape
      <3>2. Lookers' = Lookers - 1 /\ Lookers \in Nat
        BY <2>2, LookersMove DEF Shape, Looking
      <3>3. Lookers' \in Nat
        BY <3>1, ThreadsAssumption, FS_Subset, FS_CardinalityType DEF Lookers
      <3> QED BY <3>2, <3>3
    <2>5. WaitersCovered'
      BY <1>0, <2>1, <2>3, <2>4 DEF WaitersCovered, Available, UnderLimit
    <2>6. ScanFresh'
      BY <1>0, <1>17, <2>1, <2>2 DEF CondWait, Wakeups, ScanFresh, UnderLimit
    <2> QED BY <2>5, <2>6 DEF Wakeups
  <1>18. ASSUME NEW t \in Threads, RelockWoken(t) PROVE Wakeups'
    <2>1. idle' = idle /\ active' = active /\ UNCHANGED <<cfg, closed>>
      BY <1>18 DEF RelockWoken
    <2>2. Goto(t, "scan") /\ pc[t] = "woken" /\ "scan" \in Places \ {"wait"}
      BY <1>18 DEF RelockWoken, Places, Counted, Discarding
    <2>3. /\ pc' \in [Threads -> Places] /\ pc'[t] = "scan"
          /\ \A u \in Threads \ {t} : pc'[u] = pc[u]
          /\ waiting' = waiting
      BY <2>2, GotoShape DEF Goto
    <2>4. Lookers' = Lookers /\ Lookers \in Nat
      BY <2>2, <2>3, LookersMove DEF Shape, Looking
    <2>5. WaitersCovered'
      BY <1>0, <2>1, <2>3, <2>4 DEF Wakeups, WaitersCovered, Available
    <2>6. ScanFresh'
      BY <1>0, <1>18, <2>1, <2>2, <2>3 DEF RelockWoken, Lock, Unlock, Wakeups, ScanFresh, UnderLimit
    <2> QED BY <2>5, <2>6 DEF Wakeups
  <1>19. ASSUME NEW t \in Threads, ReturnConn(t) PROVE Wakeups'
    <2>1. idle' = idle /\ active' = active /\ UNCHANGED <<cfg, closed>>
      BY <1>19 DEF ReturnConn
    <2>2. Goto(t, "put") /\ pc[t] = "held" /\ "put" \in Places \ {"wait"}
      BY <1>19 DEF ReturnConn, Places, Counted, Discarding
    <2>3. /\ pc' \in [Threads -> Places] /\ pc'[t] = "put"
          /\ \A u \in Threads \ {t} : pc'[u] = pc[u]
          /\ waiting' = waiting
      BY <2>2, GotoShape DEF Goto
    <2>4. Lookers' = Lookers /\ Lookers \in Nat
      BY <2>2, <2>3, LookersMove DEF Shape, Looking
    <2>5. WaitersCovered'
      BY <1>0, <2>1, <2>3, <2>4 DEF Wakeups, WaitersCovered, Available
    <2>6. ScanFresh'
      BY <1>0, <1>19, <2>1, <2>2, <2>3 DEF ReturnConn, Lock, Unlock, Wakeups, ScanFresh, UnderLimit
    <2> QED BY <2>5, <2>6 DEF Wakeups
  <1>20. ASSUME NEW t \in Threads, PutIdle(t) PROVE Wakeups'
    <2>0. have[t] \in Conns
      BY <1>20 DEF PutIdle, Shape, TypeOK, HandsDiscipline, Holding
    <2>1. Len(idle') = Len(idle) + 1 /\ active' = active /\ UNCHANGED <<cfg, closed>>
      BY <1>0, <1>20, <2>0, IdlePush DEF PutIdle
    <2>2. Signal(t, "out") /\ pc[t] = "put" /\ "out" \in Places \ {"wait"}
      BY <1>20 DEF PutIdle, Places, Counted, Discarding
    <2>3. /\ OthersStay(t) /\ pc'[t] = "out"
          /\ waiting # {} \/ waiting' = {}
      BY <2>2, SignalShape DEF OthersStay, Signal
    <2>4. waiting # {} => Lookers' = Lookers + 1 /\ Lookers \in Nat
      BY <2>2, LookersSignal DEF Looking
    <2>5. WaitersCovered'
      BY <1>0, <2>1, <2>3, <2>4 DEF Wakeups, WaitersCovered, Available
    <2>6. ScanFresh'
      BY <1>0, <1>20, <2>1, <2>2, <2>3 DEF PutIdle, Lock, Unlock, Wakeups, ScanFresh, UnderLimit, OthersStay
    <2> QED BY <2>5, <2>6 DEF Wakeups
  <1>21. ASSUME NEW t \in Threads, PutEvict(t) PROVE Wakeups'
    <2>0. have[t] \in Conns
      BY <1>21 DEF PutEvict, Shape, TypeOK, HandsDiscipline, Holding
    <2>1. Len(idle') = Len(idle) /\ active' = active - 1 /\ UNCHANGED <<cfg, closed>>
      BY <1>0, <1>21, <2>0, IdlePush DEF PutEvict, Release
    <2>2. Signal(t, "putClose") /\ pc[t] = "put" /\ "putClose" \in Places \ {"wait"}
      BY <1>21 DEF PutEvict, Release, Places, Counted, Discarding
    <2>3. /\ OthersStay(t) /\ pc'[t] = "putClose"
          /\ waiting # {} \/ waiting' = {}
      BY <2>2, SignalShape DEF OthersStay, Signal
    <2>4. waiting # {} => Lookers' = Lookers + 1 /\ Lookers \in Nat
      BY <2>2, LookersSignal DEF Looking
    <2>5. WaitersCovered'
      BY <1>0, <2>1, <2>3, <2>4 DEF Wakeups, WaitersCovered, Available
    <2>6. ScanFresh'
      BY <1>0, <1>21, <2>1, <2>2, <2>3 DEF PutEvict, Lock, Unlock, Wakeups, ScanFresh, UnderLimit, OthersStay
    <2> QED BY <2>5, <2>6 DEF Wakeups
  <1>22. ASSUME NEW t \in Threads, PutDrop(t) PROVE Wakeups'
    <2>1. idle' = idle /\ active' = active - 1 /\ UNCHANGED <<cfg, closed>>
      BY <1>22 DEF PutDrop, Release
    <2>2. Signal(t, "putClose") /\ pc[t] = "put" /\ "putClose" \in Places \ {"wait"}
      BY <1>22 DEF PutDrop, Release, Places, Counted, Discarding
    <2>3. /\ OthersStay(t) /\ pc'[t] = "putClose"
          /\ waiting # {} \/ waiting' = {}
      BY <2>2, SignalShape DEF OthersStay, Signal
    <2>4. waiting # {} => Lookers' = Lookers + 1 /\ Lookers \in Nat
      BY <2>2, LookersSignal DEF Looking
    <2>5. WaitersCovered'
      BY <1>0, <2>1, <2>3, <2>4 DEF Wakeups, WaitersCovered, Available
    <2>6. ScanFresh'
      BY <1>0, <1>22, <2>1, <2>2, <2>3 DEF PutDrop, Lock, Unlock, Wakeups, ScanFresh, UnderLimit, OthersStay
    <2> QED BY <2>5, <2>6 DEF Wakeups
  <1>23. ASSUME NEW t \in Threads, PutClose(t) PROVE Wakeups'
    <2>1. idle' = idle /\ active' = active /\ UNCHANGED <<cfg, closed>>
      BY <1>23 DEF PutClose
    <2>2. Goto(t, "out") /\ pc[t] = "putClose" /\ "out" \in Places \ {"wait"}
      BY <1>23 DEF PutClose, Places, Counted, Discarding
    <2>3. /\ pc' \in [Threads -> Places] /\ pc'[t] = "out"
          /\ \A u \in Threads \ {t} : pc'[u] = pc[u]
          /\ waiting' = waiting
      BY <2>2, GotoShape DEF Goto
    <2>4. Lookers' = Lookers /\ Lookers \in Nat
      BY <2>2, <2>3, LookersMove DEF Shape, Looking
    <2>5. WaitersCovered'
      BY <1>0, <2>1, <2>3, <2>4 DEF Wakeups, WaitersCovered, Available
    <2>6. ScanFresh'
      BY <1>0, <1>23, <2>1, <2>2, <2>3 DEF PutClose, Lock, Unlock, Wakeups, ScanFresh, UnderLimit
    <2> QED BY <2>5, <2>6 DEF Wakeups
  <1>24. ASSUME ClosePool PROVE Wakeups'
    <2>1. mu = Nobody /\ waiting' = {} /\ \A u \in Threads : pc'[u] = "scan" => pc[u] = "scan"
      BY <1>24 DEF ClosePool, Shape, TypeOK
    <2> QED BY <1>0, <2>1 DEF Wakeups, WaitersCovered, ScanFresh
  <1>25. ASSUME CloseTaken PROVE Wakeups'
    BY <1>25 DEF CloseTaken, Wakeups, WaitersCovered, ScanFresh, Available, Lookers, UnderLimit
  <1>26. ASSUME UNCHANGED vars PROVE Wakeups'
    BY <1>26 DEF vars, Wakeups, WaitersCovered, ScanFresh, Available, Lookers, UnderLimit
  <1> QED
    BY <1>1, <1>2, <1>3, <1>4, <1>5, <1>6, <1>7, <1>8, <1>9, <1>10, <1>11, <1>12, <1>13, <1>14, <1>15, <1>16, <1>17, <1>18, <1>19, <1>20, <1>21, <1>22, <1>23, <1>24, <1>25, <1>26 DEF Next, Progress

-----------------------------------------------------------------------------
(* The theorems *)

IInv == Shape /\ Accounting /\ Ownership /\ Wakeups

LEMMA IInvInit == Init => IInv
  BY ShapeInit, AccountingInit, OwnershipInit, WakeupsInit DEF IInv

LEMMA IInvNext == IInv /\ [Next]_vars => IInv'
  BY ShapeNext, AccountingNext, OwnershipNext, WakeupsNext DEF IInv

THEOREM PoolInvariant == Spec => []IInv
  BY IInvInit, IInvNext, PTL DEF Spec

(* The variables keep their types in every reachable state. *)
THEOREM PoolTypes == Spec => []TypeOK
  <1>1. IInv => TypeOK
    BY DEF IInv, Shape
  <1> QED BY <1>1, PoolInvariant, PTL

(* p.active is the number of connections the pool answers for, at every unlock *)
(* of p.mu and in between.                                                      *)
THEOREM PoolCountsExactly == Spec => []ActiveIsExact
  <1>1. IInv => ActiveIsExact
    BY DEF IInv, Accounting
  <1> QED BY <1>1, PoolInvariant, PTL

(* MaxActive and MaxIdle are never exceeded. *)
THEOREM PoolKeepsLimits == Spec => []WithinLimits
  <1>1. IInv => WithinLimits
    BY DEF IInv, Accounting
  <1> QED BY <1>1, PoolInvariant, PTL

(* A connection has one owner, and none is lost or closed in someone's hands.   *)
THEOREM PoolLendsExclusively == Spec => [](OneOwner /\ NoneLost)
  <1>1. IInv => OneOwner /\ NoneLost
    BY OwnedGives DEF IInv, Shape, Ownership
  <1> QED BY <1>1, PoolInvariant, PTL

(* Nothing is stored in a pool after its Close. *)
THEOREM ClosedPoolStaysEmpty == Spec => []ClosedPoolIsEmpty
  <1>1. IInv => ClosedPoolIsEmpty
    BY DEF IInv, Ownership
  <1> QED BY <1>1, PoolInvariant, PTL

(* No signal of put, release or Close is lost while goroutines wait. *)
THEOREM PoolLosesNoWakeup == Spec => []NoLostWakeup
  <1>1. IInv => NoLostWakeup
    BY WakeupsGive DEF IInv
  <1> QED BY <1>1, PoolInvariant, PTL
-----------------------------------------------------------------------------
(* RedisPool implements ConnLease. *)

OwningNow(t, c) == pc[t] \in Owning /\ have[t] = c

(* The refinement mapping, connection by connection. *)
OwnerFacts ==
  /\ Owner = [c \in Conns |-> Owner[c]]
  /\ \A c \in Conns :
        /\ c \in Listed(idle) => Owner[c] = "pool"
        /\ \A t \in Threads : OwningNow(t, c) => Owner[c] = t
        /\ c \in open /\ c \notin Listed(idle) /\ (\A t \in Threads : ~OwningNow(t, c))
              => Owner[c] = "dying"
        /\ c \notin open => Owner[c] = "none"

LEMMA OwnerIs ==
  ASSUME IInv
  PROVE  OwnerFacts
  <1>1. IdleSet = Listed(idle)
    BY DEF IdleSet, Listed
  <1>2. Owned
    BY DEF IInv, Ownership
  <1>3. Owner = [c \in Conns |-> Owner[c]]
    BY DEF Owner
  <1>4. ASSUME NEW c \in Conns, c \in Listed(idle) PROVE Owner[c] = "pool"
    <2>1. \A t \in Threads : have[t] # c
      BY <1>2, <1>4 DEF Owned
    <2>2. c \in open
      BY <1>2, <1>4 DEF Owned
    <2> QED BY <1>1, <1>4, <2>1, <2>2 DEF Owner
  <1>5. ASSUME NEW c \in Conns, NEW t \in Threads, OwningNow(t, c) PROVE Owner[c] = t
    <2>1. c \notin IdleSet /\ c \in open /\ have[t] # Nobody
      BY <1>1, <1>2, <1>5, NobodyAssumption DEF OwningNow, Owned
    <2>2. \A u \in Threads : pc[u] \in Owning /\ have[u] = c <=> u = t
      BY <1>2, <1>5, <2>1 DEF OwningNow, Owned
    <2>3. t = CHOOSE u \in Threads : pc[u] \in Owning /\ have[u] = c
      BY <2>2
    <2> QED BY <2>1, <2>2, <2>3 DEF Owner
  <1>6. ASSUME NEW c \in Conns, c \in open, c \notin Listed(idle),
               \A t \in Threads : ~OwningNow(t, c)
        PROVE  Owner[c] = "dying"
    BY <1>1, <1>6 DEF Owner, OwningNow
  <1>7. ASSUME NEW c \in Conns, c \notin open PROVE Owner[c] = "none"
    <2>1. c \notin IdleSet /\ \A t \in Threads : have[t] # c
      BY <1>1, <1>2, <1>7 DEF Owned
    <2> QED BY <1>7, <2>1 DEF Owner
  <1> QED BY <1>3, <1>4, <1>5, <1>6, <1>7 DEF OwnerFacts

(* A connection that stays where it is keeps its owner. *)
SamePlace(c) ==
  /\ c \in open' <=> c \in open
  /\ c \in Listed(idle') <=> c \in Listed(idle)
  /\ \A t \in Threads : OwningNow(t, c)' <=> OwningNow(t, c)

LEMMA SameOwner ==
  ASSUME OwnerFacts, OwnerFacts', NEW c \in Conns, SamePlace(c)
  PROVE  Owner'[c] = Owner[c]
  BY DEF OwnerFacts, SamePlace

(* If one connection changes place, the mapping changes there. *)
LEMMA OneMoves ==
  ASSUME OwnerFacts, OwnerFacts', NEW c \in Conns, \A d \in Conns \ {c} : SamePlace(d)
  PROVE  Owner' = [Owner EXCEPT ![c] = Owner'[c]]
  <1>1. \A d \in Conns \ {c} : Owner'[d] = Owner[d]
    BY SameOwner
  <1> QED BY <1>1 DEF OwnerFacts

LEMMA NoneMoves ==
  ASSUME OwnerFacts, OwnerFacts', \A d \in Conns : SamePlace(d)
  PROVE  Owner' = Owner
  <1>1. \A d \in Conns : Owner'[d] = Owner[d]
    BY SameOwner
  <1> QED BY <1>1 DEF OwnerFacts

(* The lent and stored connections are fewer than the count of the pool, when   *)
(* some goroutine dials.                                                        *)
LEMMA RoomToCreate ==
  ASSUME IInv, NEW t \in Threads, pc[t] = "dial"
  PROVE  cfg.MaxActive = 0 \/ Cardinality(Lease!Allocated) < cfg.MaxActive
  <1> DEFINE lent == {u \in Threads : pc[u] \in Owning}
             used == {u \in Threads : pc[u] \in Counted}
             hands == {have[u] : u \in lent}
  <1>1. /\ idle \in Seq(Conns) /\ Len(idle) \in Nat /\ cfg.MaxActive \in Nat
        /\ active = Len(idle) + Cardinality(used)
        /\ cfg.MaxActive > 0 => active <= cfg.MaxActive
        /\ Owned
    BY ConfigAssumption
    DEF IInv, Shape, TypeOK, Accounting, ActiveIsExact, WithinLimits, Ownership
  <1>2. OwnerFacts
    BY OwnerIs
  <1>3. Lease!Allocated \subseteq Listed(idle) \cup hands
    <2> SUFFICES ASSUME NEW c \in Conns, Owner[c] \in Threads \cup {"pool"},
                        c \notin Listed(idle), c \notin hands
                 PROVE  FALSE
      BY DEF Lease!Allocated
    <2>1. \A u \in Threads : ~OwningNow(u, c)
      BY DEF OwningNow
    <2>2. Owner[c] \in {"dying", "none"}
      BY <1>2, <2>1 DEF OwnerFacts
    <2> QED BY <2>2, OwnersAssumption
  <1>4. IsFiniteSet(lent) /\ IsFiniteSet(used)
    BY ThreadsAssumption, FS_Subset
  <1>5. Cardinality(lent) <= Cardinality(used) - 1
    <2>1. lent \subseteq used \ {t} /\ t \in used
      BY DEF Owning, Counted
    <2>2. IsFiniteSet(used \ {t}) /\ Cardinality(used \ {t}) = Cardinality(used) - 1
      BY <1>4, <2>1, FS_RemoveElement
    <2> QED BY <2>1, <2>2, FS_Subset
  <1>6. IsFiniteSet(hands) /\ Cardinality(hands) <= Cardinality(lent)
    <2> DEFINE f == [u \in lent |-> have[u]]
    <2>1. f \in Surjection(lent, hands)
      BY DEF Surjection
    <2> QED BY <1>4, <2>1, FS_Surjection
  <1>7. IsFiniteSet(Listed(idle)) /\ Cardinality(Listed(idle)) <= Len(idle)
    <2>1. idle \in Surjection(1..Len(idle), Listed(idle))
      BY <1>1 DEF Surjection, Listed
    <2>2. IsFiniteSet(1..Len(idle)) /\ Cardinality(1..Len(idle)) = Len(idle)
      <3>1. 1 \in Int /\ Len(idle) \in Int
        BY <1>1
      <3>2. /\ IsFiniteSet(1..Len(idle))
            /\ Cardinality(1..Len(idle)) = IF 1 > Len(idle) THEN 0 ELSE Len(idle) - 1 + 1
        BY <3>1, FS_Interval
      <3>3. (IF 1 > Len(idle) THEN 0 ELSE Len(idle) - 1 + 1) = Len(idle)
        BY <1>1
      <3> QED BY <3>2, <3>3
    <2> QED BY <2>1, <2>2, FS_Surjection
  <1>8. /\ IsFiniteSet(Listed(idle) \cup hands)
        /\ Cardinality(Listed(idle) \cup hands) <= Len(idle) + Cardinality(lent)
    <2>1. IsFiniteSet(Listed(idle) \cap hands)
      BY <1>7, FS_Subset
    <2>2. /\ Cardinality(Listed(idle) \cap hands) \in Nat /\ Cardinality(hands) \in Nat
          /\ Cardinality(Listed(idle)) \in Nat /\ Cardinality(lent) \in Nat
      BY <1>4, <1>6, <1>7, <2>1, FS_CardinalityType
    <2>3. /\ IsFiniteSet(Listed(idle) \cup hands)
          /\ Cardinality(Listed(idle) \cup hands)
                = Cardinality(Listed(idle)) + Cardinality(hands) - Cardinality(Listed(idle) \cap hands)
      BY <1>6, <1>7, FS_Union
    <2> HIDE DEF hands, lent
    <2> QED BY <1>1, <1>6, <1>7, <2>2, <2>3
  <1>9. /\ Cardinality(Lease!Allocated) <= Cardinality(Listed(idle) \cup hands)
        /\ Cardinality(Lease!Allocated) \in Nat
        /\ Cardinality(Listed(idle) \cup hands) \in Nat
        /\ Cardinality(lent) \in Nat /\ Cardinality(used) \in Nat
    BY <1>3, <1>4, <1>8, FS_Subset, FS_CardinalityType
  <1> QED BY <1>1, <1>5, <1>8, <1>9

(* ConnLease counts with the same Cardinality. *)
LEMMA SameCount ==
  ASSUME NEW S
  PROVE  Lease!Cardinality(S) = Cardinality(S)
  BY DEF Lease!Cardinality, Cardinality

-----------------------------------------------------------------------------
(* Steps that move no connection, or the lease does not tell apart *)
LEMMA Stays ==
  ASSUME OwnerFacts, OwnerFacts', UNCHANGED <<cfg, closed, idle, open, have>>,
         \A u \in Threads : pc'[u] # pc[u] =>
            have[u] = Nobody \/ (pc[u] \in Owning <=> pc'[u] \in Owning)
  PROVE  UNCHANGED Lease!leaseVars
  <1>1. \A d \in Conns : SamePlace(d)
    BY NobodyAssumption DEF SamePlace, OwningNow
  <1>2. Owner' = Owner
    BY <1>1, NoneMoves
  <1> QED BY <1>2 DEF Lease!leaseVars

LEMMA LeaseStep ==
  ASSUME IInv, IInv', OwnerFacts, OwnerFacts', [Next]_vars
  PROVE  [Lease!LeaseNext]_(Lease!leaseVars)
  <1> USE DEF Lease!LeaseNext, Lease!Move
  <1>0. /\ idle \in Seq(Conns) /\ Listed(idle) \subseteq Conns /\ Nobody \notin Listed(idle)
        /\ have \in [Threads -> Conns \cup {Nobody}] /\ Nobody \notin Conns
        /\ pc \in [Threads -> Places] /\ pc' \in [Threads -> Places]
        /\ open \subseteq Conns /\ closing \subseteq Conns /\ Owned /\ Owned'
        /\ \A u \in Threads : have[u] # Nobody <=> pc[u] \in Holding
        /\ Shape
    BY NobodyAssumption
    DEF IInv, Shape, TypeOK, Ownership, HandsDiscipline, Listed
  <1>1. ASSUME NEW t \in Threads, Get(t)
        PROVE  [Lease!LeaseNext]_(Lease!leaseVars)
    <2>1. OthersStay(t) /\ pc'[t] = "prune" /\ pc[t] = "out"
      BY <1>0, <1>1, GotoShape DEF Get, Release, OthersStay, Places, Counted, Discarding
    <2>2. UNCHANGED <<cfg, closed, idle, open, have>>
      BY <1>1 DEF Get
    <2> QED BY <1>0, <2>1, <2>2, Stays DEF OthersStay, Owning, Holding
  <1>2. ASSUME NEW t \in Threads, PruneStale(t)
        PROVE  [Lease!LeaseNext]_(Lease!leaseVars)
    <2>1. OthersStay(t) /\ pc'[t] = "pruneClose" /\ pc[t] = "prune"
      BY <1>0, <1>2, SignalShape DEF PruneStale, Release, OthersStay, Places, Counted, Discarding
    <2> DEFINE c == Oldest
    <2>2. /\ Listed(idle') = Listed(idle) \ {c} /\ c \in Listed(idle) /\ c \in Conns
          /\ have' = [have EXCEPT ![t] = c] /\ have[t] = Nobody
          /\ UNCHANGED <<cfg, closed, open>>
      BY <1>0, <1>2, <2>1, ListedEnds DEF PruneStale, Oldest, ButOldest, Owned, Holding
    <2> HIDE DEF c
    <2>3. Owner[c] = "pool" /\ Owner'[c] = "dying"
      BY <1>0, <2>1, <2>2 DEF OwnerFacts, OwningNow, OthersStay, Owning, Owned
    <2>4. \A d \in Conns \ {c} : SamePlace(d)
      BY <1>0, <2>1, <2>2 DEF SamePlace, OwningNow, OthersStay, Owning
    <2>5. Owner' = [Owner EXCEPT ![c] = "dying"]
      BY <2>2, <2>3, <2>4, OneMoves
    <2> QED BY <2>2, <2>3, <2>5 DEF Lease!Expire
  <1>3. ASSUME NEW t \in Threads, PruneClose(t)
        PROVE  [Lease!LeaseNext]_(Lease!leaseVars)
    <2>1. OthersStay(t) /\ pc'[t] = "relockPrune" /\ pc[t] = "pruneClose"
      BY <1>0, <1>3, GotoShape DEF PruneClose, Release, OthersStay, Places, Counted, Discarding
    <2> DEFINE c == have[t]
    <2>2. /\ c \in Conns /\ UNCHANGED <<cfg, closed, idle>>
          /\ open' = open \ {c} /\ have' = [have EXCEPT ![t] = Nobody]
      BY <1>0, <1>3, <2>1 DEF PruneClose, CloseHeld, Holding
    <2>3. Owner[c] = "dying" /\ Owner'[c] = "none"
      BY <1>0, <2>1, <2>2 DEF OwnerFacts, OwningNow, Owning, Owned
    <2>4. \A d \in Conns \ {c} : SamePlace(d)
      BY <1>0, <2>1, <2>2 DEF SamePlace, OwningNow, OthersStay, Owning
    <2>5. Owner' = [Owner EXCEPT ![c] = "none"]
      BY <2>2, <2>3, <2>4, OneMoves
    <2> QED BY <2>2, <2>3, <2>5 DEF Lease!Destroy
  <1>4. ASSUME NEW t \in Threads, RelockPrune(t)
        PROVE  [Lease!LeaseNext]_(Lease!leaseVars)
    <2>1. OthersStay(t) /\ pc'[t] = "prune" /\ pc[t] = "relockPrune"
      BY <1>0, <1>4, GotoShape DEF RelockPrune, Release, OthersStay, Places, Counted, Discarding
    <2>2. UNCHANGED <<cfg, closed, idle, open, have>>
      BY <1>4 DEF RelockPrune
    <2> QED BY <1>0, <2>1, <2>2, Stays DEF OthersStay, Owning, Holding
  <1>5. ASSUME NEW t \in Threads, PruneDone(t)
        PROVE  [Lease!LeaseNext]_(Lease!leaseVars)
    <2>1. OthersStay(t) /\ pc'[t] = "scan" /\ pc[t] = "prune"
      BY <1>0, <1>5, GotoShape DEF PruneDone, Release, OthersStay, Places, Counted, Discarding
    <2>2. UNCHANGED <<cfg, closed, idle, open, have>>
      BY <1>5 DEF PruneDone
    <2> QED BY <1>0, <2>1, <2>2, Stays DEF OthersStay, Owning, Holding
  <1>6. ASSUME NEW t \in Threads, TakeIdle(t)
        PROVE  [Lease!LeaseNext]_(Lease!leaseVars)
    <2>1. OthersStay(t) /\ pc'[t] = "test" /\ pc[t] = "scan"
      BY <1>0, <1>6, GotoShape DEF TakeIdle, Release, OthersStay, Places, Counted, Discarding
    <2> DEFINE c == Head(idle)
    <2>2. /\ Listed(idle') = Listed(idle) \ {c} /\ c \in Listed(idle) /\ c \in Conns
          /\ have' = [have EXCEPT ![t] = c] /\ have[t] = Nobody
          /\ UNCHANGED <<cfg, closed, open>>
      BY <1>0, <1>6, <2>1, ListedEnds DEF TakeIdle, Owned, Holding
    <2> HIDE DEF c
    <2>3. Owner[c] = "pool" /\ Owner'[c] = t
      BY <1>0, <2>1, <2>2 DEF OwnerFacts, OwningNow, Owning
    <2>4. \A d \in Conns \ {c} : SamePlace(d)
      BY <1>0, <2>1, <2>2 DEF SamePlace, OwningNow, OthersStay, Owning
    <2>5. Owner' = [Owner EXCEPT ![c] = t]
      BY <2>2, <2>3, <2>4, OneMoves
    <2> QED BY <2>2, <2>3, <2>5 DEF Lease!Lend
  <1>7. ASSUME NEW t \in Threads, TestPasses(t)
        PROVE  [Lease!LeaseNext]_(Lease!leaseVars)
    <2>1. OthersStay(t) /\ pc'[t] = "held" /\ pc[t] = "test"
      BY <1>0, <1>7, GotoShape DEF TestPasses, Release, OthersStay, Places, Counted, Discarding
    <2>2. UNCHANGED <<cfg, closed, idle, open, have>>
      BY <1>7 DEF TestPasses
    <2> QED BY <1>0, <2>1, <2>2, Stays DEF OthersStay, Owning, Holding
  <1>8. ASSUME NEW t \in Threads, TestFails(t)
        PROVE  [Lease!LeaseNext]_(Lease!leaseVars)
    <2>1. OthersStay(t) /\ pc'[t] = "testClose" /\ pc[t] = "test"
      BY <1>0, <1>8, GotoShape DEF TestFails, Release, OthersStay, Places, Counted, Discarding
    <2> DEFINE c == have[t]
    <2>2. c \in Conns /\ UNCHANGED <<cfg, closed, idle, open, have>>
      BY <1>0, <1>8, <2>1 DEF TestFails, Holding
    <2>3. Owner[c] = t /\ Owner'[c] = "dying"
      BY <1>0, <2>1, <2>2 DEF OwnerFacts, OwningNow, OthersStay, Owning, Owned
    <2>4. \A d \in Conns \ {c} : SamePlace(d)
      BY <1>0, <2>1, <2>2 DEF SamePlace, OwningNow, OthersStay, Owning
    <2>5. Owner' = [Owner EXCEPT ![c] = "dying"]
      BY <2>2, <2>3, <2>4, OneMoves
    <2> QED BY <2>2, <2>3, <2>5 DEF Lease!Discard
  <1>9. ASSUME NEW t \in Threads, TestClose(t)
        PROVE  [Lease!LeaseNext]_(Lease!leaseVars)
    <2>1. OthersStay(t) /\ pc'[t] = "relockScan" /\ pc[t] = "testClose"
      BY <1>0, <1>9, GotoShape DEF TestClose, Release, OthersStay, Places, Counted, Discarding
    <2> DEFINE c == have[t]
    <2>2. /\ c \in Conns /\ UNCHANGED <<cfg, closed, idle>>
          /\ open' = open \ {c} /\ have' = [have EXCEPT ![t] = Nobody]
      BY <1>0, <1>9, <2>1 DEF TestClose, CloseHeld, Holding
    <2>3. Owner[c] = "dying" /\ Owner'[c] = "none"
      BY <1>0, <2>1, <2>2 DEF OwnerFacts, OwningNow, Owning, Owned
    <2>4. \A d \in Conns \ {c} : SamePlace(d)
      BY <1>0, <2>1, <2>2 DEF SamePlace, OwningNow, OthersStay, Owning
    <2>5. Owner' = [Owner EXCEPT ![c] = "none"]
      BY <2>2, <2>3, <2>4, OneMoves
    <2> QED BY <2>2, <2>3, <2>5 DEF Lease!Destroy
  <1>10. ASSUME NEW t \in Threads, RelockScan(t)
        PROVE  [Lease!LeaseNext]_(Lease!leaseVars)
    <2>1. OthersStay(t) /\ pc'[t] = "scan" /\ pc[t] = "relockScan"
      BY <1>0, <1>10, SignalShape DEF RelockScan, Release, OthersStay, Places, Counted, Discarding
    <2>2. UNCHANGED <<cfg, closed, idle, open, have>>
      BY <1>10 DEF RelockScan
    <2> QED BY <1>0, <2>1, <2>2, Stays DEF OthersStay, Owning, Holding
  <1>11. ASSUME NEW t \in Threads, GetOnClosedPool(t)
        PROVE  [Lease!LeaseNext]_(Lease!leaseVars)
    <2>1. OthersStay(t) /\ pc'[t] = "out" /\ pc[t] = "scan"
      BY <1>0, <1>11, GotoShape DEF GetOnClosedPool, ScanDone, Release, OthersStay, Places, Counted, Discarding
    <2>2. UNCHANGED <<cfg, closed, idle, open, have>>
      BY <1>11 DEF GetOnClosedPool
    <2> QED BY <1>0, <2>1, <2>2, Stays DEF OthersStay, Owning, Holding
  <1>12. ASSUME NEW t \in Threads, StartDial(t)
        PROVE  [Lease!LeaseNext]_(Lease!leaseVars)
    <2>1. OthersStay(t) /\ pc'[t] = "dial" /\ pc[t] = "scan"
      BY <1>0, <1>12, GotoShape DEF StartDial, ScanDone, Release, OthersStay, Places, Counted, Discarding
    <2>2. UNCHANGED <<cfg, closed, idle, open, have>>
      BY <1>12 DEF StartDial
    <2> QED BY <1>0, <2>1, <2>2, Stays DEF OthersStay, Owning, Holding
  <1>13. ASSUME NEW t \in Threads, DialSucceeds(t)
        PROVE  [Lease!LeaseNext]_(Lease!leaseVars)
    <2>1. OthersStay(t) /\ pc'[t] = "held" /\ pc[t] = "dial"
      BY <1>0, <1>13, GotoShape DEF DialSucceeds, Release, OthersStay, Places, Counted, Discarding
    <2>2. PICK c \in Conns \ open : /\ open' = open \cup {c}
                                   /\ have' = [have EXCEPT ![t] = c]
      BY <1>13 DEF DialSucceeds
    <2>3. have[t] = Nobody /\ UNCHANGED <<cfg, closed, idle>>
      BY <1>0, <1>13, <2>1 DEF DialSucceeds, Holding
    <2>4. Owner[c] = "none" /\ Owner'[c] = t
      BY <1>0, <2>1, <2>2, <2>3 DEF OwnerFacts, OwningNow, Owning
    <2>5. \A d \in Conns \ {c} : SamePlace(d)
      BY <1>0, <2>1, <2>2, <2>3 DEF SamePlace, OwningNow, OthersStay, Owning
    <2>6. Owner' = [Owner EXCEPT ![c] = t]
      BY <2>2, <2>4, <2>5, OneMoves
    <2>7. cfg.MaxActive = 0 \/ Cardinality(Lease!Allocated) < cfg.MaxActive
      BY <2>1, RoomToCreate
    <2>8. Lease!Create(t, c)
      BY <2>3, <2>4, <2>6, <2>7, SameCount DEF Lease!Create
    <2> QED BY <2>8, <2>2
  <1>14. ASSUME NEW t \in Threads, DialFails(t)
        PROVE  [Lease!LeaseNext]_(Lease!leaseVars)
    <2>1. OthersStay(t) /\ pc'[t] = "dialFail" /\ pc[t] = "dial"
      BY <1>0, <1>14, GotoShape DEF DialFails, Release, OthersStay, Places, Counted, Discarding
    <2>2. UNCHANGED <<cfg, closed, idle, open, have>>
      BY <1>14 DEF DialFails
    <2> QED BY <1>0, <2>1, <2>2, Stays DEF OthersStay, Owning, Holding
  <1>15. ASSUME NEW t \in Threads, DialRelease(t)
        PROVE  [Lease!LeaseNext]_(Lease!leaseVars)
    <2>1. OthersStay(t) /\ pc'[t] = "out" /\ pc[t] = "dialFail"
      BY <1>0, <1>15, SignalShape DEF DialRelease, Release, OthersStay, Places, Counted, Discarding
    <2>2. UNCHANGED <<cfg, closed, idle, open, have>>
      BY <1>15 DEF DialRelease
    <2> QED BY <1>0, <2>1, <2>2, Stays DEF OthersStay, Owning, Holding
  <1>16. ASSUME NEW t \in Threads, Exhausted(t)
        PROVE  [Lease!LeaseNext]_(Lease!leaseVars)
    <2>1. OthersStay(t) /\ pc'[t] = "out" /\ pc[t] = "scan"
      BY <1>0, <1>16, GotoShape DEF Exhausted, ScanDone, Release, OthersStay, Places, Counted, Discarding
    <2>2. UNCHANGED <<cfg, closed, idle, open, have>>
      BY <1>16 DEF Exhausted
    <2> QED BY <1>0, <2>1, <2>2, Stays DEF OthersStay, Owning, Holding
  <1>17. ASSUME NEW t \in Threads, CondWait(t)
        PROVE  [Lease!LeaseNext]_(Lease!leaseVars)
    <2>1. pc'[t] = "wait" /\ pc[t] = "scan" /\ \A u \in Threads \ {t} : pc'[u] = pc[u]
      BY <1>0, <1>17 DEF CondWait, ScanDone
    <2>2. UNCHANGED <<cfg, closed, idle, open, have>>
      BY <1>17 DEF CondWait
    <2> QED BY <1>0, <2>1, <2>2, Stays DEF Owning
  <1>18. ASSUME NEW t \in Threads, RelockWoken(t)
        PROVE  [Lease!LeaseNext]_(Lease!leaseVars)
    <2>1. OthersStay(t) /\ pc'[t] = "scan" /\ pc[t] = "woken"
      BY <1>0, <1>18, GotoShape DEF RelockWoken, Release, OthersStay, Places, Counted, Discarding
    <2>2. UNCHANGED <<cfg, closed, idle, open, have>>
      BY <1>18 DEF RelockWoken
    <2> QED BY <1>0, <2>1, <2>2, Stays DEF OthersStay, Owning, Holding
  <1>19. ASSUME NEW t \in Threads, ReturnConn(t)
        PROVE  [Lease!LeaseNext]_(Lease!leaseVars)
    <2>1. OthersStay(t) /\ pc'[t] = "put" /\ pc[t] = "held"
      BY <1>0, <1>19, GotoShape DEF ReturnConn, Release, OthersStay, Places, Counted, Discarding
    <2>2. UNCHANGED <<cfg, closed, idle, open, have>>
      BY <1>19 DEF ReturnConn
    <2> QED BY <1>0, <2>1, <2>2, Stays DEF OthersStay, Owning, Holding
  <1>20. ASSUME NEW t \in Threads, PutIdle(t)
        PROVE  [Lease!LeaseNext]_(Lease!leaseVars)
    <2>1. OthersStay(t) /\ pc'[t] = "out" /\ pc[t] = "put"
      BY <1>0, <1>20, SignalShape DEF PutIdle, Release, OthersStay, Places, Counted, Discarding
    <2> DEFINE c == have[t]
    <2>2. /\ c \in Conns /\ c \notin Listed(idle) /\ ~closed
          /\ UNCHANGED <<cfg, closed, open>> /\ have' = [have EXCEPT ![t] = Nobody]
      BY <1>0, <1>20, <2>1 DEF PutIdle, Holding, Owned
    <2>3. Listed(idle') = Listed(idle) \cup {c}
      BY <1>0, <1>20, <2>2, ListedPush DEF PutIdle, Owned
    <2>4. Owner[c] = t /\ Owner'[c] = "pool"
      BY <1>0, <2>1, <2>2, <2>3 DEF OwnerFacts, OwningNow, Owning
    <2>5. \A d \in Conns \ {c} : SamePlace(d)
      BY <1>0, <2>1, <2>2, <2>3 DEF SamePlace, OwningNow, OthersStay, Owning
    <2>6. Owner' = [Owner EXCEPT ![c] = "pool"]
      BY <2>2, <2>4, <2>5, OneMoves
    <2> QED BY <2>2, <2>4, <2>6 DEF Lease!GiveBack
  <1>21. ASSUME NEW t \in Threads, PutEvict(t)
        PROVE  [Lease!LeaseNext]_(Lease!leaseVars)
    <2>1. OthersStay(t) /\ pc'[t] = "putClose" /\ pc[t] = "put"
      BY <1>0, <1>21, SignalShape DEF PutEvict, Release, OthersStay, Places, Counted, Discarding
    <2> DEFINE c == have[t]
               r == <<c>> \o idle
               e == r[Len(r)]
    <2>2. /\ c \in Conns /\ c \notin Listed(idle) /\ ~closed
          /\ UNCHANGED <<cfg, closed, open>>
      BY <1>0, <1>21, <2>1 DEF PutEvict, Holding, Owned
    <2>3. Distinct(r) /\ Listed(r) = Listed(idle) \cup {c}
      BY <1>0, <2>2, ListedPush DEF Owned
    <2>4. r \in Seq(Conns) /\ Len(r) - 1 = Len(idle) /\ r # <<>>
      BY <1>0, <2>2, IdlePush
    <2>5. idle' = SubSeq(r, 1, Len(r) - 1) /\ have' = [have EXCEPT ![t] = e]
      BY <1>21, <2>4 DEF PutEvict
    <2> HIDE DEF r
    <2>6. Listed(idle') = Listed(r) \ {e} /\ e \in Listed(r)
      BY <2>3, <2>4, <2>5, ListedEnds
    <2> HIDE DEF e
    <2>7. Owner[c] = t
      BY <1>0, <2>1, <2>2 DEF OwnerFacts, OwningNow, Owning
    <2>8. e \in Conns /\ Owner'[e] = "dying"
      BY <1>0, <2>1, <2>2, <2>3, <2>5, <2>6 DEF OwnerFacts, OwningNow, OthersStay, Owning, Owned
    <2>9. \A d \in Conns \ {c, e} : SamePlace(d)
      BY <1>0, <2>1, <2>2, <2>3, <2>5, <2>6 DEF SamePlace, OwningNow, OthersStay, Owning
    <2>10. CASE e = c
      <3>1. Owner' = [Owner EXCEPT ![c] = "dying"]
        BY <2>2, <2>8, <2>9, <2>10, OneMoves
      <3> QED BY <2>2, <2>7, <3>1 DEF Lease!GiveBack
    <2>11. CASE e # c
      <3>1. Owner[e] = "pool" /\ Owner'[c] = "pool"
        BY <1>0, <2>2, <2>3, <2>6, <2>11 DEF OwnerFacts
      <3>2. \A d \in Conns \ {c, e} : Owner'[d] = Owner[d]
        BY <2>9, SameOwner
      <3>3. Owner' = [Owner EXCEPT ![c] = "pool", ![e] = "dying"]
        BY <2>2, <2>8, <2>11, <3>1, <3>2 DEF OwnerFacts
      <3> QED BY <2>2, <2>7, <2>8, <2>11, <3>1, <3>3 DEF Lease!GiveBack
    <2> QED BY <2>10, <2>11
  <1>22. ASSUME NEW t \in Threads, PutDrop(t)
        PROVE  [Lease!LeaseNext]_(Lease!leaseVars)
    <2>1. OthersStay(t) /\ pc'[t] = "putClose" /\ pc[t] = "put"
      BY <1>0, <1>22, SignalShape DEF PutDrop, Release, OthersStay, Places, Counted, Discarding
    <2> DEFINE c == have[t]
    <2>2. c \in Conns /\ UNCHANGED <<cfg, closed, idle, open, have>>
      BY <1>0, <1>22, <2>1 DEF PutDrop, Holding
    <2>3. Owner[c] = t /\ Owner'[c] = "dying"
      BY <1>0, <2>1, <2>2 DEF OwnerFacts, OwningNow, OthersStay, Owning, Owned
    <2>4. \A d \in Conns \ {c} : SamePlace(d)
      BY <1>0, <2>1, <2>2 DEF SamePlace, OwningNow, OthersStay, Owning
    <2>5. Owner' = [Owner EXCEPT ![c] = "dying"]
      BY <2>2, <2>3, <2>4, OneMoves
    <2> QED BY <2>2, <2>3, <2>5 DEF Lease!Discard
  <1>23. ASSUME NEW t \in Threads, PutClose(t)
        PROVE  [Lease!LeaseNext]_(Lease!leaseVars)
    <2>1. OthersStay(t) /\ pc'[t] = "out" /\ pc[t] = "putClose"
      BY <1>0, <1>23, GotoShape DEF PutClose, Release, OthersStay, Places, Counted, Discarding
    <2> DEFINE c == have[t]
    <2>2. /\ c \in Conns /\ UNCHANGED <<cfg, closed, idle>>
          /\ open' = open \ {c} /\ have' = [have EXCEPT ![t] = Nobody]
      BY <1>0, <1>23, <2>1 DEF PutClose, CloseHeld, Holding
    <2>3. Owner[c] = "dying" /\ Owner'[c] = "none"
      BY <1>0, <2>1, <2>2 DEF OwnerFacts, OwningNow, Owning, Owned
    <2>4. \A d \in Conns \ {c} : SamePlace(d)
      BY <1>0, <2>1, <2>2 DEF SamePlace, OwningNow, OthersStay, Owning
    <2>5. Owner' = [Owner EXCEPT ![c] = "none"]
      BY <2>2, <2>3, <2>4, OneMoves
    <2> QED BY <2>2, <2>3, <2>5 DEF Lease!Destroy
  <1>24. ASSUME ClosePool PROVE [Lease!LeaseNext]_(Lease!leaseVars)
    <2>1. /\ idle' = <<>> /\ closed' = TRUE /\ UNCHANGED <<cfg, open, have>>
          /\ \A u \in Threads : pc'[u] = pc[u] \/ (pc[u] = "wait" /\ pc'[u] = "woken")
      BY <1>0, <1>24 DEF ClosePool, Shape, WaitDiscipline
    <2>2. Listed(idle') = {}
      BY <2>1 DEF Listed
    <2>3. \A d \in Conns, u \in Threads : OwningNow(u, d)' <=> OwningNow(u, d)
      BY <2>1 DEF OwningNow, Owning
    <2>4. ASSUME NEW d \in Conns, d \in Listed(idle)
          PROVE  Owner[d] = "pool" /\ Owner'[d] = "dying"
      BY <1>0, <2>1, <2>2, <2>3, <2>4 DEF OwnerFacts, Owned, OwningNow
    <2>5. ASSUME NEW d \in Conns, d \notin Listed(idle)
          PROVE  Owner[d] # "pool" /\ Owner'[d] = Owner[d]
      <3>1. SamePlace(d)
        BY <2>1, <2>2, <2>3, <2>5 DEF SamePlace
      <3>2. Owner[d] \in Threads \cup {"dying", "none"}
        BY <1>0, <2>5 DEF OwnerFacts
      <3> QED BY <3>1, <3>2, SameOwner, OwnersAssumption
    <2>6. Owner' = [d \in Conns |-> IF Owner[d] = "pool" THEN "dying" ELSE Owner[d]]
      BY <2>4, <2>5 DEF OwnerFacts
    <2> QED BY <2>1, <2>6 DEF Lease!Shut
  <1>25. ASSUME CloseTaken PROVE [Lease!LeaseNext]_(Lease!leaseVars)
    <2>1. PICK c \in closing : closing' = closing \ {c} /\ open' = open \ {c}
      BY <1>25 DEF CloseTaken
    <2>2. UNCHANGED <<cfg, closed, idle, pc, have>> /\ c \in Conns
      BY <1>0, <1>25 DEF CloseTaken
    <2>3. Owner[c] = "dying" /\ Owner'[c] = "none"
      BY <1>0, <2>1, <2>2 DEF OwnerFacts, OwningNow, Owned
    <2>4. \A d \in Conns \ {c} : SamePlace(d)
      BY <2>1, <2>2 DEF SamePlace, OwningNow
    <2>5. Owner' = [Owner EXCEPT ![c] = "none"]
      BY <2>2, <2>3, <2>4, OneMoves
    <2> QED BY <2>2, <2>3, <2>5 DEF Lease!Destroy
  <1>26. ASSUME UNCHANGED vars PROVE [Lease!LeaseNext]_(Lease!leaseVars)
    <2>1. UNCHANGED <<cfg, closed, idle, open, have, pc>>
      BY <1>26 DEF vars
    <2> QED BY <2>1, Stays
  <1> QED
    BY <1>1, <1>2, <1>3, <1>4, <1>5, <1>6, <1>7, <1>8, <1>9, <1>10, <1>11, <1>12, <1>13, <1>14, <1>15, <1>16, <1>17, <1>18, <1>19, <1>20, <1>21, <1>22, <1>23, <1>24, <1>25, <1>26 DEF Next, Progress

LEMMA LeaseInitially ==
  ASSUME Init, IInv
  PROVE  Lease!LeaseInit
  <1>1. OwnerFacts
    BY OwnerIs
  <1>2. \A c \in Conns : Owner[c] = "none"
    BY <1>1 DEF OwnerFacts, Init
  <1>3. Owner = [c \in Conns |-> "none"]
    BY <1>1, <1>2 DEF OwnerFacts
  <1>4. cfg.MaxActive \in Nat
    BY ConfigAssumption DEF Init
  <1> QED BY <1>3, <1>4 DEF Lease!LeaseInit, Init

(* Every behaviour of the pool is a behaviour of the lease.                     *)
THEOREM PoolImplementsLease == Spec => ImplementsLease
  <1>1. IInv => OwnerFacts
    BY OwnerIs
  <1>2. Init => IInv /\ Lease!LeaseInit
    BY IInvInit, LeaseInitially
  <1>3. IInv /\ IInv' /\ OwnerFacts /\ OwnerFacts' /\ [Next]_vars
           => [Lease!LeaseNext]_(Lease!leaseVars)
    BY LeaseStep
  <1>4. Spec => []IInv
    BY PoolInvariant
  <1> QED BY <1>1, <1>2, <1>3, <1>4, PTL DEF Spec, ImplementsLease, Lease!LeaseSpec
==============================================================================
