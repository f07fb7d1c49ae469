--------------------------- MODULE ClientCallsProofs ---------------------------
(* Theorems about HostClient, its dialer and the calls on top of it, for every  *)
(* number of goroutines, connections, cleaners, channels and callers, and every *)
(* limit.                                                                       *)
EXTENDS ClientCalls, ClientHosts, FiniteSetTheorems, SequenceTheorems, TLAPS

-------------------------------------------------------------------------------
(* Lists without repetition, as the pooled connections and those of a cleaner:   *)
(* what is in them when elements are taken or added, or when they are cut.       *)

Members(s) == {s[i] : i \in 1..Len(s)}
Once(s) == \A i, j \in 1..Len(s) : s[i] = s[j] => i = j

LEMMA OnceEmpty == Once(<<>>) /\ Members(<<>>) = {}
  BY DEF Once, Members

LEMMA OnceHeadTail ==
  ASSUME NEW S, NEW s \in Seq(S), s # <<>>, Once(s)
  PROVE  /\ Head(s) \in S /\ Tail(s) \in Seq(S)
         /\ Once(Tail(s))
         /\ Members(Tail(s)) = Members(s) \ {Head(s)}
         /\ Head(s) \in Members(s)
  <1> DEFINE n == Len(s)
  <1>1. n \in Nat \ {0} /\ Head(s) = s[1] /\ Head(s) \in S /\ Tail(s) \in Seq(S)
    OBVIOUS
  <1>2. Len(Tail(s)) = n - 1 /\ \A i \in 1..n - 1 : Tail(s)[i] = s[i + 1]
    OBVIOUS
  <1> DEFINE r == Tail(s)
  <1> HIDE DEF r, n
  <1>3. \A i \in 1..n - 1 : i + 1 \in 1..n
    BY <1>1
  <1>4. Once(r)
    <2> SUFFICES ASSUME NEW i \in 1..n - 1, NEW j \in 1..n - 1, r[i] = r[j] PROVE i = j
      BY <1>2 DEF Once, r
    <2>1. s[i + 1] = s[j + 1]
      BY <1>2 DEF r
    <2>2. i + 1 = j + 1
      BY <2>1, <1>3 DEF Once, n
    <2> QED BY <2>2, <1>1
  <1>5. Members(r) = Members(s) \ {Head(s)}
    <2>1. ASSUME NEW x \in Members(r) PROVE x \in Members(s) \ {Head(s)}
      <3>1. PICK i \in 1..n - 1 : x = s[i + 1]
        BY <1>2 DEF Members, r
      <3>2. i + 1 \in 1..n /\ 1 \in 1..n /\ i + 1 # 1
        BY <1>1
      <3> QED BY <3>1, <3>2, <1>1 DEF Members, Once, n
    <2>2. ASSUME NEW x \in Members(s) \ {Head(s)} PROVE x \in Members(r)
      <3>1. PICK i \in 1..n : x = s[i]
        BY DEF Members, n
      <3>2. i - 1 \in 1..n - 1 /\ (i - 1) + 1 = i
        BY <3>1, <1>1
      <3> QED BY <3>1, <3>2, <1>2 DEF Members, r
    <2> QED BY <2>1, <2>2
  <1>6. Head(s) \in Members(s)
    BY <1>1 DEF Members, n
  <1> QED BY <1>1, <1>4, <1>5, <1>6 DEF r

LEMMA OnceSplit ==
  ASSUME NEW S, NEW s \in Seq(S), NEW k \in 0..Len(s), Once(s)
  PROVE  LET p == SubSeq(s, 1, k)
             q == SubSeq(s, k + 1, Len(s))
         IN  /\ p \in Seq(S) /\ q \in Seq(S)
             /\ Once(p) /\ Once(q)
             /\ Members(p) \cap Members(q) = {}
             /\ Members(p) \cup Members(q) = Members(s)
  <1> DEFINE p == SubSeq(s, 1, k)
             q == SubSeq(s, k + 1, Len(s))
             n == Len(s)
  <1>1. n \in Nat /\ k \in Nat /\ k <= n /\ \A i \in 1..n : s[i] \in S
    OBVIOUS
  <1>2. p \in Seq(S) /\ Len(p) = (IF 1 <= k THEN k - 1 + 1 ELSE 0)
        /\ \A i \in 1..k - 1 + 1 : p[i] = s[1 + i - 1]
    <2>1. \A i \in 1..k : s[i] \in S
      BY <1>1
    <2> HIDE DEF n
    <2> QED BY <2>1, <1>1, SubSeqProperties
  <1>3. q \in Seq(S) /\ Len(q) = (IF k + 1 <= n THEN n - (k + 1) + 1 ELSE 0)
        /\ \A i \in 1..n - (k + 1) + 1 : q[i] = s[k + 1 + i - 1]
    <2>1. \A i \in k + 1..n : s[i] \in S
      BY <1>1
    <2>2. k + 1 \in Int /\ n \in Int
      BY <1>1
    <2> QED BY <2>1, <2>2, SubSeqProperties
  <1> HIDE DEF p, q, n
  <1>4. Len(p) = k /\ \A i \in 1..k : p[i] = s[i]
    <2>1. k - 1 + 1 = k /\ (~(1 <= k) => k = 0) /\ \A i \in 1..k : 1 + i - 1 = i
      BY <1>1
    <2> QED BY <1>2, <2>1
  <1>5. Len(q) = n - k /\ \A i \in 1..n - k : q[i] = s[k + i]
    <2>1. n - (k + 1) + 1 = n - k /\ (~(k + 1 <= n) => n - k = 0) /\ \A i \in 1..n - k : k + 1 + i - 1 = k + i
      BY <1>1
    <2> QED BY <1>3, <2>1
  <1>6. \A i \in 1..n - k : k + i \in 1..n /\ k + i > k
    BY <1>1
  <1>7. \A i \in 1..k : i \in 1..n /\ i <= k
    BY <1>1
  <1>8. Once(p)
    <2> SUFFICES ASSUME NEW i \in 1..k, NEW j \in 1..k, p[i] = p[j] PROVE i = j
      BY <1>4 DEF Once
    <2> QED BY <1>4, <1>7 DEF Once, n
  <1>9. Once(q)
    <2> SUFFICES ASSUME NEW i \in 1..n - k, NEW j \in 1..n - k, q[i] = q[j] PROVE i = j
      BY <1>5 DEF Once
    <2>1. k + i = k + j
      BY <1>5, <1>6 DEF Once, n
    <2> QED BY <2>1, <1>1
  <1>10. Members(p) \cap Members(q) = {}
    <2> SUFFICES ASSUME NEW i \in 1..k, NEW j \in 1..n - k, p[i] = q[j] PROVE FALSE
      BY <1>4, <1>5 DEF Members
    <2>1. s[i] = s[k + j]
      BY <1>4, <1>5
    <2>2. i = k + j
      BY <2>1, <1>6, <1>7 DEF Once, n
    <2> QED BY <2>2, <1>1
  <1>11. Members(p) \cup Members(q) = Members(s)
    <2>1. ASSUME NEW x \in Members(s) PROVE x \in Members(p) \cup Members(q)
      <3>1. PICK i \in 1..n : x = s[i]
        BY DEF Members, n
      <3>2. CASE i <= k
        <4>1. i \in 1..k
          BY <3>2, <1>1
        <4> QED BY <4>1, <3>1, <1>4 DEF Members
      <3>3. CASE i > k
        <4>1. i - k \in 1..n - k /\ k + (i - k) = i
          BY <3>3, <1>1
        <4> QED BY <4>1, <3>1, <1>5 DEF Members
      <3> QED BY <3>2, <3>3, <1>1
    <2>2. Members(p) \subseteq Members(s)
      BY <1>4, <1>7 DEF Members, n
    <2>3. Members(q) \subseteq Members(s)
      BY <1>5, <1>6 DEF Members, n
    <2> QED BY <2>1, <2>2, <2>3
  <1> QED BY <1>2, <1>3, <1>8, <1>9, <1>10, <1>11 DEF p, q, n

LEMMA OnceLast ==
  ASSUME NEW S, NEW s \in Seq(S), s # <<>>, Once(s)
  PROVE  LET p == SubSeq(s, 1, Len(s) - 1)
         IN  /\ s[Len(s)] \in Members(s) /\ s[Len(s)] \in S
             /\ p \in Seq(S) /\ Once(p)
             /\ Members(p) = Members(s) \ {s[Len(s)]}
  <1> DEFINE p == SubSeq(s, 1, Len(s) - 1)
             n == Len(s)
             q == SubSeq(s, (n - 1) + 1, n)
  <1>1. n \in Nat \ {0} /\ s[n] \in S /\ \A i \in 1..n : s[i] \in S
    OBVIOUS
  <1>2. n - 1 \in 0..Len(s) /\ (n - 1) + 1 = n
    BY <1>1
  <1>3. /\ p \in Seq(S) /\ Once(p)
        /\ Members(p) \cap Members(q) = {}
        /\ Members(p) \cup Members(q) = Members(s)
    BY <1>2, OnceSplit
  <1>4. Len(q) = 1 /\ q[1] = s[n]
    <2>1. \A i \in n..n : s[i] \in S
      BY <1>1
    <2>2. /\ Len(SubSeq(s, n, n)) = (IF n <= n THEN n - n + 1 ELSE 0)
          /\ \A i \in 1..n - n + 1 : SubSeq(s, n, n)[i] = s[n + i - 1]
      BY <2>1, <1>1, SubSeqProperties
    <2> HIDE DEF n
    <2>3. n <= n /\ n - n + 1 = 1 /\ 1 \in 1..n - n + 1 /\ n + 1 - 1 = n
      BY <1>1
    <2> QED BY <2>2, <2>3, <1>2
  <1> HIDE DEF q, p, n
  <1>5. Members(q) = {s[n]}
    BY <1>4 DEF Members
  <1> QED BY <1>1, <1>3, <1>5 DEF p, n

LEMMA OnceAppend ==
  ASSUME NEW S, NEW s \in Seq(S), NEW x \in S, Once(s), x \notin Members(s)
  PROVE  /\ Append(s, x) \in Seq(S)
         /\ Once(Append(s, x))
         /\ Members(Append(s, x)) = Members(s) \cup {x}
  <1> DEFINE r == Append(s, x)
             n == Len(s)
  <1>1. /\ n \in Nat /\ r \in Seq(S) /\ Len(r) = n + 1
        /\ r[n + 1] = x /\ \A i \in 1..n : r[i] = s[i]
    OBVIOUS
  <1> HIDE DEF r, n
  <1>2. \A i \in 1..n + 1 : i \in 1..n \/ i = n + 1
    BY <1>1
  <1>3. \A i \in 1..n : r[i] \in Members(s) /\ i \in 1..n + 1
    BY <1>1 DEF Members, n
  <1>4. n + 1 \in 1..n + 1
    BY <1>1
  <1>5. Once(r)
    <2> SUFFICES ASSUME NEW i \in 1..n + 1, NEW j \in 1..n + 1, r[i] = r[j] PROVE i = j
      BY <1>1 DEF Once
    <2> QED BY <1>1, <1>2, <1>3 DEF Once, n
  <1>6. Members(r) = Members(s) \cup {x}
    BY <1>1, <1>2, <1>3, <1>4 DEF Members, n
  <1> QED BY <1>1, <1>5, <1>6 DEF r

-------------------------------------------------------------------------------
(* What the actions of HostClient are to the others: one of these, or nothing.  *)

Using(r) == rpc[r] \in {"write", "read"}

HostStep(r) ==
    \/ Begin(r) \/ AcquireIdle(r) \/ AcquireNew(r) \/ AcquireNone(r) \/ SpawnCleaner(r)
    \/ Dial(r) \/ DialFails(r) \/ WriteRequest(r)
    \/ Using(r) /\ \E retry \in BOOLEAN : Discard(r, retry)
    \/ ReadThenKeep(r) \/ CloseConn(r)

CleanerStep(k) == Scan(k) \/ SweepCount(k) \/ SweepClose(k) \/ Stop(k) \/ Sleep(k)

HostNext == (\E r \in Threads : HostStep(r)) \/ (\E k \in Cleaners : CleanerStep(k))

SettingOK == setting \in Settings

LEMMA SettingKept == Spec => []SettingOK
<1>1. CallsInit => SettingOK
    BY DEF CallsInit, SettingOK
<1>2. SettingOK /\ [Next]_allVars => SettingOK'
    <2> SUFFICES ASSUME SettingOK, [Next]_allVars PROVE setting' = setting
        BY DEF SettingOK
    <2>1. CASE UNCHANGED <<running, good, calls>>
        BY <2>1 DEF calls
    <2>2. ASSUME NEW r \in Threads, DoReturns(r) \/ Send(r) \/ Redirect(r) PROVE setting' = setting
        BY <2>2 DEF DoReturns, Send, Redirect, calls
    <2>3. ASSUME NEW u \in setting.callers, Caller(u) PROVE setting' = setting
        BY <2>3 DEF Caller, GetFirst, GetSecond, GetURL, DoDeadline, Start, CallOther, OtherEnds,
                    TooLate, Receive, TimesOut, Penalize, TakeBack
    <2>4. ASSUME NEW c \in Clients, PenaltyEnds(c) PROVE setting' = setting
        BY <2>4 DEF PenaltyEnds
    <2>5. CASE UNCHANGED allVars
        BY <2>5 DEF allVars, calls
    <2> QED BY <2>1, <2>2, <2>3, <2>4, <2>5 DEF Next
<1> QED BY <1>1, <1>2, PTL DEF Spec

\* Every step is one of the HostClient, or leaves it alone.
LEMMA HostSteps == SettingOK /\ [Next]_allVars => [HostNext]_vars
<1> SUFFICES ASSUME SettingOK, Next PROVE HostNext \/ UNCHANGED vars
    BY DEF allVars, hosts
<1>1. \A r \in setting.threads : r \in Threads
    BY CallAssumption DEF SettingOK
<1>2. ASSUME Hosts PROVE HostNext \/ UNCHANGED vars
    <2>1. ASSUME NEW r \in setting.threads, Call(r) PROVE HostNext
        BY <1>1, <2>1 DEF Call, HostNext, HostStep
    <2>2. ASSUME NEW r \in Threads, Work(r) PROVE HostNext \/ UNCHANGED vars
        <3>1. CASE Working(r) \/ ReadThenClose(r)
            BY <3>1 DEF Working, ReadThenClose, HostNext, HostStep, Using
        <3>2. CASE Dial(r) \/ DialFails(r) \/ ReadThenKeep(r)
            BY <3>2 DEF HostNext, HostStep
        <3>3. CASE WriteFails(r) \/ ReadFails(r)
            <4>1. ASSUME NEW again \in BOOLEAN, Using(r), Discard(r, again) PROVE HostNext
                BY <4>1 DEF HostNext, HostStep
            <4>2. Using(r) /\ (Discard(r, TRUE) \/ Discard(r, FALSE))
                BY <3>3 DEF WriteFails, ReadFails, Using, Discard, Go
            <4> QED BY <4>1, <4>2
        <3>4. CASE Dialing(r)
            <4>1. Dial(r) \/ DialFails(r) \/ UNCHANGED vars
                BY <3>4 DEF Dialing, LookUp, Resolve, ResolveFails, StartDial, TimeOut, Connected,
                            NextAddr, Unreachable
            <4> QED BY <4>1 DEF HostNext, HostStep
        <3> QED BY <2>2, <3>1, <3>2, <3>3, <3>4 DEF Work
    <2>3. ASSUME NEW k \in Cleaners, Clean(k) PROVE HostNext
        BY <2>3 DEF Clean, Cleaner, HostNext, CleanerStep
    <2>4. CASE Dialer
        BY <2>4 DEF Dialer, DialEnds, LeaveSlot, Age, TcpAddrsClean
    <2> QED BY <1>2, <2>1, <2>2, <2>3, <2>4 DEF Hosts
<1>3. ASSUME NEW r \in Threads, DoReturns(r) \/ Send(r) \/ Redirect(r) PROVE UNCHANGED vars
    BY <1>3 DEF DoReturns, Send, Redirect, hosts
<1>4. ASSUME NEW u \in setting.callers, Caller(u) PROVE UNCHANGED vars
    BY <1>4 DEF Caller, GetFirst, GetSecond, GetURL, DoDeadline, Start, CallOther, OtherEnds,
                TooLate, Receive, TimesOut, Penalize, TakeBack, hosts
<1>5. ASSUME NEW c \in Clients, PenaltyEnds(c) PROVE UNCHANGED vars
    BY <1>5 DEF PenaltyEnds, hosts
<1> QED BY <1>2, <1>3, <1>4, <1>5 DEF Next

-------------------------------------------------------------------------------
(* The HostClient: its inductive invariant                                      *)

AttemptsLeft == \A r \in Threads : rpc[r] # "close" => attempts[r] < MaxAttempts

Types == TypeOK /\ AttemptsLeft

Holding == {"write", "read", "close", "retry"}

\* A connection is with one call, in the pool or on the list of one cleaner.
Hands ==
    /\ \A r \in Threads : cc[r] # Nil <=> rpc[r] \in Holding
    /\ \A r, s \in Threads : cc[r] # Nil /\ cc[r] = cc[s] => r = s

Sweeping ==
    \A k \in Cleaners : /\ kpc[k] \in {"free", "scan"} => scratch[k] = <<>>
                        /\ kpc[k] = "close" => scratch[k] # <<>>

Apart ==
    /\ Once(conns) /\ \A k \in Cleaners : Once(scratch[k])
    /\ \A r \in Threads : cc[r] \notin Members(conns)
    /\ \A k \in Cleaners : Members(scratch[k]) \cap Members(conns) = {}
    /\ \A r \in Threads, k \in Cleaners : cc[r] \notin Members(scratch[k])
    /\ \A k, l \in Cleaners : k # l => Members(scratch[k]) \cap Members(scratch[l]) = {}

HostInv == Types /\ Hands /\ Sweeping /\ Apart /\ CountExact

LEMMA HostInit == CallsInit => HostInv
<1> SUFFICES ASSUME CallsInit PROVE HostInv
    OBVIOUS
<1>1. Init
    BY DEF CallsInit
<1>2. TypeOK
    <2>1. 0 \in 0..MaxConns /\ 0 \in 0..MaxAttempts /\ 0 \in Nat
        BY MaxAssumption
    <2>2. rpc \in [Threads -> Places] /\ kpc \in [Cleaners -> {"free", "scan", "sweep", "close"}]
        BY <1>1 DEF Init, Places
    <2>3. conns \in Seq(Wrappers) /\ scratch \in [Cleaners -> Seq(Wrappers)]
        BY <1>1 DEF Init
    <2> QED BY <1>1, <2>1, <2>2, <2>3 DEF Init, TypeOK
<1>3. AttemptsLeft
    BY <1>1, MaxAssumption DEF Init, AttemptsLeft
<1>4. Hands /\ Sweeping
    BY <1>1 DEF Init, Hands, Holding, Sweeping
<1>5. Apart
    BY <1>1, OnceEmpty DEF Init, Apart
<1>6. CountExact
    <2>1. Live = {}
        <3>1. At({"write", "read"}) = {} /\ ToSet(conns) = {} /\ \A k \in Cleaners : Unswept(k) = {}
            BY <1>1 DEF Init, At, ToSet, Unswept
        <3> QED BY <3>1 DEF Live
    <2>2. At({"spawn", "dial"}) = {}
        BY <1>1 DEF Init, At
    <2>3. Cardinality({}) = 0
        BY FS_EmptySet
    <2>4. connsCount = 0
        BY <1>1 DEF Init
    <2> QED BY <2>1, <2>2, <2>3, <2>4 DEF CountExact
<1> QED BY <1>2, <1>3, <1>4, <1>5, <1>6 DEF HostInv, Types

LEMMA AsMembers == ASSUME NEW S, NEW s \in Seq(S) PROVE ToSet(s) = Members(s)
BY DEF ToSet, Members

\* The sets that are counted are finite.
LEMMA Finite ==
    ASSUME TypeOK, Hands, Sweeping
    PROVE  /\ Live \subseteq Wrappers /\ IsFiniteSet(Live) /\ Cardinality(Live) \in Nat
           /\ \A P : IsFiniteSet(At(P)) /\ Cardinality(At(P)) \in Nat
<1>1. ASSUME NEW P PROVE IsFiniteSet(At(P)) /\ Cardinality(At(P)) \in Nat
    <2>1. At(P) \subseteq Threads
        BY DEF At
    <2> QED BY <2>1, FiniteAssumption, FS_Subset, FS_CardinalityType
<1>2. {cc[r] : r \in At({"write", "read"})} \subseteq Wrappers
    BY DEF At, Hands, Holding, TypeOK
<1>3. ToSet(conns) \subseteq Wrappers
    BY DEF TypeOK, ToSet
<1>4. \A k \in Cleaners : Unswept(k) \subseteq Wrappers
    <2> TAKE k \in Cleaners
    <2>1. scratch[k] \in Seq(Wrappers)
        BY DEF TypeOK
    <2>2. CASE kpc[k] = "close"
        <3>1. scratch[k] # <<>>
            BY <2>2 DEF Sweeping
        <3>2. Tail(scratch[k]) \in Seq(Wrappers)
            BY <2>1, <3>1
        <3> QED BY <2>2, <3>2 DEF Unswept, ToSet
    <2>3. CASE kpc[k] # "close"
        BY <2>1, <2>3 DEF Unswept, ToSet
    <2> QED BY <2>2, <2>3
<1>5. Live \subseteq Wrappers
    BY <1>2, <1>3, <1>4 DEF Live
<1> QED BY <1>1, <1>5, FiniteAssumption, FS_Subset, FS_CardinalityType

\* What is counted keeps the count above zero.
LEMMA Positive ==
    ASSUME TypeOK, Hands, Sweeping, CountExact
    PROVE  /\ \A r \in Threads : rpc[r] = "dial" \/ Using(r) => connsCount > 0
           /\ \A k \in Cleaners : kpc[k] = "sweep" /\ scratch[k] # <<>> => connsCount > 0
<1> DEFINE S == At({"spawn", "dial"})
<1>1. /\ IsFiniteSet(Live) /\ Cardinality(Live) \in Nat
      /\ IsFiniteSet(S) /\ Cardinality(S) \in Nat
      /\ connsCount = Cardinality(Live) + Cardinality(S)
    BY Finite DEF CountExact
<1>2. ASSUME Live # {} \/ S # {} PROVE connsCount > 0
    <2>1. Cardinality(Live) # 0 \/ Cardinality(S) # 0
        BY <1>1, <1>2, FS_EmptySet
    <2> HIDE DEF S
    <2> QED BY <1>1, <2>1
<1>3. ASSUME NEW r \in Threads, rpc[r] = "dial" PROVE S # {}
    BY <1>3 DEF At
<1>4. ASSUME NEW r \in Threads, Using(r) PROVE Live # {}
    BY <1>4 DEF Using, Live, At
<1>5. ASSUME NEW k \in Cleaners, kpc[k] = "sweep", scratch[k] # <<>> PROVE Live # {}
    <2>1. scratch[k] \in Seq(Wrappers) /\ 1 \in DOMAIN scratch[k]
        BY <1>5 DEF TypeOK
    <2>2. Unswept(k) # {}
        BY <1>5, <2>1 DEF Unswept, ToSet
    <2> QED BY <2>2 DEF Live
<1> QED BY <1>2, <1>3, <1>4, <1>5

-------------------------------------------------------------------------------
(* The HostClient: what a step does to the count                                *)

Slots == At({"spawn", "dial"})
Users == At({"write", "read"})
ToSweep == UNION {Unswept(k) : k \in Cleaners}

LEMMA CountIs ==
    /\ Live = {cc[r] : r \in Users} \cup ToSet(conns) \cup ToSweep
    /\ Live' = {cc'[r] : r \in Users'} \cup ToSet(conns') \cup ToSweep'
BY DEF CountExact, Live, Slots, Users, ToSweep

LEMMA LiveMoves ==
    ASSUME TypeOK, Hands, Sweeping, CountExact, NEW w, Slots' = Slots,
           \/ Live' = Live /\ connsCount' = connsCount
           \/ w \in Live /\ Live' = Live \ {w} /\ connsCount' = connsCount - 1
    PROVE  CountExact'
<1>1. /\ IsFiniteSet(Live) /\ Cardinality(Live) \in Nat
      /\ IsFiniteSet(Slots) /\ Cardinality(Slots) \in Nat
      /\ connsCount = Cardinality(Live) + Cardinality(Slots)
    BY Finite DEF CountExact, Slots
<1>2. Cardinality(Live') + Cardinality(Slots') = connsCount'
    <2>1. CASE Live' = Live /\ connsCount' = connsCount
        BY <1>1, <2>1
    <2>2. CASE w \in Live /\ Live' = Live \ {w} /\ connsCount' = connsCount - 1
        <3>1. Cardinality(Live') = Cardinality(Live) - 1
            BY <1>1, <2>2, FS_RemoveElement
        <3> QED BY <1>1, <2>2, <3>1
    <2> QED BY <2>1, <2>2
<1> QED BY <1>2 DEF CountExact, Slots

LEMMA SlotsMove ==
    ASSUME TypeOK, Hands, Sweeping, CountExact, NEW r, NEW w,
           \/ r \notin Slots /\ Slots' = Slots \cup {r} /\ Live' = Live /\ connsCount' = connsCount + 1
           \/ r \in Slots /\ Slots' = Slots \ {r} /\ Live' = Live /\ connsCount' = connsCount - 1
           \/ /\ r \in Slots /\ Slots' = Slots \ {r}
              /\ w \notin Live /\ Live' = Live \cup {w} /\ connsCount' = connsCount
    PROVE  CountExact'
<1>1. /\ IsFiniteSet(Live) /\ Cardinality(Live) \in Nat
      /\ IsFiniteSet(Slots) /\ Cardinality(Slots) \in Nat
      /\ connsCount = Cardinality(Live) + Cardinality(Slots)
    BY Finite DEF CountExact, Slots
<1>2. r \notin Slots => Cardinality(Slots \cup {r}) = Cardinality(Slots) + 1
    BY <1>1, FS_AddElement
<1>3. r \in Slots => Cardinality(Slots \ {r}) = Cardinality(Slots) - 1
    BY <1>1, FS_RemoveElement
<1>4. w \notin Live => Cardinality(Live \cup {w}) = Cardinality(Live) + 1
    BY <1>1, FS_AddElement
<1>5. connsCount' = Cardinality(Live') + Cardinality(Slots')
    <2>1. CASE r \notin Slots /\ Slots' = Slots \cup {r} /\ Live' = Live /\ connsCount' = connsCount + 1
        BY <1>1, <1>2, <2>1
    <2>2. CASE r \in Slots /\ Slots' = Slots \ {r} /\ Live' = Live /\ connsCount' = connsCount - 1
        BY <1>1, <1>3, <2>2
    <2>3. CASE /\ r \in Slots /\ Slots' = Slots \ {r}
               /\ w \notin Live /\ Live' = Live \cup {w} /\ connsCount' = connsCount
        BY <1>1, <1>3, <1>4, <2>3
    <2> QED BY <2>1, <2>2, <2>3
<1> QED BY <1>5 DEF CountExact, Slots

\* A step of one call that leaves the pool and the cleaners alone.
LEMMA CallMoves ==
    ASSUME TypeOK, NEW r \in Threads, NEW p \in Places, rpc' = [rpc EXCEPT ![r] = p]
    PROVE  /\ Slots' = IF p \in {"spawn", "dial"} THEN Slots \cup {r} ELSE Slots \ {r}
           /\ Users' = IF p \in {"write", "read"} THEN Users \cup {r} ELSE Users \ {r}
           /\ r \in Slots <=> rpc[r] \in {"spawn", "dial"}
           /\ r \in Users <=> Using(r)
BY DEF Slots, Users, At, TypeOK, Using

LEMMA SweptStays ==
    ASSUME UNCHANGED <<scratch, kpc>>
    PROVE  ToSweep' = ToSweep
BY DEF ToSweep, Unswept

\* What a cleaner has still to subtract.
LEMMA UnsweptIs ==
    ASSUME TypeOK, Sweeping, Apart, NEW k \in Cleaners
    PROVE  /\ kpc[k] # "close" => Unswept(k) = Members(scratch[k])
           /\ kpc[k] = "close" => Unswept(k) = Members(scratch[k]) \ {Head(scratch[k])}
           /\ Unswept(k) \subseteq ToSet(scratch[k])
<1>1. scratch[k] \in Seq(Wrappers) /\ ToSet(scratch[k]) = Members(scratch[k])
    <2>1. scratch[k] \in Seq(Wrappers)
        BY DEF TypeOK
    <2> QED BY <2>1, AsMembers
<1>2. CASE kpc[k] = "close"
    <2>1. scratch[k] # <<>> /\ Once(scratch[k])
        BY <1>2 DEF Sweeping, Apart
    <2>2. Tail(scratch[k]) \in Seq(Wrappers) /\ Members(Tail(scratch[k])) = Members(scratch[k]) \ {Head(scratch[k])}
        BY <1>1, <2>1, OnceHeadTail
    <2>3. ToSet(Tail(scratch[k])) = Members(Tail(scratch[k]))
        BY <2>2, AsMembers
    <2> QED BY <1>1, <1>2, <2>2, <2>3 DEF Unswept
<1>3. CASE kpc[k] # "close"
    BY <1>1, <1>3 DEF Unswept
<1> QED BY <1>2, <1>3

-------------------------------------------------------------------------------
(* The HostClient: its steps                                                    *)

\* A call moves on, with no connection before and after.
LEMMA NoConnStep ==
    ASSUME HostInv, NEW r \in Threads, NEW p \in {"idle", "acquire"},
           rpc[r] \in {"idle", "acquire"}, Go(r, p),
           attempts' = attempts \/ attempts' = [attempts EXCEPT ![r] = 0],
           UNCHANGED <<pool, wrappers, cc, cleaning>>
    PROVE  HostInv'
<1>0. UNCHANGED <<connsCount, conns, connsCleanerRun, stamped, armed, cc, kpc, scratch, seen>>
    BY DEF pool, wrappers, cleaning
<1>1. TypeOK'
    <2>1. rpc' \in [Threads -> Places]
        BY DEF HostInv, Types, TypeOK, Go, Places
    <2>2. attempts' \in [Threads -> 0..MaxAttempts]
        <3>1. 0 \in 0..MaxAttempts
            BY MaxAssumption
        <3> QED BY <3>1 DEF HostInv, Types, TypeOK
    <2> QED BY <1>0, <2>1, <2>2 DEF HostInv, Types, TypeOK
<1>2. AttemptsLeft'
    BY <1>0, MaxAssumption DEF HostInv, Types, TypeOK, AttemptsLeft, Go
<1>3. Hands' /\ Sweeping' /\ Apart'
    BY <1>0 DEF HostInv, Types, TypeOK, Hands, Holding, Sweeping, Apart, Go
<1>4. CountExact'
    <2>1. Slots' = Slots /\ Users' = Users
        <3>1. TypeOK /\ p \in Places /\ rpc' = [rpc EXCEPT ![r] = p]
            BY DEF HostInv, Types, Go, Places
        <3>2. ~Using(r) /\ rpc[r] \notin {"spawn", "dial"} /\ p \notin {"spawn", "dial", "write", "read"}
            BY DEF Using
        <3>3. /\ Slots' = Slots \ {r} /\ Users' = Users \ {r}
              /\ r \notin Slots /\ r \notin Users
            BY <3>1, <3>2, CallMoves
        <3> QED BY <3>3
    <2>2. Live' = Live
        BY <1>0, <2>1, CountIs, SweptStays
    <2> QED BY <1>0, <2>1, <2>2, LiveMoves DEF HostInv, Types
<1> QED BY <1>1, <1>2, <1>3, <1>4 DEF HostInv, Types

LEMMA BackOf ==
    ASSUME NEW s \in Seq(Wrappers), s # <<>>, Once(s)
    PROVE  /\ Last(s) \in Members(s) /\ Last(s) \in Wrappers
           /\ Front(s) \in Seq(Wrappers) /\ Once(Front(s))
           /\ Members(Front(s)) = Members(s) \ {Last(s)}
           /\ Len(s) \in Nat \ {0}
BY OnceLast DEF Last, Front

LEMMA AcquireIdleStep ==
    ASSUME HostInv, NEW r \in Threads, AcquireIdle(r)
    PROVE  HostInv'
<1>0. /\ rpc[r] = "acquire" /\ conns # <<>> /\ rpc' = [rpc EXCEPT ![r] = "write"]
      /\ cc' = [cc EXCEPT ![r] = Last(conns)] /\ conns' = Front(conns)
      /\ UNCHANGED <<connsCount, connsCleanerRun, stamped, armed, attempts, kpc, scratch>>
    BY DEF AcquireIdle, Go, wrappers
<1>1. /\ conns \in Seq(Wrappers) /\ Once(conns) /\ rpc \in [Threads -> Places]
      /\ cc \in [Threads -> Wrappers \cup {Nil}] /\ seen \in [Cleaners -> Nat]
    BY DEF HostInv, Types, TypeOK, Apart
<1>2. /\ Last(conns) \in Members(conns) /\ Last(conns) \in Wrappers /\ Last(conns) # Nil
      /\ conns' \in Seq(Wrappers) /\ Once(conns')
      /\ Members(conns') = Members(conns) \ {Last(conns)} /\ Len(conns) \in Nat \ {0}
    BY <1>0, <1>1, BackOf, NilAssumption
<1>3. cc[r] = Nil
    BY <1>0 DEF HostInv, Hands, Holding
<1>4. TypeOK'
    <2>1. seen' \in [Cleaners -> Nat]
        BY <1>1, <1>2 DEF AcquireIdle
    <2> QED BY <1>0, <1>1, <1>2, <2>1 DEF HostInv, Types, TypeOK, Places
<1>5. AttemptsLeft'
    BY <1>0, <1>1 DEF HostInv, Types, AttemptsLeft
<1>6. Hands'
    BY <1>0, <1>1, <1>2, <1>3 DEF HostInv, Hands, Holding, Apart
<1>7. Sweeping'
    BY <1>0 DEF HostInv, Sweeping
<1>8. Apart'
    BY <1>0, <1>1, <1>2 DEF HostInv, Apart
<1>9. CountExact'
    <2>1. Slots' = Slots /\ Users' = Users \cup {r} /\ r \notin Users
        <3>1. TypeOK
            BY DEF HostInv, Types
        <3>2. "write" \in Places
            BY DEF Places
        <3>3. ~Using(r) /\ rpc[r] \notin {"spawn", "dial"}
            BY <1>0 DEF Using
        <3>4. /\ Slots' = Slots \ {r} /\ Users' = Users \cup {r}
              /\ r \notin Slots /\ r \notin Users
            BY <1>0, <3>1, <3>2, <3>3, CallMoves
        <3> QED BY <3>4
    <2>2. Live' = Live
        <3>1. ToSet(conns) = Members(conns) /\ ToSet(conns') = Members(conns')
            BY <1>1, <1>2, AsMembers
        <3>2. {cc'[t] : t \in Users'} = {cc[t] : t \in Users} \cup {Last(conns)}
            BY <1>0, <1>1, <2>1 DEF Users, At
        <3> QED BY <1>0, <1>2, <3>1, <3>2, CountIs, SweptStays
    <2> QED BY <1>0, <2>1, <2>2, LiveMoves DEF HostInv, Types
<1> QED BY <1>4, <1>5, <1>6, <1>7, <1>8, <1>9 DEF HostInv, Types

\* The slots of a host: taken, and lost with the dial.
LEMMA AcquireNewStep ==
    ASSUME HostInv, NEW r \in Threads, AcquireNew(r)
    PROVE  HostInv'
<1>0. /\ rpc[r] = "acquire" /\ connsCount < MaxConns /\ connsCount' = connsCount + 1
      /\ rpc' = [rpc EXCEPT ![r] = IF connsCleanerRun THEN "dial" ELSE "spawn"]
      /\ connsCleanerRun' = TRUE
      /\ UNCHANGED <<conns, stamped, armed, cc, attempts, kpc, scratch, seen>>
    BY DEF AcquireNew, Go, wrappers, cleaning
<1>1. TypeOK'
    BY <1>0, MaxAssumption DEF HostInv, Types, TypeOK, Places
<1>2. AttemptsLeft'
    BY <1>0 DEF HostInv, Types, TypeOK, AttemptsLeft
<1>3. Hands' /\ Sweeping' /\ Apart'
    BY <1>0 DEF HostInv, Types, TypeOK, Hands, Holding, Sweeping, Apart
<1>4. CountExact'
    <2>1. r \notin Slots /\ Slots' = Slots \cup {r} /\ Users' = Users
        <3>1. TypeOK /\ "dial" \in Places /\ "spawn" \in Places
            BY DEF HostInv, Types, Places
        <3>2. ~Using(r) /\ rpc[r] \notin {"spawn", "dial"}
            BY <1>0 DEF Using
        <3>3. PICK p \in {"spawn", "dial"} : rpc' = [rpc EXCEPT ![r] = p]
            BY <1>0
        <3>4. p \in Places /\ p \notin {"write", "read"}
            BY <3>1
        <3>5. /\ Slots' = Slots \cup {r} /\ Users' = Users \ {r}
              /\ r \notin Slots /\ r \notin Users
            BY <3>1, <3>2, <3>3, <3>4, CallMoves
        <3> QED BY <3>5
    <2>2. Live' = Live
        BY <1>0, <2>1, CountIs, SweptStays
    <2> QED BY <1>0, <2>1, <2>2, SlotsMove DEF HostInv, Types
<1> QED BY <1>1, <1>2, <1>3, <1>4 DEF HostInv, Types

LEMMA SpawnCleanerStep ==
    ASSUME HostInv, NEW r \in Threads, SpawnCleaner(r)
    PROVE  HostInv'
<1>0. PICK k \in Cleaners :
          /\ rpc[r] = "spawn" /\ rpc' = [rpc EXCEPT ![r] = "dial"]
          /\ kpc[k] = "free" /\ kpc' = [kpc EXCEPT ![k] = "scan"] /\ seen' = [seen EXCEPT ![k] = 0]
          /\ UNCHANGED <<connsCount, conns, connsCleanerRun, stamped, armed, cc, attempts, scratch>>
    BY DEF SpawnCleaner, Go, pool, wrappers
<1>1. TypeOK'
    BY <1>0 DEF HostInv, Types, TypeOK, Places
<1>2. AttemptsLeft'
    BY <1>0 DEF HostInv, Types, TypeOK, AttemptsLeft
<1>3. Hands' /\ Sweeping' /\ Apart'
    BY <1>0 DEF HostInv, Types, TypeOK, Hands, Holding, Sweeping, Apart
<1>4. CountExact'
    <2>1. Slots' = Slots /\ Users' = Users
        <3>1. TypeOK /\ "dial" \in Places
            BY DEF HostInv, Types, Places
        <3>2. ~Using(r) /\ rpc[r] \in {"spawn", "dial"}
            BY <1>0 DEF Using
        <3>3. /\ Slots' = Slots \cup {r} /\ Users' = Users \ {r}
              /\ r \in Slots /\ r \notin Users
            BY <1>0, <3>1, <3>2, CallMoves
        <3> QED BY <3>3
    <2>2. ToSweep' = ToSweep
        BY <1>0 DEF ToSweep, Unswept, HostInv, Types, TypeOK
    <2>3. Live' = Live
        BY <1>0, <2>1, <2>2, CountIs
    <2> QED BY <1>0, <2>1, <2>3, LiveMoves DEF HostInv, Types
<1> QED BY <1>1, <1>2, <1>3, <1>4 DEF HostInv, Types

\* The socket is there: the slot becomes a connection.
LEMMA DialStep ==
    ASSUME HostInv, NEW r \in Threads, Dial(r)
    PROVE  HostInv'
<1>0. PICK w \in Wrappers :
          /\ rpc[r] = "dial" /\ rpc' = [rpc EXCEPT ![r] = "write"]
          /\ Free(w) /\ cc' = [cc EXCEPT ![r] = w]
          /\ UNCHANGED <<connsCount, conns, connsCleanerRun, stamped, armed, attempts, kpc, scratch, seen>>
    BY DEF Dial, Pooled, Go, pool, wrappers, cleaning
<1>1. /\ conns \in Seq(Wrappers) /\ scratch \in [Cleaners -> Seq(Wrappers)]
      /\ rpc \in [Threads -> Places] /\ cc \in [Threads -> Wrappers \cup {Nil}] /\ w # Nil
    BY NilAssumption DEF HostInv, Types, TypeOK
<1>2. /\ \A t \in Threads : cc[t] # w
      /\ w \notin Members(conns) /\ w \notin ToSet(conns)
      /\ \A k \in Cleaners : w \notin Members(scratch[k]) /\ w \notin ToSet(scratch[k])
    <2>1. ToSet(conns) = Members(conns) /\ \A k \in Cleaners : ToSet(scratch[k]) = Members(scratch[k])
        BY <1>1, AsMembers
    <2> QED BY <1>0, <2>1 DEF Free
<1>3. cc[r] = Nil
    BY <1>0 DEF HostInv, Hands, Holding
<1>4. TypeOK'
    BY <1>0, <1>1 DEF HostInv, Types, TypeOK, Places
<1>5. AttemptsLeft'
    BY <1>0, <1>1 DEF HostInv, Types, AttemptsLeft
<1>6. Hands'
    BY <1>0, <1>1, <1>2, <1>3 DEF HostInv, Hands, Holding
<1>7. Sweeping'
    BY <1>0 DEF HostInv, Sweeping
<1>8. Apart'
    BY <1>0, <1>1, <1>2 DEF HostInv, Apart
<1>9. CountExact'
    <2>1. Slots' = Slots \ {r} /\ Users' = Users \cup {r} /\ r \in Slots /\ r \notin Users
        <3>1. TypeOK /\ "write" \in Places
            BY DEF HostInv, Types, Places
        <3>2. ~Using(r) /\ rpc[r] \in {"spawn", "dial"}
            BY <1>0 DEF Using
        <3> QED BY <1>0, <3>1, <3>2, CallMoves
    <2>2. w \notin Live
        <3>1. \A k \in Cleaners : Unswept(k) \subseteq ToSet(scratch[k])
            BY UnsweptIs DEF HostInv, Types
        <3> QED BY <1>2, <3>1, CountIs DEF Users, At, ToSweep
    <2>3. Live' = Live \cup {w}
        <3>1. {cc'[t] : t \in Users'} = {cc[t] : t \in Users} \cup {w}
            BY <1>0, <1>1, <2>1 DEF Users, At
        <3> QED BY <1>0, <3>1, CountIs, SweptStays
    <2> QED BY <1>0, <2>1, <2>2, <2>3, SlotsMove DEF HostInv, Types
<1> QED BY <1>4, <1>5, <1>6, <1>7, <1>8, <1>9 DEF HostInv, Types

LEMMA DialFailsStep ==
    ASSUME HostInv, NEW r \in Threads, DialFails(r)
    PROVE  HostInv'
<1>0. /\ rpc[r] = "dial" /\ rpc' = [rpc EXCEPT ![r] = "idle"] /\ connsCount' = connsCount - 1
      /\ attempts' = [attempts EXCEPT ![r] = 0]
      /\ UNCHANGED <<conns, connsCleanerRun, stamped, armed, cc, kpc, scratch, seen>>
    BY DEF DialFails, Return, Go, wrappers, cleaning
<1>1. TypeOK'
    <2>1. 0 \in 0..MaxAttempts
        BY MaxAssumption
    <2>2. connsCount > 0
        BY <1>0, Positive DEF HostInv, Types
    <2>3. connsCount' \in 0..MaxConns
        BY <1>0, <2>2, MaxAssumption DEF HostInv, Types, TypeOK
    <2> QED BY <1>0, <2>1, <2>3 DEF HostInv, Types, TypeOK, Places
<1>2. AttemptsLeft'
    BY <1>0, MaxAssumption DEF HostInv, Types, TypeOK, AttemptsLeft
<1>3. Hands' /\ Sweeping' /\ Apart'
    BY <1>0 DEF HostInv, Types, TypeOK, Hands, Holding, Sweeping, Apart
<1>4. CountExact'
    <2>1. r \in Slots /\ Slots' = Slots \ {r} /\ Users' = Users
        <3>1. TypeOK /\ "idle" \in Places
            BY DEF HostInv, Types, Places
        <3>2. ~Using(r) /\ rpc[r] \in {"spawn", "dial"}
            BY <1>0 DEF Using
        <3>3. /\ Slots' = Slots \ {r} /\ Users' = Users \ {r}
              /\ r \in Slots /\ r \notin Users
            BY <1>0, <3>1, <3>2, CallMoves
        <3> QED BY <3>3
    <2>2. Live' = Live
        BY <1>0, <2>1, CountIs, SweptStays
    <2> QED BY <1>0, <2>1, <2>2, SlotsMove DEF HostInv, Types
<1> QED BY <1>1, <1>2, <1>3, <1>4 DEF HostInv, Types

\* The use of a connection: written to, given up, or given back.
LEMMA WriteStep ==
    ASSUME HostInv, NEW r \in Threads, WriteRequest(r)
    PROVE  HostInv'
<1>0. /\ rpc[r] = "write" /\ rpc' = [rpc EXCEPT ![r] = "read"]
      /\ \/ stamped' = stamped \cup {cc[r]} /\ armed' = armed \cup {cc[r]}
         \/ stamped' = stamped /\ armed' = armed
      /\ UNCHANGED <<connsCount, conns, connsCleanerRun, cc, attempts, kpc, scratch, seen>>
    BY DEF WriteRequest, Go, pool, wrappers, cleaning
<1>1. cc[r] \in Wrappers
    BY <1>0 DEF HostInv, Types, TypeOK, Hands, Holding
<1>2. TypeOK'
    <2>1. stamped' \subseteq Wrappers /\ armed' \subseteq stamped'
        BY <1>0, <1>1 DEF HostInv, Types, TypeOK
    <2>2. rpc' \in [Threads -> Places]
        BY <1>0 DEF HostInv, Types, TypeOK, Places
    <2> QED BY <1>0, <2>1, <2>2 DEF HostInv, Types, TypeOK
<1>3. AttemptsLeft'
    BY <1>0 DEF HostInv, Types, TypeOK, AttemptsLeft
<1>4. Hands' /\ Sweeping' /\ Apart'
    BY <1>0 DEF HostInv, Types, TypeOK, Hands, Holding, Sweeping, Apart
<1>5. CountExact'
    <2>1. Slots' = Slots /\ Users' = Users
        <3>1. TypeOK /\ "read" \in Places
            BY DEF HostInv, Types, Places
        <3>2. Using(r) /\ rpc[r] \notin {"spawn", "dial"}
            BY <1>0 DEF Using
        <3>3. /\ Slots' = Slots \ {r} /\ Users' = Users \cup {r}
              /\ r \notin Slots /\ r \in Users
            BY <1>0, <3>1, <3>2, CallMoves
        <3> QED BY <3>3
    <2>2. Live' = Live
        BY <1>0, <2>1, CountIs, SweptStays
    <2> QED BY <1>0, <2>1, <2>2, LiveMoves DEF HostInv, Types
<1> QED BY <1>2, <1>3, <1>4, <1>5 DEF HostInv, Types

LEMMA DiscardStep ==
    ASSUME HostInv, NEW r \in Threads, Using(r), NEW retry \in BOOLEAN, Discard(r, retry)
    PROVE  HostInv'
<1>0. /\ connsCount' = connsCount - 1
      /\ UNCHANGED <<conns, connsCleanerRun, stamped, armed, cc, kpc, scratch, seen>>
    BY DEF Discard, wrappers, cleaning
<1>1. /\ attempts \in [Threads -> 0..MaxAttempts] /\ attempts[r] < MaxAttempts
      /\ rpc \in [Threads -> Places]
    BY DEF HostInv, Types, TypeOK, AttemptsLeft, Using
<1>2. PICK p \in {"close", "retry"} :
          /\ rpc' = [rpc EXCEPT ![r] = p] /\ attempts' \in [Threads -> 0..MaxAttempts]
          /\ \A t \in Threads \ {r} : attempts'[t] = attempts[t]
          /\ p = "retry" => attempts'[r] < MaxAttempts
    <2>1. CASE retry
        <3>1. attempts' = [attempts EXCEPT ![r] = attempts[r] + 1]
            BY <2>1 DEF Discard
        <3>2. attempts[r] + 1 \in 0..MaxAttempts
            BY <1>1, MaxAssumption
        <3>3. attempts' \in [Threads -> 0..MaxAttempts] /\ \A t \in Threads \ {r} : attempts'[t] = attempts[t]
            BY <1>1, <3>1, <3>2
        <3>4. rpc' = [rpc EXCEPT ![r] = IF attempts'[r] < MaxAttempts THEN "retry" ELSE "close"]
            BY <2>1 DEF Discard, Go
        <3>5. CASE attempts'[r] < MaxAttempts
            BY <3>3, <3>4, <3>5
        <3>6. CASE ~(attempts'[r] < MaxAttempts)
            BY <3>3, <3>4, <3>6
        <3> QED BY <3>5, <3>6
    <2>2. CASE ~retry
        <3>1. attempts' = attempts /\ rpc' = [rpc EXCEPT ![r] = "close"]
            BY <1>1, <2>2 DEF Discard, Go
        <3> QED BY <1>1, <3>1
    <2> QED BY <2>1, <2>2
<1>3. /\ cc[r] \in Wrappers /\ cc[r] # Nil /\ cc[r] \notin Members(conns)
      /\ \A k \in Cleaners : cc[r] \notin Members(scratch[k])
      /\ \A t \in Threads : cc[t] = cc[r] => t = r
    BY DEF HostInv, Types, TypeOK, Hands, Holding, Apart, Using
<1>4. TypeOK'
    <2>1. connsCount > 0
        BY Positive DEF HostInv, Types
    <2>2. connsCount' \in 0..MaxConns
        BY <1>0, <2>1, MaxAssumption DEF HostInv, Types, TypeOK
    <2>3. rpc' \in [Threads -> Places]
        BY <1>1, <1>2 DEF Places
    <2> QED BY <1>0, <1>2, <2>2, <2>3 DEF HostInv, Types, TypeOK
<1>5. AttemptsLeft'
    BY <1>1, <1>2 DEF HostInv, Types, AttemptsLeft
<1>6. Hands'
    BY <1>0, <1>1, <1>2 DEF HostInv, Hands, Holding, Using
<1>7. Sweeping' /\ Apart'
    BY <1>0 DEF HostInv, Sweeping, Apart
<1>8. CountExact'
    <2>1. Slots' = Slots /\ Users' = Users \ {r} /\ r \in Users
        <3>1. TypeOK /\ p \in Places /\ p \notin {"write", "read", "spawn", "dial"}
            BY DEF HostInv, Types, Places
        <3>2. Using(r) /\ rpc[r] \notin {"spawn", "dial"}
            BY DEF Using
        <3>3. /\ Slots' = Slots \ {r} /\ Users' = Users \ {r}
              /\ r \notin Slots /\ r \in Users
            BY <1>2, <3>1, <3>2, CallMoves
        <3> QED BY <3>3
    <2>2. cc[r] \in Live /\ Live' = Live \ {cc[r]}
        <3>1. cc[r] \notin ToSet(conns) /\ cc[r] \notin ToSweep
            <4>1. /\ conns \in Seq(Wrappers) /\ scratch \in [Cleaners -> Seq(Wrappers)]
                BY DEF HostInv, Types, TypeOK
            <4>2. ToSet(conns) = Members(conns) /\ \A k \in Cleaners : ToSet(scratch[k]) = Members(scratch[k])
                BY <4>1, AsMembers
            <4>3. \A k \in Cleaners : Unswept(k) \subseteq ToSet(scratch[k])
                BY UnsweptIs DEF HostInv, Types
            <4> QED BY <1>3, <4>2, <4>3 DEF ToSweep
        <3>2. {cc'[t] : t \in Users'} = {cc[t] : t \in Users} \ {cc[r]}
            BY <1>0, <1>3, <2>1 DEF Users, At
        <3> QED BY <1>0, <2>1, <3>1, <3>2, CountIs, SweptStays
    <2> QED BY <1>0, <2>1, <2>2, LiveMoves DEF HostInv, Types
<1> QED BY <1>4, <1>5, <1>6, <1>7, <1>8 DEF HostInv, Types

LEMMA KeepStep ==
    ASSUME HostInv, NEW r \in Threads, ReadThenKeep(r)
    PROVE  HostInv'
<1>0. /\ rpc[r] = "read" /\ rpc' = [rpc EXCEPT ![r] = "idle"] /\ attempts' = [attempts EXCEPT ![r] = 0]
      /\ conns' = Append(conns, cc[r]) /\ cc' = [cc EXCEPT ![r] = Nil]
      /\ UNCHANGED <<connsCount, connsCleanerRun, stamped, armed, kpc, scratch, seen>>
    BY DEF ReadThenKeep, Return, Go, wrappers, cleaning
<1>1. /\ conns \in Seq(Wrappers) /\ Once(conns) /\ rpc \in [Threads -> Places]
      /\ cc \in [Threads -> Wrappers \cup {Nil}] /\ cc[r] \in Wrappers /\ cc[r] # Nil
      /\ \A t \in Threads : cc[t] = cc[r] => t = r
      /\ cc[r] \notin Members(conns) /\ \A k \in Cleaners : cc[r] \notin Members(scratch[k])
    BY <1>0 DEF HostInv, Types, TypeOK, Hands, Holding, Apart
<1>2. conns' \in Seq(Wrappers) /\ Once(conns') /\ Members(conns') = Members(conns) \cup {cc[r]}
    BY <1>0, <1>1, OnceAppend
<1>3. TypeOK'
    <2>1. 0 \in 0..MaxAttempts
        BY MaxAssumption
    <2> QED BY <1>0, <1>2, <2>1 DEF HostInv, Types, TypeOK, Places
<1>4. AttemptsLeft'
    BY <1>0, MaxAssumption DEF HostInv, Types, TypeOK, AttemptsLeft
<1>5. Hands'
    BY <1>0, <1>1 DEF HostInv, Hands, Holding
<1>6. Sweeping'
    BY <1>0 DEF HostInv, Sweeping
<1>7. Apart'
    <2>1. Nil \notin Members(conns') /\ \A k \in Cleaners : Nil \notin Members(scratch[k])
        BY <1>0, <1>2, NilAssumption DEF HostInv, Types, TypeOK, Members
    <2> QED BY <1>0, <1>1, <1>2, <2>1 DEF HostInv, Apart
<1>8. CountExact'
    <2>1. Slots' = Slots /\ Users' = Users \ {r} /\ r \in Users
        <3>1. TypeOK /\ "idle" \in Places
            BY DEF HostInv, Types, Places
        <3>2. Using(r) /\ rpc[r] \notin {"spawn", "dial"}
            BY <1>0 DEF Using
        <3>3. /\ Slots' = Slots \ {r} /\ Users' = Users \ {r}
              /\ r \notin Slots /\ r \in Users
            BY <1>0, <3>1, <3>2, CallMoves
        <3> QED BY <3>3
    <2>2. Live' = Live
        <3>1. ToSet(conns) = Members(conns) /\ ToSet(conns') = Members(conns')
            BY <1>1, <1>2, AsMembers
        <3>2. {cc[t] : t \in Users} = {cc'[t] : t \in Users'} \cup {cc[r]}
            BY <1>0, <1>1, <2>1 DEF Users, At
        <3>3. ToSweep' = ToSweep
            BY <1>0, SweptStays
        <3>4. ToSet(conns') = ToSet(conns) \cup {cc[r]}
            BY <1>2, <3>1
        <3> QED BY <3>2, <3>3, <3>4, CountIs
    <2> QED BY <1>0, <2>1, <2>2, LiveMoves DEF HostInv, Types
<1> QED BY <1>3, <1>4, <1>5, <1>6, <1>7, <1>8 DEF HostInv, Types

LEMMA CloseStep ==
    ASSUME HostInv, NEW r \in Threads, CloseConn(r)
    PROVE  HostInv'
<1>0. /\ rpc[r] \in {"close", "retry"} /\ cc' = [cc EXCEPT ![r] = Nil] /\ armed' = armed \ {cc[r]}
      /\ UNCHANGED <<connsCount, conns, connsCleanerRun, stamped, kpc, scratch, seen>>
    BY DEF CloseConn, pool, cleaning
<1>1. PICK p \in {"idle", "acquire"} : rpc' = [rpc EXCEPT ![r] = p]
    BY DEF CloseConn, Go, Return
<1>2. \/ attempts' = [attempts EXCEPT ![r] = 0]
      \/ attempts' = attempts /\ rpc[r] = "retry"
    BY DEF CloseConn, Return
<1>3. TypeOK'
    <2>1. 0 \in 0..MaxAttempts
        BY MaxAssumption
    <2>2. attempts' \in [Threads -> 0..MaxAttempts]
        BY <1>2, <2>1 DEF HostInv, Types, TypeOK
    <2>3. rpc' \in [Threads -> Places] /\ cc' \in [Threads -> Wrappers \cup {Nil}]
        BY <1>0, <1>1 DEF HostInv, Types, TypeOK, Places
    <2> QED BY <1>0, <2>2, <2>3 DEF HostInv, Types, TypeOK
<1>4. AttemptsLeft'
    <2>1. \A t \in Threads \ {r} : rpc'[t] = rpc[t] /\ attempts'[t] = attempts[t]
        BY <1>1, <1>2 DEF HostInv, Types, TypeOK
    <2>2. attempts'[r] < MaxAttempts
        BY <1>2, MaxAssumption DEF HostInv, Types, TypeOK, AttemptsLeft
    <2> QED BY <2>1, <2>2 DEF HostInv, Types, AttemptsLeft
<1>5. Hands'
    BY <1>0, <1>1 DEF HostInv, Types, TypeOK, Hands, Holding
<1>6. Sweeping'
    BY <1>0 DEF HostInv, Sweeping
<1>7. Apart'
    <2>1. Nil \notin Members(conns) /\ \A k \in Cleaners : Nil \notin Members(scratch[k])
        BY NilAssumption DEF HostInv, Types, TypeOK, Members
    <2> QED BY <1>0, <2>1 DEF HostInv, Types, TypeOK, Apart
<1>8. CountExact'
    <2>1. Slots' = Slots /\ Users' = Users /\ r \notin Users
        <3>1. TypeOK /\ p \in Places
            BY DEF HostInv, Types, Places
        <3>2. ~Using(r) /\ rpc[r] \notin {"spawn", "dial"} /\ p \notin {"write", "read", "spawn", "dial"}
            BY <1>0 DEF Using
        <3>3. /\ Slots' = Slots \ {r} /\ Users' = Users \ {r}
              /\ r \notin Slots /\ r \notin Users
            BY <1>1, <3>1, <3>2, CallMoves
        <3> QED BY <3>3
    <2>2. Live' = Live
        <3>1. {cc'[t] : t \in Users'} = {cc[t] : t \in Users}
            BY <1>0, <2>1 DEF Users, At, HostInv, Types, TypeOK
        <3> QED BY <1>0, <3>1, CountIs, SweptStays
    <2> QED BY <1>0, <2>1, <2>2, LiveMoves DEF HostInv, Types
<1> QED BY <1>3, <1>4, <1>5, <1>6, <1>7, <1>8 DEF HostInv, Types

\* The cleaner. Nothing changes for the calls; of the lists only its own.
LEMMA CleanerMoves ==
    ASSUME NEW k \in Cleaners, UNCHANGED <<rpc, cc>>,
           \A j \in Cleaners \ {k} : scratch'[j] = scratch[j] /\ kpc'[j] = kpc[j]
    PROVE  LET others == UNION {Unswept(j) : j \in Cleaners \ {k}}
               using == {cc[r] : r \in Users}
           IN  /\ Slots' = Slots
               /\ Live = using \cup ToSet(conns) \cup others \cup Unswept(k)
               /\ Live' = using \cup ToSet(conns') \cup others \cup Unswept(k)'
<1> DEFINE others == UNION {Unswept(j) : j \in Cleaners \ {k}}
           using == {cc[r] : r \in Users}
<1>1. Slots' = Slots /\ Users' = Users
    BY DEF Slots, Users, At
<1>2. \A j \in Cleaners \ {k} : Unswept(j)' = Unswept(j)
    BY DEF Unswept
<1>3. ToSweep = others \cup Unswept(k)
    <2>1. \A x : x \in ToSweep <=> \E j \in Cleaners : x \in Unswept(j)
        BY DEF ToSweep
    <2>2. \A x : x \in others <=> \E j \in Cleaners \ {k} : x \in Unswept(j)
        OBVIOUS
    <2> HIDE DEF others
    <2> QED BY <2>1, <2>2
<1>4. ToSweep' = others \cup Unswept(k)'
    <2>1. \A x : x \in ToSweep' <=> \E j \in Cleaners : x \in Unswept(j)'
        BY DEF ToSweep
    <2>2. \A x : x \in others <=> \E j \in Cleaners \ {k} : x \in Unswept(j)
        OBVIOUS
    <2> HIDE DEF others
    <2> QED BY <1>2, <2>1, <2>2
<1>5. {cc'[r] : r \in Users'} = using
    BY <1>1
<1> HIDE DEF others, using
<1>6. /\ Live = using \cup ToSet(conns) \cup others \cup Unswept(k)
      /\ Live' = using \cup ToSet(conns') \cup others \cup Unswept(k)'
    <2>1. Live = using \cup ToSet(conns) \cup ToSweep
        BY CountIs DEF using
    <2>2. Live' = using \cup ToSet(conns') \cup ToSweep'
        BY <1>5, CountIs
    <2> QED BY <1>3, <1>4, <2>1, <2>2
<1> QED BY <1>1, <1>6 DEF others, using

LEMMA ScanStep ==
    ASSUME HostInv, NEW k \in Cleaners, Scan(k)
    PROVE  HostInv'
<1>0. PICK n \in seen[k]..Len(conns) :
          /\ kpc[k] = "scan" /\ kpc' = [kpc EXCEPT ![k] = "sweep"]
          /\ scratch' = [scratch EXCEPT ![k] = SubSeq(conns, 1, n)]
          /\ conns' = SubSeq(conns, n + 1, Len(conns))
          /\ seen' = [seen EXCEPT ![k] = Len(conns) - n]
          /\ UNCHANGED <<connsCount, connsCleanerRun, stamped, armed, rpc, cc, attempts>>
    BY DEF Scan, wrappers, doing
<1> DEFINE p == SubSeq(conns, 1, n)
           q == SubSeq(conns, n + 1, Len(conns))
<1>1. /\ conns \in Seq(Wrappers) /\ Once(conns) /\ scratch \in [Cleaners -> Seq(Wrappers)]
      /\ n \in 0..Len(conns) /\ Len(conns) - n \in Nat
      /\ kpc \in [Cleaners -> {"free", "scan", "sweep", "close"}] /\ seen \in [Cleaners -> Nat]
    <2>1. conns \in Seq(Wrappers) /\ Once(conns) /\ scratch \in [Cleaners -> Seq(Wrappers)]
        BY DEF HostInv, Types, TypeOK, Apart
    <2>2. seen[k] \in Nat /\ Len(conns) \in Nat
        BY <2>1 DEF HostInv, Types, TypeOK
    <2>3. n \in 0..Len(conns) /\ Len(conns) - n \in Nat
        BY <2>2
    <2> QED BY <2>1, <2>3 DEF HostInv, Types, TypeOK
<1>2. /\ p \in Seq(Wrappers) /\ q \in Seq(Wrappers) /\ Once(p) /\ Once(q)
      /\ Members(p) \cap Members(q) = {} /\ Members(p) \cup Members(q) = Members(conns)
    BY <1>1, OnceSplit
<1>3. scratch'[k] = p /\ conns' = q /\ \A j \in Cleaners \ {k} : scratch'[j] = scratch[j] /\ kpc'[j] = kpc[j]
    BY <1>0, <1>1
<1>4. scratch[k] = <<>> /\ kpc'[k] = "sweep"
    BY <1>0, <1>1 DEF HostInv, Sweeping
<1> HIDE DEF p, q
<1>5. TypeOK'
    <2>1. scratch' \in [Cleaners -> Seq(Wrappers)] /\ seen' \in [Cleaners -> Nat]
        BY <1>0, <1>1, <1>2, <1>3
    <2> QED BY <1>0, <1>2, <1>3, <2>1 DEF HostInv, Types, TypeOK
<1>6. AttemptsLeft' /\ Hands'
    BY <1>0 DEF HostInv, Types, AttemptsLeft, Hands
<1>7. Sweeping'
    BY <1>3, <1>4 DEF HostInv, Sweeping
<1>8. Apart'
    BY <1>0, <1>2, <1>3 DEF HostInv, Apart
<1>9. CountExact'
    <2>1. Unswept(k) = {}
        <3>1. Unswept(k) = Members(scratch[k])
            BY <1>0, UnsweptIs DEF HostInv, Types
        <3> QED BY <1>4, <3>1, OnceEmpty
    <2>2. Unswept(k)' = Members(p)
        <3>1. Unswept(k)' = ToSet(p)
            BY <1>3, <1>4 DEF Unswept
        <3> QED BY <1>2, <3>1, AsMembers
    <2>3. ToSet(conns) = Members(p) \cup Members(q) /\ ToSet(conns') = Members(q)
        BY <1>1, <1>2, <1>3, AsMembers
    <2>4. Slots' = Slots /\ Live' = Live
        <3> DEFINE others == UNION {Unswept(j) : j \in Cleaners \ {k}}
                   using == {cc[r] : r \in Users}
        <3>1. /\ Slots' = Slots
              /\ Live = using \cup ToSet(conns) \cup others \cup Unswept(k)
              /\ Live' = using \cup ToSet(conns') \cup others \cup Unswept(k)'
            BY <1>0, <1>3, CleanerMoves
        <3> HIDE DEF others, using
        <3> QED BY <2>1, <2>2, <2>3, <3>1
    <2> QED BY <1>0, <2>4, LiveMoves DEF HostInv, Types
<1> QED BY <1>5, <1>6, <1>7, <1>8, <1>9 DEF HostInv, Types

LEMMA SweepCountStep ==
    ASSUME HostInv, NEW k \in Cleaners, SweepCount(k)
    PROVE  HostInv'
<1>0. /\ kpc[k] = "sweep" /\ scratch[k] # <<>> /\ kpc' = [kpc EXCEPT ![k] = "close"]
      /\ connsCount' = connsCount - 1
      /\ UNCHANGED <<conns, connsCleanerRun, stamped, armed, rpc, cc, attempts, scratch, seen>>
    BY DEF SweepCount, wrappers, doing
<1>1. /\ scratch[k] \in Seq(Wrappers) /\ Once(scratch[k])
      /\ kpc \in [Cleaners -> {"free", "scan", "sweep", "close"}]
    BY DEF HostInv, Types, TypeOK, Apart
<1>2. TypeOK'
    <2>1. connsCount > 0
        BY <1>0, Positive DEF HostInv, Types
    <2>2. connsCount' \in 0..MaxConns
        BY <1>0, <2>1, MaxAssumption DEF HostInv, Types, TypeOK
    <2> QED BY <1>0, <2>2 DEF HostInv, Types, TypeOK
<1>3. AttemptsLeft' /\ Hands' /\ Sweeping' /\ Apart'
    <2>1. AttemptsLeft' /\ Hands' /\ Apart'
        BY <1>0 DEF HostInv, Types, AttemptsLeft, Hands, Apart
    <2>2. Sweeping'
        BY <1>0, <1>1 DEF HostInv, Sweeping
    <2> QED BY <2>1, <2>2
<1>4. CountExact'
    <2> DEFINE w == Head(scratch[k])
    <2>1. w \in Members(scratch[k]) /\ w \in Wrappers
        BY <1>0, <1>1, OnceHeadTail
    <2>2. Unswept(k) = Members(scratch[k])
        BY <1>0, UnsweptIs DEF HostInv, Types
    <2>3. Unswept(k)' = Unswept(k) \ {w}
        <3>1. /\ Tail(scratch[k]) \in Seq(Wrappers)
              /\ Members(Tail(scratch[k])) = Members(scratch[k]) \ {w}
            BY <1>0, <1>1, OnceHeadTail
        <3>2. Unswept(k)' = ToSet(Tail(scratch[k]))
            BY <1>0, <1>1 DEF Unswept
        <3>3. ToSet(Tail(scratch[k])) = Members(Tail(scratch[k]))
            BY <3>1, AsMembers
        <3> QED BY <2>2, <3>1, <3>2, <3>3
    <2>4. /\ w \notin ToSet(conns) /\ \A r \in Users : cc[r] # w
          /\ \A j \in Cleaners \ {k} : w \notin Unswept(j)
        <3>1. ToSet(conns) = Members(conns)
            BY AsMembers DEF HostInv, Types, TypeOK
        <3>2. \A j \in Cleaners : Unswept(j) \subseteq Members(scratch[j])
            BY UnsweptIs DEF HostInv, Types
        <3> HIDE DEF w
        <3> QED BY <2>1, <3>1, <3>2 DEF HostInv, Apart, Users, At
    <2>5. \A j \in Cleaners \ {k} : scratch'[j] = scratch[j] /\ kpc'[j] = kpc[j]
        BY <1>0, <1>1
    <2> HIDE DEF w
    <2>6. Slots' = Slots /\ w \in Live /\ Live' = Live \ {w}
        BY <1>0, <2>1, <2>2, <2>3, <2>4, <2>5, CleanerMoves
    <2> QED BY <1>0, <2>6, LiveMoves DEF HostInv, Types
<1> QED BY <1>2, <1>3, <1>4 DEF HostInv, Types

LEMMA SweepCloseStep ==
    ASSUME HostInv, NEW k \in Cleaners, SweepClose(k)
    PROVE  HostInv'
<1>0. /\ kpc[k] = "close" /\ kpc' = [kpc EXCEPT ![k] = "sweep"]
      /\ scratch' = [scratch EXCEPT ![k] = Tail(@)] /\ armed' = armed \ {Head(scratch[k])}
      /\ UNCHANGED <<connsCount, conns, connsCleanerRun, stamped, rpc, cc, attempts, seen>>
    BY DEF SweepClose, pool, doing
<1>1. /\ scratch[k] \in Seq(Wrappers) /\ Once(scratch[k]) /\ scratch[k] # <<>>
      /\ scratch \in [Cleaners -> Seq(Wrappers)]
      /\ kpc \in [Cleaners -> {"free", "scan", "sweep", "close"}]
    BY <1>0 DEF HostInv, Types, TypeOK, Apart, Sweeping
<1> DEFINE rest == Tail(scratch[k])
<1>2. rest \in Seq(Wrappers) /\ Once(rest) /\ Members(rest) = Members(scratch[k]) \ {Head(scratch[k])}
    BY <1>1, OnceHeadTail
<1>3. /\ scratch'[k] = rest /\ kpc'[k] = "sweep"
      /\ \A j \in Cleaners \ {k} : scratch'[j] = scratch[j] /\ kpc'[j] = kpc[j]
    BY <1>0, <1>1
<1>4. TypeOK'
    BY <1>0, <1>1, <1>2 DEF HostInv, Types, TypeOK
<1> HIDE DEF rest
<1>5. AttemptsLeft' /\ Hands'
    BY <1>0 DEF HostInv, Types, AttemptsLeft, Hands
<1>6. Sweeping'
    BY <1>3 DEF HostInv, Sweeping
<1>7. Apart'
    BY <1>0, <1>2, <1>3 DEF HostInv, Apart
<1>8. CountExact'
    <2>1. Unswept(k)' = Unswept(k)
        <3>1. Unswept(k)' = ToSet(rest) /\ ToSet(rest) = Members(rest)
            BY <1>2, <1>3, AsMembers DEF Unswept
        <3>2. Unswept(k) = Members(scratch[k]) \ {Head(scratch[k])}
            BY <1>0, UnsweptIs DEF HostInv, Types
        <3> QED BY <1>2, <3>1, <3>2
    <2>2. Slots' = Slots /\ Live' = Live
        BY <1>0, <1>3, <2>1, CleanerMoves
    <2> QED BY <1>0, <2>2, LiveMoves DEF HostInv, Types
<1> QED BY <1>4, <1>5, <1>6, <1>7, <1>8 DEF HostInv, Types

LEMMA RestStep ==
    ASSUME HostInv, NEW k \in Cleaners, Stop(k) \/ Sleep(k)
    PROVE  HostInv'
<1>0. PICK p \in {"free", "scan"} :
          /\ kpc[k] = "sweep" /\ scratch[k] = <<>> /\ kpc' = [kpc EXCEPT ![k] = p]
          /\ connsCleanerRun' \in {connsCleanerRun, FALSE}
          /\ UNCHANGED <<connsCount, conns, stamped, armed, rpc, cc, attempts, scratch, seen>>
    BY DEF Stop, Sleep, Swept, pool, wrappers, doing
<1>1. TypeOK'
    BY <1>0 DEF HostInv, Types, TypeOK
<1>2. AttemptsLeft' /\ Hands' /\ Sweeping' /\ Apart'
    BY <1>0 DEF HostInv, Types, TypeOK, AttemptsLeft, Hands, Sweeping, Apart
<1>3. CountExact'
    <2>1. kpc \in [Cleaners -> {"free", "scan", "sweep", "close"}]
        BY DEF HostInv, Types, TypeOK
    <2>2. Unswept(k)' = Unswept(k)
        BY <1>0, <2>1 DEF Unswept
    <2>3. Slots' = Slots /\ Live' = Live
        BY <1>0, <2>1, <2>2, CleanerMoves
    <2> QED BY <1>0, <2>3, LiveMoves DEF HostInv, Types
<1> QED BY <1>1, <1>2, <1>3 DEF HostInv, Types

LEMMA HostInvNext == HostInv /\ [HostNext]_vars => HostInv'
<1>1. ASSUME HostInv, NEW r \in Threads, HostStep(r) PROVE HostInv'
    <2>1. CASE Begin(r)
        <3>1. rpc[r] = "idle" /\ Go(r, "acquire") /\ UNCHANGED <<pool, wrappers, cc, attempts, cleaning>>
            BY <2>1 DEF Begin
        <3> QED BY <1>1, <3>1, NoConnStep
    <2>2. CASE AcquireNone(r)
        <3>1. /\ rpc[r] = "acquire" /\ Go(r, "idle") /\ attempts' = [attempts EXCEPT ![r] = 0]
              /\ UNCHANGED <<pool, wrappers, cc, cleaning>>
            BY <2>2 DEF AcquireNone, Return
        <3> QED BY <1>1, <3>1, NoConnStep
    <2>3. CASE Using(r) /\ \E retry \in BOOLEAN : Discard(r, retry)
        BY <1>1, <2>3, DiscardStep
    <2> QED BY <1>1, <2>1, <2>2, <2>3, AcquireIdleStep, AcquireNewStep, SpawnCleanerStep, DialStep,
               DialFailsStep, WriteStep, KeepStep, CloseStep DEF HostStep
<1>2. ASSUME HostInv, NEW k \in Cleaners, CleanerStep(k) PROVE HostInv'
    BY <1>2, ScanStep, SweepCountStep, SweepCloseStep, RestStep DEF CleanerStep
<1>3. HostInv /\ UNCHANGED vars => HostInv'
    <2> SUFFICES ASSUME HostInv, UNCHANGED vars PROVE HostInv'
        OBVIOUS
    <2>1. UNCHANGED <<connsCount, conns, connsCleanerRun, stamped, armed, rpc, cc, attempts, kpc, scratch, seen>>
        BY DEF vars, pool, wrappers, doing, cleaning
    <2>2. TypeOK' /\ AttemptsLeft' /\ Hands' /\ Sweeping' /\ Apart'
        BY <2>1 DEF HostInv, Types, TypeOK, AttemptsLeft, Hands, Sweeping, Apart
    <2>3. CountExact'
        <3>1. Slots' = Slots /\ Live' = Live
            BY <2>1 DEF Slots, At, Live, Unswept
        <3> QED BY <2>1, <3>1, LiveMoves DEF HostInv, Types
    <2> QED BY <2>2, <2>3 DEF HostInv, Types
<1> QED BY <1>1, <1>2, <1>3 DEF HostNext

\* A connection of the HostClient is with one call, in the pool or on the list
\* of one cleaner, each at most once, and connsCount counts them exactly.
THEOREM HostInvariant == Spec => []HostInv
<1>1. SettingOK /\ HostInv /\ [Next]_allVars => HostInv'
    BY HostSteps, HostInvNext
<1> QED BY <1>1, HostInit, SettingKept, PTL DEF Spec

\* The variables of the HostClient have their types; the number of connections
\* stays within 0..MaxConns, that of the attempts within maxAttempts.
THEOREM HostTypes == Spec => []TypeOK
<1>1. HostInv => TypeOK
    BY DEF HostInv, Types
<1> QED BY <1>1, HostInvariant, PTL

\* connsCount is the number of connections idle, in use, about to be swept or
\* being dialed, whatever the interleaving of acquireConn, releaseConn,
\* closeConn, decConnsCount and connsCleaner.
THEOREM HostCountExact == Spec => []CountExact
<1>1. HostInv => CountExact
    BY DEF HostInv
<1> QED BY <1>1, HostInvariant, PTL

-------------------------------------------------------------------------------
(* The HostClient implements ConnLease                                          *)

Doomed(k, w) == kpc[k] = "close" /\ w \in Members(scratch[k]) /\ w = Head(scratch[k])

Stored(w) ==
    \/ w \in Members(conns)
    \/ \E k \in Cleaners : w \in Members(scratch[k]) /\ ~Doomed(k, w)

\* The refinement mapping, connection by connection.
OwnerFacts ==
    /\ Owner = [w \in Wrappers |-> Owner[w]]
    /\ \A w \in Wrappers :
          /\ Stored(w) => Owner[w] = "pool"
          /\ \A k \in Cleaners : Doomed(k, w) => Owner[w] = "dying"
          /\ \A r \in Threads : cc[r] = w => Owner[w] = IF Using(r) THEN r ELSE "dying"
          /\ \/ Stored(w)
             \/ \E k \in Cleaners : Doomed(k, w)
             \/ \E r \in Threads : cc[r] = w
             \/ Owner[w] = "none"

LEMMA OwnerIs ==
    ASSUME HostInv
    PROVE  OwnerFacts
<1>1. /\ conns \in Seq(Wrappers) /\ ToSet(conns) = Members(conns)
      /\ \A k \in Cleaners : scratch[k] \in Seq(Wrappers) /\ ToSet(scratch[k]) = Members(scratch[k])
    <2>1. conns \in Seq(Wrappers) /\ \A k \in Cleaners : scratch[k] \in Seq(Wrappers)
        BY DEF HostInv, Types, TypeOK
    <2> QED BY <2>1, AsMembers
<1>2. \A k \in Cleaners : kpc[k] = "close" => Head(scratch[k]) \in Members(scratch[k])
    <2> SUFFICES ASSUME NEW k \in Cleaners, kpc[k] = "close" PROVE Head(scratch[k]) \in Members(scratch[k])
        OBVIOUS
    <2>1. scratch[k] # <<>> /\ Once(scratch[k])
        BY DEF HostInv, Sweeping, Apart
    <2> QED BY <1>1, <2>1, OnceHeadTail
<1>3. Owner = [w \in Wrappers |-> Owner[w]]
    BY DEF Owner
<1> SUFFICES ASSUME NEW w \in Wrappers
             PROVE  /\ Stored(w) => Owner[w] = "pool"
                    /\ \A k \in Cleaners : Doomed(k, w) => Owner[w] = "dying"
                    /\ \A r \in Threads : cc[r] = w => Owner[w] = IF Using(r) THEN r ELSE "dying"
                    /\ \/ Stored(w)
                       \/ \E k \in Cleaners : Doomed(k, w)
                       \/ \E r \in Threads : cc[r] = w
                       \/ Owner[w] = "none"
    BY <1>3 DEF OwnerFacts
<1>4. Closing(w) <=> \/ \E r \in Threads : cc[r] = w /\ ~Using(r)
                     \/ \E k \in Cleaners : Doomed(k, w)
    <2>1. \A r \in Threads : cc[r] = w => (rpc[r] \in {"close", "retry"} <=> ~Using(r))
        BY NilAssumption DEF HostInv, Hands, Holding, Using
    <2>2. \A k \in Cleaners : kpc[k] = "close" /\ w = Head(scratch[k]) <=> Doomed(k, w)
        BY <1>2 DEF Doomed
    <2> QED BY <2>1, <2>2 DEF Closing
<1>5. Free(w) <=> /\ \A r \in Threads : cc[r] # w
                  /\ w \notin Members(conns) /\ \A k \in Cleaners : w \notin Members(scratch[k])
    BY <1>1 DEF Free
<1>6. Owner[w] = IF Closing(w) THEN "dying"
                 ELSE IF \E r \in Threads : cc[r] = w THEN CHOOSE r \in Threads : cc[r] = w
                 ELSE IF Free(w) THEN "none" ELSE "pool"
    BY DEF Owner
<1>7. ASSUME Stored(w) PROVE Owner[w] = "pool"
    <2>1. \A r \in Threads : cc[r] # w
        BY <1>7 DEF Stored, HostInv, Apart
    <2>2. \A k \in Cleaners : ~Doomed(k, w)
        BY <1>7 DEF Stored, Doomed, HostInv, Apart
    <2>3. ~Free(w)
        BY <1>5, <1>7 DEF Stored
    <2> QED BY <1>4, <1>6, <2>1, <2>2, <2>3
<1>8. ASSUME NEW r \in Threads, cc[r] = w PROVE Owner[w] = IF Using(r) THEN r ELSE "dying"
    <2>1. \A t \in Threads : cc[t] = w => t = r
        BY <1>8, NilAssumption DEF HostInv, Hands
    <2>2. \A k \in Cleaners : ~Doomed(k, w)
        BY <1>8 DEF Doomed, HostInv, Apart
    <2>3. CASE Using(r)
        <3>1. ~Closing(w)
            BY <1>4, <2>1, <2>2, <2>3
        <3>2. r = CHOOSE t \in Threads : cc[t] = w
            BY <1>8, <2>1
        <3> QED BY <1>6, <1>8, <2>3, <3>1, <3>2
    <2>4. CASE ~Using(r)
        BY <1>4, <1>6, <1>8, <2>4
    <2> QED BY <2>3, <2>4
<1>9. \A k \in Cleaners : Doomed(k, w) => Owner[w] = "dying"
    BY <1>4, <1>6
<1>10. ASSUME ~Stored(w), \A k \in Cleaners : ~Doomed(k, w), \A r \in Threads : cc[r] # w
       PROVE  Owner[w] = "none"
    <2>1. Free(w)
        BY <1>5, <1>10 DEF Stored
    <2> QED BY <1>4, <1>6, <1>10, <2>1
<1> QED BY <1>7, <1>8, <1>9, <1>10

\* A connection that stays where it is keeps its owner.
SamePlace(w) ==
    /\ Stored(w)' <=> Stored(w)
    /\ \A k \in Cleaners : Doomed(k, w)' <=> Doomed(k, w)
    /\ \A r \in Threads : cc'[r] = w <=> cc[r] = w
    /\ \A r \in Threads : cc[r] = w => (Using(r)' <=> Using(r))

LEMMA SameOwner ==
    ASSUME OwnerFacts, OwnerFacts', NEW w \in Wrappers, SamePlace(w)
    PROVE  Owner'[w] = Owner[w]
<1>1. CASE Stored(w)
    BY <1>1 DEF OwnerFacts, SamePlace
<1>2. CASE \E k \in Cleaners : Doomed(k, w)
    BY <1>2 DEF OwnerFacts, SamePlace
<1>3. CASE \E r \in Threads : cc[r] = w
    BY <1>3 DEF OwnerFacts, SamePlace
<1>4. CASE ~Stored(w) /\ (\A k \in Cleaners : ~Doomed(k, w)) /\ \A r \in Threads : cc[r] # w
    BY <1>4 DEF OwnerFacts, SamePlace
<1> QED BY <1>1, <1>2, <1>3, <1>4

LEMMA OneMoves ==
    ASSUME OwnerFacts, OwnerFacts', NEW w \in Wrappers, \A v \in Wrappers \ {w} : SamePlace(v)
    PROVE  Owner' = [Owner EXCEPT ![w] = Owner'[w]]
<1>1. \A v \in Wrappers \ {w} : Owner'[v] = Owner[v]
    BY SameOwner
<1> QED BY <1>1 DEF OwnerFacts

LEMMA NoneMoves ==
    ASSUME OwnerFacts, OwnerFacts', \A w \in Wrappers : SamePlace(w)
    PROVE  UNCHANGED Lease!leaseVars
<1>1. \A w \in Wrappers : Owner'[w] = Owner[w]
    BY SameOwner
<1>2. Owner' = Owner
    BY <1>1 DEF OwnerFacts
<1> QED BY <1>2 DEF Lease!leaseVars

\* ConnLease counts with the same Cardinality.
LEMMA SameCount ==
    ASSUME NEW S
    PROVE  Lease!Cardinality(S) = Cardinality(S)
BY DEF Lease!Cardinality, Cardinality

\* Who dials has a slot of connsCount that no connection has.
LEMMA RoomToCreate ==
    ASSUME HostInv, NEW r \in Threads, rpc[r] = "dial"
    PROVE  Cardinality(Lease!Allocated) < MaxConns
<1>1. Lease!Allocated \subseteq Live
    <2> SUFFICES ASSUME NEW w \in Wrappers, Owner[w] \in Threads \cup {"pool"} PROVE w \in Live
        BY DEF Lease!Allocated
    <2>1. OwnerFacts /\ Owner[w] \notin {"none", "dying"}
        BY OwnerIs, OwnersAssumption
    <2>2. CASE Stored(w)
        <3>1. ToSet(conns) = Members(conns)
            BY AsMembers DEF HostInv, Types, TypeOK
        <3>2. ASSUME NEW k \in Cleaners, w \in Members(scratch[k]), ~Doomed(k, w) PROVE w \in Unswept(k)
            BY <3>2, UnsweptIs DEF Doomed, HostInv, Types
        <3> QED BY <2>2, <3>1, <3>2 DEF Stored, Live
    <2>3. CASE \E t \in Threads : cc[t] = w /\ Using(t)
        BY <2>3 DEF Live, At, Using
    <2> QED BY <2>1, <2>2, <2>3 DEF OwnerFacts
<1>2. /\ IsFiniteSet(Live) /\ Cardinality(Live) \in Nat
      /\ IsFiniteSet(Slots) /\ Cardinality(Slots) \in Nat
      /\ connsCount = Cardinality(Live) + Cardinality(Slots)
    BY Finite DEF HostInv, Types, CountExact, Slots
<1>3. Cardinality(Slots) # 0
    <2>1. r \in Slots
        BY DEF Slots, At
    <2> QED BY <1>2, <2>1, FS_EmptySet
<1>4. Cardinality(Lease!Allocated) \in Nat /\ Cardinality(Lease!Allocated) <= Cardinality(Live)
    BY <1>1, <1>2, FS_Subset, FS_CardinalityType
<1> QED BY <1>2, <1>3, <1>4, MaxAssumption DEF HostInv, Types, TypeOK

\* A step of a call that leaves the lists alone moves its own connection only.
LEMMA OthersStay ==
    ASSUME HostInv, NEW r \in Threads, UNCHANGED <<conns, kpc, scratch>>,
           \A t \in Threads \ {r} : cc'[t] = cc[t] /\ rpc'[t] = rpc[t]
    PROVE  \A w \in Wrappers : w # cc[r] /\ w # cc'[r] => SamePlace(w)
<1> SUFFICES ASSUME NEW w \in Wrappers, w # cc[r], w # cc'[r] PROVE SamePlace(w)
    OBVIOUS
<1>1. \A k \in Cleaners : Doomed(k, w)' <=> Doomed(k, w)
    BY DEF Doomed
<1>2. Stored(w)' <=> Stored(w)
    BY <1>1 DEF Stored
<1>3. ASSUME NEW t \in Threads
      PROVE  (cc'[t] = w <=> cc[t] = w) /\ (cc[t] = w => (Using(t)' <=> Using(t)))
    <2>1. CASE t = r
        BY <2>1
    <2>2. CASE t # r
        BY <2>2 DEF Using
    <2> QED BY <2>1, <2>2
<1> QED BY <1>1, <1>2, <1>3 DEF SamePlace

\* So does a step of a call that keeps its connection, when it goes on using it.
LEMMA KeepsAll ==
    ASSUME HostInv, OwnerFacts, OwnerFacts', NEW r \in Threads,
           UNCHANGED <<conns, kpc, scratch, cc>>,
           \A t \in Threads \ {r} : rpc'[t] = rpc[t], Using(r)' <=> Using(r)
    PROVE  UNCHANGED Lease!leaseVars
<1>1. ASSUME NEW w \in Wrappers PROVE SamePlace(w)
    <2>1. \A k \in Cleaners : Doomed(k, w)' <=> Doomed(k, w)
        BY DEF Doomed
    <2>2. Stored(w)' <=> Stored(w)
        BY <2>1 DEF Stored
    <2>3. ASSUME NEW t \in Threads PROVE Using(t)' <=> Using(t)
        <3>1. CASE t = r
            BY <3>1
        <3>2. CASE t # r
            BY <3>2 DEF Using
        <3> QED BY <3>1, <3>2
    <2> QED BY <2>1, <2>2, <2>3 DEF SamePlace
<1> QED BY <1>1, NoneMoves

LEMMA CallLeases ==
    ASSUME HostInv, HostInv', OwnerFacts, OwnerFacts', NEW r \in Threads, HostStep(r)
    PROVE  [Lease!LeaseNext]_(Lease!leaseVars)
<1> USE DEF Lease!LeaseNext, Lease!Move
<1>0. rpc \in [Threads -> Places] /\ cc \in [Threads -> Wrappers \cup {Nil}]
    BY DEF HostInv, Types, TypeOK
<1>1. CASE Begin(r) \/ AcquireNew(r) \/ AcquireNone(r) \/ DialFails(r) \/ WriteRequest(r)
    <2>1. /\ UNCHANGED <<conns, kpc, scratch, cc>>
          /\ Using(r)' <=> Using(r)
          /\ \A t \in Threads \ {r} : rpc'[t] = rpc[t]
        BY <1>0, <1>1 DEF Begin, AcquireNew, AcquireNone, DialFails, WriteRequest, Go, Return, Using,
                          pool, wrappers, cleaning
    <2>2. UNCHANGED Lease!leaseVars
        BY <2>1, KeepsAll
    <2> QED BY <2>2
<1>2. CASE SpawnCleaner(r)
    <2>1. /\ UNCHANGED <<conns, scratch, cc>> /\ \A t \in Threads : Using(t)' <=> Using(t)
          /\ \A k \in Cleaners : kpc'[k] = "close" <=> kpc[k] = "close"
        BY <1>0, <1>2 DEF SpawnCleaner, Go, Using, pool, wrappers, HostInv, Types, TypeOK
    <2>2. ASSUME NEW w \in Wrappers PROVE SamePlace(w)
        <3>1. \A k \in Cleaners : Doomed(k, w)' <=> Doomed(k, w)
            BY <2>1 DEF Doomed
        <3>2. Stored(w)' <=> Stored(w)
            BY <2>1, <3>1 DEF Stored
        <3> QED BY <2>1, <3>1, <3>2 DEF SamePlace
    <2> QED BY <2>2, NoneMoves
<1>3. CASE AcquireIdle(r)
    <2>0. /\ rpc[r] = "acquire" /\ conns # <<>> /\ rpc' = [rpc EXCEPT ![r] = "write"]
          /\ cc' = [cc EXCEPT ![r] = Last(conns)] /\ conns' = Front(conns) /\ UNCHANGED <<kpc, scratch>>
        BY <1>3 DEF AcquireIdle, Go
    <2> DEFINE w == Last(conns)
    <2>1. /\ w \in Members(conns) /\ w \in Wrappers /\ Members(conns') = Members(conns) \ {w}
        BY <2>0, BackOf DEF HostInv, Types, TypeOK, Apart
    <2>2. cc[r] = Nil /\ cc'[r] = w /\ Using(r)' /\ Nil \notin Wrappers
        BY <1>0, <2>0, NilAssumption DEF HostInv, Hands, Holding, Using
    <2>3. \A t \in Threads \ {r} : cc'[t] = cc[t] /\ rpc'[t] = rpc[t]
        BY <1>0, <2>0
    <2> HIDE DEF w
    <2>4. ASSUME NEW v \in Wrappers \ {w} PROVE SamePlace(v)
        <3>1. \A k \in Cleaners : Doomed(k, v)' <=> Doomed(k, v)
            BY <2>0 DEF Doomed
        <3>2. Stored(v)' <=> Stored(v)
            BY <2>0, <2>1, <3>1 DEF Stored
        <3>3. ASSUME NEW t \in Threads
              PROVE  (cc'[t] = v <=> cc[t] = v) /\ (cc[t] = v => (Using(t)' <=> Using(t)))
            <4>1. CASE t = r
                BY <2>2, <4>1
            <4>2. CASE t # r
                BY <2>3, <4>2 DEF Using
            <4> QED BY <4>1, <4>2
        <3> QED BY <3>1, <3>2, <3>3 DEF SamePlace
    <2>5. Owner[w] = "pool" /\ Owner'[w] = r
        BY <2>1, <2>2 DEF OwnerFacts, Stored
    <2>6. Owner' = [Owner EXCEPT ![w] = r]
        BY <2>1, <2>4, <2>5, OneMoves
    <2> QED BY <2>1, <2>5, <2>6 DEF Lease!Lend
<1>4. CASE Dial(r)
    <2>0. PICK w \in Wrappers :
              /\ rpc[r] = "dial" /\ rpc' = [rpc EXCEPT ![r] = "write"]
              /\ Free(w) /\ cc' = [cc EXCEPT ![r] = w]
              /\ UNCHANGED <<conns, kpc, scratch>>
        BY <1>4 DEF Dial, Pooled, Go, pool, cleaning
    <2>1. /\ \A t \in Threads : cc[t] # w
          /\ w \notin Members(conns) /\ \A k \in Cleaners : w \notin Members(scratch[k])
        <3>1. ToSet(conns) = Members(conns) /\ \A k \in Cleaners : ToSet(scratch[k]) = Members(scratch[k])
            BY AsMembers DEF HostInv, Types, TypeOK
        <3> QED BY <2>0, <3>1 DEF Free
    <2>2. cc[r] = Nil /\ cc'[r] = w /\ Using(r)' /\ Nil \notin Wrappers
        BY <1>0, <2>0, NilAssumption DEF HostInv, Hands, Holding, Using
    <2>3. \A v \in Wrappers \ {w} : SamePlace(v)
        BY <1>0, <2>0, <2>2, OthersStay
    <2>4. Owner[w] = "none" /\ Owner'[w] = r
        BY <2>1, <2>2 DEF OwnerFacts, Stored, Doomed
    <2>5. Owner' = [Owner EXCEPT ![w] = r]
        BY <2>3, <2>4, OneMoves
    <2>6. Lease!Create(r, w)
        BY <2>0, <2>4, <2>5, RoomToCreate, SameCount DEF Lease!Create
    <2> QED BY <2>6
<1>5. CASE Using(r) /\ \E retry \in BOOLEAN : Discard(r, retry)
    <2>0. /\ Using(r) /\ ~Using(r)' /\ UNCHANGED <<conns, kpc, scratch, cc>>
          /\ \A t \in Threads \ {r} : rpc'[t] = rpc[t]
        BY <1>0, <1>5 DEF Discard, Go, Using, cleaning
    <2> DEFINE w == cc[r]
    <2>1. w \in Wrappers /\ w = cc[r] /\ cc'[r] = w
        BY <1>0, <2>0 DEF HostInv, Hands, Holding, Using
    <2> HIDE DEF w
    <2>2. \A v \in Wrappers \ {w} : SamePlace(v)
        BY <2>0, <2>1, OthersStay
    <2>3. Owner[w] = r /\ Owner'[w] = "dying"
        BY <2>0, <2>1 DEF OwnerFacts
    <2>4. Owner' = [Owner EXCEPT ![w] = "dying"]
        BY <2>1, <2>2, <2>3, OneMoves
    <2> QED BY <2>1, <2>3, <2>4 DEF Lease!Discard
<1>6. CASE ReadThenKeep(r)
    <2>0. /\ rpc[r] = "read" /\ rpc' = [rpc EXCEPT ![r] = "idle"]
          /\ conns' = Append(conns, cc[r]) /\ cc' = [cc EXCEPT ![r] = Nil] /\ UNCHANGED <<kpc, scratch>>
        BY <1>6 DEF ReadThenKeep, Return, Go, cleaning
    <2> DEFINE w == cc[r]
    <2>1. /\ w = cc[r] /\ w \in Wrappers /\ Using(r) /\ cc'[r] = Nil /\ Nil \notin Wrappers
          /\ conns \in Seq(Wrappers) /\ Once(conns) /\ w \notin Members(conns)
        BY <1>0, <2>0, NilAssumption DEF HostInv, Types, TypeOK, Hands, Holding, Using, Apart
    <2>2. Members(conns') = Members(conns) \cup {w}
        BY <2>0, <2>1, OnceAppend
    <2>3. \A t \in Threads \ {r} : cc'[t] = cc[t] /\ rpc'[t] = rpc[t]
        BY <1>0, <2>0
    <2> HIDE DEF w
    <2>4. ASSUME NEW v \in Wrappers \ {w} PROVE SamePlace(v)
        <3>1. \A k \in Cleaners : Doomed(k, v)' <=> Doomed(k, v)
            BY <2>0 DEF Doomed
        <3>2. Stored(v)' <=> Stored(v)
            BY <2>0, <2>2, <3>1 DEF Stored
        <3>3. ASSUME NEW t \in Threads
              PROVE  (cc'[t] = v <=> cc[t] = v) /\ (cc[t] = v => (Using(t)' <=> Using(t)))
            <4>1. CASE t = r
                BY <2>1, <4>1
            <4>2. CASE t # r
                BY <2>3, <4>2 DEF Using
            <4> QED BY <4>1, <4>2
        <3> QED BY <3>1, <3>2, <3>3 DEF SamePlace
    <2>5. Owner[w] = r /\ Owner'[w] = "pool"
        BY <2>1, <2>2 DEF OwnerFacts, Stored
    <2>6. Owner' = [Owner EXCEPT ![w] = "pool"]
        BY <2>1, <2>4, <2>5, OneMoves
    <2> QED BY <2>1, <2>5, <2>6 DEF Lease!GiveBack
<1>7. CASE CloseConn(r)
    <2>0. /\ rpc[r] \in {"close", "retry"} /\ cc' = [cc EXCEPT ![r] = Nil]
          /\ UNCHANGED <<conns, kpc, scratch>> /\ \A t \in Threads \ {r} : rpc'[t] = rpc[t]
        BY <1>0, <1>7 DEF CloseConn, Go, Return, pool, cleaning
    <2> DEFINE w == cc[r]
    <2>1. /\ w = cc[r] /\ w \in Wrappers /\ ~Using(r) /\ cc'[r] = Nil /\ Nil \notin Wrappers
          /\ \A t \in Threads \ {r} : cc'[t] = cc[t] /\ cc'[t] # w
          /\ w \notin Members(conns) /\ \A k \in Cleaners : w \notin Members(scratch[k])
        BY <1>0, <2>0, NilAssumption DEF HostInv, Hands, Holding, Using, Apart
    <2> HIDE DEF w
    <2>2. \A v \in Wrappers \ {w} : SamePlace(v)
        BY <2>0, <2>1, OthersStay
    <2>3. Owner[w] = "dying" /\ Owner'[w] = "none"
        BY <2>0, <2>1 DEF OwnerFacts, Stored, Doomed
    <2>4. Owner' = [Owner EXCEPT ![w] = "none"]
        BY <2>1, <2>2, <2>3, OneMoves
    <2> QED BY <2>1, <2>3, <2>4 DEF Lease!Destroy
<1> QED BY <1>1, <1>2, <1>3, <1>4, <1>5, <1>6, <1>7 DEF HostStep

LEMMA CleanerLeases ==
    ASSUME HostInv, HostInv', OwnerFacts, OwnerFacts', NEW k \in Cleaners, CleanerStep(k)
    PROVE  [Lease!LeaseNext]_(Lease!leaseVars)
<1> USE DEF Lease!LeaseNext, Lease!Move
<1>0. /\ kpc \in [Cleaners -> {"free", "scan", "sweep", "close"}]
      /\ scratch \in [Cleaners -> Seq(Wrappers)] /\ conns \in Seq(Wrappers)
      /\ Once(conns) /\ \A j \in Cleaners : Once(scratch[j])
    BY DEF HostInv, Types, TypeOK, Apart
<1>1. CASE Scan(k)
    <2>1. PICK n \in seen[k]..Len(conns) :
              /\ kpc[k] = "scan" /\ kpc' = [kpc EXCEPT ![k] = "sweep"]
              /\ scratch' = [scratch EXCEPT ![k] = SubSeq(conns, 1, n)]
              /\ conns' = SubSeq(conns, n + 1, Len(conns)) /\ UNCHANGED <<rpc, cc>>
        BY <1>1 DEF Scan, doing
    <2> DEFINE p == SubSeq(conns, 1, n)
    <2>2. n \in 0..Len(conns)
        <3>1. seen[k] \in Nat /\ Len(conns) \in Nat
            BY <1>0 DEF HostInv, Types, TypeOK
        <3> QED BY <3>1
    <2>3. Members(p) \cup Members(conns') = Members(conns)
        BY <1>0, <2>1, <2>2, OnceSplit
    <2>4. /\ scratch'[k] = p /\ kpc'[k] # "close" /\ kpc[k] # "close" /\ scratch[k] = <<>>
          /\ \A j \in Cleaners \ {k} : scratch'[j] = scratch[j] /\ kpc'[j] = kpc[j]
        BY <1>0, <2>1 DEF HostInv, Sweeping
    <2> HIDE DEF p
    <2>5. ASSUME NEW w \in Wrappers PROVE SamePlace(w)
        <3>1. \A j \in Cleaners : Doomed(j, w)' <=> Doomed(j, w)
            BY <2>4 DEF Doomed
        <3>2. Stored(w)' <=> Stored(w)
            <4>1. w \notin Members(scratch[k])
                BY <2>4, OnceEmpty
            <4>2. ~Doomed(k, w) /\ ~Doomed(k, w)'
                BY <2>4 DEF Doomed
            <4> QED BY <2>3, <2>4, <3>1, <4>1, <4>2 DEF Stored
        <3> QED BY <2>1, <3>1, <3>2 DEF SamePlace, Using
    <2> QED BY <2>5, NoneMoves
<1>2. CASE SweepCount(k)
    <2>1. /\ kpc[k] = "sweep" /\ scratch[k] # <<>> /\ kpc'[k] = "close"
          /\ UNCHANGED <<conns, scratch, rpc, cc>> /\ \A j \in Cleaners \ {k} : kpc'[j] = kpc[j]
        BY <1>0, <1>2 DEF SweepCount, doing
    <2>2. PICK w \in Wrappers : w = Head(scratch[k]) /\ w \in Members(scratch[k])
        BY <1>0, <2>1, OnceHeadTail
    <2>3. ASSUME NEW v \in Wrappers \ {w} PROVE SamePlace(v)
        <3>1. \A j \in Cleaners : Doomed(j, v)' <=> Doomed(j, v)
            BY <2>1, <2>2 DEF Doomed
        <3>2. Stored(v)' <=> Stored(v)
            BY <2>1, <3>1 DEF Stored
        <3> QED BY <2>1, <3>1, <3>2 DEF SamePlace, Using
    <2>4. Stored(w) /\ Doomed(k, w)'
        BY <2>1, <2>2 DEF Stored, Doomed
    <2>5. Owner[w] = "pool" /\ Owner'[w] = "dying"
        BY <2>2, <2>4 DEF OwnerFacts
    <2>6. Owner' = [Owner EXCEPT ![w] = "dying"]
        BY <2>2, <2>3, <2>5, OneMoves
    <2> QED BY <2>2, <2>5, <2>6 DEF Lease!Expire
<1>3. CASE SweepClose(k)
    <2>1. /\ kpc[k] = "close" /\ kpc'[k] = "sweep" /\ scratch'[k] = Tail(scratch[k])
          /\ UNCHANGED <<conns, rpc, cc>> /\ scratch[k] # <<>>
          /\ \A j \in Cleaners \ {k} : scratch'[j] = scratch[j] /\ kpc'[j] = kpc[j]
        BY <1>0, <1>3 DEF SweepClose, pool, doing, HostInv, Sweeping
    <2> DEFINE w == Head(scratch[k])
    <2>2. /\ w = Head(scratch[k]) /\ w \in Wrappers /\ w \in Members(scratch[k])
          /\ Members(scratch'[k]) = Members(scratch[k]) \ {w}
        BY <1>0, <2>1, OnceHeadTail
    <2> HIDE DEF w
    <2>3. ASSUME NEW v \in Wrappers \ {w} PROVE SamePlace(v)
        <3>1. \A j \in Cleaners : Doomed(j, v)' <=> Doomed(j, v)
            BY <2>1, <2>2 DEF Doomed
        <3>2. \A j \in Cleaners : v \in Members(scratch'[j]) <=> v \in Members(scratch[j])
            BY <2>1, <2>2
        <3>3. Stored(v)' <=> Stored(v)
            BY <2>1, <3>1, <3>2 DEF Stored
        <3> QED BY <2>1, <3>1, <3>3 DEF SamePlace, Using
    <2>4. Doomed(k, w)
        BY <2>1, <2>2 DEF Doomed
    <2>5. /\ w \notin Members(conns') /\ \A r \in Threads : cc'[r] # w
          /\ \A j \in Cleaners : w \notin Members(scratch'[j])
        BY <2>1, <2>2 DEF HostInv, Apart
    <2>6. Owner[w] = "dying" /\ Owner'[w] = "none"
        BY <2>2, <2>4, <2>5 DEF OwnerFacts, Stored, Doomed
    <2>7. Owner' = [Owner EXCEPT ![w] = "none"]
        BY <2>2, <2>3, <2>6, OneMoves
    <2> QED BY <2>2, <2>6, <2>7 DEF Lease!Destroy
<1>4. CASE Stop(k) \/ Sleep(k)
    <2>1. /\ UNCHANGED <<conns, scratch, rpc, cc>>
          /\ \A j \in Cleaners : kpc'[j] = "close" <=> kpc[j] = "close"
        BY <1>0, <1>4 DEF Stop, Sleep, Swept, pool, doing
    <2>2. ASSUME NEW w \in Wrappers PROVE SamePlace(w)
        <3>1. \A j \in Cleaners : Doomed(j, w)' <=> Doomed(j, w)
            BY <2>1 DEF Doomed
        <3>2. Stored(w)' <=> Stored(w)
            BY <2>1, <3>1 DEF Stored
        <3> QED BY <2>1, <3>1, <3>2 DEF SamePlace, Using
    <2> QED BY <2>2, NoneMoves
<1> QED BY <1>1, <1>2, <1>3, <1>4 DEF CleanerStep

\* Every HostClient is a ConnLease: a connection is created for one call within
\* MaxConns, lent, stored, discarded or expired by one owner at a time, and
\* closed once, never while acquireConn could still hand it out.
THEOREM HostImplementsLease == Spec => ImplementsLease
<1>1. CallsInit => Lease!LeaseInit
    <2> SUFFICES ASSUME CallsInit PROVE Lease!LeaseInit
        OBVIOUS
    <2>1. HostInv /\ OwnerFacts
        BY HostInit, OwnerIs
    <2>2. Init
        BY DEF CallsInit
    <2>3. ASSUME NEW w \in Wrappers PROVE Owner[w] = "none"
        <3>1. /\ conns = <<>> /\ \A r \in Threads : cc[r] = Nil
              /\ \A k \in Cleaners : scratch[k] = <<>>
            BY <2>2 DEF Init
        <3>2. ~Stored(w) /\ \A k \in Cleaners : ~Doomed(k, w)
            BY <3>1, OnceEmpty DEF Stored, Doomed
        <3> QED BY <2>1, <3>1, <3>2, NilAssumption DEF OwnerFacts
    <2>4. Owner = [w \in Wrappers |-> "none"]
        BY <2>1, <2>3 DEF OwnerFacts
    <2> QED BY <2>4, MaxAssumption DEF Lease!LeaseInit
<1>2. HostInv => OwnerFacts
    BY OwnerIs
<1>3. ASSUME HostInv, HostInv', OwnerFacts, OwnerFacts', [HostNext]_vars
      PROVE  [Lease!LeaseNext]_(Lease!leaseVars)
    <2>1. CASE UNCHANGED vars
        <3>1. UNCHANGED <<conns, rpc, cc, kpc, scratch>>
            BY <2>1 DEF vars, pool, doing, cleaning
        <3>2. ASSUME NEW w \in Wrappers PROVE SamePlace(w)
            BY <3>1 DEF SamePlace, Stored, Doomed, Using
        <3>3. UNCHANGED Lease!leaseVars
            BY <1>3, <3>2, NoneMoves
        <3> QED BY <3>3
    <2> QED BY <1>3, <2>1, CallLeases, CleanerLeases DEF HostNext
<1>4. SettingOK /\ [Next]_allVars => [HostNext]_vars
    BY HostSteps
<1> QED BY <1>1, <1>2, <1>3, <1>4, SettingKept, HostInvariant, PTL DEF Spec, ImplementsLease, Lease!LeaseSpec

-------------------------------------------------------------------------------
(* The dialer                                                                   *)

Busy == {d \in Dials : dials[d] = "dialing"}

\* Who waits for a result has a channel of its own, and it is in use.
Channels ==
    \A r \in Threads : /\ dpc[r] = "result" <=> result[r] # Nil
                       /\ result[r] # Nil => dials[result[r]] # "free"

OwnChannels == \A r, s \in Threads : result[r] # Nil /\ result[r] = result[s] => r = s

SlotsExact == slots = leaving + Cardinality(Busy)

PendingIsResolved == entry = "pending" => \E r \in Threads : dpc[r] = "resolve"

DialBooks == DialTypes /\ Channels /\ OwnChannels /\ SlotsExact

DialInv == DialBooks /\ PendingIsResolved

DialerNext == (\E r \in Threads : Dialing(r)) \/ Dialer

\* All other steps leave the dialer alone.
LEMMA DialerSteps == [Next]_allVars => [DialerNext]_dialer
<1> SUFFICES ASSUME Next PROVE DialerNext \/ UNCHANGED dialer
    BY DEF allVars, hosts
<1>1. CASE Hosts
    BY <1>1 DEF Hosts, Call, Work, Clean, DialerNext
<1>2. ASSUME NEW r \in Threads, DoReturns(r) \/ Send(r) \/ Redirect(r) PROVE UNCHANGED dialer
    BY <1>2 DEF DoReturns, Send, Redirect, hosts
<1>3. ASSUME NEW u \in setting.callers, Caller(u) PROVE UNCHANGED dialer
    BY <1>3 DEF Caller, GetFirst, GetSecond, GetURL, DoDeadline, Start, CallOther, OtherEnds,
                TooLate, Receive, TimesOut, Penalize, TakeBack, hosts
<1>4. ASSUME NEW c \in Clients, PenaltyEnds(c) PROVE UNCHANGED dialer
    BY <1>4 DEF PenaltyEnds, hosts
<1> QED BY <1>1, <1>2, <1>3, <1>4 DEF Next

LEMMA DialInit == CallsInit => DialInv
<1> SUFFICES ASSUME DialerInit PROVE DialInv
    BY DEF CallsInit
<1>1. Busy = {} /\ Cardinality({}) = 0
    BY FS_EmptySet DEF DialerInit, Busy
<1>2. DialTypes
    BY DialAssumption DEF DialerInit, DialTypes
<1> QED BY <1>1, <1>2 DEF DialerInit, DialInv, DialBooks, Channels, OwnChannels, SlotsExact, PendingIsResolved

LEMMA BusyIsFinite == DialTypes => IsFiniteSet(Busy) /\ Cardinality(Busy) \in Nat
<1>1. Busy \subseteq Dials
    BY DEF Busy
<1> QED BY <1>1, DialAssumption, FS_Subset, FS_CardinalityType

\* A dial before it has a channel.
LEMMA BeforeDial ==
    ASSUME DialBooks, NEW r \in Threads, NEW p \in {"none", "resolve", "slot"}, result[r] = Nil,
           dpc' = [dpc EXCEPT ![r] = p], left' \in [Threads -> 0..Addrs], result' = result,
           UNCHANGED network, entry' \in {"none", "fresh", "old", "pending"}
    PROVE  DialBooks'
<1>0. UNCHANGED <<dials, leaving, slots, result>>
    BY DEF network
<1>1. DialTypes'
    BY <1>0 DEF DialBooks, DialTypes
<1>2. Channels'
    BY <1>0 DEF DialBooks, DialTypes, Channels
<1>3. OwnChannels' /\ SlotsExact'
    BY <1>0 DEF DialBooks, OwnChannels, SlotsExact, Busy
<1> QED BY <1>1, <1>2, <1>3 DEF DialBooks

\* A dial leaves its channel, if it has one, which is free if nobody will send.
LEMMA LeaveChannel ==
    ASSUME DialBooks, NEW r \in Threads, NEW p \in {"none", "slot"},
           dpc' = [dpc EXCEPT ![r] = p], left' \in [Threads -> 0..Addrs],
           result' = [result EXCEPT ![r] = Nil],
           dials' = [d \in Dials |-> IF d = result[r] /\ dials[d] # "dialing" THEN "free" ELSE dials[d]],
           UNCHANGED <<leaving, slots, entry>>
    PROVE  DialBooks'
<1>0. /\ result \in [Threads -> Dials \cup {Nil}] /\ Nil \notin Dials
      /\ dials \in [Dials -> {"free", "dialing", "conn", "err"}]
      /\ dpc \in [Threads -> {"none", "resolve", "slot", "result"}]
    BY CallAssumption DEF DialBooks, DialTypes
<1>1. DialTypes'
    <2>1. dials' \in [Dials -> {"free", "dialing", "conn", "err"}]
        BY <1>0
    <2> QED BY <1>0, <2>1 DEF DialBooks, DialTypes
<1>2. ASSUME NEW s \in Threads, result'[s] # Nil
      PROVE  s # r /\ result'[s] = result[s] /\ result[s] # result[r] /\ dials'[result[s]] = dials[result[s]]
    BY <1>0, <1>2 DEF DialBooks, OwnChannels
<1>3. Channels'
    <2>1. ASSUME NEW s \in Threads PROVE dpc'[s] = "result" <=> result'[s] # Nil
        BY <1>0 DEF DialBooks, Channels
    <2>2. ASSUME NEW s \in Threads, result'[s] # Nil PROVE dials'[result'[s]] # "free"
        BY <1>2, <2>2 DEF DialBooks, Channels
    <2> QED BY <2>1, <2>2 DEF Channels
<1>4. OwnChannels'
    BY <1>2 DEF DialBooks, OwnChannels
<1>5. SlotsExact'
    <2>1. Busy' = Busy
        BY <1>0 DEF Busy
    <2> QED BY <2>1 DEF DialBooks, SlotsExact
<1> QED BY <1>1, <1>3, <1>4, <1>5 DEF DialBooks

LEMMA StartDialBooks ==
    ASSUME DialBooks, NEW r \in Threads, StartDial(r)
    PROVE  DialBooks'
<1>0. PICK d \in Dials :
          /\ dpc[r] = "slot" /\ dpc' = [dpc EXCEPT ![r] = "result"]
          /\ slots < MaxDials /\ slots' = slots + 1
          /\ dials[d] = "free" /\ dials' = [dials EXCEPT ![d] = "dialing"]
          /\ result' = [result EXCEPT ![r] = d] /\ UNCHANGED <<left, leaving, entry>>
    BY DEF StartDial, At1, To
<1>1. /\ result \in [Threads -> Dials \cup {Nil}] /\ Nil \notin Dials
      /\ dials \in [Dials -> {"free", "dialing", "conn", "err"}]
      /\ dpc \in [Threads -> {"none", "resolve", "slot", "result"}]
      /\ slots \in 0..MaxDials /\ MaxDials \in Nat
    BY CallAssumption, DialAssumption DEF DialBooks, DialTypes
<1>2. DialTypes'
    <2>1. slots' \in 0..MaxDials
        BY <1>0, <1>1
    <2> QED BY <1>0, <1>1, <2>1 DEF DialBooks, DialTypes
<1>3. \A s \in Threads : result[s] # d
    BY <1>0, <1>1 DEF DialBooks, Channels
<1>4. Channels'
    BY <1>0, <1>1 DEF DialBooks, Channels
<1>5. OwnChannels'
    BY <1>0, <1>1, <1>3 DEF DialBooks, OwnChannels
<1>6. SlotsExact'
    <2>1. Busy' = Busy \cup {d} /\ d \notin Busy
        BY <1>0, <1>1 DEF Busy
    <2>2. IsFiniteSet(Busy) /\ Cardinality(Busy) \in Nat
        BY BusyIsFinite DEF DialBooks
    <2>3. Cardinality(Busy') = Cardinality(Busy) + 1
        BY <2>1, <2>2, FS_AddElement
    <2> QED BY <1>0, <2>2, <2>3 DEF DialBooks, DialTypes, SlotsExact
<1> QED BY <1>2, <1>4, <1>5, <1>6 DEF DialBooks

LEMMA DialEndsBooks ==
    ASSUME DialBooks, NEW d \in Dials, DialEnds(d)
    PROVE  DialBooks'
<1>0. PICK dr \in {"conn", "err"} :
          /\ dials[d] = "dialing" /\ leaving' = leaving + 1
          /\ dials' = [dials EXCEPT ![d] = IF \E r \in Threads : result[r] = d THEN dr ELSE "free"]
          /\ UNCHANGED <<dpc, left, result, slots, entry>>
    BY DEF DialEnds, dialing
<1>1. /\ result \in [Threads -> Dials \cup {Nil}] /\ Nil \notin Dials
      /\ dials \in [Dials -> {"free", "dialing", "conn", "err"}] /\ leaving \in Nat
    BY CallAssumption DEF DialBooks, DialTypes
<1>2. DialTypes'
    BY <1>0, <1>1 DEF DialBooks, DialTypes
<1>3. Channels'
    BY <1>0, <1>1 DEF DialBooks, Channels
<1>4. OwnChannels'
    BY <1>0 DEF DialBooks, OwnChannels
<1>5. SlotsExact'
    <2>1. Busy' = Busy \ {d} /\ d \in Busy
        BY <1>0, <1>1 DEF Busy
    <2>2. IsFiniteSet(Busy) /\ Cardinality(Busy) \in Nat
        BY BusyIsFinite DEF DialBooks
    <2>3. Cardinality(Busy') = Cardinality(Busy) - 1
        BY <2>1, <2>2, FS_RemoveElement
    <2> QED BY <1>0, <1>1, <2>2, <2>3 DEF DialBooks, SlotsExact
<1> QED BY <1>2, <1>3, <1>4, <1>5 DEF DialBooks

LEMMA DialBooksNext == DialBooks /\ [DialerNext]_dialer => DialBooks'
<1> SUFFICES ASSUME DialBooks, [DialerNext]_dialer PROVE DialBooks'
    OBVIOUS
<1>0. /\ dpc \in [Threads -> {"none", "resolve", "slot", "result"}] /\ left \in [Threads -> 0..Addrs]
      /\ result \in [Threads -> Dials \cup {Nil}] /\ Nil \notin Dials
      /\ dials \in [Dials -> {"free", "dialing", "conn", "err"}]
      /\ entry \in {"none", "fresh", "old", "pending"} /\ Addrs \in Nat \ {0}
    BY CallAssumption, DialAssumption DEF DialBooks, DialTypes
<1>1. ASSUME NEW r \in Threads, Dialing(r) PROVE DialBooks'
    <2>1. CASE LookUp(r) \/ Resolve(r) \/ ResolveFails(r)
        <3>1. result[r] = Nil
            BY <2>1 DEF LookUp, Resolve, ResolveFails, At1, DialBooks, Channels
        <3>2. PICK p \in {"none", "resolve", "slot"} : dpc' = [dpc EXCEPT ![r] = p]
            BY <2>1 DEF LookUp, Resolve, ResolveFails, Resolved, Over, To
        <3>3. left' \in [Threads -> 0..Addrs] /\ result' = result
            BY <1>0, <2>1, <3>1 DEF LookUp, Resolve, ResolveFails, Resolved, Over
        <3>4. UNCHANGED network /\ entry' \in {"none", "fresh", "old", "pending"}
            BY <1>0, <2>1 DEF LookUp, Resolve, ResolveFails
        <3> QED BY <3>1, <3>2, <3>3, <3>4, BeforeDial
    <2>2. CASE StartDial(r)
        BY <2>2, StartDialBooks
    <2>3. CASE TimeOut(r)
        <3>1. dpc' = [dpc EXCEPT ![r] = "none"] /\ result' = [result EXCEPT ![r] = Nil]
            BY <2>3 DEF TimeOut, Over, To
        <3>2. left' \in [Threads -> 0..Addrs]
            BY <1>0, <2>3 DEF TimeOut, Over
        <3>3. /\ UNCHANGED <<leaving, slots, entry>>
              /\ dials' = [d \in Dials |-> IF d = result[r] /\ dials[d] # "dialing" THEN "free" ELSE dials[d]]
            BY <2>3 DEF TimeOut
        <3> QED BY <3>1, <3>2, <3>3, LeaveChannel
    <2>4. CASE Connected(r) \/ NextAddr(r) \/ Unreachable(r)
        <3>1. PICK p \in {"none", "slot"} : dpc' = [dpc EXCEPT ![r] = p]
            BY <2>4 DEF Connected, NextAddr, Unreachable, Over, To
        <3>2. result' = [result EXCEPT ![r] = Nil] /\ UNCHANGED <<leaving, slots, entry>>
            BY <2>4 DEF Connected, NextAddr, Unreachable, Over
        <3>3. left' \in [Threads -> 0..Addrs]
            <4>1. CASE NextAddr(r)
                <5>1. left[r] > 1 /\ left' = [left EXCEPT ![r] = left[r] - 1]
                    BY <4>1 DEF NextAddr
                <5> QED BY <1>0, <5>1
            <4>2. CASE Connected(r) \/ Unreachable(r)
                BY <1>0, <4>2 DEF Connected, Unreachable, Over
            <4> QED BY <2>4, <4>1, <4>2
        <3>4. /\ dials[result[r]] \in {"conn", "err"} /\ dpc[r] = "result"
              /\ dials' = [dials EXCEPT ![result[r]] = "free"]
            BY <2>4 DEF Connected, NextAddr, Unreachable, Got, At1
        <3>5. dials' = [d \in Dials |-> IF d = result[r] /\ dials[d] # "dialing" THEN "free" ELSE dials[d]]
            BY <1>0, <3>4
        <3> QED BY <3>1, <3>2, <3>3, <3>5, LeaveChannel
    <2> QED BY <1>1, <2>1, <2>2, <2>3, <2>4 DEF Dialing
<1>2. ASSUME Dialer PROVE DialBooks'
    <2>1. CASE LeaveSlot
        <3>0. /\ leaving > 0 /\ leaving' = leaving - 1 /\ slots' = slots - 1
              /\ UNCHANGED <<dpc, left, result, dials, entry>>
            BY <2>1 DEF LeaveSlot, dialing
        <3>1. IsFiniteSet(Busy) /\ Cardinality(Busy) \in Nat
            BY BusyIsFinite DEF DialBooks
        <3>2. slots = leaving + Cardinality(Busy) /\ leaving \in Nat /\ slots \in 0..MaxDials /\ MaxDials \in Nat
            BY DialAssumption DEF DialBooks, DialTypes, SlotsExact
        <3>3. slots' \in 0..MaxDials /\ leaving' \in Nat /\ slots' = leaving' + Cardinality(Busy)
            BY <3>0, <3>1, <3>2
        <3>4. DialTypes' /\ Channels' /\ OwnChannels'
            BY <3>0, <3>3 DEF DialBooks, DialTypes, Channels, OwnChannels
        <3>5. Busy' = Busy
            BY <3>0 DEF Busy
        <3> QED BY <3>3, <3>4, <3>5 DEF DialBooks, SlotsExact
    <2>2. CASE Age \/ TcpAddrsClean
        BY <2>2 DEF Age, TcpAddrsClean, dialing, network, DialBooks, DialTypes, Channels, OwnChannels, SlotsExact, Busy
    <2> QED BY <1>2, <2>1, <2>2, DialEndsBooks DEF Dialer
<1>3. CASE UNCHANGED dialer
    BY <1>3 DEF dialer, dialing, DialBooks, DialTypes, Channels, OwnChannels, SlotsExact, Busy
<1> QED BY <1>1, <1>2, <1>3 DEF DialerNext

\* Who takes an old entry to resolve it makes it fresh, old again, or finds it gone.
LEMMA PendingNext == DialTypes /\ PendingIsResolved /\ [DialerNext]_dialer => PendingIsResolved'
<1> SUFFICES ASSUME DialTypes, PendingIsResolved, [DialerNext]_dialer, entry' = "pending"
             PROVE  \E r \in Threads : dpc'[r] = "resolve"
    BY DEF PendingIsResolved
<1>0. dpc \in [Threads -> {"none", "resolve", "slot", "result"}]
    BY DEF DialTypes
<1>1. CASE entry = "pending"
    <2>1. PICK s \in Threads : dpc[s] = "resolve"
        BY <1>1 DEF PendingIsResolved
    <2>2. ASSUME NEW r \in Threads, Dialing(r) PROVE dpc'[s] = "resolve"
        <3>1. ~Resolve(r) /\ ~ResolveFails(r)
            BY <1>1 DEF Resolve, ResolveFails
        <3>2. dpc[r] # "resolve" /\ \A t \in Threads \ {r} : dpc'[t] = dpc[t]
            BY <1>0, <2>2, <3>1 DEF Dialing, LookUp, StartDial, TimeOut, Connected, NextAddr, Unreachable,
                                    Got, At1, Resolved, Over, To
        <3> QED BY <2>1, <3>2
    <2>3. CASE Dialer \/ UNCHANGED dialer
        BY <2>1, <2>3 DEF Dialer, DialEnds, LeaveSlot, Age, TcpAddrsClean, dialer, dialing
    <2> QED BY <2>1, <2>2, <2>3 DEF DialerNext
<1>2. CASE entry # "pending"
    <2>1. PICK r \in Threads : LookUp(r) /\ entry = "old"
        BY <1>2 DEF DialerNext, Dialing, LookUp, Resolve, ResolveFails, StartDial, TimeOut, Connected, NextAddr,
                    Unreachable, Dialer, DialEnds, LeaveSlot, Age, TcpAddrsClean, dialer
    <2>2. dpc'[r] = "resolve"
        BY <1>0, <2>1 DEF LookUp, To
    <2> QED BY <2>2
<1> QED BY <1>1, <1>2

\* The places of maxDialConcurrency are exactly those of the goroutines that dial
\* or have not left, at most so many; every dial receives from a channel of its
\* own; and an entry of tcpAddrsMap is pending only while somebody resolves it.
THEOREM DialerBooks == Spec => []DialerKeepsItsBooks
<1>1. DialInv /\ [Next]_allVars => DialInv'
    BY DialerSteps, DialBooksNext, PendingNext DEF DialInv, DialBooks
<1>2. DialInv => DialerKeepsItsBooks
    BY DialAssumption DEF DialInv, DialBooks, DialTypes, OwnChannels, SlotsExact, Busy, PendingIsResolved,
                          DialerKeepsItsBooks
<1> QED BY <1>1, <1>2, DialInit, PTL DEF Spec

-------------------------------------------------------------------------------
(* The calls with deadlines and the penalties                                   *)

CallVars == <<running, good, calls>>

UPlaces == {"idle", "get", "call", "other", "wait", "penalize", "over"}

LEMMA CallSteps ==
    CallTypes /\ [Next]_allVars =>
        \/ \E u \in Callers : Caller(u)
        \/ \E r \in Threads : DoReturns(r) \/ Send(r) \/ Redirect(r)
        \/ \E c \in Clients : PenaltyEnds(c)
        \/ UNCHANGED CallVars
<1>1. CallTypes => \A u \in setting.callers : u \in Callers
    BY CallAssumption DEF CallTypes
<1> QED BY <1>1 DEF Next, allVars, CallVars

LEMMA CallInit ==
    ASSUME CallsInit
    PROVE  CallTypes
<1>1. 0 \in Clients /\ 0 \in Nat /\ 0 \in 0..MaxRedirects
    BY CallAssumption DEF Clients
<1> QED BY <1>1 DEF CallsInit, CallTypes

LEMMA LoadIsNat ==
    ASSUME CallTypes, NEW c \in Clients
    PROVE  PendingRequests(c) \in Nat
<1>1. IsFiniteSet(running) /\ IsFiniteSet({v \in Callers : upc[v] = "other"})
    BY FiniteAssumption, CallAssumption, FS_Subset DEF CallTypes
<1>2. Cardinality(running) \in Nat /\ Cardinality({v \in Callers : upc[v] = "other"}) \in Nat
    BY <1>1, FS_CardinalityType
<1>3. penalty[c] \in Nat
    BY DEF CallTypes
<1> QED BY <1>2, <1>3 DEF PendingRequests

\* What the steps of a caller have in common.
LEMMA CallerMoves ==
    ASSUME CallTypes, NEW u \in Callers, Caller(u), ~Penalize(u), ~TakeBack(u)
    PROVE  /\ UNCHANGED <<setting, penalty, timers>> /\ nextIdx' \in Clients /\ upc[u] # "over"
           /\ \E p \in UPlaces \ {"over"}, c \in Clients :
                 /\ upc' = [upc EXCEPT ![u] = p]
                 /\ client' = [client EXCEPT ![u] = c]
<1>0. /\ client \in [Callers -> Clients] /\ client[u] \in Clients /\ client = [client EXCEPT ![u] = client[u]]
      /\ nextIdx \in Clients /\ 0 \in Clients /\ \A c \in Clients : 1 - c \in Clients
    BY DEF CallTypes, Clients
<1>1. CASE GetFirst(u)
    <2>1. /\ upc[u] = "idle" /\ UNCHANGED <<setting, penalty, timers>> /\ nextIdx' = 1 - nextIdx
          /\ client' = [client EXCEPT ![u] = nextIdx']
          /\ upc' = [upc EXCEPT ![u] = IF least'[u] = 0 THEN "call" ELSE "get"]
        BY <1>1 DEF GetFirst, ToPlace
    <2>2. nextIdx' \in Clients
        BY <1>0, <2>1
    <2>3. "call" \in UPlaces \ {"over"} /\ "get" \in UPlaces \ {"over"}
        BY DEF UPlaces
    <2> QED BY <2>1, <2>2, <2>3
<1>2. CASE GetSecond(u)
    <2>1. /\ upc[u] = "get" /\ UNCHANGED <<setting, penalty, timers, nextIdx>>
          /\ client' = [client EXCEPT ![u] = IF PendingRequests(1 - client[u]) < least[u] THEN 1 - client[u] ELSE client[u]]
          /\ upc' = [upc EXCEPT ![u] = "call"]
        BY <1>2 DEF GetSecond, ToPlace, balance
    <2>2. "call" \in UPlaces \ {"over"}
        BY DEF UPlaces
    <2>3. (IF PendingRequests(1 - client[u]) < least[u] THEN 1 - client[u] ELSE client[u]) \in Clients
        BY <1>0
    <2> QED BY <1>0, <2>1, <2>2, <2>3
<1>3. CASE GetURL(u) \/ DoDeadline(u)
    <2>1. /\ upc[u] \in {"idle", "call"} /\ UNCHANGED <<setting, penalty, timers, nextIdx, client>>
          /\ upc' = [upc EXCEPT ![u] = "wait"]
        BY <1>3 DEF GetURL, DoDeadline, Start, ToPlace, balance
    <2>2. "wait" \in UPlaces \ {"over"}
        BY DEF UPlaces
    <2> QED BY <1>0, <2>1, <2>2
<1>4. CASE CallOther(u)
    <2>1. /\ upc[u] = "call" /\ UNCHANGED <<setting, penalty, timers, nextIdx, client>>
          /\ upc' = [upc EXCEPT ![u] = "other"]
        BY <1>4 DEF CallOther, ToPlace, balance
    <2>2. "other" \in UPlaces \ {"over"}
        BY DEF UPlaces
    <2> QED BY <1>0, <2>1, <2>2
<1>5. ASSUME NEW err \in BOOLEAN, Result(u, err)
      PROVE  \E p \in UPlaces \ {"over"}, c \in Clients :
                 upc' = [upc EXCEPT ![u] = p] /\ client' = [client EXCEPT ![u] = c]
    <2>1. "penalize" \in UPlaces \ {"over"} /\ "idle" \in UPlaces \ {"over"}
        BY DEF UPlaces
    <2>2. /\ upc' = [upc EXCEPT ![u] = IF err THEN "penalize" ELSE "idle"]
          /\ client' = [client EXCEPT ![u] = IF err THEN client[u] ELSE 0]
        BY <1>5 DEF Result, ToPlace
    <2> QED BY <1>0, <2>1, <2>2
<1>6. CASE OtherEnds(u) \/ TooLate(u)
    <2>1. /\ upc[u] # "over" /\ UNCHANGED <<setting, penalty, timers, nextIdx>>
          /\ \E err \in BOOLEAN : Result(u, err)
        BY <1>6 DEF OtherEnds, TooLate, balance
    <2> QED BY <1>0, <1>5, <2>1
<1>7. CASE Receive(u) \/ TimesOut(u)
    <2>1. /\ upc[u] # "over" /\ UNCHANGED <<setting, penalty, timers, nextIdx>>
          /\ \E err \in BOOLEAN : Result(u, err)
        BY <1>7 DEF Receive, TimesOut, End, balance
    <2> QED BY <1>0, <1>5, <2>1
<1> QED BY <1>1, <1>2, <1>3, <1>4, <1>6, <1>7 DEF Caller

\* Who waits does so for a goroutine of its own that has a kit, and what was sent
\* is still waited for.
Jobs ==
    /\ \A u \in Callers : /\ job[u] # Nil <=> upc[u] = "wait"
                          /\ job[u] # Nil => kit[job[u]] # Nil
    /\ \A u, v \in Callers : job[u] # Nil /\ job[u] = job[v] => u = v
    /\ \A k \in Kits : sent[k] # Nil => kit[sent[k]] = k /\ Waited(sent[k])
    /\ \A r \in getting : kit[r] # Nil

KitTypes ==
    /\ upc \in [Callers -> UPlaces] /\ job \in [Callers -> Threads \cup {Nil}]
    /\ kit \in [Threads -> Kits \cup {Nil}] /\ sent \in [Kits -> Threads \cup {Nil}] /\ pooled \subseteq Kits
    /\ running \cup good \cup getting \subseteq Threads /\ redirects \in [Threads -> 0..MaxRedirects]

KitInv == KitTypes /\ Jobs /\ AnswersAreOwn

\* A caller that goes from one place to another, and waits at neither.
LEMMA AsideKits ==
    ASSUME KitInv, NEW u \in Callers, NEW p \in UPlaces \ {"wait"}, upc[u] # "wait",
           upc' = [upc EXCEPT ![u] = p], UNCHANGED <<job, kits, gets, running, good>>
    PROVE  KitInv'
<1>0. UNCHANGED <<job, kit, sent, pooled, getting, redirects, running, good>>
    BY DEF kits, gets
<1>1. KitTypes'
    BY <1>0 DEF KitInv, KitTypes
<1>2. \A v \in Callers : upc'[v] = "wait" <=> upc[v] = "wait"
    BY DEF KitInv, KitTypes
<1>3. Jobs'
    BY <1>0, <1>2 DEF KitInv, Jobs, Waited
<1>4. AnswersAreOwn'
    BY <1>0, <1>2 DEF KitInv, AnswersAreOwn
<1> QED BY <1>1, <1>3, <1>4 DEF KitInv

LEMMA StartKits ==
    ASSUME KitInv, NEW u \in Callers, NEW follow \in BOOLEAN, upc[u] \in {"idle", "call"},
           \A r \in setting.threads : r \in Threads, Start(u, follow)
    PROVE  KitInv'
<1>0. /\ KitTypes /\ Nil \notin Threads /\ Nil \notin Kits
      /\ job \in [Callers -> Threads \cup {Nil}] /\ kit \in [Threads -> Kits \cup {Nil}]
      /\ sent \in [Kits -> Threads \cup {Nil}] /\ upc \in [Callers -> UPlaces]
    BY NilAssumption, CallAssumption DEF KitInv, KitTypes
<1>1. PICK r \in Threads, k \in Kits :
          /\ kit[r] = Nil /\ Acquired(k)
          /\ running' = running \cup {r} /\ kit' = [kit EXCEPT ![r] = k]
          /\ pooled' = pooled \ {k} /\ job' = [job EXCEPT ![u] = r]
          /\ getting' = IF follow THEN getting \cup {r} ELSE getting
          /\ upc' = [upc EXCEPT ![u] = "wait"]
          /\ UNCHANGED <<good, sent, redirects>>
    BY DEF Start, ToPlace
<1>2. (\A t \in Threads : kit[t] # k) /\ sent[k] = Nil
    <2>1. \A t \in Threads : kit[t] # k
        BY <1>0, <1>1 DEF Acquired, Held, KitInv, AnswersAreOwn
    <2>2. sent[k] # Nil => kit[sent[k]] = k /\ sent[k] \in Threads
        BY <1>0 DEF KitInv, Jobs
    <2> QED BY <2>1, <2>2
<1>3. job[u] = Nil /\ \A v \in Callers : job[v] # r
    BY <1>0, <1>1 DEF KitInv, Jobs
<1>4. /\ kit'[r] = k /\ \A t \in Threads \ {r} : kit'[t] = kit[t]
      /\ job'[u] = r /\ \A v \in Callers \ {u} : job'[v] = job[v] /\ upc'[v] = upc[v]
      /\ upc'[u] = "wait"
    BY <1>0, <1>1
<1>5. KitTypes'
    BY <1>0, <1>1 DEF KitTypes, UPlaces
<1>6. Jobs'
    <2>1. ASSUME NEW v \in Callers
          PROVE  (job'[v] # Nil <=> upc'[v] = "wait") /\ (job'[v] # Nil => kit'[job'[v]] # Nil)
        <3>1. CASE v = u
            BY <1>0, <1>4, <3>1
        <3>2. CASE v # u
            BY <1>0, <1>3, <1>4, <3>2 DEF KitInv, Jobs
        <3> QED BY <3>1, <3>2
    <2>2. ASSUME NEW v \in Callers, NEW w \in Callers, job'[v] # Nil, job'[v] = job'[w] PROVE v = w
        BY <1>3, <1>4, <2>2 DEF KitInv, Jobs
    <2>3. ASSUME NEW j \in Kits, sent'[j] # Nil PROVE kit'[sent'[j]] = j /\ Waited(sent[j])'
        <3>1. sent[j] \in Threads /\ sent[j] # r /\ kit[sent[j]] = j /\ Waited(sent[j])
            BY <1>0, <1>1, <2>3 DEF KitInv, Jobs
        <3>2. PICK v \in Callers : job[v] = sent[j]
            BY <3>1 DEF Waited
        <3>3. v # u
            BY <1>0, <1>3, <3>1, <3>2
        <3> QED BY <1>1, <1>4, <3>1, <3>2, <3>3 DEF Waited
    <2>4. \A t \in getting' : kit'[t] # Nil
        BY <1>0, <1>1, <1>4 DEF KitInv, Jobs, KitTypes
    <2> QED BY <1>1, <2>1, <2>2, <2>3, <2>4 DEF Jobs, Waited
<1>7. AnswersAreOwn'
    <2>1. ASSUME NEW t \in Threads, kit'[t] # Nil
          PROVE  kit'[t] \notin pooled' /\ \A s \in Threads \ {t} : kit'[s] # kit'[t]
        BY <1>0, <1>1, <1>2, <1>4, <2>1 DEF KitInv, AnswersAreOwn
    <2>2. ASSUME NEW t \in running' PROVE kit'[t] # Nil /\ sent'[kit'[t]] = Nil
        <3>1. CASE t = r
            BY <1>0, <1>1, <1>2, <1>4, <3>1
        <3>2. CASE t # r
            BY <1>0, <1>1, <1>4, <3>2 DEF KitInv, AnswersAreOwn, KitTypes
        <3> QED BY <3>1, <3>2
    <2>3. \A j \in pooled' : sent'[j] = Nil
        BY <1>1 DEF KitInv, AnswersAreOwn
    <2>4. ASSUME NEW v \in Callers, upc'[v] = "wait" PROVE sent'[kit'[job'[v]]] \in {Nil, job'[v]}
        <3>1. CASE v = u
            BY <1>1, <1>2, <1>4, <3>1
        <3>2. CASE v # u
            <4>1. upc[v] = "wait" /\ job'[v] = job[v] /\ job[v] \in Threads /\ job[v] # r
                BY <1>0, <1>3, <1>4, <2>4, <3>2 DEF KitInv, Jobs
            <4> QED BY <1>1, <1>4, <4>1 DEF KitInv, AnswersAreOwn
        <3> QED BY <3>1, <3>2
    <2> QED BY <2>1, <2>2, <2>3, <2>4 DEF AnswersAreOwn
<1> QED BY <1>5, <1>6, <1>7 DEF KitInv

\* A goroutine without a kit: its caller has its result, or nobody wants it.
LEMMA FreeKit ==
    ASSUME KitInv, NEW r \in Threads, NEW k \in Kits, kit[r] = k, r \notin running,
           kit' = [kit EXCEPT ![r] = Nil], sent' = [sent EXCEPT ![k] = Nil],
           pooled' \in {pooled, pooled \cup {k}},
           running' = running, getting' = getting \ {r}, redirects' = [redirects EXCEPT ![r] = 0],
           good' = good \ {r},
           upc' \in [Callers -> UPlaces], job' \in [Callers -> Threads \cup {Nil}],
           \A v \in Callers :
               \/ job[v] # r /\ job'[v] = job[v] /\ (upc'[v] = "wait" <=> upc[v] = "wait")
               \/ job[v] = r /\ job'[v] = Nil /\ upc'[v] # "wait"
    PROVE  KitInv'
<1>0. /\ KitTypes /\ Nil \notin Threads /\ Nil \notin Kits /\ 0 \in 0..MaxRedirects
      /\ job \in [Callers -> Threads \cup {Nil}] /\ kit \in [Threads -> Kits \cup {Nil}]
      /\ sent \in [Kits -> Threads \cup {Nil}] /\ redirects \in [Threads -> 0..MaxRedirects]
    BY NilAssumption, CallAssumption DEF KitInv, KitTypes
<1>1. /\ kit'[r] = Nil /\ \A t \in Threads \ {r} : kit'[t] = kit[t]
      /\ sent'[k] = Nil /\ \A j \in Kits \ {k} : sent'[j] = sent[j]
    BY <1>0
<1>2. KitTypes'
    BY <1>0 DEF KitTypes
<1>3. \A t \in Threads \ {r} : kit[t] # k
    BY <1>0 DEF KitInv, AnswersAreOwn
<1>4. Jobs'
    <2>1. ASSUME NEW v \in Callers
          PROVE  (job'[v] # Nil <=> upc'[v] = "wait") /\ (job'[v] # Nil => kit'[job'[v]] # Nil)
        <3>1. CASE job[v] = r
            BY <1>0, <3>1
        <3>2. CASE job[v] # r
            BY <1>0, <1>1, <3>2 DEF KitInv, Jobs
        <3> QED BY <3>1, <3>2
    <2>2. ASSUME NEW v \in Callers, NEW w \in Callers, job'[v] # Nil, job'[v] = job'[w] PROVE v = w
        BY <2>2 DEF KitInv, Jobs
    <2>3. ASSUME NEW j \in Kits, sent'[j] # Nil PROVE kit'[sent'[j]] = j /\ Waited(sent[j])'
        <3>1. j # k /\ sent'[j] = sent[j] /\ sent[j] \in Threads /\ kit[sent[j]] = j /\ sent[j] # r
            BY <1>0, <1>1, <2>3 DEF KitInv, Jobs
        <3>2. PICK v \in Callers : job[v] = sent[j]
            BY <1>1, <2>3, <3>1 DEF KitInv, Jobs, Waited
        <3> QED BY <1>1, <3>1, <3>2 DEF Waited
    <2>4. \A t \in getting' : kit'[t] # Nil
        BY <1>0, <1>1 DEF KitInv, Jobs, KitTypes
    <2> QED BY <2>1, <2>2, <2>3, <2>4 DEF Jobs, Waited
<1>5. AnswersAreOwn'
    <2>1. ASSUME NEW t \in Threads, kit'[t] # Nil
          PROVE  kit'[t] \notin pooled' /\ \A s \in Threads \ {t} : kit'[s] # kit'[t]
        BY <1>0, <1>1, <1>3, <2>1 DEF KitInv, AnswersAreOwn
    <2>2. ASSUME NEW t \in running' PROVE kit'[t] # Nil /\ sent'[kit'[t]] = Nil
        <3>1. t \in Threads /\ t # r /\ t \in running
            BY <1>0 DEF KitTypes
        <3> QED BY <1>0, <1>1, <1>3, <3>1 DEF KitInv, AnswersAreOwn
    <2>3. ASSUME NEW j \in pooled' PROVE sent'[j] = Nil
        BY <1>0, <1>1 DEF KitInv, AnswersAreOwn, KitTypes
    <2>4. ASSUME NEW v \in Callers, upc'[v] = "wait" PROVE sent'[kit'[job'[v]]] \in {Nil, job'[v]}
        <3>1. job[v] # r /\ job'[v] = job[v] /\ upc[v] = "wait" /\ job[v] \in Threads
            BY <1>0, <2>4 DEF KitInv, Jobs
        <3>2. kit[job[v]] \in Kits /\ kit[job[v]] # k /\ sent[kit[job[v]]] \in {Nil, job[v]}
            BY <1>0, <1>3, <3>1 DEF KitInv, Jobs, AnswersAreOwn
        <3> QED BY <1>1, <3>1, <3>2
    <2> QED BY <2>1, <2>2, <2>3, <2>4 DEF AnswersAreOwn
<1> QED BY <1>2, <1>4, <1>5 DEF KitInv

LEMMA CallerKits ==
    ASSUME CallTypes, KitInv, NEW u \in Callers, Caller(u)
    PROVE  KitInv'
<1>0. /\ KitTypes /\ Nil \notin Threads /\ Nil \notin Kits
      /\ job \in [Callers -> Threads \cup {Nil}] /\ kit \in [Threads -> Kits \cup {Nil}]
      /\ upc \in [Callers -> UPlaces] /\ \A r \in setting.threads : r \in Threads
    BY NilAssumption, CallAssumption DEF KitInv, KitTypes, CallTypes
<1>1. CASE GetURL(u)
    BY <1>0, <1>1, StartKits DEF GetURL
<1>2. CASE DoDeadline(u)
    BY <1>0, <1>2, StartKits DEF DoDeadline
<1>3. CASE GetFirst(u) \/ GetSecond(u) \/ CallOther(u) \/ OtherEnds(u) \/ TooLate(u) \/ Penalize(u) \/ TakeBack(u)
    <2>1. upc[u] # "wait" /\ UNCHANGED <<job, kits, gets, running, good>>
        BY <1>3 DEF GetFirst, GetSecond, CallOther, OtherEnds, TooLate, Penalize, TakeBack
    <2>2. \E p \in {"call", "get", "other", "penalize", "idle", "over"} : upc' = [upc EXCEPT ![u] = p]
        BY <1>3 DEF GetFirst, GetSecond, CallOther, OtherEnds, TooLate, Penalize, TakeBack, Result, ToPlace
    <2>3. PICK p \in UPlaces \ {"wait"} : upc' = [upc EXCEPT ![u] = p]
        BY <2>2 DEF UPlaces
    <2> QED BY <2>1, <2>3, AsideKits
<1>4. CASE Receive(u) \/ TimesOut(u)
    <2> DEFINE r == job[u]
               k == kit[r]
    <2>1. /\ upc[u] = "wait" /\ r \in Threads /\ k \in Kits /\ r # Nil
          /\ \A v \in Callers \ {u} : job[v] # r
        BY <1>0, <1>4 DEF Receive, TimesOut, KitInv, Jobs
    <2>2. PICK p \in {"penalize", "idle"} : upc' = [upc EXCEPT ![u] = p]
        BY <1>4 DEF Receive, TimesOut, End, Result, ToPlace
    <2>3. job' = [job EXCEPT ![u] = Nil] /\ running' = running
        BY <1>4 DEF Receive, TimesOut, End
    <2>4. upc' \in [Callers -> UPlaces] /\ job' \in [Callers -> Threads \cup {Nil}]
        BY <1>0, <2>2, <2>3 DEF UPlaces
    <2>5. CASE sent[k] # Nil
        <3>1. /\ kit' = [kit EXCEPT ![r] = Nil] /\ sent' = [sent EXCEPT ![k] = Nil]
              /\ pooled' \in {pooled, pooled \cup {k}} /\ getting' = getting \ {r}
              /\ redirects' = [redirects EXCEPT ![r] = 0] /\ good' = good \ {r}
            BY <1>4, <2>5 DEF Receive, TimesOut
        <3>2. r \notin running
            BY <2>5 DEF KitInv, AnswersAreOwn
        <3> HIDE DEF r
        <3>3. \A v \in Callers :
                 \/ job[v] # r /\ job'[v] = job[v] /\ (upc'[v] = "wait" <=> upc[v] = "wait")
                 \/ job[v] = r /\ job'[v] = Nil /\ upc'[v] # "wait"
            BY <1>0, <2>1, <2>2, <2>3 DEF r
        <3> HIDE DEF k
        <3>4. k = kit[r]
            BY DEF k
        <3> QED BY <2>1, <2>3, <2>4, <3>1, <3>2, <3>3, <3>4, FreeKit
    <2>6. CASE sent[k] = Nil
        <3>1. UNCHANGED <<kit, sent, pooled, getting, redirects, good>>
            BY <1>4, <2>6 DEF Receive, TimesOut, kits, gets
        <3>2. KitTypes'
            BY <1>0, <2>3, <2>4, <3>1 DEF KitTypes
        <3> HIDE DEF k, r
        <3>3. \A v \in Callers \ {u} : job'[v] = job[v] /\ upc'[v] = upc[v]
            BY <1>0, <2>2, <2>3
        <3>4. job'[u] = Nil /\ upc'[u] # "wait"
            BY <1>0, <2>2, <2>3
        <3>5. Jobs'
            <4>1. ASSUME NEW v \in Callers
                  PROVE  (job'[v] # Nil <=> upc'[v] = "wait") /\ (job'[v] # Nil => kit'[job'[v]] # Nil)
                <5>1. CASE v = u
                    BY <3>4, <5>1
                <5>2. CASE v # u
                    BY <3>1, <3>3, <5>2 DEF KitInv, Jobs
                <5> QED BY <5>1, <5>2
            <4>2. ASSUME NEW v \in Callers, NEW w \in Callers, job'[v] # Nil, job'[v] = job'[w] PROVE v = w
                BY <3>3, <3>4, <4>2 DEF KitInv, Jobs
            <4>3. ASSUME NEW j \in Kits, sent'[j] # Nil PROVE kit'[sent'[j]] = j /\ Waited(sent[j])'
                <5>1. sent[j] # Nil /\ kit[sent[j]] = j /\ Waited(sent[j])
                    BY <3>1, <4>3 DEF KitInv, Jobs
                <5>2. PICK v \in Callers : job[v] = sent[j]
                    BY <5>1 DEF Waited
                <5>3. v # u
                    BY <2>6, <5>1, <5>2 DEF k, r
                <5> QED BY <3>1, <3>3, <5>1, <5>2, <5>3 DEF Waited
            <4>4. \A t \in getting' : kit'[t] # Nil
                BY <3>1 DEF KitInv, Jobs
            <4> QED BY <3>1, <4>1, <4>2, <4>3, <4>4 DEF Jobs, Waited
        <3>6. AnswersAreOwn'
            <4>1. ASSUME NEW v \in Callers, upc'[v] = "wait" PROVE sent'[kit'[job'[v]]] \in {Nil, job'[v]}
                BY <3>1, <3>3, <3>4, <4>1 DEF KitInv, AnswersAreOwn
            <4> QED BY <2>3, <3>1, <4>1 DEF KitInv, AnswersAreOwn
        <3> QED BY <3>2, <3>5, <3>6 DEF KitInv
    <2> QED BY <2>5, <2>6
<1> QED BY <1>1, <1>2, <1>3, <1>4 DEF Caller

LEMMA GoroutineKits ==
    ASSUME KitInv, NEW r \in Threads, DoReturns(r) \/ Send(r) \/ Redirect(r)
    PROVE  KitInv'
<1>0. /\ KitTypes /\ Nil \notin Threads /\ Nil \notin Kits
      /\ job \in [Callers -> Threads \cup {Nil}] /\ kit \in [Threads -> Kits \cup {Nil}]
      /\ sent \in [Kits -> Threads \cup {Nil}]
      /\ upc \in [Callers -> UPlaces] /\ running \cup good \cup getting \subseteq Threads
      /\ redirects \in [Threads -> 0..MaxRedirects] /\ MaxRedirects \in Nat
    BY NilAssumption, CallAssumption DEF KitInv, KitTypes
<1>1. CASE DoReturns(r)
    <2>1. /\ running' \subseteq running /\ good' \subseteq good \cup {r}
          /\ UNCHANGED <<upc, job, kit, sent, pooled, getting, redirects>>
        BY <1>1 DEF DoReturns, calls, kits, gets
    <2>2. KitTypes'
        BY <1>0, <2>1 DEF KitTypes
    <2> QED BY <2>1, <2>2 DEF KitInv, Jobs, Waited, AnswersAreOwn
<1>2. CASE Redirect(r)
    <2>1. /\ r \in getting \ running /\ sent[kit[r]] = Nil /\ redirects[r] < MaxRedirects
          /\ redirects' = [redirects EXCEPT ![r] = redirects[r] + 1] /\ running' = running \cup {r}
          /\ UNCHANGED <<upc, job, kit, sent, pooled, getting, good>>
        BY <1>2 DEF Redirect, kits
    <2>2. KitTypes'
        <3>1. redirects[r] + 1 \in 0..MaxRedirects
            BY <1>0, <2>1
        <3>2. redirects' \in [Threads -> 0..MaxRedirects]
            BY <1>0, <2>1, <3>1
        <3> QED BY <1>0, <2>1, <3>2 DEF KitTypes
    <2>3. kit[r] # Nil
        BY <2>1 DEF KitInv, Jobs
    <2>4. Jobs'
        BY <2>1 DEF KitInv, Jobs, Waited
    <2>5. AnswersAreOwn'
        BY <2>1, <2>3 DEF KitInv, AnswersAreOwn
    <2> QED BY <2>2, <2>4, <2>5 DEF KitInv
<1>3. CASE Send(r) /\ ~Waited(r)
    <2>1. /\ kit[r] # Nil /\ r \notin running /\ sent[kit[r]] = Nil
          /\ kit' = [kit EXCEPT ![r] = Nil] /\ getting' = getting \ {r}
          /\ redirects' = [redirects EXCEPT ![r] = 0] /\ good' = good \ {r}
          /\ UNCHANGED <<sent, running, upc, job, pooled>>
        BY <1>3 DEF Send
    <2>2. PICK k \in Kits : kit[r] = k
        BY <1>0, <2>1
    <2>3. sent' = [sent EXCEPT ![k] = Nil]
        BY <1>0, <2>1, <2>2
    <2>4. \A v \in Callers : job[v] # r
        BY <1>3 DEF Waited
    <2> QED BY <1>0, <2>1, <2>2, <2>3, <2>4, FreeKit
<1>4. CASE Send(r) /\ Waited(r)
    <2>1. /\ kit[r] # Nil /\ r \notin running /\ sent[kit[r]] = Nil
          /\ sent' = [sent EXCEPT ![kit[r]] = r]
          /\ UNCHANGED <<kit, getting, redirects, good, running, upc, job, pooled>>
        BY <1>4 DEF Send, gets
    <2>2. PICK k \in Kits : kit[r] = k
        BY <1>0, <2>1
    <2>3. sent'[k] = r /\ \A j \in Kits \ {k} : sent'[j] = sent[j]
        BY <1>0, <2>1, <2>2
    <2>4. KitTypes'
        BY <1>0, <2>1 DEF KitTypes
    <2>5. Jobs'
        <3>1. ASSUME NEW j \in Kits, sent'[j] # Nil PROVE kit'[sent'[j]] = j /\ \E v \in Callers : job'[v] = sent'[j]
            <4>1. CASE j = k
                BY <1>4, <2>1, <2>2, <2>3, <4>1 DEF Waited
            <4>2. CASE j # k
                BY <2>1, <2>3, <3>1, <4>2 DEF KitInv, Jobs, Waited
            <4> QED BY <4>1, <4>2
        <3> QED BY <2>1, <3>1 DEF KitInv, Jobs, Waited
    <2>6. \A t \in Threads \ {r} : kit[t] # k
        BY <1>0, <2>2 DEF KitInv, AnswersAreOwn
    <2>7. AnswersAreOwn'
        <3>1. ASSUME NEW t \in running PROVE kit[t] # Nil /\ sent'[kit[t]] = Nil
            BY <1>0, <2>1, <2>3, <2>6, <3>1 DEF KitInv, AnswersAreOwn
        <3>2. ASSUME NEW j \in pooled PROVE sent'[j] = Nil
            <4>1. j \in Kits /\ j # k
                BY <1>0, <2>1, <2>2, <3>2 DEF KitInv, AnswersAreOwn, KitTypes
            <4> QED BY <2>3, <3>2, <4>1 DEF KitInv, AnswersAreOwn
        <3>3. ASSUME NEW v \in Callers, upc[v] = "wait" PROVE sent'[kit[job[v]]] \in {Nil, job[v]}
            <4>1. job[v] \in Threads /\ kit[job[v]] \in Kits /\ sent[kit[job[v]]] \in {Nil, job[v]}
                BY <1>0, <3>3 DEF KitInv, Jobs, AnswersAreOwn
            <4>2. CASE job[v] = r
                BY <2>2, <2>3, <4>2
            <4>3. CASE job[v] # r
                BY <2>3, <2>6, <4>1, <4>3
            <4> QED BY <4>2, <4>3
        <3> QED BY <2>1, <3>1, <3>2, <3>3 DEF KitInv, AnswersAreOwn
    <2> QED BY <2>4, <2>5, <2>7 DEF KitInv
<1> QED BY <1>1, <1>2, <1>3, <1>4

\* The penalties: who is at "over" owes one, and so does each timer.
OverAt(c) == {u \in Callers : upc[u] = "over" /\ client[u] = c}

LEMMA OverIsFinite == ASSUME NEW c PROVE IsFiniteSet(OverAt(c)) /\ Cardinality(OverAt(c)) \in Nat
<1>1. OverAt(c) \subseteq Callers
    BY DEF OverAt
<1> QED BY <1>1, CallAssumption, FS_Subset, FS_CardinalityType

\* The part of the types that the penalties need, and what is owed.
BalanceTypes ==
    /\ upc \in [Callers -> UPlaces] /\ client \in [Callers -> Clients] /\ nextIdx \in Clients
    /\ penalty \in [Clients -> Nat] /\ timers \in [Clients -> Nat]

LEMMA PenaltyNext ==
    ASSUME CallTypes, PenaltiesAreOwed, [Next]_allVars
    PROVE  BalanceTypes' /\ PenaltiesAreOwed'
<1>0. /\ upc \in [Callers -> UPlaces] /\ client \in [Callers -> Clients] /\ nextIdx \in Clients
      /\ penalty \in [Clients -> Nat] /\ timers \in [Clients -> Nat] /\ 0 \in Clients
      /\ MaxPenalty \in Nat /\ MaxUint \in Nat
    BY CallAssumption DEF CallTypes, UPlaces, Clients
<1>1. \A c \in Clients : penalty[c] = timers[c] + Cardinality(OverAt(c)) /\ timers[c] <= MaxPenalty
    BY DEF PenaltiesAreOwed, OverAt
<1>2. ASSUME \A c \in Clients : penalty'[c] = timers'[c] + Cardinality(OverAt(c)') /\ timers'[c] <= MaxPenalty
      PROVE  PenaltiesAreOwed'
    BY <1>2 DEF PenaltiesAreOwed, OverAt
<1>3. ASSUME NEW u \in Callers, Caller(u), ~Penalize(u), ~TakeBack(u) PROVE BalanceTypes' /\ PenaltiesAreOwed'
    <2>1. PICK p \in UPlaces \ {"over"}, d \in Clients :
              upc' = [upc EXCEPT ![u] = p] /\ client' = [client EXCEPT ![u] = d]
        BY <1>3, CallerMoves
    <2>2. UNCHANGED <<penalty, timers>> /\ nextIdx' \in Clients /\ upc[u] # "over"
        BY <1>3, CallerMoves
    <2>3. \A c \in Clients : OverAt(c)' = OverAt(c)
        BY <1>0, <2>1, <2>2 DEF OverAt
    <2>4. BalanceTypes'
        BY <1>0, <2>1, <2>2 DEF BalanceTypes
    <2> QED BY <1>1, <1>2, <2>2, <2>3, <2>4
<1>4. ASSUME NEW u \in Callers, Penalize(u) PROVE BalanceTypes' /\ PenaltiesAreOwed'
    <2>0. PICK d \in Clients : d = client[u]
        BY <1>0
    <2>1. d \in Clients /\ penalty[d] \in Nat /\ timers[d] \in Nat
        BY <1>0
    <2>2. /\ upc[u] = "penalize" /\ penalty' = [penalty EXCEPT ![d] = penalty[d] + 1] /\ nextIdx' = nextIdx
        BY <1>4, <2>0 DEF Penalize
    <2>3. penalty'[d] = penalty[d] + 1 /\ \A c \in Clients \ {d} : penalty'[c] = penalty[c]
        BY <1>0, <2>1, <2>2
    <2>4. IsFiniteSet(OverAt(d)) /\ Cardinality(OverAt(d)) \in Nat
        BY OverIsFinite
    <2>5. CASE penalty'[d] > MaxPenalty
        <3>1. upc' = [upc EXCEPT ![u] = "over"] /\ UNCHANGED <<timers, client>>
            BY <1>4, <2>0, <2>5 DEF Penalize, ToPlace
        <3>2. OverAt(d)' = OverAt(d) \cup {u} /\ u \notin OverAt(d)
            BY <1>0, <2>0, <2>2, <3>1 DEF OverAt
        <3>3. \A c \in Clients \ {d} : OverAt(c)' = OverAt(c)
            BY <1>0, <2>0, <2>2, <3>1 DEF OverAt
        <3>4. Cardinality(OverAt(d)') = Cardinality(OverAt(d)) + 1
            BY <2>4, <3>2, FS_AddElement
        <3>5. BalanceTypes'
            BY <1>0, <2>1, <2>2, <3>1 DEF BalanceTypes, UPlaces
        <3>6. \A c \in Clients : penalty'[c] = timers'[c] + Cardinality(OverAt(c)') /\ timers'[c] <= MaxPenalty
            BY <1>1, <2>1, <2>3, <2>4, <3>1, <3>3, <3>4
        <3> QED BY <1>2, <3>5, <3>6
    <2>6. CASE ~(penalty'[d] > MaxPenalty)
        <3>1. /\ upc' = [upc EXCEPT ![u] = "idle"] /\ timers' = [timers EXCEPT ![d] = timers[d] + 1]
              /\ client' = [client EXCEPT ![u] = 0]
            BY <1>4, <2>0, <2>6 DEF Penalize, ToPlace
        <3>2. \A c \in Clients : OverAt(c)' = OverAt(c)
            BY <1>0, <2>0, <2>2, <3>1 DEF OverAt
        <3>3. timers'[d] = timers[d] + 1 /\ \A c \in Clients \ {d} : timers'[c] = timers[c]
            BY <1>0, <2>1, <3>1
        <3>4. BalanceTypes'
            BY <1>0, <2>1, <2>2, <3>1 DEF BalanceTypes, UPlaces
        <3>5. \A c \in Clients : penalty'[c] = timers'[c] + Cardinality(OverAt(c)') /\ timers'[c] <= MaxPenalty
            BY <1>0, <1>1, <2>1, <2>3, <2>4, <2>6, <3>2, <3>3
        <3> QED BY <1>2, <3>4, <3>5
    <2> QED BY <2>5, <2>6
<1>5. ASSUME NEW u \in Callers, TakeBack(u) PROVE BalanceTypes' /\ PenaltiesAreOwed'
    <2>0. PICK d \in Clients : d = client[u]
        BY <1>0
    <2>1. d \in Clients /\ penalty[d] \in Nat /\ timers[d] \in Nat
        BY <1>0
    <2>2. /\ upc[u] = "over" /\ upc' = [upc EXCEPT ![u] = "idle"] /\ client' = [client EXCEPT ![u] = 0]
          /\ UNCHANGED <<timers, nextIdx>>
          /\ penalty' = [penalty EXCEPT ![d] = IF penalty[d] = 0 THEN MaxUint ELSE penalty[d] - 1]
        BY <1>5, <2>0 DEF TakeBack, ToPlace, DecPenalty
    <2>3. OverAt(d)' = OverAt(d) \ {u} /\ u \in OverAt(d)
        BY <1>0, <2>0, <2>2 DEF OverAt
    <2>4. \A c \in Clients \ {d} : OverAt(c)' = OverAt(c)
        BY <1>0, <2>0, <2>2 DEF OverAt
    <2>5. IsFiniteSet(OverAt(d)) /\ Cardinality(OverAt(d)) \in Nat
        BY OverIsFinite
    <2>6. Cardinality(OverAt(d)') = Cardinality(OverAt(d)) - 1 /\ Cardinality(OverAt(d)) # 0
        BY <2>3, <2>5, FS_RemoveElement, FS_EmptySet
    <2>7. penalty[d] # 0
        BY <1>1, <2>1, <2>5, <2>6
    <2>8. penalty'[d] = penalty[d] - 1 /\ \A c \in Clients \ {d} : penalty'[c] = penalty[c]
        BY <1>0, <2>1, <2>2, <2>7
    <2>9. BalanceTypes'
        <3>1. penalty[d] - 1 \in Nat
            BY <2>1, <2>7
        <3> QED BY <1>0, <2>1, <2>2, <2>7, <3>1 DEF BalanceTypes, UPlaces
    <2>10. \A c \in Clients : penalty'[c] = timers'[c] + Cardinality(OverAt(c)') /\ timers'[c] <= MaxPenalty
        BY <1>1, <2>1, <2>2, <2>4, <2>5, <2>6, <2>8
    <2> QED BY <1>2, <2>9, <2>10
<1>6. ASSUME NEW d \in Clients, PenaltyEnds(d) PROVE BalanceTypes' /\ PenaltiesAreOwed'
    <2>1. penalty[d] \in Nat /\ timers[d] \in Nat /\ Cardinality(OverAt(d)) \in Nat
        BY <1>0, OverIsFinite
    <2>2. /\ timers[d] > 0 /\ timers' = [timers EXCEPT ![d] = timers[d] - 1]
          /\ UNCHANGED <<upc, client, nextIdx>>
          /\ penalty' = [penalty EXCEPT ![d] = IF penalty[d] = 0 THEN MaxUint ELSE penalty[d] - 1]
        BY <1>6 DEF PenaltyEnds, DecPenalty
    <2>3. penalty[d] # 0
        BY <1>1, <2>1, <2>2
    <2>4. /\ penalty'[d] = penalty[d] - 1 /\ timers'[d] = timers[d] - 1
          /\ \A c \in Clients \ {d} : penalty'[c] = penalty[c] /\ timers'[c] = timers[c]
        BY <1>0, <2>2, <2>3
    <2>5. BalanceTypes'
        <3>1. penalty[d] - 1 \in Nat /\ timers[d] - 1 \in Nat
            BY <2>1, <2>2, <2>3
        <3> QED BY <1>0, <2>2, <2>3, <3>1 DEF BalanceTypes
    <2>6. \A c \in Clients : OverAt(c)' = OverAt(c)
        BY <2>2 DEF OverAt
    <2>7. \A c \in Clients : penalty'[c] = timers'[c] + Cardinality(OverAt(c)') /\ timers'[c] <= MaxPenalty
        BY <1>0, <1>1, <2>1, <2>4, <2>6
    <2> QED BY <1>2, <2>5, <2>7
<1>7. ASSUME UNCHANGED <<upc, client, nextIdx, penalty, timers>> PROVE BalanceTypes' /\ PenaltiesAreOwed'
    BY <1>0, <1>7 DEF BalanceTypes, PenaltiesAreOwed
<1>8. ASSUME NEW r \in Threads, DoReturns(r) \/ Send(r) \/ Redirect(r)
      PROVE  UNCHANGED <<upc, client, nextIdx, penalty, timers>>
    BY <1>8 DEF DoReturns, Send, Redirect, calls, balance
<1>9. UNCHANGED CallVars => UNCHANGED <<upc, client, nextIdx, penalty, timers>>
    BY DEF CallVars, calls, balance
<1> QED BY <1>3, <1>4, <1>5, <1>6, <1>7, <1>8, <1>9, CallSteps

LEMMA LeastNext ==
    ASSUME CallTypes, [Next]_allVars
    PROVE  setting' = setting /\ least' \in [Callers -> Nat]
<1>0. least \in [Callers -> Nat] /\ nextIdx \in Clients
    BY DEF CallTypes
<1>1. ASSUME NEW u \in Callers, Caller(u) PROVE setting' = setting /\ least' \in [Callers -> Nat]
    <2>1. CASE GetFirst(u)
        <3>1. nextIdx' = 1 - nextIdx /\ least' = [least EXCEPT ![u] = PendingRequests(nextIdx')] /\ setting' = setting
            BY <2>1 DEF GetFirst
        <3>2. PendingRequests(nextIdx') \in Nat
            BY <1>0, <3>1, LoadIsNat DEF Clients
        <3> QED BY <1>0, <3>1, <3>2
    <2>2. CASE GetSecond(u)
        BY <1>0, <2>2 DEF GetSecond
    <2>3. CASE ~GetFirst(u) /\ ~GetSecond(u)
        BY <1>0, <1>1, <2>3 DEF Caller, GetURL, DoDeadline, Start, CallOther, OtherEnds, TooLate, Receive,
                                TimesOut, Penalize, TakeBack
    <2> QED BY <2>1, <2>2, <2>3
<1>2. ASSUME NEW r \in Threads, DoReturns(r) \/ Send(r) \/ Redirect(r) PROVE UNCHANGED <<setting, least>>
    BY <1>2 DEF DoReturns, Send, Redirect, calls
<1>3. ASSUME NEW c \in Clients, PenaltyEnds(c) PROVE UNCHANGED <<setting, least>>
    BY <1>3 DEF PenaltyEnds
<1>4. UNCHANGED CallVars => UNCHANGED <<setting, least>>
    BY DEF CallVars, calls
<1> QED BY <1>0, <1>1, <1>2, <1>3, <1>4, CallSteps

CallInv == CallTypes /\ KitInv /\ PenaltiesAreOwed

LEMMA CallInvInit == CallsInit => CallInv
<1> SUFFICES ASSUME CallsInit PROVE CallInv
    OBVIOUS
<1>1. CallTypes
    BY CallInit
<1>2. KitInv
    BY <1>1 DEF CallsInit, CallTypes, KitInv, KitTypes, UPlaces, Jobs, Waited, AnswersAreOwn
<1>3. PenaltiesAreOwed
    <2>1. \A c \in Clients : {u \in Callers : upc[u] = "over" /\ client[u] = c} = {}
        BY DEF CallsInit
    <2>2. Cardinality({}) = 0
        BY FS_EmptySet
    <2>3. \A c \in Clients : penalty[c] = 0 /\ timers[c] = 0 /\ 0 <= MaxPenalty
        BY CallAssumption DEF CallsInit
    <2>4. 0 = 0 + 0
        OBVIOUS
    <2> QED BY <2>1, <2>2, <2>3, <2>4 DEF PenaltiesAreOwed
<1> QED BY <1>1, <1>2, <1>3 DEF CallInv

LEMMA CallInvNext == CallInv /\ [Next]_allVars => CallInv'
<1> SUFFICES ASSUME CallInv, [Next]_allVars PROVE CallInv'
    OBVIOUS
<1>1. CallTypes /\ KitInv /\ PenaltiesAreOwed
    BY DEF CallInv
<1>2. KitInv'
    <2>1. ASSUME NEW c \in Clients, PenaltyEnds(c) PROVE UNCHANGED <<upc, job, kits, gets, running, good>>
        BY <2>1 DEF PenaltyEnds
    <2>2. UNCHANGED CallVars => UNCHANGED <<upc, job, kits, gets, running, good>>
        BY DEF CallVars, calls
    <2>3. ASSUME UNCHANGED <<upc, job, kits, gets, running, good>> PROVE KitInv'
        BY <1>1, <2>3 DEF KitInv, KitTypes, Jobs, Waited, AnswersAreOwn, kits, gets
    <2> QED BY <1>1, <2>1, <2>2, <2>3, CallSteps, CallerKits, GoroutineKits
<1>3. BalanceTypes' /\ PenaltiesAreOwed'
    BY <1>1, PenaltyNext
<1>4. setting' = setting /\ least' \in [Callers -> Nat]
    BY <1>1, LeastNext
<1>5. CallTypes'
    BY <1>1, <1>2, <1>3, <1>4 DEF CallTypes, KitInv, KitTypes, BalanceTypes, UPlaces
<1> QED BY <1>2, <1>3, <1>5 DEF CallInv

\* A call with a deadline gets the result of its own goroutine or none, and what
\* is in the pools no goroutine uses any more, however late they end.
THEOREM CallAnswersAreOwn == Spec => []AnswersAreOwn
<1>1. CallInv => AnswersAreOwn
    BY DEF CallInv, KitInv
<1> QED BY <1>1, CallInvInit, CallInvNext, PTL DEF Spec

\* A penalty is what the timers and the callers about to take one back owe: it
\* never goes below zero and ends at zero.
THEOREM CallPenaltiesAreOwed == Spec => []PenaltiesAreOwed
<1>1. CallInv => PenaltiesAreOwed
    BY DEF CallInv
<1> QED BY <1>1, CallInvInit, CallInvNext, PTL DEF Spec

-------------------------------------------------------------------------------
(* Client: which HostClients it keeps, and who forgets them.                    *)

LEMMA HostsInitial == HostsInit => HostsTypeOK /\ EachMapHasItsCleaner
<1> SUFFICES ASSUME HostsInit PROVE HostsTypeOK /\ EachMapHasItsCleaner
    OBVIOUS
<1> PICK z \in Schemes : /\ visit = [t \in Visitors |-> Idle(z)]
                         /\ sweeper = [k \in Sweepers |-> Off(z)]
    BY DEF HostsInit
<1>1. HostsTypeOK
    BY DEF HostsInit, HostsTypeOK, Idle, Off
<1>2. \A s \in Schemes : Known(s) = {}
    BY DEF HostsInit, Known
<1>3. \A s \in Schemes : Cleaning(s) = {}
    BY DEF HostsInit, Cleaning, Idle, Off
<1>4. \A s \in Schemes, h \in HostNames : m[s][h] = NoClient
    BY DEF HostsInit
<1> QED BY <1>1, <1>2, <1>3, <1>4 DEF EachMapHasItsCleaner, OneCleanerEach, OnePlaceEach

\* One cleaner at most, in other words.
LEMMA OnlyOne ==
    ASSUME EachMapHasItsCleaner, NEW s \in Schemes, NEW x \in Cleaning(s)
    PROVE  Cleaning(s) = {x} /\ Known(s) # {}
BY DEF EachMapHasItsCleaner, OneCleanerEach, OnePlaceEach

LEMMA HostsTypes == HostsTypeOK /\ [HostsNext]_hostVars => HostsTypeOK'
<1> SUFFICES ASSUME HostsTypeOK, [HostsNext]_hostVars PROVE HostsTypeOK'
    OBVIOUS
<1>1. ASSUME NEW t \in Visitors, NEW s \in Schemes, NEW h \in HostNames, Finds(t, s, h) PROVE HostsTypeOK'
    BY <1>1 DEF Finds, HostsTypeOK
<1>2. ASSUME NEW t \in Visitors, NEW s \in Schemes, NEW h \in HostNames, NEW hc \in HostClients, Adds(t, s, h, hc)
      PROVE  HostsTypeOK'
    BY <1>2 DEF Adds, HostsTypeOK
<1>3. ASSUME NEW t \in Visitors, NEW k \in Sweepers, Spawns(t, k) PROVE HostsTypeOK'
    BY <1>3 DEF Spawns, HostsTypeOK
<1>4. ASSUME NEW t \in Visitors, Attempts(t) PROVE HostsTypeOK'
    BY <1>4 DEF Attempts, HostsTypeOK
<1>5. ASSUME NEW t \in Visitors, Returns(t) PROVE HostsTypeOK'
    BY <1>5 DEF Returns, HostsTypeOK, Idle
<1>6. ASSUME NEW k \in Sweepers, Sweeps(k) PROVE HostsTypeOK'
    <2>1. sweeper[k].scheme \in Schemes
        BY DEF HostsTypeOK
    <2>2. Kept(sweeper[k].scheme) \in [HostNames -> HostClients \cup {NoClient}]
        BY <2>1 DEF HostsTypeOK, Kept
    <2> QED BY <1>6, <2>1, <2>2 DEF Sweeps, HostsTypeOK
<1>7. ASSUME NEW k \in Sweepers, Wakes(k) PROVE HostsTypeOK'
    BY <1>7 DEF Wakes, HostsTypeOK
<1>8. ASSUME Minute PROVE HostsTypeOK'
    BY <1>8 DEF Minute, HostsTypeOK
<1>9. CASE UNCHANGED hostVars
    BY <1>9 DEF hostVars, HostsTypeOK
<1> QED BY <1>1, <1>2, <1>3, <1>4, <1>5, <1>6, <1>7, <1>8, <1>9 DEF HostsNext

\* What leaves the maps and who cleans them alone.
LEMMA NothingMoves ==
    ASSUME EachMapHasItsCleaner, m' = m, \A s \in Schemes : Cleaning(s)' = Cleaning(s)
    PROVE  EachMapHasItsCleaner'
BY DEF EachMapHasItsCleaner, OneCleanerEach, OnePlaceEach, Known

LEMMA OneCleanerMoved ==
    ASSUME EachMapHasItsCleaner, NEW s \in Schemes, NEW x,
           \A z \in Schemes \ {s} : Known(z)' = Known(z) /\ Cleaning(z)' = Cleaning(z),
           IF Known(s)' = {} THEN Cleaning(s)' = {} ELSE Cleaning(s)' = {x}
    PROVE  OneCleanerEach'
<1> SUFFICES ASSUME NEW z \in Schemes
             PROVE  IF Known(z)' = {} THEN Cleaning(z)' = {}
                    ELSE \E y \in Cleaning(z)' : Cleaning(z)' = {y}
    BY DEF OneCleanerEach
<1>1. CASE z = s
    <2>1. x \in {x}
        OBVIOUS
    <2> QED BY <1>1, <2>1
<1>2. CASE z # s
    <2>1. IF Known(z) = {} THEN Cleaning(z) = {} ELSE \E y \in Cleaning(z) : Cleaning(z) = {y}
        BY DEF EachMapHasItsCleaner, OneCleanerEach, OnePlaceEach
    <2> QED BY <1>2, <2>1
<1> QED BY <1>1, <1>2

LEMMA HostsStep ==
    HostsTypeOK /\ HostsTypeOK' /\ EachMapHasItsCleaner /\ [HostsNext]_hostVars => EachMapHasItsCleaner'
<1> SUFFICES ASSUME HostsTypeOK, HostsTypeOK', EachMapHasItsCleaner, [HostsNext]_hostVars
             PROVE  EachMapHasItsCleaner'
    OBVIOUS
<1>1. ASSUME NEW t \in Visitors, NEW s \in Schemes, NEW h \in HostNames, Finds(t, s, h)
      PROVE  EachMapHasItsCleaner'
    <2>1. \A u \in Visitors, z \in Schemes :
             (visit'[u].pc = "spawn" /\ visit'[u].scheme = z) <=> (visit[u].pc = "spawn" /\ visit[u].scheme = z)
        BY <1>1 DEF Finds, HostsTypeOK
    <2>2. \A z \in Schemes : Cleaning(z)' = Cleaning(z)
        BY <1>1, <2>1 DEF Finds, Cleaning
    <2> QED BY <1>1, <2>2, NothingMoves DEF Finds
<1>2. ASSUME NEW t \in Visitors, NEW s \in Schemes, NEW h \in HostNames, NEW hc \in HostClients, Adds(t, s, h, hc)
      PROVE  EachMapHasItsCleaner'
    <2>1. /\ h \in Known(s)' /\ \A z \in Schemes \ {s} : Known(z)' = Known(z)
        BY <1>2, NoClientAssumption DEF Adds, Known, HostsTypeOK
    <2>2. /\ visit[t].pc = "idle" /\ sweeper' = sweeper
          /\ visit'[t].scheme = s /\ (visit'[t].pc = "spawn" <=> Known(s) = {})
          /\ \A u \in Visitors \ {t} : visit'[u] = visit[u]
        BY <1>2 DEF Adds, SpawnsCleaner, HostsTypeOK
    <2>3. \A z \in Schemes \ {s} : Cleaning(z)' = Cleaning(z)
        BY <2>2 DEF Cleaning
    <2>4. ASSUME Known(s) = {} PROVE OneCleanerEach'
        <3>1. Cleaning(s) = {}
            BY <2>4 DEF EachMapHasItsCleaner, OneCleanerEach, OnePlaceEach
        <3>2. Cleaning(s)' = {<<"call", t>>}
            BY <2>2, <2>4, <3>1 DEF Cleaning
        <3>3. Known(s)' # {}
            BY <2>1
        <3> QED BY <2>1, <2>3, <3>2, <3>3, OneCleanerMoved
    <2>5. ASSUME Known(s) # {} PROVE OneCleanerEach'
        <3>1. Cleaning(s)' = Cleaning(s)
            BY <2>2, <2>5 DEF Cleaning
        <3> QED BY <2>1, <2>3, <2>5, <3>1 DEF EachMapHasItsCleaner, OneCleanerEach, OnePlaceEach
    <2>6. OneCleanerEach'
        BY <2>4, <2>5
    <2>7. OnePlaceEach'
        <3>1. m' = [m EXCEPT ![s][h] = hc] /\ \A z \in Schemes, i \in HostNames : m[z][i] # hc
            BY <1>2 DEF Adds, Unused
        <3>2. \A z \in Schemes, i \in HostNames :
                 m'[z][i] = IF z = s /\ i = h THEN hc ELSE m[z][i]
            BY <3>1 DEF HostsTypeOK
        <3> QED BY <3>1, <3>2 DEF EachMapHasItsCleaner, OneCleanerEach, OnePlaceEach
    <2> QED BY <2>6, <2>7 DEF EachMapHasItsCleaner, OneCleanerEach, OnePlaceEach
<1>3. ASSUME NEW t \in Visitors, NEW k \in Sweepers, Spawns(t, k)
      PROVE  EachMapHasItsCleaner'
    <2> PICK s : s = visit[t].scheme
        OBVIOUS
    <2>1. /\ visit[t].pc = "spawn" /\ sweeper[k].pc = "off" /\ s \in Schemes /\ m' = m
          /\ visit'[t].pc = "found" /\ \A u \in Visitors \ {t} : visit'[u] = visit[u]
          /\ sweeper'[k].pc = "sweep" /\ sweeper'[k].scheme = s
          /\ \A j \in Sweepers \ {k} : sweeper'[j] = sweeper[j]
        BY <1>3 DEF Spawns, HostsTypeOK
    <2>2. <<"call", t>> \in Cleaning(s)
        BY <2>1 DEF Cleaning
    <2>3. Cleaning(s) = {<<"call", t>>} /\ Known(s) # {}
        BY <2>1, <2>2, OnlyOne
    <2>4. Cleaning(s)' = {<<"cleaner", k>>}
        BY <2>1, <2>3 DEF Cleaning
    <2>5. \A z \in Schemes \ {s} : Cleaning(z)' = Cleaning(z)
        BY <2>1 DEF Cleaning
    <2>6. \A z \in Schemes : Known(z)' = Known(z)
        BY <2>1 DEF Known
    <2>7. OneCleanerEach'
        <3>1. Known(s)' # {}
            BY <2>1, <2>3, <2>6
        <3>2. s \in Schemes
            BY <2>1
        <3>3. \A z \in Schemes \ {s} : Known(z)' = Known(z) /\ Cleaning(z)' = Cleaning(z)
            BY <2>5, <2>6
        <3> QED BY <2>4, <3>1, <3>2, <3>3, OneCleanerMoved
    <2>8. OnePlaceEach'
        BY <2>1 DEF EachMapHasItsCleaner, OneCleanerEach, OnePlaceEach
    <2> QED BY <2>7, <2>8 DEF EachMapHasItsCleaner, OneCleanerEach, OnePlaceEach
<1>4. ASSUME NEW t \in Visitors, Attempts(t) \/ Returns(t) PROVE EachMapHasItsCleaner'
    <2>1. m' = m /\ sweeper' = sweeper
        BY <1>4 DEF Attempts, Returns
    <2>2. \A u \in Visitors, z \in Schemes :
             (visit'[u].pc = "spawn" /\ visit'[u].scheme = z) <=> (visit[u].pc = "spawn" /\ visit[u].scheme = z)
        <3>1. CASE Attempts(t)
            BY <3>1 DEF Attempts, HostsTypeOK
        <3>2. CASE Returns(t)
            BY <3>2 DEF Returns, Idle, HostsTypeOK
        <3> QED BY <1>4, <3>1, <3>2
    <2>3. \A z \in Schemes : Cleaning(z)' = Cleaning(z)
        BY <2>1, <2>2 DEF Cleaning
    <2> QED BY <2>1, <2>3, NothingMoves
<1>5. ASSUME NEW k \in Sweepers, Sweeps(k) PROVE EachMapHasItsCleaner'
    <2> PICK s : s = sweeper[k].scheme
        OBVIOUS
    <2>1. /\ sweeper[k].pc = "sweep" /\ s \in Schemes /\ visit' = visit
          /\ m' = [m EXCEPT ![s] = Kept(s)]
          /\ sweeper'[k].pc = (IF \A h \in HostNames : Kept(s)[h] = NoClient THEN "off" ELSE "sleep")
          /\ sweeper'[k].scheme = s
          /\ \A j \in Sweepers \ {k} : sweeper'[j] = sweeper[j]
        BY <1>5 DEF Sweeps, HostsTypeOK
    <2>2. <<"cleaner", k>> \in Cleaning(s)
        BY <2>1 DEF Cleaning
    <2>3. Cleaning(s) = {<<"cleaner", k>>} /\ Known(s) # {}
        BY <2>1, <2>2, OnlyOne
    <2>4. \A z \in Schemes \ {s} : Known(z)' = Known(z) /\ Cleaning(z)' = Cleaning(z)
        <3>1. \A z \in Schemes \ {s} : Known(z)' = Known(z)
            BY <2>1 DEF Known, HostsTypeOK
        <3>2. \A z \in Schemes \ {s} : Cleaning(z)' = Cleaning(z)
            BY <2>1 DEF Cleaning
        <3> QED BY <3>1, <3>2
    <2>5. m'[s] = Kept(s)
        BY <2>1 DEF HostsTypeOK
    <2>6. IF Known(s)' = {} THEN Cleaning(s)' = {} ELSE Cleaning(s)' = {<<"cleaner", k>>}
        <3>1. Known(s)' = {} <=> \A h \in HostNames : Kept(s)[h] = NoClient
            BY <2>5 DEF Known
        <3>2. CASE \A h \in HostNames : Kept(s)[h] = NoClient
            BY <2>1, <2>3, <3>1, <3>2 DEF Cleaning
        <3>3. CASE ~ \A h \in HostNames : Kept(s)[h] = NoClient
            BY <2>1, <2>3, <3>1, <3>3 DEF Cleaning
        <3> QED BY <3>2, <3>3
    <2>7. \A z \in Schemes, h \in HostNames : m'[z][h] \in {m[z][h], NoClient}
        BY <2>1, <2>5 DEF Kept, HostsTypeOK
    <2>8. OneCleanerEach'
        <3>1. s \in Schemes
            BY <2>1
        <3> QED BY <2>4, <2>6, <3>1, OneCleanerMoved
    <2>9. OnePlaceEach'
        BY <2>7 DEF EachMapHasItsCleaner, OneCleanerEach, OnePlaceEach
    <2> QED BY <2>8, <2>9 DEF EachMapHasItsCleaner, OneCleanerEach, OnePlaceEach
<1>6. ASSUME NEW k \in Sweepers, Wakes(k) PROVE EachMapHasItsCleaner'
    <2>1. \A j \in Sweepers, z \in Schemes :
             (sweeper'[j].pc # "off" /\ sweeper'[j].scheme = z) <=> (sweeper[j].pc # "off" /\ sweeper[j].scheme = z)
        BY <1>6 DEF Wakes, HostsTypeOK
    <2>2. \A z \in Schemes : Cleaning(z)' = Cleaning(z)
        BY <1>6, <2>1 DEF Wakes, Cleaning
    <2> QED BY <1>6, <2>2, NothingMoves DEF Wakes
<1>7. CASE Minute \/ UNCHANGED hostVars
    <2>1. UNCHANGED <<m, visit, sweeper>>
        BY <1>7 DEF Minute, hostVars
    <2> QED BY <2>1, NothingMoves DEF Cleaning
<1> QED BY <1>1, <1>2, <1>3, <1>4, <1>5, <1>6, <1>7 DEF HostsNext

\* Whatever is called while cleaners sweep, a map of a Client has one cleaner as
\* long as there is something in it, and none otherwise.
THEOREM ClientMapsHaveCleaners == HostsSpec => []EachMapHasItsCleaner
<1>1. HostsTypeOK /\ EachMapHasItsCleaner /\ [HostsNext]_hostVars => (HostsTypeOK /\ EachMapHasItsCleaner)'
    BY HostsTypes, HostsStep
<1> QED BY <1>1, HostsInitial, PTL DEF HostsSpec
===============================================================================
