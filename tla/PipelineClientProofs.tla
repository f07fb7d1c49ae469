------------------------- MODULE PipelineClientProofs -------------------------
(* Theorems about a pipelined connection, for every number of callers and       *)
(* works, every MaxPendingRequests and every number of calls and faults.        *)
EXTENDS PipelineClient, FiniteSetTheorems, WellFoundedInduction, SequenceTheorems, TLAPS

-------------------------------------------------------------------------------
(* Lists without repetition, as both queues: what taking the first and adding a   *)
(* last one leaves.                                                              *)

Members(s) == {s[i] : i \in 1..Len(s)}
Once(s) == \A i, j \in 1..Len(s) : s[i] = s[j] => i = j

LEMMA OnceEmpty == Once(<<>>) /\ Members(<<>>) = {}
  BY DEF Once, Members

LEMMA OnceHeadTail ==
  ASSUME NEW S, NEW s \in Seq(S), s # <<>>, Once(s)
  PROVE  /\ Head(s) \in S /\ Tail(s) \in Seq(S)
         /\ Once(Tail(s))
         /\ Members(Tail(s)) = Members(s) \ {Head(s)}
         /\ Head(s) \in Members(s)
  <1> DEFINE n == Len(s)
  <1>1. n \in Nat \ {0} /\ Head(s) = s[1] /\ Head(s) \in S /\ Tail(s) \in Seq(S)
    OBVIOUS
  <1>2. Len(Tail(s)) = n - 1 /\ \A i \in 1..n - 1 : Tail(s)[i] = s[i + 1]
    OBVIOUS
  <1> DEFINE r == Tail(s)
  <1> HIDE DEF r, n
  <1>3. \A i \in 1..n - 1 : i + 1 \in 1..n
    BY <1>1
  <1>4. Once(r)
    <2> SUFFICES ASSUME NEW i \in 1..n - 1, NEW j \in 1..n - 1, r[i] = r[j] PROVE i = j
      BY <1>2 DEF Once, r
    <2>1. s[i + 1] = s[j + 1]
      BY <1>2 DEF r
    <2>2. i + 1 = j + 1
      BY <2>1, <1>3 DEF Once, n
    <2> QED BY <2>2, <1>1
  <1>5. Members(r) = Members(s) \ {Head(s)}
    <2>1. ASSUME NEW x \in Members(r) PROVE x \in Members(s) \ {Head(s)}
      <3>1. PICK i \in 1..n - 1 : x = s[i + 1]
        BY <1>2 DEF Members, r
      <3>2. i + 1 \in 1..n /\ 1 \in 1..n /\ i + 1 # 1
        BY <1>1
      <3> QED BY <3>1, <3>2, <1>1 DEF Members, Once, n
    <2>2. ASSUME NEW x \in Members(s) \ {Head(s)} PROVE x \in Members(r)
      <3>1. PICK i \in 1..n : x = s[i]
        BY DEF Members, n
      <3>2. i - 1 \in 1..n - 1 /\ (i - 1) + 1 = i
        BY <3>1, <1>1
      <3> QED BY <3>1, <3>2, <1>2 DEF Members, r
    <2> QED BY <2>1, <2>2
  <1>6. Head(s) \in Members(s)
    BY <1>1 DEF Members, n
  <1> QED BY <1>1, <1>4, <1>5, <1>6 DEF r

LEMMA OnceAppend ==
  ASSUME NEW S, NEW s \in Seq(S), NEW x \in S, Once(s), x \notin Members(s)
  PROVE  /\ Append(s, x) \in Seq(S)
         /\ Once(Append(s, x))
         /\ Members(Append(s, x)) = Members(s) \cup {x}
  <1> DEFINE r == Append(s, x)
             n == Len(s)
  <1>1. /\ n \in Nat /\ r \in Seq(S) /\ Len(r) = n + 1
        /\ r[n + 1] = x /\ \A i \in 1..n : r[i] = s[i]
    OBVIOUS
  <1> HIDE DEF r, n
  <1>2. \A i \in 1..n + 1 : i \in 1..n \/ i = n + 1
    BY <1>1
  <1>3. \A i \in 1..n : r[i] \in Members(s) /\ i \in 1..n + 1
    BY <1>1 DEF Members, n
  <1>4. n + 1 \in 1..n + 1
    BY <1>1
  <1>5. Once(r)
    <2> SUFFICES ASSUME NEW i \in 1..n + 1, NEW j \in 1..n + 1, r[i] = r[j] PROVE i = j
      BY <1>1 DEF Once
    <2> QED BY <1>1, <1>2, <1>3 DEF Once, n
  <1>6. Members(r) = Members(s) \cup {x}
    BY <1>1, <1>2, <1>3, <1>4 DEF Members, n
  <1> QED BY <1>1, <1>5, <1>6 DEF r

-------------------------------------------------------------------------------
(* The inductive invariant.                                                     *)

\* The worker and what it has started.
Phases ==
    /\ up <=> worker # "off"
    /\ conn = "none" <=> worker \notin {"run", "stop"}
    /\ conn = "closed" <=> worker = "stop"
    /\ writer.pc = "off" <=> worker \notin {"run", "stop"}
    /\ reader.pc = "off" <=> worker \notin {"run", "stop"}
    /\ worker \notin {"run", "stop"} => bw = <<>> /\ out = <<>>
    /\ worker \in {"off", "dial"} => chR = <<>>
    /\ writer.pc = "put" <=> writer.w # NoWork
    /\ reader.pc = "read" <=> reader.w # NoWork

InHand(w) == w \in Members(chW) \/ w \in Members(chR) \/ w = writer.w \/ w = reader.w

\* No work is twice in the queues and the hands of writer and reader.
Apart ==
    /\ Once(chW) /\ Once(chR) /\ Members(chW) \cap Members(chR) = {}
    /\ writer.w \notin Members(chW) \cup Members(chR)
    /\ reader.w \notin Members(chW) \cup Members(chR)
    /\ writer.w = reader.w => writer.w = NoWork

\* Where the works are: in hand, done, or put back.
Kept ==
    \A w \in Works :
        /\ InHand(w) => work[w].place \in {"used", "left"} /\ ~work[w].done
        /\ work[w].done => work[w].place = "used"
        /\ work[w].place \in {"used", "left"} => work[w].req # None
        /\ work[w].place = "left" => InHand(w)

Active(c) == call[c].pc # "idle"

\* The work of a call carries its request, and is in hand or done once it was
\* queued.
Carries(c, w) ==
    /\ call[c].left # 0
    /\ work[w].place = "used" /\ work[w].req = Request(c)
    /\ InHand(w) => call[c].pc = "wait" /\ ~work[w].done
    /\ ~InHand(w) => (call[c].pc = "wait" <=> work[w].done)

\* Each call has a work of its own.
Owned ==
    /\ \A c \in Callers : Active(c) => call[c].w \in Works
    /\ \A c \in Callers, w \in Works : Active(c) /\ call[c].w = w => Carries(c, w)
    /\ \A b, c \in Callers : Active(b) /\ Active(c) /\ call[b].w = call[c].w => b = c

\* A response is to the request of its work.
Results ==
    \A w \in Works : work[w].done /\ work[w].resp # None =>
        work[w].resp = work[w].req /\ work[w].err = ""

Reading == IF reader.pc = "read" THEN <<reader.w>> ELSE <<>>
Putting == IF writer.pc = "put" THEN <<writer.w>> ELSE <<>>
Pending == (Reading \o chR) \o Putting
Asked == out \o bw

\* The works that wait for a response are in the order of the requests that the
\* server has or will have. The one that the writer had when it ended is gone.
Matching(p, a, works) ==
    Len(p) <= Len(a) /\ \A i \in 1..Len(p) : works[p[i]].req = a[i]

Awaits == reader.pc \in {"take", "read"}

Aligned ==
    Awaits => /\ Matching(Pending, Asked, work)
              /\ writer.pc # "ended" => Len(Pending) = Len(Asked)

IInv == TypeOK /\ Phases /\ Apart /\ Kept /\ Owned /\ Results /\ Aligned /\ AnswersMatch

-------------------------------------------------------------------------------
(* Sequences.                                                                   *)

LEMMA ListFacts ==
    ASSUME NEW S, NEW s \in Seq(S), NEW t \in Seq(S), NEW x \in S
    PROVE  /\ <<>> \o s = s /\ s \o <<>> = s
           /\ <<x>> \o s \in Seq(S) /\ s \o t \in Seq(S) /\ <<>> \in Seq(S) /\ <<x>> \in Seq(S)
           /\ s \o <<x>> = Append(s, x)
           /\ s \o Append(t, x) = Append(s \o t, x)
           /\ <<x>> \o s # <<>> /\ Head(<<x>> \o s) = x /\ Tail(<<x>> \o s) = s
           /\ s # <<>> => /\ <<Head(s)>> \o Tail(s) = s
                          /\ s \o t # <<>> /\ Head(s \o t) = Head(s) /\ Tail(s \o t) = Tail(s) \o t
<1>1. <<>> \o s = s /\ s \o <<>> = s
    OBVIOUS
<1>2. <<x>> \o s \in Seq(S) /\ s \o t \in Seq(S) /\ <<>> \in Seq(S) /\ <<x>> \in Seq(S)
    OBVIOUS
<1>3. s \o <<x>> = Append(s, x)
    OBVIOUS
<1>4. s \o Append(t, x) = Append(s \o t, x)
    OBVIOUS
<1>5. <<x>> \o s # <<>> /\ Head(<<x>> \o s) = x 
    OBVIOUS
<1>6. Tail(<<x>> \o s) = s
    OBVIOUS
<1>7. ASSUME s # <<>> PROVE <<Head(s)>> \o Tail(s) = s
    BY <1>7
<1>8. ASSUME s # <<>> PROVE s \o t # <<>> /\ Head(s \o t) = Head(s) /\ Tail(s \o t) = Tail(s) \o t
    BY <1>8
<1> QED BY <1>1, <1>2, <1>3, <1>4, <1>5, <1>6, <1>7, <1>8

LEMMA OneLess == \A n \in Nat : (n - 1) + 1 = n
OBVIOUS

LEMMA MatchAppend ==
    ASSUME NEW p \in Seq(Works), NEW a \in Seq(Requests), NEW works, NEW w \in Works,
           Matching(p, a, works), Len(p) = Len(a), works[w].req \in Requests
    PROVE  /\ Matching(Append(p, w), Append(a, works[w].req), works)
           /\ Len(Append(p, w)) = Len(Append(a, works[w].req))
BY DEF Matching

LEMMA MatchTail ==
    ASSUME NEW p \in Seq(Works), NEW a \in Seq(Requests), NEW works, Matching(p, a, works), p # <<>>
    PROVE  /\ a # <<>> /\ works[Head(p)].req = Head(a) /\ Matching(Tail(p), Tail(a), works)
           /\ Len(p) = Len(a) => Len(Tail(p)) = Len(Tail(a))
<1>1. Len(p) \in Nat \ {0} /\ Len(a) \in Nat \ {0} /\ Len(p) <= Len(a)
    BY DEF Matching
<1>2. a # <<>> /\ works[Head(p)].req = Head(a)
    BY <1>1 DEF Matching
<1>3. Len(Tail(p)) = Len(p) - 1 /\ Len(Tail(a)) = Len(a) - 1
    BY <1>1
<1>4. \A i \in 1..Len(p) - 1 : Tail(p)[i] = p[i + 1] /\ Tail(a)[i] = a[i + 1] /\ i + 1 \in 1..Len(p)
    BY <1>1
<1>5. Matching(Tail(p), Tail(a), works)
    <2>1. Len(Tail(p)) <= Len(Tail(a))
        BY <1>1, <1>3
    <2>2. \A i \in 1..Len(p) : works[p[i]].req = a[i]
        BY DEF Matching
    <2>3. \A i \in 1..Len(Tail(p)) : works[Tail(p)[i]].req = Tail(a)[i]
        BY <1>3, <1>4, <2>2
    <2> QED BY <2>1, <2>3 DEF Matching
<1> QED BY <1>1, <1>2, <1>3, <1>5

LEMMA MatchSame ==
    ASSUME NEW p \in Seq(Works), NEW a \in Seq(Requests), NEW works, NEW other,
           Matching(p, a, works), \A i \in 1..Len(p) : other[p[i]].req = works[p[i]].req
    PROVE  Matching(p, a, other)
BY DEF Matching

-------------------------------------------------------------------------------
(* Types.                                                                       *)

LEMMA DoneTypes ==
    ASSUME NEW works \in [Works -> WorkTypes], NEW w \in Works, NEW e \in Errors,
           NEW r \in Requests \cup {None}
    PROVE  Done(works, w, e, r) \in [Works -> WorkTypes]
<1>1. Unused \in WorkTypes
    BY DEF Unused, WorkTypes, Errors, None
<1>2. [works[w] EXCEPT !.done = TRUE, !.err = e, !.resp = r] \in WorkTypes
    BY DEF WorkTypes
<1> QED BY <1>1, <1>2 DEF Done

LEMMA ReleasedTypes ==
    ASSUME NEW works \in [Works -> WorkTypes], NEW w \in Works
    PROVE  Released(works, w) \in [Works -> WorkTypes]
<1>1. [Unused EXCEPT !.place = "pool", !.tick = works[w].tick] \in WorkTypes
    BY DEF Unused, WorkTypes, Errors, None
<1> QED BY <1>1 DEF Released

LEMMA NoWorkIsNone == NoWork \notin Works
BY PipelineAssumption DEF NoWork

LEMMA MinIsIn ==
    ASSUME NEW S, S \subseteq Nat, S # {}
    PROVE  Min(S) \in S
<1>1. PICK x \in S : \A y \in S : ~(<<y, x>> \in OpToRel(<, Nat))
    BY NatLessThanWellFounded, WFMin
<1>2. \A y \in S : ~(y < x)
    BY <1>1 DEF OpToRel
<1>3. \A y \in S : x <= y
    BY <1>2
<1> QED BY <1>3 DEF Min

LEMMA AcquirableIsFree ==
    ASSUME NEW w \in Acquirable
    PROVE  w \in Works /\ work[w].place \in {"free", "pool"}
<1>1. ASSUME NEW S, S \subseteq Works, NEW x \in FirstOf(S) PROVE x \in S
    BY <1>1, MinIsIn, PipelineAssumption DEF FirstOf
<1>2. CASE w \in FirstOf({v \in Works : work[v].place = "free"})
    BY <1>1, <1>2
<1>3. ASSUME NEW tick \in BOOLEAN, w \in FirstOf({v \in Works : work[v].place = "pool" /\ work[v].tick = tick})
      PROVE  w \in Works /\ work[w].place \in {"free", "pool"}
    BY <1>1, <1>3
<1> QED BY <1>2, <1>3 DEF Acquirable

LEMMA WriterEndsTypes ==
    ASSUME TypeOK, NEW works \in [Works -> WorkTypes], WriterEnds(works),
           chW' \in Seq(Works), Len(chW') <= setting.max, chR' = chR
    PROVE  TypeOK'
<1>1. bw' \in Seq(Requests) /\ out' \in Seq(Requests)
    <2>1. bw \in Seq(Requests) /\ out \in Seq(Requests)
        BY DEF TypeOK
    <2> HIDE DEF Requests
    <2>2. <<>> \in Seq(Requests) /\ out \o bw \in Seq(Requests)
        BY <2>1
    <2> QED BY <2>1, <2>2 DEF WriterEnds
<1>2. writer' \in [pc : {"off", "take", "put", "ended"}, w : Works \cup {NoWork}]
    BY DEF WriterEnds, Waiting
<1> QED BY <1>1, <1>2 DEF WriterEnds, TypeOK, callers, manager

LEMMA ReaderEndsTypes ==
    ASSUME TypeOK, NEW works \in [Works -> WorkTypes], ReaderEnds(works), UNCHANGED queues
    PROVE  TypeOK'
<1>1. reader' \in [pc : {"off", "take", "read", "ended"}, w : Works \cup {NoWork}]
    BY DEF ReaderEnds, Waiting
<1> QED BY <1>1 DEF ReaderEnds, TypeOK, callers, queues, manager, net

LEMMA TailTypes ==
    ASSUME NEW s \in Seq(Works), s # <<>>
    PROVE  Head(s) \in Works /\ Tail(s) \in Seq(Works) /\ Len(Tail(s)) <= Len(s)
OBVIOUS

\* What a caller that gives up before its work was taken leaves behind.
PutBack(c) ==
    {Released(work, call[c].w), Released([work EXCEPT ![call[c].w].tick = FALSE], call[c].w)}

LEMMA PutBackTypes ==
    ASSUME NEW c \in Callers, call[c].w \in Works, work \in [Works -> WorkTypes], NEW works \in PutBack(c)
    PROVE  works \in [Works -> WorkTypes]
<1>1. PICK w \in Works : w = call[c].w
    OBVIOUS
<1>2. [work EXCEPT ![w].tick = FALSE] \in [Works -> WorkTypes]
    <2>1. work[w] \in WorkTypes
        OBVIOUS
    <2>2. [work[w] EXCEPT !.tick = FALSE] \in WorkTypes
        BY <2>1 DEF WorkTypes
    <2> QED BY <2>2
<1>3. Released(work, w) \in [Works -> WorkTypes]
    BY ReleasedTypes
<1>4. Released([work EXCEPT ![w].tick = FALSE], w) \in [Works -> WorkTypes]
    BY <1>2, ReleasedTypes
<1> QED BY <1>1, <1>3, <1>4 DEF PutBack

LEMMA LeaveTypes ==
    ASSUME NEW c \in Callers, call[c].w \in Works, work \in [Works -> WorkTypes]
    PROVE  Leave(c) \in [Works -> WorkTypes]
<1>1. PICK w \in Works : w = call[c].w
    OBVIOUS
<1>2. work[w] \in WorkTypes
    OBVIOUS
<1>3. [work[w] EXCEPT !.place = "left", !.tick = FALSE] \in WorkTypes
    BY <1>2 DEF WorkTypes
<1>4. Unused \in WorkTypes
    BY DEF Unused, WorkTypes, Errors, None
<1> QED BY <1>1, <1>3, <1>4 DEF Leave

\* What a caller does is one of these.
Pushes(c) ==
    /\ call[c].pc \in {"queue", "retry", "blocked"} /\ Enqueue(c, "wait")
Trying == {"queue", "steal", "retry", "blocked"}
Turns(c) == call[c].pc \in {"queue", "steal"} /\ \E pc \in {"steal", "blocked", "retry"} : Goes(c, pc)
Steals(c) ==
    /\ call[c].pc = "steal" /\ chW # <<>>
    /\ work' = Done(work, Head(chW), "overflow", None)
    /\ chW' = Tail(chW)
    /\ call' = [call EXCEPT ![c].pc = "retry"]
    /\ UNCHANGED <<setting, chR, manager, lines, net>>
GivesUp(c) ==
    /\ call[c].pc \in {"retry", "blocked"}
    /\ \E e \in {"overflow", "timeout"}, works \in PutBack(c) : Returns(c, e, None, works)
Leaves(c) == call[c].pc = "wait" /\ Returns(c, "timeout", None, Leave(c))
Gets(c) == call[c].pc = "wait" /\ Receive(c)

LEMMA CallerSteps ==
    ASSUME NEW c \in Callers, Caller(c)
    PROVE  Pushes(c) \/ Turns(c) \/ Steals(c) \/ GivesUp(c) \/ Leaves(c) \/ Gets(c)
<1>1. CASE call[c].pc = "queue" /\ (Enqueue(c, "wait") \/ FindFull(c))
    BY <1>1 DEF Pushes, FindFull, Turns
<1>2. CASE call[c].pc = "steal" /\ Steal(c)
    BY <1>2 DEF Steal, Turns, Steals
<1>3. CASE call[c].pc = "retry" /\ (Enqueue(c, "wait") \/ Overflow(c))
    BY <1>3 DEF Pushes, Overflow, GivesUp, PutBack
<1>4. CASE call[c].pc = "blocked" /\ (Enqueue(c, "wait") \/ QueueTimeout(c))
    BY <1>4 DEF Pushes, QueueTimeout, GivesUp, PutBack
<1>5. CASE call[c].pc = "wait" /\ (Receive(c) \/ Timeout(c))
    BY <1>5 DEF Gets, Timeout, Leaves
<1> QED BY <1>1, <1>2, <1>3, <1>4, <1>5 DEF Caller

\* What TakeWork does when the request is written.
Writing(w) ==
    LET room == Len(chR) < setting.max IN
    /\ bw' = Append(bw, work[w].req)
    /\ flush' = (flush \/ Tail(chW) = <<>> \/ ~room)
    /\ chR' = IF room THEN Behind(chR, w) ELSE chR
    /\ writer' = IF room THEN writer ELSE Waiting("put", w)
    /\ UNCHANGED <<callers, work, manager, reader, conn, out>>

LEMMA TypesStep == TypeOK /\ Phases /\ Kept /\ Owned /\ [Next]_vars => TypeOK'
<1> SUFFICES ASSUME TypeOK, Phases, Kept, Owned, [Next]_vars PROVE TypeOK'
    OBVIOUS
<1> USE NoWorkIsNone
<1>0. /\ \A w \in Works : work[w] \in WorkTypes
      /\ \A c \in Callers : call[c] \in CallTypes
    BY DEF TypeOK
<1>1. ASSUME NEW c \in Callers, Begin(c) PROVE TypeOK'
    <2>1. PICK kind \in setting.kinds[c] \ {"late"}, w \in Acquirable :
             /\ call' = [call EXCEPT ![c] = [Idle(call[c].left) EXCEPT !.pc = "queue", !.kind = kind, !.w = w]]
             /\ work' = Acquired(w, c, kind = "deadline")
        BY <1>1 DEF Begin, TypeOK
    <2>2. w \in Works /\ kind \in {"do", "deadline"} /\ call[c].left \in Nat \ {0}
        BY <1>1, AcquirableIsFree DEF Begin, TypeOK, Setting, CallTypes
    <2>3. [Idle(call[c].left) EXCEPT !.pc = "queue", !.kind = kind, !.w = w] \in CallTypes
        BY <2>2 DEF Idle, CallTypes, Errors, None
    <2>4. [work[w] EXCEPT !.place = "used", !.req = Request(c), !.timed = (kind = "deadline"),
                          !.armed = (kind = "deadline"), !.passed = FALSE] \in WorkTypes
        <3>1. Request(c) \in Requests
            BY <2>2 DEF Request, Requests
        <3>2. (kind = "deadline") \in BOOLEAN
            OBVIOUS
        <3> HIDE DEF Requests
        <3>3. work[w] \in WorkTypes
            BY <1>0, <2>2
        <3> QED BY <3>1, <3>2, <3>3 DEF WorkTypes
    <2>5. call' \in [Callers -> CallTypes] /\ work' \in [Works -> WorkTypes]
        BY <2>1, <2>2, <2>3, <2>4 DEF TypeOK, Acquired
    <2>6. chR' \in Seq(Works) /\ Len(chR') <= setting.max
        BY <1>1 DEF Begin, StartWorker, TypeOK, Setting
    <2> QED BY <1>1, <2>5, <2>6 DEF Begin, StartWorker, TypeOK, lines, net
<1>16. ASSUME NEW c \in Callers, BeginLate(c) PROVE TypeOK'
    <2>1. call[c].left - 1 \in Nat
        BY <1>0, <1>16 DEF BeginLate, CallTypes
    <2>2. [Idle(call[c].left - 1) EXCEPT !.err = "timeout"] \in CallTypes
        BY <2>1 DEF Idle, CallTypes, Errors, None
    <2>3. call' \in [Callers -> CallTypes]
        BY <1>16, <2>2 DEF BeginLate, TypeOK
    <2>4. chR' \in Seq(Works) /\ Len(chR') <= setting.max
        BY <1>16 DEF BeginLate, StartWorker, TypeOK, Setting
    <2> QED BY <1>16, <2>3, <2>4 DEF BeginLate, StartWorker, TypeOK, lines, net
<1>2. ASSUME NEW c \in Callers, Caller(c) PROVE TypeOK'
    <2>1. CASE Pushes(c)
        <3>1. call[c].w \in Works
            BY <2>1 DEF Pushes, Owned, Active
        <3>2. call' \in [Callers -> CallTypes]
            BY <1>0, <2>1 DEF Pushes, Enqueue, TypeOK, CallTypes
        <3>3. chW' \in Seq(Works) /\ Len(chW') <= setting.max
            BY <2>1, <3>1 DEF Pushes, Enqueue, TypeOK, Setting
        <3> QED BY <2>1, <3>2, <3>3 DEF Pushes, Enqueue, TypeOK, manager, lines, net
    <2>2. CASE Turns(c)
        <3>1. PICK pc \in {"steal", "blocked", "retry"} : call' = [call EXCEPT ![c].pc = pc]
            BY <2>2 DEF Turns, Goes
        <3>2. [call[c] EXCEPT !.pc = pc] \in CallTypes
            BY <1>0 DEF CallTypes
        <3>3. call' \in [Callers -> CallTypes]
            BY <3>1, <3>2 DEF TypeOK
        <3> QED BY <2>2, <3>3 DEF Turns, Goes, TypeOK, queues, manager, lines, net
    <2>3. CASE Steals(c)
        <3>1. call' \in [Callers -> CallTypes]
            BY <1>0, <2>3 DEF Steals, TypeOK, CallTypes
        <3>2. chW' \in Seq(Works) /\ Len(chW') <= setting.max /\ Head(chW) \in Works
            BY <2>3, TailTypes DEF Steals, TypeOK, Setting
        <3>3. work' \in [Works -> WorkTypes]
            BY <2>3, <3>2, DoneTypes DEF Steals, TypeOK, Errors
        <3> QED BY <2>3, <3>1, <3>2, <3>3 DEF Steals, TypeOK, manager, lines, net
    <2>4. ASSUME GivesUp(c) \/ Leaves(c) \/ Gets(c) PROVE TypeOK'
        <3>1. call[c].w \in Works /\ call[c].left - 1 \in Nat
            <4>1. Active(c)
                BY <2>4 DEF GivesUp, Leaves, Gets, Active
            <4>2. call[c].w \in Works /\ Carries(c, call[c].w)
                BY <4>1 DEF Owned
            <4> QED BY <1>0, <4>2 DEF Carries, CallTypes
        <3>2. PICK e \in Errors, r \in Requests \cup {None}, works \in [Works -> WorkTypes] :
                 Returns(c, e, r, works)
            <4>1. CASE GivesUp(c)
                <5>1. PICK e \in {"overflow", "timeout"}, works \in PutBack(c) : Returns(c, e, None, works)
                    BY <4>1 DEF GivesUp
                <5>2. works \in [Works -> WorkTypes] /\ e \in Errors
                    BY <3>1, PutBackTypes DEF TypeOK, Errors
                <5> QED BY <5>1, <5>2
            <4>2. CASE Leaves(c)
                BY <3>1, <4>2, LeaveTypes DEF Leaves, Errors, TypeOK
            <4>3. CASE Gets(c)
                BY <1>0, <3>1, <4>3, ReleasedTypes DEF Gets, Receive, TypeOK, WorkTypes
            <4> QED BY <2>4, <4>1, <4>2, <4>3
        <3>3. [Idle(call[c].left - 1) EXCEPT !.err = e, !.resp = r] \in CallTypes
            BY <3>1 DEF Idle, CallTypes, Errors, None
        <3>4. call' \in [Callers -> CallTypes]
            BY <3>2, <3>3 DEF Returns, TypeOK
        <3> QED BY <3>2, <3>4 DEF Returns, TypeOK, queues, manager, lines, net
    <2> QED BY <1>2, <2>1, <2>2, <2>3, <2>4, CallerSteps
<1>3. ASSUME NEW w \in Works, Tick(w) PROVE TypeOK'
    <2>1. [work[w] EXCEPT !.armed = FALSE, !.passed = TRUE, !.tick = TRUE] \in WorkTypes
        BY <1>0 DEF WorkTypes
    <2>2. work' = [work EXCEPT ![w] = [work[w] EXCEPT !.armed = FALSE, !.passed = TRUE, !.tick = TRUE]]
        BY <1>3 DEF Tick, TypeOK
    <2> QED BY <1>3, <2>1, <2>2 DEF Tick, TypeOK, callers, queues, manager, lines, net
<1>4. CASE Dial
    <2>1. Waiting("take", NoWork) \in [pc : {"take"}, w : Works \cup {NoWork}]
        BY DEF Waiting
    <2> QED BY <1>4, <2>1 DEF Dial, TypeOK, callers, queues
<1>17. CASE Stop
    BY <1>17 DEF Stop, TypeOK, callers, queues, lines
<1>18. CASE Join
    <2>2. <<>> \in Seq(Requests)
        OBVIOUS
    <2>3. /\ writer' \in [pc : {"off", "take", "put", "ended"}, w : Works \cup {NoWork}]
          /\ reader' \in [pc : {"off", "take", "read", "ended"}, w : Works \cup {NoWork}]
        BY <1>18 DEF Join, Nothing
    <2> QED BY <1>18, <2>2, <2>3 DEF Join, TypeOK, callers, queues
<1>5. CASE Drain
    <2>1. CASE chR = <<>>
        BY <1>5, <2>1 DEF Drain, TypeOK, callers, lines, net
    <2>2. CASE chR # <<>>
        <3>1. chR' \in Seq(Works) /\ Len(chR') <= setting.max /\ Head(chR) \in Works
            <4>1. chR' = Tail(chR) /\ chR \in Seq(Works)
                BY <1>5, <2>2 DEF Drain, TypeOK
            <4> QED BY <2>2, <4>1, TailTypes DEF TypeOK, Setting
        <3>2. work' \in [Works -> WorkTypes]
            <4>1. work' = Done(work, Head(chR), "stopped", None) /\ work \in [Works -> WorkTypes]
                BY <1>5, <2>2 DEF Drain, TypeOK
            <4> QED BY <3>1, <4>1, DoneTypes DEF Errors
        <3> QED BY <1>5, <2>2, <3>1, <3>2 DEF Drain, TypeOK, callers, manager, lines, net
    <2> QED BY <2>1, <2>2
<1>6. CASE TakeWork
    <2>1. PICK w \in Works : w = Head(chW) /\ chW # <<>>
        BY <1>6, TailTypes DEF TakeWork, TypeOK
    <2>2. chW' \in Seq(Works) /\ Len(chW') <= setting.max
        BY <1>6, <2>1, TailTypes DEF TakeWork, TypeOK, Setting
    <2>3. CASE work' = Done(work, w, "timeout", None) /\ UNCHANGED <<callers, chR, manager, lines, net>>
        <3>1. work' \in [Works -> WorkTypes]
            BY <2>3, DoneTypes DEF TypeOK, Errors
        <3> QED BY <2>2, <2>3, <3>1 DEF TypeOK, callers, manager, lines, net
    <2>4. CASE WriteFails(w) /\ UNCHANGED chR
        <3>1. Done(work, w, "write", None) \in [Works -> WorkTypes]
            BY DoneTypes DEF TypeOK, Errors
        <3>2. WriterEnds(Done(work, w, "write", None))
            BY <2>4 DEF WriteFails
        <3> QED BY <2>2, <2>4, <3>1, <3>2, WriterEndsTypes
    <2>5. CASE Writing(w)
        <3>1. work[w].req \in Requests
            <4>1. InHand(w)
                BY <2>1 DEF InHand, Members, TypeOK
            <4> QED BY <1>0, <4>1 DEF Kept, WorkTypes
        <3>2. bw' \in Seq(Requests)
            BY <2>5, <3>1 DEF Writing, TypeOK
        <3>3. chR' \in Seq(Works) /\ Len(chR') <= setting.max
            BY <2>5 DEF Writing, Behind, TypeOK, Setting
        <3>4. writer' \in [pc : {"off", "take", "put", "ended"}, w : Works \cup {NoWork}]
            BY <2>5 DEF Writing, Waiting, TypeOK
        <3>5. flush' \in BOOLEAN
            BY <2>5 DEF Writing, TypeOK
        <3> QED BY <2>2, <2>5, <3>2, <3>3, <3>4, <3>5 DEF Writing, TypeOK, callers, manager
    <2> QED BY <1>6, <2>1, <2>3, <2>4, <2>5 DEF TakeWork, Writing
<1>7. CASE Put
    <2>1. writer.w \in Works
        BY <1>7 DEF Put, Phases, TypeOK
    <2>2. chR' \in Seq(Works) /\ Len(chR') <= setting.max
        BY <1>7, <2>1 DEF Put, Behind, TypeOK, Setting
    <2>3. writer' \in [pc : {"take"}, w : Works \cup {NoWork}]
        BY <1>7 DEF Put, Waiting
    <2> QED BY <1>7, <2>2, <2>3 DEF Put, TypeOK, callers, manager, net
<1>8. CASE Flush
    <2>1. CASE WriteFails(writer.w)
        <3>1. PICK works \in [Works -> WorkTypes] : WriterEnds(works)
            BY <2>1, DoneTypes DEF WriteFails, TypeOK, Errors
        <3> QED BY <1>8, <3>1, WriterEndsTypes DEF Flush, TypeOK, queues
    <2>2. CASE /\ out' = out \o bw /\ bw' = <<>> /\ flush' = FALSE
               /\ UNCHANGED <<callers, work, manager, writer, reader, conn>>
        <3>1. out' \in Seq(Requests) /\ bw' \in Seq(Requests)
            BY <2>2 DEF TypeOK
        <3> QED BY <1>8, <2>2, <3>1 DEF Flush, TypeOK, callers, manager, queues
    <2> QED BY <1>8, <2>1, <2>2 DEF Flush
<1>9. CASE WriterStopped
    <2>1. PICK works \in [Works -> WorkTypes] : WriterEnds(works)
        BY <1>9, DoneTypes DEF WriterStopped, TypeOK, Errors
    <2> QED BY <1>9, <2>1, WriterEndsTypes DEF WriterStopped, TypeOK, queues
<1>10. CASE TakePending
    <2>1. CASE chR # <<>> /\ reader' = Waiting("read", Head(chR)) /\ chR' = Tail(chR)
               /\ UNCHANGED <<callers, work, chW, manager, writer, flush, net>>
        <3>1. chR' \in Seq(Works) /\ Len(chR') <= setting.max /\ Head(chR) \in Works
            BY <2>1, TailTypes DEF TypeOK, Setting
        <3>2. reader' \in [pc : {"read"}, w : Works \cup {NoWork}]
            BY <2>1, <3>1 DEF Waiting
        <3> QED BY <2>1, <3>1, <3>2 DEF TypeOK, callers, manager, net
    <2>2. CASE ReaderEnds(work) /\ UNCHANGED queues
        BY <2>2, ReaderEndsTypes DEF TypeOK
    <2> QED BY <1>10, <2>1, <2>2 DEF TakePending
<1>11. CASE ReadResponse
    <2>1. reader.w \in Works /\ Head(out) \in Requests /\ out' \in Seq(Requests)
        <3>1. out \in Seq(Requests) /\ out # <<>> /\ out' = Tail(out)
            BY <1>11 DEF ReadResponse, TypeOK
        <3>2. Head(out) \in Requests /\ out' \in Seq(Requests)
            BY <3>1
        <3> QED BY <1>11, <3>2 DEF ReadResponse, Phases, TypeOK
    <2>2. work' \in [Works -> WorkTypes]
        BY <1>11, <2>1, DoneTypes DEF ReadResponse, TypeOK, Errors
    <2>3. reader' \in [pc : {"take"}, w : Works \cup {NoWork}]
        BY <1>11 DEF ReadResponse, Waiting
    <2> QED BY <1>11, <2>1, <2>2, <2>3 DEF ReadResponse, TypeOK, callers, queues, manager
<1>12. CASE ReadFails
    <2>1. reader.w \in Works
        BY <1>12 DEF ReadFails, Phases, TypeOK
    <2>2. Done(work, reader.w, "read", None) \in [Works -> WorkTypes]
        BY <2>1, DoneTypes DEF TypeOK, Errors
    <2> QED BY <1>12, <2>2, ReaderEndsTypes DEF ReadFails
<1>13. CASE IdleStop
    BY <1>13, WriterEndsTypes DEF IdleStop, TypeOK, queues
<1>14. CASE Break
    <2>1. setting' \in Setting /\ setting'.max = setting.max
        <3>1. setting.faults - 1 \in Nat
            BY <1>14 DEF Break, TypeOK, Setting
        <3> QED BY <1>14, <3>1 DEF Break, TypeOK, Setting
    <2> QED BY <1>14, <2>1 DEF Break, TypeOK, queues, manager, lines
<1>15. CASE UNCHANGED vars
    BY <1>15 DEF vars, TypeOK
<1> QED BY <1>1, <1>2, <1>3, <1>4, <1>5, <1>6, <1>7, <1>8, <1>9, <1>10, <1>11, <1>12, <1>13, <1>14, <1>15,
           <1>16, <1>17, <1>18
        DEF Next, Goroutines, Manages, Writes, Reads

-------------------------------------------------------------------------------
(* The phases of the worker.                                                    *)

\* Nothing of it changes.
SamePhase == UNCHANGED <<up, worker, conn, writer, reader, chR, bw, out>>

LEMMA WriterEndsPhases ==
    ASSUME TypeOK, Phases, NEW works, WriterEnds(works), chR' = chR, writer.pc \in {"take", "put"}
    PROVE  Phases'
<1>1. worker \in {"run", "stop"}
    BY DEF Phases
<1>2. writer'.pc = "ended" /\ writer'.w = NoWork /\ UNCHANGED <<up, worker, reader, conn>>
    BY DEF WriterEnds, Waiting, manager
<1> QED BY <1>1, <1>2 DEF Phases

LEMMA ReaderEndsPhases ==
    ASSUME TypeOK, Phases, NEW works, ReaderEnds(works), chR' = chR, reader.pc \in {"take", "read"}
    PROVE  Phases'
<1>1. reader'.pc = "ended" /\ reader'.w = NoWork /\ UNCHANGED <<up, worker, writer, conn, bw, out>>
    BY DEF ReaderEnds, Waiting, manager, net
<1> QED BY <1>1 DEF Phases

LEMMA PhasesStep == TypeOK /\ Phases /\ [Next]_vars => Phases'
<1> SUFFICES ASSUME TypeOK, Phases, [Next]_vars PROVE Phases'
    OBVIOUS
<1> USE NoWorkIsNone
<1>0. ASSUME SamePhase PROVE Phases'
    BY <1>0 DEF SamePhase, Phases
<1>1. ASSUME NEW c \in Callers, Begin(c) PROVE Phases'
    BY <1>1 DEF Begin, StartWorker, Phases, TypeOK, lines, net
<1>16. ASSUME NEW c \in Callers, BeginLate(c) PROVE Phases'
    BY <1>16 DEF BeginLate, StartWorker, Phases, TypeOK, lines, net
<1>17. CASE Stop
    BY <1>17 DEF Stop, Phases, queues, lines
<1>18. CASE Join
    BY <1>18 DEF Join, Nothing, Phases, queues
<1>2. ASSUME NEW c \in Callers, Caller(c) PROVE Phases'
    <2>1. SamePhase
        BY <1>2, CallerSteps
           DEF Pushes, Enqueue, Turns, Goes, Steals, GivesUp, Leaves, Gets, Receive, Returns,
               SamePhase, queues, manager, lines, net
    <2> QED BY <1>0, <2>1
<1>3. ASSUME NEW w \in Works, Tick(w) PROVE Phases'
    BY <1>0, <1>3 DEF Tick, SamePhase, queues, manager, lines, net
<1>4. CASE Dial
    <2>1. CASE worker' = "run"
        BY <1>4, <2>1 DEF Dial, Waiting, Phases, TypeOK, queues
    <2>2. CASE worker' = "off"
        BY <1>4, <2>2 DEF Dial, Waiting, Phases, TypeOK, queues
    <2> QED BY <1>4, <2>1, <2>2 DEF Dial
<1>5. CASE Drain
    BY <1>5 DEF Drain, Phases, TypeOK, manager, lines, net
<1>6. CASE TakeWork
    <2>1. PICK w \in Works : w = Head(chW) /\ chW # <<>>
        BY <1>6, TailTypes DEF TakeWork, TypeOK
    <2>2. CASE work' = Done(work, w, "timeout", None) /\ UNCHANGED <<callers, chR, manager, lines, net>>
        BY <1>0, <2>2 DEF SamePhase, manager, lines, net
    <2>3. CASE WriteFails(w) /\ UNCHANGED chR
        BY <1>6, <2>3, WriterEndsPhases DEF TakeWork, WriteFails
    <2>4. CASE Writing(w)
        <3>1. worker \in {"run", "stop"} /\ writer.pc = "take" /\ w # NoWork
            BY <1>6 DEF TakeWork, Phases, TypeOK
        <3>2. UNCHANGED <<up, worker, conn, reader, out>>
            BY <2>4 DEF Writing, manager
        <3>3. writer'.pc \in {"take", "put"} /\ (writer'.pc = "put" <=> writer'.w # NoWork)
            BY <2>4, <3>1 DEF Writing, Waiting, Phases
        <3> QED BY <3>1, <3>2, <3>3 DEF Phases
    <2> QED BY <1>6, <2>1, <2>2, <2>3, <2>4 DEF TakeWork, Writing
<1>7. CASE Put
    BY <1>7 DEF Put, Behind, Waiting, Phases, TypeOK, manager, net
<1>8. CASE Flush
    <2>1. CASE WriteFails(writer.w)
        BY <1>8, <2>1, WriterEndsPhases DEF Flush, Stalled, WriteFails, queues
    <2>2. CASE /\ out' = out \o bw /\ bw' = <<>> /\ flush' = FALSE
               /\ UNCHANGED <<callers, work, manager, writer, reader, conn>>
        BY <1>8, <2>2 DEF Flush, Stalled, Phases, TypeOK, manager, queues
    <2> QED BY <1>8, <2>1, <2>2 DEF Flush
<1>9. CASE WriterStopped
    BY <1>9, WriterEndsPhases DEF WriterStopped, Stalled, queues
<1>10. CASE TakePending
    <2>1. CASE chR # <<>> /\ reader' = Waiting("read", Head(chR)) /\ chR' = Tail(chR)
               /\ UNCHANGED <<callers, work, chW, manager, writer, flush, net>>
        <3>1. Head(chR) # NoWork
            BY <2>1, TailTypes DEF TypeOK
        <3> QED BY <1>10, <2>1, <3>1 DEF TakePending, Waiting, Phases, TypeOK, manager, net
    <2>2. CASE ReaderEnds(work) /\ UNCHANGED queues
        BY <1>10, <2>2, ReaderEndsPhases DEF TakePending, queues
    <2> QED BY <1>10, <2>1, <2>2 DEF TakePending
<1>11. CASE ReadResponse
    BY <1>11 DEF ReadResponse, Waiting, Phases, TypeOK, queues, manager
<1>12. CASE ReadFails
    BY <1>12, ReaderEndsPhases DEF ReadFails, queues
<1>13. CASE IdleStop
    BY <1>13, WriterEndsPhases DEF IdleStop, queues
<1>14. CASE Break
    BY <1>14 DEF Break, Phases, queues, manager, lines
<1>15. CASE UNCHANGED vars
    BY <1>0, <1>15 DEF vars, SamePhase
<1> QED BY <1>1, <1>2, <1>3, <1>4, <1>5, <1>6, <1>7, <1>8, <1>9, <1>10, <1>11, <1>12, <1>13, <1>14, <1>15,
           <1>16, <1>17, <1>18
        DEF Next, Goroutines, Manages, Writes, Reads

-------------------------------------------------------------------------------
(* Calls, works and results.                                                    *)

Books == Kept /\ Owned /\ Results /\ AnswersMatch

SameWork(w) ==
    /\ work'[w].place = work[w].place /\ work'[w].req = work[w].req
    /\ work'[w].done = work[w].done /\ work'[w].err = work[w].err
    /\ work'[w].resp = work[w].resp

\* The call is where it was, or tries on.
SameCall(c) ==
    /\ call'[c].w = call[c].w /\ call'[c].left = call[c].left
    /\ call'[c].err = call[c].err /\ call'[c].resp = call[c].resp
    /\ \/ call'[c].pc = call[c].pc
       \/ call'[c].pc \in Trying /\ call[c].pc \in Trying

LEMMA BooksStay ==
    ASSUME Books,
           \A w \in Works : SameWork(w) /\ (InHand(w)' <=> InHand(w)),
           \A c \in Callers : SameCall(c)
    PROVE  Books'
<1>1. Kept'
    BY DEF Books, Kept, SameWork
<1>2. \A c \in Callers : Active(c)' <=> Active(c)
    BY DEF SameCall, Active, Trying
<1>3. Owned'
    <2>1. ASSUME NEW c \in Callers, NEW w \in Works, Active(c)', call'[c].w = w
          PROVE  Carries(c, w)'
        <3>1. Active(c) /\ call[c].w = w /\ SameCall(c) /\ SameWork(w) /\ (InHand(w)' <=> InHand(w))
            BY <1>2, <2>1 DEF SameCall
        <3>2. Carries(c, w)
            BY <3>1 DEF Books, Owned
        <3>3. call'[c].pc = "wait" <=> call[c].pc = "wait"
            BY <3>1 DEF SameCall, Trying
        <3> QED BY <3>1, <3>2, <3>3 DEF Carries, SameWork, SameCall, Request
    <2>3. \A c \in Callers : Active(c)' => call'[c].w \in Works
        BY <1>2 DEF Books, Owned, SameCall
    <2>2. \A b, c \in Callers : Active(b) /\ Active(c) /\ call'[b].w = call'[c].w => b = c
        BY DEF Books, Owned, SameCall
    <2> QED BY <1>2, <2>1, <2>2, <2>3 DEF Owned
<1>4. Results'
    BY DEF Books, Results, SameWork
<1>5. AnswersMatch'
    BY <1>2 DEF Books, AnswersMatch, SameCall, Active
<1> QED BY <1>1, <1>3, <1>4, <1>5 DEF Books

LEMMA DoneIs ==
    ASSUME work \in [Works -> WorkTypes], NEW x \in Works, NEW e, NEW r, work' = Done(work, x, e, r)
    PROVE  /\ \A w \in Works \ {x} : SameWork(w)
           /\ work[x].place = "left" => work'[x].place = "free" /\ ~work'[x].done
           /\ work[x].place # "left" =>
                 /\ work'[x].place = work[x].place /\ work'[x].req = work[x].req
                 /\ work'[x].done /\ work'[x].err = e /\ work'[x].resp = r
BY DEF Done, SameWork, WorkTypes, Unused

LEMMA BooksTold ==
    ASSUME Books, work \in [Works -> WorkTypes], NEW x \in Works, InHand(x), ~InHand(x)',
           \A w \in Works \ {x} : InHand(w)' <=> InHand(w),
           NEW e, NEW r, r = None \/ (r = work[x].req /\ e = ""), work' = Done(work, x, e, r),
           \A c \in Callers : SameCall(c)
    PROVE  Books'
<1>1. /\ \A w \in Works \ {x} : SameWork(w)
      /\ work[x].place = "left" => work'[x].place = "free" /\ ~work'[x].done
      /\ work[x].place # "left" =>
            /\ work'[x].place = work[x].place /\ work'[x].req = work[x].req
            /\ work'[x].done /\ work'[x].err = e /\ work'[x].resp = r
    BY DoneIs
<1>2. work[x].place \in {"used", "left"} /\ work[x].req # None /\ ~work[x].done
    BY DEF Books, Kept
<1>4. Kept'
    <2> SUFFICES ASSUME NEW w \in Works
                 PROVE  /\ InHand(w)' => work'[w].place \in {"used", "left"} /\ ~work'[w].done
                        /\ work'[w].done => work'[w].place = "used"
                        /\ work'[w].place \in {"used", "left"} => work'[w].req # None
                        /\ work'[w].place = "left" => InHand(w)'
        BY DEF Kept
    <2>1. CASE w = x
        BY <1>1, <1>2, <2>1
    <2>2. CASE w # x
        BY <1>1, <2>2 DEF Books, Kept, SameWork
    <2> QED BY <2>1, <2>2
<1>5. \A c \in Callers : Active(c)' <=> Active(c)
    BY DEF SameCall, Active, Trying
<1>6. Owned'
    <2>1. ASSUME NEW c \in Callers, NEW w \in Works, Active(c)', call'[c].w = w
          PROVE  Carries(c, w)'
        <3>1. Active(c) /\ call[c].w = w /\ SameCall(c)
            BY <1>5, <2>1 DEF SameCall
        <3>2. Carries(c, w)
            BY <3>1 DEF Books, Owned
        <3>3. call'[c].pc = "wait" <=> call[c].pc = "wait"
            BY <3>1 DEF SameCall, Trying
        <3>4. CASE w = x
            BY <1>1, <3>1, <3>2, <3>3, <3>4 DEF Carries, SameCall, Request
        <3>5. CASE w # x
            BY <1>1, <3>1, <3>2, <3>3, <3>5 DEF Carries, SameWork, SameCall, Request
        <3> QED BY <3>4, <3>5
    <2>2. \A b, c \in Callers : Active(b) /\ Active(c) /\ call'[b].w = call'[c].w => b = c
        BY DEF Books, Owned, SameCall
    <2>3. \A c \in Callers : Active(c)' => call'[c].w \in Works
        BY <1>5 DEF Books, Owned, SameCall
    <2> QED BY <1>5, <2>1, <2>2, <2>3 DEF Owned
<1>7. Results'
    <2> SUFFICES ASSUME NEW w \in Works, work'[w].done, work'[w].resp # None
                 PROVE  work'[w].resp = work'[w].req /\ work'[w].err = ""
        BY DEF Results
    <2>1. CASE w = x
        BY <1>1, <1>2, <2>1
    <2>2. CASE w # x
        BY <1>1, <2>2 DEF Books, Results, SameWork
    <2> QED BY <2>1, <2>2
<1>8. AnswersMatch'
    BY <1>5 DEF Books, AnswersMatch, SameCall, Active
<1> QED BY <1>4, <1>6, <1>7, <1>8 DEF Books

-------------------------------------------------------------------------------
(* The order of the requests.                                                   *)

InAnswer(w) == w \in Members(chR) \/ w = reader.w

LEMMA PendingIs ==
    ASSUME TypeOK, Phases
    PROVE  /\ Reading \in Seq(Works) /\ Putting \in Seq(Works)
           /\ Pending \in Seq(Works) /\ Asked \in Seq(Requests)
           /\ \A i \in 1..Len(Reading \o chR) :
                 (Reading \o chR)[i] \in Works /\ InAnswer((Reading \o chR)[i])
           /\ \A i \in 1..Len(Pending) :
                 Pending[i] \in Works /\ (InAnswer(Pending[i]) \/ Pending[i] = writer.w)
<1> DEFINE A == {w \in Works : InAnswer(w)}
           P == {w \in Works : InAnswer(w) \/ w = writer.w}
<1>1. Reading \in Seq(Works) /\ Putting \in Seq(Works)
    BY DEF Reading, Putting, TypeOK, Phases
<1>2. chR \in Seq(A)
    <2>1. chR \in Seq(Works) /\ \A i \in 1..Len(chR) : chR[i] \in Members(chR) /\ chR[i] \in Works
        BY DEF TypeOK, Members
    <2>2. \A i \in 1..Len(chR) : chR[i] \in A
        BY <2>1 DEF InAnswer
    <2> HIDE DEF A
    <2> QED BY <2>1, <2>2
<1>3. Reading \in Seq(A) /\ Putting \in Seq(P)
    <2>1. (reader.pc = "read" => reader.w \in A) /\ (writer.pc = "put" => writer.w \in P)
        BY DEF TypeOK, Phases, InAnswer
    <2> HIDE DEF A, P
    <2> QED BY <2>1 DEF Reading, Putting
<1>4. A \subseteq P
    OBVIOUS
<1> HIDE DEF A, P
<1>5. Reading \o chR \in Seq(A) /\ chR \in Seq(P) /\ Reading \in Seq(P)
    BY <1>2, <1>3, <1>4
<1>6. Pending \in Seq(P)
    BY <1>3, <1>5 DEF Pending
<1>7. Pending \in Seq(Works) /\ Asked \in Seq(Requests)
    BY <1>1 DEF Pending, Asked, TypeOK
<1>8. /\ \A i \in 1..Len(Pending) : Pending[i] \in P
      /\ \A i \in 1..Len(Reading \o chR) : (Reading \o chR)[i] \in A
    BY <1>5, <1>6
<1> QED BY <1>1, <1>7, <1>8 DEF A, P

\* The reader has and awaits what it did; the writer goes on or ended.
SameOrder ==
    /\ UNCHANGED <<chR, reader, Asked>>
    /\ writer' = writer \/ writer' = Waiting("ended", NoWork)

LEMMA AlignedStays ==
    ASSUME TypeOK, Phases, Aligned, Awaits' => Awaits /\ SameOrder,
           Awaits' => \A w \in Works : InAnswer(w) \/ (w = writer.w /\ writer' = writer)
                                       => work'[w].req = work[w].req
    PROVE  Aligned'
<1> SUFFICES ASSUME Awaits'
             PROVE  /\ Matching(Pending', Asked', work')
                    /\ writer'.pc # "ended" => Len(Pending') = Len(Asked')
    BY DEF Aligned
<1>1. Awaits /\ SameOrder
    OBVIOUS
<1>2. Matching(Pending, Asked, work) /\ (writer.pc # "ended" => Len(Pending) = Len(Asked))
    BY <1>1 DEF Aligned
<1>3. Reading' = Reading /\ chR' = chR /\ Asked' = Asked
    BY <1>1 DEF SameOrder, Reading
<1>4. CASE writer' = writer
    <2>1. Pending' = Pending
        BY <1>3, <1>4 DEF Pending, Putting
    <2>2. \A i \in 1..Len(Pending) : work'[Pending[i]].req = work[Pending[i]].req
        BY <1>4, PendingIs
    <2>3. Matching(Pending, Asked, work')
        BY <1>2, <2>2, MatchSame, PendingIs
    <2> QED BY <1>2, <1>3, <1>4, <2>1, <2>3
<1>5. CASE writer' = Waiting("ended", NoWork)
    <2>1. Putting' = <<>> /\ writer'.pc = "ended"
        BY <1>5 DEF Putting, Waiting
    <2>2. PICK p \in Seq(Works) : p = Reading \o chR
        <3>1. Reading \in Seq(Works) /\ chR \in Seq(Works)
            BY PendingIs DEF TypeOK
        <3>2. Reading \o chR \in Seq(Works)
            BY <3>1
        <3> QED BY <3>2
    <2>3. Pending' = p \o <<>> /\ Pending = p \o Putting /\ Putting \in Seq(Works)
        BY <1>3, <2>1, <2>2, PendingIs DEF Pending
    <2>4. /\ Pending' = p /\ Len(p) <= Len(Pending) /\ Len(p) \in Nat /\ Len(Pending) \in Nat
          /\ \A i \in 1..Len(p) : p[i] = Pending[i]
        BY <2>3
    <2>5. Len(Asked) \in Nat
        BY PendingIs
    <2>6. Matching(p, Asked, work)
        BY <1>2, <2>4, <2>5 DEF Matching
    <2>7. \A i \in 1..Len(p) : work'[p[i]].req = work[p[i]].req
        BY <2>2, PendingIs
    <2>8. Matching(p, Asked, work')
        BY <2>6, <2>7, MatchSame, PendingIs
    <2> QED BY <1>3, <2>1, <2>4, <2>8
<1> QED BY <1>1, <1>4, <1>5 DEF SameOrder

-------------------------------------------------------------------------------
(* Who has which work.                                                          *)

LEMMA HeadOfOnce ==
    ASSUME NEW s \in Seq(Works), Once(s), s # <<>>
    PROVE  /\ Head(s) \in Works /\ Head(s) \in Members(s)
           /\ Once(Tail(s)) /\ Members(Tail(s)) = Members(s) \ {Head(s)}
BY OnceHeadTail

LEMMA QueuedAreWorks ==
    ASSUME TypeOK
    PROVE  Members(chW) \subseteq Works /\ Members(chR) \subseteq Works
BY DEF TypeOK, Members

HandsStay == chW' = chW /\ chR' = chR /\ writer'.w = writer.w /\ reader'.w = reader.w

LEMMA SameHands ==
    ASSUME Apart, HandsStay
    PROVE  Apart' /\ \A w \in Works : InHand(w)' <=> InHand(w)
BY DEF Apart, HandsStay, InHand

\* A work leaves the queues and hands.
Drops(x) ==
    \/ /\ chW # <<>> /\ x = Head(chW) /\ chW' = Tail(chW)
       /\ chR' = chR /\ writer'.w = writer.w /\ reader'.w = reader.w
    \/ /\ chR # <<>> /\ x = Head(chR) /\ chR' = Tail(chR)
       /\ chW' = chW /\ writer'.w = writer.w /\ reader'.w = reader.w
    \/ /\ x = writer.w /\ writer'.w = NoWork
       /\ chW' = chW /\ chR' = chR /\ reader'.w = reader.w
    \/ /\ x = reader.w /\ reader'.w = NoWork
       /\ chW' = chW /\ chR' = chR /\ writer'.w = writer.w

LEMMA Dropped ==
    ASSUME TypeOK, Apart, NEW x \in Works, Drops(x)
    PROVE  Apart' /\ InHand(x) /\ ~InHand(x)' /\ \A w \in Works \ {x} : InHand(w)' <=> InHand(w)
<1> USE NoWorkIsNone, QueuedAreWorks
<1>1. chW \in Seq(Works) /\ chR \in Seq(Works)
    BY DEF TypeOK
<1>2. CASE /\ chW # <<>> /\ x = Head(chW) /\ chW' = Tail(chW)
           /\ chR' = chR /\ writer'.w = writer.w /\ reader'.w = reader.w
    <2>1. Once(chW') /\ Members(chW') = Members(chW) \ {x} /\ x \in Members(chW)
        BY <1>1, <1>2, HeadOfOnce DEF Apart
    <2> QED BY <1>2, <2>1 DEF Apart, InHand
<1>3. CASE /\ chR # <<>> /\ x = Head(chR) /\ chR' = Tail(chR)
           /\ chW' = chW /\ writer'.w = writer.w /\ reader'.w = reader.w
    <2>1. Once(chR') /\ Members(chR') = Members(chR) \ {x} /\ x \in Members(chR)
        BY <1>1, <1>3, HeadOfOnce DEF Apart
    <2> QED BY <1>3, <2>1 DEF Apart, InHand
<1>4. CASE /\ x = writer.w /\ writer'.w = NoWork
           /\ chW' = chW /\ chR' = chR /\ reader'.w = reader.w
    BY <1>4 DEF Apart, InHand
<1>5. CASE /\ x = reader.w /\ reader'.w = NoWork
           /\ chW' = chW /\ chR' = chR /\ writer'.w = writer.w
    BY <1>5 DEF Apart, InHand
<1> QED BY <1>2, <1>3, <1>4, <1>5 DEF Drops

\* A work passes from one to the next.
Passes(x) ==
    \/ /\ chW # <<>> /\ x = Head(chW) /\ chW' = Tail(chW) /\ chR' = Append(chR, x)
       /\ writer'.w = writer.w /\ reader'.w = reader.w
    \/ /\ chW # <<>> /\ x = Head(chW) /\ chW' = Tail(chW) /\ writer.w = NoWork /\ writer'.w = x
       /\ chR' = chR /\ reader'.w = reader.w
    \/ /\ x = writer.w /\ writer'.w = NoWork /\ chR' = Append(chR, x)
       /\ chW' = chW /\ reader'.w = reader.w
    \/ /\ chR # <<>> /\ x = Head(chR) /\ chR' = Tail(chR) /\ reader.w = NoWork /\ reader'.w = x
       /\ chW' = chW /\ writer'.w = writer.w

LEMMA Passed ==
    ASSUME TypeOK, Apart, NEW x \in Works, Passes(x)
    PROVE  Apart' /\ \A w \in Works : InHand(w)' <=> InHand(w)
<1> USE NoWorkIsNone, QueuedAreWorks
<1>1. chW \in Seq(Works) /\ chR \in Seq(Works)
    BY DEF TypeOK
<1>2. CASE /\ chW # <<>> /\ x = Head(chW) /\ chW' = Tail(chW) /\ chR' = Append(chR, x)
           /\ writer'.w = writer.w /\ reader'.w = reader.w
    <2>1. Once(chW') /\ Members(chW') = Members(chW) \ {x} /\ x \in Members(chW)
        BY <1>1, <1>2, HeadOfOnce DEF Apart
    <2>2. Once(chR') /\ Members(chR') = Members(chR) \cup {x}
        BY <1>1, <1>2, <2>1, OnceAppend DEF Apart
    <2> QED BY <1>2, <2>1, <2>2 DEF Apart, InHand
<1>3. CASE /\ chW # <<>> /\ x = Head(chW) /\ chW' = Tail(chW) /\ writer.w = NoWork /\ writer'.w = x
           /\ chR' = chR /\ reader'.w = reader.w
    <2>1. Once(chW') /\ Members(chW') = Members(chW) \ {x} /\ x \in Members(chW)
        BY <1>1, <1>3, HeadOfOnce DEF Apart
    <2> QED BY <1>3, <2>1 DEF Apart, InHand
<1>4. CASE /\ x = writer.w /\ writer'.w = NoWork /\ chR' = Append(chR, x)
           /\ chW' = chW /\ reader'.w = reader.w
    <2>1. Once(chR') /\ Members(chR') = Members(chR) \cup {x}
        BY <1>1, <1>4, OnceAppend DEF Apart
    <2> QED BY <1>4, <2>1 DEF Apart, InHand
<1>5. CASE /\ chR # <<>> /\ x = Head(chR) /\ chR' = Tail(chR) /\ reader.w = NoWork /\ reader'.w = x
           /\ chW' = chW /\ writer'.w = writer.w
    <2>1. Once(chR') /\ Members(chR') = Members(chR) \ {x} /\ x \in Members(chR)
        BY <1>1, <1>5, HeadOfOnce DEF Apart
    <2> QED BY <1>5, <2>1 DEF Apart, InHand
<1> QED BY <1>2, <1>3, <1>4, <1>5 DEF Passes

-------------------------------------------------------------------------------
(* The steps.                                                                   *)

Sound == TypeOK /\ Phases /\ Apart /\ Books /\ Aligned
Rest == Apart /\ Books /\ Aligned

\* No work changes hands, and the order stays.
LEMMA RestStays ==
    ASSUME Sound, HandsStay, Awaits' => Awaits /\ SameOrder,
           \A w \in Works : SameWork(w), \A c \in Callers : SameCall(c)
    PROVE  Rest'
<1>1. Apart' /\ \A w \in Works : InHand(w)' <=> InHand(w)
    BY SameHands DEF Sound
<1>2. Books'
    BY <1>1, BooksStay DEF Sound
<1>3. \A w \in Works : work'[w].req = work[w].req
    BY DEF SameWork
<1>4. Aligned'
    BY <1>3, AlignedStays DEF Sound
<1> QED BY <1>1, <1>2, <1>4 DEF Rest

\* A work is told.
LEMMA Told ==
    ASSUME Sound, NEW x \in Works, Drops(x), NEW e, work' = Done(work, x, e, None),
           Awaits' => Awaits /\ SameOrder, \A c \in Callers : SameCall(c)
    PROVE  Rest'
<1>1. Apart' /\ InHand(x) /\ ~InHand(x)' /\ \A w \in Works \ {x} : InHand(w)' <=> InHand(w)
    BY Dropped DEF Sound
<1>2. work \in [Works -> WorkTypes]
    BY DEF Sound, TypeOK
<1>3. Books'
    <2>1. None = None \/ (None = work[x].req /\ e = "")
        OBVIOUS
    <2> QED BY <1>1, <1>2, <2>1, BooksTold DEF Sound
<1>4. Aligned'
    <2>1. ASSUME Awaits', NEW w \in Works, InAnswer(w) \/ (w = writer.w /\ writer' = writer)
          PROVE  work'[w].req = work[w].req
        <3>1. InHand(w)'
            BY <2>1 DEF SameOrder, InAnswer, InHand
        <3> QED BY <1>1, <1>2, <3>1, DoneIs DEF SameWork
    <2> QED BY <2>1, AlignedStays DEF Sound
<1> QED BY <1>1, <1>3, <1>4 DEF Rest

SameCalls == UNCHANGED callers

LEMMA SameCallsAre == SameCalls => \A c \in Callers : SameCall(c)
BY DEF SameCalls, callers, SameCall

\* Nothing of the connection moves.
LEMMA StillInOrder == writer' = writer /\ reader' = reader /\ chR' = chR /\ bw' = bw /\ out' = out
                          => (Awaits' => Awaits /\ SameOrder)
BY DEF Awaits, SameOrder, Asked

LEMMA DrainRest == Sound /\ Drain => Rest'
<1> SUFFICES ASSUME Sound, Drain PROVE Rest'
    OBVIOUS
<1>1. (\A c \in Callers : SameCall(c)) /\ ~Awaits'
    BY SameCallsAre DEF Drain, SameCalls, Sound, Phases, Awaits, lines
<1>2. CASE chR = <<>>
    BY <1>1, <1>2, RestStays DEF Drain, SameWork, HandsStay, lines
<1>3. CASE chR # <<>>
    <2>1. PICK x \in Works : x = Head(chR)
        BY <1>3, TailTypes DEF Sound, TypeOK
    <2>2. Drops(x)
        BY <1>3, <2>1 DEF Drain, Drops, lines
    <2>3. work' = Done(work, x, "stopped", None)
        BY <1>3, <2>1 DEF Drain
    <2> QED BY <1>1, <2>2, <2>3, Told
<1> QED BY <1>2, <1>3

\* Neither do Stop and Join.
LEMMA StopRest == Sound /\ (Stop \/ Join) => Rest'
<1> SUFFICES ASSUME Sound, Stop \/ Join PROVE Rest'
    OBVIOUS
<1>1. work' = work /\ chW' = chW /\ chR' = chR /\ \A c \in Callers : SameCall(c)
    BY SameCallsAre DEF Stop, Join, SameCalls, queues
<1>2. CASE Stop
    <2>1. Awaits' => Awaits /\ SameOrder
        BY <1>1, <1>2, StillInOrder DEF Stop, lines
    <2> QED BY <1>1, <1>2, <2>1, RestStays DEF Stop, SameWork, HandsStay, lines
<1>3. CASE Join
    <2>1. ~Awaits' /\ HandsStay
        BY <1>1, <1>3 DEF Join, Nothing, Awaits, HandsStay, Sound, Phases
    <2> QED BY <1>1, <2>1, RestStays DEF SameWork
<1> QED BY <1>2, <1>3

\* What the writer flushes at its end does not change what was asked.
LEMMA WriterEndsInOrder ==
    ASSUME Sound, NEW works, WriterEnds(works), chR' = chR
    PROVE  Awaits' => Awaits /\ SameOrder
<1>1. Asked' = Asked
    <2>1. CASE conn = "open"
        <3>1. out' = out \o bw /\ bw' = <<>> /\ (out \o bw) \o <<>> = out \o bw
            BY <2>1 DEF WriterEnds, Sound, TypeOK
        <3> QED BY <3>1 DEF Asked
    <2>2. CASE conn # "open"
        BY <2>2 DEF WriterEnds, Asked
    <2> QED BY <2>1, <2>2
<1> QED BY <1>1 DEF WriterEnds, Awaits, SameOrder

LEMMA WriterEndsRest ==
    ASSUME Sound, queues' = queues, NEW works, WriterEnds(works),
           \/ writer.w = NoWork /\ works = work
           \/ writer.w \in Works /\ \E e \in Errors : works = Done(work, writer.w, e, None)
    PROVE  Rest'
<1>1. (\A c \in Callers : SameCall(c)) /\ work' = works /\ chR' = chR /\ chW' = chW
    BY SameCallsAre DEF WriterEnds, SameCalls, queues
<1>2. Awaits' => Awaits /\ SameOrder
    BY <1>1, WriterEndsInOrder
<1>3. reader'.w = reader.w /\ writer'.w = NoWork
    BY DEF WriterEnds, Waiting
<1>4. CASE writer.w = NoWork /\ works = work
    BY <1>1, <1>2, <1>3, <1>4, RestStays DEF SameWork, HandsStay
<1>5. ASSUME writer.w \in Works, NEW e \in Errors, works = Done(work, writer.w, e, None) PROVE Rest'
    <2>1. PICK x \in Works : x = writer.w
        BY <1>5
    <2>2. Drops(x)
        BY <1>1, <1>3, <2>1 DEF Drops
    <2> QED BY <1>1, <1>2, <1>5, <2>1, <2>2, Told
<1> QED BY <1>4, <1>5

\* The works and requests that wait after a request was written.
LEMMA WrittenRest ==
    ASSUME Sound, NEW w \in Works, writer.pc = "take", chW # <<>>, w = Head(chW), chW' = Tail(chW),
           Writing(w)
    PROVE  Rest'
<1> USE DEF Sound
<1>1. work' = work /\ out' = out /\ conn' = conn /\ reader' = reader /\ bw' = Append(bw, work[w].req)
    BY DEF Writing
<1>2. writer.w = NoWork
    BY DEF Phases
<1>3. Passes(w)
    BY <1>1, <1>2 DEF Writing, Behind, Waiting, Passes
<1>4. Apart' /\ \A v \in Works : InHand(v)' <=> InHand(v)
    BY <1>3, Passed
<1>5. Books'
    <2>1. \A c \in Callers : SameCall(c)
        BY SameCallsAre DEF Writing, SameCalls
    <2> QED BY <1>1, <1>4, <2>1, BooksStay DEF SameWork
<1>6. work[w].req \in Requests
    <2>1. InHand(w)
        BY HeadOfOnce DEF InHand, TypeOK, Apart
    <2> QED BY <2>1 DEF Books, Kept, TypeOK, WorkTypes
<1>7. Pending' = Append(Pending, w)
    <2>1. Reading' = Reading /\ Putting = <<>> /\ Reading \in Seq(Works) /\ chR \in Seq(Works)
        BY <1>1, PendingIs DEF Reading, Putting, TypeOK
    <2>2. Pending = Reading \o chR
        BY <2>1, ListFacts DEF Pending
    <2>3. CASE Len(chR) < setting.max
        <3>1. chR' = Append(chR, w) /\ Putting' = <<>>
            BY <2>3 DEF Writing, Behind, Putting
        <3>2. Reading \o Append(chR, w) = Append(Reading \o chR, w) /\ Reading \o chR \in Seq(Works)
            BY <2>1, ListFacts
        <3>3. Append(Reading \o chR, w) \o <<>> = Append(Reading \o chR, w)
            BY <3>2
        <3> QED BY <2>1, <2>2, <3>1, <3>2, <3>3 DEF Pending
    <2>4. CASE ~(Len(chR) < setting.max)
        <3>1. chR' = chR /\ Putting' = <<w>>
            BY <2>4 DEF Writing, Putting, Waiting
        <3>2. (Reading \o chR) \o <<w>> = Append(Reading \o chR, w)
            BY <2>1
        <3> QED BY <2>1, <2>2, <3>1, <3>2 DEF Pending
    <2> QED BY <2>3, <2>4
<1>8. Asked' = Append(Asked, work[w].req)
    BY <1>1, <1>6, ListFacts DEF Asked, TypeOK
<1>9. Aligned'
    <2>1. ASSUME Awaits
          PROVE  Matching(Pending', Asked', work') /\ Len(Pending') = Len(Asked')
        <3>1. Matching(Pending, Asked, work) /\ Len(Pending) = Len(Asked)
            BY <2>1 DEF Aligned
        <3> QED BY <1>1, <1>6, <1>7, <1>8, <3>1, MatchAppend, PendingIs
    <2> QED BY <1>1, <2>1 DEF Aligned, Awaits
<1> QED BY <1>4, <1>5, <1>9 DEF Rest

LEMMA TakeWorkRest == Sound /\ TakeWork => Rest'
<1> SUFFICES ASSUME Sound, TakeWork PROVE Rest'
    OBVIOUS
<1>1. PICK w \in Works : w = Head(chW) /\ chW # <<>> /\ chW' = Tail(chW) /\ writer.pc = "take"
    BY TailTypes DEF TakeWork, Sound, TypeOK
<1>2. writer.w = NoWork
    BY <1>1 DEF Sound, Phases
<1>3. CASE work' = Done(work, w, "timeout", None) /\ UNCHANGED <<callers, chR, manager, lines, net>>
    <2>1. Drops(w) /\ \A c \in Callers : SameCall(c)
        BY <1>1, <1>3, SameCallsAre DEF Drops, SameCalls, lines
    <2>2. Awaits' => Awaits /\ SameOrder
        BY <1>3, StillInOrder DEF lines, net
    <2> QED BY <1>3, <2>1, <2>2, Told
<1>4. CASE WriteFails(w) /\ UNCHANGED chR
    <2>1. WriterEnds(Done(work, w, "write", None))
        BY <1>1, <1>4, NoWorkIsNone DEF WriteFails
    <2>2. /\ work' = Done(work, w, "write", None) /\ writer'.w = NoWork /\ reader' = reader
          /\ \A c \in Callers : SameCall(c)
        BY <2>1, SameCallsAre DEF WriterEnds, Waiting, SameCalls
    <2>3. Drops(w)
        BY <1>1, <1>2, <1>4, <2>2 DEF Drops
    <2>4. Awaits' => Awaits /\ SameOrder
        BY <1>4, <2>1, WriterEndsInOrder
    <2> QED BY <2>2, <2>3, <2>4, Told
<1>5. CASE Writing(w)
    BY <1>1, <1>5, WrittenRest
<1> QED BY <1>1, <1>3, <1>4, <1>5 DEF TakeWork, Writing

LEMMA PutRest == Sound /\ Put => Rest'
<1> SUFFICES ASSUME Sound, Put PROVE Rest'
    OBVIOUS
<1> USE DEF Sound
<1>1. PICK x \in Works : x = writer.w
    BY DEF Put, Phases, TypeOK
<1>2. /\ writer.pc = "put" /\ chR' = Append(chR, x) /\ writer' = Waiting("take", NoWork)
      /\ work' = work /\ chW' = chW /\ reader' = reader /\ out' = out /\ bw' = bw /\ conn' = conn
    BY <1>1 DEF Put, Behind, net
<1>3. Apart' /\ \A w \in Works : InHand(w)' <=> InHand(w)
    <2>1. Passes(x)
        BY <1>1, <1>2 DEF Passes, Waiting
    <2> QED BY <2>1, Passed
<1>4. Books'
    <2>1. \A c \in Callers : SameCall(c)
        BY SameCallsAre DEF Put, SameCalls
    <2> QED BY <1>2, <1>3, <2>1, BooksStay DEF SameWork
<1>5. Pending' = Pending
    <2>1. Reading' = Reading /\ Putting = <<x>> /\ Putting' = <<>>
        BY <1>1, <1>2 DEF Reading, Putting, Waiting
    <2>2. Reading \in Seq(Works) /\ chR \in Seq(Works)
        BY PendingIs DEF TypeOK
    <2>3. Reading \o Append(chR, x) = Append(Reading \o chR, x) /\ Reading \o chR \in Seq(Works)
        BY <2>2, ListFacts
    <2>4. /\ (Reading \o chR) \o <<x>> = Append(Reading \o chR, x)
          /\ Append(Reading \o chR, x) \o <<>> = Append(Reading \o chR, x)
        BY <2>3
    <2> QED BY <1>2, <2>1, <2>3, <2>4 DEF Pending
<1>6. Aligned'
    BY <1>2, <1>5 DEF Aligned, Asked, Awaits, Waiting
<1> QED BY <1>3, <1>4, <1>6 DEF Rest

LEMMA FlushRest == Sound /\ Flush => Rest'
<1> SUFFICES ASSUME Sound, Flush PROVE Rest'
    OBVIOUS
<1>1. CASE WriteFails(writer.w)
    <2>1. \/ writer.w = NoWork
          \/ writer.w \in Works
        BY DEF Sound, TypeOK
    <2>2. queues' = queues
        BY DEF Flush
    <2> QED BY <1>1, <2>1, <2>2, NoWorkIsNone, WriterEndsRest DEF WriteFails, Errors
<1>2. CASE /\ out' = out \o bw /\ bw' = <<>> /\ flush' = FALSE
           /\ UNCHANGED <<callers, work, manager, writer, reader, conn>>
    <2>1. Asked' = Asked /\ Pending' = Pending
        <3>1. (out \o bw) \o <<>> = out \o bw
            BY DEF Sound, TypeOK
        <3>2. chR' = chR
            BY DEF Flush, queues
        <3> QED BY <1>2, <3>1, <3>2 DEF Asked, Pending, Reading, Putting
    <2>2. Aligned'
        BY <1>2, <2>1 DEF Sound, Aligned, Awaits
    <2>3. Apart' /\ \A w \in Works : InHand(w)' <=> InHand(w)
        BY <1>2, SameHands DEF Flush, Sound, HandsStay, queues
    <2>4. Books'
        <3>1. \A c \in Callers : SameCall(c)
            BY <1>2, SameCallsAre DEF SameCalls
        <3> QED BY <1>2, <2>3, <3>1, BooksStay DEF Sound, SameWork
    <2> QED BY <2>2, <2>3, <2>4 DEF Rest
<1> QED BY <1>1, <1>2 DEF Flush

LEMMA StoppedRest == Sound /\ (WriterStopped \/ IdleStop) => Rest'
<1> SUFFICES ASSUME Sound, WriterStopped \/ IdleStop PROVE Rest'
    OBVIOUS
<1>1. writer.w = NoWork \/ writer.w \in Works
    BY DEF Sound, TypeOK
<1>2. CASE WriterStopped
    BY <1>1, <1>2, NoWorkIsNone, WriterEndsRest DEF WriterStopped, Errors
<1>3. CASE IdleStop
    BY <1>3, WriterEndsRest DEF IdleStop, Sound, Phases
<1> QED BY <1>2, <1>3

LEMMA TakePendingRest == Sound /\ TakePending => Rest'
<1> SUFFICES ASSUME Sound, TakePending PROVE Rest'
    OBVIOUS
<1> USE DEF Sound
<1>1. reader.w = NoWork /\ Reading = <<>>
    BY DEF TakePending, Phases, Reading
<1>2. CASE chR # <<>> /\ reader' = Waiting("read", Head(chR)) /\ chR' = Tail(chR)
           /\ UNCHANGED <<callers, work, chW, manager, writer, flush, net>>
    <2>1. PICK x \in Works : x = Head(chR)
        BY <1>2, TailTypes DEF TypeOK
    <2>2. Passes(x)
        BY <1>1, <1>2, <2>1 DEF Passes, Waiting
    <2>3. Apart' /\ \A w \in Works : InHand(w)' <=> InHand(w)
        BY <2>2, Passed
    <2>4. Books'
        <3>1. \A c \in Callers : SameCall(c)
            BY <1>2, SameCallsAre DEF SameCalls
        <3> QED BY <1>2, <2>3, <3>1, BooksStay DEF SameWork
    <2>5. Pending' = Pending
        <3>1. chR \in Seq(Works) /\ Putting' = Putting /\ Reading' = <<x>>
            BY <1>2, <2>1 DEF TypeOK, Putting, Reading, Waiting
        <3>2. <<x>> \o Tail(chR) = chR /\ <<>> \o chR = chR
            BY <1>2, <2>1, <3>1
        <3> QED BY <1>1, <1>2, <3>1, <3>2 DEF Pending
    <2>6. Aligned'
        BY <1>2, <2>5 DEF Aligned, Asked, Awaits, Waiting, TakePending, lines, net
    <2> QED BY <2>3, <2>4, <2>6 DEF Rest
<1>3. CASE ReaderEnds(work) /\ UNCHANGED queues
    <2>1. ~Awaits' /\ (\A c \in Callers : SameCall(c)) /\ work' = work
        BY <1>3, SameCallsAre DEF ReaderEnds, SameCalls, Awaits, Waiting
    <2> QED BY <1>1, <1>3, <2>1, RestStays DEF ReaderEnds, Waiting, SameWork, HandsStay, queues
<1> QED BY <1>2, <1>3 DEF TakePending

\* The response is to the request of the work that the reader has.
LEMMA ReadResponseRest == Sound /\ ReadResponse => Rest'
<1> SUFFICES ASSUME Sound, ReadResponse PROVE Rest'
    OBVIOUS
<1> USE DEF Sound
<1>1. PICK x \in Works : x = reader.w
    BY DEF ReadResponse, Phases, TypeOK
<1>2. /\ reader.pc = "read" /\ out # <<>>
      /\ work' = Done(work, x, "", Head(out)) /\ out' = Tail(out) /\ reader' = Waiting("take", NoWork)
      /\ chW' = chW /\ chR' = chR /\ writer' = writer /\ bw' = bw
    BY <1>1 DEF ReadResponse, queues
<1>3. Apart' /\ InHand(x) /\ ~InHand(x)' /\ \A w \in Works \ {x} : InHand(w)' <=> InHand(w)
    <2>1. Drops(x)
        BY <1>1, <1>2 DEF Drops, Waiting
    <2> QED BY <2>1, Dropped
<1>4. Pending # <<>> /\ Head(Pending) = x /\ Tail(Pending) = Pending'
    <2>1. chR \in Seq(Works) /\ Putting \in Seq(Works) /\ Reading = <<x>> /\ Reading' = <<>> /\ Putting' = Putting
        BY <1>1, <1>2, PendingIs DEF TypeOK, Reading, Putting, Waiting
    <2>2. /\ <<x>> \o chR \in Seq(Works) /\ <<x>> \o chR # <<>>
          /\ Head(<<x>> \o chR) = x /\ Tail(<<x>> \o chR) = chR /\ <<>> \o chR = chR
        BY <2>1, ListFacts
    <2>3. /\ (<<x>> \o chR) \o Putting # <<>> /\ Head((<<x>> \o chR) \o Putting) = x
          /\ Tail((<<x>> \o chR) \o Putting) = chR \o Putting
        BY <2>1, <2>2, ListFacts
    <2> QED BY <1>2, <2>1, <2>2, <2>3 DEF Pending
<1>5. Head(Asked) = Head(out) /\ Tail(Asked) = Asked'
    <2>1. out \in Seq(Requests) /\ bw \in Seq(Requests) /\ out # <<>>
        BY <1>2 DEF TypeOK
    <2>2. Head(out) \in Requests
        BY <2>1
    <2>3. Head(out \o bw) = Head(out) /\ Tail(out \o bw) = Tail(out) \o bw
        BY <2>1, <2>2, ListFacts
    <2> QED BY <1>2, <2>3 DEF Asked
<1>6. Matching(Pending, Asked, work) /\ (writer.pc # "ended" => Len(Pending) = Len(Asked))
    BY <1>2 DEF Aligned, Awaits
<1>7. /\ Head(out) = work[x].req /\ Matching(Pending', Asked', work)
      /\ writer.pc # "ended" => Len(Pending') = Len(Asked')
    BY <1>4, <1>5, <1>6, MatchTail, PendingIs
<1>8. work \in [Works -> WorkTypes]
    BY DEF TypeOK
<1>9. Books'
    <2>1. \A c \in Callers : SameCall(c)
        BY SameCallsAre DEF ReadResponse, SameCalls
    <2>2. Head(out) = None \/ (Head(out) = work[x].req /\ "" = "")
        BY <1>7
    <2> QED BY <1>2, <1>3, <1>8, <2>1, <2>2, BooksTold
<1>10. Aligned'
    <2>1. Pending' \in Seq(Works) /\ Asked' \in Seq(Requests)
        <3>1. Asked # <<>>
            BY <1>4, <1>6, MatchTail, PendingIs
        <3>2. Pending \in Seq(Works) /\ Asked \in Seq(Requests)
            BY PendingIs
        <3>3. Tail(Pending) \in Seq(Works)
            BY <1>4, <3>2
        <3>4. Tail(Asked) \in Seq(Requests)
            BY <3>1, <3>2
        <3> QED BY <1>4, <1>5, <3>3, <3>4
    <2>2. \A i \in 1..Len(Pending') : Pending'[i] \in Works /\ Pending'[i] # x
        <3> DEFINE P == Works \ {x}
        <3>1. chR \in Seq(Works) /\ \A i \in 1..Len(chR) : chR[i] \in P
            BY <1>1 DEF TypeOK, Apart, Members
        <3>2. writer.pc = "put" => writer.w \in P
            BY <1>1, NoWorkIsNone DEF TypeOK, Phases, Apart
        <3> HIDE DEF P
        <3>3. chR \in Seq(P) /\ Putting \in Seq(P)
            BY <3>1, <3>2 DEF Putting
        <3>4. Pending' = chR \o Putting
            <4>1. Reading' = <<>> /\ Putting' = Putting /\ chR' = chR
                BY <1>2 DEF Reading, Putting, Waiting
            <4> QED BY <3>1, <4>1 DEF Pending
        <3>5. Pending' \in Seq(P)
            BY <3>3, <3>4
        <3>6. \A i \in 1..Len(Pending') : Pending'[i] \in P
            BY <3>5
        <3> QED BY <3>6 DEF P
    <2>3. \A w \in Works \ {x} : work'[w].req = work[w].req
        BY <1>2, <1>8, DoneIs DEF SameWork
    <2>4. Matching(Pending', Asked', work')
        BY <1>7, <2>1, <2>2, <2>3, MatchSame
    <2> QED BY <1>2, <1>7, <2>4 DEF Aligned
<1> QED BY <1>3, <1>9, <1>10 DEF Rest

LEMMA ReadFailsRest == Sound /\ ReadFails => Rest'
<1> SUFFICES ASSUME Sound, ReadFails PROVE Rest'
    OBVIOUS
<1>1. PICK x \in Works : x = reader.w
    BY DEF ReadFails, Sound, Phases, TypeOK
<1>2. Drops(x)
    BY <1>1 DEF ReadFails, ReaderEnds, Waiting, Drops, queues
<1>3. ~Awaits' /\ (\A c \in Callers : SameCall(c)) /\ work' = Done(work, x, "read", None)
    BY <1>1, SameCallsAre DEF ReadFails, ReaderEnds, SameCalls, Awaits, Waiting
<1> QED BY <1>2, <1>3, Told

LEMMA TickRest == Sound /\ (\E w \in Works : Tick(w)) => Rest'
<1> SUFFICES ASSUME Sound, NEW w \in Works, Tick(w) PROVE Rest'
    OBVIOUS
<1>1. work \in [Works -> WorkTypes]
    BY DEF Sound, TypeOK
<1>2. \A v \in Works : SameWork(v)
    BY <1>1 DEF Tick, SameWork, WorkTypes
<1>3. \A c \in Callers : SameCall(c)
    BY SameCallsAre DEF Tick, SameCalls
<1>4. Awaits' => Awaits /\ SameOrder
    BY StillInOrder DEF Tick, queues, lines, net
<1> QED BY <1>2, <1>3, <1>4, RestStays DEF Tick, HandsStay, queues, lines

LEMMA DialRest == Sound /\ Dial => Rest'
<1> SUFFICES ASSUME Sound, Dial PROVE Rest'
    OBVIOUS
<1> USE DEF Sound
<1>1. /\ chR = <<>> /\ bw = <<>> /\ out = <<>> /\ writer.w = NoWork /\ reader.w = NoWork
    BY DEF Dial, Phases
<1>2. work' = work /\ chW' = chW /\ chR' = chR /\ bw' = bw /\ out' = out
    BY DEF Dial, queues
<1>3. writer'.w = NoWork /\ reader'.w = NoWork /\ writer'.pc # "put" /\ reader'.pc # "read"
    <2>1. CASE writer' = Waiting("take", NoWork) /\ reader' = Waiting("take", NoWork)
        BY <2>1 DEF Waiting
    <2>2. CASE writer' = writer /\ reader' = reader
        BY <1>1, <2>2 DEF Dial, Phases
    <2> QED BY <2>1, <2>2 DEF Dial
<1>4. Apart' /\ \A w \in Works : InHand(w)' <=> InHand(w)
    BY <1>1, <1>2, <1>3, SameHands DEF HandsStay
<1>5. Books'
    <2>1. \A c \in Callers : SameCall(c)
        BY SameCallsAre DEF Dial, SameCalls
    <2> QED BY <1>2, <1>4, <2>1, BooksStay DEF SameWork
<1>6. Aligned'
    <2>1. Pending' = <<>> /\ Asked' = <<>>
        BY <1>1, <1>2, <1>3 DEF Pending, Asked, Reading, Putting
    <2>2. Matching(<<>>, <<>>, work')
        BY DEF Matching
    <2> QED BY <2>1, <2>2 DEF Aligned
<1> QED BY <1>4, <1>5, <1>6 DEF Rest

LEMMA BreakRest == Sound /\ (Break \/ UNCHANGED vars) => Rest'
<1> SUFFICES ASSUME Sound, Break \/ UNCHANGED vars PROVE Rest'
    OBVIOUS
<1>1. HandsStay /\ work' = work /\ call' = call /\ (Awaits' => Awaits /\ SameOrder)
    BY StillInOrder DEF Break, vars, HandsStay, queues, lines
<1> QED BY <1>1, RestStays DEF SameWork, SameCall

-------------------------------------------------------------------------------
(* The steps of callers.                                                        *)

\* A caller that goes on trying.
LEMMA TurnsRest == ASSUME Sound, NEW c \in Callers, Turns(c) PROVE Rest'
<1>1. \A b \in Callers : SameCall(b)
    BY DEF Turns, Goes, SameCall, Trying, Sound, TypeOK, CallTypes
<1>2. Awaits' => Awaits /\ SameOrder
    BY StillInOrder DEF Turns, Goes, queues, lines, net
<1> QED BY <1>1, <1>2, RestStays DEF Turns, Goes, SameWork, HandsStay, queues, lines

LEMMA StealsRest == ASSUME Sound, NEW c \in Callers, Steals(c) PROVE Rest'
<1>1. PICK x \in Works : x = Head(chW)
    BY TailTypes DEF Steals, Sound, TypeOK
<1>2. \A b \in Callers : SameCall(b)
    BY DEF Steals, SameCall, Trying, Sound, TypeOK, CallTypes
<1>3. Drops(x)
    BY <1>1 DEF Steals, Drops, lines
<1>4. Awaits' => Awaits /\ SameOrder
    BY StillInOrder DEF Steals, lines, net
<1> QED BY <1>1, <1>2, <1>3, <1>4, Told DEF Steals

LEMMA PushesRest == ASSUME Sound, NEW c \in Callers, Pushes(c) PROVE Rest'
<1> USE DEF Sound
<1>1. PICK x \in Works : x = call[c].w /\ Active(c) /\ Carries(c, x) /\ call[c].pc # "wait"
    BY DEF Pushes, Active, Books, Owned
<1>2. /\ work' = work /\ chW' = Append(chW, x) /\ chR' = chR /\ writer' = writer /\ reader' = reader
      /\ bw' = bw /\ out' = out /\ conn' = conn
      /\ call' = [call EXCEPT ![c].pc = "wait"]
    BY <1>1 DEF Pushes, Enqueue, lines, net
<1>3. ~InHand(x) /\ ~work[x].done
    BY <1>1 DEF Carries
<1>4. Once(chW') /\ Members(chW') = Members(chW) \cup {x}
    BY <1>2, <1>3, OnceAppend DEF InHand, TypeOK, Apart
<1>5. Apart' /\ \A w \in Works : InHand(w)' <=> InHand(w) \/ w = x
    BY <1>2, <1>3, <1>4 DEF Apart, InHand
<1>6. /\ \A b \in Callers : /\ call'[b].w = call[b].w /\ call'[b].left = call[b].left
                            /\ call'[b].err = call[b].err /\ call'[b].resp = call[b].resp
      /\ call'[c].pc = "wait" /\ \A b \in Callers \ {c} : call'[b].pc = call[b].pc
    BY <1>2 DEF TypeOK, CallTypes
<1>7. \A b \in Callers : Active(b)' <=> Active(b)
    BY <1>1, <1>6 DEF Active
<1>8. Kept'
    BY <1>1, <1>2, <1>3, <1>5 DEF Books, Kept, Carries
<1>9. Owned'
    <2>1. ASSUME NEW b \in Callers, NEW w \in Works, Active(b)', call'[b].w = w
          PROVE  Carries(b, w)'
        <3>1. Active(b) /\ call[b].w = w /\ Carries(b, w)
            BY <1>6, <1>7, <2>1 DEF Books, Owned
        <3>2. CASE b = c
            BY <1>1, <1>2, <1>3, <1>5, <1>6, <3>1, <3>2 DEF Carries, Request
        <3>3. CASE b # c
            <4>1. w # x
                BY <1>1, <3>1, <3>3 DEF Books, Owned
            <4> QED BY <1>2, <1>5, <1>6, <3>1, <3>3, <4>1 DEF Carries, Request
        <3> QED BY <3>2, <3>3
    <2> QED BY <1>6, <1>7, <2>1 DEF Books, Owned
<1>10. Results' /\ AnswersMatch'
    <2>1. Results'
        BY <1>2 DEF Books, Results
    <2>2. \A b \in Callers : call'[b].pc = "idle" <=> call[b].pc = "idle"
        BY <1>7 DEF Active
    <2>3. AnswersMatch'
        BY <1>6, <2>2 DEF Books, AnswersMatch
    <2> QED BY <2>1, <2>3
<1>11. Aligned'
    <2>1. Awaits' => Awaits /\ SameOrder
        BY <1>2, StillInOrder
    <2> QED BY <1>2, <2>1, AlignedStays
<1> QED BY <1>5, <1>8, <1>9, <1>10, <1>11 DEF Rest, Books

\* A call is over; its work is put back, or left to whoever has it.
LEMMA OverRest ==
    ASSUME Sound, NEW c \in Callers, NEW x \in Works, Active(c), call[c].w = x,
           HandsStay, conn' = conn, UNCHANGED <<writer, reader, out, bw>>,
           NEW e \in Errors, NEW r \in Requests \cup {None},
           call' = [call EXCEPT ![c] = [Idle(call[c].left - 1) EXCEPT !.err = e, !.resp = r]],
           r # None => r = Request(c) /\ e = "",
           \A w \in Works \ {x} : SameWork(w),
           ~work'[x].done,
           IF InHand(x) THEN work'[x].place = "left" /\ work'[x].req = work[x].req
           ELSE work'[x].place \in {"free", "pool"}
    PROVE  Rest'
<1> USE DEF Sound
<1>1. Carries(c, x) /\ call[c].left \in Nat \ {0}
    BY DEF Books, Owned, Carries, TypeOK, CallTypes
<1>2. Apart' /\ \A w \in Works : InHand(w)' <=> InHand(w)
    BY SameHands
<1>3. /\ call'[c].pc = "idle" /\ call'[c].left = call[c].left - 1
      /\ call'[c].err = e /\ call'[c].resp = r
      /\ \A b \in Callers \ {c} : call'[b] = call[b]
    BY DEF Idle, TypeOK
<1>4. /\ ~Active(c)'
      /\ \A b \in Callers \ {c} : Active(b)' <=> Active(b)
    BY <1>3 DEF Active
<1>5. Kept'
    <2> SUFFICES ASSUME NEW w \in Works
                 PROVE  /\ InHand(w)' => work'[w].place \in {"used", "left"} /\ ~work'[w].done
                        /\ work'[w].done => work'[w].place = "used"
                        /\ work'[w].place \in {"used", "left"} => work'[w].req # None
                        /\ work'[w].place = "left" => InHand(w)'
        BY DEF Kept
    <2>1. CASE w = x
        BY <1>2, <2>1 DEF Books, Kept
    <2>2. CASE w # x
        <3>1. SameWork(w) /\ (InHand(w)' <=> InHand(w))
            BY <1>2, <2>2
        <3> QED BY <3>1 DEF Books, Kept, SameWork
    <2> QED BY <2>1, <2>2
<1>6. Owned'
    <2>1. ASSUME NEW b \in Callers, NEW w \in Works, Active(b)', call'[b].w = w
          PROVE  Carries(b, w)'
        <3>1. b # c
            BY <1>4, <2>1
        <3>2. Active(b) /\ call[b].w = w /\ call'[b] = call[b]
            BY <1>3, <1>4, <2>1, <3>1
        <3>3. Carries(b, w) /\ w # x
            BY <3>1, <3>2 DEF Books, Owned
        <3> QED BY <1>2, <3>2, <3>3 DEF Carries, SameWork, Request
    <2>2. \A b \in Callers : Active(b)' => b # c /\ Active(b) /\ call'[b] = call[b]
        BY <1>3, <1>4
    <2> QED BY <2>1, <2>2 DEF Books, Owned
<1>7. Results'
    <2> SUFFICES ASSUME NEW w \in Works, work'[w].done, work'[w].resp # None
                 PROVE  work'[w].resp = work'[w].req /\ work'[w].err = ""
        BY DEF Results
    <2>1. w # x
        OBVIOUS
    <2> QED BY <2>1 DEF Books, Results, SameWork
<1>8. AnswersMatch'
    <2> SUFFICES ASSUME NEW b \in Callers, call'[b].pc = "idle", call'[b].resp # None
                 PROVE  call'[b].resp = <<b, call'[b].left + 1>> /\ call'[b].err = ""
        BY DEF AnswersMatch
    <2>1. CASE b = c
        <3>1. PICK n \in Nat : n = call[c].left
            BY <1>1
        <3>2. (n - 1) + 1 = n
            BY OneLess
        <3> QED BY <1>3, <2>1, <3>1, <3>2 DEF Request
    <2>2. CASE b # c
        BY <1>3, <2>2 DEF Books, AnswersMatch
    <2> QED BY <2>1, <2>2
<1>9. Aligned'
    <2>1. \A w \in Works : InAnswer(w) \/ w = writer.w => work'[w].req = work[w].req
        BY DEF InAnswer, InHand, SameWork
    <2>2. Awaits' => Awaits /\ SameOrder
        BY StillInOrder DEF HandsStay
    <2> QED BY <2>1, <2>2, AlignedStays
<1> QED BY <1>2, <1>5, <1>6, <1>7, <1>8, <1>9 DEF Rest, Books

LEMMA ReleasedIs ==
    ASSUME work \in [Works -> WorkTypes], NEW x \in Works,
           \/ work' = Released(work, x)
           \/ work' = Released([work EXCEPT ![x].tick = FALSE], x)
    PROVE  /\ \A w \in Works \ {x} : SameWork(w)
           /\ work'[x].place = "pool" /\ ~work'[x].done
<1>1. CASE work' = Released(work, x)
    BY <1>1 DEF Released, Unused, SameWork
<1>2. CASE work' = Released([work EXCEPT ![x].tick = FALSE], x)
    BY <1>2 DEF Released, Unused, SameWork
<1> QED BY <1>1, <1>2

LEMMA OversRest == ASSUME Sound, NEW c \in Callers, GivesUp(c) \/ Leaves(c) \/ Gets(c) PROVE Rest'
<1> USE DEF Sound
<1>1. PICK x \in Works : x = call[c].w /\ Active(c) /\ Carries(c, x)
    BY DEF GivesUp, Leaves, Gets, Active, Books, Owned
<1>2. work \in [Works -> WorkTypes] /\ work[x] \in WorkTypes
    BY DEF TypeOK
<1>3. CASE GivesUp(c)
    <2>1. PICK e \in {"overflow", "timeout"}, works \in PutBack(c) : Returns(c, e, None, works)
        BY <1>3 DEF GivesUp
    <2>2. /\ \A w \in Works \ {x} : SameWork(w)
          /\ work'[x].place = "pool" /\ ~work'[x].done
        BY <1>1, <1>2, <2>1, ReleasedIs DEF PutBack, Returns
    <2>3. ~InHand(x)
        BY <1>1, <1>3 DEF GivesUp, Carries
    <2>4. e \in Errors /\ None \in Requests \cup {None}
        BY DEF Errors
    <2>5. /\ HandsStay /\ conn' = conn /\ UNCHANGED <<writer, reader, out, bw>>
          /\ call' = [call EXCEPT ![c] = [Idle(call[c].left - 1) EXCEPT !.err = e, !.resp = None]]
        BY <2>1 DEF Returns, HandsStay, queues, lines, net, TypeOK
    <2> QED BY <1>1, <2>2, <2>3, <2>4, <2>5, OverRest
<1>4. CASE Leaves(c)
    <2>1. work' = [work EXCEPT ![x] = IF work[x].done THEN Unused
                                      ELSE [work[x] EXCEPT !.place = "left", !.tick = FALSE]]
        BY <1>1, <1>2, <1>4 DEF Leaves, Returns, Leave
    <2>2. \A w \in Works \ {x} : SameWork(w)
        BY <1>2, <2>1 DEF SameWork
    <2>3. InHand(x) <=> ~work[x].done
        BY <1>1, <1>4 DEF Leaves, Carries
    <2>4. CASE work[x].done
        <3>1. work'[x].place = "free" /\ ~work'[x].done
            BY <1>2, <2>1, <2>4 DEF Unused
        <3>2. /\ HandsStay /\ conn' = conn /\ UNCHANGED <<writer, reader, out, bw>>
              /\ call' = [call EXCEPT ![c] = [Idle(call[c].left - 1) EXCEPT !.err = "timeout", !.resp = None]]
            BY <1>4 DEF Leaves, Returns, HandsStay, queues, lines, net, TypeOK
        <3>3. "timeout" \in Errors /\ None \in Requests \cup {None}
            BY DEF Errors
        <3> QED BY <1>1, <2>2, <2>3, <2>4, <3>1, <3>2, <3>3, OverRest
    <2>5. CASE ~work[x].done
        <3>1. work'[x].place = "left" /\ ~work'[x].done /\ work'[x].req = work[x].req
            BY <1>2, <2>1, <2>5 DEF WorkTypes
        <3>2. /\ HandsStay /\ conn' = conn /\ UNCHANGED <<writer, reader, out, bw>>
              /\ call' = [call EXCEPT ![c] = [Idle(call[c].left - 1) EXCEPT !.err = "timeout", !.resp = None]]
            BY <1>4 DEF Leaves, Returns, HandsStay, queues, lines, net, TypeOK
        <3>3. "timeout" \in Errors /\ None \in Requests \cup {None}
            BY DEF Errors
        <3> QED BY <1>1, <2>2, <2>3, <2>5, <3>1, <3>2, <3>3, OverRest
    <2> QED BY <2>4, <2>5
<1>5. CASE Gets(c)
    <2>1. work[x].done /\ Returns(c, work[x].err, work[x].resp, Released(work, x))
        BY <1>1, <1>5 DEF Gets, Receive
    <2>2. /\ \A w \in Works \ {x} : SameWork(w)
          /\ work'[x].place = "pool" /\ ~work'[x].done
        BY <1>2, <2>1, ReleasedIs DEF Returns
    <2>3. ~InHand(x)
        BY <1>1, <2>1 DEF Carries
    <2>4. work[x].err \in Errors /\ work[x].resp \in Requests \cup {None}
        BY <1>2 DEF WorkTypes
    <2>5. work[x].resp # None => work[x].resp = Request(c) /\ work[x].err = ""
        BY <1>1, <2>1 DEF Books, Results, Carries
    <2>6. /\ HandsStay /\ conn' = conn /\ UNCHANGED <<writer, reader, out, bw>>
          /\ call' = [call EXCEPT ![c] = [Idle(call[c].left - 1) EXCEPT !.err = work[x].err, !.resp = work[x].resp]]
        BY <2>1 DEF Returns, HandsStay, queues, lines, net, TypeOK
    <2> QED BY <1>1, <2>2, <2>3, <2>4, <2>5, <2>6, OverRest
<1> QED BY <1>3, <1>4, <1>5

LEMMA BeginRest == ASSUME Sound, NEW c \in Callers, Begin(c) PROVE Rest'
<1> USE DEF Sound
<1>1. PICK kind \in setting.kinds[c] \ {"late"}, x \in Acquirable :
         /\ call' = [call EXCEPT ![c] = [Idle(call[c].left) EXCEPT !.pc = "queue", !.kind = kind, !.w = x]]
         /\ work' = Acquired(x, c, kind = "deadline")
    BY DEF Begin, TypeOK
<1>2. x \in Works /\ work[x].place \in {"free", "pool"}
    BY AcquirableIsFree
<1>3. ~InHand(x) /\ ~work[x].done /\ \A b \in Callers : Active(b) => call[b].w # x
    BY <1>2 DEF Books, Kept, Owned, Carries
<1>4. call[c].pc = "idle" /\ call[c].left \in Nat \ {0}
    BY DEF Begin, TypeOK, CallTypes
<1>5. /\ \A w \in Works \ {x} : SameWork(w)
      /\ work'[x].place = "used" /\ work'[x].req = <<c, call[c].left>> /\ ~work'[x].done
    BY <1>1, <1>2, <1>3 DEF TypeOK, WorkTypes, Acquired, SameWork, Request
<1>6. /\ call'[c].pc = "queue" /\ call'[c].w = x /\ call'[c].left = call[c].left
      /\ \A b \in Callers \ {c} : call'[b] = call[b]
    BY <1>1 DEF TypeOK, Idle
<1>7. Active(c)' /\ \A b \in Callers \ {c} : Active(b)' <=> Active(b)
    BY <1>6 DEF Active
<1>8. /\ HandsStay /\ conn' = conn /\ UNCHANGED <<chR, writer, reader, out, bw>>
    BY DEF Begin, StartWorker, Phases, TypeOK, HandsStay, lines, net
<1>9. Apart' /\ \A w \in Works : InHand(w)' <=> InHand(w)
    BY <1>8, SameHands
<1>10. Kept'
    <2> SUFFICES ASSUME NEW w \in Works
                 PROVE  /\ InHand(w)' => work'[w].place \in {"used", "left"} /\ ~work'[w].done
                        /\ work'[w].done => work'[w].place = "used"
                        /\ work'[w].place \in {"used", "left"} => work'[w].req # None
                        /\ work'[w].place = "left" => InHand(w)'
        BY DEF Kept
    <2>1. CASE w = x
        <3>1. work'[x].req # None
            BY <1>5 DEF None
        <3> QED BY <1>3, <1>5, <1>9, <2>1, <3>1
    <2>2. CASE w # x
        <3>1. SameWork(w) /\ (InHand(w)' <=> InHand(w))
            BY <1>5, <1>9, <2>2
        <3> QED BY <3>1 DEF Books, Kept, SameWork
    <2> QED BY <2>1, <2>2
<1>11. Owned'
    <2>1. ASSUME NEW b \in Callers, NEW w \in Works, Active(b)', call'[b].w = w
          PROVE  Carries(b, w)'
        <3>1. CASE b = c
            BY <1>2, <1>3, <1>4, <1>5, <1>6, <1>9, <2>1, <3>1 DEF Carries, Request
        <3>2. CASE b # c
            <4>1. Active(b) /\ call[b].w = w /\ call'[b] = call[b] /\ w # x
                BY <1>3, <1>6, <1>7, <2>1, <3>2
            <4>2. Carries(b, w) /\ SameWork(w) /\ (InHand(w)' <=> InHand(w))
                BY <1>5, <1>9, <4>1 DEF Books, Owned
            <4> QED BY <4>1, <4>2 DEF Carries, SameWork, Request
        <3> QED BY <3>1, <3>2
    <2>2. \A b \in Callers : Active(b)' => call'[b].w \in Works
        BY <1>2, <1>6, <1>7 DEF Books, Owned
    <2>3. ASSUME NEW a \in Callers, NEW b \in Callers, Active(a)', Active(b)', call'[a].w = call'[b].w
          PROVE  a = b
        BY <1>3, <1>6, <1>7, <2>3 DEF Books, Owned
    <2> QED BY <2>1, <2>2, <2>3 DEF Owned
<1>12. Results'
    <2> SUFFICES ASSUME NEW w \in Works, work'[w].done, work'[w].resp # None
                 PROVE  work'[w].resp = work'[w].req /\ work'[w].err = ""
        BY DEF Results
    <2>1. w # x
        BY <1>5
    <2> QED BY <1>5, <2>1 DEF Books, Results, SameWork
<1>13. AnswersMatch'
    BY <1>6 DEF Books, AnswersMatch
<1>14. Aligned'
    <2>1. \A w \in Works : InAnswer(w) \/ w = writer.w => w # x
        BY <1>3 DEF InAnswer, InHand
    <2>2. \A w \in Works : InAnswer(w) \/ w = writer.w => work'[w].req = work[w].req
        BY <1>5, <2>1 DEF SameWork
    <2>3. Awaits' => Awaits /\ SameOrder
        BY <1>8, StillInOrder
    <2> QED BY <2>2, <2>3, AlignedStays
<1> QED BY <1>9, <1>10, <1>11, <1>12, <1>13, <1>14 DEF Rest, Books

\* A call whose deadline had passed takes no work.
LEMMA BeginLateRest == ASSUME Sound, NEW c \in Callers, BeginLate(c) PROVE Rest'
<1> USE DEF Sound
<1>1. /\ work' = work /\ HandsStay /\ UNCHANGED <<chR, writer, reader, out, bw>>
    BY DEF BeginLate, StartWorker, Phases, TypeOK, HandsStay, lines, net
<1>2. /\ call[c].pc = "idle" /\ call'[c].pc = "idle" /\ call'[c].resp = None
      /\ \A b \in Callers \ {c} : call'[b] = call[b]
    BY DEF BeginLate, TypeOK, Idle
<1>3. \A b \in Callers : (Active(b)' <=> Active(b)) /\ (Active(b) => call'[b] = call[b])
    BY <1>2 DEF Active
<1>4. Apart' /\ \A w \in Works : InHand(w)' <=> InHand(w)
    BY <1>1, SameHands
<1>5. Kept' /\ Results'
    BY <1>1, <1>4 DEF Books, Kept, Results
<1>6. Owned'
    <2>1. ASSUME NEW b \in Callers, NEW w \in Works, Active(b)', call'[b].w = w
          PROVE  Carries(b, w)'
        <3>1. Active(b) /\ call'[b] = call[b] /\ Carries(b, w)
            BY <1>3, <2>1 DEF Books, Owned
        <3> QED BY <1>1, <1>4, <3>1 DEF Carries, Request
    <2> QED BY <1>3, <2>1 DEF Books, Owned
<1>7. AnswersMatch'
    BY <1>2 DEF Books, AnswersMatch
<1>8. Aligned'
    <2>1. Awaits' => Awaits /\ SameOrder
        BY <1>1, StillInOrder
    <2> QED BY <1>1, <2>1, AlignedStays
<1> QED BY <1>4, <1>5, <1>6, <1>7, <1>8 DEF Rest, Books

-------------------------------------------------------------------------------
(* The theorems.                                                                *)

LEMMA InitIsRight == Init => IInv
<1> SUFFICES ASSUME Init PROVE IInv
    OBVIOUS
<1>1. setting \in Setting
    BY PipelineAssumption DEF Init
<1>2. Unused \in WorkTypes /\ \A c \in Callers : Idle(setting.calls[c]) \in CallTypes
    BY <1>1 DEF Unused, WorkTypes, Idle, CallTypes, Setting, Errors, None
<1>3. TypeOK
    <2>1. call \in [Callers -> CallTypes] /\ work \in [Works -> WorkTypes]
        BY <1>2 DEF Init
    <2>2. /\ chW \in Seq(Works) /\ chR \in Seq(Works) /\ bw \in Seq(Requests) /\ out \in Seq(Requests)
          /\ Len(chW) = 0 /\ Len(chR) = 0
        BY DEF Init
    <2>3. setting.max \in Nat
        BY <1>1 DEF Setting
    <2>4. /\ writer \in [pc : {"off", "take", "put", "ended"}, w : Works \cup {NoWork}]
          /\ reader \in [pc : {"off", "take", "read", "ended"}, w : Works \cup {NoWork}]
        BY DEF Init
    <2>5. Len(chW) <= setting.max /\ Len(chR) <= setting.max
        BY <2>2, <2>3
    <2>6. flush \in BOOLEAN /\ up \in BOOLEAN /\ worker = "off" /\ conn = "none"
        BY DEF Init
    <2> QED BY <1>1, <2>1, <2>2, <2>4, <2>5, <2>6 DEF TypeOK
<1>4. Phases
    BY DEF Init, Phases
<1>5. \A w \in Works : ~InHand(w)
    BY NoWorkIsNone, OnceEmpty DEF Init, InHand
<1>6. Apart
    BY OnceEmpty DEF Init, Apart
<1>7. Kept /\ Results
    BY <1>5 DEF Init, Kept, Results, Unused
<1>8. Owned /\ AnswersMatch
    BY DEF Init, Owned, Active, AnswersMatch, Idle
<1>9. Aligned
    BY DEF Init, Aligned, Awaits
<1> QED BY <1>3, <1>4, <1>6, <1>7, <1>8, <1>9 DEF IInv

LEMMA RestStep == Sound /\ [Next]_vars => Rest'
<1> SUFFICES ASSUME Sound, [Next]_vars PROVE Rest'
    OBVIOUS
<1>1. ASSUME NEW c \in Callers, Caller(c) PROVE Rest'
    BY <1>1, CallerSteps, PushesRest, TurnsRest, StealsRest, OversRest
<1> QED BY <1>1, BeginRest, BeginLateRest, TickRest, DialRest, StopRest, DrainRest, TakeWorkRest, PutRest, FlushRest, StoppedRest,
           TakePendingRest, ReadResponseRest, ReadFailsRest, BreakRest
        DEF Next, Goroutines, Manages, Writes, Reads

\* The inductive invariant: phases, places and owners of the works, and the
\* order in which works wait for the requests the server has.
THEOREM PipelineInvariant == Spec => []IInv
<1>1. IInv /\ [Next]_vars => IInv'
    BY TypesStep, PhasesStep, RestStep DEF IInv, Sound, Rest, Books
<1> QED BY <1>1, InitIsRight, PTL DEF Spec

\* Every variable keeps its type, and both queues their bound
\* (MaxPendingRequests, client.go:1843), for any number of callers and works.
THEOREM PipelineTypes == Spec => []TypeOK
BY PipelineInvariant, PTL DEF IInv

\* A call that returns without an error has the response to its own request,
\* whatever was cancelled, stolen, timed out or cut off before (client.go:2017,
\* 2082).
THEOREM PipelineAnswersMatch == Spec => []AnswersMatch
BY PipelineInvariant, PTL DEF IInv

LEMMA TimesInOnce ==
    ASSUME NEW s \in Seq(Works), Once(s), NEW w
    PROVE  Cardinality({i \in DOMAIN s : s[i] = w}) = IF w \in Members(s) THEN 1 ELSE 0
<1>1. CASE w \notin Members(s)
    <2>1. {i \in DOMAIN s : s[i] = w} = {}
        BY <1>1 DEF Members
    <2> QED BY <1>1, <2>1, FS_EmptySet
<1>2. CASE w \in Members(s)
    <2>1. PICK i \in DOMAIN s : s[i] = w
        BY <1>2 DEF Members
    <2>2. {j \in DOMAIN s : s[j] = w} = {i}
        BY <2>1 DEF Once
    <2> QED BY <1>2, <2>2, FS_Singleton
<1> QED BY <1>1, <1>2

LEMMA HeldCounts ==
    ASSUME TypeOK, Apart, NEW w \in Works
    PROVE  Held(w) = IF InHand(w) THEN 1 ELSE 0
<1>1. /\ Cardinality({i \in DOMAIN chW : chW[i] = w}) = IF w \in Members(chW) THEN 1 ELSE 0
      /\ Cardinality({i \in DOMAIN chR : chR[i] = w}) = IF w \in Members(chR) THEN 1 ELSE 0
    BY TimesInOnce DEF TypeOK, Apart
<1>2. /\ w \in Members(chW) => w \notin Members(chR) /\ w # writer.w /\ w # reader.w
      /\ w \in Members(chR) => w # writer.w /\ w # reader.w
      /\ w = writer.w => w # reader.w
    BY NoWorkIsNone DEF Apart
<1> QED BY <1>1, <1>2 DEF Held, InHand

\* A call that waits has its work in exactly one place, or done; the works of
\* the pool are in nobody's hands and not done (client.go:1702, 1751, 2150).
THEOREM PipelineWorksAreKept == Spec => []EachWorkIsSomewhere
<1>1. IInv => EachWorkIsSomewhere
    <2> SUFFICES ASSUME IInv PROVE EachWorkIsSomewhere
        OBVIOUS
    <2>1. ASSUME NEW c \in Callers, call[c].pc = "wait"
          PROVE  Held(call[c].w) + (IF work[call[c].w].done THEN 1 ELSE 0) = 1
        <3>1. PICK w \in Works : w = call[c].w /\ Carries(c, w)
            BY <2>1 DEF IInv, Owned, Active
        <3>2. Held(w) = IF InHand(w) THEN 1 ELSE 0
            BY HeldCounts DEF IInv
        <3>3. InHand(w) <=> ~work[w].done
            BY <2>1, <3>1 DEF Carries
        <3> QED BY <3>1, <3>2, <3>3
    <2>2. ASSUME NEW w \in Works, work[w].place \in {"free", "pool"}
          PROVE  Held(w) = 0 /\ ~work[w].done
        <3>1. ~InHand(w) /\ ~work[w].done
            BY <2>2 DEF IInv, Kept
        <3> QED BY <3>1, HeldCounts DEF IInv
    <2> QED BY <2>1, <2>2 DEF EachWorkIsSomewhere
<1> QED BY <1>1, PipelineInvariant, PTL
===============================================================================
