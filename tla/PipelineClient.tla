---------------------------- MODULE PipelineClient ----------------------------
(***************************************************************************)
(* A pipelineConnClient of fasthttp (client.go): callers put their work on *)
(* chW; the writer of the connection takes it from there, writes the       *)
(* request and puts the work on chR; the reader takes it from there and    *)
(* reads the response; the worker starts both and ends both, and the work  *)
(* it is left with is told so.  Calls with a deadline may leave before     *)
(* their work is done, and the work goes on without them.                  *)
(*                                                                         *)
(* A step is what a goroutine does up to its next channel, lock or network *)
(* operation, that operation included.                                     *)
(***************************************************************************)
EXTENDS Integers, SequencesExt, FiniteSets, FiniteSetsExt

CONSTANTS
    Callers,
    Works,           \* identities for the pipelineWorks, numbers
    Settings         \* instances: [max |-> MaxPendingRequests, calls |-> how often each
                     \* caller calls, kinds |-> and how, faults |-> how often a
                     \* connection breaks]

Setting == [max : Nat \ {0}, calls : [Callers -> Nat],
            kinds : [Callers -> SUBSET {"do", "deadline", "late"}], faults : Nat]

ASSUME PipelineAssumption ==
    /\ Works \subseteq Nat /\ Cardinality(Callers) < Cardinality(Works)
    /\ Settings \subseteq Setting

VARIABLES
    setting,
    call,        \* what each caller is doing
    work,        \* the pipelineWorks
    chW, chR,    \* the two queues
    up,          \* chR is not nil: init starts no worker
    worker,      \* "off", "dial", "run", "stop" or "drain"
    writer,      \* [pc, w]; "ended" until the worker has heard of it
    reader,      \* [pc, w]
    flush,       \* flushTimerCh is not nil
    bw,          \* requests written and not flushed
    conn,        \* "none", "open", "broken" or "closed"
    out          \* requests the server has, whose responses were not read

vars == <<setting, call, work, chW, chR, up, worker, writer, reader, flush, bw, conn, out>>
callers == <<setting, call>>
queues == <<chW, chR>>
manager == <<up, worker>>
lines == <<writer, reader, flush>>
net == <<bw, conn, out>>

NoWork == -1
None == <<>>

Unused == [place |-> "free", req |-> None, timed |-> FALSE, armed |-> FALSE, passed |-> FALSE,
           tick |-> FALSE, err |-> "", resp |-> None, done |-> FALSE]

Idle(left) == [pc |-> "idle", kind |-> "do", w |-> NoWork, left |-> left, err |-> "", resp |-> None]

Request(c) == <<c, call[c].left>>

Init ==
    /\ setting \in Settings
    /\ call = [c \in Callers |-> Idle(setting.calls[c])]
    /\ work = [w \in Works |-> Unused]
    /\ chW = <<>> /\ chR = <<>> /\ up = FALSE /\ worker = "off"
    /\ writer = [pc |-> "off", w |-> NoWork] /\ reader = [pc |-> "off", w |-> NoWork]
    /\ flush = FALSE /\ bw = <<>> /\ conn = "none" /\ out = <<>>

-----------------------------------------------------------------------------
(* The works.  A work is "free", in the "pool", "used" by a call, or "left" *)
(* by a call that timed out; that one is never put back.                    *)

(* w.done <- struct{}{}: nobody may be listening any more.                  *)
Done(works, w, e, r) ==
    [works EXCEPT ![w] = IF @.place = "left" THEN Unused
                         ELSE [@ EXCEPT !.done = TRUE, !.err = e, !.resp = r]]

(* acquirePipelineWork: a work of the pool keeps the tick its timer left.   *)
AcquiredUnarmed(w, c, timed) ==
    [work EXCEPT ![w] = [@ EXCEPT !.place = "used", !.req = Request(c), !.timed = timed,
                                  !.armed = timed /\ work[w].place = "free", !.passed = FALSE]]
Acquired(w, c, timed) ==
    [work EXCEPT ![w] = [@ EXCEPT !.place = "used", !.req = Request(c), !.timed = timed,
                                  !.armed = timed, !.passed = FALSE]]

FirstOf(S) == IF S = {} THEN {} ELSE {Min(S)}

Acquirable ==
    FirstOf({w \in Works : work[w].place = "free"})
      \cup UNION {FirstOf({w \in Works : work[w].place = "pool" /\ work[w].tick = tick}) :
                    tick \in BOOLEAN}

(* releasePipelineWork stops the timer, and does not take its tick.         *)
Released(works, w) ==
    [works EXCEPT ![w] = [Unused EXCEPT !.place = "pool", !.tick = works[w].tick]]

Tick(w) ==
    /\ work[w].armed
    /\ work' = [work EXCEPT ![w].armed = FALSE, ![w].passed = TRUE, ![w].tick = TRUE]
    /\ UNCHANGED <<callers, queues, manager, lines, net>>

-----------------------------------------------------------------------------
(* The callers.                                                             *)

(* init: a worker is started unless there is one, even if it is about to    *)
(* end.                                                                     *)
StartWorker ==
    /\ up' = TRUE
    /\ worker' = IF up THEN worker ELSE "dial"
    /\ chR' = IF up THEN chR ELSE <<>>

Begin(c) ==
    /\ call[c].pc = "idle" /\ call[c].left > 0
    /\ StartWorker
    /\ \E kind \in setting.kinds[c] \ {"late"}, w \in Acquirable :
          /\ call' = [call EXCEPT ![c] = [Idle(@.left) EXCEPT !.pc = "queue", !.kind = kind, !.w = w]]
          /\ work' = Acquired(w, c, kind = "deadline")
    /\ UNCHANGED <<setting, chW, lines, net>>

(* The deadline had passed before the call: init was called all the same.   *)
BeginLate(c) ==
    /\ call[c].pc = "idle" /\ call[c].left > 0 /\ "late" \in setting.kinds[c]
    /\ StartWorker
    /\ call' = [call EXCEPT ![c] = [Idle(@.left - 1) EXCEPT !.err = "timeout"]]
    /\ UNCHANGED <<setting, work, chW, lines, net>>

Enqueue(c, next) ==
    /\ Len(chW) < setting.max
    /\ chW' = Append(chW, call[c].w)
    /\ call' = [call EXCEPT ![c].pc = next]
    /\ UNCHANGED <<setting, work, chR, manager, lines, net>>

Returns(c, e, r, works) ==
    /\ call' = [call EXCEPT ![c] = [Idle(@.left - 1) EXCEPT !.err = e, !.resp = r]]
    /\ work' = works
    /\ UNCHANGED <<setting, queues, manager, lines, net>>

Goes(c, pc) ==
    /\ call' = [call EXCEPT ![c].pc = pc]
    /\ UNCHANGED <<setting, work, queues, manager, lines, net>>

(* The queue is full: Do takes the oldest work out of it, unless somebody   *)
(* made room in the meantime.                                               *)
FindFull(c) == Len(chW) = setting.max /\ Goes(c, IF call[c].kind = "do" THEN "steal" ELSE "blocked")

Steal(c) ==
    \/ chW = <<>> /\ Goes(c, "retry")
    \/ /\ chW # <<>>
       /\ work' = Done(work, Head(chW), "overflow", None)
       /\ chW' = Tail(chW)
       /\ call' = [call EXCEPT ![c].pc = "retry"]
       /\ UNCHANGED <<setting, chR, manager, lines, net>>

Overflow(c) == Len(chW) = setting.max /\ Returns(c, "overflow", None, Released(work, call[c].w))

(* DoDeadline waits for room, or for its timer.                             *)
QueueTimeout(c) ==
    LET w == call[c].w IN
    /\ work[w].tick
    /\ Returns(c, "timeout", None, Released([work EXCEPT ![w].tick = FALSE], w))

Receive(c) ==
    LET w == call[c].w IN
    /\ work[w].done
    /\ Returns(c, work[w].err, work[w].resp, Released(work, w))

(* The deadline comes first: the work is left to whoever has it.            *)
LeaveToPool(c) ==
    Released([work EXCEPT ![call[c].w].tick = FALSE], call[c].w)
Leave(c) ==
    LET w == call[c].w IN
    [work EXCEPT ![w] = IF @.done THEN Unused ELSE [@ EXCEPT !.place = "left", !.tick = FALSE]]

Timeout(c) ==
    /\ call[c].kind = "deadline" /\ work[call[c].w].tick
    /\ Returns(c, "timeout", None, Leave(c))

Caller(c) ==
    \/ call[c].pc = "queue" /\ (Enqueue(c, "wait") \/ FindFull(c))
    \/ call[c].pc = "steal" /\ Steal(c)
    \/ call[c].pc = "retry" /\ (Enqueue(c, "wait") \/ Overflow(c))
    \/ call[c].pc = "blocked" /\ (Enqueue(c, "wait") \/ QueueTimeout(c))
    \/ call[c].pc = "wait" /\ (Receive(c) \/ Timeout(c))

-----------------------------------------------------------------------------
(* The worker.                                                              *)

Nothing == [pc |-> "off", w |-> NoWork]
Waiting(pc, w) == [pc |-> pc, w |-> w]

Dial ==
    /\ worker = "dial"
    /\ \/ /\ worker' = "run" /\ conn' = "open"
          /\ writer' = Waiting("take", NoWork) /\ reader' = Waiting("take", NoWork)
          /\ UNCHANGED up
       \/ /\ setting.faults > 0
          /\ worker' = "off" /\ up' = FALSE
          /\ UNCHANGED <<conn, writer, reader>>
    /\ UNCHANGED <<callers, work, queues, flush, bw, out>>

(* The first of writer and reader that ends has the worker close the        *)
(* connection and stop the other; after the second nothing is left of it.   *)
Stop ==
    /\ worker = "run" /\ "ended" \in {writer.pc, reader.pc}
    /\ worker' = "stop" /\ conn' = "closed"
    /\ UNCHANGED <<callers, work, queues, up, lines, bw, out>>

Join ==
    /\ worker = "stop" /\ writer.pc = "ended" /\ reader.pc = "ended"
    /\ worker' = "drain" /\ conn' = "none"
    /\ writer' = Nothing /\ reader' = Nothing /\ flush' = FALSE
    /\ bw' = <<>> /\ out' = <<>>
    /\ UNCHANGED <<callers, work, queues, up>>

(* The work that was written and not answered is told.  Then chR becomes    *)
(* nil; what is on chW stays there for the next worker.                     *)

Drain ==
    /\ worker = "drain"
    /\ IF chR = <<>> THEN worker' = "off" /\ up' = FALSE /\ UNCHANGED <<work, chR>>
       ELSE /\ work' = Done(work, Head(chR), "stopped", None)
            /\ chR' = Tail(chR)
            /\ UNCHANGED manager
    /\ UNCHANGED <<callers, chW, lines, net>>

-----------------------------------------------------------------------------
(* The writer.  What it writes stays in the buffer until it is flushed,     *)
(* unless the buffer is full and the connection is found gone.              *)

(* Its last act is to flush.                                                *)
WriterEnds(works) ==
    /\ writer' = Waiting("ended", NoWork) /\ work' = works
    /\ IF conn = "open" THEN out' = out \o bw /\ bw' = <<>> ELSE UNCHANGED <<bw, out>>
    /\ UNCHANGED <<callers, manager, reader, flush, conn>>

WriteFails(w) ==
    /\ conn # "open"
    /\ WriterEnds(IF w = NoWork THEN work ELSE Done(work, w, "write", None))

(* The work follows its request, so that responses find it in that order.   *)
Behind(works, w) == Append(works, w)

TakeWork ==
    /\ writer.pc = "take" /\ chW # <<>>
    /\ chW' = Tail(chW)
    /\ LET w == Head(chW)
           room == Len(chR) < setting.max
       IN IF work[w].timed /\ work[w].passed
          THEN /\ work' = Done(work, w, "timeout", None)
               /\ UNCHANGED <<callers, chR, manager, lines, net>>
          ELSE \/ WriteFails(w) /\ UNCHANGED chR
               \/ /\ bw' = Append(bw, work[w].req)
                  /\ flush' = (flush \/ Tail(chW) = <<>> \/ ~room)
                  /\ chR' = IF room THEN Behind(chR, w) ELSE chR
                  /\ writer' = IF room THEN writer ELSE Waiting("put", w)
                  /\ UNCHANGED <<callers, work, manager, reader, conn, out>>

Put ==
    /\ writer.pc = "put" /\ Len(chR) < setting.max
    /\ chR' = Behind(chR, writer.w)
    /\ writer' = Waiting("take", NoWork)
    /\ UNCHANGED <<callers, work, chW, manager, reader, flush, net>>

(* Only when there is nothing to take, or no room for what was taken: the   *)
(* flush, the stop of the worker, and the end of an idle connection.        *)
Stalled == \/ writer.pc = "take" /\ chW = <<>>
           \/ writer.pc = "put" /\ Len(chR) = setting.max

Flush ==
    /\ Stalled /\ flush
    /\ \/ /\ conn = "open"
          /\ out' = out \o bw /\ bw' = <<>> /\ flush' = FALSE
          /\ UNCHANGED <<callers, work, manager, writer, reader, conn>>
       \/ WriteFails(writer.w)
    /\ UNCHANGED queues

WriterStoppedSilently ==
    /\ Stalled /\ worker = "stop"
    /\ WriterEnds(work)
    /\ UNCHANGED queues

WriterStopped ==
    /\ Stalled /\ worker = "stop"
    /\ WriterEnds(IF writer.w = NoWork THEN work ELSE Done(work, writer.w, "stopped", None))
    /\ UNCHANGED queues

IdleStop == Stalled /\ writer.pc = "take" /\ WriterEnds(work) /\ UNCHANGED queues

-----------------------------------------------------------------------------
(* The reader, and the server, which answers in the order it was asked.     *)

ReaderEnds(works) ==
    /\ reader' = Waiting("ended", NoWork) /\ work' = works
    /\ UNCHANGED <<callers, manager, writer, flush, net>>

TakePending ==
    /\ reader.pc = "take"
    /\ \/ /\ chR # <<>>
          /\ reader' = Waiting("read", Head(chR)) /\ chR' = Tail(chR)
          /\ UNCHANGED <<callers, work, chW, manager, writer, flush, net>>
       \/ /\ chR = <<>> /\ worker = "stop"
          /\ ReaderEnds(work)
          /\ UNCHANGED queues

(* What has arrived is read even from a connection that is gone.            *)
ReadResponse ==
    /\ reader.pc = "read" /\ out # <<>>
    /\ work' = Done(work, reader.w, "", Head(out))
    /\ out' = Tail(out)
    /\ reader' = Waiting("take", NoWork)
    /\ UNCHANGED <<callers, queues, manager, writer, flush, bw, conn>>

ReadFails ==
    /\ reader.pc = "read" /\ conn # "open"
    /\ ReaderEnds(Done(work, reader.w, "read", None))
    /\ UNCHANGED queues

Break ==
    /\ conn = "open" /\ setting.faults > 0
    /\ conn' = "broken"
    /\ setting' = [setting EXCEPT !.faults = @ - 1]
    /\ UNCHANGED <<call, work, queues, manager, lines, bw, out>>

-----------------------------------------------------------------------------
Manages == Dial \/ Stop \/ Join \/ Drain
Writes == TakeWork \/ Put \/ Flush \/ WriterStopped
Reads == TakePending \/ ReadResponse \/ ReadFails

Goroutines ==
    \/ \E c \in Callers : Caller(c)
    \/ \E w \in Works : Tick(w)
    \/ Manages \/ Writes \/ Reads

Next == Goroutines \/ IdleStop \/ Break \/ \E c \in Callers : Begin(c) \/ BeginLate(c)

(* Goroutines go on, timers fire and the server answers; nothing makes a    *)
(* caller call again.  The calls are counted, so every behaviour ends.      *)
Spec == Init /\ [][Next]_vars /\ WF_vars(Goroutines)

-----------------------------------------------------------------------------
(* A work is used by the call that waits for it, and is in one place.       *)
Held(w) ==
    Cardinality({i \in DOMAIN chW : chW[i] = w}) + Cardinality({i \in DOMAIN chR : chR[i] = w})
      + (IF writer.w = w THEN 1 ELSE 0) + (IF reader.w = w THEN 1 ELSE 0)

Requests == Callers \X (Nat \ {0})
Errors == {"", "overflow", "timeout", "write", "read", "stopped"}

CallTypes == [pc : {"idle", "queue", "steal", "retry", "blocked", "wait"}, kind : {"do", "deadline"},
              w : Works \cup {NoWork}, left : Nat, err : Errors, resp : Requests \cup {None}]
WorkTypes == [place : {"free", "pool", "used", "left"}, req : Requests \cup {None}, timed : BOOLEAN,
              armed : BOOLEAN, passed : BOOLEAN, tick : BOOLEAN, err : Errors,
              resp : Requests \cup {None}, done : BOOLEAN]

TypeOK ==
    /\ setting \in Setting
    /\ call \in [Callers -> CallTypes] /\ work \in [Works -> WorkTypes]
    /\ chW \in Seq(Works) /\ Len(chW) <= setting.max
    /\ chR \in Seq(Works) /\ Len(chR) <= setting.max
    /\ up \in BOOLEAN /\ worker \in {"off", "dial", "run", "stop", "drain"}
    /\ writer \in [pc : {"off", "take", "put", "ended"}, w : Works \cup {NoWork}]
    /\ reader \in [pc : {"off", "take", "read", "ended"}, w : Works \cup {NoWork}]
    /\ flush \in BOOLEAN /\ conn \in {"none", "open", "broken", "closed"}
    /\ bw \in Seq(Requests) /\ out \in Seq(Requests)

(* Nobody waits for a work that no goroutine has, and no goroutine has one  *)
(* that was put back into the pool or that is done: the pool never gives    *)
(* out a work that a late response will still be read into (client.go:1702, *)
(* 1751, 2150).                                                             *)
EachWorkIsSomewhere ==
    /\ \A c \in Callers : call[c].pc = "wait" => Held(call[c].w) + (IF work[call[c].w].done THEN 1 ELSE 0) = 1
    /\ \A w \in Works : work[w].place \in {"free", "pool"} => Held(w) = 0 /\ ~work[w].done

(* A call that returns without an error has the response to its own         *)
(* request, whichever calls before it timed out (client.go:2017, 2082).     *)
AnswersMatch ==
    \A c \in Callers : call[c].pc = "idle" /\ call[c].resp # None =>
        call[c].resp = <<c, call[c].left + 1>> /\ call[c].err = ""

(* A call with a deadline returns, whatever became of its work.             *)
DeadlinesEnd ==
    \A c \in Callers : [](call[c].pc # "idle" /\ call[c].kind = "deadline"
                          => <>(call[c].pc = "idle"))

(* A call without one returns as well, or else its work is in chW and waits *)
(* for a worker that only a further call will start (client.go:1861): a     *)
(* work that was taken from chW is always told.                             *)
OnlyQueuedWorkWaits ==
    \A c \in Callers :
        []<>(\/ call[c].pc = "idle"
             \/ worker = "off" /\ \E i \in DOMAIN chW : chW[i] = call[c].w)

(* "ErrTimeout is returned if the response wasn't returned until the given  *)
(* deadline" (client.go:1663): it is returned after the deadline only.      *)
(* False: a work of the pool may bring a timer that has fired (2151).       *)
NoEarlyTimeout ==
    [][\A c \in Callers : call[c].pc \in {"wait", "blocked"} /\ call'[c].pc = "idle"
          /\ call'[c].err = "timeout" => work[call[c].w].passed]_vars
=============================================================================
