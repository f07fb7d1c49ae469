------------------------------ MODULE MysqlConn ------------------------------
(***************************************************************************)
(* One connection of the MySQL driver (data/mysql): the packets of         *)
(* packets.go, the calls of connection.go, statement.go, rows.go,          *)
(* transaction.go and infile.go, the handshake of driver.go, and the       *)
(* server at the other end.  database/sql uses a connection from one       *)
(* goroutine at a time, so a call of the driver is one step; what is left  *)
(* open is what the server answers, where the connection breaks, how much  *)
(* of an answer one Read brings, and which call comes next.                *)
(*                                                                         *)
(* A call is written as the code is, a chain of functions on one record:   *)
(*   open     netConn is not nil        seq   mysqlConn.sequence           *)
(*   more     statusMoreResultsExists   busy  the buffer holds bytes       *)
(*   allowed  maxAllowedPacket                                             *)
(*   wire     the frames the server sent and the driver has not read       *)
(*   held     what the server sends once it has received a local file      *)
(*   skew     a header was read and its body was not                       *)
(*   life     frames the connection delivers before it breaks              *)
(*   deaf     a write to the broken connection fails                       *)
(*   err      how the call fails ("" while it does not)                    *)
(*   msg      the packet just read      cols  the column count it gives    *)
(*   reading  a result set is open      todo  what is left of the call     *)
(*   got      whose answers were read   sent  the packets written          *)
(***************************************************************************)
EXTENDS Integers, SequencesExt, FiniteSetsExt

CONSTANTS
    MaxPacketSize,     \* the largest frame (const.go)
    PacketNumbers,     \* how many numbers a packet can have (one byte)
    MaxAllowed,        \* max_allowed_packet of the server, less one
    Strict,            \* the DSN parameter strict
    Results,           \* what the server may answer: sequences of results
    Rests,             \* what COM_STMT_PREPARE may be answered
    Handshakes,        \* how connecting may go
    Queries,           \* the lengths of the statements sent
    Arguments,         \* the arguments bound: sequences of lengths, or Number
    Careless           \* the known defects the callers run into

ASSUME MysqlAssumption ==
    /\ MaxPacketSize \in Nat \ {0} /\ PacketNumbers \in Nat \ {0} /\ MaxAllowed \in Nat
    /\ Strict \in BOOLEAN
    /\ Careless \subseteq {"execmore", "infilemore", "hugerow", "preparewarn", "charsets"}

VARIABLES
    c,        \* the connection
    rows,     \* what the caller is reading: "none", "text" or "binary" rows
    stmt,     \* its prepared statement: "none", "new" or "cached" (the columns)
    crossed,  \* it has used the connection while it was reading rows
    res       \* the last call: its name, how it ended, whose answers it read

vars == <<c, rows, stmt, crossed, res>>

Forever == 1000       \* a life no call outlasts
Number == -1          \* an argument of eight bytes
Short == 9            \* the length of a statement whose length is of no interest

-----------------------------------------------------------------------------
(* What the server sends.  A result is [kind, n, warn]: an OK packet, an    *)
(* error, n rows, n rows and an error, or a request for a local file and    *)
(* the answer to it.                                                        *)

Msg(kind) == [kind |-> kind, more |-> FALSE, warn |-> FALSE, size |-> 5, n |-> 0,
              own |-> "call"]

Row(r) == [Msg(IF r.kind = "huge" THEN "hugerow" ELSE "row") EXCEPT
             !.size = IF r.kind \in {"big", "huge"} THEN MaxPacketSize + 1 ELSE 9]

Messages(r, more) ==
    LET status(m) == [m EXCEPT !.more = more, !.warn = r.warn]
        set(end) == <<[Msg("header") EXCEPT !.size = 1, !.n = 1], Msg("column"),
                      [Msg("eof") EXCEPT !.more = more]>>
                    \o [i \in 1 .. r.n |-> Row(r)] \o <<end>>
    IN CASE r.kind = "ok" -> <<status(Msg("ok"))>>
         [] r.kind = "err" -> <<Msg("err")>>
         [] r.kind \in {"rows", "big", "huge"} -> set([Msg("eof") EXCEPT !.more = more])
         [] r.kind = "broken" -> set(Msg("err"))
         [] r.kind = "file" -> <<Msg("infile"), status(Msg("ok"))>>
         [] r.kind = "badfile" -> <<Msg("infile"), Msg("err")>>

AllMessages(rs) == FlattenSeq([i \in DOMAIN rs |-> Messages(rs[i], i < Len(rs))])

One(kind, n) == <<[kind |-> kind, n |-> n, warn |-> FALSE]>>

(* A message of n bytes travels as full frames and one that is not full,    *)
(* and the server numbers its answer on from the packet it has received.    *)
Frames(n) == [i \in 1 .. n \div MaxPacketSize + 1 |->
                IF i <= n \div MaxPacketSize THEN MaxPacketSize ELSE n % MaxPacketSize]

RECURSIVE Numbered(_, _)
Numbered(msgs, q) ==
    IF msgs = <<>> THEN <<>>
    ELSE LET s == Frames(Head(msgs).size) IN
         [i \in DOMAIN s |-> [seq |-> (q + i - 1) % PacketNumbers, size |-> s[i], msg |-> Head(msgs)]]
           \o Numbered(Tail(msgs), (q + Len(s)) % PacketNumbers)

(* The answer is put on the wire, as far as the request for a local file.   *)
Deliver(d, msgs) ==
    LET asks == {i \in DOMAIN msgs : msgs[i].kind = "infile"}
        n == IF asks = {} THEN Len(msgs) ELSE Min(asks)
    IN [d EXCEPT !.wire = @ \o Numbered(SubSeq(msgs, 1, n), d.seq),
                 !.held = SubSeq(msgs, n + 1, Len(msgs))]

-----------------------------------------------------------------------------
(* Packets.                                                                 *)

Fail(d, e) == [d EXCEPT !.err = e]

(* Close (with its COM_QUIT) and cleanup.                                   *)
Closed(d) == [d EXCEPT !.open = FALSE, !.wire = <<>>, !.held = <<>>, !.skew = FALSE,
                       !.busy = FALSE, !.more = FALSE, !.seq = 0, !.life = 0, !.deaf = FALSE]

(* readPacket: the frames of one message, the number of each compared with  *)
(* the one expected.                                                        *)
RECURSIVE ReadFrames(_, _)
ReadFrames(d, begun) ==
    IF d.err # "" THEN d
    ELSE IF d.skew THEN Fail(d, "garbage")
    ELSE IF d.life = 0 THEN Fail(Closed(d), "badconn")
    ELSE IF d.wire = <<>> THEN Fail(d, "stuck")
    ELSE LET f == Head(d.wire)
             e == [d EXCEPT !.wire = Tail(@), !.life = @ - 1, !.seq = (@ + 1) % PacketNumbers]
         IN IF f.seq # d.seq
            THEN Fail([d EXCEPT !.wire = <<>>, !.held = <<>>, !.skew = TRUE], "sync")
            ELSE IF f.size = 0 /\ ~begun THEN Fail(Closed(d), "badconn")
            ELSE IF f.size < MaxPacketSize
            THEN [e EXCEPT !.msg = f.msg, !.got = @ \cup {f.msg.own}]
            ELSE ReadFrames(e, TRUE)

ReadPacketUnnumbered(d) ==
    IF d.wire = <<>> \/ d.err # "" \/ d.skew THEN ReadFrames(d, FALSE)
    ELSE ReadFrames([d EXCEPT !.seq = Head(d.wire).seq], FALSE)

ReadPacket(d) == ReadFrames(d, FALSE)

(* writePacket: how a packet is split.                                      *)
WrittenFramesShort(n) == IF n <= MaxPacketSize THEN <<n>> ELSE Frames(n)
WrittenFrames(n) == Frames(n)

WritePacket(d, n, args) ==
    IF d.err # "" THEN d
    ELSE IF n > d.allowed THEN Fail(d, "toolarge")
    ELSE IF ~d.open THEN Fail(d, "panic")
    ELSE IF d.life = 0 /\ d.deaf THEN Fail(d, "badconn")
    ELSE LET s == WrittenFrames(n) IN
         [d EXCEPT !.seq = (@ + Len(s)) % PacketNumbers,
                   !.sent = Append(@, [size |-> n, frames |-> s, args |-> args])]

(* writeCommandPacket, -Str and -Uint32: a command is numbered from 0, and  *)
(* is not sent while the buffer holds bytes.                                *)
Command(d, n, msgs) ==
    IF d.err # "" THEN d
    ELSE IF d.busy THEN Fail([d EXCEPT !.seq = 0], "badconn")
    ELSE LET e == WritePacket([d EXCEPT !.seq = 0], n, 0) IN
         IF e.err # "" THEN e ELSE Deliver(e, msgs)

-----------------------------------------------------------------------------
(* Reading the answers.  What a call still has to read is a list of tasks,  *)
(* d.todo: a function that calls another puts its tasks in front.  A task   *)
(* is skipped once the call has failed, except those that handle failures.  *)

HandleErrorPacket(d) == Fail(d, IF d.msg.kind = "err" THEN "mysql" ELSE "malformed")

Push(d, tasks) == [d EXCEPT !.todo = tasks \o @]

(* handleOkPacket: first what follows the OK packet, then the warnings.     *)
HandleOkPacket(d) ==
    Push([d EXCEPT !.more = d.msg.more],
         <<"discard">> \o (IF Strict /\ d.msg.warn THEN <<"warnings">> ELSE <<>>))

(* readResultSetHeaderPacket                                                *)
ReadHeader(d) ==
    CASE d.msg.kind = "ok" -> HandleOkPacket(Push(d, <<"nocolumns">>))
      [] d.msg.kind = "infile" ->
            Push(d, IF d.file THEN <<"send", "result", "nocolumns">> ELSE <<"refuse", "ignore">>)
      [] d.msg.kind = "header" -> [d EXCEPT !.cols = d.msg.n]
      [] OTHER -> HandleErrorPacket(d)

ReadResultOK(d) ==
    CASE d.msg.kind = "ok" -> HandleOkPacket(d)
      [] d.msg.kind = "auth" -> Fail(d, "auth")
      [] OTHER -> HandleErrorPacket(d)

(* readUntilEOF takes every packet that begins like an EOF packet for one.  *)
ReadUntilEOF(d) ==
    CASE d.msg.kind = "err" -> HandleErrorPacket(d)
      [] d.msg.kind = "eof" -> [d EXCEPT !.more = d.msg.more]
      [] d.msg.kind = "hugerow" -> d
      [] OTHER -> Push(d, <<"eof">>)

ReadColumns(d) ==
    CASE d.msg.kind = "eof" /\ d.cols = 0 -> d
      [] d.msg.kind = "column" -> Push([d EXCEPT !.cols = @ - 1], <<"columns">>)
      [] OTHER -> Fail(d, "malformed")

(* textRows.readRow and binaryRows.readRow                                  *)
ReadRow(d) ==
    CASE d.msg.kind \in {"row", "hugerow"} -> d
      [] d.msg.kind = "eof" -> Push([d EXCEPT !.more = d.msg.more], <<"discard", "end">>)
      [] OTHER -> [HandleErrorPacket(d) EXCEPT !.reading = FALSE]

ReadPrepareResult(d) ==
    IF d.msg.kind # "prepared" THEN HandleErrorPacket(d)
    ELSE Push(d, (IF Strict /\ d.msg.warn THEN <<"warnings">> ELSE <<>>)
                 \o (IF d.msg.n % 2 = 1 THEN <<"eof">> ELSE <<>>)
                 \o (IF d.msg.n >= 2 THEN <<"eof">> ELSE <<>>))

(* handleInFileRequest ends the file with an empty packet, also when there  *)
(* is no file to send.                                                      *)
TerminateFileOnly(d) ==
    IF d.file THEN LET e == WritePacket(d, 0, 0) IN
                   IF e.err # "" THEN e ELSE Deliver([e EXCEPT !.held = <<>>], d.held)
    ELSE d

Terminate(d) ==
    LET e == WritePacket(d, 0, 0) IN
    IF e.err # "" THEN e ELSE Deliver([e EXCEPT !.held = <<>>], d.held)

(* The tasks that read a packet.                                            *)
Read(d, task) ==
    CASE task = "header" -> ReadHeader([d EXCEPT !.cols = 0])
      [] task = "result" -> ReadResultOK(d)
      [] task = "eof" -> ReadUntilEOF(d)
      [] task = "columns" -> ReadColumns(d)
      [] task = "row" -> ReadRow(d)
      [] task = "prepared" -> ReadPrepareResult(d)
      [] task = "init" -> IF d.msg.kind = "init" THEN d ELSE HandleErrorPacket(d)
      [] task = "ignore" -> Fail(d, "nofile")

Reading == {"header", "result", "eof", "columns", "row", "prepared", "init", "ignore"}

(* The others: discardResults, getWarnings (a query of its own, whose rows  *)
(* become the error), and the steps between two packets.                    *)
Do(d, task) ==
    CASE task = "discard" -> IF d.more THEN Push(d, <<"header", "set", "discard">>) ELSE d
      [] task = "set" -> IF d.cols > 0 THEN Push(d, <<"eof", "eof">>) ELSE [d EXCEPT !.more = FALSE]
      [] task = "skip" -> IF d.cols > 0 THEN Push(d, <<"eof", "eof">>) ELSE d
      [] task = "open" -> IF d.cols > 0 THEN Push(d, <<"columns", "opened">>) ELSE d
      [] task = "reopen" -> IF d.cols > 0 THEN Push(d, <<"eof", "opened">>) ELSE d
      [] task = "opened" -> [d EXCEPT !.reading = TRUE]
      [] task = "nocolumns" -> [d EXCEPT !.cols = 0]
      [] task = "warnings" -> Push(Command(d, 14, AllMessages(One("rows", 1))),
                                   <<"header", "columns", "rows", "warned">>)
      [] task = "rows" -> Push(d, <<"row", "rows">>)
      [] task = "send" -> Terminate(WritePacket(d, 16, 0))
      [] task = "refuse" -> Terminate(d)

Handle(d, task) ==
    CASE task = "end" -> [(IF d.err = "" THEN Fail(d, "EOF") ELSE Closed(d)) EXCEPT !.reading = FALSE]
      [] task = "warned" -> IF d.err = "EOF" THEN Fail(d, "warnings") ELSE d

Step(d) ==
    LET task == Head(d.todo)
        e == [d EXCEPT !.todo = Tail(@)]
        p == ReadPacket(e)
    IN CASE task \in {"end", "warned"} -> Handle(e, task)
         [] task \notin {"end", "warned"} /\ d.err # "" -> e
         [] task \in Reading /\ d.err = "" -> IF p.err # "" THEN p ELSE Read(p, task)
         [] OTHER -> Do(e, task)

RECURSIVE Finish(_)
Finish(d) == IF d.todo = <<>> THEN d ELSE Finish(Step(d))

Run(d, tasks) == Finish([d EXCEPT !.todo = tasks])

ExecQuery(d, n, msgs) == Run(Command(d, n, msgs), <<"header", "skip">>)

-----------------------------------------------------------------------------
(* writeExecutePacket: the head of the packet, then each argument in line,  *)
(* or sent before it in COM_STMT_SEND_LONG_DATA packets when what is left   *)
(* of max_allowed_packet is too short.                                      *)

IntegerLength(n) == CASE n <= 250 -> 1 [] n \in 251 .. 65535 -> 3
                      [] n \in 65536 .. 16777215 -> 4 [] OTHER -> 9

Head0(args) == 14 + (IF args = <<>> THEN 0 ELSE (Len(args) + 7) \div 8 + 1 + 2 * Len(args))

(* writeCommandLongData: pieces of at most maxAllowedPacket - 1 bytes       *)
RECURSIVE LongData(_, _)
LongData(d, n) ==
    IF d.err # "" \/ n <= 0 THEN [d EXCEPT !.seq = 0]
    ELSE LET piece == Min({n, d.allowed - 1 - 7})
             e == WritePacket([d EXCEPT !.seq = 0], 7 + piece, piece)
         IN IF e.err # "" THEN e ELSE LongData(e, n - piece)

Fits(n, d, args, i, inline) ==
    n < d.allowed - Head0(args) - inline - (Len(args) - i) * 64

RECURSIVE BindFrom(_, _, _, _, _)
BindFrom(d, args, i, inline, bytes) ==
    IF d.err # "" THEN d
    ELSE IF i > Len(args) THEN WritePacket([d EXCEPT !.seq = 0], Head0(args) - 4 + inline, bytes)
    ELSE IF args[i] = Number THEN BindFrom(d, args, i + 1, inline + 8, bytes)
    ELSE IF Fits(args[i], d, args, i, inline)
    THEN BindFrom(d, args, i + 1, inline + IntegerLength(args[i]) + args[i], bytes + args[i])
    ELSE BindFrom(LongData(d, args[i]), args, i + 1, inline, bytes)

Execute(d, args, msgs) ==
    IF d.err # "" THEN d
    ELSE IF d.busy THEN Fail([d EXCEPT !.seq = 0], "badconn")
    ELSE LET e == BindFrom([d EXCEPT !.seq = 0], args, 1, 0, 0) IN
         IF e.err # "" THEN e ELSE Deliver(e, msgs)

(* What COM_STMT_PREPARE is answered, r.n telling parameters (1) and        *)
(* columns (2).                                                             *)
PrepareMessages(r) ==
    IF r.kind = "err" THEN <<Msg("err")>>
    ELSE <<[Msg("prepared") EXCEPT !.n = r.n, !.warn = r.warn]>>
         \o (IF r.n % 2 = 1 THEN <<Msg("column"), Msg("eof")>> ELSE <<>>)
         \o (IF r.n >= 2 THEN <<Msg("column"), Msg("eof")>> ELSE <<>>)

-----------------------------------------------------------------------------
(* Connecting.  h.hello is the first packet, h.auths the answers to the     *)
(* password, h.tls and h.agree what the DSN asks and allows.                *)

Idle == [open |-> FALSE, seq |-> 0, more |-> FALSE, busy |-> FALSE, allowed |-> MaxPacketSize,
         wire |-> <<>>, held |-> <<>>, skew |-> FALSE, life |-> 0, deaf |-> FALSE, file |-> FALSE,
         err |-> "", msg |-> Msg("none"), cols |-> 0, reading |-> FALSE, todo |-> <<>>, got |-> {}, sent |-> <<>>]

Reply(d, h, i) ==
    IF d.err # "" \/ i > Len(h.auths) THEN d ELSE Deliver(d, <<Msg(h.auths[i])>>)

WriteAuthPacket(d, h) ==
    LET tls == IF h.tls THEN WritePacket(d, 32, 0) ELSE d
    IN IF d.busy THEN Fail(d, "badconn")
       ELSE Reply(WritePacket(IF tls.err = "" /\ h.tls /\ ~h.agree THEN Fail(tls, "tls") ELSE tls,
                              80, 0), h, 1)

HandleAuthResult(d, h) ==
    LET e == Run(d, <<"result">>) IN
    IF e.err = "auth" /\ h.agree
    THEN Run(Reply(WritePacket([e EXCEPT !.err = ""], 20, 0), h, 2), <<"result">>)
    ELSE e

GetSystemVar(d) ==
    [Run(Command(d, 28, AllMessages(One("rows", 1))), <<"header", "eof", "row", "eof">>)
       EXCEPT !.allowed = MaxAllowed]

(* handleParams: SET NAMES for each character set until one is taken, then  *)
(* a SET for every other parameter.                                         *)
RECURSIVE SetNames(_, _)
SetNames(d, charsets) ==
    IF charsets = <<>> THEN d
    ELSE LET e == ExecQuery([d EXCEPT !.err = ""], 17, AllMessages(One(Head(charsets), 0))) IN
         IF e.err = "" THEN e ELSE SetNames(e, Tail(charsets))

HandleParams(d, h) == ExecQuery(SetNames(d, h.charsets), 25, AllMessages(One("ok", 0)))

Connect(d, h) ==
    LET i == Run(Deliver(d, <<Msg(h.hello)>>), <<"init">>)
        a == HandleAuthResult(WriteAuthPacket(i, h), h)
        s == IF a.err # "" THEN a ELSE GetSystemVar(a)
        p == IF s.err # "" THEN s ELSE HandleParams(s, h)
    IN IF p.err # "" THEN Closed(p) ELSE p

-----------------------------------------------------------------------------
(* The calls.  A call starts with what the connection is, and with what it  *)
(* will meet: how long the connection lasts, whether writing to a broken    *)
(* one fails, and whether a file the server asks for exists.                *)

Lives == 0 .. 15 \cup {Forever}

Fresh(d) == [d EXCEPT !.err = "", !.msg = Msg("none"), !.cols = 0, !.reading = rows # "none",
                      !.got = {}, !.sent = <<>>, !.deaf = FALSE, !.file = FALSE]

Meets == {[Fresh(c) EXCEPT !.life = life, !.deaf = deaf, !.file = file] :
             life \in IF c.life = 0 THEN {0} ELSE Lives, deaf \in BOOLEAN, file \in BOOLEAN}

(* What there is to tell apart: a file only if one is asked for, a failing  *)
(* write only if the connection breaks, and, in a call that sends a long    *)
(* statement or long arguments, only how these are sent.                    *)
Matters(d, reply) ==
    /\ d.file => c.held # <<>> \/ \E i \in DOMAIN reply : reply[i].kind \in {"file", "badfile"}
    /\ d.deaf => d.life # Forever

(* What a call leaves unread belongs to the rows being read, or to no one   *)
(* any more.  How much of it the buffer holds is up to the last Read.       *)
Owned(d, left) ==
    [d EXCEPT !.wire = [i \in DOMAIN @ |->
        [@[i] EXCEPT !.msg.own = IF left = "none" \/ (@ = "call" /\ rows # "none") THEN "old"
                                 ELSE IF @ = "call" THEN "rows" ELSE @]]]

Ends(name, d, left) ==
    /\ \E busy \in IF d.wire = <<>> /\ ~d.skew THEN {FALSE}
                   ELSE IF d.wire = c.wire THEN {c.busy} ELSE BOOLEAN :
          c' = [Fresh(Owned(d, left)) EXCEPT !.busy = busy,
                                             !.seq = IF d.wire = <<>> THEN 0 ELSE @,
                                             !.life = IF @ = 0 THEN 0 ELSE Forever]
    /\ rows' = left
    /\ res' = [call |-> name, err |-> d.err, got |-> d.got, sent |-> d.sent]

(* database/sql drops a connection that gave ErrBadConn, and nothing can be *)
(* said of one whose packets are read as what they are not.                 *)
Usable == res.err \notin {"badconn", "garbage"}

(* The answers that do not run into a known defect.                         *)
Plain(reply, d) ==
    /\ "hugerow" \notin Careless => \A i \in DOMAIN reply : reply[i].kind # "huge"
    /\ "infilemore" \notin Careless =>
          \A i \in DOMAIN reply : reply[i].kind = "file" /\ ~d.file => i = Len(reply)

PlainExec(reply, d) ==
    /\ Plain(reply, d)
    /\ "execmore" \notin Careless => Len(reply) = 1 \/ reply[1].kind \notin {"rows", "big", "huge"}

IfOpen(d, e) == IF c.open THEN e ELSE Fail(d, "badconn")

Open ==
    /\ ~c.open
    /\ \E h \in Handshakes, life \in Lives, deaf \in BOOLEAN :
          Ends("Open", Connect([Idle EXCEPT !.open = TRUE, !.life = life, !.deaf = deaf], h), "none")
    /\ stmt' = "none"
    /\ crossed' = FALSE

Close ==
    /\ rows = "none"
    /\ c.open
    /\ Ends("Close", Closed(Fresh(c)), "none")
    /\ stmt' = "none"
    /\ UNCHANGED crossed

(* Exec, and Begin, Commit and Rollback, which are Execs.                   *)
Exec ==
    /\ Usable
    /\ \E d \in Meets, n \in Queries, reply \in Results :
          /\ Matters(d, reply) /\ PlainExec(reply, d)
          /\ n # Short => reply = One("ok", 0)
          /\ Ends("Exec", IfOpen(d, ExecQuery(d, n, AllMessages(reply))), rows)
    /\ crossed' = (crossed \/ rows # "none")
    /\ UNCHANGED stmt

Query ==
    /\ Usable /\ rows = "none"
    /\ \E d \in Meets, reply \in Results :
          /\ Matters(d, reply) /\ Plain(reply, d)
          /\ LET e == IfOpen(d, Run(Command(d, Short, AllMessages(reply)), <<"header", "open">>))
             IN Ends("Query", e, IF e.err = "" /\ e.reading THEN "text" ELSE "none")
    /\ UNCHANGED <<stmt, crossed>>

Prepare ==
    /\ Usable /\ rows = "none" /\ stmt = "none"
    /\ \E d \in Meets, r \in Rests :
          /\ Matters(d, <<>>)
          /\ "preparewarn" \notin Careless => ~(Strict /\ r.warn /\ r.n > 0)
          /\ LET e == IfOpen(d, Run(Command(d, Short, PrepareMessages(r)), <<"prepared">>)) IN
             /\ Ends("Prepare", e, "none")
             /\ stmt' = IF e.err = "" THEN "new" ELSE "none"
    /\ UNCHANGED crossed

StmtExec ==
    /\ Usable /\ rows = "none" /\ stmt # "none"
    /\ \E d \in Meets, args \in Arguments, reply \in Results :
          /\ Matters(d, reply) /\ PlainExec(reply, d)
          /\ args # <<Number>> => reply = One("ok", 0)
          /\ Ends("StmtExec",
                  IfOpen(d, Run(Execute(d, args, AllMessages(reply)), <<"header", "skip">>)), "none")
    /\ UNCHANGED <<stmt, crossed>>

StmtQuery ==
    /\ Usable /\ rows = "none" /\ stmt # "none"
    /\ \E d \in Meets, reply \in Results :
          /\ Matters(d, reply) /\ Plain(reply, d)
          /\ LET e == IfOpen(d, Run(Execute(d, <<Number>>, AllMessages(reply)),
                                    <<"header", IF stmt = "cached" THEN "reopen" ELSE "open">>))
             IN /\ Ends("StmtQuery", e, IF e.err = "" /\ e.reading THEN "binary" ELSE "none")
                /\ stmt' = IF e.err = "" /\ e.reading THEN "cached" ELSE stmt
    /\ UNCHANGED crossed

StmtClose ==
    /\ Usable /\ stmt # "none"
    /\ \E d \in Meets : Matters(d, <<>>) /\ Ends("StmtClose", IfOpen(d, Command(d, 5, <<>>)), rows)
    /\ stmt' = "none"
    /\ crossed' = (crossed \/ rows # "none")

RowsNext ==
    /\ rows # "none" /\ Usable
    /\ \E d \in Meets :
          Matters(d, <<>>) /\ LET e == IF c.open THEN Run(d, <<"row">>) ELSE Fail(d, "invalid")
          IN Ends("Next", e, IF e.reading THEN rows ELSE "none")
    /\ UNCHANGED <<stmt, crossed>>

(* What is left of the answer is read; the caller is rid of the rows even   *)
(* if that fails.                                                           *)
DrainRows(d) == Run(d, <<"eof", "discard">>)

RowsClose ==
    /\ rows # "none"
    /\ \E d \in Meets :
          Matters(d, <<>>) /\ Ends("RowsClose", IF c.open THEN DrainRows(d) ELSE Fail(d, "invalid"), "none")
    /\ UNCHANGED <<stmt, crossed>>

Init ==
    /\ c = Idle
    /\ rows = "none" /\ stmt = "none" /\ crossed = FALSE
    /\ res = [call |-> "none", err |-> "", got |-> {}, sent |-> <<>>]

Next == \/ Open \/ Close \/ Exec \/ Query \/ Prepare \/ StmtExec \/ StmtQuery \/ StmtClose
        \/ RowsNext \/ RowsClose

Spec == Init /\ [][Next]_vars

-----------------------------------------------------------------------------
(* The variables stay in their types, a packet number fits its byte, and a  *)
(* connection that is closed holds nothing (cleanup).                       *)
TypeOK ==
    /\ c.open \in BOOLEAN /\ c.more \in BOOLEAN /\ c.busy \in BOOLEAN /\ c.skew \in BOOLEAN
    /\ c.seq \in 0 .. PacketNumbers - 1
    /\ c.err = "" /\ c.life \in {0, Forever}
    /\ ~c.open => c.wire = <<>> /\ ~c.busy /\ c.life = 0
    /\ rows \in {"none", "text", "binary"} /\ stmt \in {"none", "new", "cached"}
    /\ crossed \in BOOLEAN

(* No call takes a packet that answers another one: not the rest of an      *)
(* earlier answer, and not the rows the caller is still reading, even if it *)
(* uses the connection in between (packets.go:44, packets.go:409).          *)
AnswersAreOwn ==
    /\ "old" \notin res.got
    /\ res.call \notin {"Next", "RowsClose"} => "rows" \notin res.got

(* When the caller reads no rows, everything the server sent was read: the  *)
(* connection can be given to somebody else (packets.go:1097, rows.go:58),  *)
(* unless it was reported broken.                                           *)
IdleIsInStep ==
    rows = "none" /\ ~crossed /\ res.err # "badconn" =>
        /\ c.wire = <<>> /\ c.held = <<>> /\ ~c.skew
        /\ res.err \notin {"sync", "malformed", "garbage"}

(* The driver never waits for a packet the server is not going to send, nor *)
(* writes to a connection it has closed (infile.go:167, connection.go:93).  *)
NeverStuck == res.err \notin {"stuck", "panic"}

(* What the server puts together from the frames is what was sent, in as    *)
(* many bytes as it accepts; the pieces of long arguments and those in line *)
(* are all of the arguments, and never too much (packets.go:88, 826, 874).  *)
Assembled(frames) == Min({i \in DOMAIN frames : frames[i] < MaxPacketSize} \cup {Len(frames) + 1})

CommandsArrive ==
    /\ \A i \in DOMAIN res.sent :
          LET w == res.sent[i] IN
          /\ Assembled(w.frames) = Len(w.frames)
          /\ FoldLeft(LAMBDA a, b : a + b, 0, w.frames) = w.size
          /\ w.size <= MaxAllowed
    /\ res.call = "StmtExec" =>
          /\ res.err # "toolarge"
          /\ res.err = "" =>
                \E args \in Arguments :
                   FoldLeft(LAMBDA a, b : IF b = Number THEN a ELSE a + b, 0, args)
                     = FoldLeft(LAMBDA a, w : a + w.args, 0, res.sent)

(* The documentation of multiStatements (README.md:245): "Only the result   *)
(* of the first query is returned, all other results are silently           *)
(* discarded." False: exec reads the first result only (connection.go:300). *)
RestIsDiscarded == res.call = "Exec" /\ res.err = "" /\ ~crossed => c.wire = <<>>
=============================================================================
