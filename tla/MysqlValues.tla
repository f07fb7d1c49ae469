----------------------------- MODULE MysqlValues -----------------------------
(***************************************************************************)
(* The values that pass a connection of the MySQL driver (data/mysql): the *)
(* arguments of a statement, interpolated into its text (connection.go) or *)
(* bound to a prepared one (packets.go), and the rows that come back in    *)
(* the text and in the binary protocol (packets.go, utils.go).             *)
(*                                                                         *)
(* A value is a pair of its kind and what it is.  A text is a sequence of  *)
(* characters, those that mean something to a statement by name ("apos",   *)
(* "bs", ...), or of runs of plain ones, so that it can be long.  Numbers  *)
(* that are bound are names; an integer that is fetched is its eight       *)
(* bytes, a date or time its fields.  A packet is a sequence of pieces: a  *)
(* byte, or a number or text that travels whole.                           *)
(***************************************************************************)
EXTENDS Integers, Sequences, SequencesExt, FiniteSetsExt

CONSTANTS
    Templates,      \* statements: sequences of characters and "?"
    Bound,          \* what may be bound: sequences of values
    Fetched,        \* rows: sequences of cells [column, value]
    Runs,           \* the runs of plain characters and their lengths
    MaxStatement    \* max_allowed_packet, less one

VARIABLE carried    \* what was carried last: how, what was given, what was seen

Nothing == [by |-> "nothing", given |-> <<>>, seen |-> <<>>]
Null == <<"nil">>
IsNull(v) == v[1] \in {"nil", "nilbytes"}      \* []byte(nil) is a NULL value

Size(t) == FoldLeft(LAMBDA n, c : n + IF c \in DOMAIN Runs THEN Runs[c] ELSE 1, 0, t)

-----------------------------------------------------------------------------
(* interpolateParams: arguments as literals in the text of a statement.     *)

Escapes == [nul |-> "0", lf |-> "n", cr |-> "r", sub |-> "Z", apos |-> "apos", quot |-> "quot", bs |-> "bs"]

\* escapeBytesBackslash and escapeStringBackslash.
EscapeBackslash(t) ==
    FlattenSeq([i \in DOMAIN t |-> IF t[i] \in DOMAIN Escapes THEN <<"bs", Escapes[t[i]]>> ELSE <<t[i]>>])

\* escapeBytesQuotes and escapeStringQuotes.
EscapeQuotes(t) ==
    FlattenSeq([i \in DOMAIN t |-> IF t[i] = "apos" THEN <<"apos", "apos">> ELSE <<t[i]>>])

\* Mutant: statusNoBackslashEscapes is not looked at.
EscapeAlways(t, noBackslash) == EscapeBackslash(t)
Escape(t, noBackslash) == IF noBackslash THEN EscapeQuotes(t) ELSE EscapeBackslash(t)

Literal(v, noBackslash) ==
    LET quoted(t) == <<"apos">> \o t \o <<"apos">>
    IN CASE IsNull(v) -> <<"NULL">>
         [] v[1] \in {"int", "float"} -> <<v[2]>>
         [] v[1] = "bool" -> <<IF v[2] THEN "1" ELSE "0">>
         [] v[1] = "time" -> quoted(<<v[2]>>)
         [] v[1] = "bytes" -> <<"_binary">> \o quoted(Escape(v[2], noBackslash))
         [] v[1] = "string" -> quoted(Escape(v[2], noBackslash))

\* ErrSkip (<<>>): the statement is prepared instead. What follows the last "?"
\* is not counted.
Interpolate(query, args, noBackslash) ==
    LET marks == SelectSeq([i \in DOMAIN query |-> i], LAMBDA i : query[i] = "?")
        nth(i) == Cardinality({j \in 1 .. i : query[j] = "?"})
        upTo(n) == FlattenSeq([i \in 1 .. n |->
                     IF query[i] = "?" THEN Literal(args[nth(i)], noBackslash) ELSE <<query[i]>>])
    IN IF Len(marks) # Len(args) THEN <<>>
       ELSE IF \E i \in DOMAIN args : args[i][1] = "other" THEN <<>>
       ELSE IF marks # <<>> /\ Size(upTo(Last(marks))) + 4 > MaxStatement THEN <<>>
       ELSE upTo(Len(query))

(* The server reads a statement: what is outside of quotes, and each text   *)
(* between them; a backslash takes the next character with it, if the       *)
(* session says so, and a doubled apostrophe is one.                        *)
Unescapes == [c \in {"0", "n", "r", "Z"} |->
                CASE c = "0" -> "nul" [] c = "n" -> "lf" [] c = "r" -> "cr" [] c = "Z" -> "sub"]

ReadCharacter(noBackslash, s, c) ==
    IF s.at = "escape"
    THEN [s EXCEPT !.at = "text", !.text = Append(@, IF c \in DOMAIN Unescapes THEN Unescapes[c] ELSE c)]
    ELSE IF s.at = "text"
    THEN CASE c = "apos" -> [s EXCEPT !.at = "end"]
           [] c = "bs" /\ ~noBackslash -> [s EXCEPT !.at = "escape"]
           [] OTHER -> [s EXCEPT !.text = Append(@, c)]
    ELSE IF s.at = "end" /\ c = "apos"
    THEN [s EXCEPT !.at = "text", !.text = Append(@, "apos")]
    ELSE LET e == IF s.at = "end" THEN [s EXCEPT !.items = Append(@, <<"text", s.text>>), !.text = <<>>] ELSE s
         IN CASE c = "apos" -> [e EXCEPT !.at = "text"]
              [] c = "_binary" -> [e EXCEPT !.at = "out"]
              [] OTHER -> [e EXCEPT !.at = "out", !.items = Append(@, <<"word", c>>)]

ReadStatement(t, noBackslash) ==
    LET s == FoldLeft(LAMBDA a, c : ReadCharacter(noBackslash, a, c),
                      [at |-> "out", text |-> <<>>, items |-> <<>>], t)
    IN IF s.at = "out" THEN s.items
       ELSE Append(s.items, <<IF s.at = "end" THEN "text" ELSE "open", s.text>>)

\* What a value is in a statement.
Means(v) ==
    CASE IsNull(v) -> <<"word", "NULL">>
      [] v[1] \in {"int", "float"} -> <<"word", v[2]>>
      [] v[1] = "bool" -> <<"word", IF v[2] THEN "1" ELSE "0">>
      [] v[1] = "time" -> <<"text", <<v[2]>>>>
      [] v[1] \in {"bytes", "string"} -> <<"text", v[2]>>

BindText ==
    \E query \in Templates, args \in Bound, noBackslash \in BOOLEAN :
       /\ Len(args) = Len(SelectSeq(ReadStatement(query, noBackslash), LAMBDA i : i = <<"word", "?">>))
       /\ LET text == Interpolate(query, args, noBackslash) IN
          /\ text # <<>> /\ 1 + Size(text) <= MaxStatement      \* ErrPktTooLarge
          /\ carried' = [by |-> "statement", given |-> <<ReadStatement(query, noBackslash), args>>,
                         seen |-> ReadStatement(text, noBackslash)]

-----------------------------------------------------------------------------
(* Bytes and pieces.                                                        *)

Piece(n, x) == [size |-> n, of |-> x]
Bytes(ns) == [i \in DOMAIN ns |-> Piece(1, ns[i])]
LittleEndian(n, width) == Bytes([i \in 1 .. width |-> IF i > 4 THEN 0 ELSE (n \div 256 ^ (i - 1)) % 256])
Drop(b, n) == SubSeq(b, n + 1, Len(b))
Take(b, n) == [i \in 1 .. n |-> b[i].of]
Unsigned(ns) == FoldRight(LAMBDA n, m : n + 256 * m, ns, 0)

AppendInteger(n) ==
    CASE n <= 250 -> LittleEndian(n, 1)
      [] n \in 251 .. 65535 -> Bytes(<<252>>) \o LittleEndian(n, 2)
      [] n \in 65536 .. 16777215 -> Bytes(<<253>>) \o LittleEndian(n, 3)
      [] n > 16777215 -> Bytes(<<254>>) \o LittleEndian(n, 8)

\* readLengthEncodedInteger: the number, whether it is NULL, the bytes it takes.
ReadInteger(b) ==
    LET first == IF b = <<>> THEN 251 ELSE b[1].of
        width == CASE first \in 0 .. 251 -> 0 [] first = 252 -> 2 [] first = 253 -> 3 [] first = 254 -> 8
    IN [null |-> first = 251, width |-> width + 1,
        n |-> IF width > 0 THEN Unsigned(Take(Drop(b, 1), IF width = 8 THEN 4 ELSE width))
              ELSE IF first = 251 THEN 0 ELSE first]

\* readLengthEncodedString: the string and what is behind it.
ReadString(b) ==
    LET r == ReadInteger(b)
        rest == Drop(b, r.width)
    IN IF r.n < 1 THEN [v |-> IF r.null THEN Null ELSE <<"text", <<>>>>, rest |-> rest]
       ELSE IF rest # <<>> /\ rest[1].size = r.n THEN [v |-> <<"text", rest[1].of>>, rest |-> Drop(rest, 1)]
       ELSE [v |-> <<"error">>, rest |-> <<>>]

String(t) == AppendInteger(Size(t)) \o IF t = <<>> THEN <<>> ELSE <<Piece(Size(t), t)>>

-----------------------------------------------------------------------------
(* writeExecutePacket: the NULL bitmap, the types, the values of arguments. *)

\* Whether a string goes in line, or before the packet as long data.
InLine(t, p, args, i) ==
    Size(t) < MaxStatement - 14 - 1 - (Len(args) + 7) \div 8 - 2 * Len(args)
              - FoldLeft(LAMBDA n, x : n + x.size, 0, p.values) - (Len(args) - i) * 64

BindArgument(p, args, i) ==
    LET v == args[i]
        typed(type, values) == [p EXCEPT !.types = Append(@, type), !.values = @ \o values]
    IN CASE IsNull(v) ->
              [typed("Null", <<>>) EXCEPT !.mask[(i - 1) \div 8 + 1] = @ \cup {(i - 1) % 8}]
         [] v[1] = "int" -> typed("LongLong", <<Piece(8, v[2])>>)
         [] v[1] = "float" -> typed("Double", <<Piece(8, v[2])>>)
         [] v[1] = "bool" -> typed("Tiny", Bytes(<<IF v[2] THEN 1 ELSE 0>>))
         [] v[1] = "time" -> typed("String", String(<<v[2]>>))
         [] v[1] \in {"bytes", "string"} ->
              IF InLine(v[2], p, args, i) THEN typed("String", String(v[2]))
              ELSE [typed("String", <<>>) EXCEPT !.long = @ \cup {<<i, v[2]>>}]

ExecutePacket(args) ==
    FoldLeft(LAMBDA p, i : BindArgument(p, args, i),
             [mask |-> [k \in 1 .. (Len(args) + 7) \div 8 |-> {}], types |-> <<>>, values |-> <<>>, long |-> {}],
             [i \in DOMAIN args |-> i])

\* The server reads the arguments (external).
ReadArgument(p, r, i) ==
    LET seen(v, n) == [dest |-> Append(r.dest, v), rest |-> Drop(r.rest, n)]
        string == ReadString(r.rest)
    IN IF (i - 1) % 8 \in p.mask[(i - 1) \div 8 + 1] THEN seen(Null, 0)
       ELSE IF \E t \in p.long : t[1] = i
       THEN seen(<<"text", (CHOOSE t \in p.long : t[1] = i)[2]>>, 0)
       ELSE CASE p.types[i] = "LongLong" -> seen(<<"int", r.rest[1].of>>, 1)
              [] p.types[i] = "Double" -> seen(<<"float", r.rest[1].of>>, 1)
              [] p.types[i] = "Tiny" -> seen(<<"bool", r.rest[1].of = 1>>, 1)
              [] p.types[i] = "String" -> [dest |-> Append(r.dest, string.v), rest |-> string.rest]

ReadArguments(p) ==
    FoldLeft(LAMBDA r, i : ReadArgument(p, r, i), [dest |-> <<>>, rest |-> p.values],
             [i \in DOMAIN p.types |-> i]).dest

\* What a value is when it is bound.
Binds(v) ==
    CASE IsNull(v) -> Null
      [] v[1] \in {"int", "float", "bool"} -> v
      [] v[1] = "time" -> <<"text", <<v[2]>>>>
      [] v[1] \in {"bytes", "string"} -> <<"text", v[2]>>

BindBinary ==
    \E args \in Bound :
       /\ \A i \in DOMAIN args : args[i][1] # "other"
       /\ carried' = [by |-> "packet", given |-> args, seen |-> ReadArguments(ExecutePacket(args))]

-----------------------------------------------------------------------------
(* Dates and times.                                                         *)

DateTypes == {"Date", "DateTime", "Timestamp"}
Midnight(y, mo, d) == [y |-> y, mo |-> mo, d |-> d, h |-> 0, mi |-> 0, s |-> 0, us |-> 0]
ZeroTime == Midnight(0, 0, 0)

Digit == <<"0", "1", "2", "3", "4", "5", "6", "7", "8", "9">>
Digits(n, k) == [i \in 1 .. k |-> Digit[((n \div 10 ^ (k - i)) % 10) + 1]]
Two(n) == Digits(n, 2)
NumberOf(ds) == FoldLeft(LAMBDA n, c : 10 * n + (CHOOSE i \in 1 .. 10 : Digit[i] = c) - 1, 0, ds)

\* zeroDateTime
Zeroes == Digits(0, 4) \o <<"-">> \o Two(0) \o <<"-">> \o Two(0) \o <<" ">>
          \o Two(0) \o <<":">> \o Two(0) \o <<":">> \o Two(0) \o <<".">> \o Digits(0, 7)

\* parseDateTime; the time is that of the location asked for.
ParseDateTime(t) ==
    LET k == Len(t)
        part(i, j) == IF j > k THEN 0 ELSE NumberOf(SubSeq(t, i, j))
        time == [y |-> part(1, 4), mo |-> part(6, 7), d |-> part(9, 10),
                 h |-> part(12, 13), mi |-> part(15, 16), s |-> part(18, 19),
                 us |-> IF k > 20 THEN part(21, k) * 10 ^ (26 - k) ELSE 0]
    IN IF k \notin {10, 19} \cup 21 .. 26 THEN <<"error">>
       ELSE IF t = SubSeq(Zeroes, 1, k) THEN <<"time", ZeroTime>>
       ELSE IF time.mo \in 1 .. 12 /\ time.d \in 1 .. 31 THEN <<"time", time>>
       ELSE <<"error">>

ParseBinaryDateTime(src) ==
    LET date == Midnight(src[1] + 256 * src[2], src[3], src[4])
        clock == [date EXCEPT !.h = src[5], !.mi = src[6], !.s = src[7]]
    IN CASE src = <<>> -> <<"time", ZeroTime>>
         [] Len(src) = 4 -> <<"time", date>>
         [] Len(src) = 7 -> <<"time", clock>>
         [] Len(src) = 11 -> <<"time", [clock EXCEPT !.us = Unsigned(Drop(src, 7))]>>
         [] Len(src) \notin {0, 4, 7, 11} -> <<"error">>

\* formatBinaryDateTime: dst so far, the bytes behind the hour, and where a value
\* of the wanted length begins in zeroDateTime.
FormatClock(dst, src, length, zOffs) ==
    LET clock == dst \o <<":">> \o Two(src[1]) \o <<":">> \o Two(src[2])
        decimals == zOffs + length - 20
        micros == Digits(Unsigned(Drop(src, 2)), 6)
    IN IF length <= Len(clock) THEN clock
       ELSE IF Len(src) = 2 THEN clock \o SubSeq(Zeroes, 20, zOffs + length)
       ELSE clock \o <<".">> \o (IF decimals \in 1 .. 5 THEN SubSeq(micros, 1, decimals) ELSE micros)

FormatTime(src, length) ==
    LET sign == IF src[1] = 1 THEN <<"-">> ELSE <<>>
        hour == IF src[2] # 0 THEN Digits(src[2] * 24 + src[6], 3) ELSE Two(src[6])
    IN IF src = <<>> THEN SubSeq(Zeroes, 12, 11 + length)
       ELSE FormatClock(sign \o hour, Drop(src, 6), length, 11)

FormatDateTime(src, length) ==
    LET date == Digits(src[1] + 256 * src[2], 4) \o <<"-">> \o Two(src[3]) \o <<"-">> \o Two(src[4])
    IN IF src = <<>> THEN SubSeq(Zeroes, 1, length)
       ELSE IF length = 10 THEN date
       ELSE IF Len(src) = 4 THEN date \o SubSeq(Zeroes, 11, length)
       ELSE FormatClock(date \o <<" ">> \o Two(src[5]), Drop(src, 5), length, 0)

\* NullTime.Scan
ScanTime(v) == IF v[1] = "text" THEN ParseDateTime(v[2]) ELSE v

-----------------------------------------------------------------------------
(* The server sends a row (external). A column is [type, unsigned,          *)
(* decimals], a cell such a column and its value.                           *)

Fraction(us, decimals) == IF decimals = 0 THEN <<>> ELSE <<".">> \o SubSeq(Digits(us, 6), 1, decimals)

TextOf(col, v) ==
    LET t == v[2]
        clock == <<":">> \o Two(t.mi) \o <<":">> \o Two(t.s) \o Fraction(t.us, col.decimals)
        date == Digits(t.y, 4) \o <<"-">> \o Two(t.mo) \o <<"-">> \o Two(t.d)
    IN CASE v[1] = "text" -> t
         [] v[1] \in {"int", "float"} -> <<ToString(t)>>
         [] v[1] = "span" -> (IF t.neg THEN <<"-">> ELSE <<>>)
                             \o (IF t.h < 100 THEN Two(t.h) ELSE Digits(t.h, 3)) \o clock
         [] v[1] = "time" -> IF col.type = "Date" THEN date ELSE date \o <<" ">> \o Two(t.h) \o clock

Widths == [Tiny |-> 1, Short |-> 2, Long |-> 4, LongLong |-> 8]

\* A date or time goes without the zeros at its end.
TimeBytes(v) ==
    LET t == v[2]
        clock == Bytes(<<t.mi, t.s>>) \o IF t.us = 0 THEN <<>> ELSE LittleEndian(t.us, 4)
        bytes ==
          CASE v[1] = "span" ->
                 IF t.h = 0 /\ t.mi = 0 /\ t.s = 0 /\ t.us = 0 THEN <<>>
                 ELSE Bytes(<<IF t.neg THEN 1 ELSE 0>>) \o LittleEndian(t.h \div 24, 4)
                      \o Bytes(<<t.h % 24>>) \o clock
            [] v[1] = "time" ->
                 IF t = ZeroTime THEN <<>>
                 ELSE LittleEndian(t.y, 2) \o Bytes(<<t.mo, t.d>>)
                      \o IF t = Midnight(t.y, t.mo, t.d) THEN <<>> ELSE Bytes(<<t.h>>) \o clock
    IN Bytes(<<Len(bytes)>>) \o bytes

BinaryOf(cell) ==
    LET v == cell.value IN
    CASE v[1] = "nil" -> <<>>
      [] v[1] = "int" -> Bytes(SubSeq(v[2], 1, Widths[cell.col.type]))
      [] v[1] = "float" -> <<Piece(8, v[2])>>
      [] v[1] = "text" -> String(v[2])
      [] v[1] \in {"time", "span"} -> TimeBytes(v)

BinaryRow(row) ==
    LET set(k, b) == \E i \in DOMAIN row : row[i].value = Null /\ i + 1 = 8 * (k - 1) + b
    IN Bytes([k \in 1 .. (Len(row) + 9) \div 8 |-> {b \in 0 .. 7 : set(k, b)}])
       \o FlattenSeq([i \in DOMAIN row |-> BinaryOf(row[i])])

TextRow(row) ==
    FlattenSeq([i \in DOMAIN row |->
        IF row[i].value = Null THEN Bytes(<<251>>) ELSE String(TextOf(row[i].col, row[i].value))])

-----------------------------------------------------------------------------
(* readRow of textRows and binaryRows.                                      *)

ReadTextColumn(r, col, parseTime) ==
    LET s == ReadString(r.rest)
        v == IF parseTime /\ s.v[1] = "text" /\ col.type \in DateTypes THEN ParseDateTime(s.v[2]) ELSE s.v
    IN [dest |-> Append(r.dest, v), rest |-> s.rest]

ReadTextRow(data, cols, parseTime) ==
    FoldLeft(LAMBDA r, i : ReadTextColumn(r, cols[i], parseTime), [dest |-> <<>>, rest |-> data],
             [i \in DOMAIN cols |-> i]).dest

\* An integer becomes an int64, or text if it is too large for one.
Extended(ns, unsigned) ==
    LET sign == IF ~unsigned /\ ns[Len(ns)] >= 128 THEN 255 ELSE 0
        n == [i \in 1 .. 8 |-> IF i <= Len(ns) THEN ns[i] ELSE sign]
    IN IF unsigned /\ n[8] >= 128 THEN <<"text", <<ToString(n)>>>> ELSE <<"int", n>>

\* The length of a date or time without sign and more than two digits of hours.
DisplayLength(col) ==
    LET point == IF col.decimals = 0 THEN 0 ELSE 1
    IN CASE col.type = "Date" -> 10
         [] col.type = "Time" -> 8 + point + col.decimals
         [] col.type \in {"DateTime", "Timestamp"} -> 19 + point + col.decimals

ReadBinaryColumn(r, col, null, parseTime) ==
    LET seen(v, n) == [dest |-> Append(r.dest, v), rest |-> Drop(r.rest, n)]
        string == ReadString(r.rest)
        num == ReadInteger(r.rest)
        src == Take(Drop(r.rest, num.width), num.n)
    IN IF null THEN seen(Null, 0)
       ELSE CASE col.type \in DOMAIN Widths ->
                   seen(Extended(Take(r.rest, Widths[col.type]), col.unsigned), Widths[col.type])
              [] col.type = "Double" -> seen(<<"float", r.rest[1].of>>, 1)
              [] col.type = "String" -> [dest |-> Append(r.dest, string.v), rest |-> string.rest]
              [] col.type = "Time" ->
                   seen(<<"text", FormatTime(src, DisplayLength(col))>>, num.width + num.n)
              [] col.type \in DateTypes ->
                   seen(IF parseTime THEN ParseBinaryDateTime(src)
                        ELSE <<"text", FormatDateTime(src, DisplayLength(col))>>, num.width + num.n)

\* The first two bits of the NULL bitmap stand for no column.
IsNullColumn(data, i) == (i + 1) % 8 \in data[(i + 1) \div 8 + 1].of

ReadBinaryRow(data, cols, parseTime) ==
    FoldLeft(LAMBDA r, i : ReadBinaryColumn(r, cols[i], IsNullColumn(data, i), parseTime),
             [dest |-> <<>>, rest |-> Drop(data, (Len(cols) + 9) \div 8)], [i \in DOMAIN cols |-> i]).dest

\* The row as the caller gets it, and its dates and times scanned into a NullTime.
Fetch(by, row, parseTime, dest) ==
    carried' = [by |-> by, given |-> <<row, parseTime>>,
                seen |-> <<dest, [i \in {j \in DOMAIN row : row[j].col.type \in DateTypes} |-> ScanTime(dest[i])]>>]

Columns(row) == [i \in DOMAIN row |-> row[i].col]
FetchText ==
    \E row \in Fetched, parseTime \in BOOLEAN :
       Fetch("text row", row, parseTime, ReadTextRow(TextRow(row), Columns(row), parseTime))
FetchBinary ==
    \E row \in Fetched, parseTime \in BOOLEAN :
       Fetch("binary row", row, parseTime, ReadBinaryRow(BinaryRow(row), Columns(row), parseTime))

\* What the caller is to get for a cell.
Shown(cell, parseTime, binary) ==
    LET v == cell.value
        large == cell.col.unsigned /\ v[1] = "int" /\ v[2][8] >= 128
    IN IF v = Null THEN Null
       ELSE IF v[1] = "time" /\ parseTime THEN v
       ELSE IF binary /\ v[1] \in {"int", "float"} /\ ~large THEN v
       ELSE <<"text", TextOf(cell.col, v)>>

-----------------------------------------------------------------------------
ValuesInit == carried = Nothing
ValuesNext == BindText \/ BindBinary \/ FetchText \/ FetchBinary

\* A statement says what it says, with the arguments in place of the marks.
Replaced(items, args) ==
    LET mark(i) == Cardinality({j \in 1 .. i : items[j] = <<"word", "?">>})
    IN [i \in DOMAIN items |-> IF items[i] = <<"word", "?">> THEN Means(args[mark(i)]) ELSE items[i]]

Expected(by, given) ==
    CASE by = "statement" -> Replaced(given[1], given[2])
      [] by = "packet" -> [i \in DOMAIN given |-> Binds(given[i])]
      [] by \in {"text row", "binary row"} ->
           LET row == given[1] IN
           <<[i \in DOMAIN row |-> Shown(row[i], given[2], by = "binary row")],
             [i \in {j \in DOMAIN row : row[j].col.type \in DateTypes} |-> row[i].value]>>
      [] by = "nothing" -> <<>>

(* A statement with its arguments in the text says to the server what the   *)
(* prepared statement with the same arguments bound to it says, whatever    *)
(* quotes and backslashes they contain and whichever way the session reads  *)
(* them; a bound argument arrives at its place, NULL or not; and a row is   *)
(* the same through both protocols, column for column, up to the Go type of *)
(* numbers (connection.go:137, packets.go:877, 698, 1108).                  *)
ValuesSurvive == carried.seen = Expected(carried.by, carried.given)
=============================================================================
