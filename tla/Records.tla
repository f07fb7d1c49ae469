-------------------------------- MODULE Records --------------------------------
(* data/db.go: the fields of a struct become columns (setFieldMap) and a row    *)
(* becomes the fields of a struct (Query, convertToModelElem). In a row every   *)
(* value is a text; a text is a record by what its characters say.              *)
(* zone is the distance of the process's clock from UTC, in hours.              *)
EXTENDS Integers, Sequences

Digits(n) == [says |-> "number", n |-> n]
Word(w) == [says |-> "word", w |-> w]
DateText(day) == [says |-> "date", day |-> day]
DateTimeText(day, hour) == [says |-> "datetime", day |-> day, hour |-> hour]
NullText == [says |-> "NULL"]

\* An instant is a number of hours since 1970; the zero time is none of them.
Instant(h) == [instant |-> h]
ZeroTime == [instant |-> -1]
Day(t, zone) == (t.instant + zone) \div 24
Hour(t, zone) == (t.instant + zone) % 24

Kinds == {"string", "bool", "int8", "int16", "uint8", "uint", "time"}

Lowest(kind) == CASE kind = "int8" -> -(2^7) [] kind = "int16" -> -(2^15) [] OTHER -> 0
Highest(kind) == CASE kind = "int8" -> 2^7 - 1 [] kind = "int16" -> 2^15 - 1 [] OTHER -> 2^8 - 1

-------------------------------------------------------------------------------
(* A field is a record: its kind, its tag type, whether it is auto, its value.  *)

\* The fields that go into the statement.
Written(f) ==
    /\ ~f.auto
    /\ f.kind = "time" => f.value # ZeroTime /\ f.type \in {"date", "datetime", "int"}

\* What the database is given, by its driver, and what it gives back as text: a
\* time as the day or the hour on the clock of the process, or as a number.
ColumnText(f, zone) ==
    CASE f.kind = "string" -> f.value
      [] f.kind = "bool" -> Digits(IF f.value THEN 1 ELSE 0)
      [] f.kind = "time" ->
           CASE f.type = "date" -> DateText(Day(f.value, zone))
             [] f.type = "datetime" -> DateTimeText(Day(f.value, zone), Hour(f.value, zone))
             [] OTHER -> Digits(f.value.instant)
      [] OTHER -> Digits(f.value)

\* The row after an INSERT or UPDATE of the fields: the others keep their text.
StoredRow(row, fields, zone) ==
    [c \in DOMAIN fields |-> IF Written(fields[c]) THEN ColumnText(fields[c], zone) ELSE row[c]]

\* A mutant of FieldOf: a number must fit into eight bits, whatever the kind.
FieldOfByte(kind, text, before) ==
    CASE kind = "string" -> text
      [] kind = "bool" -> text = Digits(1)
      [] kind \in {"int8", "int16", "uint8"} ->
           IF text.says = "number" /\ text.n \in Lowest("int8")..Highest("int8") THEN text.n ELSE before
      [] kind = "time" /\ text.says = "datetime" -> Instant(24 * text.day + text.hour)
      [] kind = "time" /\ text.says = "number" -> Instant(text.n)
      [] OTHER -> before

\* A field after convertToModelElem: what has no conversion (a date, a plain
\* uint, a number out of range, NULL) leaves it as it was. NULL is a string to a
\* string, and a time without a zone is one of UTC.
FieldOf(kind, text, before) ==
    CASE kind = "string" -> text
      [] kind = "bool" -> text = Digits(1)
      [] kind \in {"int8", "int16", "uint8"} ->
           IF text.says = "number" /\ text.n \in Lowest(kind)..Highest(kind) THEN text.n ELSE before
      [] kind = "time" /\ text.says = "datetime" -> Instant(24 * text.day + text.hour)
      [] kind = "time" /\ text.says = "number" -> Instant(text.n)
      [] OTHER -> before

\* The fields that come back as they went: times as numbers always, times as
\* date and hour when the clock of the process is that of UTC, dates never.
Faithful(f, zone) ==
    /\ Written(f)
    /\ f.kind # "uint"
    /\ f.kind = "time" => f.type = "int" \/ (f.type = "datetime" /\ zone = 0)
===============================================================================
