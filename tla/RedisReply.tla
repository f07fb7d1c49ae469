------------------------------- MODULE RedisReply -------------------------------
(* What goes over a redis connection (cache/redigo/redis/conn.go), what the     *)
(* callers make of the replies (reply.go), and how replies are put into         *)
(* variables and structs and structs into arguments (scan.go).                  *)
(* A text is a record by what its characters say; numbers with a point are in   *)
(* tenths. An argument or a variable is a kind and a value.                     *)
EXTENDS Integers, Sequences, FiniteSets, SequencesExt, TLC

Digits(n) == [says |-> "number", n |-> n]
Point(tenths) == [says |-> "point", n |-> tenths]
Word(w) == [says |-> "word", w |-> w]

Arg(kind, v) == [kind |-> kind, v |-> v]

\* The argument of a command as writeCommand puts it on the wire.
Written(arg) ==
    CASE arg.kind \in {"string", "bytes"} -> arg.v
      [] arg.kind = "float" -> IF arg.v % 10 = 0 THEN Digits(arg.v \div 10) ELSE Point(arg.v)
      [] arg.kind = "bool" -> Digits(IF arg.v THEN 1 ELSE 0)
      [] arg.kind = "nil" -> Word("")
      [] OTHER -> Digits(arg.v)

-------------------------------------------------------------------------------
(* Replies, and their lines: a mark and what comes after it. A bulk string is   *)
(* its length, which is not counted here, and one more line.                    *)

Simple(t) == [is |-> "simple", t |-> t]
Error(e) == [is |-> "error", e |-> e]
Number(n) == [is |-> "int", n |-> n]
Bulk(t) == [is |-> "bulk", t |-> t]
Nil == [is |-> "nil"]
Values(a) == [is |-> "array", a |-> a]
Fatal == [is |-> "fatal"]    \* a protocol error

\* What the server (external) writes; arrays of arrays are not among it.
LineOf(reply) ==
    CASE reply.is = "simple" -> <<<<"+", reply.t>>>>
      [] reply.is = "error" -> <<<<"-", reply.e>>>>
      [] reply.is = "int" -> <<<<":", reply.n>>>>
      [] reply.is = "bulk" -> <<<<"$", 0>>, <<"text", reply.t>>>>
      [] OTHER -> <<<<"$", -1>>>>
Lines(reply) ==
    IF reply.is = "array"
    THEN <<<<"*", Len(reply.a)>>>> \o FlattenSeq([i \in DOMAIN reply.a |-> LineOf(reply.a[i])])
    ELSE LineOf(reply)

\* readReply: one reply and the lines that are left.
RECURSIVE ReadReply(_)
ReadReply(lines) ==
    LET mark == IF lines = <<>> THEN "none" ELSE lines[1][1]
        Got(reply, used) == [reply |-> reply, rest |-> SubSeq(lines, used + 1, Len(lines))]
        Element(read, i) ==
            LET next == ReadReply(read.rest)
            IN  IF Fatal \in {read.reply, next.reply} THEN Got(Fatal, 0)
                ELSE [reply |-> Values(Append(read.reply.a, next.reply)), rest |-> next.rest]
    IN  CASE mark = "+" -> Got(Simple(lines[1][2]), 1)
          [] mark = "-" -> Got(Error(lines[1][2]), 1)
          [] mark = ":" -> Got(Number(lines[1][2]), 1)
          [] mark \in {"$", "*"} /\ lines[1][2] = -1 -> Got(Nil, 1)
          [] mark = "$" /\ lines[1][2] >= 0 /\ Len(lines) > 1 /\ lines[2][1] = "text" ->
               Got(Bulk(lines[2][2]), 2)
          [] mark = "*" /\ lines[1][2] >= 0 ->
               FoldLeft(Element, Got(Values(<<>>), 1), [i \in 1..lines[1][2] |-> i])
          [] OTHER -> Got(Fatal, 0)

-------------------------------------------------------------------------------
(* strconv (external): a text as a number of so many bits, or as a Boolean.     *)

\* int, int64 and uint64 are bounded by 16 bits here.
NoValue == [failed |-> TRUE]
Value(v) == [failed |-> FALSE, v |-> v]

Lowest(kind) == CASE kind = "int8" -> -(2^7) [] kind \in {"uint8", "uint64"} -> 0 [] OTHER -> -(2^15)
Highest(kind) == CASE kind = "int8" -> 2^7 - 1 [] kind = "uint8" -> 2^8 - 1 [] OTHER -> 2^15 - 1
Integral == {"int", "int64", "uint64", "int8", "uint8"}

ParseInt(kind, t) ==
    IF t.says = "number" /\ t.n \in Lowest(kind)..Highest(kind) THEN Value(t.n) ELSE NoValue
ParseFloat(t) ==
    CASE t.says = "number" -> Value(10 * t.n) [] t.says = "point" -> Value(t.n) [] OTHER -> NoValue
ParseBool(t) ==
    CASE t \in {Digits(1), Word("true"), Word("t")} -> Value(TRUE)
      [] t \in {Digits(0), Word("false"), Word("f")} -> Value(FALSE)
      [] OTHER -> NoValue

Parsed(kind, t) ==
    CASE kind \in Integral -> ParseInt(kind, t)
      [] kind = "float" -> ParseFloat(t)
      [] kind = "bool" -> ParseBool(t)
      [] OTHER -> Value(t)

-------------------------------------------------------------------------------
(* reply.go: Int, Int64, Uint64, Float64, String, Bytes, Bool of a reply; an    *)
(* error, nil and what is of no fitting type all give an error.                 *)

ConvertInt(kind, reply) ==
    CASE reply.is = "bulk" -> ParseInt(kind, reply.t)
      [] reply.is = "int" /\ (kind = "uint64" => reply.n >= 0) -> Value(reply.n)
      [] OTHER -> NoValue
ConvertOther(kind, reply) ==
    CASE reply.is = "bulk" -> Parsed(kind, reply.t)
      [] reply.is = "simple" /\ kind \in {"string", "bytes"} -> Value(reply.t)
      [] reply.is = "int" /\ kind = "bool" -> Value(reply.n # 0)
      [] OTHER -> NoValue
Convert(kind, reply) ==
    IF kind \in {"int", "int64", "uint64"} THEN ConvertInt(kind, reply) ELSE ConvertOther(kind, reply)

\* Strings and ByteSlices: an element that is nil becomes the empty string, or
\* stays nil.
TextsOf(reply, empty) ==
    IF reply.is = "array" /\ \A i \in DOMAIN reply.a : reply.a[i].is \in {"bulk", "nil"}
    THEN Value([i \in DOMAIN reply.a |-> IF reply.a[i] = Nil THEN empty ELSE reply.a[i].t])
    ELSE NoValue
Strings(reply) == TextsOf(reply, Word(""))
ByteSlices(reply) == TextsOf(reply, Nil)

\* StringMap, IntMap, Int64Map: alternating keys and values.
MapOf(kind, reply) ==
    LET a == reply.a
        pairs == {i \in DOMAIN a : i % 2 = 1}
    IN  IF /\ reply.is = "array"
           /\ Len(a) % 2 = 0
           /\ \A i \in pairs : /\ a[i].is = "bulk"
                               /\ kind = "string" => a[i + 1].is = "bulk"
                               /\ ~Convert(kind, a[i + 1]).failed
        THEN Value([k \in {a[i].t : i \in pairs} |->
                       Convert(kind, a[(CHOOSE i \in pairs :
                           a[i].t = k /\ \A j \in pairs : a[j].t = k => j <= i) + 1]).v])
        ELSE NoValue

-------------------------------------------------------------------------------
(* scan.go                                                                      *)

ZeroOf(kind) ==
    CASE kind = "bool" -> FALSE [] kind \in {"string", "bytes"} -> Word("") [] OTHER -> 0

\* What a variable holds when a reply did not fit.
Unfit(v) == [failed |-> TRUE, v |-> v]

\* A text that is no number leaves zero, one out of range the number next to it.
AssignBulkString(kind, t) ==
    LET x == Parsed(kind, t)
    IN  IF ~x.failed THEN x
        ELSE IF kind \in Integral /\ t.says = "number"
        THEN Unfit(IF t.n < Lowest(kind) THEN Lowest(kind) ELSE Highest(kind))
        ELSE Unfit(ZeroOf(kind))

\* An integer out of range leaves zero, but a negative one for an unsigned
\* variable leaves it alone.
AssignInt(kind, before, n) ==
    CASE kind = "bool" -> Value(n # 0)
      [] kind \in Integral /\ n \in Lowest(kind)..Highest(kind) -> Value(n)
      [] kind \in Integral /\ (Lowest(kind) < 0 \/ n > 0) -> Unfit(0)
      [] OTHER -> Unfit(before)

AssignValue(kind, before, reply) ==
    CASE reply.is = "bulk" -> AssignBulkString(kind, reply.t)
      [] reply.is = "int" -> AssignInt(kind, before, reply.n)
      [] OTHER -> Unfit(before)

\* An element of a list or a field of a struct; nil leaves it alone, and after
\* the first failure so does every reply.
AssignAt(acc, at, kind, reply) ==
    IF acc.failed \/ reply = Nil THEN acc
    ELSE LET x == AssignValue(kind, acc.v[at], reply)
         IN  [failed |-> x.failed, v |-> [acc.v EXCEPT ![at] = x.v]]

\* A struct type is a sequence of fields: embedded structs with their own fields,
\* and others with the name in the tag ("-" for none) or their own, their kind,
\* and omitempty. A field is found by the path of its positions.
Embedded(fields) == [embedded |-> TRUE, fields |-> fields]
Field(name, kind, omitEmpty) == [embedded |-> FALSE, name |-> name, kind |-> kind, omitEmpty |-> omitEmpty]

NoSpec == [m |-> <<>>, l |-> <<>>, depth |-> <<>>]
Forget(f, k) == [i \in DOMAIN f \ {k} |-> f[i]]

\* A field at the depth of another one of its name takes both out; a field that
\* is less deep takes its place in the map and comes after it in the list.
AddField(ss, f, path) ==
    LET d == IF f.name \in DOMAIN ss.depth THEN ss.depth[f.name] ELSE 2^30
        fs == [name |-> f.name, kind |-> f.kind, omitEmpty |-> f.omitEmpty, index |-> path]
    IN  IF f.name = "-" \/ Len(path) > d THEN ss
        ELSE IF Len(path) = d
        THEN [ss EXCEPT !.m = Forget(@, f.name),
                        !.l = SelectSeq(@, LAMBDA other : other.name # f.name)]
        ELSE [m |-> (f.name :> fs) @@ ss.m,
              l |-> Append(ss.l, fs),
              depth |-> (f.name :> Len(path)) @@ ss.depth]

RECURSIVE CompileStructSpec(_, _, _)
CompileStructSpec(fields, index, ss) ==
    FoldLeft(LAMBDA acc, i :
                 IF fields[i].embedded
                 THEN CompileStructSpec(fields[i].fields, Append(index, i), acc)
                 ELSE AddField(acc, fields[i], Append(index, i)),
             ss, [i \in DOMAIN fields |-> i])

SpecOf(type) == CompileStructSpec(type, <<>>, NoSpec)

\* The fields of a struct type with their paths, and the struct of zeros.
RECURSIVE Leaves(_, _)
Leaves(fields, index) ==
    UNION {IF fields[i].embedded THEN Leaves(fields[i].fields, Append(index, i))
           ELSE {[path |-> Append(index, i), name |-> fields[i].name, omitEmpty |-> fields[i].omitEmpty,
                  zero |-> ZeroOf(fields[i].kind)]} : i \in DOMAIN fields}
ZeroStruct(type) ==
    LET all == Leaves(type, <<>>)
    IN  [path \in {f.path : f \in all} |-> (CHOOSE f \in all : f.path = path).zero]

\* AddFlat of a struct, whose value is a function of the paths.
FlattenStruct(type, v) ==
    LET written == SelectSeq(SpecOf(type).l,
                             LAMBDA fs : ~(fs.omitEmpty /\ v[fs.index] = ZeroOf(fs.kind)))
    IN  FlattenSeq([i \in DOMAIN written |->
            <<Arg("string", Word(written[i].name)), Arg(written[i].kind, v[written[i].index])>>])

\* ScanStruct of alternating names and values; a name of no field is passed over.
ScanStruct(type, src, v) ==
    LET m == SpecOf(type).m
        Pair(acc, i) ==
            LET name == src[2 * i - 1]
            IN  IF src[2 * i] # Nil /\ name.is # "bulk" THEN [acc EXCEPT !.failed = TRUE]
                ELSE IF src[2 * i] = Nil \/ name.t \notin {Word(w) : w \in DOMAIN m} THEN acc
                ELSE AssignAt(acc, m[name.t.w].index, m[name.t.w].kind, src[2 * i])
    IN  IF Len(src) % 2 # 0 THEN Unfit(v)
        ELSE FoldLeft(Pair, Value(v), [i \in 1..(Len(src) \div 2) |-> i])

\* ensureLen: a slice that is too short is replaced by a new one; another keeps
\* what is in it. (dest is the slice up to its capacity.)
EnsureLen(dest, n, zero) == IF n > Len(dest) THEN [i \in 1..n |-> zero] ELSE SubSeq(dest, 1, n)

\* ScanSlice into a slice of values of the kind.
ScanValues(kind, src, dest) ==
    FoldLeft(LAMBDA acc, i : AssignAt(acc, i, kind, src[i]),
             Value(EnsureLen(dest, Len(src), ZeroOf(kind))), [i \in DOMAIN src |-> i])

Ints(reply) == IF reply.is = "array" THEN ScanValues("int", reply.a, <<>>) ELSE NoValue

\* ScanSlice into a slice of structs: all fields of each, or those named.
ScanSlice(type, src, dest, names) ==
    LET ss == SpecOf(type)
        fss == IF names = <<>> THEN ss.l ELSE [i \in DOMAIN names |-> ss.m[names[i]]]
        width == Len(fss)
        FieldsOf(acc, i) ==
            LET row == FoldLeft(LAMBDA one, j :
                           AssignAt(one, fss[j].index, fss[j].kind, src[(i - 1) * width + j]),
                           [acc EXCEPT !.v = @[i]], [j \in DOMAIN fss |-> j])
            IN  [failed |-> row.failed, v |-> [acc.v EXCEPT ![i] = row.v]]
    IN  IF (\E i \in DOMAIN names : names[i] \notin DOMAIN ss.m) \/ width = 0 \/ Len(src) % width # 0
        THEN Unfit(dest)
        ELSE FoldLeft(FieldsOf, Value(EnsureLen(dest, Len(src) \div width, ZeroStruct(type))),
                      [i \in 1..(Len(src) \div width) |-> i])
===============================================================================
