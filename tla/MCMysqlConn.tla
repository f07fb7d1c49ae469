----------------------------- MODULE MCMysqlConn -----------------------------
(***************************************************************************)
(* A connection whose server answers with one or several results, of every *)
(* kind, with rows that fill more than one frame and files it asks for;    *)
(* and, apart from it, values that pass a connection one way or the other. *)
(***************************************************************************)
EXTENDS MysqlConn, MysqlValues

R(kind, n) == [kind |-> kind, n |-> n, warn |-> FALSE]
Warns(kind) == [R(kind, 0) EXCEPT !.warn = TRUE]

MCResults ==
    {<<R("ok", 0)>>, <<Warns("ok")>>, <<R("err", 0)>>, <<R("rows", 0)>>, <<R("rows", 2)>>,
     <<R("big", 1)>>, <<R("broken", 1)>>, <<R("file", 0)>>, <<R("badfile", 0)>>,
     <<Warns("ok"), Warns("ok")>>, <<R("ok", 0), R("rows", 1)>>, <<R("rows", 1), R("ok", 0)>>,
     <<R("rows", 1), R("err", 0)>>, <<R("rows", 1), R("rows", 0), Warns("ok")>>,
     <<R("ok", 0), R("file", 0)>>}

MCRests == {R("err", 0), R("prep", 0), R("prep", 1), R("prep", 2), R("prep", 3),
            [R("prep", 0) EXCEPT !.warn = TRUE]}

Greets(hello, auths, agree, charsets) ==
    [hello |-> hello, auths |-> auths, tls |-> FALSE, agree |-> agree, charsets |-> charsets]

MCHandshakes ==
    {Greets("init", <<"ok">>, TRUE, <<"ok">>), Greets("err", <<>>, TRUE, <<>>),
     Greets("init", <<"err">>, TRUE, <<>>), Greets("init", <<"auth", "ok">>, TRUE, <<"err">>),
     Greets("init", <<"auth", "ok">>, FALSE, <<>>), Greets("init", <<"auth", "err">>, TRUE, <<>>)}
    \cup {[Greets("init", <<"ok">>, agree, <<>>) EXCEPT !.tls = TRUE] : agree \in BOOLEAN}

MCQueries == {9, MaxPacketSize - 1, MaxPacketSize, MaxPacketSize + 1, MaxAllowed + 1}

MCArguments == {<<>>, <<Number>>, <<16777215, 16777191>>, <<16777215, 16777192>>,
                <<MaxAllowed + 9, Number>>}

-----------------------------------------------------------------------------
(* Values.                                                                  *)

MCRuns == [r248 |-> 248, r65533 |-> 65533, rLong |-> MaxAllowed - 100]

\* What can be in quotes, with one or two characters of every pair.
Marked == {"apos", "bs", "quot", "nul", "n", "?"}
Texts == {<<>>, <<"lf">>, <<"cr">>, <<"sub">>} \cup {<<a>> : a \in Marked} \cup {<<a, b>> : a, b \in Marked}
LongTexts == {<<run>> \o rest : run \in DOMAIN MCRuns, rest \in {<<>>, <<"a">>, <<"a", "a">>, <<"a", "a", "a">>}}

Numbers == {<<"int", "-7">>, <<"float", "1.5">>, <<"bool", TRUE>>, <<"bool", FALSE>>, <<"time", "noon">>}
Plain1 == Numbers \cup {Null, <<"nilbytes">>, <<"other">>} \cup {<<"string", <<"a">>>>, <<"bytes", <<"a">>>>}
Strings == {<<"string", t>> : t \in Texts \cup LongTexts} \cup {<<"bytes", t>> : t \in Texts}

MCBound ==
    {<<>>} \cup {<<v>> : v \in Plain1 \cup Strings} \cup {<<v, w>> : v, w \in Plain1}
    \cup {<<<<"string", <<"rLong">>>>, v>> : v \in Plain1}
    \cup {<<<<"string", t>>, <<"string", u>>>> : t, u \in Texts}
    \cup {[i \in 1 .. 9 |-> IF i \in null THEN Null ELSE <<"int", "-7">>] : null \in SUBSET (1 .. 9)}

MCTemplates ==
    {<<"word">>, <<"?">>, <<"word", "?">>, <<"?", "word">>, <<"?", ",", "?">>,
     <<"apos", "?", "apos", ",", "?">>, <<"apos", "bs", "apos", ",", "?">>, [i \in 1 .. 9 |-> "?"]}

Col(type, unsigned, decimals) == [type |-> type, unsigned |-> unsigned, decimals |-> decimals]
Cell(col, v) == [col |-> col, value |-> v]

\* The integers of a column: zero, the largest of each sign, minus one.
IntCells ==
    UNION {LET w == Widths[type]
               wide(ns) == [i \in 1 .. 8 |-> IF i <= w THEN ns[i] ELSE IF ~unsigned /\ ns[w] >= 128 THEN 255 ELSE 0]
               first(low, high) == [i \in 1 .. w |-> IF i = w THEN high ELSE low]
           IN {Cell(Col(type, unsigned, 0), <<"int", wide(ns)>>) :
                  ns \in {first(0, 0), first(255, 127), first(0, 128), first(255, 255)}} :
           type \in DOMAIN Widths, unsigned \in BOOLEAN}

Times == {ZeroTime, Midnight(2000, 2, 29), [Midnight(1999, 12, 31) EXCEPT !.h = 23, !.mi = 59, !.s = 58]}
DateCells ==
    {Cell(Col("Date", FALSE, 0), <<"time", t>>) : t \in {u \in Times : u.h = 0}}
    \cup {Cell(Col("DateTime", FALSE, k), <<"time", [t EXCEPT !.us = u]>>) :
             <<t, k, u>> \in {p \in Times \X (0 .. 6) \X {0, 120000, 123456} : p[1] = ZeroTime => p[3] = 0}}

\* Hours of more days than none and fewer than 100 hours get a zero too many, and
\* then, or with three digits, a negative time loses its tenths of a second.
Spans == {[neg |-> neg, h |-> h, mi |-> 5, s |-> 9, us |-> us] :
             neg \in BOOLEAN, h \in {0, 9, 23, 100, 838}, us \in {0, 500000, 123456}}
SpanCells ==
    {Cell(Col("Time", FALSE, k), <<"span", t>>) : <<t, k>> \in
        {p \in Spans \X (0 .. 6) : ~(p[1].neg /\ p[1].h >= 100 /\ p[2] = 1)}}
    \cup {Cell(Col("Time", FALSE, k), <<"span", [neg |-> FALSE, h |-> 0, mi |-> 0, s |-> 0, us |-> 0]>>) : k \in 0 .. 6}

Fits6(cell) ==
    cell.value[1] \in {"time", "span"} =>
        cell.value[2].us % 10 ^ (6 - (IF cell.col.type = "Date" THEN 6 ELSE cell.col.decimals)) = 0
TextCells == {Cell(Col("String", FALSE, 0), <<"text", t>>) : t \in LongTexts \cup {<<>>, <<"a">>}}
OtherCells == {Cell(Col("Double", FALSE, 0), <<"float", "1.5">>), Cell(Col("String", FALSE, 0), Null),
               Cell(Col("DateTime", FALSE, 0), Null)}
Cells == OtherCells \cup TextCells \cup {cell \in IntCells \cup DateCells \cup SpanCells : Fits6(cell)}

Tiny == Col("Tiny", FALSE, 0)
MCFetched ==
    {<<cell>> : cell \in Cells}
    \cup {<<a, b, Cell(Tiny, <<"int", [i \in 1 .. 8 |-> 0]>>)>> : a \in OtherCells, b \in Cells}
    \cup {[i \in 1 .. 15 |-> IF i \in null \cup {2, 13} THEN Cell(Tiny, Null)
                             ELSE Cell(Tiny, <<"int", [j \in 1 .. 8 |-> IF j = 1 THEN i ELSE 0]>>)] :
             null \in SUBSET {1, 6, 7, 8, 14, 15}}

MCInit == Init /\ ValuesInit
MCNext ==
    \/ carried = Nothing /\ Next /\ UNCHANGED carried
    \/ c = Idle /\ res.call = "none" /\ carried = Nothing /\ ValuesNext /\ UNCHANGED vars
    \/ carried # Nothing /\ carried' = Nothing /\ UNCHANGED vars
MCSpec == MCInit /\ [][MCNext]_<<vars, carried>>
=============================================================================
