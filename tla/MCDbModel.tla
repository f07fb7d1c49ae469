------------------------------- MODULE MCDbModel -------------------------------
(* Three model structs: one with a key and a table tag, one with two keys and  *)
(* no tag, one with neither keys nor tag. Configuration files that differ in    *)
(* what stands in them and in the characters of a password or of another        *)
(* setting, INI files with plain and with odd values, Configs of the driver     *)
(* that come through a DSN and some that do not, and structs with a field of    *)
(* every kind.                                                                  *)
EXTENDS Startup

CONSTANTS a, b, t

KeyedStruct == [table |-> t, keys |-> {a}, fields |-> {b}]
PairStruct == [table |-> None, keys |-> {a, b}, fields |-> {a, b}]
PlainStruct == [table |-> None, keys |-> {}, fields |-> {b}]
EmptyStruct == [table |-> None, keys |-> {b}, fields |-> {}]

MCStructs == {KeyedStruct, PairStruct, PlainStruct, EmptyStruct}
MCConditions == {<<>>, <<b>>, <<b, a>>}

-------------------------------------------------------------------------------
Env == (<<"PASS">> :> <<"p", "@", ":", "/">>) @@ (<<"NONE">> :> <<>>)
Var(name) == <<"$", "{", name, "}">>
VarOr(name, default) == <<"$", "{", name, "|", "|">> \o default \o <<"}">>

Means == (Var("PASS") :> <<"p", "@", ":", "/">>)
      @@ (Var("NONE") :> <<>>)
      @@ (VarOr("PASS", <<"d">>) :> <<"p", "@", ":", "/">>)
      @@ (VarOr("NONE", <<"d", "|", "|", "}">>) :> <<"d", "|", "|", "}">>)
      @@ (VarOr("UNSET", <<"d">>) :> <<"d">>)

\* Passwords of master and slave.
Passwords ==
    {<<<<>>, Var("PASS")>>,
     <<<<"p", "@", ":", "q", "/">>, VarOr("UNSET", <<"d">>)>>,
     <<<<"(", "p", ")", "?", "x", "=", "%">>, VarOr("NONE", <<"d", "|", "|", "}">>)>>,
     <<VarOr("PASS", <<"d">>), <<":">>>>}

Role(ip, password, name) ==
    Obj([ip |-> Str(ip), port |-> Str(<<"3307">>), user |-> Str(<<"app">>),
         password |-> Str(password), db |-> Str(name), charset |-> Str(<<"utf8mb4">>)])

\* A file of both models; one without the slave's settings; one of nothing else.
Whole(passwords) ==
    Obj([main |-> Obj([master |-> Role(<<"m">>, passwords[1], <<"go1">>),
                       slave |-> Role(<<"s">>, passwords[2], <<>>),
                       enable_tbpre |-> Bool(TRUE), tbpre |-> Str(<<"pre_">>)]),
         cache |-> Obj([master |-> Obj([ip |-> Str(<<"c">>), password |-> Str(passwords[2]), db |-> Num(2)]),
                        slave |-> Obj([port |-> Str(Var("NONE"))])])])
Sparse == Obj([main |-> Obj([master |-> Obj([user |-> Str(<<"me">>)]), enable_tbpre |-> Str(<<"on">>)])])
Empty == Obj([other |-> Num(1)])

\* Characters that mean something in a DSN, in each setting but the password: some
\* get through it and some do not.
OddTexts ==
    ({"user"} \X {<<"a", ":", "b">>, <<"a", "@", "/", "b">>})
    \cup ({"ip"} \X {<<"h", "@", "i">>, <<":", "/", "(", "i", ")">>})
    \cup ({"port"} \X {<<"1", "@">>})
    \cup ({"db"} \X {<<"x", "/", "y">>, <<"x", ")", "/", "y">>, <<"x", "?", "y">>, <<"x", "@", ":", "y">>})
    \cup ({"charset"} \X {<<"c", "&", "d">>, <<"c", "/", "d">>, <<"c", ")", "/", "d">>, <<"c", "+">>,
                          <<"c", "%", "d">>, <<"c", "?", "=", "d">>})
With(role, item, text) == Obj([role.m EXCEPT ![item] = Str(text)])
Odd(odd) ==
    Obj([main |-> Obj([master |-> With(Role(<<"m">>, <<"p">>, <<"go1">>), odd[1], odd[2]),
                       slave |-> With(Role(<<"s">>, <<>>, <<>>), odd[1], odd[2])])])
Listed == Arr(<<Num(1)>>)

\* D and R share nothing but the file: together they are called on one only.
Connecting(first, second, ways) ==
    [kind |-> "connect", file |-> first, next |-> second, callers |-> Callers, ways |-> ways,
     answers |-> BOOLEAN, env |-> Env, means |-> Means]
Reading(first) ==
    [Connecting(first, Sparse, {"D"}) EXCEPT !.callers = Users, !.answers = {TRUE}]
Building ==
    [kind |-> "build", file |-> Sparse, next |-> Sparse, callers |-> Users, ways |-> {"D"},
     answers |-> {TRUE}, env |-> Env, means |-> Means]

-------------------------------------------------------------------------------
Lines ==
    <<Pair(Key("top", FALSE), <<"0">>),
      Comment("#", <<>>), Comment("#", <<"about the section">>),
      Section(Key("mail", TRUE)),
      EmptyLine,
      Comment(";", <<";", "one">>), Comment("#", <<>>), Comment("#", <<"#", ";", "three">>),
      Pair(Key("host", TRUE), <<" ", "\"", "h", " ", "x", "\"", " ">>),
      Pair(Key("pass", FALSE), Var("PASS")),
      Include(Key("more", TRUE)),
      Pair(Key("last", FALSE), <<>>),
      Section(Key("default", FALSE)),
      Pair(Key("end", FALSE), VarOr("UNSET", <<"d">>))>>
More ==
    <<Comment("#", <<"others">>), Section(Key("web", FALSE)), Pair(Key("port", FALSE), <<"80">>),
      Section(Key("mail", FALSE)), Pair(Key("pass", FALSE), <<"other">>)>>
Files(lines) == (Key("app", FALSE) :> lines) @@ (Key("more", FALSE) :> More)

IniOf(lines) ==
    [kind |-> "ini", files |-> Files(lines), name |-> Key("app", FALSE), env |-> Env,
     sets |-> {[section |-> Key("mail", FALSE), key |-> Key("host", FALSE), val |-> <<"new">>],
               [section |-> Key("fresh", FALSE), key |-> Key("k", FALSE), val |-> <<"v">>],
               [section |-> DefaultSection, key |-> Key("top", FALSE), val |-> <<"9">>]}]

\* What does not come back, beside what does.
OddLines ==
    <<Comment(";", <<"#", "lost">>), Pair(Key("quoted", FALSE), <<"\"", " ", "h", "\"">>),
      Pair(Key("plain", FALSE), <<"p", "\"">>),
      Comment(";", <<"kept">>), Section(Key("mail", FALSE)), Pair(Key("host", FALSE), <<"h">>)>>
OddIni ==
    [IniOf(OddLines) EXCEPT !.sets =
        {[section |-> DefaultSection, key |-> Key("plain", FALSE), val |-> val] :
            val \in {<<"\"", "p">>, <<"p", " ">>, Var("PASS"), <<"$", "{">>, <<"p", "}">>, <<" ">>}}
        \cup {[section |-> Key("mail", FALSE), key |-> Key("host", TRUE), val |-> <<"i">>],
              [section |-> Key("mail", TRUE), key |-> Key("port", TRUE), val |-> <<"1">>]}]

-------------------------------------------------------------------------------
MCFlags == {"parseTime", "interpolateParams"}
MCDurations == {"timeout", "readTimeout"}
MCTlsConfigs == {<<"custom", "/", "&">>}
MCLocations == {<<"UTC">>, <<"Asia", "/", "Shanghai">>}
MCUnsafeCollations == {<<"gbk_chinese_ci">>}

Login(user, password) == [NewConfig EXCEPT !.User = user, !.Passwd = password]
Addresses == {<<<<"tcp">>, <<"h", ":", "1">>>>, <<<<"unix">>, <<"/", "tmp", "/", "s">>>>}

NewConfigOf(user, addr) == [Login(user, <<>>) EXCEPT !.Net = addr[1], !.Addr = addr[2]]

DriverConfigs ==
    {[Login(user, password) EXCEPT !.Net = addr[1], !.Addr = addr[2], !.DBName = name,
                                   !.flags = flags, !.Loc = loc, !.TLSConfig = tls,
                                   !.durations["timeout"] = seconds, !.Collation = collation,
                                   !.MaxAllowedPacket = seconds, !.Params = params] :
        user \in {<<"u", "@", "x">>}, password \in {<<>>, <<"p", ":", "q">>, <<"/", "@">>},
        addr \in Addresses, name \in {<<"db">>}, flags \in SUBSET MCFlags,
        loc \in {<<"UTC">>, <<"Asia", "/", "Shanghai">>},
        tls \in {<<>>, <<"true">>, <<"skip-verify">>, <<"custom", "/", "&">>},
        seconds \in {0, 30}, collation \in {<<"utf8mb4_bin">>},
        params \in {<<>>, (<<"charset">> :> <<"utf8", "&", "=", " ", "+">>) @@ (<<"sql_mode">> :> <<"a">>)}}

OddAddresses == Addresses \cup {<<<<"tcp">>, <<"h", "@", "i">>>>, <<<<"tcp">>, <<>>>>, <<<<>>, <<>>>>,
                              <<<<>>, <<"h">>>>}
OddConfigs ==
    {[NewConfigOf(user, addr) EXCEPT !.Passwd = password, !.DBName = name, !.Collation = collation,
                                     !.flags = flags] :
        user \in {<<>>, <<"u">>, <<"a", ":", "b">>}, password \in {<<>>, <<"p">>}, addr \in OddAddresses,
        name \in {<<>>, <<"x", ":", "@">>, <<"x", "/", "y">>, <<"x", ")", "/", "y">>, <<"x", "?", "y">>},
        collation \in {DefaultCollation, <<>>, <<"c", "&", "d">>, <<"c", "/", "d">>, <<"gbk_chinese_ci">>},
        flags \in {{}, {"interpolateParams"}}}

-------------------------------------------------------------------------------
Field(kind, type, auto, value) == [kind |-> kind, type |-> type, auto |-> auto, value |-> value]
Records(now, zone) ==
    [kind |-> "record", zone |-> zone,
     fields |-> [id |-> Field("int16", "", TRUE, 7), name |-> Field("string", "", FALSE, Word("n")),
                 digits |-> Field("string", "", FALSE, Digits(5)),
                 yes |-> Field("bool", "", FALSE, TRUE), no |-> Field("bool", "", FALSE, FALSE),
                 low |-> Field("int8", "", FALSE, -(2^7)), high |-> Field("int16", "", FALSE, 2^15 - 1),
                 byte |-> Field("uint8", "", FALSE, 255), plain |-> Field("uint", "", FALSE, 3),
                 day |-> Field("time", "date", FALSE, now), clock |-> Field("time", "datetime", FALSE, now),
                 unix |-> Field("time", "int", FALSE, now), never |-> Field("time", "int", FALSE, ZeroTime)],
     zero |-> [id |-> 0, name |-> Word(""), digits |-> Word(""), yes |-> FALSE, no |-> FALSE,
               low |-> 0, high |-> 0, byte |-> 0, plain |-> 0, day |-> ZeroTime, clock |-> ZeroTime,
               unix |-> ZeroTime, never |-> ZeroTime]]

MCJobs ==
    {Building}
    \cup {Connecting(Whole(p), Sparse, {way}) : p \in Passwords, way \in Ways}
    \cup {Connecting(Listed, Sparse, {"D"}), Connecting(Empty, Sparse, Ways)}
    \cup {Reading(Odd(odd)) : odd \in OddTexts}
    \cup {IniOf(Lines), IniOf(Tail(Lines)), IniOf(Append(Lines, Junk)),
          IniOf(<<Include(Key("none", FALSE))>>), OddIni}
    \cup {[kind |-> "dsn", cfg |-> cfg] : cfg \in DriverConfigs \cup OddConfigs}
    \cup {Records(Instant(h), zone) : h \in {1, 49}, zone \in {0, 8}}
===============================================================================
