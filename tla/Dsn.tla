---------------------------------- MODULE Dsn ----------------------------------
(* data/mysql/dsn.go: the data source name of the mysql driver, made from a     *)
(* Config (FormatDSN) and taken apart again (ParseDSN). A text is a sequence of *)
(* tokens, as in Config; in a DSN @ : / ? ( ) & = % + and a blank are tokens.   *)
EXTENDS Integers, Sequences, FiniteSets, SequencesExt, TLC

CONSTANTS
    Flags,         \* parameters with a Boolean value
    Durations,     \* parameters with a duration, in seconds
    TlsConfigs,    \* names registered with RegisterTLSConfig
    Locations,     \* names that time.LoadLocation knows
    UnsafeCollations

DefaultCollation == <<"utf8_general_ci">>
NoDsn == [failed |-> TRUE]

\* url.QueryEscape and QueryUnescape, by token.
Special == {"@", ":", "/", "?", "(", ")", "&", "=", "%", "+"}
QueryEscape(s) ==
    [i \in DOMAIN s |-> CASE s[i] \in Special -> "%" \o s[i]
                          [] s[i] = " " -> "+"
                          [] OTHER -> s[i]]
QueryUnescape(s) ==
    [i \in DOMAIN s |-> CASE \E c \in Special : s[i] = "%" \o c -> CHOOSE c \in Special : s[i] = "%" \o c
                          [] s[i] = "+" -> " "
                          [] OTHER -> s[i]]
BadEscape(s) == \E i \in DOMAIN s : s[i] = "%"

-------------------------------------------------------------------------------
(* FormatDSN: those of Params in the order of an iteration over the map. The    *)
(* others are in a fixed order, here by their kind: no two set the same field.  *)

Parameter(name, value) == name \o <<"=">> \o value
FlagParams(cfg) == LET set == SetToSeq(cfg.flags) IN [i \in DOMAIN set |-> Parameter(<<set[i]>>, <<"true">>)]
DurationParams(cfg) ==
    LET set == SetToSeq({d \in Durations : cfg.durations[d] > 0})
    IN  [i \in DOMAIN set |-> Parameter(<<set[i]>>, <<ToString(cfg.durations[set[i]]) \o "s">>)]

Params(cfg) ==
    FlagParams(cfg)
    \o (IF cfg.Collation \in {DefaultCollation, <<>>} THEN <<>> ELSE <<Parameter(<<"collation">>, cfg.Collation)>>)
    \o (IF cfg.Loc = <<"UTC">> THEN <<>> ELSE <<Parameter(<<"loc">>, QueryEscape(cfg.Loc))>>)
    \o DurationParams(cfg)
    \o (IF cfg.TLSConfig = <<>> THEN <<>> ELSE <<Parameter(<<"tls">>, QueryEscape(cfg.TLSConfig))>>)
    \o (IF cfg.MaxAllowedPacket > 0
        THEN <<Parameter(<<"maxAllowedPacket">>, <<ToString(cfg.MaxAllowedPacket)>>)>> ELSE <<>>)
    \o LET names == SetToSeq(DOMAIN cfg.Params)
       IN  [i \in DOMAIN names |-> Parameter(names[i], QueryEscape(cfg.Params[names[i]]))]

FormatDSN(cfg) ==
    LET params == Params(cfg)
    IN  (IF cfg.User = <<>> THEN <<>>
         ELSE cfg.User \o (IF cfg.Passwd = <<>> THEN <<>> ELSE <<":">> \o cfg.Passwd) \o <<"@">>)
        \o (IF cfg.Net = <<>> THEN <<>>
            ELSE cfg.Net \o (IF cfg.Addr = <<>> THEN <<>> ELSE <<"(">> \o cfg.Addr \o <<")">>))
        \o <<"/">> \o cfg.DBName
        \o FlattenSeq([i \in DOMAIN params |-> <<IF i = 1 THEN "?" ELSE "&">> \o params[i]])

-------------------------------------------------------------------------------
(* ParseDSN *)

\* Where a token first is in s, one past the end if nowhere; and where last, or 0.
First(s, token) ==
    LET at == {i \in DOMAIN s : s[i] = token} \cup {Len(s) + 1}
    IN  CHOOSE i \in at : \A j \in at : i <= j
LastOf(s, token) ==
    LET at == {i \in DOMAIN s : s[i] = token} \cup {0}
    IN  CHOOSE i \in at : \A j \in at : j <= i
Before(s, i) == SubSeq(s, 1, i - 1)
After(s, i) == SubSeq(s, i + 1, Len(s))

RECURSIVE Split(_, _)
Split(s, token) ==
    IF First(s, token) > Len(s) THEN <<s>>
    ELSE <<Before(s, First(s, token))>> \o Split(After(s, First(s, token)), token)

ReadBool(v) ==
    CASE v \in {<<"1">>, <<"true">>, <<"TRUE">>, <<"True">>} -> "true"
      [] v \in {<<"0">>, <<"false">>, <<"FALSE">>, <<"False">>} -> "false"
      [] OTHER -> "no bool"

\* The text of a duration or of a number, up to the bound; -1 for another text.
NumberBound == 60
Number(v, unit) ==
    LET is == {n \in 0..NumberBound : v = <<ToString(n) \o unit>>}
    IN  IF is = {} THEN -1 ELSE CHOOSE n \in is : TRUE

SetTls(cfg, value) ==
    IF ReadBool(value) # "no bool" THEN [cfg EXCEPT !.TLSConfig = <<ReadBool(value)>>]
    ELSE IF value = <<"skip-verify">> THEN [cfg EXCEPT !.TLSConfig = value]
    ELSE IF ~BadEscape(value) /\ QueryUnescape(value) \in TlsConfigs
    THEN [cfg EXCEPT !.TLSConfig = QueryUnescape(value)]
    ELSE NoDsn

\* One parameter "name=value"; what has no "=" is passed over. A name that the
\* driver does not know is kept for the session (SET name=value).
SetParam(cfg, name, value) ==
    CASE name \in {<<f>> : f \in Flags} ->
           IF ReadBool(value) = "no bool" THEN NoDsn
           ELSE [cfg EXCEPT !.flags = IF ReadBool(value) = "true" THEN @ \cup {name[1]} ELSE @ \ {name[1]}]
      [] name \in {<<d>> : d \in Durations} ->
           IF Number(value, "s") < 0 THEN NoDsn ELSE [cfg EXCEPT !.durations[name[1]] = Number(value, "s")]
      [] name = <<"collation">> -> [cfg EXCEPT !.Collation = value]
      [] name = <<"compress">> -> NoDsn
      [] name = <<"loc">> ->
           IF BadEscape(value) \/ QueryUnescape(value) \notin Locations THEN NoDsn
           ELSE [cfg EXCEPT !.Loc = QueryUnescape(value)]
      [] name = <<"tls">> -> SetTls(cfg, value)
      [] name = <<"maxAllowedPacket">> ->
           IF Number(value, "") < 0 THEN NoDsn ELSE [cfg EXCEPT !.MaxAllowedPacket = Number(value, "")]
      [] OTHER ->
           IF BadEscape(value) THEN NoDsn
           ELSE [cfg EXCEPT !.Params = (name :> QueryUnescape(value)) @@ @]

ParseParam(cfg, param) ==
    LET eq == First(param, "=")
    IN  IF cfg = NoDsn \/ eq > Len(param) THEN cfg
        ELSE SetParam(cfg, Before(param, eq), After(param, eq))

ParseDSNParams(cfg, params) == FoldLeft(ParseParam, cfg, Split(params, "&"))

NewConfig ==
    [User |-> <<>>, Passwd |-> <<>>, Net |-> <<>>, Addr |-> <<>>, DBName |-> <<>>,
     Params |-> <<>>, Collation |-> DefaultCollation, Loc |-> <<"UTC">>,
     MaxAllowedPacket |-> 0, TLSConfig |-> <<>>, flags |-> {},
     durations |-> [d \in Durations |-> 0]]

\* user:password before the last @, the password after the first colon.
ParseUser(cfg, login) ==
    [cfg EXCEPT !.User = Before(login, First(login, ":")),
                !.Passwd = After(login, First(login, ":"))]

\* net(addr); the address is not terminated if the brace is not the last token.
ParseNet(cfg, part) ==
    LET open == First(part, "(")
    IN  IF open > Len(part) THEN [cfg EXCEPT !.Net = part]
        ELSE IF Last(part) # ")" THEN NoDsn
        ELSE [cfg EXCEPT !.Net = Before(part, open),
                         !.Addr = SubSeq(part, open + 1, Len(part) - 1)]

ParseDbName(cfg, part) ==
    LET q == First(part, "?")
        named == IF q > Len(part) THEN cfg ELSE ParseDSNParams(cfg, After(part, q))
    IN  IF named = NoDsn THEN NoDsn ELSE [named EXCEPT !.DBName = Before(part, q)]

DefaultAddr == (<<"tcp">> :> <<"127.0.0.1", ":", "3306">>) @@ (<<"unix">> :> <<"/", "tmp", "/", "mysql.sock">>)

Defaults(cfg) ==
    LET net == IF cfg.Net = <<>> THEN <<"tcp">> ELSE cfg.Net
    IN  IF cfg.Addr # <<>> THEN [cfg EXCEPT !.Net = net]
        ELSE IF net \notin DOMAIN DefaultAddr THEN NoDsn
        ELSE [cfg EXCEPT !.Net = net, !.Addr = DefaultAddr[net]]

\* The last slash parts address and database, the last @ before it the login.
ParseDSN(dsn) ==
    LET slash == LastOf(dsn, "/")
        left == Before(dsn, slash)
        at == LastOf(left, "@")
        login == IF at = 0 THEN NewConfig ELSE ParseUser(NewConfig, Before(left, at))
        net == ParseNet(login, After(left, at))
        cfg == IF net = NoDsn THEN NoDsn ELSE ParseDbName(net, After(dsn, slash))
        unsafe == "interpolateParams" \in cfg.flags /\ cfg.Collation \in UnsafeCollations
    IN  IF dsn = <<>> THEN Defaults(NewConfig)
        ELSE IF slash = 0 \/ cfg = NoDsn \/ unsafe THEN NoDsn
        ELSE Defaults(cfg)
===============================================================================
