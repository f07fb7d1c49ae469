-------------------------------- MODULE Config --------------------------------
(* config/: values with environment variables in them (config.go), JSON files   *)
(* and the paths into them (json.go), INI files, loaded and saved (ini.go).     *)
(* A text is a sequence of tokens: a token is a word or a character that means  *)
(* something to a parser. A JSON value is a record by its kind; a path is the   *)
(* sequence of the keys between the dots.                                       *)
EXTENDS Integers, Sequences, FiniteSets, SequencesExt

LOCAL Least(S) == CHOOSE i \in S : \A j \in S : i <= j

-------------------------------------------------------------------------------
(* config.go *)

\* Where the name in "${name||default}" ends: at the first "||" or "}".
NameEnd(s) ==
    Least({i \in DOMAIN s : /\ i > 2
                            /\ \/ s[i] = "}"
                               \/ s[i] = "|" /\ i < Len(s) /\ s[i + 1] = "|"})

IsVariable(s) == Len(s) >= 3 /\ SubSeq(s, 1, 2) = <<"$", "{">> /\ Last(s) = "}"

\* env gives the variables that are set, and to what.
ExpandValueEnv(s, env) ==
    IF ~IsVariable(s)
    THEN s
    ELSE LET end == NameEnd(s)
             name == SubSeq(s, 3, end - 1)
             default == IF s[end] = "|" THEN SubSeq(s, end + 2, Len(s) - 1) ELSE <<>>
         IN  IF name \in DOMAIN env /\ env[name] # <<>> THEN env[name] ELSE default

Yes == {"1", "t", "T", "true", "TRUE", "True", "YES", "yes", "Yes", "Y", "y", "ON", "on", "On"}
No == {"0", "f", "F", "false", "FALSE", "False", "NO", "no", "No", "N", "n", "OFF", "off", "Off"}

-------------------------------------------------------------------------------
(* json.go *)

Str(s) == [kind |-> "str", s |-> s]
Num(n) == [kind |-> "num", n |-> n]
Bool(b) == [kind |-> "bool", b |-> b]
Obj(m) == [kind |-> "obj", m |-> m]
Arr(a) == [kind |-> "arr", a |-> a]
Nil == [kind |-> "nil"]

\* What is in an array is left as it is.
RECURSIVE ExpandValueEnvForMap(_, _)
ExpandValueEnvForMap(v, env) ==
    CASE v.kind = "str" -> Str(ExpandValueEnv(v.s, env))
      [] v.kind = "obj" -> Obj([k \in DOMAIN v.m |-> ExpandValueEnvForMap(v.m[k], env)])
      [] OTHER -> v

\* An object is taken, an array under a name of its own; anything else, the
\* beginning of a document included, is refused: Nil. (A document that is null is
\* left out: it is taken, with nothing in it.)
ParseJson(v, env) ==
    CASE v.kind = "obj" -> ExpandValueEnvForMap(v, env)
      [] v.kind = "arr" -> Obj([rootArray |-> v])
      [] OTHER -> Nil

\* Down the path; a value that is no object stands for all that is below it.
GetData(data, path) ==
    FoldLeft(LAMBDA v, key : IF v.kind # "obj" THEN v
                             ELSE IF key \in DOMAIN v.m THEN v.m[key] ELSE Nil,
             data, path)

\* The value if it is a string and not empty.
DefaultString(data, path, default) ==
    LET v == GetData(data, path)
    IN  IF v.kind = "str" /\ v.s # <<>> THEN v.s ELSE default

DefaultInt(data, path, default) ==
    LET v == GetData(data, path) IN IF v.kind = "num" THEN v.n ELSE default

DefaultBool(data, path, default) ==
    LET v == GetData(data, path)
    IN  CASE v.kind = "bool" -> v.b
          [] v.kind = "num" /\ v.n \in {0, 1} -> v.n = 1
          [] v.kind = "str" /\ Len(v.s) = 1 /\ v.s[1] \in Yes \cup No -> v.s[1] \in Yes
          [] OTHER -> default

-------------------------------------------------------------------------------
(* ini.go. A line is a record by its kind; keys and section names are records   *)
(* too, for what ToLower does to them. A container has the values by section    *)
(* and key, and the comments (sequences of lines) above sections and keys.      *)
(* Names are words: not empty, without dots, and with nothing that a parser     *)
(* takes for a comment, a section or the end of a name. A blank stands for any  *)
(* white space but the end of a line; a value is of one line, and that shorter  *)
(* than the 4096 bytes that are read at a time.                                 *)

Key(name, upper) == [name |-> name, upper |-> upper]
ToLower(key) == [key EXCEPT !.upper = FALSE]
DefaultSection == Key("default", FALSE)

EmptyLine == [kind |-> "blank"]
Comment(mark, text) == [kind |-> "comment", mark |-> mark, text |-> text]
Section(key) == [kind |-> "section", key |-> key]
Pair(key, val) == [kind |-> "pair", key |-> key, val |-> val]
Include(file) == [kind |-> "include", file |-> file]
Junk == [kind |-> "junk"]

\* Left and right, what is in the set is cut off.
Trim(s, S) ==
    LET kept == {i \in DOMAIN s : s[i] \notin S}
    IN  IF kept = {} THEN <<>>
        ELSE SubSeq(s, Least(kept), CHOOSE i \in kept : \A j \in kept : j <= i)

\* The text behind the marks at the beginning of a comment: all that are like the
\* first.
Uncommented(line) ==
    LET past == {i \in DOMAIN line.text : line.text[i] # line.mark} \cup {Len(line.text) + 1}
    IN  SubSeq(line.text, Least(past), Len(line.text))

IniValue(val, env) ==
    LET v == Trim(val, {" "})
    IN  ExpandValueEnv(IF v # <<>> /\ v[1] = "\"" THEN Trim(v, {"\""}) ELSE v, env)

NoIni == [data |-> <<>>, sectionComment |-> <<>>, keyComment |-> <<>>,
          section |-> DefaultSection, comment |-> <<>>, failed |-> FALSE]

\* f with x for k, and the maps of maps.
LOCAL With(f, k, x) == [i \in DOMAIN f \cup {k} |-> IF i = k THEN x ELSE f[i]]
LOCAL Over(f, g) == [i \in DOMAIN f \cup DOMAIN g |-> IF i \in DOMAIN g THEN g[i] ELSE f[i]]
LOCAL At(f, k) == IF k \in DOMAIN f THEN f[k] ELSE <<>>
Merged(data, more) ==
    [s \in DOMAIN data \cup DOMAIN more |-> Over(At(data, s), At(more, s))]

\* A pending comment goes to the section or key that follows it.
TakeComment(cfg, comments, k) == IF cfg.comment = <<>> THEN comments ELSE With(comments, k, cfg.comment)

\* A mutant: the comment stays pending after the key has taken it.
SetPairKeepingComment(cfg, key, val) ==
    [cfg EXCEPT !.data = With(@, cfg.section, With(At(@, cfg.section), key, val)),
                !.keyComment = TakeComment(cfg, @, <<cfg.section, key>>)]

SetPair(cfg, key, val) ==
    [cfg EXCEPT !.data = With(@, cfg.section, With(At(@, cfg.section), key, val)),
                !.keyComment = TakeComment(cfg, @, <<cfg.section, key>>),
                !.comment = <<>>]

\* parseFile, with the files there are, by lower-case name (a name is put in
\* lower case with the rest of its line).
RECURSIVE ParseIni(_, _, _)
ParseIni(files, name, env) ==
    LET Read(cfg, line) ==
          CASE line.kind = "blank" -> cfg
            [] line.kind = "comment" ->
                 IF cfg.comment = <<>> /\ Uncommented(line) = <<>> THEN cfg
                 ELSE [cfg EXCEPT !.comment = Append(@, Uncommented(line))]
            [] line.kind = "section" ->
                 LET s == ToLower(line.key)
                 IN  [cfg EXCEPT !.section = s,
                                 !.sectionComment = TakeComment(cfg, @, s),
                                 !.comment = <<>>,
                                 !.data = With(@, s, At(@, s))]
            [] line.kind = "pair" -> SetPair(cfg, ToLower(line.key), IniValue(line.val, env))
            [] line.kind = "include" ->
                 LET other == IF ToLower(line.file) \in DOMAIN files
                              THEN ParseIni(files, ToLower(line.file), env)
                              ELSE [NoIni EXCEPT !.failed = TRUE]
                 IN  [cfg EXCEPT !.failed = other.failed,
                                 !.data = Merged(With(@, cfg.section, At(@, cfg.section)), other.data),
                                 !.sectionComment = Over(@, other.sectionComment),
                                 !.keyComment = Over(@, other.keyComment)]
            [] OTHER -> [cfg EXCEPT !.failed = TRUE]
        Line(cfg, line) == IF cfg.failed THEN cfg ELSE Read(cfg, line)
    IN  FoldLeft(Line, NoIni, files[name])

\* The comments that SaveConfigFile writes above a section or a key, whatever the
\* mark they had.
LOCAL CommentLines(comments, k) ==
    IF k \notin DOMAIN comments THEN <<>>
    ELSE IF \A i \in DOMAIN comments[k] : Trim(comments[k][i], {" "}) = <<>> THEN <<Comment("#", <<>>)>>
    ELSE [i \in DOMAIN comments[k] |-> Comment("#", comments[k][i])]

LOCAL KeyLines(cfg, s, keys) ==
    FoldLeft(LAMBDA lines, k : lines \o CommentLines(cfg.keyComment, <<s, k>>)
                                     \o <<Pair(k, cfg.data[s][k])>>,
             <<>>, keys)

SectionLines(cfg, s) ==
    CommentLines(cfg.sectionComment, s) \o <<Section(s)>>
        \o KeyLines(cfg, s, SetToSeq(DOMAIN cfg.data[s])) \o <<EmptyLine>>

\* What SaveConfigFile writes: the default section first, the others in the
\* order of an iteration over the map.
SavedIni(cfg, sections) ==
    (IF DefaultSection \in DOMAIN cfg.data
     THEN Append(KeyLines(cfg, DefaultSection, SetToSeq(DOMAIN cfg.data[DefaultSection])), EmptyLine)
     ELSE <<>>)
    \o FoldLeft(LAMBDA lines, s : IF s = DefaultSection THEN lines ELSE lines \o SectionLines(cfg, s),
                <<>>, sections)

\* Set, which leaves the case of the names as it is given, and getdata.
IniSet(cfg, s, k, val) == [cfg EXCEPT !.data = With(@, s, With(At(@, s), k, val))]
IniGet(cfg, s, k) ==
    IF ToLower(s) \in DOMAIN cfg.data /\ ToLower(k) \in DOMAIN cfg.data[ToLower(s)]
    THEN cfg.data[ToLower(s)][ToLower(k)]
    ELSE <<>>
===============================================================================
