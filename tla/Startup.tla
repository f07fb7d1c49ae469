-------------------------------- MODULE Startup --------------------------------
(* How a process comes to its databases: D(dbkey) and R(redisKey) of frame.go   *)
(* look into a map, load the configuration file, and build the model of the key *)
(* (NewDb and Init of data/db.go, NewRedis of cache/redis.go) from what the     *)
(* file says, while somebody saves another version of the file. The first to    *)
(* have the DbModel goes on to use it as DbModel has it.                        *)
(* Three smaller jobs go through the same text: an INI file is loaded, changed  *)
(* and saved, a driver is opened with a DSN that FormatDSN made, and a struct   *)
(* is saved to a row and found again.                                           *)
EXTENDS DbModel, Config, Dsn, Records

CONSTANTS
    Callers,   \* goroutines that call D and R
    Jobs,      \* what is done, on what; see the fields where they are used
    NoModel,   \* no entry in the map
    NilPool    \* a *sql.DB that is nil

ASSUME CallersAssumption == Users \subseteq Callers

VARIABLES
    job,
    file,        \* the configuration file; Nil while it is half written
    dbConfiger,  \* Nil until it is loaded
    models,      \* DbModels and RedisModels: of each key, by D and by R
    at,          \* of each caller: where it is,
    model,       \* and what it has built so far
    disk, held,  \* INI: the files by name, the container in memory
    conn,        \* the Config that the driver opens with, Nil before that
    row, found   \* the row of the table, the struct that Find fills

db == <<builder, pc, pkArgs, stmt, history>>
start == <<file, dbConfiger, models, at, model>>
ini == <<disk, held>>
rest == <<conn, row, found>>

Is(kind) == job.kind = kind

-------------------------------------------------------------------------------
(* D and R. Two calls, for one key each: "D" of a database, "R" of a redis.     *)

Ways == {"D", "R"}
KeyOf == [D |-> "main", R |-> "cache"]

\* What frame.go takes out of the file, in its order, and what it is without it.
DbItems(role) ==
    <<<<role, "ip", <<"127.0.0.1">>>>, <<role, "port", <<"3306">>>>, <<role, "user", <<"root">>>>,
      <<role, "password", <<>>>>, <<role, "charset", <<"utf8">>>>, <<role, "db", <<>>>>>>
AllDbItems == DbItems("slave") \o DbItems("master")

\* The n-th of them; behind them whether there is a prefix of table names, and
\* which.
DbSetting(data, n) ==
    IF n <= Len(AllDbItems)
    THEN LET i == AllDbItems[n] IN DefaultString(data, <<KeyOf["D"], i[1], i[2]>>, i[3])
    ELSE IF n = Len(AllDbItems) + 1
    THEN <<DefaultBool(data, <<KeyOf["D"], "enable_tbpre">>, FALSE)>>
    ELSE DefaultString(data, <<KeyOf["D"], "tbpre">>, <<>>)
DbSettings(read, role) ==
    LET Read(item) == read[CHOOSE n \in DOMAIN AllDbItems :
                               AllDbItems[n][1] = role /\ AllDbItems[n][2] = item]
    IN  [ip |-> Read("ip"), port |-> Read("port"), user |-> Read("user"),
         password |-> Read("password"), charset |-> Read("charset"), name |-> Read("db")]
TablePrefix(read) ==
    LET n == Len(AllDbItems) + 1 IN IF read[n] = <<TRUE>> THEN read[n + 1] ELSE <<>>

RedisSettings(data, role) ==
    LET Text(item, default) == DefaultString(data, <<KeyOf["R"], role, item>>, default)
        Count(item, default) == DefaultInt(data, <<KeyOf["R"], role, item>>, default)
    IN  [ip |-> Text("ip", <<"127.0.0.1">>), port |-> Text("port", <<"6379">>),
         password |-> Text("password", <<>>), keyPre |-> Text("key_pre", <<"misgo_">>),
         number |-> Count("db", 0), maxIdle |-> Count("maxidle", 3),
         maxActive |-> Count("maxactive", 1000), idleTimeout |-> Count("idletimeout", 180)]

\* The DSN that NewDb puts together.
DsnOf(s) ==
    s.user \o <<":">> \o s.password \o <<"@", "tcp", "(">> \o s.ip \o <<":">> \o s.port
        \o <<")", "/">> \o s.name \o <<"?", "charset", "=">> \o s.charset

\* Init opens and pings: if the DSN is refused or nobody answers, its panic is
\* recovered and it returns nil, and the model is kept as it is.
OpenPool(s, answers) ==
    LET cfg == ParseDSN(DsnOf(s)) IN IF answers /\ cfg # NoDsn THEN cfg ELSE NilPool

Goes(t, place) == at' = [at EXCEPT ![t] = place]
Has(t, m) == model' = [model EXCEPT ![t] = m]

\* The look into the map, and that of D at dbConfiger.
Call(t) ==
    /\ at[t] = <<"out">>
    /\ \E way \in job.ways :
          IF models[way] # NoModel THEN Goes(t, <<"return", way>>) /\ UNCHANGED model
          ELSE IF way = "D" /\ dbConfiger # Nil THEN Goes(t, <<"read", way>>) /\ Has(t, <<>>)
          ELSE Goes(t, <<"load", way>>) /\ UNCHANGED model
    /\ UNCHANGED <<file, dbConfiger, models>>

\* D keeps what it loads for everybody, R for this call only; what cannot be
\* parsed is given up, and nothing is kept of it.
LoadDbConfig(t) ==
    /\ at[t] = <<"load", "D">>
    /\ LET data == ParseJson(file, job.env)
       IN  IF data = Nil
           THEN Goes(t, <<"out">>) /\ UNCHANGED <<dbConfiger, model>>
           ELSE /\ dbConfiger' = data
                /\ Goes(t, <<"read", "D">>)
                /\ Has(t, <<>>)
    /\ UNCHANGED <<file, models>>
LoadConfig(t) ==
    /\ at[t] = <<"load", "R">>
    /\ LET data == ParseJson(file, job.env)
       IN  IF data = Nil
           THEN Goes(t, <<"out">>) /\ UNCHANGED model
           ELSE /\ Goes(t, <<"keep", "R">>)
                /\ Has(t, [writer |-> RedisSettings(data, "master"), reader |-> RedisSettings(data, "slave"),
                           prefix |-> RedisSettings(data, "master").keyPre])
    /\ UNCHANGED <<file, dbConfiger, models>>

\* D reads its settings one by one, out of the dbConfiger that stands then.
ReadSetting(t) ==
    /\ at[t] = <<"read", "D">>
    /\ LET read == Append(model[t], DbSetting(dbConfiger, Len(model[t]) + 1))
       IN  /\ Has(t, read)
           /\ Goes(t, IF Len(read) < Len(AllDbItems) + 2 THEN at[t] ELSE <<"master", "D">>)
    /\ UNCHANGED <<file, dbConfiger, models>>

\* NewDb dials the master, then the slave; the pools of NewRedis dial when used.
Master(t) ==
    /\ at[t] = <<"master", "D">>
    /\ \E answers \in job.answers :
          Has(t, [read |-> model[t], writer |-> OpenPool(DbSettings(model[t], "master"), answers)])
    /\ Goes(t, <<"slave", "D">>)
    /\ UNCHANGED <<file, dbConfiger, models>>

\* A mutant: the reader is the master again if the slave does not answer.
SlaveOrMaster(t) ==
    /\ at[t] = <<"slave", "D">>
    /\ \E answers \in job.answers :
       LET opened == OpenPool(DbSettings(model[t].read, "slave"), answers)
       IN  Has(t, [reader |-> IF opened = NilPool THEN model[t].writer ELSE opened,
                   writer |-> model[t].writer, prefix |-> TablePrefix(model[t].read)])
    /\ Goes(t, <<"keep", "D">>)
    /\ UNCHANGED <<file, dbConfiger, models>>

Slave(t) ==
    /\ at[t] = <<"slave", "D">>
    /\ \E answers \in job.answers :
          Has(t, [reader |-> OpenPool(DbSettings(model[t].read, "slave"), answers),
                  writer |-> model[t].writer, prefix |-> TablePrefix(model[t].read)])
    /\ Goes(t, <<"keep", "D">>)
    /\ UNCHANGED <<file, dbConfiger, models>>

\* The model goes into the map, over one that somebody else built meanwhile.
Keep(t) ==
    /\ at[t] = <<"keep", "D">> \/ at[t] = <<"keep", "R">>
    /\ models' = [models EXCEPT ![at[t][2]] = model[t]]
    /\ Goes(t, <<"return", at[t][2]>>)
    /\ Has(t, NoModel)
    /\ UNCHANGED <<file, dbConfiger>>

\* The second look into the map, for the model that is returned.
Return(t) ==
    /\ at[t] = <<"return", "D">> \/ at[t] = <<"return", "R">>
    /\ Goes(t, IF Is("build") THEN <<"has">> ELSE <<"out">>)
    /\ UNCHANGED <<file, dbConfiger, models, model>>

\* SaveConfigFile: the file is emptied, then written.
Truncate == Is("connect") /\ file = job.file /\ file' = Nil /\ UNCHANGED <<dbConfiger, models, at, model>>
Write == Is("connect") /\ file = Nil /\ file' = job.next /\ UNCHANGED <<dbConfiger, models, at, model>>

Connect ==
    /\ Is("connect") \/ Is("build")
    /\ \/ \E t \in job.callers :
             \/ Call(t) \/ LoadDbConfig(t) \/ ReadSetting(t) \/ Master(t) \/ Slave(t)
             \/ LoadConfig(t) \/ Keep(t) \/ Return(t)
       \/ Truncate \/ Write
    /\ UNCHANGED <<job, db, ini, rest>>

\* The builder, in the hands of those who have the DbModel.
Build ==
    /\ \A u \in Users : at[u] = <<"has">>
    /\ Next
    /\ UNCHANGED <<job, start, ini, rest>>

-------------------------------------------------------------------------------
(* The three other jobs.                                                        *)

IniLoads ==
    /\ Is("ini") /\ held = NoIni
    /\ held' = ParseIni(disk, job.name, job.env)
    /\ UNCHANGED disk

IniSets ==
    /\ Is("ini") /\ held # NoIni /\ ~held.failed /\ disk = job.files
    /\ \E set \in job.sets : held' = IniSet(held, set.section, set.key, set.val)
    /\ UNCHANGED disk

\* Emptied, then written at once from a buffer; the sections in any order.
IniTruncates ==
    /\ Is("ini") /\ held # NoIni /\ ~held.failed /\ disk = job.files
    /\ disk' = [disk EXCEPT ![job.name] = <<Junk>>]
    /\ UNCHANGED held
IniSaves ==
    /\ Is("ini") /\ disk[job.name] = <<Junk>>
    /\ \E sections \in SetToSeqs(DOMAIN held.data) :
          disk' = [disk EXCEPT ![job.name] = SavedIni(held, sections)]
    /\ UNCHANGED held

Ini == (IniLoads \/ IniSets \/ IniTruncates \/ IniSaves) /\ UNCHANGED <<job, db, start, rest>>

OpenDriver ==
    /\ Is("dsn")
    /\ conn' = ParseDSN(FormatDSN(job.cfg))
    /\ UNCHANGED <<job, db, start, ini, row, found>>

SaveRecord ==
    /\ Is("record")
    /\ row' = StoredRow(row, job.fields, job.zone)
    /\ found' = job.zero
    /\ UNCHANGED <<job, db, start, ini, conn>>

FindRecord ==
    /\ Is("record")
    /\ found' = [c \in DOMAIN job.fields |-> FieldOf(job.fields[c].kind, row[c], job.zero[c])]
    /\ UNCHANGED <<job, db, start, ini, conn, row>>

StartInit ==
    /\ Init
    /\ job \in Jobs
    /\ file = IF Is("connect") \/ Is("build") THEN job.file ELSE Nil
    /\ dbConfiger = Nil
    /\ models = [way \in Ways |-> NoModel]
    /\ at = [t \in Callers |-> <<"out">>]
    /\ model = [t \in Callers |-> NoModel]
    /\ disk = IF Is("ini") THEN job.files ELSE <<>>
    /\ held = NoIni
    /\ conn = Nil
    /\ row = IF Is("record") THEN [c \in DOMAIN job.fields |-> NullText] ELSE <<>>
    /\ found = IF Is("record") THEN job.zero ELSE <<>>

StartNext == Connect \/ Build \/ Ini \/ OpenDriver \/ SaveRecord \/ FindRecord

StartSpec == StartInit /\ [][StartNext]_<<job, db, start, ini, rest>>

-------------------------------------------------------------------------------
(* What the reader of a file expects of it: the item where it stands, with what *)
(* job.means for a text that names a variable, or the documented default.       *)

Meaning(text) == IF text \in DOMAIN job.means THEN job.means[text] ELSE text

Stands(v, way, role, item) ==
    /\ v.kind = "obj"
    /\ KeyOf[way] \in DOMAIN v.m
    /\ role \in DOMAIN v.m[KeyOf[way]].m
    /\ item \in DOMAIN v.m[KeyOf[way]].m[role].m
Configured(v, way, role, item, default) ==
    IF Stands(v, way, role, item) /\ Meaning(v.m[KeyOf[way]].m[role].m[item].s) # <<>>
    THEN Meaning(v.m[KeyOf[way]].m[role].m[item].s)
    ELSE default

Versions == {job.file, job.next}

\* The settings of a role of D that the file may give: each of some version.
SettingsIn(role) ==
    LET Each(item, default) == {Configured(v, "D", role, item, default) : v \in Versions}
    IN  [ip : Each("ip", <<"127.0.0.1">>), port : Each("port", <<"3306">>),
         user : Each("user", <<"root">>), password : Each("password", <<>>),
         charset : Each("charset", <<"utf8">>), name : Each("db", <<>>)]

\* NewDb escapes nothing. These come through the DSN all the same.
Carries(s) ==
    /\ ":" \notin ToSet(s.user)
    /\ "@" \notin ToSet(s.ip) \cup ToSet(s.port)
    /\ {"/", "?"} \cap ToSet(s.name) = {}
    /\ {"/", "&", "%", "+"} \cap ToSet(s.charset) = {}

DialsAs(pool, s) ==
    /\ pool.Net = <<"tcp">> /\ pool.Addr = s.ip \o <<":">> \o s.port
    /\ pool.User = s.user /\ pool.Passwd = s.password /\ pool.DBName = s.name
    /\ pool.Params = (<<"charset">> :> s.charset)

\* The pool is nil if nobody answered or if the DSN is refused.
PoolOf(pool, role) ==
    \E s \in SettingsIn(role) :
        \/ Carries(s) /\ IF pool = NilPool THEN FALSE \in job.answers ELSE DialsAs(pool, s)
        \/ ~Carries(s) /\ IF pool = NilPool THEN FALSE \in job.answers \/ ParseDSN(DsnOf(s)) = NoDsn
                          ELSE pool = ParseDSN(DsnOf(s)) /\ ~DialsAs(pool, s)

ServesAs(pool, v, role) ==
    LET Item(item, default) == Configured(v, "R", role, item, default)
    IN  /\ pool.ip = Item("ip", <<"127.0.0.1">>)
        /\ pool.port = Item("port", <<"6379">>)
        /\ pool.password = Item("password", <<>>)

\* The reader of a model that D or R gives out has the slave's settings and its
\* writer the master's, whoever saved the file and whichever calls ran at a time.
\* Of D: with any characters in the password, the driver takes login, address,
\* database and character set out of the DSN as they are in the file, unless
\* there is a ":" in the user, an "@" in the address, a "/" or "?" in the database
\* or one of "/&%+" in the character set: then it dials as something else, or
\* refuses the DSN and the pool stays nil, as it does when nobody answers. R has
\* all its settings of one complete version of the file; D has each of a complete
\* version, and not always the same one: dbConfiger may change between two of its
\* reads.
BuiltAsConfigured ==
    /\ models["D"] # NoModel =>
           PoolOf(models["D"].writer, "master") /\ PoolOf(models["D"].reader, "slave")
    /\ models["R"] # NoModel =>
           \E v \in Versions :
               /\ ServesAs(models["R"].writer, v, "master")
               /\ ServesAs(models["R"].reader, v, "slave")

\* A value that SaveConfigFile, which puts no quotes around it, writes so that it
\* is read as it is.
Plain(val) ==
    /\ val # <<>> => Head(val) \notin {" ", "\""} /\ Last(val) # " "
    /\ ~IsVariable(val)

\* No other name that is held becomes the same in lower case.
Alone(s, k) ==
    \A s2 \in DOMAIN held.data : \A k2 \in DOMAIN held.data[s2] :
        ToLower(s2) = ToLower(s) /\ ToLower(k2) = ToLower(k) => s2 = s /\ k2 = k

\* There is no comment that was not held, and each that was is there, unless a
\* line of it begins with the mark that it is saved with.
CommentsLoad(loaded, saved) ==
    /\ DOMAIN loaded \subseteq DOMAIN saved
    /\ \A k \in DOMAIN saved :
           (\A i \in DOMAIN saved[k] : saved[k][i] # <<>> => Head(saved[k][i]) # "#")
           => k \in DOMAIN loaded /\ loaded[k] = saved[k]

\* Loading what SaveConfigFile wrote gives what was saved, in whichever order it
\* wrote the sections. Every key has the value that it was loaded or set with; but
\* not one with a blank at an end (which quotes let through the first time), with
\* a quote at its beginning or of the form "${...}", nor one of two keys that
\* differ in their case only, which Set keeps apart. And every key and section but
\* the default one, which is written without its header, has the comment above it,
\* save one after ";" that begins with "#".
SavedLoadsBack ==
    Is("ini") /\ disk \notin {job.files, [job.files EXCEPT ![job.name] = <<Junk>>]} =>
        LET loaded == ParseIni(disk, job.name, job.env)
            sections == DOMAIN held.sectionComment \ {DefaultSection}
        IN  /\ ~loaded.failed
            /\ \A s \in DOMAIN held.data : \A k \in DOMAIN held.data[s] :
                   Plain(held.data[s][k]) /\ Alone(s, k) => IniGet(loaded, s, k) = held.data[s][k]
            /\ CommentsLoad(loaded.keyComment, held.keyComment)
            /\ CommentsLoad(loaded.sectionComment, [s \in sections |-> held.sectionComment[s]])

\* A Config that its DSN gives back, whatever is in the password and the values of
\* Params: the rest is written without escapes, and what is empty gets a default.
Formatted(cfg) ==
    /\ ":" \notin ToSet(cfg.User) /\ (cfg.Passwd # <<>> => cfg.User # <<>>)
    /\ cfg.Net # <<>> /\ cfg.Addr # <<>> /\ "@" \notin ToSet(cfg.Addr)
    /\ {"/", "?"} \cap ToSet(cfg.DBName) = {}
    /\ cfg.Collation # <<>> /\ {"/", "&"} \cap ToSet(cfg.Collation) = {}
    /\ ~("interpolateParams" \in cfg.flags /\ cfg.Collation \in UnsafeCollations)

\* "FormatDSN formats the given Config into a DSN string which can be passed to
\* the driver": the driver takes the Config back out of it if and only if there is
\* no ":" in the user, no "@" in the address, no "/" or "?" in the database and no
\* "/" or "&" in the collation, none of them but the database is empty, no password
\* goes without a user, and the collation is safe to interpolate with. (The network,
\* the other fields and the names in Params are ones that the driver knows.)
OpensAsFormatted == Is("dsn") /\ conn # Nil => (conn = job.cfg <=> Formatted(job.cfg))

\* What a configuration is written as is read back as that configuration, in the
\* cases that SavedLoadsBack and OpensAsFormatted name.
WrittenReadsBack == SavedLoadsBack /\ OpensAsFormatted

\* A struct that was saved and is found again has the values it was saved with,
\* in the fields that the tags let through and that have a conversion.
FoundAsSaved ==
    Is("record") /\ (\E c \in DOMAIN row : row[c] # NullText) /\ found # job.zero =>
        \A c \in DOMAIN found :
            Faithful(job.fields[c], job.zone) => found[c] = job.fields[c].value
===============================================================================
