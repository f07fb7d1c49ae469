--------------------------- MODULE FileServerProofs ---------------------------
(* Theorems about FileServer, for every set of goroutines, every requests and   *)
(* settings: its types, that files are counted and closed by nobody too early,  *)
(* that none is forgotten, and that bodies are what was asked for.              *)
EXTENDS FileServer, FiniteSetTheorems, SequenceTheorems, TLAPS

(* Where a request has a file, and where it has a reader on it. *)
Using == {"use", "reopen", "send", "close", "leave"}
Kept == Cached \cup pending \cup releasing

(* A request has a file from the time it was found or made; a new one is known to *)
(* nobody else.                                                                  *)
Hands ==
    /\ \A w \in Workers : job[w].file # None <=> job[w].pc \in Using \cup {"insert"}
    /\ \A w \in Workers : job[w].pc = "insert" =>
          /\ files[job[w].file].state = "open"
          /\ job[w].file \notin Kept
          /\ \A v \in Workers : job[v].file = job[w].file => v = w

(* The caches and the lists of cleanCache are apart, and hold open files. *)
Lists ==
    /\ \A f \in Kept : files[f].state = "open"
    /\ \A c, d \in Caches : cache[c] = cache[d] /\ cache[c] # None => c = d
    /\ \A c \in Caches : cache[c] \notin pending \cup releasing
    /\ pending \cap releasing = {}
    /\ \A f \in DOMAIN files : files[f].state = "open" =>
          f \in Kept \/ \E w \in Workers : job[w].pc = "insert" /\ job[w].file = f

(* Files are counted, and those that are read can be found. *)
Counts ==
    \A f \in DOMAIN files :
        /\ files[f].count = Cardinality(Readers(f))
        /\ Readers(f) # {} => f \in Cached \cup pending

Books == Hands /\ Lists /\ Counts

(* The piece that a request should get of a version of its file. *)
AskedIn(w, v) == Asked(w, files[job[w].file].length) \cap 0..(Size(v, files[job[w].file].gz) - 1)
PieceAsked(w, v) ==
    [k \in 1..Cardinality(AskedIn(w, v)) |-> <<v, files[job[w].file].gz, Min(AskedIn(w, v)) + k>>]

(* Readers begin at the beginning, of a file of the encoding that is expected, and *)
(* bodies are pieces.                                                              *)
Ready(f, r) == r.from = 0 /\ r.gz = files[f].gz
Reading(w) ==
    LET f == job[w].file IN
    /\ job[w].pc = "reopen" => isBig(f)
    /\ job[w].pc = "send" => Ready(f, job[w].reader) /\ (~isBig(f) => job[w].reader.version = files[f].version)
HasRead(w) ==
    LET f == job[w].file IN
    job[w].pc = "close" =>
        /\ job[w].reader.gz = files[f].gz
        /\ job[w].status \in {200, 206} => \E v \in Versions :
              /\ ~isBig(f) => v = files[f].version
              /\ job[w].request.head \/ job[w].body = <<>> \/ job[w].body = PieceAsked(w, v)
ReadersWait == \A f \in DOMAIN files : \A i \in DOMAIN files[f].idle : Ready(f, files[f].idle[i])

Bodies == ReadersWait /\ \A w \in Workers : Reading(w) /\ HasRead(w)

IInv == TypeOK /\ Books /\ Bodies

-----------------------------------------------------------------------------
(* Types *)

SettingTypes ==
    /\ setting \in Settings
    /\ original \in Versions /\ latest \in 1..setting.versions /\ compressed \in Versions
    /\ fileLock \in Workers \cup {Nobody}
FileTypes ==
    /\ files \in Seq(FileType) /\ cache \in [Caches -> FileNumbers]
    /\ pending \subseteq DOMAIN files /\ releasing \subseteq DOMAIN files
JobTypes == job \in [Workers -> JobType]

LEMMA TypeParts == TypeOK <=> SettingTypes /\ FileTypes /\ JobTypes
BY DEF TypeOK, SettingTypes, FileTypes, JobTypes

LEMMA SettingIs ==
    ASSUME SettingTypes
    PROVE  /\ latest \in Nat \ {0} /\ setting.versions \in Nat /\ latest <= setting.versions
           /\ 0 \in Versions /\ Versions \subseteq Nat
           /\ setting.requests \in [Workers -> Nat] /\ setting.kinds \subseteq Requests
           /\ \A version \in Versions, gz \in BOOLEAN : Size(version, gz) \in Nat
<1>1. /\ setting.versions \in Nat \ {0} /\ setting.requests \in [Workers -> Nat] /\ setting.kinds \subseteq Requests
      /\ \A version \in 0..setting.versions, gz \in BOOLEAN : setting.lengths[gz][version] \in Nat
    BY FileServerAssumption DEF SettingTypes
<1>2. latest \in Nat \ {0} /\ latest <= setting.versions
    BY <1>1 DEF SettingTypes
<1>3. Versions \subseteq 0..setting.versions /\ 0 \in Versions /\ Versions \subseteq Nat
    BY <1>1, <1>2 DEF Versions
<1> QED BY <1>1, <1>2, <1>3 DEF Size

LEMMA FilesAre ==
    ASSUME FileTypes
    PROVE  /\ Len(files) \in Nat /\ DOMAIN files = 1..Len(files)
           /\ \A f \in DOMAIN files : files[f] \in FileType
           /\ 0 \notin DOMAIN files
           /\ \A c \in Caches : cache[c] # None => cache[c] \in DOMAIN files
           /\ Kept \subseteq DOMAIN files
<1>1. /\ Len(files) \in Nat /\ DOMAIN files = 1..Len(files)
      /\ \A f \in DOMAIN files : files[f] \in FileType
    BY DEF FileTypes
<1>2. 0 \notin DOMAIN files /\ \A c \in Caches : cache[c] # None => cache[c] \in DOMAIN files
    BY <1>1 DEF FileTypes, FileNumbers, None
<1> QED BY <1>1, <1>2 DEF Kept, Cached, FileTypes

(* The same files, changed. *)
LEMMA SameFiles ==
    ASSUME NEW S, NEW s \in Seq(S), NEW t \in [DOMAIN s -> S]
    PROVE  t \in Seq(S) /\ Len(t) = Len(s) /\ DOMAIN t = DOMAIN s
<1>1. Len(s) \in Nat /\ DOMAIN s = 1..Len(s)
    OBVIOUS
<1>2. t \in [1..Len(s) -> S]
    BY <1>1
<1> QED BY <1>1, <1>2, SeqDef

LEMMA SameTypes ==
    ASSUME latest' = latest
    PROVE  /\ Versions' = Versions /\ ReaderType' = ReaderType /\ FileType' = FileType /\ Piece' = Piece
BY DEF Versions, ReaderType, FileType, Piece

LEMMA OldJobs ==
    ASSUME JobTypes, latest' = latest, Len(files) \in Nat, Len(files') \in Nat, Len(files) <= Len(files')
    PROVE  /\ \A v \in Workers : job[v] \in JobType'
           /\ JobType \subseteq JobType'
           /\ FileNumbers' = 0..Len(files')
<1>1. FileNumbers \subseteq FileNumbers'
    BY DEF FileNumbers
<1>2. ASSUME NEW j \in JobType PROVE j \in JobType'
    BY <1>1, SameTypes DEF JobType
<1> QED BY <1>2 DEF JobTypes, FileNumbers

(* Jobs at rest, and those that go on with their places changed. *)
LEMMA IdleIs ==
    ASSUME SettingTypes, NEW left \in Nat, Len(files) \in Nat
    PROVE  Idle(left) \in JobType
<1>1. 0 \in Versions /\ <<>> \in Piece /\ 0 \in Statuses /\ 0 \in FileNumbers
    BY SettingIs DEF Piece, Statuses, FileNumbers, None
<1>2. NoReader \in ReaderType
    BY <1>1 DEF NoReader, ReaderType, None
<1> QED BY <1>1, <1>2 DEF Idle, JobType, None, Caches

(* What is known of a request with a file. *)
LEMMA Before ==
    ASSUME IInv, NEW w \in Workers
    PROVE  /\ job[w] \in JobType
           /\ job[w].pc \in Using \cup {"insert"} => job[w].file \in DOMAIN files
           /\ job[w].pc \in Using => /\ w \in Readers(job[w].file)
                                     /\ files[job[w].file].count >= 1
                                     /\ job[w].file \in Cached \cup pending
                                     /\ files[job[w].file].state = "open"
<1>1. FileTypes /\ JobTypes /\ Hands /\ Lists /\ Counts
    BY TypeParts DEF IInv, Books
<1>2. job[w] \in JobType /\ (job[w].pc \in Using \cup {"insert"} => job[w].file \in DOMAIN files)
    <2>1. job[w] \in JobType
        BY <1>1 DEF JobTypes
    <2>2. job[w].file \in 0..Len(files) /\ (job[w].pc \in Using \cup {"insert"} => job[w].file # 0)
        BY <1>1, <2>1 DEF JobType, FileNumbers, Hands, None
    <2> QED BY <1>1, <2>1, <2>2, FilesAre
<1>3. ASSUME job[w].pc \in Using
      PROVE  /\ w \in Readers(job[w].file) /\ files[job[w].file].count >= 1
             /\ job[w].file \in Cached \cup pending /\ files[job[w].file].state = "open"
    <2> DEFINE f == job[w].file
    <2>1. f \in DOMAIN files /\ w \in Readers(f)
        BY <1>2, <1>3 DEF Readers, Using
    <2>2. files[f].count = Cardinality(Readers(f)) /\ f \in Cached \cup pending
        BY <1>1, <2>1 DEF Counts
    <2>3. IsFiniteSet(Readers(f))
        <3>1. Readers(f) \subseteq Workers
            BY DEF Readers
        <3> QED BY <3>1, FileServerAssumption, FS_Subset
    <2>4. Cardinality(Readers(f)) >= 1
        <3>1. Cardinality(Readers(f)) \in Nat /\ Cardinality(Readers(f)) # 0
            BY <2>1, <2>3, FS_CardinalityType, FS_EmptySet
        <3> QED BY <3>1
    <2>5. files[f].state = "open"
        BY <1>1, <2>2 DEF Lists, Kept
    <2> QED BY <2>1, <2>2, <2>4, <2>5
<1> QED BY <1>2, <1>3

LEMMA OpenedIs ==
    ASSUME SettingTypes, NEW version \in Versions, NEW gz \in BOOLEAN, NEW index \in BOOLEAN
    PROVE  /\ Opened(version, gz, index) \in FileType
           /\ [Opened(version, gz, index) EXCEPT !.state = "lost"] \in FileType
<1>1. Size(version, gz) \in Nat
    BY SettingIs
<1>2. <<>> \in Seq(ReaderType)
    OBVIOUS
<1> QED BY <1>1, <1>2 DEF Opened, FileType

LEMMA MoreFiles ==
    ASSUME FileTypes, SettingTypes, latest' = latest, NEW r \in FileType, files' = Append(files, r), UNCHANGED <<cache, cleaning>>
    PROVE  /\ FileTypes' /\ Len(files') = Len(files) + 1
           /\ DOMAIN files' = DOMAIN files \cup {Len(files) + 1} /\ Len(files) + 1 \notin DOMAIN files
           /\ \A f \in DOMAIN files : files'[f] = files[f]
           /\ files'[Len(files) + 1] = r
<1>1. Len(files) \in Nat /\ DOMAIN files = 1..Len(files) /\ files \in Seq(FileType)
    BY FilesAre DEF FileTypes
<1>2. files' \in Seq(FileType) /\ Len(files') = Len(files) + 1
    BY <1>1
<1>3. DOMAIN files' = 1..Len(files) + 1
    BY <1>1, <1>2
<1>4. /\ DOMAIN files' = DOMAIN files \cup {Len(files) + 1} /\ Len(files) + 1 \notin DOMAIN files
    BY <1>1, <1>3
<1>5. /\ \A f \in DOMAIN files : files'[f] = files[f]
      /\ files'[Len(files) + 1] = r
    BY <1>1
<1>6. FileTypes'
    <2>1. FileNumbers \subseteq FileNumbers'
        BY <1>1, <1>2 DEF FileNumbers
    <2> QED BY <1>1, <1>2, <1>4, <2>1, SameTypes DEF FileTypes, cleaning
<1> QED BY <1>2, <1>4, <1>5, <1>6

LEMMA ChangedFiles ==
    ASSUME FileTypes, latest' = latest, files' \in [DOMAIN files -> FileType]
    PROVE  /\ Len(files') = Len(files) /\ DOMAIN files' = DOMAIN files /\ files' \in Seq(FileType')
           /\ cache' \in [Caches -> FileNumbers] /\ pending' \subseteq DOMAIN files /\ releasing' \subseteq DOMAIN files
                 => FileTypes'
<1>1. Len(files') = Len(files) /\ DOMAIN files' = DOMAIN files /\ files' \in Seq(FileType)
    BY SameFiles DEF FileTypes
<1> QED BY <1>1, SameTypes DEF FileTypes, FileNumbers

LEMMA MadeTypes ==
    ASSUME IInv, UNCHANGED <<setting, latest, cache, cleaning>>, NEW w \in Workers,
           NEW version \in Versions, NEW gz \in BOOLEAN, NEW index \in BOOLEAN, Made(w, version, gz, index)
    PROVE  FileTypes' /\ JobTypes'
<1>0. SettingTypes /\ FileTypes /\ JobTypes /\ job[w] \in JobType /\ Len(files) \in Nat
    BY TypeParts, Before, FilesAre DEF IInv
<1>1. files' = Append(files, Opened(version, gz, index)) /\ Opened(version, gz, index) \in FileType
    BY <1>0, OpenedIs DEF Made
<1>2. FileTypes' /\ Len(files') = Len(files) + 1
    BY <1>0, <1>1, MoreFiles
<1> DEFINE r == [job[w] EXCEPT !.pc = "insert", !.file = Len(files) + 1, !.fd = None]
<1>3. job' = [job EXCEPT ![w] = r]
    BY DEF Made
<1>4. r \in JobType'
    <2>1. None \in Versions' /\ Len(files) + 1 \in FileNumbers'
        BY <1>0, <1>2, SettingIs, SameTypes DEF FileNumbers, None
    <2>2. job[w] \in JobType'
        BY <1>0, <1>2, OldJobs
    <2> QED BY <2>1, <2>2 DEF JobType
<1>5. \A v \in Workers : job[v] \in JobType'
    BY <1>0, <1>2, OldJobs
<1> QED BY <1>0, <1>2, <1>3, <1>4, <1>5 DEF JobTypes

LEMMA AnsweredTypes ==
    ASSUME IInv, UNCHANGED <<setting, latest>>, Len(files') \in Nat, Len(files) <= Len(files'), NEW w \in Workers,
           NEW status \in Statuses, Answered(w, status)
    PROVE  JobTypes'
<1>0. SettingTypes /\ FileTypes /\ JobTypes /\ job[w] \in JobType /\ Len(files) \in Nat
    BY TypeParts, Before, FilesAre DEF IInv
<1> DEFINE r == [Idle(job[w].left) EXCEPT !.status = status, !.missing = job[w].missing]
<1>1. job' = [job EXCEPT ![w] = r]
    BY DEF Answered
<1>2. job[w].left \in Nat /\ job[w].missing \in BOOLEAN
    BY <1>0 DEF JobType
<1>3. Idle(job[w].left) \in JobType' /\ \A v \in Workers : job[v] \in JobType'
    BY <1>0, <1>2, IdleIs, OldJobs
<1>4. r \in JobType'
    BY <1>2, <1>3 DEF JobType
<1> QED BY <1>0, <1>1, <1>3, <1>4 DEF JobTypes

LEMMA FailedTypes ==
    ASSUME IInv, UNCHANGED <<setting, latest, cache, cleaning>>, NEW w \in Workers, Failed(w)
    PROVE  FileTypes' /\ JobTypes'
<1>0. FileTypes /\ Len(files) \in Nat /\ files' = files
    BY TypeParts, FilesAre DEF IInv, Failed
<1>1. FileTypes'
    BY <1>0, SameTypes DEF FileTypes, FileNumbers, cleaning
<1>2. \E status \in Statuses : Answered(w, status)
    BY DEF Failed, Statuses
<1> QED BY <1>0, <1>1, <1>2, AnsweredTypes

LEMMA NewFileTypes ==
    ASSUME IInv, UNCHANGED <<setting, latest, cache, cleaning>>, NEW w \in Workers,
           NEW version \in Versions, NEW gz \in BOOLEAN, NewFile(w, version, gz)
    PROVE  FileTypes' /\ JobTypes'
<1>0. SettingTypes /\ FileTypes /\ Len(files) \in Nat
    BY TypeParts, FilesAre DEF IInv
<1>1. CASE setting.unknown
    <2>1. /\ files' = Append(files, [Opened(version, gz, FALSE) EXCEPT !.state = "lost"])
          /\ [Opened(version, gz, FALSE) EXCEPT !.state = "lost"] \in FileType
        BY <1>0, <1>1, OpenedIs DEF NewFile
    <2>2. \E status \in Statuses : Answered(w, status)
        BY <1>1 DEF NewFile, Statuses
    <2>3. FileTypes' /\ Len(files') = Len(files) + 1
        BY <1>0, <2>1, MoreFiles
    <2> QED BY <1>0, <2>2, <2>3, AnsweredTypes
<1>2. CASE ~setting.unknown
    BY <1>2, MadeTypes DEF NewFile
<1> QED BY <1>1, <1>2

LEMMA MissingTypes ==
    ASSUME IInv, UNCHANGED <<setting, latest, cache, cleaning>>, NEW w \in Workers, Missing(w)
    PROVE  FileTypes' /\ JobTypes'
<1>1. CASE Made(w, None, job[w].must, TRUE)
    <2>1. None \in Versions /\ job[w].must \in BOOLEAN
        BY Before, TypeParts, SettingIs DEF IInv, None, JobType
    <2> QED BY <1>1, <2>1, MadeTypes
<1>2. CASE Failed(w)
    BY <1>2, FailedTypes
<1> QED BY <1>1, <1>2 DEF Missing

(* A request goes on, perhaps with another descriptor. *)
LEMMA GoesTypes ==
    ASSUME IInv, UNCHANGED <<setting, latest, files, cache, cleaning>>, NEW w \in Workers, NEW r \in JobType, job' = [job EXCEPT ![w] = r]
    PROVE  FileTypes' /\ JobTypes'
<1>0. SettingTypes /\ FileTypes /\ JobTypes /\ Len(files) \in Nat
    BY TypeParts, FilesAre DEF IInv
<1>1. FileTypes'
    BY <1>0, SameTypes DEF FileTypes, FileNumbers, cleaning
<1>2. r \in JobType' /\ \A v \in Workers : job[v] \in JobType'
    BY <1>0, OldJobs
<1> QED BY <1>0, <1>1, <1>2 DEF JobTypes

(* A request that is done leaves the file that it had. *)
LEMMA LeftTypes ==
    ASSUME IInv, UNCHANGED <<setting, latest, cache, cleaning>>, NEW w \in Workers, job[w].pc \in Using,
           files' = Left(job[w].file), Finished(w) \/ \E status \in Statuses : Answered(w, status)
    PROVE  FileTypes' /\ JobTypes'
<1>0. SettingTypes /\ FileTypes /\ JobTypes /\ job[w] \in JobType /\ Len(files) \in Nat
    BY TypeParts, Before, FilesAre DEF IInv
<1> DEFINE f == job[w].file
<1>1. f \in DOMAIN files /\ files[f] \in FileType /\ files[f].count - 1 \in Nat
    <2>1. f \in DOMAIN files /\ files[f] \in FileType /\ files[f].count >= 1
        BY <1>0, Before, FilesAre
    <2>2. files[f].count \in Nat
        BY <2>1 DEF FileType
    <2> QED BY <2>1, <2>2
<1>2. [files[f] EXCEPT !.count = @ - 1] \in FileType
    BY <1>1 DEF FileType
<1>3. files' \in [DOMAIN files -> FileType]
    BY <1>0, <1>1, <1>2, FilesAre DEF Left
<1>4. FileTypes' /\ Len(files') = Len(files)
    BY <1>0, <1>3, ChangedFiles DEF FileTypes, cleaning
<1>5. Idle(job[w].left) \in JobType' /\ \A v \in Workers : job[v] \in JobType'
    <2>1. job[w].left \in Nat
        BY <1>0 DEF JobType
    <2> QED BY <1>0, <1>4, <2>1, IdleIs, OldJobs
<1>6. CASE Finished(w)
    <2>1. job' = [job EXCEPT ![w] = Idle(job[w].left)]
        BY <1>6 DEF Finished
    <2> QED BY <1>0, <1>4, <1>5, <2>1 DEF JobTypes
<1>7. CASE \E status \in Statuses : Answered(w, status)
    BY <1>0, <1>4, <1>7, AnsweredTypes
<1> QED BY <1>6, <1>7

(* A request takes a file. *)
LEMMA TakenIs ==
    ASSUME FileTypes, latest' = latest, NEW f \in DOMAIN files
    PROVE  Taken(f) \in [DOMAIN files -> FileType]
<1>1. files[f] \in FileType /\ files[f].count + 1 \in Nat
    BY FilesAre DEF FileType
<1>2. [files[f] EXCEPT !.count = @ + 1] \in FileType
    BY <1>1 DEF FileType
<1> QED BY <1>1, <1>2, FilesAre DEF Taken

LEMMA ClosedIs ==
    ASSUME FileTypes, SettingTypes, NEW fs \in [DOMAIN files -> FileType], NEW F
    PROVE  Closed(fs, F) \in [DOMAIN files -> FileType]
<1> DEFINE r(f) == [Opened(None, FALSE, FALSE) EXCEPT !.state = "closed", !.count = fs[f].count]
<1>1. Opened(None, FALSE, FALSE) \in FileType
    BY SettingIs, OpenedIs DEF None
<1>2. ASSUME NEW f \in DOMAIN files PROVE r(f) \in FileType
    BY <1>1 DEF FileType
<1>3. DOMAIN fs = DOMAIN files
    OBVIOUS
<1> DEFINE e(f) == IF f \in F THEN r(f) ELSE fs[f]
<1>4. Closed(fs, F) = [f \in DOMAIN files |-> e(f)]
    BY <1>3 DEF Closed
<1> HIDE DEF r
<1>5. ASSUME NEW f \in DOMAIN files PROVE e(f) \in FileType
    <2>1. r(f) \in FileType
        BY <1>2
    <2>2. fs[f] \in FileType
        OBVIOUS
    <2> QED BY <2>1, <2>2
<1> HIDE DEF e
<1> QED BY <1>4, <1>5

LEMMA BeginTypes ==
    ASSUME IInv, NEW w \in Workers, Begin(w)
    PROVE  FileTypes' /\ JobTypes'
<1>0. SettingTypes /\ FileTypes /\ JobTypes /\ job[w] \in JobType /\ Len(files) \in Nat /\ setting.kinds \subseteq Requests
    BY TypeParts, Before, FilesAre, SettingIs DEF IInv
<1>1. /\ UNCHANGED <<setting, latest, cache, cleaning>> /\ job[w].left > 0
      /\ job[w].left \in Nat /\ job[w].left - 1 \in Nat
    BY <1>0 DEF Begin, disk, JobType
<1> DEFINE rest == Idle(job[w].left - 1)
<1>2. PICK r \in setting.kinds :
          LET must == r.compress /\ setting.compress /\ r.range = NoRange
              name == IF must THEN "gz" ELSE "plain"
              f == cache[name]
              begun == [rest EXCEPT !.request = r, !.must = must, !.cache = name, !.missing = original = None]
          IN \/ /\ job' = [job EXCEPT ![w] = [Idle(@.left - 1) EXCEPT !.status = Refusal(r)]]
                /\ UNCHANGED files
             \/ /\ Refusal(r) = None /\ f # None
                /\ files' = Taken(f)
                /\ job' = [job EXCEPT ![w] = [begun EXCEPT !.pc = "use", !.file = f]]
             \/ /\ Refusal(r) = None /\ f = None
                /\ job' = [job EXCEPT ![w] = [begun EXCEPT !.pc = IF must THEN "openGz" ELSE "open"]]
                /\ UNCHANGED files
    BY Zenon DEF Begin
<1> DEFINE must == r.compress /\ setting.compress /\ r.range = NoRange
           name == IF must THEN "gz" ELSE "plain"
           f == cache[name]
           begun == [rest EXCEPT !.request = r, !.must = must, !.cache = name, !.missing = original = None]
<1>3. rest \in JobType /\ r \in Requests /\ Refusal(r) \in Statuses
    BY <1>0, <1>1, IdleIs DEF Refusal, Statuses
<1>4. name \in Caches /\ f \in FileNumbers
    BY <1>0 DEF FileTypes, Caches
<1>10. \/ job' = [job EXCEPT ![w] = [rest EXCEPT !.status = Refusal(r)]] /\ UNCHANGED files
       \/ f # None /\ files' = Taken(f) /\ job' = [job EXCEPT ![w] = [begun EXCEPT !.pc = "use", !.file = f]]
       \/ job' = [job EXCEPT ![w] = [begun EXCEPT !.pc = IF must THEN "openGz" ELSE "open"]] /\ UNCHANGED files
    BY <1>2
<1>11. must \in BOOLEAN /\ (original = None) \in BOOLEAN
    OBVIOUS
<1> HIDE DEF rest, must, name
<1>5. begun \in JobType
    <2>1. \A a, b \in BOOLEAN : [rest EXCEPT !.request = r, !.must = a, !.cache = name, !.missing = b] \in JobType
        BY <1>3, <1>4 DEF JobType
    <2> QED BY <2>1, <1>11, Zenon
<1> HIDE DEF f, begun
<1>6. CASE job' = [job EXCEPT ![w] = [rest EXCEPT !.status = Refusal(r)]] /\ UNCHANGED files
    <2>2. [rest EXCEPT !.status = Refusal(r)] \in JobType
        BY <1>3 DEF JobType
    <2> QED BY <1>1, <1>6, <2>2, GoesTypes
<1>7. CASE f # None /\ files' = Taken(f) /\ job' = [job EXCEPT ![w] = [begun EXCEPT !.pc = "use", !.file = f]]
    <2>1. f \in DOMAIN files
        BY <1>0, <1>4, <1>7, FilesAre DEF FileNumbers, None
    <2>2. files' \in [DOMAIN files -> FileType]
        BY <1>0, <1>1, <1>7, <2>1, TakenIs
    <2>3. FileTypes' /\ Len(files') = Len(files)
        BY <1>0, <1>1, <2>2, ChangedFiles DEF FileTypes, cleaning
    <2>4. [begun EXCEPT !.pc = "use", !.file = f] \in JobType
        BY <1>4, <1>5 DEF JobType
    <2>5. [begun EXCEPT !.pc = "use", !.file = f] \in JobType' /\ \A v \in Workers : job[v] \in JobType'
        BY <1>0, <1>1, <2>3, <2>4, OldJobs
    <2>6. PICK q \in JobType' : job' = [job EXCEPT ![w] = q]
        BY <1>7, <2>5, Zenon
    <2>7. \A v \in Workers : job[v] \in JobType'
        BY <2>5
    <2> QED BY <1>0, <2>3, <2>6, <2>7 DEF JobTypes
<1>8. CASE job' = [job EXCEPT ![w] = [begun EXCEPT !.pc = IF must THEN "openGz" ELSE "open"]] /\ UNCHANGED files
    <2>1. [begun EXCEPT !.pc = IF must THEN "openGz" ELSE "open"] \in JobType
        <3>1. \A place \in {"openGz", "open"} : [begun EXCEPT !.pc = place] \in JobType
            BY <1>5 DEF JobType
        <3> QED BY <3>1
    <2> QED BY <1>1, <1>8, <2>1, GoesTypes
<1> QED BY <1>10, <1>6, <1>7, <1>8

(* The steps from the lookup to the new file. *)
LEMMA OpeningTypes ==
    ASSUME IInv, NEW w \in Workers,
           \/ Open(w) \/ OpenGz(w) \/ Compare(w) \/ RemoveStale(w) \/ OpenOriginal(w) \/ Lock(w)
           \/ Rename(w) \/ OpenNew(w)
    PROVE  FileTypes' /\ JobTypes'
<1>0. /\ SettingTypes /\ FileTypes /\ JobTypes /\ job[w] \in JobType
      /\ original \in Versions /\ compressed \in Versions /\ job[w].fd \in Versions /\ job[w].must \in BOOLEAN
    BY TypeParts, Before DEF IInv, SettingTypes, JobType
<1>1. UNCHANGED <<setting, latest, cache, cleaning>>
    BY DEF Open, OpenGz, Compare, RemoveStale, OpenOriginal, Lock, Rename, OpenNew, disk
<1>2. ASSUME NEW place \in {"compress", "remove", "openNew", "rename", "lock", "compare"}, UNCHANGED files, Goes(w, place)
      PROVE  FileTypes' /\ JobTypes'
    <2>1. [job[w] EXCEPT !.pc = place] \in JobType
        BY <1>0 DEF JobType
    <2>2. job' = [job EXCEPT ![w] = [job[w] EXCEPT !.pc = place]]
        BY <1>2 DEF Goes
    <2> QED BY <1>1, <1>2, <2>1, <2>2, GoesTypes
<1>3. ASSUME NEW place \in {"lock", "compare"}, NEW version \in Versions, UNCHANGED files,
             job' = [job EXCEPT ![w].pc = place, ![w].fd = version]
      PROVE  FileTypes' /\ JobTypes'
    <2>1. [job[w] EXCEPT !.pc = place, !.fd = version] \in JobType
        BY <1>0 DEF JobType
    <2>2. job' = [job EXCEPT ![w] = [job[w] EXCEPT !.pc = place, !.fd = version]]
        BY <1>3
    <2> QED BY <1>1, <1>3, <2>1, <2>2, GoesTypes
<1>4. ASSUME UNCHANGED files, job' = [job EXCEPT ![w].pc = "open", ![w].must = FALSE, ![w].fd = None]
      PROVE  FileTypes' /\ JobTypes'
    <2>1. [job[w] EXCEPT !.pc = "open", !.must = FALSE, !.fd = None] \in JobType
        <3>1. None \in Versions
            BY <1>0, SettingIs DEF None
        <3> QED BY <1>0, <3>1 DEF JobType
    <2>2. job' = [job EXCEPT ![w] = [job[w] EXCEPT !.pc = "open", !.must = FALSE, !.fd = None]]
        BY <1>4
    <2> QED BY <1>1, <1>4, <2>1, <2>2, GoesTypes
<1>5. CASE Open(w)
    BY <1>0, <1>1, <1>5, MissingTypes, NewFileTypes DEF Open
<1>6. CASE OpenGz(w)
    BY <1>0, <1>2, <1>3, <1>6 DEF OpenGz
<1>7. CASE Compare(w)
    BY <1>0, <1>1, <1>2, <1>7, FailedTypes, NewFileTypes DEF Compare
<1>8. CASE RemoveStale(w)
    BY <1>2, <1>8 DEF RemoveStale
<1>9. CASE OpenOriginal(w)
    BY <1>0, <1>1, <1>3, <1>9, MissingTypes, NewFileTypes DEF OpenOriginal
<1>10. CASE Lock(w)
    BY <1>0, <1>1, <1>2, <1>4, <1>10, FailedTypes DEF Lock
<1>11. CASE Rename(w)
    BY <1>2, <1>11 DEF Rename
<1>12. CASE OpenNew(w)
    BY <1>0, <1>1, <1>12, FailedTypes, NewFileTypes DEF OpenNew
<1> QED BY <1>5, <1>6, <1>7, <1>8, <1>9, <1>10, <1>11, <1>12

LEMMA InsertTypes ==
    ASSUME IInv, NEW w \in Workers, Insert(w)
    PROVE  FileTypes' /\ JobTypes'
<1>0. /\ SettingTypes /\ FileTypes /\ JobTypes /\ job[w] \in JobType /\ Len(files) \in Nat
      /\ job[w].pc = "insert" /\ job[w].file \in DOMAIN files /\ job[w].cache \in Caches
      /\ UNCHANGED <<setting, latest, cleaning>>
    BY TypeParts, Before, FilesAre DEF IInv, Insert, JobType, disk
<1> DEFINE f == job[w].file
           other == cache[job[w].cache]
<1>1. f \in FileNumbers /\ other \in FileNumbers /\ (other # None => other \in DOMAIN files)
    BY <1>0, FilesAre DEF FileNumbers, FileTypes
<1>2. CASE other = None
    <2>1. /\ files' = Taken(f) /\ cache' = [cache EXCEPT ![job[w].cache] = f] /\ Goes(w, "use")
        BY <1>2 DEF Insert
    <2>2. files' \in [DOMAIN files -> FileType] /\ cache' \in [Caches -> FileNumbers]
        BY <1>0, <1>1, <2>1, TakenIs DEF FileTypes
    <2>3. FileTypes' /\ Len(files') = Len(files)
        BY <1>0, <2>2, ChangedFiles DEF FileTypes, cleaning
    <2>4. [job[w] EXCEPT !.pc = "use"] \in JobType
        BY <1>0 DEF JobType
    <2>5. [job[w] EXCEPT !.pc = "use"] \in JobType' /\ \A v \in Workers : job[v] \in JobType'
        BY <1>0, <2>3, <2>4, OldJobs
    <2> QED BY <1>0, <2>1, <2>3, <2>5 DEF JobTypes, Goes
<1>3. CASE other # None
    <2>1. /\ files' = Closed(Taken(other), {f}) /\ UNCHANGED cache
          /\ job' = [job EXCEPT ![w].pc = "use", ![w].file = other]
        BY <1>3 DEF Insert, Loser
    <2>2. files' \in [DOMAIN files -> FileType]
        BY <1>0, <1>1, <1>3, <2>1, TakenIs, ClosedIs
    <2>3. FileTypes' /\ Len(files') = Len(files)
        BY <1>0, <2>1, <2>2, ChangedFiles DEF FileTypes, cleaning
    <2>4. [job[w] EXCEPT !.pc = "use", !.file = other] \in JobType
        BY <1>0, <1>1 DEF JobType
    <2>5. [job[w] EXCEPT !.pc = "use", !.file = other] \in JobType' /\ \A v \in Workers : job[v] \in JobType'
        BY <1>0, <2>3, <2>4, OldJobs
    <2> QED BY <1>0, <2>1, <2>3, <2>5 DEF JobTypes
<1> QED BY <1>2, <1>3

LEMMA RangeIs ==
    ASSUME NEW range \in [kind : RangeKinds, first : Nat, last : Nat], NEW n \in Nat
    PROVE  \/ ParseByteRange(range, n) = RangeError
           \/ \E from \in Nat, to \in Int : ParseByteRange(range, n) = [from |-> from, to |-> to]
<1>1. range.first \in Nat /\ range.last \in Nat
    OBVIOUS
<1> DEFINE to == IF range.kind = "both" THEN Least(range.last, n - 1) ELSE n - 1
           from == IF range.kind = "suffix" THEN n - Least(range.last, n) ELSE range.first
<1>2. to \in Int /\ from \in Nat
    BY <1>1 DEF Least
<1>3. ParseByteRange(range, n) = RangeError \/ ParseByteRange(range, n) = [from |-> from, to |-> to]
    BY DEF ParseByteRange
<1> QED BY <1>2, <1>3

LEMMA ContentIs ==
    ASSUME SettingTypes, NEW version \in Versions, NEW gz \in BOOLEAN
    PROVE  /\ Content(version, gz) \in Piece /\ Len(Content(version, gz)) = Size(version, gz)
           /\ Size(version, gz) \in Nat
           /\ \A k \in 1..Size(version, gz) : Content(version, gz)[k] = <<version, gz, k>>
<1>1. Size(version, gz) \in Nat
    BY SettingIs
<1>2. Content(version, gz) \in [1..Size(version, gz) -> Versions \X BOOLEAN \X (Nat \ {0})]
    BY <1>1 DEF Content
<1> QED BY <1>1, <1>2 DEF Piece, Content

(* What Send reads: where it begins and ends, and what of the content lies there. *)
Ranged(j) == setting.acceptByteRange /\ j.request.range # NoRange
At(j) ==
    IF Ranged(j) THEN ParseByteRange(j.request.range, files[j.file].length)
    ELSE [from |-> j.reader.from, to |-> files[j.file].length - 1]
PieceOf(j) ==
    LET there == Content(j.reader.version, j.reader.gz)
    IN SubSeq(there, At(j).from + 1, Least(At(j).to + 1, Len(there)))
ReaderAt(j) == IF Ranged(j) THEN [j.reader EXCEPT !.from = At(j).from, !.to = At(j).to] ELSE j.reader

LEMMA AtIs ==
    ASSUME NEW j \in JobType, files[j.file].length \in Nat
    PROVE  \/ At(j) = RangeError
           \/ \E from \in Nat, to \in Int : At(j) = [from |-> from, to |-> to]
<1>1. j.reader.from \in Nat
    BY DEF JobType, ReaderType
<1>2. CASE Ranged(j)
    <2>1. j.request \in Requests
        <3>1. j.request \in Requests \cup {NoRequest}
            BY DEF JobType
        <3>2. NoRequest.range = NoRange
            BY DEF NoRequest
        <3> QED BY <1>2, <3>1, <3>2 DEF Ranged
    <2>2. j.request.range \in [kind : RangeKinds, first : Nat, last : Nat]
        BY <1>2, <2>1, FileServerAssumption DEF Ranged
    <2> QED BY <1>2, <2>2, RangeIs DEF At
<1>3. CASE ~Ranged(j)
    <2>1. At(j) = [from |-> j.reader.from, to |-> files[j.file].length - 1]
        BY <1>3 DEF At
    <2>2. files[j.file].length - 1 \in Int
        OBVIOUS
    <2> QED BY <1>1, <2>1, <2>2
<1> QED BY <1>2, <1>3

EndAt(j, to) == Least(to + 1, Size(j.reader.version, j.reader.gz))

LEMMA PieceIs ==
    ASSUME SettingTypes, NEW j \in JobType, NEW from \in Nat, NEW to \in Int, At(j).from = from, At(j).to = to
    PROVE  /\ PieceOf(j) \in Piece /\ Size(j.reader.version, j.reader.gz) \in Nat /\ EndAt(j, to) \in Int
           /\ Len(PieceOf(j)) = IF from + 1 <= EndAt(j, to) THEN EndAt(j, to) - from ELSE 0
           /\ \A k \in 1..EndAt(j, to) - from : PieceOf(j)[k] = <<j.reader.version, j.reader.gz, from + k>>
<1> DEFINE size == Size(j.reader.version, j.reader.gz)
           end == EndAt(j, to)
           there == Content(j.reader.version, j.reader.gz)
           elements == Versions \X BOOLEAN \X (Nat \ {0})
<1>1. j.reader.version \in Versions /\ j.reader.gz \in BOOLEAN
    BY DEF JobType, ReaderType
<1>2. there \in Seq(elements) /\ Len(there) = size /\ size \in Nat
      /\ \A k \in 1..size : there[k] = <<j.reader.version, j.reader.gz, k>>
    BY <1>1, ContentIs DEF Piece
<1>3. PieceOf(j) = SubSeq(there, from + 1, end)
    <2>1. At(j).from = from /\ At(j).to = to
        OBVIOUS
    <2>2. PieceOf(j) = SubSeq(there, At(j).from + 1, Least(At(j).to + 1, Len(there)))
        BY Zenon DEF PieceOf
    <2> QED BY <1>2, <2>1, <2>2, Zenon DEF EndAt
<1>4. end \in Int /\ end <= size
    BY <1>2 DEF Least, EndAt
<1> HIDE DEF size, end, there
<1>5. \A i \in (from + 1)..end : i \in 1..size /\ there[i] \in elements
    <2>0. size \in Nat
        BY <1>2
    <2>1. ASSUME NEW i \in (from + 1)..end PROVE i \in 1..size
        BY <2>0, <1>4
    <2> HIDE DEF elements
    <2> QED BY <1>2, <2>1
<1> HIDE DEF elements
<1>6. /\ SubSeq(there, from + 1, end) \in Seq(elements)
      /\ Len(SubSeq(there, from + 1, end)) = IF from + 1 <= end THEN end - (from + 1) + 1 ELSE 0
      /\ \A i \in 1..end - (from + 1) + 1 : SubSeq(there, from + 1, end)[i] = there[from + 1 + i - 1]
    <2>1. from + 1 \in Int /\ \A i \in (from + 1)..end : there[i] \in elements
        BY <1>5
    <2> QED BY <1>4, <2>1, SubSeqProperties
<1>7. end - (from + 1) + 1 = end - from
    BY <1>4
<1>8. ASSUME NEW k \in 1..end - from PROVE PieceOf(j)[k] = <<j.reader.version, j.reader.gz, from + k>>
    <2>1. from + 1 + k - 1 = from + k /\ from + k \in (from + 1)..end
        BY <1>4
    <2>2. PieceOf(j)[k] = there[from + k]
        BY <1>3, <1>6, <1>7, <2>1
    <2> QED BY <1>2, <1>5, <2>1, <2>2
<1>9. Seq(elements) = Piece
    BY DEF elements, Piece
<1> QED BY <1>2, <1>3, <1>4, <1>6, <1>7, <1>8, <1>9 DEF size, end

(* What Send does: a refusal, or a piece. *)
Refuses(w, status) == job' = [job EXCEPT ![w] = [job[w] EXCEPT !.pc = "close", !.status = status]]
SendsPiece(w, piece, status) ==
    /\ At(job[w]) # RangeError
    /\ piece \in {<<>>, PieceOf(job[w])} /\ status \in {200, 206}
    /\ job[w].request.head => piece = <<>>
    /\ job' = [job EXCEPT ![w] = [job[w] EXCEPT !.pc = "close", !.status = status, !.body = piece,
                                                !.reader = [ReaderAt(job[w]) EXCEPT !.from = @ + Len(piece)]]]

LEMMA SendIs ==
    ASSUME NEW w \in Workers, Send(w)
    PROVE  /\ job[w].pc = "send"
           /\ UNCHANGED <<setting, original, latest, compressed, fileLock, files, cache, pending, releasing>>
           /\ \/ Refuses(w, 416) \/ Refuses(w, 500)
              \/ \E piece, status : SendsPiece(w, piece, status)
<1> DEFINE j == job[w]
<1>1. /\ j.pc = "send"
      /\ UNCHANGED <<setting, original, latest, compressed, fileLock, files, cache, pending, releasing>>
    <2>1. j.pc = "send" /\ UNCHANGED <<disk, files, cache, cleaning>>
        BY Zenon DEF Send
    <2> QED BY <2>1 DEF disk, cleaning
<1>2. \/ Refuses(w, 416) \/ Refuses(w, 500)
      \/ /\ At(j) # RangeError
         /\ \E piece \in {<<>>, PieceOf(j)} :
               /\ j.request.head => piece = <<>>
               /\ job' = [job EXCEPT ![w] = [j EXCEPT !.pc = "close", !.status = IF Ranged(j) THEN 206 ELSE 200, !.body = piece,
                                                      !.reader = [ReaderAt(j) EXCEPT !.from = @ + Len(piece)]]]
    BY Zenon DEF Send, At, PieceOf, ReaderAt, Ranged, Refuses
<1>3. CASE ~(Refuses(w, 416) \/ Refuses(w, 500))
    <2>1. At(j) # RangeError
        BY <1>2, <1>3
    <2>2. PICK piece \in {<<>>, PieceOf(j)} :
               /\ j.request.head => piece = <<>>
               /\ job' = [job EXCEPT ![w] = [j EXCEPT !.pc = "close", !.status = IF Ranged(j) THEN 206 ELSE 200, !.body = piece,
                                                      !.reader = [ReaderAt(j) EXCEPT !.from = @ + Len(piece)]]]
        BY <1>2, <1>3, Zenon
    <2>3. PICK status \in {200, 206} : status = IF Ranged(j) THEN 206 ELSE 200
        OBVIOUS
    <2>4. job' = [job EXCEPT ![w] = [j EXCEPT !.pc = "close", !.status = status, !.body = piece,
                                              !.reader = [ReaderAt(j) EXCEPT !.from = @ + Len(piece)]]]
        BY <2>2, <2>3, Zenon
    <2>5. SendsPiece(w, piece, status)
        BY <2>1, <2>2, <2>4, Zenon DEF SendsPiece
    <2> QED BY <1>1, <2>5, Zenon
<1> QED BY <1>1, <1>3, Zenon

LEMMA SendTypes ==
    ASSUME IInv, NEW w \in Workers, Send(w)
    PROVE  FileTypes' /\ JobTypes'
<1> DEFINE j == job[w]
<1>0. /\ SettingTypes /\ FileTypes /\ JobTypes /\ j \in JobType /\ UNCHANGED <<setting, latest, files, cache, cleaning>>
      /\ j.pc = "send" /\ files[j.file].length \in Nat
    <2>0. j.pc = "send" /\ UNCHANGED <<setting, latest, files, cache, cleaning>>
        BY SendIs DEF cleaning
    <2>1. j.file \in DOMAIN files
        BY <2>0, Before DEF Using
    <2>2. SettingTypes /\ FileTypes /\ JobTypes /\ j \in JobType
        BY TypeParts, Before DEF IInv
    <2>3. files[j.file] \in FileType
        BY <2>1, <2>2, FilesAre
    <2> QED BY <2>0, <2>2, <2>3 DEF FileType
<1>1. j.reader \in ReaderType /\ 416 \in Statuses /\ 500 \in Statuses /\ {200, 206} \subseteq Statuses
    BY <1>0 DEF JobType, Statuses
<1>2. ASSUME NEW status \in Statuses, Refuses(w, status)
      PROVE  FileTypes' /\ JobTypes'
    <2>1. [j EXCEPT !.pc = "close", !.status = status] \in JobType
        BY <1>0 DEF JobType
    <2>2. job' = [job EXCEPT ![w] = [j EXCEPT !.pc = "close", !.status = status]]
        BY <1>2 DEF Refuses
    <2> QED BY <1>0, <2>1, <2>2, GoesTypes
<1>3. ASSUME NEW piece, NEW status, SendsPiece(w, piece, status)
      PROVE  FileTypes' /\ JobTypes'
    <2>0. At(j) # RangeError /\ piece \in {<<>>, PieceOf(j)} /\ status \in Statuses
        BY <1>1, <1>3 DEF SendsPiece
    <2>1. PICK from \in Nat, to \in Int : At(j) = [from |-> from, to |-> to]
        BY <1>0, <2>0, AtIs
    <2>2. piece \in Piece /\ Len(piece) \in Nat
        <3>1. PieceOf(j) \in Piece /\ <<>> \in Piece
            <4>1. At(j).from = from /\ At(j).to = to
                BY <2>1
            <4> QED BY <1>0, <4>1, PieceIs DEF Piece
        <3>2. piece \in Seq(Versions \X BOOLEAN \X (Nat \ {0}))
            BY <2>0, <3>1 DEF Piece
        <3> QED BY <3>2, LenProperties DEF Piece
    <2>3. ReaderAt(j) \in ReaderType
        <3>1. At(j).from = from /\ At(j).to = to
            BY <2>1
        <3>2. [j.reader EXCEPT !.from = from, !.to = to] \in ReaderType
            BY <1>1 DEF ReaderType
        <3> QED BY <1>1, <3>1, <3>2 DEF ReaderAt
    <2>4. [ReaderAt(j) EXCEPT !.from = @ + Len(piece)] \in ReaderType
        BY <2>2, <2>3 DEF ReaderType
    <2>5. PICK reader \in ReaderType : reader = [ReaderAt(j) EXCEPT !.from = @ + Len(piece)]
        BY <2>4
    <2>6. [j EXCEPT !.pc = "close", !.status = status, !.body = piece, !.reader = reader] \in JobType
        BY <1>0, <2>0, <2>2 DEF JobType
    <2>7. job' = [job EXCEPT ![w] = [j EXCEPT !.pc = "close", !.status = status, !.body = piece, !.reader = reader]]
        BY <1>3, <2>5, Zenon DEF SendsPiece
    <2> QED BY <1>0, <2>6, <2>7, GoesTypes
<1> QED BY <1>1, <1>2, <1>3, SendIs, Zenon

LEMMA ReaderIs ==
    ASSUME NEW version \in Versions, NEW gz \in BOOLEAN, NEW length \in Nat
    PROVE  Reader(version, gz, length) \in ReaderType
BY DEF Reader, ReaderType

LEMMA ReadsTypes ==
    ASSUME IInv, UNCHANGED <<setting, latest, cache, cleaning>>, NEW w \in Workers, NEW reader \in ReaderType,
           files' \in [DOMAIN files -> FileType], Reads(w, reader)
    PROVE  FileTypes' /\ JobTypes'
<1>0. SettingTypes /\ FileTypes /\ JobTypes /\ job[w] \in JobType /\ Len(files) \in Nat
    BY TypeParts, Before, FilesAre DEF IInv
<1>1. FileTypes' /\ Len(files') = Len(files)
    BY <1>0, ChangedFiles DEF FileTypes, cleaning
<1>2. [job[w] EXCEPT !.pc = "send", !.reader = reader] \in JobType
    BY <1>0 DEF JobType
<1>3. [job[w] EXCEPT !.pc = "send", !.reader = reader] \in JobType' /\ \A v \in Workers : job[v] \in JobType'
    BY <1>0, <1>1, <1>2, OldJobs
<1>4. job' = [job EXCEPT ![w] = [job[w] EXCEPT !.pc = "send", !.reader = reader]]
    BY DEF Reads
<1> QED BY <1>0, <1>1, <1>3, <1>4 DEF JobTypes

(* The readers that a file keeps. *)
LEMMA IdleReaders ==
    ASSUME FileTypes, NEW f \in DOMAIN files, NEW idle \in Seq(ReaderType)
    PROVE  [files EXCEPT ![f].idle = idle] \in [DOMAIN files -> FileType]
<1>1. files[f] \in FileType
    BY FilesAre
<1>2. [files[f] EXCEPT !.idle = idle] \in FileType
    BY <1>1 DEF FileType
<1> QED BY <1>2, FilesAre

LEMMA FrontIs ==
    ASSUME NEW S, NEW s \in Seq(S), s # <<>>
    PROVE  /\ Last(s) \in S /\ Last(s) = s[Len(s)] /\ Len(s) \in DOMAIN s
           /\ Front(s) \in Seq(S) /\ Len(Front(s)) = Len(s) - 1
           /\ \A i \in DOMAIN Front(s) : i \in DOMAIN s /\ Front(s)[i] = s[i]
<1>1. Len(s) \in Nat /\ Len(s) # 0 /\ \A i \in 1..Len(s) : s[i] \in S
    BY EmptySeq
<1>2. \A i \in 1..(Len(s) - 1) : s[i] \in S
    BY <1>1
<1>3. Len(s) - 1 \in Int /\ Len(s) - 1 - 1 + 1 = Len(s) - 1
    BY <1>1
<1>4. /\ SubSeq(s, 1, Len(s) - 1) \in Seq(S)
      /\ Len(SubSeq(s, 1, Len(s) - 1)) = IF 1 <= Len(s) - 1 THEN Len(s) - 1 - 1 + 1 ELSE 0
      /\ \A i \in 1..(Len(s) - 1 - 1 + 1) : SubSeq(s, 1, Len(s) - 1)[i] = s[1 + i - 1]
    BY <1>2, <1>3, SubSeqProperties
<1>5. Len(Front(s)) = Len(s) - 1 /\ Front(s) \in Seq(S)
    <2>1. Front(s) = SubSeq(s, 1, Len(s) - 1)
        BY DEF Front
    <2>2. \A n \in Nat : n # 0 => (IF 1 <= n - 1 THEN n - 1 - 1 + 1 ELSE 0) = n - 1
        OBVIOUS
    <2> QED BY <1>1, <1>4, <2>1, <2>2
<1>6. ASSUME NEW i \in DOMAIN Front(s) PROVE i \in DOMAIN s /\ Front(s)[i] = s[i]
    <2>1. i \in 1..(Len(s) - 1)
        BY <1>5
    <2>2. 1 + i - 1 = i /\ i \in 1..Len(s)
        BY <1>1, <2>1
    <2> QED BY <1>3, <1>4, <2>1, <2>2 DEF Front
<1> QED BY <1>1, <1>5, <1>6 DEF Last

LEMMA UseTypes ==
    ASSUME IInv, NEW w \in Workers, Use(w)
    PROVE  FileTypes' /\ JobTypes'
<1> DEFINE f == job[w].file
           idle == files[f].idle
<1>0. /\ SettingTypes /\ FileTypes /\ JobTypes /\ job[w] \in JobType /\ f \in DOMAIN files /\ files[f] \in FileType
      /\ job[w].pc = "use" /\ UNCHANGED <<setting, latest, cache, cleaning>>
    BY TypeParts, Before, FilesAre DEF IInv, Use, Using, disk
<1>1. files[f].version \in Versions /\ files[f].gz \in BOOLEAN /\ files[f].length \in Nat /\ idle \in Seq(ReaderType)
    BY <1>0 DEF FileType
<1>2. files \in [DOMAIN files -> FileType]
    BY <1>0 DEF FileTypes
<1>3. CASE NotModified(w)
    BY <1>0, <1>3, LeftTypes DEF NotModified, Using, Statuses
<1>4. CASE Reads(w, Reader(files[f].version, files[f].gz, files[f].length)) /\ UNCHANGED files
    BY <1>0, <1>1, <1>2, <1>4, ReaderIs, ReadsTypes
<1>5. CASE Goes(w, "reopen") /\ UNCHANGED files
    <2>1. [job[w] EXCEPT !.pc = "reopen"] \in JobType
        BY <1>0 DEF JobType
    <2> QED BY <1>0, <1>5, <2>1, GoesTypes DEF Goes
<1>6. CASE idle # <<>> /\ files' = [files EXCEPT ![f].idle = Front(@)] /\ Reads(w, Last(idle))
    <2>1. Last(idle) \in ReaderType /\ Front(idle) \in Seq(ReaderType)
        BY <1>1, <1>6, FrontIs
    <2>2. files' \in [DOMAIN files -> FileType]
        BY <1>0, <1>6, <2>1, IdleReaders
    <2> QED BY <1>0, <1>6, <2>1, <2>2, ReadsTypes
<1> QED BY <1>3, <1>4, <1>5, <1>6 DEF Use

LEMMA ReopenTypes ==
    ASSUME IInv, NEW w \in Workers, Reopen(w)
    PROVE  FileTypes' /\ JobTypes'
<1> DEFINE f == job[w].file
           gz == files[f].gz
           there == IF gz THEN compressed ELSE original
<1>0. /\ SettingTypes /\ FileTypes /\ JobTypes /\ job[w] \in JobType /\ f \in DOMAIN files /\ files[f] \in FileType
      /\ job[w].pc = "reopen" /\ UNCHANGED <<setting, latest, cache, cleaning>>
    BY TypeParts, Before, FilesAre DEF IInv, Reopen, Using, disk
<1>1. CASE files' = Left(f) /\ Answered(w, 500)
    BY <1>0, <1>1, LeftTypes DEF Using, Statuses
<1>2. CASE Reads(w, Reader(there, gz, Size(there, gz))) /\ UNCHANGED files
    <2>1. there \in Versions /\ gz \in BOOLEAN
        BY <1>0 DEF SettingTypes, FileType
    <2>2. Size(there, gz) \in Nat
        BY <1>0, <2>1, SettingIs
    <2>3. files \in [DOMAIN files -> FileType]
        BY <1>0 DEF FileTypes
    <2> QED BY <1>0, <1>2, <2>1, <2>2, <2>3, ReaderIs, ReadsTypes
<1> QED BY <1>1, <1>2 DEF Reopen

(* A reader is closed, and the answer may become an error. *)
LEMMA CloseIs ==
    ASSUME NEW w \in Workers, Close(w)
    PROVE  \E status \in {job[w].status, 500} :
              job' = [job EXCEPT ![w] = [job[w] EXCEPT !.pc = "leave", !.reader = NoReader, !.status = status]]
BY DEF Close

LEMMA CloseTypes ==
    ASSUME IInv, NEW w \in Workers, Close(w)
    PROVE  FileTypes' /\ JobTypes'
<1> DEFINE f == job[w].file
           idle == files[f].idle
           reader == job[w].reader
<1>0. /\ SettingTypes /\ FileTypes /\ JobTypes /\ job[w] \in JobType /\ f \in DOMAIN files /\ files[f] \in FileType
      /\ job[w].pc = "close" /\ UNCHANGED <<setting, latest, cache, cleaning>>
    BY TypeParts, Before, FilesAre DEF IInv, Close, Using, disk
<1>1. files' \in [DOMAIN files -> FileType]
    <2>1. CASE UNCHANGED files
        BY <1>0, <2>1 DEF FileTypes
    <2>2. CASE files' = [files EXCEPT ![f].idle = Append(@, Rewound(reader))]
        <3>1. reader \in ReaderType /\ idle \in Seq(ReaderType)
            BY <1>0 DEF JobType, FileType
        <3>2. Size(reader.version, reader.gz) \in Nat
            BY <1>0, <3>1, SettingIs DEF ReaderType
        <3>3. Rewound(reader) \in ReaderType
            <4>1. Size(reader.version, reader.gz) - 1 \in Int
                BY <3>2
            <4>2. \A to \in Int : [reader EXCEPT !.from = 0, !.to = to] \in ReaderType
                BY <3>1 DEF ReaderType
            <4> QED BY <4>1, <4>2 DEF Rewound
        <3>4. Append(idle, Rewound(reader)) \in Seq(ReaderType)
            BY <3>1, <3>3
        <3> QED BY <1>0, <2>2, <3>4, IdleReaders
    <2> QED BY <2>1, <2>2 DEF Close
<1>2. FileTypes' /\ Len(files') = Len(files) /\ Len(files) \in Nat
    BY <1>0, <1>1, ChangedFiles, FilesAre DEF FileTypes, cleaning
<1>3. PICK status \in {job[w].status, 500} :
          job' = [job EXCEPT ![w] = [job[w] EXCEPT !.pc = "leave", !.reader = NoReader, !.status = status]]
    BY CloseIs
<1> DEFINE r == [job[w] EXCEPT !.pc = "leave", !.reader = NoReader, !.status = status]
<1>4. r \in JobType
    <2>1. NoReader \in ReaderType
        BY <1>0, SettingIs DEF NoReader, ReaderType, None
    <2>2. status \in Statuses
        BY <1>0 DEF JobType, Statuses
    <2> QED BY <1>0, <2>1, <2>2 DEF JobType
<1>5. r \in JobType' /\ \A v \in Workers : job[v] \in JobType'
    BY <1>0, <1>2, <1>4, OldJobs
<1> QED BY <1>0, <1>2, <1>3, <1>5 DEF JobTypes

LEMMA LeaveTypes ==
    ASSUME IInv, NEW w \in Workers, Leave(w)
    PROVE  FileTypes' /\ JobTypes'
BY LeftTypes DEF Leave, Using, disk

(* The cleaning goroutine, and the disk. *)
LEMMA CleaningTypes ==
    ASSUME IInv, (\E f \in Cached : Expire(f)) \/ Clean \/ Release
    PROVE  FileTypes' /\ JobTypes'
<1>0. /\ SettingTypes /\ FileTypes /\ JobTypes /\ Len(files) \in Nat /\ UNCHANGED <<setting, latest, job>>
      /\ files \in [DOMAIN files -> FileType]
    <2>1. UNCHANGED <<setting, latest, job>>
        BY DEF Expire, Clean, Release, disk
    <2> QED BY <2>1, TypeParts, FilesAre DEF IInv, FileTypes
<1>1. ASSUME NEW f \in Cached, Expire(f)
      PROVE  files' \in [DOMAIN files -> FileType] /\ UNCHANGED <<cache, pending, releasing>>
    <2>1. f \in DOMAIN files /\ files[f] \in FileType
        BY <1>0, FilesAre DEF Kept
    <2>2. [files[f] EXCEPT !.old = TRUE] \in FileType
        BY <2>1 DEF FileType
    <2>3. files' = [files EXCEPT ![f] = [files[f] EXCEPT !.old = TRUE]] /\ UNCHANGED <<cache, pending, releasing>>
        BY <1>1 DEF Expire, cleaning
    <2> QED BY <1>0, <2>1, <2>2, <2>3
<1>2. ASSUME Clean
      PROVE  /\ UNCHANGED files /\ pending' \subseteq DOMAIN files /\ releasing' \subseteq DOMAIN files
             /\ cache' \in [Caches -> FileNumbers]
    <2> DEFINE all == pending \cup {f \in Cached : files[f].old}
    <2>1. all \subseteq DOMAIN files
        BY <1>0, FilesAre DEF Kept
    <2>2. /\ UNCHANGED files /\ pending' \subseteq all /\ releasing' \subseteq all
          /\ cache' = [c \in Caches |-> IF cache[c] \in all THEN None ELSE cache[c]]
        BY <1>2 DEF Clean
    <2>3. None \in FileNumbers /\ \A c \in Caches : cache[c] \in FileNumbers
        BY <1>0 DEF FileTypes, FileNumbers, None
    <2> HIDE DEF all
    <2> QED BY <2>1, <2>2, <2>3
<1>3. ASSUME Release
      PROVE  /\ files' \in [DOMAIN files -> FileType] /\ UNCHANGED <<cache, pending>> /\ releasing' = {}
    BY <1>0, <1>3, ClosedIs DEF Release
<1>4. /\ files' \in [DOMAIN files -> FileType] /\ pending' \subseteq DOMAIN files /\ releasing' \subseteq DOMAIN files
      /\ cache' \in [Caches -> FileNumbers]
    BY <1>0, <1>1, <1>2, <1>3 DEF FileTypes
<1>5. FileTypes' /\ Len(files') = Len(files)
    BY <1>0, <1>4, ChangedFiles
<1>6. \A v \in Workers : job[v] \in JobType'
    BY <1>0, <1>5, OldJobs
<1> QED BY <1>0, <1>5, <1>6 DEF JobTypes

LEMMA ReplaceTypes ==
    ASSUME IInv, Replace
    PROVE  SettingTypes' /\ FileTypes' /\ JobTypes' /\ Versions \subseteq Versions' /\ latest' = latest + 1
<1>0. SettingTypes /\ FileTypes /\ JobTypes /\ latest \in Nat \ {0} /\ setting.versions \in Nat /\ UNCHANGED <<setting, files, cache, cleaning>>
    BY TypeParts, SettingIs DEF IInv, Replace
<1>1. latest' = latest + 1 /\ latest < setting.versions
    BY DEF Replace
<1>2. Versions \subseteq Versions' /\ 0 \in Versions' /\ latest' \in Versions'
    BY <1>0, <1>1 DEF Versions
<1>3. SettingTypes'
    <2>1. original' \in Versions' /\ compressed' \in Versions' /\ UNCHANGED fileLock
        BY <1>0, <1>2 DEF Replace, SettingTypes, None
    <2> QED BY <1>0, <1>1, <2>1 DEF SettingTypes
<1>4. ReaderType \subseteq ReaderType'
    BY <1>2 DEF ReaderType
<1>5. FileType \subseteq FileType'
    <2>1. Seq(ReaderType) \subseteq Seq(ReaderType')
        BY <1>4, SeqMonotonic
    <2>2. ASSUME NEW r \in FileType PROVE r \in FileType'
        BY <1>2, <2>1 DEF FileType
    <2> QED BY <2>2
<1>6. FileTypes'
    <2>1. Seq(FileType) \subseteq Seq(FileType')
        BY <1>5, SeqMonotonic
    <2> QED BY <1>0, <2>1 DEF FileTypes, FileNumbers, cleaning
<1>7. JobType \subseteq JobType'
    <2>1. Piece \subseteq Piece'
        <3>1. Versions \X BOOLEAN \X (Nat \ {0}) \subseteq Versions' \X BOOLEAN \X (Nat \ {0})
            BY <1>2
        <3> QED BY <3>1, SeqMonotonic DEF Piece
    <2>2. FileNumbers' = FileNumbers
        BY <1>0 DEF FileNumbers
    <2>3. ASSUME NEW r \in JobType PROVE r \in JobType'
        BY <1>2, <1>4, <2>1, <2>2 DEF JobType
    <2> QED BY <2>3
<1>8. JobTypes'
    <2>1. CASE UNCHANGED job
        BY <1>0, <1>7, <2>1 DEF JobTypes
    <2>2. CASE job' = [w \in Workers |-> [job[w] EXCEPT !.missing = TRUE]]
        <3>1. ASSUME NEW w \in Workers PROVE [job[w] EXCEPT !.missing = TRUE] \in JobType
            BY <1>0 DEF JobTypes, JobType
        <3>2. job' \in [Workers -> JobType]
            BY <2>2, <3>1
        <3> QED BY <1>7, <3>2 DEF JobTypes
    <2> QED BY <2>1, <2>2 DEF Replace
<1> QED BY <1>1, <1>2, <1>3, <1>6, <1>8

LEMMA DiskTypes ==
    ASSUME IInv, NEW w \in Workers, Begin(w) \/ Serve(w)
    PROVE  SettingTypes' /\ UNCHANGED <<setting, original, latest>>
<1>0. SettingTypes /\ JobTypes /\ job[w].fd \in Versions /\ 0 \in Versions
    BY TypeParts, Before, SettingIs DEF IInv, JobType
<1>1. /\ UNCHANGED <<setting, original, latest>>
      /\ compressed' \in {compressed, None, job[w].fd} /\ fileLock' \in {fileLock, Nobody, w}
    BY DEF Begin, Serve, Open, OpenGz, Compare, RemoveStale, OpenOriginal, Lock, Rename, OpenNew, Insert, Use, Reopen,
           Send, Close, Leave, disk
<1>2. Versions' = Versions
    BY <1>1 DEF Versions
<1> QED BY <1>0, <1>1, <1>2 DEF SettingTypes, None

LEMMA TypesNext ==
    ASSUME IInv, [Next]_vars
    PROVE  TypeOK'
<1>0. SettingTypes /\ FileTypes /\ JobTypes
    BY TypeParts DEF IInv
<1>1. ASSUME NEW w \in Workers, Begin(w) \/ Serve(w) PROVE SettingTypes' /\ FileTypes' /\ JobTypes'
    BY <1>1, DiskTypes, BeginTypes, OpeningTypes, InsertTypes, UseTypes, ReopenTypes, SendTypes, CloseTypes, LeaveTypes DEF Serve
<1>2. ASSUME (\E f \in Cached : Expire(f)) \/ Clean \/ Release PROVE SettingTypes' /\ FileTypes' /\ JobTypes'
    <2>1. UNCHANGED disk
        BY <1>2 DEF Expire, Clean, Release
    <2> QED BY <1>0, <1>2, <2>1, CleaningTypes DEF SettingTypes, disk, Versions
<1>3. ASSUME UNCHANGED vars PROVE SettingTypes' /\ FileTypes' /\ JobTypes'
    <2>1. TypeOK'
        BY <1>3 DEF IInv, vars, TypeOK, Versions, ReaderType, FileType, FileNumbers, JobType, Piece
    <2> QED BY <2>1 DEF TypeOK, SettingTypes, FileTypes, JobTypes
<1>4. SettingTypes' /\ FileTypes' /\ JobTypes'
    BY <1>1, <1>2, <1>3, ReplaceTypes DEF Next
<1> QED BY <1>4 DEF TypeOK, SettingTypes, FileTypes, JobTypes

-----------------------------------------------------------------------------
(* The books: who has which file, and where the files are *)

(* W have the same files in the same way. *)
SamePlaces(W) ==
    \A v \in W : /\ job'[v].file = job[v].file
                 /\ job'[v].pc \in Using <=> job[v].pc \in Using
                 /\ job'[v].pc = "insert" <=> job[v].pc = "insert"

(* What Books says of a request with a file. *)
LEMMA BooksAre ==
    ASSUME IInv
    PROVE  /\ Hands /\ Lists /\ Counts /\ FileTypes /\ 0 \notin DOMAIN files
           /\ Kept \subseteq DOMAIN files
           /\ \A v \in Workers : job[v].file \in DOMAIN files \cup {0}
           /\ \A v \in Workers : job[v].file = 0 <=> ~(job[v].pc \in Using \cup {"insert"})
           /\ \A f \in DOMAIN files : IsFiniteSet(Readers(f)) /\ files[f].count \in Nat
           /\ \A f \in DOMAIN files : Readers(f) = {v \in Workers : job[v].file = f /\ job[v].pc \in Using}
<1>1. Hands /\ Lists /\ Counts /\ FileTypes /\ JobTypes
    BY TypeParts DEF IInv, Books
<1>2. 0 \notin DOMAIN files /\ Kept \subseteq DOMAIN files /\ DOMAIN files = 1..Len(files) /\ Len(files) \in Nat
    BY <1>1, FilesAre
<1>3. ASSUME NEW v \in Workers PROVE job[v].file \in DOMAIN files \cup {0}
    BY <1>1, <1>2 DEF JobTypes, JobType, FileNumbers
<1>4. \A v \in Workers : job[v].file = 0 <=> ~(job[v].pc \in Using \cup {"insert"})
    BY <1>1 DEF Hands, None
<1>5. ASSUME NEW f \in DOMAIN files PROVE IsFiniteSet(Readers(f)) /\ files[f].count \in Nat
    <2>1. Readers(f) \subseteq Workers
        BY DEF Readers
    <2>2. files[f] \in FileType
        BY <1>1, FilesAre
    <2> QED BY <2>1, <2>2, FileServerAssumption, FS_Subset DEF FileType
<1>6. ASSUME NEW f \in DOMAIN files
      PROVE  Readers(f) = {v \in Workers : job[v].file = f /\ job[v].pc \in Using}
    BY <1>2, <1>4 DEF Readers, Using
<1> QED BY <1>1, <1>2, <1>3, <1>4, <1>5, <1>6

(* Nothing happens to files that are open, and new ones are not. *)
LEMMA StaysBooks ==
    ASSUME IInv, SamePlaces(Workers), UNCHANGED <<cache, cleaning>>,
           DOMAIN files \subseteq DOMAIN files',
           \A f \in DOMAIN files : files'[f].state = files[f].state /\ files'[f].count = files[f].count,
           \A f \in DOMAIN files' \ DOMAIN files : files'[f].state # "open" /\ files'[f].count = 0, 0 \notin DOMAIN files'
    PROVE  Books'
<1>1. Kept' = Kept /\ Cached' = Cached /\ UNCHANGED <<cache, pending, releasing>>
    BY DEF Kept, Cached, cleaning
<1>2. /\ Hands /\ Lists /\ Counts /\ Kept \subseteq DOMAIN files
      /\ \A v \in Workers : job[v].file \in DOMAIN files \cup {0}
      /\ \A v \in Workers : job[v].file = 0 <=> ~(job[v].pc \in Using \cup {"insert"})
    BY BooksAre
<1>3. Hands'
    <2>1. ASSUME NEW v \in Workers PROVE job'[v].file # None <=> job'[v].pc \in Using \cup {"insert"}
        BY <1>2 DEF SamePlaces, None
    <2>2. ASSUME NEW v \in Workers, job'[v].pc = "insert"
          PROVE  /\ files'[job'[v].file].state = "open" /\ job'[v].file \notin Kept'
                 /\ \A u \in Workers : job'[u].file = job'[v].file => u = v
        <3>1. job[v].pc = "insert" /\ job'[v].file = job[v].file /\ job[v].file \in DOMAIN files
            BY <1>2, <2>2 DEF SamePlaces
        <3> QED BY <1>1, <1>2, <3>1 DEF SamePlaces, Hands
    <2> QED BY <2>1, <2>2 DEF Hands
<1>4. Lists'
    <2>1. \A f \in Kept' : files'[f].state = "open"
        BY <1>1, <1>2 DEF Lists
    <2>2. ASSUME NEW f \in DOMAIN files', files'[f].state = "open"
          PROVE  f \in Kept' \/ \E w \in Workers : job'[w].pc = "insert" /\ job'[w].file = f
        <3>1. f \in DOMAIN files /\ files[f].state = "open"
            BY <2>2
        <3> QED BY <1>1, <1>2, <3>1 DEF Lists, SamePlaces
    <2> QED BY <1>1, <1>2, <2>1, <2>2 DEF Lists
<1>5. Counts'
    <2>1. ASSUME NEW f \in DOMAIN files
          PROVE  files'[f].count = Cardinality(Readers(f)') /\ (Readers(f)' # {} => f \in Cached' \cup pending')
        <3>1. Readers(f)' = Readers(f)
            BY DEF Readers, SamePlaces
        <3> QED BY <1>1, <1>2, <3>1 DEF Counts
    <2>2. ASSUME NEW f \in DOMAIN files' \ DOMAIN files
          PROVE  files'[f].count = Cardinality(Readers(f)') /\ Readers(f)' = {}
        <3>1. Readers(f)' = {}
            BY <1>2 DEF Readers, SamePlaces
        <3> QED BY <3>1, FS_EmptySet
    <2> QED BY <2>1, <2>2 DEF Counts
<1> QED BY <1>3, <1>4, <1>5 DEF Books

(* A new file, with the request that opened it. *)
LEMMA MadeBooks ==
    ASSUME IInv, UNCHANGED <<cache, cleaning>>, NEW w \in Workers, job[w].file = 0, SamePlaces(Workers \ {w}),
           NEW n, n \notin DOMAIN files, n # 0, DOMAIN files' = DOMAIN files \cup {n},
           \A f \in DOMAIN files : files'[f].state = files[f].state /\ files'[f].count = files[f].count,
           files'[n].state = "open", files'[n].count = 0,
           job'[w].pc = "insert", job'[w].file = n
    PROVE  Books'
<1>1. Kept' = Kept /\ Cached' = Cached /\ UNCHANGED <<cache, pending, releasing>>
    BY DEF Kept, Cached, cleaning
<1>2. /\ Hands /\ Lists /\ Counts /\ Kept \subseteq DOMAIN files /\ 0 \notin DOMAIN files
      /\ \A v \in Workers : job[v].file \in DOMAIN files \cup {0}
      /\ \A v \in Workers : job[v].file = 0 <=> ~(job[v].pc \in Using \cup {"insert"})
    BY BooksAre
<1>3. Hands'
    <2>1. ASSUME NEW v \in Workers PROVE job'[v].file # None <=> job'[v].pc \in Using \cup {"insert"}
        BY <1>2 DEF SamePlaces, None
    <2>2. ASSUME NEW v \in Workers, job'[v].pc = "insert"
          PROVE  /\ files'[job'[v].file].state = "open" /\ job'[v].file \notin Kept'
                 /\ \A u \in Workers : job'[u].file = job'[v].file => u = v
        <3>1. CASE v = w
            BY <1>1, <1>2, <3>1 DEF SamePlaces
        <3>2. CASE v # w
            <4>1. job[v].pc = "insert" /\ job'[v].file = job[v].file /\ job[v].file \in DOMAIN files
                BY <1>2, <2>2, <3>2 DEF SamePlaces
            <4> QED BY <1>1, <1>2, <4>1 DEF SamePlaces, Hands
        <3> QED BY <3>1, <3>2
    <2> QED BY <2>1, <2>2 DEF Hands
<1>4. Lists'
    <2>1. \A f \in Kept' : files'[f].state = "open"
        BY <1>1, <1>2 DEF Lists
    <2>2. ASSUME NEW f \in DOMAIN files', files'[f].state = "open"
          PROVE  f \in Kept' \/ \E v \in Workers : job'[v].pc = "insert" /\ job'[v].file = f
        <3>1. CASE f = n
            BY <3>1
        <3>2. CASE f \in DOMAIN files
            <4>1. f \in Kept \/ \E v \in Workers \ {w} : job[v].pc = "insert" /\ job[v].file = f
                BY <1>2, <2>2, <3>2 DEF Lists
            <4> QED BY <1>1, <4>1 DEF SamePlaces
        <3> QED BY <3>1, <3>2
    <2> QED BY <1>1, <1>2, <2>1, <2>2 DEF Lists
<1>5. Counts'
    <2>1. ASSUME NEW f \in DOMAIN files
          PROVE  files'[f].count = Cardinality(Readers(f)') /\ (Readers(f)' # {} => f \in Cached' \cup pending')
        <3>1. Readers(f)' = Readers(f)
            BY <1>2 DEF Readers, SamePlaces
        <3> QED BY <1>1, <1>2, <3>1 DEF Counts
    <2>2. files'[n].count = Cardinality(Readers(n)') /\ Readers(n)' = {}
        <3>1. Readers(n)' = {}
            BY <1>2 DEF Readers, SamePlaces
        <3> QED BY <3>1, FS_EmptySet
    <2> QED BY <2>1, <2>2 DEF Counts
<1> QED BY <1>3, <1>4, <1>5 DEF Books

(* A request takes a file from a cache. *)
LEMMA TakenBooks ==
    ASSUME IInv, UNCHANGED <<cache, cleaning>>, NEW w \in Workers, job[w].file = 0, SamePlaces(Workers \ {w}),
           NEW f \in Cached, DOMAIN files' = DOMAIN files,
           \A g \in DOMAIN files : /\ files'[g].state = files[g].state
                                   /\ files'[g].count = IF g = f THEN files[g].count + 1 ELSE files[g].count,
           job'[w].pc = "use", job'[w].file = f
    PROVE  Books'
<1>1. Kept' = Kept /\ Cached' = Cached /\ UNCHANGED <<cache, pending, releasing>>
    BY DEF Kept, Cached, cleaning
<1>2. /\ Hands /\ Lists /\ Counts /\ Kept \subseteq DOMAIN files /\ 0 \notin DOMAIN files
      /\ \A v \in Workers : job[v].file \in DOMAIN files \cup {0}
      /\ \A v \in Workers : job[v].file = 0 <=> ~(job[v].pc \in Using \cup {"insert"})
    BY BooksAre
<1>3. f \in Kept /\ f \in DOMAIN files
    BY <1>2 DEF Kept
<1>4. Hands'
    <2>1. ASSUME NEW v \in Workers PROVE job'[v].file # None <=> job'[v].pc \in Using \cup {"insert"}
        BY <1>2, <1>3 DEF SamePlaces, None, Using
    <2>2. ASSUME NEW v \in Workers, job'[v].pc = "insert"
          PROVE  /\ files'[job'[v].file].state = "open" /\ job'[v].file \notin Kept'
                 /\ \A u \in Workers : job'[u].file = job'[v].file => u = v
        <3>1. v # w /\ job[v].pc = "insert" /\ job'[v].file = job[v].file /\ job[v].file \in DOMAIN files
            BY <1>2, <2>2 DEF SamePlaces
        <3>2. files[job[v].file].state = "open" /\ job[v].file \notin Kept /\ \A u \in Workers : job[u].file = job[v].file => u = v
            BY <1>2, <3>1 DEF Hands
        <3> QED BY <1>1, <1>3, <3>1, <3>2 DEF SamePlaces
    <2> QED BY <2>1, <2>2 DEF Hands
<1>5. Lists'
    <2>1. \A g \in Kept' : files'[g].state = "open"
        BY <1>1, <1>2 DEF Lists
    <2>2. ASSUME NEW g \in DOMAIN files', files'[g].state = "open"
          PROVE  g \in Kept' \/ \E v \in Workers : job'[v].pc = "insert" /\ job'[v].file = g
        <3>1. g \in Kept \/ \E v \in Workers \ {w} : job[v].pc = "insert" /\ job[v].file = g
            BY <1>2, <2>2 DEF Lists
        <3> QED BY <1>1, <3>1 DEF SamePlaces
    <2> QED BY <1>1, <1>2, <2>1, <2>2 DEF Lists
<1>6. Counts'
    <2>1. ASSUME NEW g \in DOMAIN files, g # f
          PROVE  files'[g].count = Cardinality(Readers(g)') /\ (Readers(g)' # {} => g \in Cached' \cup pending')
        <3>1. Readers(g)' = Readers(g)
            BY <1>2, <2>1 DEF Readers, SamePlaces
        <3> QED BY <1>1, <1>2, <2>1, <3>1 DEF Counts
    <2>2. files'[f].count = Cardinality(Readers(f)')
        <3>1. Readers(f)' = Readers(f) \cup {w} /\ w \notin Readers(f)
            BY <1>2, <1>3 DEF Readers, SamePlaces
        <3>2. Cardinality(Readers(f) \cup {w}) = Cardinality(Readers(f)) + 1
            BY <1>3, <3>1, BooksAre, FS_AddElement
        <3> QED BY <1>2, <1>3, <3>1, <3>2 DEF Counts
    <2> QED BY <1>1, <2>1, <2>2 DEF Counts
<1> QED BY <1>4, <1>5, <1>6 DEF Books

(* A request that has made a file is alone with it. *)
LEMMA MadeIsAlone ==
    ASSUME IInv, NEW w \in Workers, job[w].pc = "insert"
    PROVE  LET f == job[w].file IN
           /\ f \in DOMAIN files /\ f \notin Kept /\ files[f].state = "open" /\ files[f].count = 0 /\ Readers(f) = {}
           /\ \A v \in Workers : job[v].file = f => v = w
<1> DEFINE f == job[w].file
<1>1. f \in DOMAIN files /\ f # 0
    BY BooksAre
<1>2. f \notin Kept /\ files[f].state = "open" /\ \A v \in Workers : job[v].file = f => v = w
    BY BooksAre DEF Hands
<1>3. Readers(f) = {}
    BY <1>2 DEF Readers
<1> QED BY <1>1, <1>2, <1>3, BooksAre, FS_EmptySet DEF Counts

LEMMA WinBooks ==
    ASSUME IInv, UNCHANGED cleaning, NEW w \in Workers, job[w].pc = "insert", SamePlaces(Workers \ {w}),
           NEW f, f = job[w].file, NEW c \in Caches, cache[c] = None, cache'[c] = f, \A d \in Caches : d # c => cache'[d] = cache[d],
           DOMAIN files' = DOMAIN files,
           \A g \in DOMAIN files : /\ files'[g].state = files[g].state
                                   /\ files'[g].count = IF g = f THEN files[g].count + 1 ELSE files[g].count,
           job'[w].pc = "use", job'[w].file = f
    PROVE  Books'
<1>1. /\ Hands /\ Lists /\ Counts /\ Kept \subseteq DOMAIN files /\ 0 \notin DOMAIN files
      /\ \A v \in Workers : job[v].file \in DOMAIN files \cup {0}
      /\ \A v \in Workers : job[v].file = 0 <=> ~(job[v].pc \in Using \cup {"insert"})
      /\ cache \in [Caches -> FileNumbers]
    BY BooksAre DEF FileTypes
<1>2. /\ f \in DOMAIN files /\ f \notin Kept /\ files[f].state = "open" /\ files[f].count = 0 /\ Readers(f) = {}
      /\ \A v \in Workers : job[v].file = f => v = w
    BY MadeIsAlone
<1>3. Kept' = Kept \cup {f} /\ f \in Cached' /\ Cached \subseteq Cached' /\ UNCHANGED <<pending, releasing>>
    <2>1. Cached' = Cached \cup {f}
        BY <1>1, <1>2 DEF Cached, None
    <2> QED BY <2>1 DEF Kept, cleaning
<1>4. Hands'
    <2>1. ASSUME NEW v \in Workers PROVE job'[v].file # None <=> job'[v].pc \in Using \cup {"insert"}
        BY <1>1, <1>2 DEF SamePlaces, None, Using
    <2>2. ASSUME NEW v \in Workers, job'[v].pc = "insert"
          PROVE  /\ files'[job'[v].file].state = "open" /\ job'[v].file \notin Kept'
                 /\ \A u \in Workers : job'[u].file = job'[v].file => u = v
        <3>1. v # w /\ job[v].pc = "insert" /\ job'[v].file = job[v].file /\ job[v].file \in DOMAIN files /\ job[v].file # f
            BY <1>1, <1>2, <2>2 DEF SamePlaces
        <3>2. files[job[v].file].state = "open" /\ job[v].file \notin Kept /\ \A u \in Workers : job[u].file = job[v].file => u = v
            BY <1>1, <3>1 DEF Hands
        <3> QED BY <1>3, <3>1, <3>2 DEF SamePlaces
    <2> QED BY <2>1, <2>2 DEF Hands
<1>5. Lists'
    <2>1. \A g \in Kept' : files'[g].state = "open"
        BY <1>1, <1>2, <1>3 DEF Lists
    <2>2. ASSUME NEW g \in DOMAIN files', files'[g].state = "open"
          PROVE  g \in Kept' \/ \E v \in Workers : job'[v].pc = "insert" /\ job'[v].file = g
        <3>1. g = f \/ g \in Kept \/ \E v \in Workers \ {w} : job[v].pc = "insert" /\ job[v].file = g
            BY <1>1, <2>2 DEF Lists
        <3> QED BY <1>3, <3>1 DEF SamePlaces
    <2>3. \A d \in Caches : cache[d] # f
        BY <1>1, <1>2 DEF Kept, Cached, None
    <2>4. \A d, e \in Caches : cache'[d] = cache'[e] /\ cache'[d] # None => d = e
        BY <1>1, <2>3 DEF Lists
    <2>5. \A d \in Caches : cache'[d] \notin pending' \cup releasing'
        BY <1>1, <1>2, <1>3 DEF Lists, Kept
    <2>6. pending' \cap releasing' = {}
        BY <1>1, <1>3 DEF Lists
    <2> QED BY <2>1, <2>2, <2>4, <2>5, <2>6 DEF Lists
<1>6. Counts'
    <2>1. ASSUME NEW g \in DOMAIN files, g # f
          PROVE  files'[g].count = Cardinality(Readers(g)') /\ (Readers(g)' # {} => g \in Cached' \cup pending')
        <3>1. Readers(g)' = Readers(g)
            BY <1>1, <2>1 DEF Readers, SamePlaces
        <3> QED BY <1>1, <1>3, <2>1, <3>1 DEF Counts
    <2>2. files'[f].count = Cardinality(Readers(f)')
        <3>1. Readers(f)' = {w}
            BY <1>1, <1>2 DEF Readers, SamePlaces
        <3>2. Cardinality({w}) = 1
            BY FS_Singleton
        <3>3. files'[f].count = 1
            BY <1>2
        <3> QED BY <3>1, <3>2, <3>3
    <2> QED BY <1>3, <2>1, <2>2 DEF Counts
<1> QED BY <1>4, <1>5, <1>6 DEF Books

LEMMA LoseBooks ==
    ASSUME IInv, UNCHANGED <<cache, cleaning>>, NEW w \in Workers, job[w].pc = "insert", SamePlaces(Workers \ {w}),
           NEW f, f = job[w].file, NEW other \in Cached, DOMAIN files' = DOMAIN files,
           \A g \in DOMAIN files : /\ files'[g].state = IF g = f THEN "closed" ELSE files[g].state
                                   /\ files'[g].count = IF g = other THEN files[g].count + 1 ELSE files[g].count,
           job'[w].pc = "use", job'[w].file = other
    PROVE  Books'
<1>1. /\ Hands /\ Lists /\ Counts /\ Kept \subseteq DOMAIN files /\ 0 \notin DOMAIN files
      /\ \A v \in Workers : job[v].file \in DOMAIN files \cup {0}
      /\ \A v \in Workers : job[v].file = 0 <=> ~(job[v].pc \in Using \cup {"insert"})
    BY BooksAre
<1>2. /\ f \in DOMAIN files /\ f \notin Kept /\ files[f].state = "open" /\ files[f].count = 0 /\ Readers(f) = {}
      /\ \A v \in Workers : job[v].file = f => v = w
    BY MadeIsAlone
<1>3. Kept' = Kept /\ Cached' = Cached /\ UNCHANGED <<cache, pending, releasing>>
    BY DEF Kept, Cached, cleaning
<1>4. other \in Kept /\ other # f /\ other \in DOMAIN files
    BY <1>1, <1>2 DEF Kept
<1>5. Hands'
    <2>1. ASSUME NEW v \in Workers PROVE job'[v].file # None <=> job'[v].pc \in Using \cup {"insert"}
        BY <1>1, <1>4 DEF SamePlaces, None, Using
    <2>2. ASSUME NEW v \in Workers, job'[v].pc = "insert"
          PROVE  /\ files'[job'[v].file].state = "open" /\ job'[v].file \notin Kept'
                 /\ \A u \in Workers : job'[u].file = job'[v].file => u = v
        <3>1. v # w /\ job[v].pc = "insert" /\ job'[v].file = job[v].file /\ job[v].file \in DOMAIN files /\ job[v].file # f
            BY <1>1, <1>2, <2>2 DEF SamePlaces
        <3>2. files[job[v].file].state = "open" /\ job[v].file \notin Kept /\ \A u \in Workers : job[u].file = job[v].file => u = v
            BY <1>1, <3>1 DEF Hands
        <3> QED BY <1>3, <1>4, <3>1, <3>2 DEF SamePlaces
    <2> QED BY <2>1, <2>2 DEF Hands
<1>6. Lists'
    <2>1. \A g \in Kept' : files'[g].state = "open"
        BY <1>1, <1>2, <1>3 DEF Lists
    <2>2. ASSUME NEW g \in DOMAIN files', files'[g].state = "open"
          PROVE  g \in Kept' \/ \E v \in Workers : job'[v].pc = "insert" /\ job'[v].file = g
        <3>1. g # f /\ (g \in Kept \/ \E v \in Workers \ {w} : job[v].pc = "insert" /\ job[v].file = g)
            BY <1>1, <1>2, <2>2 DEF Lists
        <3> QED BY <1>3, <3>1 DEF SamePlaces
    <2> QED BY <1>1, <1>3, <2>1, <2>2 DEF Lists
<1>7. Counts'
    <2>1. ASSUME NEW g \in DOMAIN files, g # other, g # f
          PROVE  files'[g].count = Cardinality(Readers(g)') /\ (Readers(g)' # {} => g \in Cached' \cup pending')
        <3>1. Readers(g)' = Readers(g)
            BY <1>1, <2>1 DEF Readers, SamePlaces
        <3> QED BY <1>1, <1>3, <2>1, <3>1 DEF Counts
    <2>2. files'[other].count = Cardinality(Readers(other)')
        <3>1. Readers(other)' = Readers(other) \cup {w} /\ w \notin Readers(other)
            BY <1>1, <1>4 DEF Readers, SamePlaces
        <3>2. Cardinality(Readers(other) \cup {w}) = Cardinality(Readers(other)) + 1
            BY <1>4, <3>1, BooksAre, FS_AddElement
        <3> QED BY <1>1, <1>4, <3>1, <3>2 DEF Counts
    <2>3. files'[f].count = Cardinality(Readers(f)') /\ Readers(f)' = {}
        <3>1. Readers(f)' = {}
            BY <1>2, <1>4 DEF Readers, SamePlaces
        <3> QED BY <1>2, <1>4, <3>1, FS_EmptySet
    <2> QED BY <1>3, <2>1, <2>2, <2>3 DEF Counts
<1> QED BY <1>5, <1>6, <1>7 DEF Books

LEMMA LeftBooks ==
    ASSUME IInv, UNCHANGED <<cache, cleaning>>, NEW w \in Workers, job[w].pc \in Using, SamePlaces(Workers \ {w}),
           NEW f, f = job[w].file, DOMAIN files' = DOMAIN files,
           \A g \in DOMAIN files : /\ files'[g].state = files[g].state
                                   /\ files'[g].count = IF g = f THEN files[g].count - 1 ELSE files[g].count,
           job'[w].pc = "idle", job'[w].file = 0
    PROVE  Books'
<1>1. /\ Hands /\ Lists /\ Counts /\ Kept \subseteq DOMAIN files /\ 0 \notin DOMAIN files
      /\ \A v \in Workers : job[v].file \in DOMAIN files \cup {0}
      /\ \A v \in Workers : job[v].file = 0 <=> ~(job[v].pc \in Using \cup {"insert"})
    BY BooksAre
<1>2. Kept' = Kept /\ Cached' = Cached /\ UNCHANGED <<cache, pending, releasing>>
    BY DEF Kept, Cached, cleaning
<1>3. f \in DOMAIN files /\ w \in Readers(f) /\ job[w].pc # "insert"
    BY Before DEF Using
<1>4. Hands'
    <2>1. ASSUME NEW v \in Workers PROVE job'[v].file # None <=> job'[v].pc \in Using \cup {"insert"}
        BY <1>1 DEF SamePlaces, None, Using
    <2>2. ASSUME NEW v \in Workers, job'[v].pc = "insert"
          PROVE  /\ files'[job'[v].file].state = "open" /\ job'[v].file \notin Kept'
                 /\ \A u \in Workers : job'[u].file = job'[v].file => u = v
        <3>1. v # w /\ job[v].pc = "insert" /\ job'[v].file = job[v].file /\ job[v].file \in DOMAIN files /\ job[v].file # 0
            BY <1>1, <2>2 DEF SamePlaces
        <3>2. files[job[v].file].state = "open" /\ job[v].file \notin Kept /\ \A u \in Workers : job[u].file = job[v].file => u = v
            BY <1>1, <3>1 DEF Hands
        <3> QED BY <1>2, <3>1, <3>2 DEF SamePlaces
    <2> QED BY <2>1, <2>2 DEF Hands
<1>5. Lists'
    <2>1. \A g \in Kept' : files'[g].state = "open"
        BY <1>1, <1>2 DEF Lists
    <2>2. ASSUME NEW g \in DOMAIN files', files'[g].state = "open"
          PROVE  g \in Kept' \/ \E v \in Workers : job'[v].pc = "insert" /\ job'[v].file = g
        <3>1. g \in Kept \/ \E v \in Workers \ {w} : job[v].pc = "insert" /\ job[v].file = g
            BY <1>1, <1>3, <2>2 DEF Lists
        <3> QED BY <1>2, <3>1 DEF SamePlaces
    <2> QED BY <1>1, <1>2, <2>1, <2>2 DEF Lists
<1>6. Counts'
    <2>1. ASSUME NEW g \in DOMAIN files, g # f
          PROVE  files'[g].count = Cardinality(Readers(g)') /\ (Readers(g)' # {} => g \in Cached' \cup pending')
        <3>1. Readers(g)' = Readers(g)
            BY <1>1, <2>1 DEF Readers, SamePlaces
        <3> QED BY <1>1, <1>2, <2>1, <3>1 DEF Counts
    <2>2. files'[f].count = Cardinality(Readers(f)') /\ (Readers(f)' # {} => f \in Cached' \cup pending')
        <3>1. Readers(f)' = Readers(f) \ {w} /\ Readers(f) # {}
            BY <1>1, <1>3 DEF Readers, SamePlaces
        <3>2. Cardinality(Readers(f) \ {w}) = Cardinality(Readers(f)) - 1
            BY <1>3, BooksAre, FS_RemoveElement
        <3> QED BY <1>1, <1>2, <1>3, <3>1, <3>2 DEF Counts
    <2> QED BY <2>1, <2>2 DEF Counts
<1> QED BY <1>4, <1>5, <1>6 DEF Books

LEMMA CleanBooks ==
    ASSUME IInv, Clean
    PROVE  Books'
<1> DEFINE all == pending \cup {f \in Cached : files[f].old}
<1>1. /\ Hands /\ Lists /\ Counts /\ Kept \subseteq DOMAIN files /\ 0 \notin DOMAIN files
      /\ \A f \in DOMAIN files : IsFiniteSet(Readers(f)) /\ files[f].count \in Nat
      /\ cache \in [Caches -> FileNumbers]
    BY BooksAre DEF FileTypes
<1>2. /\ releasing = {} /\ pending' = {f \in all : BeingRead(f)} /\ releasing' = all \ pending'
      /\ cache' = [c \in Caches |-> IF cache[c] \in all THEN None ELSE cache[c]] /\ UNCHANGED <<files, job>>
    BY DEF Clean
<1>3. all \subseteq Kept /\ pending \subseteq all
    BY DEF Kept
<1> HIDE DEF all
<1>4. \A c \in Caches : cache'[c] = IF cache[c] \in all THEN None ELSE cache[c]
    BY <1>2
<1>5. Cached' = Cached \ all
    BY <1>1, <1>3, <1>4 DEF Cached, None
<1>6. Kept' = Kept
    BY <1>2, <1>3, <1>5 DEF Kept
<1>7. Hands'
    BY <1>1, <1>2, <1>6 DEF Hands
<1>8. Lists'
    <2>1. \A c, d \in Caches : cache'[c] = cache'[d] /\ cache'[c] # None => c = d
        BY <1>1, <1>4 DEF Lists
    <2>2. \A c \in Caches : cache'[c] \notin pending' \cup releasing'
        BY <1>1, <1>2, <1>3, <1>4 DEF None
    <2>3. pending' \cap releasing' = {}
        BY <1>2
    <2>4. \A f \in Kept' : files'[f].state = "open"
        BY <1>1, <1>2, <1>6 DEF Lists
    <2>5. \A f \in DOMAIN files' : files'[f].state = "open" =>
             f \in Kept' \/ \E w \in Workers : job'[w].pc = "insert" /\ job'[w].file = f
        BY <1>1, <1>2, <1>6 DEF Lists
    <2> QED BY <2>1, <2>2, <2>3, <2>4, <2>5 DEF Lists
<1>9. Counts'
    <2>1. ASSUME NEW f \in DOMAIN files
          PROVE  files'[f].count = Cardinality(Readers(f)') /\ (Readers(f)' # {} => f \in Cached' \cup pending')
        <3>1. Readers(f)' = Readers(f) /\ files'[f].count = files[f].count
            BY <1>2 DEF Readers
        <3>2. files[f].count = Cardinality(Readers(f)) /\ (Readers(f) # {} => f \in Cached \cup pending)
            BY <1>1 DEF Counts
        <3>3. ASSUME Readers(f) # {} PROVE BeingRead(f)
            <4>1. Cardinality(Readers(f)) # 0
                BY <1>1, <3>3, FS_EmptySet
            <4> QED BY <1>1, <3>2, <4>1 DEF BeingRead
        <3> QED BY <1>2, <1>3, <1>5, <3>1, <3>2, <3>3
    <2> QED BY <1>2, <2>1 DEF Counts
<1> QED BY <1>7, <1>8, <1>9 DEF Books

LEMMA ReleaseBooks ==
    ASSUME IInv, Release
    PROVE  Books'
<1>1. /\ Hands /\ Lists /\ Counts /\ Kept \subseteq DOMAIN files /\ 0 \notin DOMAIN files
      /\ \A v \in Workers : job[v].file \in DOMAIN files \cup {0}
      /\ \A v \in Workers : job[v].file = 0 <=> ~(job[v].pc \in Using \cup {"insert"})
    BY BooksAre
<1>2. /\ releasing' = {} /\ UNCHANGED <<cache, pending, job>> /\ DOMAIN files' = DOMAIN files
      /\ \A f \in DOMAIN files : /\ files'[f].state = IF f \in releasing THEN "closed" ELSE files[f].state
                                 /\ files'[f].count = files[f].count
    <2>1. releasing' = {} /\ UNCHANGED <<cache, pending, job>> /\ files' = Closed(files, releasing)
        BY DEF Release
    <2>2. DOMAIN files' = DOMAIN files
        BY <2>1 DEF Closed
    <2>3. ASSUME NEW f \in DOMAIN files
          PROVE  /\ files'[f].state = IF f \in releasing THEN "closed" ELSE files[f].state
                 /\ files'[f].count = files[f].count
        <3>1. files'[f] = IF f \in releasing THEN [Opened(None, FALSE, FALSE) EXCEPT !.state = "closed", !.count = files[f].count]
                          ELSE files[f]
            BY <2>1 DEF Closed
        <3> QED BY <3>1 DEF Opened
    <2> QED BY <2>1, <2>2, <2>3
<1>3. Kept' = Cached \cup pending /\ Cached' = Cached /\ Kept' \cap releasing = {}
    BY <1>1, <1>2 DEF Kept, Cached, Lists
<1>4. Hands'
    <2>1. ASSUME NEW v \in Workers, job[v].pc = "insert"
          PROVE  files'[job[v].file].state = "open" /\ job[v].file \notin Kept'
        <3>1. job[v].file \in DOMAIN files /\ job[v].file \notin Kept /\ files[job[v].file].state = "open"
            BY <1>1, <2>1 DEF Hands
        <3> QED BY <1>2, <1>3, <3>1 DEF Kept
    <2> QED BY <1>1, <1>2, <2>1 DEF Hands
<1>5. Lists'
    <2>1. \A f \in Kept' : files'[f].state = "open"
        BY <1>1, <1>2, <1>3 DEF Lists, Kept
    <2>2. ASSUME NEW f \in DOMAIN files', files'[f].state = "open"
          PROVE  f \in Kept' \/ \E v \in Workers : job'[v].pc = "insert" /\ job'[v].file = f
        <3>1. f \notin releasing /\ files[f].state = "open" /\ f \in DOMAIN files
            BY <1>2, <2>2
        <3> QED BY <1>1, <1>2, <1>3, <3>1 DEF Lists, Kept
    <2> QED BY <1>1, <1>2, <2>1, <2>2 DEF Lists
<1>6. Counts'
    <2>1. \A f \in DOMAIN files : Readers(f)' = Readers(f)
        BY <1>2 DEF Readers
    <2> QED BY <1>1, <1>2, <1>3, <2>1 DEF Counts
<1> QED BY <1>4, <1>5, <1>6 DEF Books

(* What the steps are, for the books. *)
LEMMA Moved ==
    ASSUME JobTypes, NEW w \in Workers, NEW r, job' = [job EXCEPT ![w] = r]
    PROVE  job'[w] = r /\ SamePlaces(Workers \ {w})
BY DEF JobTypes, SamePlaces

LEMMA TakenAre ==
    ASSUME FileTypes, NEW f \in DOMAIN files, files' = Taken(f)
    PROVE  DOMAIN files' = DOMAIN files
           /\ \A g \in DOMAIN files : /\ files'[g].state = files[g].state
                                      /\ files'[g].count = IF g = f THEN files[g].count + 1 ELSE files[g].count
<1>1. \A g \in DOMAIN files : files[g] \in FileType
    BY FilesAre
<1> QED BY <1>1 DEF Taken, FileType

(* A request keeps what it has. *)
LEMMA StaysIn ==
    ASSUME IInv, NEW w \in Workers, NEW r, job' = [job EXCEPT ![w] = r],
           r.file = job[w].file, r.pc \in Using <=> job[w].pc \in Using, r.pc = "insert" <=> job[w].pc = "insert"
    PROVE  SamePlaces(Workers)
<1>1. JobTypes
    BY TypeParts DEF IInv
<1>2. job'[w] = r /\ SamePlaces(Workers \ {w})
    BY <1>1, Moved
<1> QED BY <1>2 DEF SamePlaces

(* It goes on with the files as they are. *)
LEMMA GoesBooks ==
    ASSUME IInv, UNCHANGED <<cache, cleaning>>, SamePlaces(Workers), DOMAIN files' = DOMAIN files,
           \A f \in DOMAIN files : files'[f].state = files[f].state /\ files'[f].count = files[f].count
    PROVE  Books'
BY StaysBooks, BooksAre

LEMMA AnsweredPlaces ==
    ASSUME IInv, NEW w \in Workers, job[w].pc \notin Using \cup {"insert"}, NEW status, Answered(w, status)
    PROVE  SamePlaces(Workers)
<1>1. job[w].file = 0
    BY BooksAre
<1> DEFINE r == [Idle(job[w].left) EXCEPT !.status = status, !.missing = job[w].missing]
<1>2. job' = [job EXCEPT ![w] = r]
    BY DEF Answered
<1>3. r.file = 0 /\ r.pc = "idle"
    BY DEF Idle, None
<1> HIDE DEF r
<1> QED BY <1>1, <1>2, <1>3, StaysIn DEF Using

LEMMA FailedBooks ==
    ASSUME IInv, UNCHANGED <<cache, cleaning>>, NEW w \in Workers, job[w].pc \notin Using \cup {"insert"}, Failed(w)
    PROVE  Books'
BY AnsweredPlaces, GoesBooks DEF Failed

LEMMA MadeStepBooks ==
    ASSUME IInv, UNCHANGED <<setting, latest, cache, cleaning>>, NEW w \in Workers, job[w].pc \notin Using \cup {"insert"},
           NEW version \in Versions, NEW gz \in BOOLEAN, NEW index \in BOOLEAN, Made(w, version, gz, index)
    PROVE  Books'
<1> DEFINE n == Len(files) + 1
           r == [job[w] EXCEPT !.pc = "insert", !.file = n, !.fd = None]
<1>0. SettingTypes /\ FileTypes /\ JobTypes /\ Len(files) \in Nat /\ job[w] \in JobType /\ job[w].file = 0
    BY TypeParts, FilesAre, Before, BooksAre DEF IInv
<1>1. files' = Append(files, Opened(version, gz, index)) /\ Opened(version, gz, index) \in FileType
    BY <1>0, OpenedIs DEF Made
<1>2. /\ DOMAIN files' = DOMAIN files \cup {n} /\ n \notin DOMAIN files
      /\ \A f \in DOMAIN files : files'[f] = files[f]
      /\ files'[n] = Opened(version, gz, index)
    BY <1>0, <1>1, MoreFiles
<1>3. files'[n].state = "open" /\ files'[n].count = 0 /\ n # 0
    BY <1>0, <1>2 DEF Opened
<1>4. job' = [job EXCEPT ![w] = r]
    BY DEF Made
<1>5. r.pc = "insert" /\ r.file = n
    BY <1>0 DEF JobType
<1> HIDE DEF r, n
<1>6. job'[w] = r /\ SamePlaces(Workers \ {w})
    BY <1>0, <1>4, Moved
<1> QED BY <1>0, <1>2, <1>3, <1>5, <1>6, MadeBooks

LEMMA NewFileBooks ==
    ASSUME IInv, UNCHANGED <<setting, latest, cache, cleaning>>, NEW w \in Workers, job[w].pc \notin Using \cup {"insert"},
           NEW version \in Versions, NEW gz \in BOOLEAN, NewFile(w, version, gz)
    PROVE  Books'
<1>1. CASE ~setting.unknown
    BY <1>1, MadeStepBooks DEF NewFile
<1>2. CASE setting.unknown
    <2> DEFINE n == Len(files) + 1
               r == [Opened(version, gz, FALSE) EXCEPT !.state = "lost"]
    <2>0. SettingTypes /\ FileTypes /\ Len(files) \in Nat
        BY TypeParts, FilesAre DEF IInv
    <2>1. files' = Append(files, r) /\ r \in FileType
        BY <1>2, <2>0, OpenedIs DEF NewFile
    <2>2. r.state = "lost" /\ r.count = 0
        BY DEF Opened
    <2> HIDE DEF r
    <2>3. /\ DOMAIN files' = DOMAIN files \cup {n} /\ n \notin DOMAIN files
          /\ \A f \in DOMAIN files : files'[f] = files[f]
          /\ files'[n] = r
        BY <2>0, <2>1, MoreFiles
    <2>4. n # 0 /\ 0 \notin DOMAIN files'
        BY <2>0, <2>3, FilesAre
    <2>5. \A f \in DOMAIN files' \ DOMAIN files : files'[f].state # "open" /\ files'[f].count = 0
        BY <2>2, <2>3
    <2>6. SamePlaces(Workers)
        <3>1. \E status : Answered(w, status)
            BY <1>2 DEF NewFile
        <3> QED BY <3>1, AnsweredPlaces
    <2> QED BY <2>3, <2>4, <2>5, <2>6, StaysBooks
<1> QED BY <1>1, <1>2

LEMMA MissingBooks ==
    ASSUME IInv, UNCHANGED <<setting, latest, cache, cleaning>>, NEW w \in Workers, job[w].pc \notin Using \cup {"insert"}, Missing(w)
    PROVE  Books'
<1>1. CASE Made(w, None, job[w].must, TRUE)
    <2>1. None \in Versions /\ job[w].must \in BOOLEAN
        BY Before, TypeParts, SettingIs DEF IInv, None, JobType
    <2> QED BY <1>1, <2>1, MadeStepBooks
<1>2. CASE Failed(w)
    BY <1>2, FailedBooks
<1> QED BY <1>1, <1>2 DEF Missing

(* A request goes on before it has a file. *)
LEMMA OnBooks ==
    ASSUME IInv, UNCHANGED <<files, cache, cleaning>>, NEW w \in Workers, job[w].pc \notin Using \cup {"insert"},
           NEW r, job' = [job EXCEPT ![w] = r], r.file = 0, r.pc \notin Using \cup {"insert"}
    PROVE  Books'
<1>1. job[w].file = 0
    BY BooksAre
<1>2. SamePlaces(Workers)
    BY <1>1, StaysIn DEF Using
<1> QED BY <1>2, GoesBooks

LEMMA BeginBooks ==
    ASSUME IInv, NEW w \in Workers, Begin(w)
    PROVE  Books'
<1>0. /\ SettingTypes /\ FileTypes /\ JobTypes /\ job[w] \in JobType /\ UNCHANGED <<setting, latest, cache, cleaning>>
      /\ job[w].pc = "idle" /\ job[w].file = 0 /\ job[w].pc \notin Using \cup {"insert"}
    <2>1. UNCHANGED <<setting, latest, cache, cleaning>> /\ job[w].pc = "idle"
        BY DEF Begin, disk
    <2> QED BY <2>1, TypeParts, Before, BooksAre DEF IInv, Using
<1> DEFINE rest == Idle(job[w].left - 1)
<1>1. PICK r \in setting.kinds :
          LET must == r.compress /\ setting.compress /\ r.range = NoRange
              name == IF must THEN "gz" ELSE "plain"
              f == cache[name]
              begun == [rest EXCEPT !.request = r, !.must = must, !.cache = name, !.missing = original = None]
          IN \/ /\ job' = [job EXCEPT ![w] = [Idle(@.left - 1) EXCEPT !.status = Refusal(r)]]
                /\ UNCHANGED files
             \/ /\ Refusal(r) = None /\ f # None
                /\ files' = Taken(f)
                /\ job' = [job EXCEPT ![w] = [begun EXCEPT !.pc = "use", !.file = f]]
             \/ /\ Refusal(r) = None /\ f = None
                /\ job' = [job EXCEPT ![w] = [begun EXCEPT !.pc = IF must THEN "openGz" ELSE "open"]]
                /\ UNCHANGED files
    BY Zenon DEF Begin
<1> DEFINE must == r.compress /\ setting.compress /\ r.range = NoRange
           name == IF must THEN "gz" ELSE "plain"
           f == cache[name]
           begun == [rest EXCEPT !.request = r, !.must = must, !.cache = name, !.missing = original = None]
           place == IF must THEN "openGz" ELSE "open"
<1>2. \/ job' = [job EXCEPT ![w] = [rest EXCEPT !.status = Refusal(r)]] /\ UNCHANGED files
      \/ f # None /\ files' = Taken(f) /\ job' = [job EXCEPT ![w] = [begun EXCEPT !.pc = "use", !.file = f]]
      \/ job' = [job EXCEPT ![w] = [begun EXCEPT !.pc = place]] /\ UNCHANGED files
    BY <1>1
<1>3. name \in Caches /\ place \in {"openGz", "open"}
    BY DEF Caches
<1>4. /\ [rest EXCEPT !.status = Refusal(r)].file = 0 /\ [rest EXCEPT !.status = Refusal(r)].pc = "idle"
      /\ [begun EXCEPT !.pc = place].file = 0 /\ [begun EXCEPT !.pc = place].pc = place
      /\ [begun EXCEPT !.pc = "use", !.file = f].file = f /\ [begun EXCEPT !.pc = "use", !.file = f].pc = "use"
    BY DEF Idle, None
<1> HIDE DEF rest, must, name, begun, place
<1>5. CASE job' = [job EXCEPT ![w] = [rest EXCEPT !.status = Refusal(r)]] /\ UNCHANGED files
    BY <1>0, <1>4, <1>5, OnBooks DEF Using
<1>6. CASE job' = [job EXCEPT ![w] = [begun EXCEPT !.pc = place]] /\ UNCHANGED files
    BY <1>0, <1>3, <1>4, <1>6, OnBooks DEF Using
<1>7. CASE f # None /\ files' = Taken(f) /\ job' = [job EXCEPT ![w] = [begun EXCEPT !.pc = "use", !.file = f]]
    <2>1. f \in Cached
        BY <1>3, <1>7 DEF Cached
    <2>2. f \in DOMAIN files
        BY <2>1, BooksAre DEF Kept
    <2>3. DOMAIN files' = DOMAIN files
          /\ \A g \in DOMAIN files : /\ files'[g].state = files[g].state
                                     /\ files'[g].count = IF g = f THEN files[g].count + 1 ELSE files[g].count
        BY <1>0, <1>7, <2>2, TakenAre
    <2>4. job'[w] = [begun EXCEPT !.pc = "use", !.file = f] /\ SamePlaces(Workers \ {w})
        BY <1>0, <1>7, Moved
    <2>5. job'[w].pc = "use" /\ job'[w].file = f
        BY <1>4, <2>4
    <2>6. SamePlaces(Workers \ {w}) /\ UNCHANGED <<cache, cleaning>> /\ job[w].file = 0
        BY <1>0, <2>4
    <2> HIDE DEF f
    <2> QED BY <2>1, <2>3, <2>5, <2>6, TakenBooks
<1> QED BY <1>2, <1>5, <1>6, <1>7

LEMMA OpeningBooks ==
    ASSUME IInv, NEW w \in Workers,
           \/ Open(w) \/ OpenGz(w) \/ Compare(w) \/ RemoveStale(w) \/ OpenOriginal(w) \/ Lock(w)
           \/ Rename(w) \/ OpenNew(w)
    PROVE  Books'
<1>0. /\ job[w] \in JobType /\ original \in Versions /\ compressed \in Versions /\ job[w].fd \in Versions /\ job[w].file = 0
      /\ UNCHANGED <<setting, latest, cache, cleaning>>
      /\ job[w].pc \notin Using \cup {"insert"}
    <2>1. UNCHANGED <<setting, latest, cache, cleaning>> /\ job[w].pc \notin Using \cup {"insert"}
        BY DEF Open, OpenGz, Compare, RemoveStale, OpenOriginal, Lock, Rename, OpenNew, disk, Using
    <2>2. job[w] \in JobType /\ original \in Versions /\ compressed \in Versions
        BY TypeParts, Before DEF IInv, SettingTypes
    <2> QED BY <2>1, <2>2, BooksAre DEF JobType
<1>2. ASSUME NEW place \in {"compress", "remove", "openNew", "rename", "lock", "compare"}, UNCHANGED files, Goes(w, place)
      PROVE  Books'
    <2>1. PICK r : r = [job[w] EXCEPT !.pc = place]
        OBVIOUS
    <2>2. r.pc = place /\ r.file = 0
        BY <1>0, <2>1 DEF JobType
    <2>3. job' = [job EXCEPT ![w] = r]
        BY <1>2, <2>1 DEF Goes
    <2> QED BY <1>0, <1>2, <2>2, <2>3, OnBooks DEF Using
<1>3. ASSUME NEW place \in {"lock", "compare"}, NEW version \in Versions, UNCHANGED files,
             job' = [job EXCEPT ![w].pc = place, ![w].fd = version]
      PROVE  Books'
    <2>1. PICK r : r = [job[w] EXCEPT !.pc = place, !.fd = version]
        OBVIOUS
    <2>2. r.pc = place /\ r.file = 0
        BY <1>0, <2>1 DEF JobType
    <2>3. job' = [job EXCEPT ![w] = [job[w] EXCEPT !.pc = place, !.fd = version]]
        BY <1>3
    <2> QED BY <1>0, <1>3, <2>1, <2>2, <2>3, OnBooks DEF Using
<1>4. ASSUME UNCHANGED files, job' = [job EXCEPT ![w].pc = "open", ![w].must = FALSE, ![w].fd = None]
      PROVE  Books'
    <2>1. PICK r : r = [job[w] EXCEPT !.pc = "open", !.must = FALSE, !.fd = None]
        OBVIOUS
    <2>2. r.pc = "open" /\ r.file = 0
        BY <1>0, <2>1 DEF JobType
    <2>3. job' = [job EXCEPT ![w] = [job[w] EXCEPT !.pc = "open", !.must = FALSE, !.fd = None]]
        BY <1>4
    <2> QED BY <1>0, <1>4, <2>1, <2>2, <2>3, OnBooks DEF Using
<1>5. CASE Open(w)
    BY <1>0, <1>5, MissingBooks, NewFileBooks DEF Open
<1>6. CASE OpenGz(w)
    BY <1>0, <1>2, <1>3, <1>6 DEF OpenGz
<1>7. CASE Compare(w)
    BY <1>0, <1>2, <1>7, FailedBooks, NewFileBooks DEF Compare
<1>8. CASE RemoveStale(w)
    BY <1>2, <1>8 DEF RemoveStale
<1>9. CASE OpenOriginal(w)
    BY <1>0, <1>3, <1>9, MissingBooks, NewFileBooks DEF OpenOriginal
<1>10. CASE Lock(w)
    BY <1>0, <1>2, <1>4, <1>10, FailedBooks DEF Lock
<1>11. CASE Rename(w)
    BY <1>2, <1>11 DEF Rename
<1>12. CASE OpenNew(w)
    BY <1>0, <1>12, FailedBooks, NewFileBooks DEF OpenNew
<1> QED BY <1>5, <1>6, <1>7, <1>8, <1>9, <1>10, <1>11, <1>12

LEMMA InsertBooks ==
    ASSUME IInv, NEW w \in Workers, Insert(w)
    PROVE  Books'
<1> DEFINE f == job[w].file
           c == job[w].cache
           other == cache[c]
<1>0. /\ FileTypes /\ JobTypes /\ job[w] \in JobType /\ c \in Caches /\ job[w].pc = "insert" /\ f \in DOMAIN files
      /\ UNCHANGED cleaning /\ w \in Workers
    <2>1. job[w].pc = "insert" /\ UNCHANGED cleaning
        BY DEF Insert
    <2> QED BY <2>1, TypeParts, Before DEF IInv, JobType
<1>1. CASE other = None
    <2>1. files' = Taken(f) /\ cache' = [cache EXCEPT ![c] = f] /\ Goes(w, "use")
        BY <1>1 DEF Insert
    <2>2. PICK r : r = [job[w] EXCEPT !.pc = "use"]
        OBVIOUS
    <2>3. r.pc = "use" /\ r.file = f /\ job' = [job EXCEPT ![w] = r]
        BY <1>0, <2>1, <2>2 DEF JobType, Goes
    <2>4. job'[w] = r /\ SamePlaces(Workers \ {w})
        BY <1>0, <2>3, Moved
    <2>5. DOMAIN files' = DOMAIN files
          /\ \A g \in DOMAIN files : /\ files'[g].state = files[g].state
                                     /\ files'[g].count = IF g = f THEN files[g].count + 1 ELSE files[g].count
        BY <1>0, <2>1, TakenAre
    <2>6. job'[w].pc = "use" /\ job'[w].file = f /\ SamePlaces(Workers \ {w})
        BY <2>3, <2>4
    <2>7. f = job[w].file /\ c \in Caches /\ cache[c] = None
          /\ cache'[c] = f /\ \A d \in Caches : d # c => cache'[d] = cache[d]
        BY <1>0, <1>1, <2>1 DEF FileTypes
    <2>8. job[w].pc = "insert" /\ UNCHANGED cleaning
        BY <1>0
    <2> HIDE DEF f, c
    <2> QED BY <2>5, <2>6, <2>7, <2>8, WinBooks
<1>2. CASE other # None
    <2>1. files' = Closed(Taken(other), {f}) /\ UNCHANGED cache
          /\ job' = [job EXCEPT ![w].pc = "use", ![w].file = other]
        BY <1>2 DEF Insert, Loser
    <2>2. other \in Cached /\ other \in DOMAIN files
        BY <1>0, <1>2, BooksAre DEF Cached, Kept
    <2>3. PICK r : r = [job[w] EXCEPT !.pc = "use", !.file = other]
        OBVIOUS
    <2>4. r.pc = "use" /\ r.file = other
        BY <1>0, <2>3 DEF JobType
    <2>5. job' = [job EXCEPT ![w] = [job[w] EXCEPT !.pc = "use", !.file = other]]
        BY <2>1
    <2>6. job'[w] = r /\ SamePlaces(Workers \ {w})
        BY <1>0, <2>3, <2>5, Moved
    <2>7. job'[w].pc = "use" /\ job'[w].file = other /\ SamePlaces(Workers \ {w})
        BY <2>4, <2>6
    <2>8. f # other
        BY <1>0, <2>2, BooksAre DEF Hands, Kept
    <2>9. DOMAIN files' = DOMAIN files
        BY <1>0, <2>1 DEF Closed, Taken
    <2>10. ASSUME NEW g \in DOMAIN files
           PROVE  /\ files'[g].state = IF g = f THEN "closed" ELSE files[g].state
                  /\ files'[g].count = IF g = other THEN files[g].count + 1 ELSE files[g].count
        <3>1. files[g] \in FileType
            BY <1>0, FilesAre
        <3>2. DOMAIN Taken(other) = DOMAIN files /\ Taken(other)[g].state = files[g].state
              /\ Taken(other)[g].count = IF g = other THEN files[g].count + 1 ELSE files[g].count
            BY <2>2, <3>1 DEF Taken, FileType
        <3>3. files'[g] = IF g = f THEN [Opened(None, FALSE, FALSE) EXCEPT !.state = "closed", !.count = Taken(other)[g].count]
                          ELSE Taken(other)[g]
            BY <2>1, <3>2 DEF Closed
        <3> QED BY <3>2, <3>3 DEF Opened
    <2>11. f = job[w].file /\ job[w].pc = "insert" /\ UNCHANGED <<cache, cleaning>> /\ other \in Cached
        BY <1>0, <2>1, <2>2
    <2> HIDE DEF f, other
    <2> QED BY <2>7, <2>9, <2>10, <2>11, LoseBooks
<1> QED BY <1>1, <1>2

LEMMA LeftStepBooks ==
    ASSUME IInv, UNCHANGED <<cache, cleaning>>, NEW w \in Workers, job[w].pc \in Using,
           files' = Left(job[w].file), Finished(w) \/ \E status : Answered(w, status)
    PROVE  Books'
<1>0. FileTypes /\ JobTypes /\ job[w] \in JobType /\ job[w].file \in DOMAIN files
    BY TypeParts, Before DEF IInv
<1>1. PICK f : f = job[w].file
    OBVIOUS
<1>2. DOMAIN files' = DOMAIN files
      /\ \A g \in DOMAIN files : /\ files'[g].state = files[g].state
                                 /\ files'[g].count = IF g = f THEN files[g].count - 1 ELSE files[g].count
    <2>1. \A g \in DOMAIN files : files[g] \in FileType
        BY <1>0, FilesAre
    <2> QED BY <1>0, <1>1, <2>1 DEF Left, FileType
<1>4. PICK r : r.pc = "idle" /\ r.file = 0 /\ job' = [job EXCEPT ![w] = r]
    <2>1. CASE Finished(w)
        <3>1. Idle(job[w].left).pc = "idle" /\ Idle(job[w].left).file = 0
            BY DEF Idle, None
        <3> QED BY <2>1, <3>1 DEF Finished
    <2>2. ASSUME NEW status, Answered(w, status)
          PROVE  \E r : r.pc = "idle" /\ r.file = 0 /\ job' = [job EXCEPT ![w] = r]
        <3>1. PICK r : r = [Idle(job[w].left) EXCEPT !.status = status, !.missing = job[w].missing]
            OBVIOUS
        <3>2. r.pc = "idle" /\ r.file = 0
            BY <3>1 DEF Idle, None
        <3> QED BY <2>2, <3>1, <3>2 DEF Answered
    <2> QED BY <2>1, <2>2
<1>5. job'[w] = r /\ SamePlaces(Workers \ {w})
    BY <1>0, <1>4, Moved
<1>6. job'[w].pc = "idle" /\ job'[w].file = 0 /\ SamePlaces(Workers \ {w})
    BY <1>4, <1>5
<1> QED BY <1>1, <1>2, <1>6, LeftBooks

(* A request goes on with its file. *)
LEMMA UsingBooks ==
    ASSUME IInv, UNCHANGED <<cache, cleaning>>, NEW w \in Workers, job[w].pc \in Using,
           DOMAIN files' = DOMAIN files,
           \A f \in DOMAIN files : files'[f].state = files[f].state /\ files'[f].count = files[f].count,
           NEW r, job' = [job EXCEPT ![w] = r], r.file = job[w].file, r.pc \in Using
    PROVE  Books'
<1>1. r.pc # "insert" /\ job[w].pc # "insert"
    BY DEF Using
<1>2. SamePlaces(Workers)
    BY <1>1, StaysIn
<1> QED BY <1>2, GoesBooks

LEMMA IdleAre ==
    ASSUME FileTypes, NEW f \in DOMAIN files, NEW idle, files' = [files EXCEPT ![f].idle = idle]
    PROVE  /\ DOMAIN files' = DOMAIN files
           /\ \A g \in DOMAIN files : files'[g].state = files[g].state /\ files'[g].count = files[g].count
<1>1. \A g \in DOMAIN files : files[g] \in FileType
    BY FilesAre
<1> QED BY <1>1 DEF FileType

LEMMA ReadingBooks ==
    ASSUME IInv, NEW w \in Workers, Use(w) \/ Reopen(w) \/ Send(w) \/ Close(w) \/ Leave(w)
    PROVE  Books'
<1>0. /\ FileTypes /\ job[w] \in JobType /\ UNCHANGED <<cache, cleaning>> /\ job[w].pc \in Using /\ job[w].file \in DOMAIN files
    <2>1. UNCHANGED <<cache, cleaning>> /\ job[w].pc \in Using
        BY DEF Use, Reopen, Send, Close, Leave, Using
    <2> QED BY <2>1, TypeParts, Before DEF IInv
<1>1. ASSUME NEW place \in Using, UNCHANGED files, Goes(w, place) PROVE Books'
    <2>1. PICK r : r = [job[w] EXCEPT !.pc = place]
        OBVIOUS
    <2>2. r.pc \in Using /\ r.file = job[w].file /\ job' = [job EXCEPT ![w] = r]
        BY <1>0, <1>1, <2>1 DEF JobType, Goes
    <2> QED BY <1>0, <1>1, <2>2, UsingBooks
<1>2. ASSUME NEW reader, Reads(w, reader), DOMAIN files' = DOMAIN files,
             \A f \in DOMAIN files : files'[f].state = files[f].state /\ files'[f].count = files[f].count
      PROVE  Books'
    <2>1. PICK r : r = [job[w] EXCEPT !.pc = "send", !.reader = reader]
        OBVIOUS
    <2>2. r.pc \in Using /\ r.file = job[w].file /\ job' = [job EXCEPT ![w] = r]
        BY <1>0, <1>2, <2>1 DEF JobType, Reads, Using
    <2> QED BY <1>0, <1>2, <2>2, UsingBooks
<1>3. CASE Use(w)
    <2>1. CASE NotModified(w)
        BY <1>0, <2>1, LeftStepBooks DEF NotModified
    <2>2. CASE \E reader : Reads(w, reader) /\ UNCHANGED files
        BY <1>2, <2>2
    <2>3. CASE Goes(w, "reopen") /\ UNCHANGED files
        BY <1>1, <2>3 DEF Using
    <2>4. CASE \E reader, idle : files' = [files EXCEPT ![job[w].file].idle = idle] /\ Reads(w, reader)
        BY <1>0, <1>2, <2>4, IdleAre
    <2> QED BY <1>3, <2>1, <2>2, <2>3, <2>4 DEF Use
<1>4. CASE Reopen(w)
    <2>1. CASE files' = Left(job[w].file) /\ Answered(w, 500)
        BY <1>0, <2>1, LeftStepBooks
    <2>2. CASE \E reader : Reads(w, reader) /\ UNCHANGED files
        BY <1>2, <2>2
    <2> QED BY <1>4, <2>1, <2>2 DEF Reopen
<1>5. CASE Send(w)
    <2>1. \E r : job' = [job EXCEPT ![w] = r] /\ r.pc = "close" /\ r.file = job[w].file
        <3>1. ASSUME NEW status, Refuses(w, status)
              PROVE  \E r : job' = [job EXCEPT ![w] = r] /\ r.pc = "close" /\ r.file = job[w].file
            <4>1. PICK r : r = [job[w] EXCEPT !.pc = "close", !.status = status]
                OBVIOUS
            <4>2. r.pc = "close" /\ r.file = job[w].file
                BY <1>0, <4>1 DEF JobType
            <4> QED BY <3>1, <4>1, <4>2 DEF Refuses
        <3>2. ASSUME NEW piece, NEW status, SendsPiece(w, piece, status)
              PROVE  \E r : job' = [job EXCEPT ![w] = r] /\ r.pc = "close" /\ r.file = job[w].file
            <4>1. PICK reader : job' = [job EXCEPT ![w] = [job[w] EXCEPT !.pc = "close", !.status = status, !.body = piece,
                                                                        !.reader = reader]]
                BY <3>2 DEF SendsPiece
            <4>2. PICK r : r = [job[w] EXCEPT !.pc = "close", !.status = status, !.body = piece, !.reader = reader]
                OBVIOUS
            <4>3. r.pc = "close" /\ r.file = job[w].file
                BY <1>0, <4>2 DEF JobType
            <4> QED BY <4>1, <4>2, <4>3
        <3> QED BY <1>5, <3>1, <3>2, SendIs
    <2>2. UNCHANGED files
        BY <1>5, SendIs
    <2> QED BY <1>0, <2>1, <2>2, UsingBooks DEF Using
<1>6. CASE Close(w)
    <2>1. PICK r : /\ job' = [job EXCEPT ![w] = r]
                   /\ \E status : r = [job[w] EXCEPT !.pc = "leave", !.reader = NoReader, !.status = status]
        BY <1>6, CloseIs
    <2>2. r.pc \in Using /\ r.file = job[w].file /\ job' = [job EXCEPT ![w] = r]
        BY <1>0, <2>1 DEF JobType, Using
    <2>3. UNCHANGED files \/ \E idle : files' = [files EXCEPT ![job[w].file].idle = idle]
        BY <1>6 DEF Close
    <2>4. /\ DOMAIN files' = DOMAIN files
          /\ \A f \in DOMAIN files : files'[f].state = files[f].state /\ files'[f].count = files[f].count
        BY <1>0, <2>3, IdleAre
    <2> QED BY <1>0, <2>2, <2>4, UsingBooks
<1>7. CASE Leave(w)
    BY <1>0, <1>7, LeftStepBooks DEF Leave
<1> QED BY <1>3, <1>4, <1>5, <1>6, <1>7

LEMMA BooksNext ==
    ASSUME IInv, [Next]_vars
    PROVE  Books'
<1>0. FileTypes /\ JobTypes
    BY TypeParts DEF IInv
<1>1. ASSUME NEW w \in Workers, Begin(w) \/ Serve(w) PROVE Books'
    BY <1>1, BeginBooks, OpeningBooks, InsertBooks, ReadingBooks DEF Serve
<1>2. ASSUME NEW f \in Cached, Expire(f) PROVE Books'
    <2>1. UNCHANGED <<cache, cleaning, job>> /\ files' = [files EXCEPT ![f].old = TRUE]
        BY <1>2 DEF Expire
    <2>2. \A g \in DOMAIN files : files[g] \in FileType
        BY <1>0, FilesAre
    <2>3. DOMAIN files' = DOMAIN files
          /\ \A g \in DOMAIN files : files'[g].state = files[g].state /\ files'[g].count = files[g].count
        BY <2>1, <2>2 DEF FileType
    <2>4. SamePlaces(Workers)
        BY <2>1 DEF SamePlaces
    <2> QED BY <2>1, <2>3, <2>4, GoesBooks
<1>3. CASE Replace
    <2>1. UNCHANGED <<cache, cleaning, files>>
        BY <1>3 DEF Replace
    <2>2. SamePlaces(Workers)
        <3>1. UNCHANGED job \/ job' = [w \in Workers |-> [job[w] EXCEPT !.missing = TRUE]]
            BY <1>3 DEF Replace
        <3>2. \A w \in Workers : job[w] \in JobType
            BY <1>0 DEF JobTypes
        <3> QED BY <3>1, <3>2 DEF SamePlaces, JobType
    <2> QED BY <2>1, <2>2, GoesBooks
<1>4. CASE UNCHANGED vars
    BY <1>4, GoesBooks DEF vars, SamePlaces, cleaning
<1> QED BY <1>1, <1>2, <1>3, <1>4, CleanBooks, ReleaseBooks DEF Next

-----------------------------------------------------------------------------
(* Bodies *)

(* What the body of a request depends on stays as it is. *)
SameShape(f) ==
    /\ files'[f].version = files[f].version /\ files'[f].gz = files[f].gz
    /\ files'[f].index = files[f].index /\ files'[f].length = files[f].length
SameBody(v) ==
    job'[v].pc \in {"reopen", "send", "close"} =>
        /\ job'[v].pc = job[v].pc /\ job'[v].file = job[v].file /\ job'[v].request = job[v].request
        /\ job'[v].reader = job[v].reader /\ job'[v].status = job[v].status /\ job'[v].body = job[v].body
        /\ SameShape(job[v].file)

LEMMA KeepsBody ==
    ASSUME IInv, UNCHANGED setting, Versions \subseteq Versions', NEW v \in Workers, SameBody(v)
    PROVE  Reading(v)' /\ HasRead(v)'
<1>0. Reading(v) /\ HasRead(v)
    BY DEF IInv, Bodies
<1>1. CASE job'[v].pc \notin {"reopen", "send", "close"}
    BY <1>1 DEF Reading, HasRead
<1>2. CASE job'[v].pc \in {"reopen", "send", "close"}
    <2> DEFINE f == job[v].file
    <2>1. /\ job'[v].pc = job[v].pc /\ job'[v].file = f /\ job'[v].request = job[v].request
          /\ job'[v].reader = job[v].reader /\ job'[v].status = job[v].status /\ job'[v].body = job[v].body
          /\ files'[f].version = files[f].version /\ files'[f].gz = files[f].gz
          /\ files'[f].index = files[f].index /\ files'[f].length = files[f].length
        BY <1>2 DEF SameBody, SameShape
    <2>2. isBig(f)' <=> isBig(f)
        BY <2>1 DEF isBig
    <2>3. Reading(v)'
        BY <1>0, <2>1, <2>2 DEF Reading, Ready
    <2>4. ASSUME NEW u \in Versions PROVE PieceAsked(v, u)' = PieceAsked(v, u)
        <3>1. Asked(v, files[f].length)' = Asked(v, files[f].length)
            <4>1. files[job'[v].file].length = files[f].length /\ files'[job'[v].file].length = files[f].length
                BY <2>1
            <4> QED BY <2>1, <4>1 DEF Asked
        <3>2. AskedIn(v, u)' = AskedIn(v, u)
            BY <2>1, <3>1 DEF AskedIn, Size
        <3> QED BY <2>1, <3>2, Zenon DEF PieceAsked
    <2>5. HasRead(v)'
        BY <1>0, <2>1, <2>2, <2>4 DEF HasRead
    <2> QED BY <2>3, <2>5
<1> QED BY <1>1, <1>2

(* What is asked for lies between the ends of what Send reads. *)
LEMMA AskedIs ==
    ASSUME IInv, NEW w \in Workers, job[w].pc = "send", NEW from \in Nat, NEW to \in Int, At(job[w]) = [from |-> from, to |-> to]
    PROVE  /\ to <= files[job[w].file].length - 1
           /\ Asked(w, files[job[w].file].length) = {k \in 0..(files[job[w].file].length - 1) : from <= k /\ k <= to}
<1> DEFINE j == job[w]
           n == files[j.file].length
           range == j.request.range
           Wanted(k) == \/ range.kind = "none" \/ ~setting.acceptByteRange
                        \/ range.kind = "suffix" /\ k >= n - range.last
                        \/ range.kind = "from" /\ k >= range.first
                        \/ range.kind = "both" /\ k >= range.first /\ k <= range.last
<1>0. j \in JobType /\ n \in Nat /\ j.reader.from = 0
    <2>1. j \in JobType /\ j.file \in DOMAIN files /\ FileTypes
        BY TypeParts, Before DEF IInv, Using
    <2>2. files[j.file] \in FileType
        BY <2>1, FilesAre
    <2>3. Reading(w)
        BY DEF IInv, Bodies
    <2> QED BY <2>1, <2>2, <2>3 DEF FileType, Reading, Ready
<1>1. Asked(w, n) = {k \in 0..(n - 1) : Wanted(k)}
    BY DEF Asked
<1>2. from = At(j).from /\ to = At(j).to
    OBVIOUS
<1>3. CASE ~Ranged(j)
    <2>1. from = 0 /\ to = n - 1
        <3>1. At(j) = [from |-> j.reader.from, to |-> n - 1]
            BY <1>3 DEF At
        <3> QED BY <1>0, <1>2, <3>1
    <2>2. \A k : Wanted(k)
        BY <1>3 DEF Ranged, NoRange
    <2> HIDE DEF Wanted, n
    <2>3. to <= n - 1 /\ Asked(w, n) = {k \in 0..(n - 1) : from <= k /\ k <= to}
        BY <1>0, <1>1, <2>1, <2>2
    <2> QED BY <2>3 DEF n
<1>4. CASE Ranged(j)
    <2>1. range \in [kind : RangeKinds, first : Nat, last : Nat] /\ setting.acceptByteRange
        <3>1. j.request \in Requests \cup {NoRequest} /\ NoRequest.range = NoRange
            BY <1>0 DEF JobType, NoRequest
        <3>2. j.request \in Requests
            BY <1>4, <3>1 DEF Ranged
        <3> QED BY <1>4, <3>2, FileServerAssumption DEF Ranged
    <2>2. At(j) = ParseByteRange(range, n) /\ At(j) # RangeError
        BY <1>2, <1>4 DEF At, RangeError
    <2> DEFINE until == IF range.kind = "both" THEN Least(range.last, n - 1) ELSE n - 1
               since == IF range.kind = "suffix" THEN n - Least(range.last, n) ELSE range.first
    <2>3. range.kind # "malformed" /\ At(j) = [from |-> since, to |-> until]
        BY <2>2 DEF ParseByteRange
    <2>4. from = since /\ to = until /\ range.first \in Nat /\ range.last \in Nat
        BY <1>2, <2>1, <2>3
    <2>5. range.kind \in {"suffix", "from", "both"}
        BY <2>1, <2>3 DEF RangeKinds
    <2>6. PICK first \in Nat, last \in Nat : first = range.first /\ last = range.last
        BY <2>4
    <2>7. /\ range.kind = "suffix" => from = n - Least(last, n) /\ to = n - 1 /\ \A k : Wanted(k) <=> k >= n - last
          /\ range.kind = "from" => from = first /\ to = n - 1 /\ \A k : Wanted(k) <=> k >= first
          /\ range.kind = "both" => from = first /\ to = Least(last, n - 1) /\ \A k : Wanted(k) <=> k >= first /\ k <= last
        BY <2>1, <2>4, <2>6
    <2> HIDE DEF Wanted, n, since, until
    <2>8. to <= n - 1
        BY <1>0, <2>5, <2>7 DEF Least
    <2>9. ASSUME NEW k \in 0..(n - 1) PROVE Wanted(k) <=> from <= k /\ k <= to
        BY <1>0, <2>5, <2>7 DEF Least
    <2> QED BY <1>1, <2>8, <2>9 DEF n
<1> QED BY <1>3, <1>4

LEMMA IntervalIs ==
    ASSUME NEW from \in Nat, NEW end \in Int, from < end
    PROVE  Cardinality(from..(end - 1)) = end - from /\ Min(from..(end - 1)) = from
<1>1. Cardinality(from..(end - 1)) = end - from
    BY FS_Interval
<1>2. from \in from..(end - 1) /\ \A y \in from..(end - 1) : from <= y
    OBVIOUS
<1>3. Min(from..(end - 1)) \in from..(end - 1) /\ \A y \in from..(end - 1) : Min(from..(end - 1)) <= y
    BY <1>2 DEF Min
<1> QED BY <1>1, <1>2, <1>3

(* The body that Send makes is the piece that was asked for. *)
LEMMA SentIsAsked ==
    ASSUME IInv, NEW w \in Workers, job[w].pc = "send", At(job[w]) # RangeError
    PROVE  PieceOf(job[w]) = <<>> \/ PieceOf(job[w]) = PieceAsked(w, job[w].reader.version)
<1> DEFINE j == job[w]
           f == j.file
           n == files[f].length
           v == j.reader.version
           gz == j.reader.gz
           size == Size(v, gz)
           elements == Versions \X BOOLEAN \X (Nat \ {0})
<1>0. SettingTypes /\ j \in JobType /\ n \in Nat /\ files[f].gz = gz
    <2>1. j \in JobType /\ j.file \in DOMAIN files /\ FileTypes /\ SettingTypes
        BY TypeParts, Before DEF IInv, Using
    <2>2. files[j.file] \in FileType
        BY <2>1, FilesAre
    <2>3. Reading(w)
        BY DEF IInv, Bodies
    <2> QED BY <2>1, <2>2, <2>3 DEF FileType, Reading, Ready
<1>1. PICK from \in Nat, to \in Int : At(j) = [from |-> from, to |-> to]
    BY <1>0, AtIs
<1> DEFINE end == EndAt(j, to)
<1>2. At(j).from = from /\ At(j).to = to
    BY <1>1
<1>3. /\ PieceOf(j) \in Piece /\ size \in Nat /\ end \in Int
      /\ Len(PieceOf(j)) = IF from + 1 <= end THEN end - from ELSE 0
      /\ \A k \in 1..end - from : PieceOf(j)[k] = <<v, gz, from + k>>
    BY <1>0, <1>2, PieceIs
<1>4. PieceOf(j) \in Seq(elements)
    BY <1>3 DEF Piece
<1>5. CASE ~(from < end)
    <2> HIDE DEF elements, end, size
    <2>1. Len(PieceOf(j)) = 0
        BY <1>3, <1>5
    <2> QED BY <1>4, <2>1, EmptySeq
<1>6. CASE from < end
    <2>1. AskedIn(w, v) = from..(end - 1)
        <3>1. to <= n - 1 /\ Asked(w, n) = {k \in 0..(n - 1) : from <= k /\ k <= to}
            BY <1>1, AskedIs
        <3>2. AskedIn(w, v) = Asked(w, n) \cap 0..(size - 1)
            BY <1>0 DEF AskedIn
        <3>3. end = IF to + 1 < size THEN to + 1 ELSE size
            BY Zenon DEF Least, EndAt
        <3>4. size \in Nat
            BY <1>3
        <3> HIDE DEF n, size, end
        <3> QED BY <1>0, <3>1, <3>2, <3>3, <3>4
    <2>2. Cardinality(AskedIn(w, v)) = end - from /\ Min(AskedIn(w, v)) = from
        <3> HIDE DEF end
        <3> QED BY <1>3, <1>6, <2>1, IntervalIs
    <2>3. PieceAsked(w, v) = [k \in 1..(end - from) |-> <<v, gz, from + k>>]
        BY <1>0, <2>2, Zenon DEF PieceAsked
    <2> HIDE DEF elements, end, size, v, gz
    <2>4. PICK p \in Seq(elements) : p = PieceOf(j)
        BY <1>4
    <2>5. Len(p) = end - from
        BY <1>3, <1>6, <2>4
    <2>6. p = [k \in 1..Len(p) |-> p[k]]
        BY SeqDef
    <2>7. \A k \in 1..(end - from) : p[k] = <<v, gz, from + k>>
        BY <1>3, <2>4
    <2>8. p = [k \in 1..(end - from) |-> <<v, gz, from + k>>]
        BY <2>5, <2>6, <2>7
    <2> QED BY <2>3, <2>4, <2>8 DEF v
<1> QED BY <1>5, <1>6

(* One request moves: the others go on with the files that they have. *)
LEMMA OthersBodies ==
    ASSUME IInv, UNCHANGED <<setting, latest>>, NEW w \in Workers, \A v \in Workers \ {w} : job'[v] = job[v],
           \A f \in Cached \cup pending : SameShape(f), ReadersWait', Reading(w)', HasRead(w)'
    PROVE  Bodies'
<1>1. ASSUME NEW v \in Workers \ {w} PROVE Reading(v)' /\ HasRead(v)'
    <2>1. CASE job[v].pc \in {"reopen", "send", "close"}
        <3>1. job[v].file \in Cached \cup pending
            BY <2>1, Before DEF Using
        <3> QED BY <3>1, KeepsBody, SameTypes DEF SameBody
    <2>2. CASE job[v].pc \notin {"reopen", "send", "close"}
        BY <2>2, KeepsBody, SameTypes DEF SameBody
    <2> QED BY <2>1, <2>2
<1> QED BY <1>1 DEF Bodies

LEMMA ReadersStay ==
    ASSUME IInv, \A f \in DOMAIN files' :
                    \/ f \in DOMAIN files /\ files'[f].idle = files[f].idle /\ files'[f].gz = files[f].gz
                    \/ files'[f].idle = <<>>
    PROVE  ReadersWait'
<1>1. ReadersWait
    BY DEF IInv, Bodies
<1>2. DOMAIN <<>> = {}
    OBVIOUS
<1>3. ASSUME NEW f \in DOMAIN files', NEW i \in DOMAIN files'[f].idle PROVE Ready(f, files[f].idle[i])' 
    BY <1>1, <1>2 DEF ReadersWait, Ready
<1> QED BY <1>3 DEF ReadersWait

(* A step that neither reads nor changes a file that is read. *)
LEMMA QuietBodies ==
    ASSUME IInv, UNCHANGED <<setting, latest>>, NEW w \in Workers, \A v \in Workers \ {w} : job'[v] = job[v],
           job'[w].pc \notin {"reopen", "send", "close"},
           \A f \in DOMAIN files : \/ SameShape(f) /\ files'[f].idle = files[f].idle
                                   \/ f \notin Cached \cup pending /\ files'[f].idle = <<>>,
           \A f \in DOMAIN files' \ DOMAIN files : files'[f].idle = <<>>
    PROVE  Bodies'
<1>1. ReadersWait'
    BY ReadersStay DEF SameShape
<1>2. Reading(w)' /\ HasRead(w)'
    BY DEF Reading, HasRead
<1>3. \A f \in Cached \cup pending : SameShape(f)
    BY BooksAre DEF Kept
<1> QED BY <1>1, <1>2, <1>3, OthersBodies

LEMMA OpeningBodies ==
    ASSUME IInv, NEW w \in Workers,
           \/ Open(w) \/ OpenGz(w) \/ Compare(w) \/ RemoveStale(w) \/ OpenOriginal(w) \/ Lock(w)
           \/ Rename(w) \/ OpenNew(w)
    PROVE  Bodies'
<1>0. FileTypes /\ JobTypes /\ job[w] \in JobType /\ UNCHANGED <<setting, latest>>
    <2>1. UNCHANGED <<setting, latest>>
        BY DEF Open, OpenGz, Compare, RemoveStale, OpenOriginal, Lock, Rename, OpenNew, disk
    <2> QED BY <2>1, TypeParts, Before DEF IInv
<1> DEFINE Quiet == (\A v \in Workers \ {w} : job'[v] = job[v]) /\ job'[w].pc \notin {"reopen", "send", "close"}
           Old == files' = files \/ \E r : files' = Append(files, r) /\ r.idle = <<>>
<1>1. ASSUME NEW place \in {"compress", "remove", "openNew", "rename"}, UNCHANGED files, Goes(w, place) PROVE Quiet /\ Old
    BY <1>0, <1>1 DEF Goes, JobTypes, JobType
<1>2. ASSUME NEW status, Answered(w, status) PROVE Quiet
    BY <1>0, <1>2 DEF Answered, JobTypes, Idle
<1>3. ASSUME NEW version, NEW gz, NEW index, Made(w, version, gz, index) PROVE Quiet /\ Old
    BY <1>0, <1>3 DEF Made, JobTypes, JobType, Opened
<1>4. ASSUME Failed(w) PROVE Quiet /\ Old
    BY <1>2, <1>4 DEF Failed
<1>5. ASSUME NEW version, NEW gz, NewFile(w, version, gz) PROVE Quiet /\ Old
    <2>1. CASE setting.unknown
        <3>1. [Opened(version, gz, FALSE) EXCEPT !.state = "lost"].idle = <<>>
            BY DEF Opened
        <3>2. Old
            BY <1>5, <2>1, <3>1 DEF NewFile
        <3>3. \E status : Answered(w, status)
            BY <1>5, <2>1 DEF NewFile
        <3> QED BY <1>2, <3>2, <3>3
    <2>2. CASE ~setting.unknown
        BY <1>3, <1>5, <2>2 DEF NewFile
    <2> QED BY <2>1, <2>2
<1>6. ASSUME Missing(w) PROVE Quiet /\ Old
    BY <1>3, <1>4, <1>6 DEF Missing
<1>7. ASSUME NEW place \in {"lock", "compare"}, NEW version, UNCHANGED files,
             job' = [job EXCEPT ![w].pc = place, ![w].fd = version]
      PROVE  Quiet /\ Old
    BY <1>0, <1>7 DEF JobTypes, JobType
<1>8. ASSUME UNCHANGED files, job' = [job EXCEPT ![w].pc = "open", ![w].must = FALSE, ![w].fd = None]
      PROVE  Quiet /\ Old
    BY <1>0, <1>8 DEF JobTypes, JobType
<1> HIDE DEF Quiet, Old
<1>9. Quiet /\ Old
    <2>1. CASE Open(w)
        BY <2>1, <1>5, <1>6 DEF Open
    <2>2. CASE OpenGz(w)
        BY <2>2, <1>1, <1>7 DEF OpenGz
    <2>3. CASE Compare(w)
        BY <2>3, <1>1, <1>4, <1>5 DEF Compare
    <2>4. CASE RemoveStale(w)
        BY <2>4, <1>1 DEF RemoveStale
    <2>5. CASE OpenOriginal(w)
        BY <2>5, <1>5, <1>6, <1>7 DEF OpenOriginal
    <2>6. CASE Lock(w)
        BY <2>6, <1>1, <1>4, <1>8 DEF Lock
    <2>7. CASE Rename(w)
        BY <2>7, <1>1 DEF Rename
    <2>8. CASE OpenNew(w)
        BY <2>8, <1>4, <1>5 DEF OpenNew
    <2> QED BY <2>1, <2>2, <2>3, <2>4, <2>5, <2>6, <2>7, <2>8
<1>10. /\ \A f \in DOMAIN files : SameShape(f) /\ files'[f].idle = files[f].idle
       /\ \A f \in DOMAIN files' \ DOMAIN files : files'[f].idle = <<>>
    <2>1. CASE files' = files
        BY <2>1 DEF SameShape
    <2>2. ASSUME NEW r, files' = Append(files, r), r.idle = <<>>
          PROVE  /\ \A f \in DOMAIN files : SameShape(f) /\ files'[f].idle = files[f].idle
                 /\ \A f \in DOMAIN files' \ DOMAIN files : files'[f].idle = <<>>
        <3>1. files \in Seq(FileType) /\ Len(files) \in Nat /\ DOMAIN files = 1..Len(files)
            BY <1>0, FilesAre DEF FileTypes
        <3>2. /\ DOMAIN files' = 1..(Len(files) + 1)
              /\ \A f \in 1..Len(files) : files'[f] = files[f]
              /\ files'[Len(files) + 1] = r
            BY <2>2, <3>1
        <3>3. DOMAIN files' \ DOMAIN files = {Len(files) + 1}
            BY <3>1, <3>2
        <3> QED BY <2>2, <3>1, <3>2, <3>3 DEF SameShape
    <2> QED BY <1>9, <2>1, <2>2 DEF Old
<1> QED BY <1>0, <1>9, <1>10, QuietBodies DEF Quiet

LEMMA BeginBodies ==
    ASSUME IInv, NEW w \in Workers, Begin(w)
    PROVE  Bodies'
<1>0. FileTypes /\ JobTypes /\ UNCHANGED <<setting, latest>>
    BY TypeParts DEF IInv, Begin, disk
<1> DEFINE Quiet == (\A v \in Workers \ {w} : job'[v] = job[v]) /\ job'[w].pc \notin {"reopen", "send", "close"}
<1>1. Quiet /\ (files' = files \/ \E c \in Caches : cache[c] # None /\ files' = Taken(cache[c]))
    <2> DEFINE rest == Idle(job[w].left - 1)
    <2>1. PICK r \in setting.kinds :
              LET must == r.compress /\ setting.compress /\ r.range = NoRange
                  name == IF must THEN "gz" ELSE "plain"
                  f == cache[name]
                  begun == [rest EXCEPT !.request = r, !.must = must, !.cache = name, !.missing = original = None]
              IN \/ /\ job' = [job EXCEPT ![w] = [Idle(@.left - 1) EXCEPT !.status = Refusal(r)]]
                    /\ UNCHANGED files
                 \/ /\ Refusal(r) = None /\ f # None
                    /\ files' = Taken(f)
                    /\ job' = [job EXCEPT ![w] = [begun EXCEPT !.pc = "use", !.file = f]]
                 \/ /\ Refusal(r) = None /\ f = None
                    /\ job' = [job EXCEPT ![w] = [begun EXCEPT !.pc = IF must THEN "openGz" ELSE "open"]]
                    /\ UNCHANGED files
        BY Zenon DEF Begin
    <2> DEFINE must == r.compress /\ setting.compress /\ r.range = NoRange
               name == IF must THEN "gz" ELSE "plain"
               f == cache[name]
               begun == [rest EXCEPT !.request = r, !.must = must, !.cache = name, !.missing = original = None]
               place == IF must THEN "openGz" ELSE "open"
    <2>2. \/ job' = [job EXCEPT ![w] = [rest EXCEPT !.status = Refusal(r)]] /\ UNCHANGED files
          \/ f # None /\ files' = Taken(f) /\ job' = [job EXCEPT ![w] = [begun EXCEPT !.pc = "use", !.file = f]]
          \/ job' = [job EXCEPT ![w] = [begun EXCEPT !.pc = place]] /\ UNCHANGED files
        BY <2>1
    <2>3. place \in {"openGz", "open"} /\ name \in Caches
        BY DEF Caches
    <2>4. /\ [rest EXCEPT !.status = Refusal(r)].pc = "idle"
          /\ [begun EXCEPT !.pc = place].pc = place
          /\ [begun EXCEPT !.pc = "use", !.file = f].pc = "use"
        BY DEF Idle
    <2> HIDE DEF rest, must, name, begun, place
    <2> QED BY <1>0, <2>2, <2>3, <2>4 DEF JobTypes
<1> HIDE DEF Quiet
<1>2. \A f \in DOMAIN files : SameShape(f) /\ files'[f].idle = files[f].idle
    <2>1. \A f \in DOMAIN files : files[f] \in FileType
        BY <1>0, FilesAre
    <2>2. CASE files' = files
        BY <2>2 DEF SameShape
    <2>3. ASSUME NEW h, files' = Taken(h) PROVE \A f \in DOMAIN files : SameShape(f) /\ files'[f].idle = files[f].idle
        BY <2>1, <2>3 DEF Taken, FileType, SameShape
    <2> QED BY <1>1, <2>2, <2>3
<1>3. DOMAIN files' = DOMAIN files
    BY <1>1 DEF Taken
<1> QED BY <1>0, <1>1, <1>2, <1>3, QuietBodies DEF Quiet

LEMMA InsertBodies ==
    ASSUME IInv, NEW w \in Workers, Insert(w)
    PROVE  Bodies'
<1> DEFINE f == job[w].file
           other == cache[job[w].cache]
<1>0. /\ FileTypes /\ JobTypes /\ job[w] \in JobType /\ job[w].pc = "insert" /\ f \in DOMAIN files /\ f \notin Kept
      /\ job[w].cache \in Caches /\ UNCHANGED <<setting, latest>> /\ \A g \in DOMAIN files : files[g] \in FileType
    <2>1. job[w].pc = "insert" /\ UNCHANGED <<setting, latest>>
        BY DEF Insert, disk
    <2>2. FileTypes /\ JobTypes /\ job[w] \in JobType
        BY TypeParts, Before DEF IInv
    <2> QED BY <2>1, <2>2, MadeIsAlone, FilesAre DEF JobType
<1>1. (\A v \in Workers \ {w} : job'[v] = job[v]) /\ job'[w].pc = "use"
    BY <1>0 DEF Insert, Goes, JobTypes, JobType
<1>2. files' = Taken(f) \/ files' = Closed(Taken(other), {f})
    BY DEF Insert, Loser
<1>3. DOMAIN files' = DOMAIN files
    BY <1>2 DEF Closed, Taken
<1>4. ASSUME NEW g \in DOMAIN files
      PROVE  \/ SameShape(g) /\ files'[g].idle = files[g].idle
             \/ g \notin Cached \cup pending /\ files'[g].idle = <<>>
    <2>1. ASSUME NEW h PROVE /\ Taken(h)[g].version = files[g].version /\ Taken(h)[g].gz = files[g].gz
                             /\ Taken(h)[g].index = files[g].index /\ Taken(h)[g].length = files[g].length
                             /\ Taken(h)[g].idle = files[g].idle /\ DOMAIN Taken(h) = DOMAIN files
        BY <1>0 DEF Taken, FileType
    <2>2. CASE files' = Taken(f)
        BY <2>1, <2>2 DEF SameShape
    <2>3. CASE files' = Closed(Taken(other), {f}) /\ g # f
        BY <2>1, <2>3 DEF SameShape, Closed
    <2>4. CASE files' = Closed(Taken(other), {f}) /\ g = f
        <3>1. files'[g] = [Opened(None, FALSE, FALSE) EXCEPT !.state = "closed", !.count = Taken(other)[g].count]
            BY <2>1, <2>4 DEF Closed
        <3>2. files'[g].idle = <<>>
            BY <3>1 DEF Opened
        <3> QED BY <1>0, <2>4, <3>2 DEF Kept
    <2> QED BY <1>2, <2>2, <2>3, <2>4
<1> QED BY <1>0, <1>1, <1>3, <1>4, QuietBodies

(* Readers come from a file, and go back to it. *)
LEMMA ReadsBodies ==
    ASSUME IInv, UNCHANGED <<setting, latest>>, NEW w \in Workers, NEW f, f = job[w].file, f \in DOMAIN files,
           NEW reader, Reads(w, reader), Ready(f, reader), ~isBig(f) => reader.version = files[f].version,
           \A g \in DOMAIN files : SameShape(g), ReadersWait'
    PROVE  Bodies'
<1>0. JobTypes /\ job[w] \in JobType
    BY TypeParts, Before DEF IInv
<1>1. /\ \A v \in Workers \ {w} : job'[v] = job[v]
      /\ job'[w].pc = "send" /\ job'[w].file = f /\ job'[w].reader = reader
    BY <1>0 DEF Reads, JobTypes, JobType
<1>2. Reading(w)' /\ HasRead(w)'
    BY <1>1 DEF Reading, HasRead, Ready, isBig, SameShape
<1>3. \A g \in Cached \cup pending : SameShape(g)
    BY BooksAre DEF Kept
<1> QED BY <1>1, <1>2, <1>3, OthersBodies

LEMMA UseBodies ==
    ASSUME IInv, NEW w \in Workers, Use(w)
    PROVE  Bodies'
<1>0. PICK f : f = job[w].file
    OBVIOUS
<1>1. /\ FileTypes /\ JobTypes /\ job[w] \in JobType /\ job[w].pc = "use" /\ f \in DOMAIN files
      /\ UNCHANGED <<setting, latest>> /\ \A g \in DOMAIN files : files[g] \in FileType
    <2>1. job[w].pc = "use" /\ UNCHANGED <<setting, latest>>
        BY DEF Use, disk
    <2> QED BY <1>0, <2>1, TypeParts, Before, FilesAre DEF IInv, Using
<1>2. CASE NotModified(w)
    <2>1. (\A v \in Workers \ {w} : job'[v] = job[v]) /\ job'[w].pc = "idle"
        BY <1>1, <1>2 DEF NotModified, Answered, Idle, JobTypes
    <2>2. DOMAIN files' = DOMAIN files /\ \A g \in DOMAIN files : SameShape(g) /\ files'[g].idle = files[g].idle
        BY <1>1, <1>2 DEF NotModified, Left, FileType, SameShape
    <2> QED BY <1>1, <2>1, <2>2, QuietBodies
<1>3. CASE ~isBig(f) /\ Reads(w, Reader(files[f].version, files[f].gz, files[f].length)) /\ UNCHANGED files
    <2>1. PICK reader : reader = Reader(files[f].version, files[f].gz, files[f].length)
        OBVIOUS
    <2>2. Ready(f, reader) /\ reader.version = files[f].version
        BY <2>1 DEF Reader, Ready
    <2>3. ReadersWait' /\ \A g \in DOMAIN files : SameShape(g)
        BY <1>3, ReadersStay DEF SameShape
    <2>4. Reads(w, reader)
        BY <1>3, <2>1
    <2> QED BY <1>0, <1>1, <2>2, <2>3, <2>4, ReadsBodies
<1>4. CASE isBig(f) /\ Goes(w, "reopen") /\ UNCHANGED files
    <2>1. /\ \A v \in Workers \ {w} : job'[v] = job[v]
          /\ job'[w].pc = "reopen" /\ job'[w].file = f
        BY <1>0, <1>1, <1>4 DEF Goes, JobTypes, JobType
    <2>2. Reading(w)' /\ HasRead(w)'
        BY <1>4, <2>1 DEF Reading, HasRead, isBig
    <2>3. ReadersWait' /\ \A g \in Cached \cup pending : SameShape(g)
        BY <1>4, ReadersStay DEF SameShape
    <2> QED BY <1>1, <2>1, <2>2, <2>3, OthersBodies
<1>5. CASE /\ isBig(f) /\ files[f].idle # <<>>
           /\ files' = [files EXCEPT ![f].idle = Front(files[f].idle)] /\ Reads(w, Last(files[f].idle))
    <2>1. PICK idle \in Seq(ReaderType) : idle = files[f].idle /\ idle # <<>>
        BY <1>1, <1>5 DEF FileType
    <2>2. /\ Last(idle) = idle[Len(idle)] /\ Len(idle) \in DOMAIN idle
          /\ \A i \in DOMAIN Front(idle) : i \in DOMAIN idle /\ Front(idle)[i] = idle[i]
        BY <2>1, FrontIs
    <2>3. PICK reader, front : reader = Last(idle) /\ front = Front(idle)
        OBVIOUS
    <2>4. ReadersWait
        BY DEF IInv, Bodies
    <2>5. Ready(f, reader) /\ \A i \in DOMAIN front : Ready(f, front[i])
        BY <1>1, <2>1, <2>2, <2>3, <2>4 DEF ReadersWait
    <2>6. files' = [files EXCEPT ![f].idle = front] /\ Reads(w, reader)
        BY <1>5, <2>1, <2>3
    <2>7. /\ DOMAIN files' = DOMAIN files /\ \A g \in DOMAIN files : SameShape(g)
          /\ \A g \in DOMAIN files : files'[g].idle = IF g = f THEN front ELSE files[g].idle
        BY <1>1, <2>6 DEF FileType, SameShape
    <2>8. ReadersWait'
        BY <2>4, <2>5, <2>7 DEF ReadersWait, Ready, SameShape
    <2> QED BY <1>0, <1>1, <1>5, <2>5, <2>6, <2>7, <2>8, ReadsBodies
<1> QED BY <1>0, <1>2, <1>3, <1>4, <1>5 DEF Use

LEMMA ReopenBodies ==
    ASSUME IInv, NEW w \in Workers, Reopen(w)
    PROVE  Bodies'
<1>0. PICK f : f = job[w].file
    OBVIOUS
<1>1. /\ FileTypes /\ JobTypes /\ job[w] \in JobType /\ job[w].pc = "reopen" /\ f \in DOMAIN files /\ isBig(f)
      /\ UNCHANGED <<setting, latest>> /\ \A g \in DOMAIN files : files[g] \in FileType
    <2>1. job[w].pc = "reopen" /\ UNCHANGED <<setting, latest>>
        BY DEF Reopen, disk
    <2>2. Reading(w)
        BY DEF IInv, Bodies
    <2> QED BY <1>0, <2>1, <2>2, TypeParts, Before, FilesAre DEF IInv, Using, Reading
<1>2. CASE files' = Left(f) /\ Answered(w, 500)
    <2>1. (\A v \in Workers \ {w} : job'[v] = job[v]) /\ job'[w].pc = "idle"
        BY <1>1, <1>2 DEF Answered, Idle, JobTypes
    <2>2. DOMAIN files' = DOMAIN files /\ \A g \in DOMAIN files : SameShape(g) /\ files'[g].idle = files[g].idle
        BY <1>1, <1>2 DEF Left, FileType, SameShape
    <2> QED BY <1>1, <2>1, <2>2, QuietBodies
<1>3. CASE UNCHANGED files /\ \E there, length : Reads(w, Reader(there, files[f].gz, length))
    <2>1. PICK there, length : Reads(w, Reader(there, files[f].gz, length))
        BY <1>3
    <2>2. PICK reader : reader = Reader(there, files[f].gz, length)
        OBVIOUS
    <2>3. Ready(f, reader)
        BY <2>2 DEF Reader, Ready
    <2>4. ReadersWait' /\ \A g \in DOMAIN files : SameShape(g)
        BY <1>3, ReadersStay DEF SameShape
    <2> QED BY <1>0, <1>1, <2>1, <2>2, <2>3, <2>4, ReadsBodies
<1> QED BY <1>0, <1>2, <1>3 DEF Reopen

LEMMA SendBodies ==
    ASSUME IInv, NEW w \in Workers, Send(w)
    PROVE  Bodies'
<1>a. PICK j : j = job[w]
    OBVIOUS
<1> DEFINE f == j.file
<1>0. /\ j = job[w] /\ FileTypes /\ JobTypes /\ j \in JobType /\ j.pc = "send" /\ f \in DOMAIN files /\ UNCHANGED <<setting, latest, files>>
      /\ SettingTypes /\ files[f].length \in Nat
    <2>1. j.pc = "send" /\ UNCHANGED <<setting, latest, files>>
        BY <1>a, SendIs
    <2>2. FileTypes /\ JobTypes /\ SettingTypes /\ j \in JobType /\ f \in DOMAIN files
        BY <1>a, <2>1, TypeParts, Before DEF IInv, Using
    <2>3. files[f] \in FileType
        BY <2>2, FilesAre
    <2> QED BY <1>a, <2>1, <2>2, <2>3 DEF FileType
<1>1. Ready(f, j.reader) /\ (~isBig(f) => j.reader.version = files[f].version)
    <2>1. Reading(w)
        BY DEF IInv, Bodies
    <2> QED BY <1>0, <2>1 DEF Reading
<1>2. ReadersWait' /\ \A g \in Cached \cup pending : SameShape(g)
    BY <1>0, ReadersStay DEF SameShape
<1>3. ASSUME NEW status \in {416, 500}, Refuses(w, status)
      PROVE  (\A v \in Workers \ {w} : job'[v] = job[v]) /\ Reading(w)' /\ HasRead(w)'
    <2>1. /\ \A v \in Workers \ {w} : job'[v] = job[v]
          /\ job'[w].pc = "close" /\ job'[w].file = f /\ job'[w].reader = j.reader /\ job'[w].status = status
        BY <1>0, <1>3 DEF Refuses, JobTypes, JobType
    <2>2. Reading(w)'
        BY <2>1 DEF Reading
    <2>3. HasRead(w)'
        BY <1>0, <1>1, <2>1 DEF HasRead, Ready
    <2> QED BY <2>1, <2>2, <2>3
<1>4. ASSUME NEW piece, NEW status, SendsPiece(w, piece, status)
      PROVE  (\A v \in Workers \ {w} : job'[v] = job[v]) /\ Reading(w)' /\ HasRead(w)'
    <2>0. PICK v : v = j.reader.version
        OBVIOUS
    <2>1. At(j) # RangeError /\ piece \in {<<>>, PieceOf(j)}
        BY <1>0, <1>4 DEF SendsPiece
    <2>2. piece = <<>> \/ piece = PieceAsked(w, v)
        BY <1>0, <2>0, <2>1, SentIsAsked
    <2>3. PICK reader : reader = [ReaderAt(j) EXCEPT !.from = @ + Len(piece)]
        OBVIOUS
    <2>4. reader.gz = files[f].gz /\ v \in Versions
        <3>1. j.reader \in ReaderType /\ j.reader.gz = files[f].gz
            BY <1>0, <1>1 DEF JobType, Ready
        <3>2. ReaderAt(j).gz = j.reader.gz
            BY <3>1 DEF ReaderAt, ReaderType
        <3> QED BY <2>0, <2>3, <3>1, <3>2 DEF ReaderAt, ReaderType
    <2>5. job' = [job EXCEPT ![w] = [j EXCEPT !.pc = "close", !.status = status, !.body = piece, !.reader = reader]]
        BY <1>0, <1>4, <2>3, Zenon DEF SendsPiece
    <2>6. /\ \A u \in Workers \ {w} : job'[u] = job[u]
          /\ job'[w].pc = "close" /\ job'[w].file = f /\ job'[w].reader = reader /\ job'[w].body = piece
          /\ job'[w].request = j.request
        BY <1>0, <2>5 DEF JobTypes, JobType
    <2>7. Reading(w)'
        BY <2>6 DEF Reading
    <2>8. PieceAsked(w, v)' = PieceAsked(w, v)
        <3>1. files'[job'[w].file] = files[f]
            BY <1>0, <2>6
        <3>2. Asked(w, files[f].length)' = Asked(w, files[f].length)
            BY <1>0, <2>6, <3>1 DEF Asked
        <3>3. AskedIn(w, v)' = AskedIn(w, v)
            BY <1>0, <2>6, <3>1, <3>2 DEF AskedIn, Size
        <3> QED BY <1>0, <3>1, <3>3, Zenon DEF PieceAsked
    <2>9. HasRead(w)'
        <3>1. isBig(f)' <=> isBig(f)
            BY <1>0 DEF isBig
        <3>2. Versions' = Versions
            BY <1>0 DEF Versions
        <3>3. ~isBig(f) => v = files[f].version
            BY <1>1, <2>0
        <3> QED BY <1>0, <2>2, <2>4, <2>6, <2>8, <3>1, <3>2, <3>3 DEF HasRead
    <2> QED BY <2>6, <2>7, <2>9
<1>5. (\A v \in Workers \ {w} : job'[v] = job[v]) /\ Reading(w)' /\ HasRead(w)'
    BY <1>3, <1>4, SendIs
<1> QED BY <1>0, <1>2, <1>5, OthersBodies

LEMMA CloseBodies ==
    ASSUME IInv, NEW w \in Workers, Close(w)
    PROVE  Bodies'
<1>0. PICK f : f = job[w].file
    OBVIOUS
<1>1. /\ FileTypes /\ JobTypes /\ SettingTypes /\ job[w] \in JobType /\ job[w].pc = "close" /\ f \in DOMAIN files
      /\ UNCHANGED <<setting, latest>> /\ \A g \in DOMAIN files : files[g] \in FileType
    <2>1. job[w].pc = "close" /\ UNCHANGED <<setting, latest>>
        BY DEF Close, disk
    <2> QED BY <1>0, <2>1, TypeParts, Before, FilesAre DEF IInv, Using
<1>2. job[w].reader.gz = files[f].gz /\ job[w].reader \in ReaderType
    <2>1. HasRead(w)
        BY DEF IInv, Bodies
    <2> QED BY <1>0, <1>1, <2>1 DEF HasRead, JobType
<1>3. (\A v \in Workers \ {w} : job'[v] = job[v]) /\ job'[w].pc = "leave"
    <2>1. PICK status : job' = [job EXCEPT ![w] = [job[w] EXCEPT !.pc = "leave", !.reader = NoReader, !.status = status]]
        BY CloseIs
    <2>2. PICK r : r = [job[w] EXCEPT !.pc = "leave", !.reader = NoReader, !.status = status]
        OBVIOUS
    <2>3. r.pc = "leave"
        BY <1>1, <2>2 DEF JobType
    <2> QED BY <1>1, <2>1, <2>2, <2>3 DEF JobTypes
<1>4. Reading(w)' /\ HasRead(w)'
    BY <1>3 DEF Reading, HasRead
<1>5. CASE UNCHANGED files
    BY <1>1, <1>3, <1>4, <1>5, ReadersStay, OthersBodies DEF SameShape
<1>6. CASE files' = [files EXCEPT ![f].idle = Append(@, Rewound(job[w].reader))]
    <2>1. PICK idle \in Seq(ReaderType) : idle = files[f].idle
        BY <1>1 DEF FileType
    <2>2. PICK back : back = Rewound(job[w].reader)
        OBVIOUS
    <2>3. Ready(f, back) /\ back \in ReaderType
        <3>1. Size(job[w].reader.version, job[w].reader.gz) - 1 \in Int
            BY <1>1, <1>2, SettingIs DEF ReaderType
        <3>2. \A to \in Int : [job[w].reader EXCEPT !.from = 0, !.to = to] \in ReaderType
                              /\ Ready(f, [job[w].reader EXCEPT !.from = 0, !.to = to])
            BY <1>2 DEF ReaderType, Ready
        <3> QED BY <2>2, <3>1, <3>2 DEF Rewound
    <2>4. PICK more \in Seq(ReaderType) : more = Append(idle, back)
        BY <2>3, AppendProperties
    <2>5. files' = [files EXCEPT ![f].idle = more]
        BY <1>6, <2>1, <2>2, <2>4
    <2>6. /\ DOMAIN files' = DOMAIN files /\ \A g \in DOMAIN files : SameShape(g)
          /\ \A g \in DOMAIN files : files'[g].idle = IF g = f THEN more ELSE files[g].idle
        BY <1>1, <2>5 DEF FileType, SameShape
    <2>7. ReadersWait
        BY DEF IInv, Bodies
    <2>8. \A i \in DOMAIN more : Ready(f, more[i])
        <3>1. \A i \in DOMAIN idle : Ready(f, idle[i])
            BY <1>1, <2>1, <2>7 DEF ReadersWait
        <3>2. /\ Len(more) = Len(idle) + 1 /\ \A i \in 1..Len(idle) : more[i] = idle[i]
              /\ more[Len(idle) + 1] = back
            BY <2>3, <2>4, AppendProperties
        <3>3. Len(idle) \in Nat /\ DOMAIN idle = 1..Len(idle) /\ DOMAIN more = 1..Len(more)
            BY <2>1, <2>4
        <3> QED BY <2>3, <3>1, <3>2, <3>3
    <2>9. ReadersWait'
        BY <2>6, <2>7, <2>8 DEF ReadersWait, Ready, SameShape
    <2>10. \A g \in Cached \cup pending : SameShape(g)
        BY <2>6, BooksAre DEF Kept
    <2> QED BY <1>1, <1>3, <1>4, <2>9, <2>10, OthersBodies
<1> QED BY <1>0, <1>5, <1>6 DEF Close

LEMMA LeaveBodies ==
    ASSUME IInv, NEW w \in Workers, Leave(w)
    PROVE  Bodies'
<1>1. FileTypes /\ JobTypes /\ UNCHANGED <<setting, latest>> /\ \A g \in DOMAIN files : files[g] \in FileType
    BY TypeParts, FilesAre DEF IInv, Leave, disk
<1>2. (\A v \in Workers \ {w} : job'[v] = job[v]) /\ job'[w].pc = "idle"
    BY <1>1 DEF Leave, Finished, Idle, JobTypes
<1>3. DOMAIN files' = DOMAIN files /\ \A g \in DOMAIN files : SameShape(g) /\ files'[g].idle = files[g].idle
    BY <1>1 DEF Leave, Left, FileType, SameShape
<1> QED BY <1>1, <1>2, <1>3, QuietBodies

(* No request moves. *)
LEMMA StillBodies ==
    ASSUME IInv, UNCHANGED setting, Versions \subseteq Versions',
           \A v \in Workers : \/ job'[v] = job[v]
                              \/ job'[v] = [job[v] EXCEPT !.missing = TRUE],
           \A f \in Cached \cup pending : SameShape(f), ReadersWait'
    PROVE  Bodies'
<1>1. ASSUME NEW v \in Workers PROVE SameBody(v)
    <2>1. /\ job'[v].pc = job[v].pc /\ job'[v].file = job[v].file /\ job'[v].request = job[v].request
          /\ job'[v].reader = job[v].reader /\ job'[v].status = job[v].status /\ job'[v].body = job[v].body
        <3>1. job[v] \in JobType
            BY Before
        <3> QED BY <3>1 DEF JobType
    <2>2. job[v].pc \in {"reopen", "send", "close"} => job[v].file \in Cached \cup pending
        BY Before DEF Using
    <2> QED BY <2>1, <2>2 DEF SameBody
<1> QED BY <1>1, KeepsBody DEF Bodies

LEMMA BodiesNext ==
    ASSUME IInv, [Next]_vars
    PROVE  Bodies'
<1>0. FileTypes /\ JobTypes /\ \A f \in DOMAIN files : files[f] \in FileType
    BY TypeParts, FilesAre DEF IInv
<1>1. ASSUME NEW w \in Workers, Begin(w) \/ Serve(w) PROVE Bodies'
    BY <1>1, BeginBodies, OpeningBodies, InsertBodies, UseBodies, ReopenBodies, SendBodies, CloseBodies, LeaveBodies DEF Serve
<1>2. ASSUME NEW f \in Cached, Expire(f) PROVE Bodies'
    <2>1. UNCHANGED <<setting, latest, job>> /\ files' = [files EXCEPT ![f].old = TRUE]
        BY <1>2 DEF Expire, disk
    <2>2. DOMAIN files' = DOMAIN files /\ \A g \in DOMAIN files : SameShape(g) /\ files'[g].idle = files[g].idle
        BY <1>0, <2>1 DEF FileType, SameShape
    <2>3. ReadersWait'
        BY <2>2, ReadersStay DEF SameShape
    <2>4. \A g \in Cached \cup pending : SameShape(g)
        BY <2>2, BooksAre DEF Kept
    <2> QED BY <2>1, <2>3, <2>4, StillBodies, SameTypes
<1>3. ASSUME Clean \/ UNCHANGED vars PROVE Bodies'
    <2>1. UNCHANGED <<setting, latest, job, files>>
        BY <1>3 DEF Clean, vars, disk
    <2>2. ReadersWait' /\ \A g \in Cached \cup pending : SameShape(g)
        BY <2>1, ReadersStay DEF SameShape
    <2> QED BY <2>1, <2>2, StillBodies, SameTypes
<1>4. CASE Release
    <2>1. UNCHANGED <<setting, latest, job>> /\ files' = Closed(files, releasing)
        BY <1>4 DEF Release, disk
    <2>2. DOMAIN files' = DOMAIN files
        BY <2>1 DEF Closed
    <2>3. \A g \in DOMAIN files \ releasing : files'[g] = files[g]
        BY <2>1 DEF Closed
    <2>4. \A g \in DOMAIN files \cap releasing : files'[g].idle = <<>>
        BY <2>1 DEF Closed, Opened
    <2>5. ReadersWait'
        BY <2>2, <2>3, <2>4, ReadersStay
    <2>6. (Cached \cup pending) \cap releasing = {} /\ Cached \cup pending \subseteq DOMAIN files
        BY BooksAre DEF Lists, Kept, Cached
    <2>7. \A g \in Cached \cup pending : SameShape(g)
        BY <2>3, <2>6 DEF SameShape
    <2> QED BY <2>1, <2>5, <2>7, StillBodies, SameTypes
<1>5. CASE Replace
    <2>1. UNCHANGED <<setting, files>> /\ (UNCHANGED job \/ job' = [w \in Workers |-> [job[w] EXCEPT !.missing = TRUE]])
        BY <1>5 DEF Replace
    <2>2. ReadersWait' /\ \A g \in Cached \cup pending : SameShape(g)
        BY <2>1, ReadersStay DEF SameShape
    <2>3. \A v \in Workers : job'[v] = job[v] \/ job'[v] = [job[v] EXCEPT !.missing = TRUE]
        BY <2>1
    <2>4. Versions \subseteq Versions'
        BY <1>5, ReplaceTypes
    <2> QED BY <2>1, <2>2, <2>3, <2>4, StillBodies
<1> QED BY <1>1, <1>2, <1>3, <1>4, <1>5 DEF Next

-----------------------------------------------------------------------------
(* Theorems *)

LEMMA FileServerInit == Init => IInv
<1> SUFFICES ASSUME Init PROVE IInv
    OBVIOUS
<1>1. SettingTypes
    <2>1. setting.versions \in Nat \ {0}
        BY FileServerAssumption DEF Init
    <2> QED BY <2>1 DEF Init, SettingTypes, Versions, None
<1>2. FileTypes /\ DOMAIN files = {} /\ Len(files) = 0
    <2>1. files = <<>> /\ files \in Seq(FileType) /\ Len(files) = 0 /\ DOMAIN files = {}
        BY DEF Init
    <2> QED BY <2>1 DEF Init, FileTypes, FileNumbers, None
<1>3. JobTypes
    <2>1. ASSUME NEW w \in Workers PROVE Idle(setting.requests[w]) \in JobType
        <3>1. setting.requests[w] \in Nat
            BY <1>1, SettingIs
        <3> QED BY <1>1, <1>2, <3>1, IdleIs
    <2> QED BY <2>1 DEF Init, JobTypes
<1>4. \A w \in Workers : job[w].pc = "idle" /\ job[w].file = None
    BY DEF Init, Idle
<1>5. Kept = {}
    BY DEF Kept, Cached, Init
<1>6. Books
    BY <1>2, <1>4, <1>5 DEF Books, Hands, Lists, Counts, Using, Init
<1>7. Bodies
    BY <1>2, <1>4 DEF Bodies, ReadersWait, Reading, HasRead
<1> QED BY <1>1, <1>2, <1>3, <1>6, <1>7, TypeParts DEF IInv

(* The inductive invariant: the types, the books of the files, and what readers *)
(* and bodies are.                                                               *)
THEOREM FileServerInvariant == Spec => []IInv
<1>1. IInv /\ [Next]_vars => IInv'
    BY TypesNext, BooksNext, BodiesNext DEF IInv
<1> QED BY <1>1, FileServerInit, PTL DEF Spec

(* Every variable of the file handler keeps its type. *)
THEOREM FileServerTypes == Spec => []TypeOK
<1>1. IInv => TypeOK
    BY DEF IInv
<1> QED BY <1>1, FileServerInvariant, PTL

(* The readers of a file are counted whichever way they come and go, and only *)
(* open files are read.                                                        *)
THEOREM FileReadersAreCounted == Spec => []ReadersAreCounted
<1>1. IInv => ReadersAreCounted
    <2> SUFFICES ASSUME IInv, NEW f \in DOMAIN files
                 PROVE  files[f].count = Cardinality(Readers(f)) /\ (Readers(f) # {} => files[f].state = "open")
        BY DEF ReadersAreCounted
    <2> QED BY BooksAre DEF Counts, Lists, Kept
<1> QED BY <1>1, FileServerInvariant, PTL

(* An open file is in exactly one place, from which it will be closed. *)
THEOREM FilesAreKept == Spec => []NothingForgotten
<1>1. ASSUME IInv PROVE NothingForgotten
    <2> DEFINE Places(f) == {w \in Workers : job[w].pc = "insert" /\ job[w].file = f}
                            \cup {c \in Caches : cache[c] = f}
                            \cup {k \in {"pending"} : f \in pending} \cup {k \in {"releasing"} : f \in releasing}
    <2>0. Hands /\ Lists /\ 0 \notin DOMAIN files /\ Kept \subseteq DOMAIN files
        BY <1>1, BooksAre
    <2>1. ASSUME NEW f \in DOMAIN files, files[f].state = "open" PROVE \E p : Places(f) = {p}
        <3>1. ASSUME NEW w \in Workers, job[w].pc = "insert", job[w].file = f PROVE Places(f) = {w}
            <4>1. f \notin Kept /\ \A v \in Workers : job[v].file = f => v = w
                BY <2>0, <3>1 DEF Hands
            <4>2. \A c \in Caches : cache[c] # f
                BY <2>0, <4>1 DEF Kept, Cached, None
            <4> QED BY <3>1, <4>1, <4>2 DEF Kept
        <3>2. ASSUME f \in Kept PROVE \E p : Places(f) = {p}
            <4>1. \A w \in Workers : job[w].pc = "insert" => job[w].file # f
                BY <2>0, <3>2 DEF Hands
            <4>2. ASSUME NEW c \in Caches, cache[c] = f PROVE Places(f) = {c}
                BY <2>0, <4>1, <4>2 DEF Lists, None
            <4>3. ASSUME f \in pending PROVE Places(f) = {"pending"}
                BY <2>0, <4>1, <4>3 DEF Lists
            <4>4. ASSUME f \in releasing PROVE Places(f) = {"releasing"}
                BY <2>0, <4>1, <4>4 DEF Lists
            <4> QED BY <3>2, <4>2, <4>3, <4>4 DEF Kept, Cached
        <3> QED BY <2>0, <2>1, <3>1, <3>2 DEF Lists
    <2>2. ASSUME NEW f \in DOMAIN files, files[f].state # "open" PROVE Places(f) = {}
        <3>1. f \notin Kept
            BY <2>0, <2>2 DEF Lists
        <3>2. \A w \in Workers : job[w].pc = "insert" => job[w].file # f
            BY <2>0, <2>2 DEF Hands
        <3>3. \A c \in Caches : cache[c] # f
            BY <2>0, <3>1 DEF Kept, Cached, None
        <3> QED BY <3>1, <3>2, <3>3 DEF Kept
    <2>3. ASSUME NEW f \in DOMAIN files PROVE Cardinality(Places(f)) = IF files[f].state = "open" THEN 1 ELSE 0
        <3> HIDE DEF Places
        <3> QED BY <2>1, <2>2, FS_Singleton, FS_EmptySet
    <2> QED BY <2>3 DEF NothingForgotten
<1> QED BY <1>1, FileServerInvariant, PTL

(* A body is a piece of one version of the file, and the piece that was asked *)
(* for; of a small file it is the version that the head told.                  *)
THEOREM FileBodiesAreWhatWasAsked == Spec => []BodiesAreWhatWasAsked
<1>1. ASSUME IInv PROVE BodiesAreWhatWasAsked
    <2> SUFFICES ASSUME NEW w \in Workers, job[w].pc = "close", job[w].status \in {200, 206}
                 PROVE  \E v \in 0..latest :
                           /\ ~isBig(job[w].file) => v = files[job[w].file].version
                           /\ \/ job[w].request.head \/ job[w].body = <<>>
                              \/ job[w].body = PieceAsked(w, v)
        BY Zenon DEF BodiesAreWhatWasAsked, PieceAsked, AskedIn
    <2>1. HasRead(w)
        BY <1>1 DEF IInv, Bodies
    <2> QED BY <2>1 DEF HasRead, Versions
<1> QED BY <1>1, FileServerInvariant, PTL

=============================================================================
