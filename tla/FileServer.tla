------------------------------ MODULE FileServer ------------------------------
(***************************************************************************)
(* The file handler of fasthttp (fs.go): requests for one path share the   *)
(* files that are open for it, in a cache for the file as it is and one    *)
(* for its compressed form, and count themselves on the file they use; a   *)
(* goroutine closes the files that are old and that nobody reads.  Big     *)
(* files are read through files opened once more, small ones with ReadAt.  *)
(* The compressed form is a second file in the same directory, made by the *)
(* first request that wants it; meanwhile the original may be replaced.    *)
(*                                                                         *)
(* A version stands for the content of a file and for its time.  A step    *)
(* ends where a lock or the file system is used.  The path is a file, or a *)
(* directory whose index.html is the file.                                 *)
(***************************************************************************)
EXTENDS Integers, FiniteSets, FiniteSetsExt, SequencesExt

CONSTANTS
    Workers,          \* goroutines that serve requests
    Requests,         \* [path, compress, range, head, since |-> the version known, or 0]
    FileIds,          \* identities for what is opened: 1..n, for n requests
    maxSmallFileSize,
    Settings          \* instances: the options of FS (compress, acceptByteRange,
                      \* generateIndexPages, rewrites); the path (directory, its
                      \* lengths by compression and version, compressible, unknown:
                      \* its type is not told by its name, nor can it be read);
                      \* what fails (denied: no file can be created, full: writing,
                      \* seekFails); versions |-> how many, removes; requests |->
                      \* how many of each worker, kinds |-> of them

None == 0
Nobody == "nobody"
Caches == {"plain", "gz"}
NoRange == [kind |-> "none", first |-> 0, last |-> 0]
NoRequest == [path |-> "", compress |-> FALSE, head |-> FALSE, since |-> 0, range |-> NoRange]
NoReader == [version |-> None, gz |-> FALSE, from |-> 0, to |-> -1]
RangeKinds == {"suffix", "from", "both", "malformed"}

ASSUME FileServerAssumption ==
    /\ maxSmallFileSize \in Nat
    /\ IsFiniteSet(Workers) /\ Nobody \notin Workers
    /\ Requests \subseteq [path : {"path", "nil", "dotdot"}, compress : BOOLEAN, head : BOOLEAN, since : Nat,
                           range : [kind : RangeKinds, first : Nat, last : Nat] \cup {NoRange}]
    /\ \A s \in Settings :
          /\ s.kinds \subseteq Requests /\ s.requests \in [Workers -> Nat]
          /\ s.versions \in Nat \ {0}
          /\ \A version \in 0..s.versions, gz \in BOOLEAN : s.lengths[gz][version] \in Nat

VARIABLES
    setting,
    original,    \* the version under the name, None when there is no file
    latest,      \* the last version there was
    compressed,  \* the version that the compressed file was made from
    fileLock,    \* who compresses
    files,       \* what fsFile has been opened
    cache,       \* the file in each cache
    pending,     \* old files that were being read
    releasing,   \* old files that the goroutine is about to close
    job

vars == <<setting, original, latest, compressed, fileLock, files, cache, pending, releasing, job>>
disk == <<setting, original, latest, compressed, fileLock>>
cleaning == <<pending, releasing>>

(* A version of the file, the generated page of a directory, or none; a     *)
(* reader of a file, a fsFile, a piece of a content, and a request.         *)
Versions == 0..latest
ReaderType == [version : Versions, gz : BOOLEAN, from : Nat, to : Int]
FileType == [state : {"open", "closed", "lost"}, version : Versions, gz : BOOLEAN, index : BOOLEAN,
             length : Nat, count : Nat, idle : Seq(ReaderType), old : BOOLEAN]
Piece == Seq(Versions \X BOOLEAN \X (Nat \ {0}))
FileNumbers == 0..Len(files)
Statuses == {None, 200, 206, 304, 400, 403, 404, 416, 500}
JobType == [pc : {"idle", "open", "openGz", "compare", "remove", "compress", "lock", "rename", "openNew",
                  "insert", "use", "reopen", "send", "close", "leave"},
            left : Nat, request : Requests \cup {NoRequest}, must : BOOLEAN, cache : Caches, fd : Versions,
            file : FileNumbers, reader : ReaderType,
            status : Statuses, body : Piece, missing : BOOLEAN]

TypeOK ==
    /\ setting \in Settings
    /\ original \in Versions /\ latest \in 1..setting.versions /\ compressed \in Versions
    /\ fileLock \in Workers \cup {Nobody}
    /\ files \in Seq(FileType) /\ cache \in [Caches -> FileNumbers]
    /\ pending \subseteq DOMAIN files /\ releasing \subseteq DOMAIN files
    /\ job \in [Workers -> JobType]

Idle(left) ==
    [pc |-> "idle", left |-> left, request |-> NoRequest, must |-> FALSE, cache |-> "plain", fd |-> None,
     file |-> None, reader |-> NoReader, status |-> None, body |-> <<>>, missing |-> FALSE]

Init ==
    /\ setting \in Settings
    /\ original = 1 /\ latest = 1 /\ compressed = None /\ fileLock = Nobody
    /\ files = <<>> /\ cache = [c \in Caches |-> None]
    /\ pending = {} /\ releasing = {}
    /\ job = [w \in Workers |-> Idle(setting.requests[w])]

-----------------------------------------------------------------------------
(* Contents.  Version None is the generated page of a directory.            *)

Size(version, gz) == setting.lengths[gz][version]
Content(version, gz) == [k \in 1..Size(version, gz) |-> <<version, gz, k>>]

isBig(f) == files[f].length > maxSmallFileSize /\ ~files[f].index

(* ParseByteRange: positions from 0, or an error.  What is not a number is  *)
(* malformed.                                                               *)
RangeError == [from |-> -1, to |-> -1]
Least(a, b) == IF a < b THEN a ELSE b

ParseByteRange(range, n) ==
    LET to == IF range.kind = "both" THEN Least(range.last, n - 1) ELSE n - 1
        from == IF range.kind = "suffix" THEN n - Least(range.last, n) ELSE range.first
    IN IF \/ range.kind = "malformed"
          \/ range.kind # "suffix" /\ (from >= n \/ to < from)
       THEN RangeError
       ELSE [from |-> from, to |-> to]

-----------------------------------------------------------------------------
(* Opening, from the lookup of the cache to what is put there.              *)

Goes(w, pc) == job' = [job EXCEPT ![w].pc = pc]

Answered(w, status) ==
    job' = [job EXCEPT ![w] = [Idle(@.left) EXCEPT !.status = status, !.missing = job[w].missing]]

Taken(f) == [files EXCEPT ![f].count = @ + 1]

(* A path with a nil byte, or one that PathRewrite leads out of the root.   *)
Refusal(r) ==
    IF r.path = "nil" THEN 400 ELSE IF r.path = "dotdot" /\ setting.rewrites THEN 500 ELSE None

Begin(w) ==
    /\ job[w].pc = "idle" /\ job[w].left > 0
    /\ \E r \in setting.kinds :
          LET must == r.compress /\ setting.compress /\ r.range = NoRange
              name == IF must THEN "gz" ELSE "plain"
              f == cache[name]
              begun == [Idle(job[w].left - 1) EXCEPT !.request = r, !.must = must, !.cache = name,
                                                     !.missing = original = None]
          IN \/ /\ Refusal(r) # None
                /\ job' = [job EXCEPT ![w] = [Idle(@.left - 1) EXCEPT !.status = Refusal(r)]]
                /\ UNCHANGED files
             \/ /\ Refusal(r) = None /\ f # None
                /\ files' = Taken(f)
                /\ job' = [job EXCEPT ![w] = [begun EXCEPT !.pc = "use", !.file = f]]
             \/ /\ Refusal(r) = None /\ f = None
                /\ job' = [job EXCEPT ![w] = [begun EXCEPT !.pc = IF must THEN "openGz" ELSE "open"]]
                /\ UNCHANGED files
    /\ UNCHANGED <<disk, cache, cleaning>>

Opened(version, gz, index) ==
    [state |-> "open", version |-> version, gz |-> gz, index |-> index, length |-> Size(version, gz),
     count |-> 0, idle |-> <<>>, old |-> FALSE]

(* A new fsFile, and the request goes on to the cache.                      *)
Made(w, version, gz, index) ==
    /\ files' = Append(files, Opened(version, gz, index))
    /\ job' = [job EXCEPT ![w].pc = "insert", ![w].file = Len(files) + 1, ![w].fd = None]

(* A directory whose index cannot be opened is forbidden.                   *)
Failed(w) == Answered(w, IF setting.directory THEN 403 ELSE 404) /\ UNCHANGED files

(* newFSFile: when the type of the file cannot be found out, there is an    *)
(* error, and the file stays open (fs.go:1146).                             *)
NewFile(w, version, gz) ==
    IF setting.unknown
    THEN /\ files' = Append(files, [Opened(version, gz, FALSE) EXCEPT !.state = "lost"])
         /\ Answered(w, IF setting.directory THEN 403 ELSE 404)
    ELSE Made(w, version, gz, FALSE)

(* The file does not exist: a directory may get a generated page.           *)
Missing(w) ==
    IF setting.directory /\ setting.generateIndexPages THEN Made(w, None, job[w].must, TRUE)
    ELSE Failed(w)

Open(w) ==
    /\ job[w].pc = "open"
    /\ IF original = None THEN Missing(w) ELSE NewFile(w, original, FALSE)
    /\ UNCHANGED <<disk, cache, cleaning>>

OpenGz(w) ==
    /\ job[w].pc = "openGz"
    /\ IF compressed = None THEN Goes(w, "compress")
       ELSE job' = [job EXCEPT ![w].pc = "compare", ![w].fd = compressed]
    /\ UNCHANGED <<disk, files, cache, cleaning>>

(* The time of the original is that of the compressed file, or the latter   *)
(* is removed; not under the file's lock.                                   *)
Compare(w) ==
    /\ job[w].pc = "compare"
    /\ IF original = None THEN Failed(w)
       ELSE IF original = job[w].fd THEN NewFile(w, job[w].fd, TRUE)
       ELSE Goes(w, "remove") /\ UNCHANGED files
    /\ UNCHANGED <<disk, cache, cleaning>>

RemoveStale(w) ==
    /\ job[w].pc = "remove"
    /\ compressed' = None
    /\ Goes(w, "compress")
    /\ UNCHANGED <<setting, original, latest, fileLock, files, cache, cleaning>>

(* compressAndOpenFSFile.  What cannot be read is not compressible.         *)
OpenOriginal(w) ==
    /\ job[w].pc = "compress"
    /\ IF original = None THEN Missing(w)
       ELSE IF ~setting.compressible \/ setting.unknown THEN NewFile(w, original, FALSE)
       ELSE job' = [job EXCEPT ![w].pc = "lock", ![w].fd = original] /\ UNCHANGED files
    /\ UNCHANGED <<disk, cache, cleaning>>

(* compressFileNolock: another request may have made the file; or it is     *)
(* made under another name.  If files cannot be created the original is     *)
(* served instead, unless it is the index of a directory.                   *)
Lock(w) ==
    /\ job[w].pc = "lock" /\ fileLock = Nobody
    /\ IF compressed # None
       THEN fileLock' = w /\ Goes(w, "openNew") /\ UNCHANGED files
       ELSE IF setting.denied
       THEN /\ UNCHANGED fileLock
            /\ IF setting.directory THEN Failed(w)
               ELSE /\ job' = [job EXCEPT ![w].pc = "open", ![w].must = FALSE, ![w].fd = None]
                    /\ UNCHANGED files
       ELSE IF setting.full THEN Failed(w) /\ UNCHANGED fileLock
       ELSE fileLock' = w /\ Goes(w, "rename") /\ UNCHANGED files
    /\ UNCHANGED <<setting, original, latest, compressed, cache, cleaning>>

Rename(w) ==
    /\ job[w].pc = "rename"
    /\ compressed' = job[w].fd
    /\ Goes(w, "openNew")
    /\ UNCHANGED <<setting, original, latest, fileLock, files, cache, cleaning>>

OpenNew(w) ==
    /\ job[w].pc = "openNew"
    /\ fileLock' = Nobody
    /\ IF compressed = None THEN Failed(w) ELSE NewFile(w, compressed, TRUE)
    /\ UNCHANGED <<setting, original, latest, compressed, cache, cleaning>>

(* fsFile.Release                                                           *)
Closed(fs, F) ==
    [f \in DOMAIN fs |-> IF f \in F THEN [Opened(None, FALSE, FALSE) EXCEPT !.state = "closed",
                                                                          !.count = fs[f].count]
                         ELSE fs[f]]

(* The file is put into the cache, or the one that is there by now is used, *)
(* and the new one closed.                                                  *)
LoserUncounted(f, other) == Closed(files, {f})
Loser(f, other) == Closed(Taken(other), {f})

Insert(w) ==
    LET j == job[w]
        other == cache[j.cache]
    IN /\ j.pc = "insert"
       /\ IF other = None
          THEN /\ files' = Taken(j.file)
               /\ cache' = [cache EXCEPT ![j.cache] = j.file]
               /\ Goes(w, "use")
          ELSE /\ files' = Loser(j.file, other)
               /\ job' = [job EXCEPT ![w].pc = "use", ![w].file = other]
               /\ UNCHANGED cache
       /\ UNCHANGED <<disk, cleaning>>

-----------------------------------------------------------------------------
(* Reading.                                                                 *)

Reader(version, gz, length) == [version |-> version, gz |-> gz, from |-> 0, to |-> length - 1]

Reads(w, reader) == job' = [job EXCEPT ![w] = [@ EXCEPT !.pc = "send", !.reader = reader]]

(* decReadersCount; and a response that is out is forgotten.                *)
Left(f) == [files EXCEPT ![f].count = @ - 1]
Finished(w) == job' = [job EXCEPT ![w] = Idle(@.left)]

(* The client may have the file already, or the generated page, whose time  *)
(* is when it was made; or a reader is made, for a big file one that was    *)
(* used before or a new one.                                                *)
ModifiedSince(f, since) == files[f].index \/ since < files[f].version
MayBeKnown(f, since) == ~ModifiedSince(f, since) \/ (files[f].index /\ since > 0)

NotModifiedHeld(w) == files' = files /\ Answered(w, 304)
NotModified(w) == files' = Left(job[w].file) /\ Answered(w, 304)

Use(w) ==
    LET f == job[w].file
        idle == files[f].idle
    IN /\ job[w].pc = "use"
       /\ \/ /\ MayBeKnown(f, job[w].request.since)
             /\ NotModified(w)
          \/ /\ ModifiedSince(f, job[w].request.since) /\ ~isBig(f)
             /\ Reads(w, Reader(files[f].version, files[f].gz, files[f].length))
             /\ UNCHANGED files
          \/ /\ ModifiedSince(f, job[w].request.since) /\ isBig(f)
             /\ IF idle = <<>> THEN Goes(w, "reopen") /\ UNCHANGED files
                ELSE /\ files' = [files EXCEPT ![f].idle = Front(@)]
                     /\ Reads(w, Last(idle))
       /\ UNCHANGED <<disk, cache, cleaning>>

(* bigFileReader opens the file by its name, whatever is there now.         *)
Reopen(w) ==
    LET f == job[w].file
        gz == files[f].gz
        there == IF gz THEN compressed ELSE original
    IN /\ job[w].pc = "reopen"
       /\ IF there = None THEN files' = Left(f) /\ Answered(w, 500)
          ELSE Reads(w, Reader(there, gz, Size(there, gz))) /\ UNCHANGED files
       /\ UNCHANGED <<disk, cache, cleaning>>

(* The range, by the length of the fsFile; the head of the response; then   *)
(* the body: as many bytes as the head announces and the reader has (what   *)
(* a reader has beyond them is no part of the body), or none, when the      *)
(* client is gone or asked for the head alone.                              *)
Send(w) ==
    LET j == job[w]
        f == j.file
        ranged == setting.acceptByteRange /\ j.request.range # NoRange
        at == IF ranged THEN ParseByteRange(j.request.range, files[f].length)
              ELSE [from |-> j.reader.from, to |-> files[f].length - 1]
        reader == IF ranged THEN [j.reader EXCEPT !.from = at.from, !.to = at.to] ELSE j.reader
        there == Content(j.reader.version, j.reader.gz)
        body == SubSeq(there, at.from + 1, Least(at.to + 1, Len(there)))
        Refused(status) == job' = [job EXCEPT ![w] = [@ EXCEPT !.pc = "close", !.status = status]]
        Ends(status, piece) ==
            job' = [job EXCEPT ![w] = [@ EXCEPT !.pc = "close", !.status = status, !.body = piece,
                                                !.reader = [reader EXCEPT !.from = @ + Len(piece)]]]
    IN /\ j.pc = "send"
       /\ \/ at = RangeError /\ Refused(416)
          \/ at # RangeError /\ ranged /\ isBig(f) /\ setting.seekFails /\ Refused(500)
          \/ /\ at # RangeError
             /\ \E piece \in {<<>>, body} :
                   /\ j.request.head => piece = <<>>
                   /\ Ends(IF ranged THEN 206 ELSE 200, piece)
       /\ UNCHANGED <<disk, files, cache, cleaning>>

(* bigFileReader.Close goes back to the beginning and gives the reader to   *)
(* the next request, or closes it; then a request for the head, which was   *)
(* not sent yet, is answered by an error.                                   *)
AsItIs(reader) == reader
Rewound(reader) == [reader EXCEPT !.from = 0, !.to = Size(reader.version, reader.gz) - 1]

Close(w) ==
    LET f == job[w].file
        unsent == job[w].request.head /\ job[w].status \in {200, 206}
        Leaves(status) ==
            job' = [job EXCEPT ![w] = [@ EXCEPT !.pc = "leave", !.reader = NoReader, !.status = status]]
    IN
    /\ job[w].pc = "close" /\ isBig(f)
    /\ \/ /\ files' = [files EXCEPT ![f].idle = Append(@, Rewound(job[w].reader))]
          /\ Leaves(job[w].status)
       \/ /\ setting.seekFails /\ UNCHANGED files
          /\ Leaves(IF unsent THEN 500 ELSE job[w].status)
    /\ UNCHANGED <<disk, cache, cleaning>>

Leave(w) ==
    LET f == job[w].file IN
    /\ job[w].pc = "leave" \/ (job[w].pc = "close" /\ ~isBig(f))
    /\ files' = Left(f)
    /\ Finished(w)
    /\ UNCHANGED <<disk, cache, cleaning>>

-----------------------------------------------------------------------------
(* cleanCache: what is old leaves the caches, and is closed unless it is    *)
(* being read; what was being read is closed now.                           *)

Cached == {cache[c] : c \in Caches} \ {None}

Expire(f) ==
    /\ f \in Cached /\ ~files[f].old
    /\ files' = [files EXCEPT ![f].old = TRUE]
    /\ UNCHANGED <<disk, cache, cleaning, job>>

BeingRead(f) == files[f].count > 0

Clean ==
    LET all == pending \cup {f \in Cached : files[f].old} IN
    /\ releasing = {} /\ all # {}
    /\ pending' = {f \in all : BeingRead(f)}
    /\ releasing' = all \ pending'
    /\ cache' = [c \in Caches |-> IF cache[c] \in all THEN None ELSE cache[c]]
    /\ UNCHANGED <<disk, files, job>>

Release ==
    /\ releasing # {}
    /\ files' = Closed(files, releasing)
    /\ releasing' = {}
    /\ UNCHANGED <<disk, cache, pending, job>>

(* Somebody puts another file in the place of the original, or removes it.  *)
Replace ==
    /\ latest < setting.versions
    /\ latest' = latest + 1
    /\ \/ original' = latest' /\ UNCHANGED job
       \/ /\ setting.removes
          /\ original' = None
          /\ job' = [w \in Workers |-> [job[w] EXCEPT !.missing = TRUE]]
    /\ UNCHANGED <<setting, compressed, fileLock, files, cache, cleaning>>

Serve(w) ==
    \/ Open(w) \/ OpenGz(w) \/ Compare(w) \/ RemoveStale(w) \/ OpenOriginal(w) \/ Lock(w)
    \/ Rename(w) \/ OpenNew(w) \/ Insert(w) \/ Use(w) \/ Reopen(w) \/ Send(w) \/ Close(w) \/ Leave(w)

Next ==
    \/ \E w \in Workers : Begin(w) \/ Serve(w)
    \/ \E f \in Cached : Expire(f)
    \/ Clean \/ Release \/ Replace

(* The goroutine of the handler sleeps and cleans for ever, and clients     *)
(* take a response or go away.                                              *)
Fairness ==
    /\ \A w \in Workers : WF_vars(Serve(w))
    /\ WF_vars(\E f \in Cached : Expire(f))
    /\ WF_vars(Clean) /\ WF_vars(Release)

Spec == Init /\ [][Next]_vars /\ Fairness

-----------------------------------------------------------------------------
(* The readers of a file are counted, whoever opened it and whichever way   *)
(* they leave; so nobody reads a file that was closed, and the count does   *)
(* not go below zero (fs.go:478).                                           *)
Readers(f) == {w \in Workers : job[w].file = f /\ job[w].pc # "insert"}

ReadersAreCounted ==
    \A f \in DOMAIN files :
        /\ files[f].count = Cardinality(Readers(f))
        /\ Readers(f) # {} => files[f].state = "open"

(* An open file is in one place, from which it will be closed: with the     *)
(* request that opened it, in a cache, or with the goroutine that cleans    *)
(* (fs.go:744, 644).                                                        *)
NothingForgotten ==
    \A f \in DOMAIN files :
        LET places == {w \in Workers : job[w].pc = "insert" /\ job[w].file = f}
                      \cup {c \in Caches : cache[c] = f}
                      \cup {k \in {"pending"} : f \in pending} \cup {k \in {"releasing"} : f \in releasing}
        IN Cardinality(places) = IF files[f].state = "open" THEN 1 ELSE 0

(* A body is a piece of one file, never of two, and the piece that was      *)
(* asked for: all of it, or what the client got before it went away.  For a *)
(* small file it is the file whose time and encoding the head told (a big   *)
(* one may have been replaced, for the reader opens it by name, fs.go:450). *)
Asked(w, n) ==
    LET r == job[w].request.range
    IN {k \in 0..(n - 1) :
          \/ r.kind = "none" \/ ~setting.acceptByteRange
          \/ r.kind = "suffix" /\ k >= n - r.last
          \/ r.kind = "from" /\ k >= r.first
          \/ r.kind = "both" /\ k >= r.first /\ k <= r.last}

BodiesAreWhatWasAsked ==
    \A w \in Workers :
        LET j == job[w]
            f == j.file
        IN j.pc = "close" /\ j.status \in {200, 206} =>
             \E v \in 0..latest :
                LET gz == files[f].gz
                    asked == Asked(w, files[f].length) \cap 0..(Size(v, gz) - 1)
                IN /\ ~isBig(f) => v = files[f].version
                   /\ \/ j.request.head \/ j.body = <<>>
                      \/ j.body = [k \in 1..Cardinality(asked) |-> <<v, gz, Min(asked) + k>>]

(* What was opened is closed at last: no request keeps a file for ever, and *)
(* the goroutine comes back to the files that were being read.              *)
IsOpen(f) == f \in DOMAIN files /\ files[f].state = "open"

FilesAreClosed == \A f \in FileIds : IsOpen(f) ~> ~IsOpen(f)

(* "It is safe opening such a file, since the file creation is guarded by   *)
(* file mutex" (fs.go:1033): a request that is answered by Not Found saw no *)
(* original. False: cached files are opened without that mutex.             *)
NotFoundIsMissing ==
    setting.full \/ \A w \in Workers : job[w].status = 404 => job[w].missing

=============================================================================
