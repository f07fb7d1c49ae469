---------------------------- MODULE MCFileServer ----------------------------
(* Instances of FileServer: a small and a big file, with its compressed     *)
(* form, replaced or removed, and a directory.                              *)
EXTENDS FileServer

MCWorkers == {"v", "w"}
MCFileIds == 1..3
MCmaxSmallFileSize == 2

Of(kind, first, last) == [kind |-> kind, first |-> first, last |-> last]
Get(range, compress, since) ==
    [path |-> "path", range |-> range, compress |-> compress, since |-> since, head |-> FALSE]
Whole == Get(NoRange, FALSE, 0)

Gzip == Get(NoRange, TRUE, 0)
Known == Get(NoRange, FALSE, 1)
Head1 == [Whole EXCEPT !.head = TRUE]
Suffix == Get(Of("suffix", 0, 1), TRUE, 0)
Ranges == {Suffix, Get(Of("both", 1, 7), FALSE, 0), Get(Of("from", 5, 0), FALSE, 0)}
Nil == [Whole EXCEPT !.path = "nil"]
Dotdot == [Whole EXCEPT !.path = "dotdot"]

MCRequests == {Whole, Gzip, Known, Head1, Nil, Dotdot} \cup Ranges

\* Lengths by compression and version; version 0 is the page of a directory.
Lengths(plain, gz) == [c \in BOOLEAN |-> [v \in 0..2 |-> IF c THEN gz ELSE plain]]

Setting == [compress |-> TRUE, acceptByteRange |-> TRUE, generateIndexPages |-> TRUE, rewrites |-> TRUE,
            directory |-> FALSE, compressible |-> TRUE, unknown |-> FALSE,
            denied |-> FALSE, full |-> FALSE, seekFails |-> FALSE,
            lengths |-> Lengths(3, 2), versions |-> 2, removes |-> FALSE,
            requests |-> [w \in MCWorkers |-> 1], kinds |-> {Whole, Gzip}]
Directory == [Setting EXCEPT !.lengths = Lengths(2, 2), !.directory = TRUE, !.removes = TRUE, !.kinds = {Gzip, Known}]
Still == [Setting EXCEPT !.versions = 1]
Busy == [Still EXCEPT !.requests = [v |-> 2, w |-> 1]]

MCSettings == {
    [Setting EXCEPT !.removes = TRUE, !.lengths[FALSE][2] = 4],
    [Setting EXCEPT !.lengths = Lengths(3, 3), !.lengths[TRUE][2] = 1, !.kinds = {Gzip}],
    Directory,
    [Directory EXCEPT !.generateIndexPages = FALSE, !.kinds = {Gzip}],
    [Directory EXCEPT !.denied = TRUE],
    [Busy EXCEPT !.lengths = Lengths(3, 3), !.kinds = {Gzip}],
    [Busy EXCEPT !.kinds = {Whole, Suffix}],
    [Still EXCEPT !.seekFails = TRUE, !.kinds = {Suffix, Whole, Head1}],
    [Still EXCEPT !.kinds = {Head1, Nil, Dotdot} \cup Ranges],
    [Still EXCEPT !.acceptByteRange = FALSE, !.kinds = {Suffix}],
    [Still EXCEPT !.compressible = FALSE],
    [Still EXCEPT !.unknown = TRUE],
    [Still EXCEPT !.denied = TRUE],
    [Still EXCEPT !.full = TRUE]}
=============================================================================
