------------------------------ MODULE HttpArgs ------------------------------
(***************************************************************************)
(* Ordered lists of keys and values (args.go) and the URI built on them    *)
(* (uri.go).  A list is a sequence of pairs <<key, value>>.  A path is the *)
(* sequence of the segments after its slashes, so "/" is <<"">> and "/a/"  *)
(* is <<"a", "">>.  "" stands for an empty byte slice.                     *)
(***************************************************************************)
EXTENDS Integers, Sequences, SequencesExt, FiniteSetsExt

At(h, k) == {i \in DOMAIN h : h[i][1] = k}

ValuesOf(h, k) == [i \in 1 .. Len(SelectSeq(h, LAMBDA p : p[1] = k)) |->
                     SelectSeq(h, LAMBDA p : p[1] = k)[i][2]]

HasArg(h, k) == At(h, k) # {}

PeekArg(h, k) == IF HasArg(h, k) THEN h[Min(At(h, k))][2] ELSE ""

AppendArg(h, k, v) == Append(h, <<k, v>>)

SetArg(h, k, v) == IF HasArg(h, k) THEN [h EXCEPT ![Min(At(h, k))] = <<k, v>>]
                   ELSE AppendArg(h, k, v)

(* delAllArgs moves the rest down over what it deletes and goes on behind  *)
(* it: the pair that came next is not looked at.                           *)
DelAllArgs(h, k) ==
    LET gone[i \in 0 .. Len(h)] == i > 0 /\ h[i][1] = k /\ ~ gone[i - 1]
        kept == SelectSeq([i \in DOMAIN h |-> i], LAMBDA i : ~ gone[i])
    IN  [i \in DOMAIN kept |-> h[kept[i]]]

(* Parsing and printing a list: pairs that are empty get lost.             *)
ParseArgs(text) == SelectSeq(text, LAMBDA p : p # <<"", "">>)

-----------------------------------------------------------------------------

Splice(s, i, j) == SubSeq(s, 1, i) \o SubSeq(s, j, Len(s))

Inner(s, x) == {i \in 1 .. Len(s) - 1 : s[i] = x}

(* normalizePath: runs of slashes, then "/./", then "/../" from the left,  *)
(* then a "/.." at the end.                                                *)
UpOnce(s, i) == Splice(s, IF i = 1 THEN 0 ELSE i - 2, i + 1)

Without(path, x) ==
    FoldLeft(LAMBDA kept, i : IF i \in Inner(path, x) THEN kept ELSE Append(kept, path[i]),
             <<>>, [i \in DOMAIN path |-> i])

Ups(path, n) == IF Inner(path, "..") = {} THEN path ELSE UpOnce(path, Min(Inner(path, "..")))

UpAtEnd(path) == IF path # <<>> /\ Last(path) = ".."
                 THEN SubSeq(path, 1, Len(path) - 2) \o <<"">>
                 ELSE path

NormalizePath(src) ==
    UpAtEnd(FoldLeft(Ups, Without(Without(src, ""), "."), [i \in DOMAIN src |-> i]))

(* What a request line names: the host of an absolute form, a path and a   *)
(* query.                                                                  *)
Target(host, path, query) == [host |-> host, path |-> path, query |-> query]

Root == Target("", <<"">>, <<>>)

NoURI == [host |-> "", path |-> <<>>, query |-> <<>>, args |-> <<>>,
          argsParsed |-> FALSE, fromHeader |-> FALSE]

(* URI.parse after splitHostURI; without a host in the target the host is  *)
(* taken from the header when it is asked for.                             *)
ParseURI(t, hasHeader) ==
    [NoURI EXCEPT !.host = t.host, !.path = NormalizePath(t.path),
                  !.query = t.query, !.fromHeader = hasHeader]

UriHost(u, headerHost) == IF u.host = "" /\ u.fromHeader
                          THEN [u EXCEPT !.host = headerHost, !.fromHeader = FALSE]
                          ELSE u

UriSetHost(u, host) == [u EXCEPT !.host = host]

UriSetPath(u, path) == [u EXCEPT !.path = NormalizePath(path)]

UriSetQueryString(u, query) == [u EXCEPT !.query = query, !.argsParsed = FALSE]

UriQueryArgs(u) == IF u.argsParsed THEN u
                   ELSE [u EXCEPT !.args = ParseArgs(u.query), !.argsParsed = TRUE]

UriRequestURI(u) ==
    Target("", IF u.path = <<>> THEN <<"">> ELSE u.path,
               IF u.args # <<>> THEN u.args ELSE u.query)

(* URI.Update, for a URI whose host is known: a target with a host, an     *)
(* absolute path, a new query, or a path relative to the last slash.       *)
UriUpdate(u, form, t) ==
    CASE form = "host"     -> ParseURI(t, FALSE)
      [] form = "path"     -> ParseURI(Target(u.host, t.path, t.query), FALSE)
      [] form = "query"    -> UriSetQueryString(u, t.query)
      [] form = "relative" ->
           ParseURI(Target(u.host, Front(UriRequestURI(u).path) \o t.path, t.query), FALSE)
=============================================================================
