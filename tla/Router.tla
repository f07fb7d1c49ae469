-------------------------------- MODULE Router --------------------------------
(***************************************************************************)
(* The routes of aresgo (tree.go, http.go): one radix tree of paths for    *)
(* each method, with parameters (:name, one segment) and catch-alls        *)
(* ( *name, the rest), and what Router.Handler decides about a request.    *)
(*                                                                         *)
(* A path is a sequence of characters; the letters a and b have upper      *)
(* case.  The number of parameters that addRoute counts down is the number *)
(* of wildcards of the path that is left, and maxParams is not used.       *)
(***************************************************************************)
EXTENDS Integers, SequencesExt, FiniteSetsExt, TLC

NoRoute == "none"

EmptyNode == [path |-> <<>>, wild |-> FALSE, type |-> "static", indices |-> <<>>,
              children |-> <<>>, handle |-> NoRoute, httpmod |-> NoRoute, prio |-> 0]

Panic == [EmptyNode EXCEPT !.type = "panic"]
Panicked(n) == n.type = "panic"

Wildcards == {":", "*"}

Take(s, k) == SubSeq(s, 1, k)
Drop(s, k) == SubSeq(s, k + 1, Len(s))

(* The end of the segment of p that begins at i.                            *)
SegmentEnd(p, i) ==
    LET slashes == {k \in i..Len(p) : p[k] = "/"}
    IN IF slashes = {} THEN Len(p) ELSE Min(slashes) - 1

IndexOf(s, c) == Min({k \in DOMAIN s : s[k] = c})

-----------------------------------------------------------------------------
(* Registration.                                                            *)

Moved(s, from, to) == InsertAt(RemoveAt(s, from), to, s[from])

(* incrementChildPrio: the child passes those of a lower priority, and its  *)
(* index character with it.                                                 *)
PromotedAlone(n, pos) ==
    LET child == [n.children[pos] EXCEPT !.prio = @ + 1]
        above == {k \in 1..(pos - 1) : n.children[k].prio >= child.prio}
        at == IF above = {} THEN 1 ELSE Max(above) + 1
    IN [at |-> at, node |-> [n EXCEPT !.children = Moved([@ EXCEPT ![pos] = child], pos, at)]]
Promoted(n, pos) ==
    LET child == [n.children[pos] EXCEPT !.prio = @ + 1]
        above == {k \in 1..(pos - 1) : n.children[k].prio >= child.prio}
        at == IF above = {} THEN 1 ELSE Max(above) + 1
    IN [at |-> at,
        node |-> [n EXCEPT !.children = Moved([@ EXCEPT ![pos] = child], pos, at),
                           !.indices = Moved(@, pos, at)]]

CommonPrefix(p, q) ==
    Max({k \in 0..Min({Len(p), Len(q)}) : Take(p, k) = Take(q, k)})

(* The edge is split: what the node was becomes its only child.             *)
Split(n, k) ==
    IF k = Len(n.path) THEN n
    ELSE [n EXCEPT !.path = Take(@, k), !.indices = <<n.path[k + 1]>>,
                   !.children = <<[n EXCEPT !.path = Drop(@, k), !.type = "static", !.prio = @ - 1]>>,
                   !.wild = FALSE, !.handle = NoRoute, !.httpmod = NoRoute]

Leaf(n, route) == [n EXCEPT !.handle = route.name, !.httpmod = route.httpmod]

(* A longer name is another wildcard.                                       *)
SameWildcard(w, path) ==
    /\ Len(path) >= Len(w.path) /\ w.path = Take(path, Len(w.path))
    /\ Len(path) > Len(w.path) => path[Len(w.path) + 1] = "/"

(* insertChild: the node and its new children down to the leaf.             *)
RECURSIVE InsertChild(_, _, _)
InsertChild(n, path, route) ==
    LET wilds == {k \in DOMAIN path : path[k] \in Wildcards} IN
    IF wilds = {} THEN Leaf([n EXCEPT !.path = path], route)
    ELSE LET k == Min(wilds)
             end == SegmentEnd(path, k)
             name == SubSeq(path, k, end)
         IN IF \/ \E j \in wilds : k < j /\ j <= end
               \/ n.children # <<>>
               \/ end = k
            THEN Panic
            ELSE IF path[k] = ":"
            THEN LET head == [n EXCEPT !.path = IF k > 1 THEN Take(path, k - 1) ELSE @, !.wild = TRUE]
                     param == [EmptyNode EXCEPT !.type = "param", !.path = name, !.prio = 1]
                     below == InsertChild([EmptyNode EXCEPT !.prio = 1], Drop(path, end), route)
                 IN IF end = Len(path) THEN [head EXCEPT !.children = <<Leaf(param, route)>>]
                    ELSE IF Panicked(below) THEN Panic
                    ELSE [head EXCEPT !.children = <<[param EXCEPT !.children = <<below>>]>>]
            ELSE IF \/ end # Len(path)
                    \/ n.path # <<>> /\ Last(n.path) = "/"
                    \/ k = 1 \/ path[k - 1] # "/"
            THEN Panic
            ELSE LET variable == Leaf([EmptyNode EXCEPT !.type = "catchAll", !.path = Drop(path, k - 2),
                                                        !.prio = 1], route)
                 IN [n EXCEPT !.path = Take(path, k - 2), !.indices = <<"/">>,
                              !.children = <<[EmptyNode EXCEPT !.type = "catchAll", !.wild = TRUE, !.prio = 1,
                                                               !.children = <<variable>>]>>]

WithChild(n, pos, child) ==
    IF Panicked(child) THEN Panic ELSE [n EXCEPT !.children[pos] = child]

Counted(n) == [n EXCEPT !.prio = @ + 1]

(* The walk of addRoute, from a node whose priority was raised.             *)
RECURSIVE Walk(_, _, _)
Walk(n0, path, route) ==
    LET k == CommonPrefix(path, n0.path)
        n == Split(n0, k)
        rest == Drop(path, k)
    IN IF rest = <<>>
       THEN IF n.handle # NoRoute THEN Panic ELSE Leaf(n, route)
       ELSE IF n.wild
       THEN IF SameWildcard(n.children[1], rest)
            THEN WithChild(n, 1, Walk(Counted(n.children[1]), rest, route))
            ELSE Panic
       ELSE IF n.type = "param" /\ rest[1] = "/" /\ Len(n.children) = 1
       THEN WithChild(n, 1, Walk(Counted(n.children[1]), rest, route))
       ELSE IF \E i \in DOMAIN n.indices : n.indices[i] = rest[1]
       THEN LET p == Promoted(n, IndexOf(n.indices, rest[1]))
            IN WithChild(p.node, p.at, Walk(p.node.children[p.at], rest, route))
       ELSE IF rest[1] \in Wildcards THEN InsertChild(n, rest, route)
       ELSE LET child == InsertChild(EmptyNode, rest, route)
                wider == [n EXCEPT !.indices = Append(@, rest[1]), !.children = Append(@, child)]
            IN IF Panicked(child) THEN Panic ELSE Promoted(wider, Len(wider.indices)).node

AddRoute(n, path, route) ==
    IF n.path # <<>> \/ n.children # <<>> THEN Walk(Counted(n), path, route)
    ELSE LET tree == InsertChild(Counted(n), path, route)
         IN IF Panicked(tree) THEN Panic ELSE [tree EXCEPT !.type = "root"]

(* Router.Handle: the tree of the method is made by its first route.        *)
Handled(trees, method, path, route) ==
    LET root == IF method \in DOMAIN trees THEN trees[method] ELSE EmptyNode
    IN IF path = <<>> \/ path[1] # "/" THEN Panic ELSE AddRoute(root, path, route)

-----------------------------------------------------------------------------
(* Lookup.                                                                  *)

Nothing(tsr, params) == [handle |-> NoRoute, httpmod |-> NoRoute, tsr |-> tsr, params |-> params]
Found(n, params) == [Nothing(FALSE, params) EXCEPT !.handle = n.handle, !.httpmod = n.httpmod]
Bound(params, name, value) == (name :> value) @@ params

(* No leaf for path itself: is there one with a slash more, or is the slash *)
(* all that is left?                                                        *)
SlashMissing(n, path) ==
    \/ path = <<"/">>
    \/ /\ Len(n.path) = Len(path) + 1 /\ Last(n.path) = "/"
       /\ path = Front(n.path) /\ n.handle # NoRoute

(* The node of the path has no handle, perhaps the slash below it has one.  *)
SlashBelow(n) ==
    /\ \E i \in DOMAIN n.indices : n.indices[i] = "/"
    /\ LET below == n.children[IndexOf(n.indices, "/")]
       IN \/ Len(below.path) = 1 /\ below.handle # NoRoute
          \/ below.type = "catchAll" /\ below.children[1].handle # NoRoute

RECURSIVE GetValue(_, _, _)

(* At the wildcard child of a node, with path left.                         *)
AtWildcard(n, path, params) ==
    IF n.type = "catchAll" THEN Found(n, Bound(params, Drop(n.path, 2), path))
    ELSE LET end == SegmentEnd(path, 1)
             bound == Bound(params, Drop(n.path, 1), Take(path, end))
         IN IF end < Len(path)
            THEN IF n.children # <<>> THEN GetValue(n.children[1], Drop(path, end), bound)
                 ELSE Nothing(Len(path) = end + 1, bound)
            ELSE IF n.handle # NoRoute THEN Found(n, bound)
            ELSE Nothing(/\ Len(n.children) = 1 /\ n.children[1].path = <<"/">>
                         /\ n.children[1].handle # NoRoute, bound)

GetValue(n, path, params) ==
    LET rest == Drop(path, Len(n.path)) IN
    IF Len(path) > Len(n.path) /\ Take(path, Len(n.path)) = n.path
    THEN IF n.wild THEN AtWildcard(n.children[1], rest, params)
         ELSE IF \E i \in DOMAIN n.indices : n.indices[i] = rest[1]
         THEN GetValue(n.children[IndexOf(n.indices, rest[1])], rest, params)
         ELSE Nothing(rest = <<"/">> /\ n.handle # NoRoute, params)
    ELSE IF path = n.path
    THEN IF n.handle # NoRoute THEN Found(n, params)
         ELSE Nothing(\/ path = <<"/">> /\ n.wild /\ n.type # "root"
                      \/ SlashBelow(n), params)
    ELSE Nothing(SlashMissing(n, path), params)

(* Router.Lookup.                                                           *)
Lookup(trees, method, path) ==
    IF method \in DOMAIN trees THEN GetValue(trees[method], path, <<>>) ELSE Nothing(FALSE, <<>>)

-----------------------------------------------------------------------------
(* The lookup that ignores case, findCaseInsensitivePath.                   *)

UpperOf == ("a" :> "A") @@ ("b" :> "B")
ToUpper(c) == IF c \in DOMAIN UpperOf THEN UpperOf[c] ELSE c
ToLower(c) == IF \E l \in DOMAIN UpperOf : UpperOf[l] = c
              THEN CHOOSE l \in DOMAIN UpperOf : UpperOf[l] = c ELSE c
Lower(p) == [k \in DOMAIN p |-> ToLower(p[k])]

Missed(ci) == [path |-> ci, found |-> FALSE]
Corrected(ci) == [path |-> ci, found |-> TRUE]

RECURSIVE FindPath(_, _, _, _)

(* The first character of n's path was compared with its index already.     *)
Reaches(n, path) ==
    /\ Len(path) >= Len(n.path)
    /\ Drop(Take(Lower(path), Len(n.path)), 1) = Drop(Lower(n.path), 1)

(* The child of lower case first; its failure leaves the one of upper case. *)
FindInChildren(n, path, ci, fix) ==
    LET c == ToLower(path[1])
        indices == IF n.path = <<>> THEN <<>> ELSE n.indices
        In(d) == \E i \in DOMAIN indices : indices[i] = d
        At(d) == FindPath(n.children[IndexOf(indices, d)], path, ci, fix)
        upper == ToUpper(c)
    IN IF In(c) /\ At(c).found THEN At(c)
       ELSE IF upper # c /\ In(upper) THEN At(upper)
       ELSE [path |-> ci, found |-> fix /\ path = <<"/">> /\ n.handle # NoRoute]

FindInWildcard(n, path, ci, fix) ==
    IF n.type = "catchAll" THEN Corrected(ci \o path)
    ELSE LET end == SegmentEnd(path, 1)
             to == ci \o Take(path, end)
         IN IF end < Len(path)
            THEN IF n.children # <<>> THEN FindPath(n.children[1], Drop(path, end), to, fix)
                 ELSE [path |-> to, found |-> fix /\ Len(path) = end + 1]
            ELSE IF n.handle # NoRoute THEN Corrected(to)
            ELSE IF /\ fix /\ Len(n.children) = 1
                    /\ n.children[1].path = <<"/">> /\ n.children[1].handle # NoRoute
            THEN Corrected(Append(to, "/"))
            ELSE Missed(to)

FindPath(n, path, ci, fix) ==
    LET rest == Drop(path, Len(n.path))
        to == ci \o n.path
    IN IF Reaches(n, path)
       THEN IF rest = <<>>
            THEN IF n.handle # NoRoute THEN Corrected(to)
                 ELSE IF fix /\ SlashBelow(n) THEN Corrected(Append(to, "/"))
                 ELSE Missed(to)
            ELSE IF n.wild THEN FindInWildcard(n.children[1], rest, to, fix)
            ELSE FindInChildren(n, rest, to, fix)
       ELSE IF fix /\ path = <<"/">> THEN Corrected(ci)
       ELSE IF /\ fix /\ Len(path) + 1 = Len(n.path) /\ Last(n.path) = "/"
               /\ Drop(Lower(path), 1) = Drop(Lower(Front(n.path)), 1) /\ n.handle # NoRoute
       THEN Corrected(ci \o n.path)
       ELSE Missed(ci)

-----------------------------------------------------------------------------
(* CleanPath: r reads p, out is what the buffer holds up to w.              *)

(* The last element goes, back to its slash.                                *)
Backtracked(out) ==
    IF Len(out) > 1
    THEN LET w == Len(out) - 1
             slashes == {k \in 2..w : out[k + 1] = "/"}
         IN Take(out, IF slashes = {} THEN 1 ELSE Max(slashes))
    ELSE out

RECURSIVE Cleaned(_, _, _, _)
Cleaned(p, r, out, trailing) ==
    LET n == Len(p)
        dots == r + 1 <= n /\ p[r + 1] = "."
    IN IF r > n THEN IF trailing /\ Len(out) > 1 THEN Append(out, "/") ELSE out
       ELSE IF p[r] = "/" THEN Cleaned(p, r + 1, out, trailing)
       ELSE IF p[r] = "." /\ r = n THEN Cleaned(p, r + 1, out, TRUE)
       ELSE IF p[r] = "." /\ p[r + 1] = "/" THEN Cleaned(p, r + 1, out, trailing)
       ELSE IF p[r] = "." /\ dots /\ (r + 1 = n \/ p[r + 2] = "/")
       THEN Cleaned(p, r + 2, Backtracked(out), trailing)
       ELSE LET end == SegmentEnd(p, r)
            IN Cleaned(p, end + 1, (IF Len(out) > 1 THEN Append(out, "/") ELSE out) \o SubSeq(p, r, end),
                       trailing)

CleanPath(p) ==
    IF p = <<>> THEN <<"/">>
    ELSE Cleaned(p, IF p[1] = "/" THEN 2 ELSE 1, <<"/">>, Len(p) > 2 /\ Last(p) = "/")

-----------------------------------------------------------------------------
(* Router.Handler, up to the call of what it finds.                         *)

(* The methods allowed for a path: a set, for the order of the map is any.  *)
Allowed(trees, method, path) ==
    LET here == IF path \in {<<"*">>, <<"/", "*">>} THEN DOMAIN trees \ {"OPTIONS"}
                ELSE {m \in DOMAIN trees \ {method, "OPTIONS"} :
                        GetValue(trees[m], path, <<>>).handle # NoRoute}
    IN IF here = {} THEN {} ELSE here \cup {"OPTIONS"}

Toggled(path) == IF Len(path) > 1 /\ Last(path) = "/" THEN Front(path) ELSE Append(path, "/")

Answer(kind, v) ==
    [kind |-> kind, route |-> v.handle, httpmod |-> v.httpmod, params |-> v.params, to |-> <<>>, allow |-> {}]

(* OPTIONS and the methods that are not allowed.                            *)
Otherwise(flags, trees, method, path, v) ==
    LET allow == Allowed(trees, method, path)
        wanted == IF method = "OPTIONS" THEN flags.options ELSE flags.notAllowed
    IN IF wanted /\ allow # {}
       THEN [Answer(IF method = "OPTIONS" THEN "options" ELSE "notAllowed", v) EXCEPT !.allow = allow]
       ELSE Answer("notFound", v)

Dispatch(flags, trees, method, path) ==
    LET v == Lookup(trees, method, path)
        fixed == FindPath(trees[method], CleanPath(path), <<>>, flags.slash)
        redirects == method \in DOMAIN trees /\ method # "CONNECT" /\ path # <<"/">>
    IN IF v.handle # NoRoute THEN Answer("handler", v)
       ELSE IF redirects /\ v.tsr /\ flags.slash
       THEN [Answer("redirect", v) EXCEPT !.to = Toggled(path)]
       ELSE IF redirects /\ flags.fixed /\ fixed.found
       THEN [Answer("redirect", v) EXCEPT !.to = fixed.path]
       ELSE Otherwise(flags, trees, method, path, v)
=============================================================================
