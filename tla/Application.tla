----------------------------- MODULE Application -----------------------------
(***************************************************************************)
(* The aresgo application (http.go): routes are registered, then requests  *)
(* are served, several at a time.  Each runs Router.Handler with a Context *)
(* from a pool, around the RequestCtx that fasthttp gave it.  A static     *)
(* route serves files through a handler of fasthttp, which reports missing *)
(* files to one global function, FileNotFound; each request sets it.       *)
(*                                                                         *)
(* A step is what a request does up to its next look at what it shares     *)
(* with others: the pool, FileNotFound, and a Context FileNotFound holds.  *)
(***************************************************************************)
EXTENDS Router

CONSTANTS
    Workers,       \* goroutines of fasthttp
    Contexts,      \* identities for the pooled Contexts, numbers
    Patterns,      \* what can be registered: [method, path, name, kind, httpmod]
    Controllers,   \* what Register takes: [path, name, actions, methods]
    Paths,         \* paths of requests, and of lookups
    Methods,
    Settings       \* instances: [flags |-> of the Router, most |-> how many routes,
                   \* patterns, controllers |-> which, requests |-> how many of each
                   \* worker, paths |-> and for what, recovers |-> there is a PanicHandler]

NoContext == -1
NoRequest == "none"

ASSUME ApplicationAssumption ==
    /\ Contexts \subseteq Nat /\ NoRequest \notin Workers
    /\ \A s \in Settings : s.patterns \subseteq Patterns /\ s.controllers \subseteq Controllers

VARIABLES
    setting,
    status,        \* "registering", "panicked", "listening" or "crashed"
    trees,         \* the trees of the methods
    rvList,        \* the controllers by their upper case paths
    routes,        \* what was registered
    contexts,      \* [req |-> the RequestCtx it is around, datas]
    pool,          \* the Contexts in contextPool
    fileNotFound,  \* the Context in the function FileNotFound
    job,           \* what each worker does
    answer         \* what was written to the RequestCtx of each worker

vars == <<setting, status, trees, rvList, routes, contexts, pool, fileNotFound, job, answer>>
registered == <<trees, rvList, routes>>
shared == <<contexts, pool, fileNotFound>>

Idle(left) == [pc |-> "idle", left |-> left, ctx |-> NoContext, method |-> "", path |-> <<>>,
               route |-> NoRoute, params |-> <<>>, target |-> NoRequest, datas |-> {}]

Init ==
    /\ setting \in Settings
    /\ status = "registering" /\ trees = <<>> /\ rvList = <<>> /\ routes = {}
    /\ contexts = [c \in Contexts |-> [req |-> NoRequest, datas |-> {}]]
    /\ pool = {} /\ fileNotFound = NoContext
    /\ job = [w \in Workers |-> Idle(setting.requests[w])]
    /\ answer = [w \in Workers |-> <<>>]

-----------------------------------------------------------------------------
(* Registration.  A panic ends the program.                                 *)

Route(p) == [name |-> p.name, httpmod |-> IF p.httpmod THEN p.name ELSE NoRoute]

(* Routes go into the trees one after another, up to the first that panics. *)
RECURSIVE Handle(_, _)
Handle(ts, ps) ==
    IF ps = <<>> THEN ts
    ELSE LET p == Head(ps)
             tree == Handled(ts, p.method, p.path, Route(p))
         IN IF Panicked(tree) THEN [panic |-> Panic]
            ELSE Handle((p.method :> tree) @@ ts, Tail(ps))

Added(ps) ==
    LET ts == Handle(trees, ps) IN
    IF "panic" \in DOMAIN ts
    THEN status' = "panicked" /\ UNCHANGED <<trees, routes>>
    ELSE trees' = ts /\ routes' = routes \cup Range(ps) /\ UNCHANGED status

HandleRoute ==
    /\ status = "registering" /\ Cardinality(routes) < setting.most
    /\ \E p \in setting.patterns : Added(<<p>>)
    /\ UNCHANGED <<setting, rvList, shared, job, answer>>

RECURSIVE TrimRight(_)
TrimRight(path) == IF path # <<>> /\ Last(path) = "/" THEN TrimRight(Front(path)) ELSE path

Upper(path) == [k \in DOMAIN path |-> ToUpper(path[k])]

ActionPattern(c, method) ==
    [method |-> method, path |-> TrimRight(c.path) \o <<"/", ":", "x">>, name |-> "autoroute",
     kind |-> "controller", httpmod |-> FALSE]

(* Router.Register: the controller is found by its path in upper case, and  *)
(* only GET and POST are known.                                             *)
Register ==
    /\ status = "registering" /\ Cardinality(routes) < setting.most
    /\ \E c \in setting.controllers :
          /\ rvList' = (Upper(TrimRight(c.path)) :> c) @@ rvList
          /\ Added([k \in DOMAIN SelectSeq(c.methods, LAMBDA m : m \in {"GET", "POST"}) |->
                      ActionPattern(c, SelectSeq(c.methods, LAMBDA m : m \in {"GET", "POST"})[k])])
    /\ UNCHANGED <<setting, shared, job, answer>>

Listen ==
    /\ status = "registering"
    /\ status' = "listening"
    /\ UNCHANGED <<setting, registered, shared, job, answer>>

-----------------------------------------------------------------------------
(* Requests.                                                                *)

Next1(w, pc) == [job EXCEPT ![w].pc = pc]

Write(req, what) == answer' = [answer EXCEPT ![req] = Append(@, what)]

NewContexts == {c \in Contexts \ pool : contexts[c].req = NoRequest}

(* AcquireCtx, and the new map of Router.Handler: what was in the Context   *)
(* before is of no use.                                                     *)
AcquireStale(w, c) ==
    /\ pool' = pool \ {c}
    /\ contexts' = [contexts EXCEPT ![c].req = w]
Acquire(w, c) ==
    /\ pool' = pool \ {c}
    /\ contexts' = [contexts EXCEPT ![c] = [req |-> w, datas |-> {}]]

Begin(w) ==
    /\ status = "listening" /\ job[w].pc = "idle" /\ job[w].left > 0
    /\ \E c \in pool \cup (IF NewContexts = {} THEN {} ELSE {Min(NewContexts)}),
          method \in Methods, path \in setting.paths[w] :
          /\ Acquire(w, c)
          /\ job' = [job EXCEPT ![w] = [Idle(@.left) EXCEPT !.pc = "dispatch", !.ctx = c,
                                                            !.method = method, !.path = path]]
    /\ answer' = [answer EXCEPT ![w] = <<>>]
    /\ UNCHANGED <<setting, status, registered, fileNotFound>>

Kind(name) == (CHOOSE p \in Patterns : p.name = name).kind

Decision(w) == Dispatch(setting.flags, trees, job[w].method, job[w].path)

(* Router.Handler: the httpmod, which may leave datas for the handler and   *)
(* may refuse the request; then the handler.                                *)
Decide(w) ==
    LET d == Decision(w)
        c == job[w].ctx
        with == [job EXCEPT ![w].route = d.route, ![w].params = d.params]
    IN /\ job[w].pc = "dispatch"
       /\ \/ /\ d.kind = "handler" /\ d.httpmod # NoRoute
             /\ contexts' = [contexts EXCEPT ![c].datas = @ \cup {<<w, job[w].left>>}]
             /\ \/ job' = [with EXCEPT ![w].pc = "call"] /\ UNCHANGED answer
                \/ /\ Write(contexts[c].req, "intercepted")
                   /\ job' = [with EXCEPT ![w].pc = "clear"]
          \/ /\ d.kind = "handler" /\ d.httpmod = NoRoute
             /\ job' = [with EXCEPT ![w].pc = "call"]
             /\ UNCHANGED <<contexts, answer>>
          \/ /\ d.kind # "handler"
             /\ Write(contexts[c].req, d.kind)
             /\ job' = [with EXCEPT ![w].pc = "release"]
             /\ UNCHANGED contexts
       /\ UNCHANGED <<setting, status, registered, pool, fileNotFound>>

Calls(w, kind) == job[w].pc = "call" /\ (job[w].route = "autoroute") = (kind = "controller")
                  /\ (job[w].route # "autoroute" => Kind(job[w].route) = kind)

(* A handler that answers, and one that panics.                             *)
Plain(w) ==
    /\ Calls(w, "plain")
    /\ Write(contexts[job[w].ctx].req, job[w].route)
    /\ job' = [job EXCEPT ![w].pc = "clear", ![w].datas = contexts[job[w].ctx].datas]
    /\ UNCHANGED <<setting, status, registered, shared>>

(* recv, if there is a PanicHandler: the rest of Router.Handler is skipped. *)
Panics(w) ==
    /\ Calls(w, "panic")
    /\ IF setting.recovers
       THEN /\ Write(contexts[job[w].ctx].req, "recovered")
            /\ job' = Next1(w, "release") /\ UNCHANGED status
       ELSE status' = "crashed" /\ UNCHANGED <<job, answer>>
    /\ UNCHANGED <<setting, registered, shared>>

RECURSIVE Controller(_)
Controller(path) == IF path = <<>> \/ Last(path) = "/" THEN Front(path) ELSE Controller(Front(path))

(* FirstCharToUpper *)
Capital(action) == [k \in DOMAIN action |-> IF k = 1 THEN ToUpper(action[k]) ELSE ToLower(action[k])]

(* autoroute: the controller whose key is the path up to its last slash,    *)
(* and the method of it that the action names.                              *)
KeyAsIs(path) == Controller(path)
Key(path) == Upper(Controller(path))

Autoroute(w) ==
    LET key == Key(job[w].path)
        action == Capital(job[w].params[<<"x">>])
    IN /\ Calls(w, "controller")
       /\ Write(contexts[job[w].ctx].req,
                IF key \in DOMAIN rvList /\ action \in rvList[key].actions THEN rvList[key].name
                ELSE "notFound")
       /\ job' = Next1(w, "clear")
       /\ UNCHANGED <<setting, status, registered, shared>>

(* ServeFiles: FileNotFound will answer through this Context, unless        *)
(* another request sets it first.                                           *)
Static(w) ==
    /\ Calls(w, "static")
    /\ fileNotFound' = job[w].ctx
    /\ job' = Next1(w, "file")
    /\ UNCHANGED <<setting, status, registered, contexts, pool, answer>>

ServeFile(w) ==
    LET req == contexts[job[w].ctx].req IN
    /\ job[w].pc = "file"
    /\ \/ Write(req, job[w].route) /\ job' = Next1(w, "clear")
       \/ job' = [job EXCEPT ![w].pc = "missing", ![w].target = req] /\ UNCHANGED answer
    /\ UNCHANGED <<setting, status, registered, shared>>

FileNotFound(w) ==
    /\ job[w].pc = "missing"
    /\ contexts' = [contexts EXCEPT ![fileNotFound].req = job[w].target]
    /\ Write(job[w].target, "notFound")
    /\ job' = Next1(w, "clear")
    /\ UNCHANGED <<setting, status, registered, pool, fileNotFound>>

(* The datas are deleted, and the Context goes back as it is.               *)
Release(w) ==
    LET c == job[w].ctx IN
    /\ job[w].pc \in {"clear", "release"}
    /\ pool' = pool \cup {c}
    /\ contexts' = [contexts EXCEPT ![c].datas = IF job[w].pc = "clear" THEN {} ELSE @]
    /\ job' = [job EXCEPT ![w].pc = "idle", ![w].left = @ - 1, ![w].ctx = NoContext]
    /\ UNCHANGED <<setting, status, registered, fileNotFound, answer>>

Serve(w) ==
    \/ Begin(w) \/ Decide(w) \/ Plain(w) \/ Panics(w) \/ Autoroute(w)
    \/ Static(w) \/ ServeFile(w) \/ FileNotFound(w) \/ Release(w)

Next ==
    \/ HandleRoute \/ Register \/ Listen
    \/ status = "listening" /\ \E w \in Workers : Serve(w)

Spec == Init /\ [][Next]_vars

-----------------------------------------------------------------------------
(* What the routes mean, whatever tree they are in: a character stands for  *)
(* itself, :name for the characters up to the next slash, which may be none *)
(* only in front of one, and *name for all the rest and its slash.          *)
RECURSIVE Matches(_, _)
Matches(pattern, path) ==
    IF pattern = <<>> \/ path = <<>> THEN pattern = path \/ (pattern # <<>> /\ pattern[1] = "*")
    ELSE IF pattern[1] = "*" THEN TRUE
    ELSE IF pattern[1] = ":"
    THEN Matches(Drop(pattern, SegmentEnd(pattern, 1)), Drop(path, SegmentEnd(path, 1)))
    ELSE pattern[1] = path[1] /\ Matches(Tail(pattern), Tail(path))

RECURSIVE Binding(_, _, _)
Binding(pattern, path, params) ==
    IF pattern = <<>> THEN params
    ELSE IF pattern[1] = "*" THEN Bound(params, Tail(pattern), <<"/">> \o path)
    ELSE IF pattern[1] = ":"
    THEN LET p == SegmentEnd(pattern, 1)
             q == SegmentEnd(path, 1)
         IN Binding(Drop(pattern, p), Drop(path, q), Bound(params, SubSeq(pattern, 2, p), Take(path, q)))
    ELSE Binding(Tail(pattern), Tail(path), params)

Matching(method, path) == {p \in routes : p.method = method /\ Matches(p.path, path)}

-----------------------------------------------------------------------------
(* However routes are added, whichever edges that splits and whichever      *)
(* children move, a lookup finds the route that matches and no other, with  *)
(* its httpmod and its parameters; so no two accepted routes match one path *)
(* (tree.go:82, 331).                                                       *)
RoutesAreFound ==
    status = "registering" =>
        \A m \in Methods, path \in Paths :
            LET v == Lookup(trees, m, path)
                ps == Matching(m, path)
            IN IF ps = {} THEN v.handle = NoRoute
               ELSE \E p \in ps : /\ ps = {p}
                                  /\ v.handle = p.name /\ v.httpmod = Route(p).httpmod
                                  /\ v.params = Binding(p.path, path, <<>>)

(* "a TSR (trailing slash redirect) recommendation is made if a handle      *)
(* exists with an extra (without the) trailing slash for the given path"    *)
(* (tree.go:329). False for a catch-all added below a node with children:   *)
(* its edge "/" leads to an empty node first, which has no handle.          *)
SlashIsRecommended ==
    status = "registering" =>
        \A m \in Methods, path \in Paths :
            /\ Lookup(trees, m, path).handle = NoRoute
            /\ path # <<"/">> /\ Matching(m, Toggled(path)) # {}
            => Lookup(trees, m, path).tsr

(* A client that follows redirects gets an answer: none leads back to where *)
(* one began (http.go:379).  The paths of requests are normal already, but  *)
(* for a dot at their end, which CleanPath turns into the path "" there is  *)
(* no end to.                                                               *)
RECURSIVE Hops(_, _, _)
Hops(m, path, n) ==
    LET d == Dispatch(setting.flags, trees, m, path)
    IN IF d.kind = "redirect" /\ n < 4 THEN Hops(m, d.to, n + 1) ELSE n

RedirectsEnd ==
    status = "registering" =>
        \A m \in Methods, path \in {p \in Paths : CleanPath(p) = p} : Hops(m, path, 0) < 3

(* An answered request was answered once, by the route that matches it or   *)
(* by nobody's: refused, recovered, or with what is said to be not found or *)
(* not allowed when no route matches (http.go:340, 165, 467).               *)
MayAnswer(p, w) ==
    CASE p.kind = "plain" -> {p.name}
      [] p.kind = "panic" -> {"recovered"}
      [] p.kind = "static" -> {p.name, "notFound"}
      [] p.kind = "controller" ->
            LET c == CHOOSE d \in setting.controllers : p = ActionPattern(d, p.method)
                action == Binding(p.path, job[w].path, <<>>)[<<"x">>]
            IN {IF Capital(action) \in c.actions THEN c.name ELSE "notFound"}

Expected(w) ==
    LET j == job[w]
        others == UNION {Matching(m, j.path) : m \in DOMAIN trees \ {j.method}}
    IN IF Matching(j.method, j.path) # {}
       THEN UNION {MayAnswer(p, w) \cup (IF p.httpmod THEN {"intercepted"} ELSE {}) :
                     p \in Matching(j.method, j.path)}
       ELSE {"redirect"} \cup
            (IF others = {} THEN {"notFound"}
             ELSE IF j.method = "OPTIONS" THEN {IF setting.flags.options THEN "options" ELSE "notFound"}
             ELSE {IF setting.flags.notAllowed THEN "notAllowed" ELSE "notFound"})

AnswersAreOwn ==
    \A w \in Workers : job[w].pc = "idle" /\ job[w].path # <<>> =>
        Len(answer[w]) = 1 /\ answer[w][1] \in Expected(w)

(* A handler sees the Datas of its own request only, whatever the request   *)
(* that had the Context before it left, a panic included (http.go:352,      *)
(* 372), and no Context is with two requests.                               *)
ContextsAreOwn ==
    /\ \A w \in Workers : job[w].datas \subseteq {<<w, job[w].left>>, <<w, job[w].left + 1>>}
    /\ \A v, w \in Workers : v # w /\ job[v].ctx # NoContext => job[v].ctx # job[w].ctx
    /\ \A w \in Workers : job[w].ctx \notin pool

=============================================================================
