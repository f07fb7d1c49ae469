---------------------------- MODULE MCApplication ----------------------------
(* Instances of Application: every order in which three of many routes can  *)
(* be registered; and two workers that serve a few routes.                  *)
EXTENDS Application

A == <<"/", "a">>
B == <<"/", "b">>
Slash == <<"/">>

MCWorkers == {"v", "w"}
MCContexts == 1..2
MCMethods == {"GET", "POST", "OPTIONS"}

Pattern(method, path, name, kind, httpmod) ==
    [method |-> method, path |-> path, name |-> name, kind |-> kind, httpmod |-> httpmod]

Shapes == {
    Slash, A, A \o Slash, A \o B, <<"/", "A">> \o B, <<"/", "a", "b">>, <<"/", "a", "b">> \o Slash, B \o A \o Slash,
    <<"/", ":", "x">>, <<"/", ":", "x", "/">>, A \o <<"/", ":", "x">>, A \o <<"/", ":", "x">> \o B, A \o <<"/", ":", "y">>,
    <<"/", "a", ":", "x">>, <<"/", "a", ":", "x">> \o B, <<"/", "*", "x">>, A \o <<"/", "*", "x">>, A \o B \o <<"/", "*", "x">>,
    <<"/", ":", "x", "/", ":", "y">>}

Shaped == {Pattern("GET", p, ToString(p), "plain", p = A \o B) : p \in Shapes}

Served == {
    Pattern("GET", A, "plain", "plain", TRUE),
    Pattern("POST", A \o <<"/", ":", "x">>, "posted", "plain", FALSE),
    Pattern("GET", B, "panic", "panic", TRUE),
    Pattern("GET", A \o B \o <<"/", "*", "x">>, "static", "static", FALSE)}

MCPatterns == Shaped \cup Served

MCControllers == {
    [path |-> B \o Slash, name |-> "C", actions |-> {<<"A">>, <<"A", "b">>}, methods |-> <<"GET", "POST", "HEAD">>]}

Words(n) == UNION {[1..k -> {"/", "a", "b", "A"}] : k \in 0..n}
MCPaths == {<<"/">> \o w : w \in Words(4)} \cup {A \o B \o A, A \o B \o Slash, A \o B \o B, B \o A \o Slash}

Flags == [slash |-> TRUE, fixed |-> TRUE, notAllowed |-> TRUE, options |-> TRUE]

Registering == [flags |-> Flags, patterns |-> Shaped, controllers |-> {}, most |-> 3,
                requests |-> [w \in MCWorkers |-> 0], paths |-> [w \in MCWorkers |-> {}], recovers |-> FALSE]

Serving(recovers) ==
    [flags |-> Flags, patterns |-> Served, controllers |-> MCControllers, most |-> 3,
     requests |-> [v |-> 2, w |-> 1],
     paths |-> [v |-> {A, A \o B \o A, B}, w |-> {A, A \o Slash, B \o A, B \o B}], recovers |-> recovers]

MCSettings == {Registering, Serving(TRUE), Serving(FALSE)}
=============================================================================
