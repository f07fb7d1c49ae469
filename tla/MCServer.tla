------------------------------ MODULE MCServer ------------------------------
(* Server with one client that sends requests of every kind, and with two that *)
(* compete for the contexts, the slots of TimeoutHandler and the limits.       *)
EXTENDS Server

Two(ip, total, requests) ==
    [MaxConnsPerIP |-> ip, Concurrency |-> total, MaxRequestsPerConn |-> requests, clients |-> {1, 2},
     requests |-> 2, kinds |-> {"plain"}, outcomes |-> {"plain", "hijack"}]

MCSettings ==
    {Two(1, 2, 1), Two(2, 1, 0), Two(2, 2, 0)}
    \cup {[MaxConnsPerIP |-> 1, Concurrency |-> 2, MaxRequestsPerConn |-> 0, clients |-> {1},
           requests |-> 2, kinds |-> {"plain", "head", "close", "expect", "bad"},
           outcomes |-> {"plain", "close", "hijack"}]}

=============================================================================
