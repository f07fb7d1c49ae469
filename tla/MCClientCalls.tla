---------------------------- MODULE MCClientCalls ----------------------------
(* Five instances in one: three goroutines that call Do, two whose dials go    *)
(* through the dialer, a caller that does not wait for the first of two        *)
(* goroutines, and two callers that share one goroutine, the other client and  *)
(* the penalties; and, when nobody calls any of that, two calls of Client.Do   *)
(* for two hosts.                                                              *)
EXTENDS ClientCalls, ClientHosts

CONSTANTS u1, r3

MCSettings == {
    [dial |-> "own", threads |-> Threads, callers |-> {}],
    [dial |-> "tcp", threads |-> Idempotent, callers |-> {}],
    [dial |-> "none", threads |-> Idempotent, callers |-> {u1}],
    [dial |-> "none", threads |-> {r3}, callers |-> Callers],
    [dial |-> "none", threads |-> {}, callers |-> {}]}

Quiet == setting.threads = {} /\ setting.callers = {}

MCInit == CallsInit /\ HostsInit
MCNext ==
    \/ ~Quiet /\ Next /\ UNCHANGED hostVars
    \/ Quiet /\ HostsNext /\ UNCHANGED allVars
MCSpec ==
    /\ MCInit /\ [][MCNext]_<<allVars, hostVars>>
    /\ Fairness
=============================================================================
