--------------------------- MODULE MCPipelineClient ---------------------------
(***************************************************************************)
(* Two callers that call twice, so that works come from the pool, with a   *)
(* connection that breaks once; three callers that call once, which are    *)
(* enough to fill and overflow a queue of one.                             *)
(***************************************************************************)
EXTENDS PipelineClient
CONSTANTS c1, c2, c3
Kinds(a, b, c) == (c1 :> a @@ c2 :> b @@ c3 :> c)
MCSettings ==
    {[max |-> 1, calls |-> Kinds(2, 1, 0), faults |-> 1,
      kinds |-> Kinds({"deadline"}, {"do"}, {})],
     [max |-> 1, calls |-> Kinds(1, 1, 1), faults |-> 0,
      kinds |-> Kinds({"do"}, {"do"}, {"do"})],
     [max |-> 1, calls |-> Kinds(1, 1, 0), faults |-> 1,
      kinds |-> Kinds({"deadline"}, {"late"}, {})]}
=============================================================================
