------------------------------- MODULE MCServe -------------------------------
(* A SelfCaller with a judge, consulted at every second delta, around one with     *)
(* rules, with one more round and two, around an orchestrator of two steps.           *)
EXTENDS Serve

MCMaxDepth == <<1, 2>>
MCGuard == <<"judge", "rules">>
=============================================================================
