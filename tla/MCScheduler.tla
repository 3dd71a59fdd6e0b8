---------------------------- MODULE MCScheduler ----------------------------
(* Three calls; tools that read, write one or two resources, or are serial. *)
EXTENDS Scheduler

Tool(parallel, uses, retry, policy) ==
    [parallel |-> parallel, uses |-> uses, retry |-> retry, policy |-> policy]

MCInputs == {
    Tool(TRUE,  {<<"A", "read">>}, TRUE, "allow"),
    Tool(TRUE,  {<<"A", "write">>}, FALSE, "ask"),
    Tool(TRUE,  {<<"A", "write">>, <<"B", "write">>}, FALSE, "allow"),
    Tool(FALSE, {}, FALSE, "ask")}
=============================================================================
