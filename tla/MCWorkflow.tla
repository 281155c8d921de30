------------------------------ MODULE MCWorkflow ------------------------------
(* Values of the constants of Workflow.                                    *)
EXTENDS Workflow

(* The calls that take or release what a workflow relies on.               *)
RivalCalls == {"park", "home", "capture", "solve", "setSafety"}
=============================================================================
