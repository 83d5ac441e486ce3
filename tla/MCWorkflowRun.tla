---------------------------- MODULE MCWorkflowRun ----------------------------
(***************************************************************************)
(* Small instances of WorkflowRun.                                         *)
(***************************************************************************)
EXTENDS WorkflowRun

\* An edit and a wait, twice.
TwoWaits == <<"edit", "request", "answer", "edit", "request", "answer">>

\* A document that only edits.
OneEdit == <<"edit">>
==============================================================================
