------------------------ MODULE MCWorkflowOperations ------------------------
(* WorkflowOperations on a small instance.                                 *)
EXTENDS WorkflowOperations
=============================================================================
