-------------------------- MODULE MCOperatorRegistry --------------------------
(* Small sets of workers, names and versions for TLC.                      *)
EXTENDS OperatorRegistry
=============================================================================
