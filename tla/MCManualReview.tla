--------------------------- MODULE MCManualReview ---------------------------
(* One review case and small sets of people and processes for TLC. *)
EXTENDS ManualReview
=============================================================================
