--------------------------- MODULE MCCorrectionSync ---------------------------
(* Two corrections of one target and small sets of sessions for TLC. *)
EXTENDS CorrectionSync, TLC

Symmetry == Permutations(Session) \cup Permutations(Correction)
=============================================================================
