------------------------- MODULE MCSimControlPanel -------------------------
(***************************************************************************)
(* Instances of SimControlPanel for TLC.  The identities of the processes  *)
(* do not matter, so they are symmetric where no liveness is checked.      *)
(***************************************************************************)
EXTENDS SimControlPanel, TLC

Symmetry == Permutations(Activities)
=============================================================================
