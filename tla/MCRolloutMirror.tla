--------------------------- MODULE MCRolloutMirror ---------------------------
(* Small instances of RolloutMirror: those of MCRollout, with a brain.      *)
EXTENDS MCRollout, RolloutMirror
=============================================================================
