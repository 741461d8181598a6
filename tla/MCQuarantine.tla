---------------------------- MODULE MCQuarantine ----------------------------
(* Quarantine for TLC: jobs, commands and contents are interchangeable.    *)
EXTENDS Quarantine, TLC

Symmetry == Permutations(Jobs) \cup Permutations(Commands) \cup Permutations(Contents)
=============================================================================
