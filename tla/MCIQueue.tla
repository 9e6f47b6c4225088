------------------------------- MODULE MCIQueue -------------------------------
(* Instances of IQueue for TLC: symmetry sets for the safety runs.         *)
EXTENDS IQueue, TLC

Symmetry == Permutations(Producers) \cup Permutations(Workers) \cup Permutations(Entries)
=============================================================================
