------------------------ MODULE MCFileDescriptorManager ------------------------
(* Instances of FileDescriptorManager for TLC.                             *)
EXTENDS FileDescriptorManager, TLC

Symmetry == Permutations(Threads) \cup Permutations(Fds)
=============================================================================
