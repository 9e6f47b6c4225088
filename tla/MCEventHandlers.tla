---------------------------- MODULE MCEventHandlers ----------------------------
(* Instances of EventHandlers for TLC.                                     *)
EXTENDS EventHandlers, TLC

CONSTANTS o1, o2, s1, s2, e1, e2, d1, d2

OwnSinks == o1 :> s1 @@ o2 :> s2      \* each owner has a sink of its own

Threads == Permutations({d1, d2})
=============================================================================
