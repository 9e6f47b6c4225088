---------------------------- MODULE MCServiceMessages ----------------------------
(* Instances of ServiceMessages for TLC.                                   *)
EXTENDS ServiceMessages

(* One error on two channels, which share a row, and one with its own row. *)
SomeKeys == {<<0, "errorA">>, <<1, "errorA">>, <<0, "errorB">>}
SomeSums == [errorA |-> 1001, errorB |-> 1002]
=============================================================================
