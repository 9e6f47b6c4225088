--------------------------------- MODULE MCRights ---------------------------------
(* Instances of Rights for TLC.                                            *)
EXTENDS Rights, TLC

CONSTANTS p1, p2, t1, t2, g1, g2, alice, broken

MCPeers == {p1, p2}
MCNames == [id |-> 1..4, serial |-> {"A", "B", "C"}]
MCFirstName == [id |-> (p1 :> 1 @@ p2 :> 2), serial |-> (p1 :> "A" @@ p2 :> "B")]
\* A channel with a state that is placed, one with a button, a list and a
\* password, one that is not there as long as the device is configured for
\* two channels, and one that is not shown.
State == <<0, "STATE">>
Press == <<1, "PRESS">>
Colors == <<1, "COLORS">>
Secret == <<1, "SECRET">>
MCTouched == {State}
MCVars == {State, Press, Colors, Secret}
MCAccess == (State :> "both" @@ Press :> "writeable" @@ Colors :> "both" @@ Secret :> "readable")
MCDescribed == (State :> {71} @@ Press :> {} @@ Colors :> {} @@ Secret :> {})

ParameterOf(id, type, flags) ==
  [id |-> id, type |-> type, flags |-> flags, isRole |-> FALSE, minimum |-> 0, maximum |-> 100, specialValues |-> {}]
MCParameters ==
  (State :> [ParameterOf("STATE", "INTEGER", {"visible", "readable", "writeable", "transmitted", "ccu2Visible"})
               EXCEPT !.specialValues = {101}]
   @@ Press :> ParameterOf("PRESS", "ACTION", {"visible", "writeable", "transmitted", "ccu2Visible"})
   @@ Colors :> ParameterOf("COLORS", "ARRAY", {"visible", "readable", "writeable"})
   @@ Secret :> ParameterOf("SECRET", "STRING", {"visible", "readable", "password", "ccu2Visible"}))

FunctionAt(channel, flags, variables) ==
  [channel |-> channel, countFromVariable |-> "", flags |-> flags, config |-> {}, variables |-> variables,
   links |-> {}, direction |-> 0, groupedWith |-> -1]
MCFunctions ==
  (0 :> [FunctionAt(0, {"visible"}, {"STATE"}) EXCEPT !.config = {"COUNT", "CODE", "RESET"}]
   @@ 1 :> [FunctionAt(1, {"visible", "deletable"}, {"PRESS", "COLORS", "SECRET"}) EXCEPT !.links = {"RAMP"}, !.groupedWith = 2]
   @@ 2 :> FunctionAt(2, {"internal"}, {})
   @@ 3 :> [FunctionAt(3, {"visible"}, {}) EXCEPT !.countFromVariable = "COUNT"])
MCConfigOf == (<<0, "COUNT">> :> ParameterOf("COUNT", "INTEGER", {"visible", "readable"})
               @@ <<0, "CODE">> :> ParameterOf("CODE", "STRING", {"visible", "password"})
               @@ <<0, "RESET">> :> ParameterOf("RESET", "ACTION", {"visible", "writeable"}))
MCCountOf == ("COUNT" :> 0)
MCDevice == [flags |-> {"visible", "deletable"}]

\* The button of one device switches the other one.
MCLinkTypes == [x \in MCPeers \X (0..3) |->
                  CASE x = <<p1, 1>> -> {"sender"} [] x = <<p2, 1>> -> {"receiver"} [] OTHER -> {}]
MCLinksOf == (<<p1, 1>> :> <<[to |-> p2, channel |-> 1, sender |-> TRUE]>>
              @@ <<p2, 1>> :> <<[to |-> p1, channel |-> 1, sender |-> FALSE]>>)
MCLinkedTo == (p1 :> {p2} @@ p2 :> {p1})
MCClientKinds == [ccu2 : BOOLEAN, newFormat : BOOLEAN, scriptEngine : {FALSE}]

List(aspect, dir, entries) == <<<<aspect, dir>>, entries>>

\* One group that restricts places, one that refuses the device, one that
\* lists variables and roles, and a row that cannot be read.
ByPlace == {List("rooms", "Read", 0 :> TRUE @@ 1 :> FALSE), List("categories", "Read", 1 :> TRUE),
            List("buildingParts", "Write", 0 :> FALSE @@ 1 :> TRUE)}
ByDevice == {List("devices", "Read", 0 :> TRUE @@ 3 :> FALSE), List("devices", "Write", 1 :> TRUE),
             List("categories", "Write", 0 :> TRUE @@ 1 :> FALSE)}
ByName == {List("variables", "Read", <<0, -3, "*">> :> TRUE @@ <<1, 0, "STATE">> :> TRUE),
           List("variables", "Write", <<1, -3, "STATE">> :> TRUE),
           List("roles", "Read", 0 :> FALSE @@ 71 :> TRUE), List("roles", "Write", 72 :> FALSE)}
Broken == {List("rooms", "Read", 1 :> broken)}

MCDatas == {ByDevice, Broken, Fault}
MCRows == {ByPlace, ByName}
MCTransfers == {<<ByName, ByDevice>>, <<ByPlace, Broken, ByName>>}
MCGroupsOf == (alice :> <<g1, g2>>)
MCBudgets == {[edit |-> 1, load |-> 2, place |-> 2, rename |-> 0, restart |-> 1, all |-> 3],
              [edit |-> 0, load |-> 1, place |-> 1, rename |-> 1, restart |-> 1, all |-> 3],
              [edit |-> 0, load |-> 1, place |-> 0, rename |-> 2, restart |-> 0, all |-> 3]}

\* The links above are as devices have them.
ASSUME MCLinksPaired == LinksPaired
=================================================================================
