------------------------------- MODULE MCMap --------------------------------
(***************************************************************************)
(* A piece of the intersection of map/intersection_lanelet_v1.xml for      *)
(* model checking: a right-turn lane (as L4), a protected left lane (as    *)
(* L11) and an unprotected left lane (as L3), two conflict zones and poses *)
(* on each lane and in the intersection centre before and past the zones.  *)
(***************************************************************************)
EXTENDS Naturals

MCLanes == {"L3", "L4", "L11"}
MCPoses == {"on3", "on4", "on11", "centre", "past1", "past2"}
MCLaneOf == [p \in MCPoses |->
  CASE p = "on3" -> "L3" [] p = "on4" -> "L4" [] p = "on11" -> "L11" [] OTHER -> "none"]
MCLaneDirection == [l \in MCLanes |->
  CASE l = "L3" -> "unprotected_left" [] l = "L4" -> "right" [] OTHER -> "left"]
MCLights == {"TL1"}
MCLaneLight == [l \in MCLanes |-> IF l = "L11" THEN "none" ELSE "TL1"]
MCZones == {1, 2}
MCLaneZones == [l \in MCLanes |-> [m \in {"straight", "right_turn", "left_turn"} |->
  CASE l = "L4" /\ m = "right_turn" -> {1}
    [] l = "L4" /\ m = "straight" -> {1}
    [] l = "L11" /\ m = "left_turn" -> {1}
    [] l = "L11" /\ m = "straight" -> {2}
    [] l = "L3" /\ m = "left_turn" -> {1, 2}
    [] OTHER -> {}]]
MCBehind == [p \in MCPoses |->
  CASE p = "past1" -> {1} [] p = "past2" -> {1, 2} [] OTHER -> {}]
MCDistance == [p \in MCPoses |-> [q \in MCPoses |-> IF p = q THEN 0 ELSE 1]]
=============================================================================
