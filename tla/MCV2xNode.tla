----------------------------- MODULE MCV2xNode ------------------------------
(***************************************************************************)
(* V2xNode on one right-turn lane through two conflict zones: this vehicle *)
(* is on the lane, or in the intersection centre past the first zone;      *)
(* another one may be going straight through either zone.                  *)
(***************************************************************************)
EXTENDS V2xNode

MCPoses == {"on4", "past1"}
MCLaneOf == [p \in Poses |-> IF p = "on4" THEN "L4" ELSE "none"]
MCLaneDirection == [l \in {"L4"} |-> "right"]
MCLaneLight == [l \in {"L4"} |-> "none"]
MCLaneZones == [l \in {"L4"} |-> [m \in Movements |-> IF m = "left_turn" THEN {} ELSE {1, 2}]]
MCBehind == [p \in Poses |-> IF p = "past1" THEN {1} ELSE {}]
MCDistance == [p \in Poses |-> [q \in Poses |-> 0]]

\* On the lane the zones are those of the movement; in the centre, those kept.
MCSelfInfos ==
  {v \in [pose : Poses, lane : {"L4", "none"}, turn : {"straight", "right_turn"},
          zones : SUBSET {1, 2}] :
     /\ v.lane = LaneOf[v.pose]
     /\ IF v.lane = "L4" THEN v.zones = {1, 2} ELSE v.zones \cap Behind[v.pose] = {}}

\* There are no lights here, and what is left of the traffic light status and of the NTP
\* period decides nothing that the properties look at, nor do the ages of the statuses,
\* the copy to be pushed and the filled queue: states that differ only there are not told apart.
View == <<txEnabled, info, fresh, others, connected, candidate, txPc, active, statusDue, self,
          selection, memory, statusElapsed, reported, introduced,
          rxPc, frame, current, next, turnState>>

MCPeerInfos == {[pose |-> "on4", lane |-> "L4", turn |-> "straight", zones |-> {z}] : z \in {1, 2}}
=============================================================================
