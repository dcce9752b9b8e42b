----------------------------- MODULE MapService -----------------------------
(***************************************************************************)
(* What the rest of the program asks of the loaded intersection map: which *)
(* lane a pose is on, which way that lane may turn, which traffic light    *)
(* governs it, and which conflict zones a movement from it crosses.  The   *)
(* map is read once at start-up (map_service_init) and never changes, so   *)
(* it is a set of constants.                                               *)
(*                                                                         *)
(* A pose stands for one (x, y, heading) of a vehicle.  A conflict zone is *)
(* the number of its place in the map's list of conflict relations, so the *)
(* order of the ids in a conflict_zone_ids array is the order of Nat.      *)
(***************************************************************************)
EXTENDS Naturals, FiniteSets

CONSTANTS
  Poses,          \* abstract (x, y, heading) triples
  Lanes,          \* lanelets of the map
  NoLane,         \* the empty lanelet id: intersection centre, or off the map
  LaneOf,         \* the lanelet whose polygon holds a pose, or NoLane
  LaneDirection,  \* Direction of a lanelet, from its maneuver attribute
  Lights,         \* traffic lights of the map
  NoLight,        \* the empty traffic light id
  LaneLight,      \* the traffic light a lanelet refers to, or NoLight
  Zones,          \* conflict zones
  LocatedZones,   \* the zones whose area the map defines, so they have a centre
  LaneZones,      \* the zones that a movement from a lanelet crosses
  Behind,         \* the zones more than 10 cm behind a vehicle at a pose
  Distance,       \* squared distance of two poses
  NoInfo          \* no VehicleInfo: nothing received, nothing queued, or expired

TurnStates == {"straight", "right_turn", "left_turn", "unprotected_left"}
Directions == {"straight", "right", "left", "unprotected_left"}
Movements == {"straight", "right_turn", "left_turn"}

ASSUME MapAssumption ==
  /\ NoLane \notin Lanes
  /\ NoLight \notin Lights
  /\ LaneOf \in [Poses -> Lanes \cup {NoLane}]
  /\ LaneDirection \in [Lanes -> Directions]
  /\ LaneLight \in [Lanes -> Lights \cup {NoLight}]
  /\ Zones \subseteq Nat
  /\ LocatedZones \subseteq Zones
  /\ LaneZones \in [Lanes -> [Movements -> SUBSET Zones]]
  /\ Behind \in [Poses -> SUBSET Zones]
  /\ Distance \in [Poses -> [Poses -> Nat]]

(***************************************************************************)
(* The relations of a map name a lanelet and a movement; a protected and   *)
(* an unprotected left turn are the same movement.                         *)
(***************************************************************************)
MovementFromTurnState(turn) ==
  IF turn \in {"left_turn", "unprotected_left"} THEN "left_turn" ELSE turn

ZonesForMovement(lane, movement) == LaneZones[lane][movement]

LinkedLight(lane) == IF lane = NoLane THEN NoLight ELSE LaneLight[lane]

(***************************************************************************)
(* A VehicleInfo, as kept for this vehicle and received about the others.  *)
(***************************************************************************)
VehicleInfos ==
  [pose : Poses, lane : Lanes \cup {NoLane}, turn : TurnStates, zones : SUBSET Zones]

ASSUME NoInfoAssumption == NoInfo \notin VehicleInfos
=============================================================================
