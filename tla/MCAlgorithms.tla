---------------------------- MODULE MCAlgorithms ----------------------------
(***************************************************************************)
(* The computations that no other thread reaches into, each for itself:    *)
(* the scan of the table, the loading of the map and what it answers, the  *)
(* shape of a lane, the fields of the frames and the time stamps.  A       *)
(* behaviour exercises one of them, and the others rest where they begin.  *)
(***************************************************************************)
EXTENDS Algorithms, MCMap, SequencesExt

VARIABLE exercised   \* which one

-----------------------------------------------------------------------------
(***************************************************************************)
(* The scan, over all tables of five places: a vehicle that conflicts at   *)
(* two distances, and one that does not.                                   *)
(***************************************************************************)
MCInfo(pose, turn) ==
  [pose |-> pose, lane |-> LaneOf[pose], turn |-> turn,
   zones |-> ZonesForMovement(LaneOf[pose], MovementFromTurnState(turn))]

MCSelfInfos == {MCInfo("on4", "right_turn"), MCInfo("on3", "unprotected_left")}
MCPeerInfos == {MCInfo("on11", "left_turn"), MCInfo("on11", "straight"), MCInfo("on4", "straight")}
MCVehicleIds == 0..4
MCLocatedZones == {1}   \* zone 2 is named by a relation but has no area

(***************************************************************************)
(* Files about areas, about lanelets that overlap each other and the       *)
(* centre, and about lights.                                               *)
(***************************************************************************)
LaneAreas ==
  {[id |-> "A1", type |-> "intersection_center", cells |-> {1}],
   [id |-> "A2", type |-> "intersection_center", cells |-> {2}],
   [id |-> "A1", type |-> "other", cells |-> {2}],
   [id |-> "cz1", type |-> "conflict_zone", cells |-> {1}]}

RightLanelet ==
  [id |-> "L4", maneuver |-> "straight_right", unprotected |-> FALSE, light |-> "",
   cells |-> {1, 2}]

LaneLanelets ==
  {[id |-> "L3", maneuver |-> "straight_left", unprotected |-> cells = {1},
    light |-> "TL1", cells |-> cells] : cells \in {{1}, {2, 3}}}
  \cup {RightLanelet}

LaneFile ==
  /\ Len(document.elements) <= 2 /\ element.type # "conflict_zone"
  /\ Len(element.appliesTo) <= 2 - Len(document.elements)
  /\ ~Contains(element.appliesTo, NoId)

(***************************************************************************)
(* Files that are all about conflict elements: one lanelet that they may   *)
(* name, and one that the file lacks.                                      *)
(***************************************************************************)
ConflictFile ==
  /\ document.areas = <<>> /\ document.lanelets \in {<<>>, <<RightLanelet>>}
  /\ element.type # "traffic_light"

(***************************************************************************)
(* Polygons with corners on a grid of 3 by 3, and positions at and halfway *)
(* between the grid points; one reference is to a point that did not fit   *)
(* into the point table, and one point's id occurs twice in the file.      *)
(***************************************************************************)
GridPoints == [n \in 1..9 |-> [id |-> n, x |-> 2 * ((n - 1) % 3), y |-> 2 * ((n - 1) \div 3)]]

MCPointTags == GridPoints \o <<[id |-> 1, x |-> 4, y |-> 4], [id |-> 10, x |-> 1, y |-> 1]>>
MCPointRefs == 1..10
MCProbes == [x : 0..4, y : 0..4]

(***************************************************************************)
(* Both ends of a field's values, and the values that come from elsewhere  *)
(* with one bit more or many.                                              *)
(***************************************************************************)
MCFieldValues == [width \in 1..40 |-> {{}, {0}, {width - 1}, 0..width - 1}]
MCWideValues == [width \in 1..40 |-> {{0}, {width}, 0..width, 0..19}]

-----------------------------------------------------------------------------
scanVars == vars
loadVars == <<phase, map, element, document>>
shapeVars == <<polygon, refs, done>>
fieldVars == <<stage, carried, given>>
stampVars == <<clock, sync, rtos, frame, info, inStep>>

AllInit ==
  /\ exercised \in {"scan", "conflict_file", "lane_file", "shape", "fields", "stamps"}
  /\ Init /\ File!Init /\ Shape!Init /\ Fields!Init /\ Stamps!Init
  /\ exercised # "scan" =>
       self = MCInfo("on4", "right_turn") /\ others = [id \in VehicleIds |-> NoInfo]
  /\ exercised # "stamps" => clock = 0

AllNext ==
  /\ UNCHANGED exercised
  /\ \/ /\ exercised = "scan" /\ Next
        /\ UNCHANGED <<loadVars, shapeVars, fieldVars, stampVars>>
     \/ /\ exercised = "conflict_file" /\ File!Next /\ ConflictFile'
        /\ UNCHANGED <<scanVars, shapeVars, fieldVars, stampVars>>
     \/ /\ exercised = "lane_file" /\ File!Next /\ LaneFile'
        /\ UNCHANGED <<scanVars, shapeVars, fieldVars, stampVars>>
     \/ /\ exercised = "shape" /\ Shape!Next
        /\ UNCHANGED <<scanVars, loadVars, fieldVars, stampVars>>
     \/ /\ exercised = "fields" /\ Fields!Next
        /\ UNCHANGED <<scanVars, loadVars, shapeVars, stampVars>>
     \/ /\ exercised = "stamps" /\ Stamps!Next
        /\ UNCHANGED <<scanVars, loadVars, shapeVars, fieldVars>>

AllSpec ==
  /\ AllInit
  /\ [][AllNext]_<<exercised, scanVars, loadVars, shapeVars, fieldVars, stampVars>>

=============================================================================
