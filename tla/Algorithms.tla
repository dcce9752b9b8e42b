----------------------------- MODULE Algorithms -----------------------------
(***************************************************************************)
(* The computations that no other thread reaches into: the scan of the     *)
(* table (CandidateScan), the fields of frames and messages (Frames), the  *)
(* time stamps (Timestamps), the loading of a map file (MapLoading) and    *)
(* the shape of a lanelet or an area (MapPolygon).                         *)
(***************************************************************************)
EXTENDS CandidateScan, Integers, Sequences

CONSTANTS
  FieldValues, WideValues, ZoneIds, NotAnId, MaxZones,   \* of Frames
  Modulo, Width, Exact, RefEpoch, MaxClock,              \* of Timestamps
  NoId, Positions, AreaTags, LaneletTags,                \* of MapLoading
  ZoneRefs, LightRefs, LaneRefs, FileMovements,
  MaxAreas, MaxZoneAreas, MaxLanelets, MaxZonesPerLane,
  MaxRelations, MaxParticipants, MaxOut,
  DocAreas, DocLanelets, DocElements, DocRefs,
  PointTags, PointRefs, Probes,                          \* of MapPolygon
  MaxPoints, MaxPolygonPoints, DocPointRefs

\* A field's own values fit it, and an id is no other item; widths go to the 40 bits
\* of the epoch.
ASSUME FieldsAssumption ==
  /\ \A width \in 1..40 : FieldValues[width] \subseteq SUBSET (0..width - 1)
  /\ \A width \in 1..40 : WideValues[width] \subseteq SUBSET Nat
  /\ NotAnId \notin ZoneIds /\ MaxZones \in Nat

\* No clock reaches the integers that are not doubles.
ASSUME ClockAssumption ==
  /\ Modulo \in Nat \ {0} /\ RefEpoch \in Nat /\ MaxClock \in Nat
  /\ Exact \in Nat /\ MaxClock <= Exact
  /\ Width \in Nat /\ Exact < Width

\* An array of the map may have any size.
ASSUME FileAssumption ==
  {MaxAreas, MaxZoneAreas, MaxLanelets, MaxZonesPerLane, MaxRelations, MaxParticipants,
   MaxOut} \subseteq Nat

\* Coordinates are integers, of any size and sign.
ASSUME ShapeAssumption ==
  /\ PointTags \in Seq({PointTags[k] : k \in DOMAIN PointTags})
  /\ \A k \in DOMAIN PointTags : PointTags[k].x \in Int /\ PointTags[k].y \in Int
  /\ Probes \subseteq [x : Int, y : Int]
  /\ {MaxPoints, MaxPolygonPoints, DocPointRefs} \subseteq Nat

VARIABLES
  stage, carried, given,                   \* Frames
  clock, sync, rtos, frame, info, inStep,  \* Timestamps
  phase, map, element, document,           \* MapLoading
  polygon, refs, done                      \* MapPolygon

Fields == INSTANCE Frames
Stamps == INSTANCE Timestamps
File == INSTANCE MapLoading WITH Movements <- FileMovements, MaxZones <- MaxZoneAreas
Shape == INSTANCE MapPolygon WITH DocRefs <- DocPointRefs

-----------------------------------------------------------------------------
(***************************************************************************)
(* The properties of the parts; the scan's are those of CandidateScan.     *)
(***************************************************************************)

\* From one vehicle's RTOS over the message to another's nothing of the state is lost
\* and no field disturbs another, however wide a value is; and only zone ids get
\* into a VehicleInfo (the shifts and masks of can_handler.c with the codec).
StateArrivesUnchanged ==
  /\ Fields!FieldsReadBack /\ Fields!OwnStateArrivesUnchanged
  /\ Fields!ReceivedZonesAreIds

\* A frame handled within a period of its sensing reaches the other vehicles with its
\* sensing time, across wraps of the low bits and with an RTOS clock that lags, while
\* the Linux clock is not set back; whatever the clocks do, the low bits survive
\* (ntp_time_reconstruct with the codec).
StampsKeepSensingTime ==
  Stamps!TypeOK /\ Stamps!SensingTimeSurvives /\ Stamps!LowBitsSurvive

\* What a position is told is what the file declares, though later parts overwrite
\* earlier ones: the centre is the last area of that type, the context that of the
\* first lanelet with the position, the light that of the last element that names
\* one (intersection_map_load_xml with map_service_query_vehicle_context).
ContextFollowsTheFile ==
  /\ File!TypeOK /\ File!CenterIsTheLastDeclared
  /\ File!ContextIsOfTheLaneUnder /\ File!LightIsTheLastDeclared

\* What a query says of a lane and a movement is what the file declares: conflicting
\* movements find the zone they share, no zone is made up or out of order even when
\* tables overflow, and the lane's own list has what its movements cross
\* (parse_regulatory_elements with the zone queries).
ConflictsFollowTheFile ==
  /\ File!DeclaredConflictsAreSeen /\ File!AnswersFollowTheFile
  /\ File!LaneListCoversMovements

\* point_in_polygon against geometry: a convex lane holds what its half-planes hold,
\* where the file begins a polygon and which way round makes no difference, and
\* between two lanes with a common border there is no gap.
LanesHoldTheirGround ==
  /\ Shape!ConvexMeansAllHalfPlanes /\ Shape!CornerOrderDoesNotMatter
  /\ Shape!NoGapBetweenNeighbours

\* Corners are points of the file that have room; one lost to a reference that is not
\* found never makes a convex lane larger, and the centre of a convex conflict zone
\* lies in it (parse_area_point_refs, map_service_get_conflict_zone_center).
ShapesStayInside ==
  Shape!TypeOK /\ Shape!LostCornerOnlyShrinks /\ Shape!ZoneCenterLiesInZone
=============================================================================
