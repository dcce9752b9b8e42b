SPECIFICATION AllSpec
CONSTANTS
  Poses <- MCPoses
  Lanes <- MCLanes
  NoLane = "none"
  LaneOf <- MCLaneOf
  LaneDirection <- MCLaneDirection
  Lights <- MCLights
  NoLight = "none"
  LaneLight <- MCLaneLight
  Zones <- MCZones
  LocatedZones <- MCLocatedZones
  LaneZones <- MCLaneZones
  Behind <- MCBehind
  Distance <- MCDistance
  NoInfo = NoInfo
  VehicleIds <- MCVehicleIds
  SelfId = 3
  NoOne = NoOne
  MaxOthers = 5
  SelfInfos <- MCSelfInfos
  PeerInfos <- MCPeerInfos
  FieldValues <- MCFieldValues
  WideValues <- MCWideValues
  ZoneIds = {"cz1", "cz2"}
  NotAnId = "7"
  MaxZones = 2
  Modulo = 4
  Width = 64
  Exact = 32
  RefEpoch = 2
  MaxClock = 8
  NoId = ""
  Positions = {1, 2, 3}
  AreaTags <- LaneAreas
  LaneletTags <- LaneLanelets
  ZoneRefs = {"cz1", "cz2", ""}
  LightRefs = {"TL2", ""}
  LaneRefs = {"L3", "L4", ""}
  FileMovements = {"straight", "right_turn"}
  MaxAreas = 2
  MaxZoneAreas = 1
  MaxLanelets = 2
  MaxZonesPerLane = 2
  MaxRelations = 2
  MaxParticipants = 2
  MaxOut = 2
  DocAreas = 3
  DocLanelets = 3
  DocElements = 3
  DocRefs = 3
  PointTags <- MCPointTags
  PointRefs <- MCPointRefs
  Probes <- MCProbes
  MaxPoints = 10
  MaxPolygonPoints = 4
  DocPointRefs = 5
INVARIANTS
  ScanSelects
  ConflictsFollowTheFile
  ContextFollowsTheFile
  LanesHoldTheirGround
  ShapesStayInside
  StateArrivesUnchanged
  StampsKeepSensingTime
CHECK_DEADLOCK FALSE
