SPECIFICATION Spec
CONSTANTS
  Poses <- MCPoses
  Lanes <- MCLanes
  NoLane = "none"
  LaneOf <- MCLaneOf
  LaneDirection <- MCLaneDirection
  Lights <- MCLights
  NoLight = "none"
  LaneLight <- MCLaneLight
  Zones <- MCZones
  LocatedZones <- MCZones
  LaneZones <- MCLaneZones
  Behind <- MCBehind
  Distance <- MCDistance
  NoInfo = NoInfo
  VehicleIds = {1, 2}
  SelfId = 3
  NoOne = NoOne
  StatusPeriod = 2
  LightPeriod = 4
  NtpPeriod = 1
  SelfInfos <- MCSelfInfos
  PeerInfos <- MCPeerInfos
INVARIANTS
  TypeOK
  IntroducedBeforeReported
  ReportMatchesSelection
  IdleReportsNobody
  StatusNeverLate
  LightLateOnlyAfterStart
