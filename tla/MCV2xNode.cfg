SPECIFICATION NodeSpec
CONSTANTS
  Poses <- MCPoses
  Lanes = {"L4"}
  NoLane = "none"
  LaneOf <- MCLaneOf
  LaneDirection <- MCLaneDirection
  Lights = {}
  NoLight = "none"
  LaneLight <- MCLaneLight
  Zones = {1, 2}
  LocatedZones = {1, 2}
  LaneZones <- MCLaneZones
  Behind <- MCBehind
  Distance <- MCDistance
  NoInfo = NoInfo
  VehicleIds = {1}
  SelfId = 3
  NoOne = NoOne
  StatusPeriod = 1
  LightPeriod = 2
  NtpPeriod = 1
  SelfInfos <- MCSelfInfos
  PeerInfos <- MCPeerInfos
VIEW View
PROPERTIES TxAsSpecified ReportedZoneIsAhead TurnOverIsTold BlockerIsTold
