SPECIFICATION LinkSpec
CONSTANTS
  Poses <- MCPoses
  Lanes <- MCLanes
  NoLane = "none"
  LaneOf <- MCLaneOf
  LaneDirection <- MCLaneDirection
  Lights <- MCNoLights
  NoLight = "none"
  LaneLight <- MCNoLaneLight
  Zones <- MCZones
  LocatedZones <- MCZones
  LaneZones <- MCLaneZones
  Behind <- MCBehind
  Distance <- MCDistance
  NoInfo = NoInfo
  VehicleIds = {1}
  SelfId = 3
  NoOne = NoOne
  StatusPeriod = 2
  LightPeriod = 2
  NtpPeriod = 1
  SelfInfos <- MCSelfInfos
  PeerInfos <- MCPeerInfos
VIEW View
INVARIANTS
  IdleBeliefOnlyByRefusedStop
  KnowsThisCandidacy
PROPERTIES
  RefusalsHeal
  SettlesOnTruth
  DanglingCandidateRepaired
