SPECIFICATION Spec
CONSTANTS
  Poses <- MCPoses
  Lanes <- MCLanes
  NoLane = "none"
  LaneOf <- MCLaneOf
  LaneDirection <- MCLaneDirection
  Lights <- MCLights
  NoLight = "none"
  LaneLight <- MCLaneLight
  Zones <- MCZones
  LocatedZones <- MCZones
  LaneZones <- MCLaneZones
  Behind <- MCBehind
  Distance <- MCDistance
  NoInfo = NoInfo
INVARIANTS
  FlagFollowsMode
  SamplesCoherent
PROPERTIES
  TurnsEndStraight
