SPECIFICATION AllSpec
CONSTANTS
  FreshLimit = 1
  Oldest = 4
  MaxSamples = 3
  WireBound = 2
  TopicIds = {0, 1, 3}
  Payloads <- MCPayloads
  TableSize = 2
  TimeModulus = 2
  InvalidId = 255
  CommErrorId = 128
  LightPeriod = 3
  MaxPublications = 2
VIEW View
PROPERTIES
  StaleOnlyIfHeldUp
  ImplementsLatestValue
  LatestReachesBroker
  LightFramesAreTrue
  LightStatusSettles
