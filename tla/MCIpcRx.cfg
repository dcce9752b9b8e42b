SPECIFICATION Spec
CONSTANTS
  Streams <- MCStreams
  Base = 4
  Sync = 3
  Start1 = 1
  Start2 = 2
  PrepareSize = 5
  MinLength = 1
  MaxPacket = 16
  BufferSize = 32
  EgoBytes <- MCEgoBytes
  Crc <- MCCrc
INVARIANTS
  IntactFramesTaken
  HoldBackBounded
PROPERTY
  ParserReturns
