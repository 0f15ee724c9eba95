SPECIFICATION ClientSpec
CONSTANTS
  MaxQueue = 2
  MaxCount = 1
INVARIANTS
  AnnouncesSinceLast
PROPERTIES
  KeepsAnnouncing
  TrafficRead
