SPECIFICATION SyncSpec
CONSTANTS
  MaxEvents = 2
  Streams = {s1, s2}
  NoStream = NoStream
  ReplayLimit = 2
  Faults = {"network"}
INVARIANTS MissedAfterCursor
CHECK_DEADLOCK FALSE
