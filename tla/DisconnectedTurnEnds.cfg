SPECIFICATION FairSpec
CONSTANTS
  Faults = {"disconnect"}
  Finishers = {f1}
  MaxPolls = 1
  Retries = 1
  MaxEvents = 1
PROPERTIES DisconnectedTurnEnds
CHECK_DEADLOCK FALSE
