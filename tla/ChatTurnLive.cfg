SPECIFICATION FairSpec
CONSTANTS
  Faults = {"drop", "db"}
  Finishers = {f1, f2}
  MaxPolls = 1
  Retries = 1
  MaxEvents = 1
PROPERTIES WatchedTurnEnds AnswerNotified
CHECK_DEADLOCK FALSE
