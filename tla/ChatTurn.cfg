SPECIFICATION Spec
CONSTANTS
  Faults = {"disconnect", "acquire", "send", "abort", "history", "db"}
  Finishers = {f1, f2}
  MaxPolls = 1
  Retries = 1
  MaxEvents = 2
INVARIANTS OneOutcome DoneIsDone DeferredTurnIsPolled
SYMMETRY Symmetry
CHECK_DEADLOCK FALSE
