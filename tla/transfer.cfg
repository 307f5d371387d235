SPECIFICATION Spec
CONSTANTS
  Text = {"x"}
  Contents <- AllFiles
  BufferSize = 2
  InFlight = 4
  Faults = {"read", "reset", "full"}
INVARIANTS TypeOK ArrivesAsDefined SurvivesAsAssumed
PROPERTIES TransferEnds EveryStepCounts
CHECK_DEADLOCK FALSE
