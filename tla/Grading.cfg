SPECIFICATION Spec
CONSTANTS
  TTLs = {0, 1, 3, 4}
  ExitCodes = {0, 1, 101, 134, 137, 143}
  MaxDur = 5
  NoFix = NoFix
  NoMessage = NoMessage
  Messages <- SomeMessages
  RustOutputs <- SomeRustOutputs
  GoOutputs <- SomeGoOutputs
INVARIANTS TypeOK TimeoutIsTheLimit OutcomeNamesStage RewardFollowsVerdict EveryErrorIsKept
CHECK_DEADLOCK FALSE
