SPECIFICATION RunSpec
CONSTANTS
  edit = edit
  check = check
  s1 = s1
  Calls <- BothTools
  PlanSteps = {s1}
  StepOf <- OneStep
  MaxRetries <- Retries
  OnFailure <- Failures
  OnEmpty <- Empties
  MaxSteps = 2
  MaxRepeated = 3
  HasCritic = TRUE
  Guarded = TRUE
  MaxRuns = 2
  NoCall = NoCall
  NoStep = NoStep
CHECK_DEADLOCK FALSE
INVARIANT StateDurable
