SPECIFICATION ThreadsSpec
CONSTANTS
  edit = edit
  check = check
  s1 = s1
  Calls <- BothTools
  PlanSteps = {s1}
  StepOf <- OneStep
  MaxRetries <- Retries
  OnFailure <- Failures
  OnEmpty <- Empties
  MaxSteps = 3
  MaxRepeated = 3
  HasCritic = TRUE
  Guarded = TRUE
  MaxRuns = 2
  NoCall = NoCall
  NoStep = NoStep
  m1 = m1
  Messages = {m1}
  Windows = {1, 2}
  DefaultWindow = 1
  AgeOf <- MCAgeOf
  Batches <- MCBatches
  Volatile = {m1}
  Unbounded = Unbounded
  NoWindow = NoWindow
  NoSnapshot = NoSnapshot
  Letters = {l1}
  Readers = {r1, r2}
  Languages = {spanish, latin}
  Clients = {b1}
  MaxSessions = 2
  Callers = {f1, f2}
  Engines = {1, 2}
  Eligible = {1, 2}
  Streaming = {1}
  Embedding = {2}
  MaxAttempts = 2
  BreakerFailures = 1
  TransientRetry = TRUE
  ReduceOnOom = TRUE
  Asked = 2
  MinTokens = 1
CHECK_DEADLOCK FALSE
INVARIANTS
  SucceededIsSeen
PROPERTIES
  RunEnds CallReturns WindowServed PropagationSettles LanguageFreed
