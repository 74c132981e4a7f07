SPECIFICATION AgentMemorySpec
CONSTANTS
  edit = edit
  check = check
  s1 = s1
  Calls <- BothTools
  PlanSteps = {s1}
  StepOf <- SameStep
  MaxRetries <- Retries
  OnFailure <- Failures
  OnEmpty <- Empties
  MaxSteps = 4
  MaxRepeated = 3
  HasCritic = TRUE
  Guarded = TRUE
  MaxRuns = 2
  NoCall = NoCall
  NoStep = NoStep
  a = a
  b = b
  Procs <- TwoProcs
  Topics = {t1}
  NoTopic = NoTopic
  MaxEpisodes = 2
SYMMETRY Interchangeable
CHECK_DEADLOCK FALSE
INVARIANTS
  RetriesBudgeted RetryIsFresh RepeatsBounded OutcomePersisted GuardIsFinal
  WriterKeepsOwn RemovedStaysRemoved StoredIsKept RemovedIsUnindexed
PROPERTY ImplementsEpisodeStore
