SPECIFICATION PartsSpec
CONSTANTS
  m1 = m1
  m2 = m2
  Messages = {m1, m2}
  Windows = {1, 2}
  DefaultWindow = 1
  AgeOf <- MCAgeOf
  Batches <- MCBatches
  Volatile = {m1}
  Unbounded = Unbounded
  NoWindow = NoWindow
  NoSnapshot = NoSnapshot
  k1 = k1
  k2 = k2
  Mails = {k1, k2}
  Selections <- MCSelections
  AccountOf <- MCAccountOf
  Proposals = {p1, p2}
  Commits = {c1, c2}
  Roaming = {k1}
  NoMail = NoMail
  NoAccount = NoAccount
  NoProposal = NoProposal
  RuleKeys = {a1, a2}
  Verdicts = {v1}
  Drafts = {d1, d2}
  Documents = {x1}
  Versions = {1, 2}
  Pipelines = {q1, q2}
  KeepVersions = 1
  NoCache = NoCache
  o1 = o1
  o2 = o2
  Owners = {o1, o2}
  Preparers = {w1, w2}
  Modes <- MCModes
  Calls <- MCCalls
  Evidence <- MCEvidence
  Warmup = 1
  Window = 2
  Novelty = 2
  MaxEvents = 4
  Languages = {spanish, latin}
  Clients = {b1, b2}
  MaxSessions = 2
  Callers = {f1, f2}
  Engines = {1, 2}
  Eligible = {1, 2}
  Streaming = {1}
  Embedding = {1, 2}
  MaxAttempts = 3
  BreakerFailures = 2
  TransientRetry = TRUE
  ReduceOnOom = TRUE
  Asked = 4
  MinTokens = 2
  g1 = g1
  g2 = g2
  l1 = l1
  l2 = l2
  Goals = {g1, g2}
  Lines = {l1, l2}
  Offered <- MCOffered
  Observations <- MCObservations
  MaxVisible = 1
  MaxSteps = 3
  MaxRepeated = 3
  Prompts = {1, 2}
  TokenLimit = 4
  ContextWindow = 2
  OutputReserve = 1
  OutputCap = 1
  Excess = 1
CHECK_DEADLOCK FALSE
INVARIANTS
  PriorityKept GivesUpExhausted BreakerEarned
  SuppressedHidden MemoryMatchesStore
  OutcomesHonest
  EditsSurvive
  FreshIsExact OneVersion
  RecordsTrue
  StopJustified RepetitionIsStopped AnswersSettled
  UsableHoldsLock EndLoggedOnce
PROPERTIES MovedOnce ImplementsConfirmedMoves
