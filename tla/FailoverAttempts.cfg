SPECIFICATION FailoverSpec
CONSTANTS
  c1 = c1
  c2 = c2
  Callers = {c1, c2}
  Engines = {1, 2}
  Eligible = {1, 2}
  Streaming = {1}
  Embedding = {1, 2}
  MaxAttempts = 3
  BreakerFailures = 2
  TransientRetry = TRUE
  ReduceOnOom = TRUE
  Asked = 4
  MinTokens = 2
INVARIANT AttemptsTotal
