SPECIFICATION NavSpec
CONSTANTS
  g1 = g1
  g2 = g2
  l1 = l1
  l2 = l2
  Goals = {g1, g2}
  Lines = {l1, l2}
  Offered <- MCOffered
  Observations <- MCObservations
  MaxVisible = 2
  MaxSteps = 4
  MaxRepeated = 3
  Prompts = {1}
  TokenLimit = 10
  ContextWindow = 3
  OutputReserve = 1
  OutputCap = 2
  Excess = 0
CHECK_DEADLOCK FALSE
INVARIANT HeldLedgerAccepted
