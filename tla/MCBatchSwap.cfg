SPECIFICATION Spec
CONSTANTS
  Joiner = {j1}
  Commitment = {c1, c2}
  Batch = {b1, b2}
  Tree <- MCBranch
  Inputs = 2
  MaxGraphNodes = 3
  StateRemaining = 3
  FundingRemaining = 2
  Lifetimes = {1, 2}
  None = None
INVARIANT JoinIsSound
PROPERTIES SwapIsAtomic RetryIsSafe
CHECK_DEADLOCK FALSE
