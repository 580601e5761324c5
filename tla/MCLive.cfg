\* Pages are closed for good, and the watcher has nothing to do while no tree is due.
SPECIFICATION LiveSpec
CONSTANTS
  j1 = j1  j2 = j2  d1 = d1  t1 = t1  t2 = t2  whole = whole  h1 = h1
  Joiner = {j1, j2}
  Commitment = {c1}
  Batch = {b1}
  Tree = {"leaf"}
  Inputs = 1
  MaxGraphNodes = 1
  StateRemaining = 2
  FundingRemaining = 3
  Lifetimes = {1}
  None = None
PROPERTIES JoinsSettle ClientSettles OperatorFinishes ServerComesRound
CHECK_DEADLOCK FALSE
