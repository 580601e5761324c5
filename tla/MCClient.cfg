\* Reading a list ends.
SPECIFICATION ClientSpec
CONSTANTS
  Deposit = {d1, d2, d3}
  FinalizeAttempts = 3
  MaxPlayer = 2
  MaxTree = 2
  ResumeAttempts = 1
  Tree = {t1, t2}
  MaxSpends = 2
  MaxBatch = 2
  IndexAttempts = 2
  x1 = x1  x2 = x2  x3 = x3  x4 = x4
  None = None
  Absent = Absent
SYMMETRY Symmetry
INVARIANTS ActivationsAreSound JournalsAreSound ReadingIsExact
PROPERTY SyncIsTrue
CHECK_DEADLOCK FALSE
