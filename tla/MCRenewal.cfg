\* A renewal ends when its fee is settled or its trees are judged.
SPECIFICATION RenewalSpec
CONSTANTS
  me = me  peer = peer  op1 = op1  op2 = op2  t1 = t1  t2 = t2  t3 = t3
  Amount <- MCAmount
  MinChange = 2
  MaxRounds = 3
  Program <- MCProgram
  Wallet <- MCWallet
  Remaining = 3
  Unfunded = Unfunded
  TxId = {t1, t2, t3}
  Key = {me, peer, op1, op2}
  Announced <- MCAnnounced
  MaxBatchGraphNodes = 3
SYMMETRY Symmetry
INVARIANTS FeeIsCovered AcceptedTreesAreSound
CHECK_DEADLOCK FALSE
