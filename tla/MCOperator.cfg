\* `ensure` stops once the manifest is published, and `watch` has nothing to do
\* while no tree is due.
SPECIFICATION OperatorSpec
CONSTANTS
  whole = whole  d1 = d1  d2 = d2
  Deposits = {whole, d1, d2}
  Amount <- MCAmount
  Needed = 2
  Sizes <- MCSizes
  Repeats = FALSE
  MaxFaults = 1
  MaxChops = 1
  Trees = {1, 2}
  Broken = {2}
  Hidden = {}
  Concurrency = 2
  Policies = {TRUE, FALSE}
  MaxCoins = 2
  BatchLife = 4
  LifeLeft = 2
  MinMargin = 3
  MaxMargin = 6
  ExpiryMargin = 1
  MaxTime = 2
  MaxOutputs = 3
INVARIANTS OneWorld WavesAreSound
PROPERTY NoRenewalLoop
CHECK_DEADLOCK FALSE
