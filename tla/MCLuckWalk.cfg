CONSTANTS
    low = low  high = high
    Rolls <- MCRolls
    NextRoll <- MCNextRoll
    Bucket <- MCBucket
    MaterialBucket <- MCBucket
    Window = 10000
    BaseRate = 2000
    LevelBonus = 200
    LevelThresholds <- MCLevelThresholds
    MaxLevelRate = 3000
    AxeBonus <- MCAxeBonus
    StoneRate = 1000
    IronOreRate = 200
    IronOreUnlockXp = 47
    RequiredXp <- MCRequiredXp
    Recipe <- MCRecipe
    StartCredits <- MCStartCredits
    MaxXp = 9
SPECIFICATION Spec
\* The walk stops at MaxXp.
CHECK_DEADLOCK FALSE
INVARIANTS
    MissRunsAreBounded
    WinRunsAreBounded
    RewardsFollowTheRates
