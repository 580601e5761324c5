\* Two players share one tree of two cycles.
CONSTANTS
    r0 = r0  r1 = r1  r2 = r2
    p1 = p1  p2 = p2
    Trees = {t1}
    Players = {p1, p2}
    Rolls <- MCRolls
    NextRoll <- MCNextRoll
    Bucket <- MCBucket
    MaterialBucket <- MCMaterialBucket
    Window = 5
    BaseRate = 1
    LevelBonus = 1
    LevelThresholds <- MCLevelThresholds
    MaxLevelRate = 2
    AxeBonus <- MCAxeBonus
    StoneRate = 2
    IronOreRate = 1
    IronOreUnlockXp = 1
    RequiredXp <- MCRequiredXp
    Recipe <- MCRecipe
    LogsPerTree = 2
    Reserve = 4
    InitialRoll <- MCInitialRoll
    Credits <- MCCredits
    Entries <- MCEntries
    MaxMove = 1
SPECIFICATION Spec
INVARIANTS
    TypeOK
    TreeStaysWorkable
    EarnedStateIsCanonical
    SupplyIsConserved
    MovesAreAccepted
PROPERTIES
    PlayersNeverBrick
    XpIsSoulbound
    AxesCostTheirRecipe
    TreesPayPlayersOnly
    PlaysByTheRules
