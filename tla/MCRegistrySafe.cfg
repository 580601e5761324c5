\* The bounds of "output"; MCServerRegistry gives the others.
CONSTANTS
    h1 = h1  h2 = h2
    Players = {1}
    Handlers = {h1}
    Signatures = {"s1"}
    MaxPlayers = 1
    ClockSkew = 1
    Life = 2
    Margin = 2
    BatchSize = 1
    CursorWrap = 1
    MaxNow = 2
    MaxVersion = 2
    MaxSigned = 2
    MaxFaults = 0
    MaxCrashes = 0
SYMMETRY HandlerSymmetry
SPECIFICATION BoundedSpec
INVARIANTS
    AcknowledgedConsentSurvives
    DelegationIsSigned
PROPERTIES
    CacheNeverRegresses
    RevocationsAreHonoured
    OnlyDueOutputsAreRenewed
