\* A delegated output comes due and stays so, through one failure, one crash and
\* a change of its state and consent.
CONSTANTS
    Players = {1}
    Handlers = {h1}
    Signatures = {"s1"}
    MaxPlayers = 1
    ClockSkew = 0
    Life = 2
    Margin = 2
    BatchSize = 1
    CursorWrap = 1
    MaxNow = 2
    MaxVersion = 2
    MaxSigned = 1
    MaxFaults = 1
    MaxCrashes = 1
SPECIFICATION LiveSpec
PROPERTIES
    DelegatedPlayersAreRenewed
