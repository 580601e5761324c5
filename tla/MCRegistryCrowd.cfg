\* Two players register at once where there is room for one, which is renewed.
CONSTANTS
    Players = {1, 2}
    Handlers = {h1, h2}
    Signatures = {"s1"}
    MaxPlayers = 1
    ClockSkew = 0
    Life = 2
    Margin = 2
    BatchSize = 1
    CursorWrap = 1
    MaxNow = 2
    MaxVersion = 1
    MaxSigned = 1
    MaxFaults = 0
    MaxCrashes = 0
SPECIFICATION Spec
INVARIANTS
    RegistryIsSound
