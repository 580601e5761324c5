\* One player registers and registers again, as its client does on load.
CONSTANTS
    Players = {1}
    Handlers = {h1, h2}
    Signatures = {"s1"}
    MaxPlayers = 1
    ClockSkew = 0
    Life = 2
    Margin = 1
    BatchSize = 1
    CursorWrap = 1
    MaxNow = 1
    MaxVersion = 1
    MaxSigned = 0
    MaxFaults = 0
    MaxCrashes = 0
SPECIFICATION Spec
INVARIANTS
    RegistrationPersists
