SPECIFICATION LiveSpec
CONSTANTS
    Mine = {"s1"}
    Theirs = {"o1"}
    Paper = {"plain", "lined"}
    FirstPaper = "plain"
    MaxDrops = 2
    MaxErrors = 2
    MaxReadErrors = 1
    MaxAsks = 2
    MaxTurns = 2
    MaxQueue = 2
    MaxExpiries = 1
    MaxRenewals = 1
    MaxUses = 3
CHECK_DEADLOCK FALSE
INVARIANTS
    SessionIsSound
    ScreenMatchesPage
PROPERTIES
    InkSettles
