SPECIFICATION LiveSpec
CONSTANTS
    Flow = {f1, f2}
    Slot = {s1, s2}
    MaxKid = 2
    MaxActivity = 2
    Attempts = 2
    Issued = {"none", "no_kid", "scope"}
    None = None
INVARIANTS
    LoginsAreSound
PROPERTIES
    KeysRecover
CHECK_DEADLOCK FALSE
