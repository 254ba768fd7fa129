SPECIFICATION LibraryLiveSpec
CONSTANTS
    Page = {p1, p2}
    Existing = {p1}
    NoPage = NoPage
    Clients = {"spa", "android"}
    Capacity = 1
    MaxHandlers = 2
    MaxTime = 2
INVARIANTS
    ListIsSound
PROPERTIES
    EventsNeverRegress
    ReconnectsConverge
