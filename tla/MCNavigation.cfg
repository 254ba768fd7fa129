SPECIFICATION MCSpec
CONSTANTS
  a = a
  b = b
  Pages = {a, b}
  Addresses <- MCAddresses
  MaxEntries = 3
  MaxTraversals = 2
  MaxSignIns = 1
  MaxChanges = 1
INVARIANTS
    ScreenIsSound
    LeaveRevealsTheLibrary
PROPERTIES
    LinksAreSettled
