SPECIFICATION ViewerSpec
CONSTANTS
  Points <- MCPoints
  Windows <- MCWindows
  RULE_SPACING_NARROW = 2
  RULE_SPACING_WIDE = 3
  MARGIN_X = 6
  MIN_PITCH = 4
  MAX_MARKS = 5
  Pointers = {1, 2}
  BannerHeight = 2
  MinScale = 1
  MaxScale = 8
  ZoomStep = 4
  Fine = 8
  Home = 2
  MaxInk = 2
  MaxEvents = 3
  Colors = {"red", "blue"}
  InkPositions <- MCPositions
  Nibs = {4, 16}
  Scales = {1, 3}
  View <- MCView
  MaxPoints = 3
  MaxStrokes = 2
INVARIANTS
    FramesAreSound
    GrabbedInkFollows
    PaperIsSound
    ReplayIsSound
PROPERTIES
    InkReachesTheCanvas
CHECK_DEADLOCK FALSE
