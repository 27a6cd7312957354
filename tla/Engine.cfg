SPECIFICATION FairSpec
CONSTANTS
  Songs = {a, b}
  Default = d
  NoSong = none
  Ops <- AllOps
  Fails = TRUE
INVARIANTS LocksSound OneSong DriversLive ReadyHasDriver MovesWithSong
PROPERTIES SongStable GuiReturns CyclesEnd
CHECK_DEADLOCK FALSE
