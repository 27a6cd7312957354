SPECIFICATION FairSpec
CONSTANTS
  U = 4
  Tempos <- TwoTempos
  Bars <- TwoBars
  Cycles <- ThreeCycles
  Seeks <- InTheSong
INVARIANTS Regular OnTime BarLength
PROPERTIES NoDrift Plays
CHECK_DEADLOCK FALSE
