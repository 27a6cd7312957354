SPECIFICATION Spec
CONSTANTS
  U = 4
  Tempos <- TwoTempos
  Bars <- TwoBars
  Cycles <- ThreeCycles
  Seeks <- InTheSong
INVARIANT OwnBar
CHECK_DEADLOCK FALSE
