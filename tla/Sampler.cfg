SPECIFICATION FairSpec
CONSTANTS
  a = a
  b = b
  Insts = {a, b}
  Preview = p
  Group <- Mute
  Length = 3
  Release = 0
  Cycles <- Frames
  Limits <- OneLimit
  MaxVoices = 2
  MaxLate = 1
  MaxStray = 0
INVARIANTS Counted OnTime ReleaseAsked Exclusive
PROPERTIES DeletedSilent FallsSilent
CHECK_DEADLOCK FALSE
