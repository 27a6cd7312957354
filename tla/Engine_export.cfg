SPECIFICATION FairSpec
CONSTANTS
  Songs = {a, b}
  Default = d
  NoSong = none
  Ops <- ExportOps
  Fails = FALSE
PROPERTIES Exports
CHECK_DEADLOCK FALSE
