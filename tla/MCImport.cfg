SPECIFICATION Spec
CONSTANTS
  Mods = {m1, m2}
  NoName = NoName
  Names = {x}
  FrameMax = 4
  ObjMax = 2
  FunMax = 2
  ExitDepth = 0
SYMMETRY Symmetry
INVARIANTS TypeOK TablesKept CacheMirrorsRuns FramesLive SettledLookups
PROPERTY ImplementsLoader
CHECK_DEADLOCK FALSE
