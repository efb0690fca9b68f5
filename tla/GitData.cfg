\* The cache of git data: two processes, kills, collections over time.
SPECIFICATION DataSpec
CONSTANTS
  NoFile = NoFile
  Torn = Torn
  NoProc = NoProc
  p1 = p1
  p2 = p2
  Procs = {p1, p2}
  Keys = {"k1", "k2"}
  Names = {"include", "mapping"}
  KeepFor = 1
  MaxTime = 2
  MaxAsks = 3
  MaxKills = 1
  MaxCollections = 2
INVARIANTS FilesAtHand ClonesWhole
CHECK_DEADLOCK FALSE
