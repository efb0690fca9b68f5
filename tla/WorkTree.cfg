\* The shared git work tree: two processes, kills, a collector, dev mode.
SPECIFICATION Spec
CONSTANTS
  Junk = Junk
  NoFile = NoFile
  NoProc = NoProc
  Procs = {p1, p2}
  Paths = {"a", "b"}
  Values = {0, 1}
  Subs = {0, 1, 2}
  Base <- MCBase
  Requests <- MCRequests
  MaxRequests = 3
  MaxKills = 1
  MaxEdits = 1
INVARIANTS PreparedIsCommit ServiceCommitIsSource
PROPERTY EveryRequestEnds
CHECK_DEADLOCK FALSE
