\* Two builds beside a cleanup of two images, one with two tags.
SPECIFICATION Spec
CONSTANTS
  None = None
  a1 = a1
  a2 = a2
  b1 = b1
  a = a
  b = b
  Procs = {p1, p2}
  Images = {a, b}
  Tags = {a1, a2, b1}
  ImageOf <- MCImageOf
  Size <- MCSize
  OtherData = 2
  Prunable = 1
  Reports = {1, 9}
  Allowed = 4
  Target = 3
  Width = 4
  MaxTime = 1
  MaxFetches = 2
  MaxKills = 1
  MaxCleanups = 1
INVARIANTS LockedImagesStay LeastRecentlyUsedFirst RemovesOnlyAboveTarget
PROPERTIES CleanupEnds
CHECK_DEADLOCK FALSE
