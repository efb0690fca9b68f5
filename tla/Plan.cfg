\* Configurations of up to three images on two platforms.
SPECIFICATION Spec
CONSTANTS
  a = a
  b = b
  c = c
  r = r
  amd = amd
  arm = arm
  Images = {a, b, c, r}
  Platforms = {amd, arm}
  RuntimePlatform = amd
  BackendPlatform = amd
  Configs <- MCConfigs
INVARIANTS NeededBuiltFirst PlanIsExact
PROPERTIES BuildEnds
CHECK_DEADLOCK FALSE
