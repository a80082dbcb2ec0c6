CONSTANTS
  TargetLens = {0, 3}
  FileLens = {3}
  Block = 2
  OffsetMod = 4
  MaxBlob = 7
  MaxUnderWay = 2
SPECIFICATION Spec
INVARIANTS PullExact
