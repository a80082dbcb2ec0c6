CONSTANTS
  TargetLens = {0, 2, 4}
  FileLens = {3}
  Block = 2
  OffsetMod = 4
  MaxBlob = 7
  MaxUnderWay = 3
SPECIFICATION Spec
INVARIANTS TransfersFaithful NoStaleAnswer
PROPERTIES ConfigWhole TransferEnds SilenceShows
