CONSTANTS
  Algos <- AllLoaders
  Lens = {1, 4, 7, 9}
  FlashSize = 8
  DevSectors <- Device
  Base = 0
  ReadChunk = 4
  OldData = OldData
  Blank = Blank
  Garbage = Garbage
  NoAlgo = NoAlgo
SPECIFICATION Spec
INVARIANTS OkMeansProgrammed CallsRunTheirLoader NeighboursSurvive NeverProgramsUnerased
PROPERTIES ImplementsContract ProgressForward RunEnds
