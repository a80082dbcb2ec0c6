CONSTANTS
  Tasks = {t1, t2}
  Targets <- TargetType
  Images = {img1, img2}
  Original = Original
  Dirty = Dirty
  Free = Free
  Absent = Absent
  NoImage = NoImage
SPECIFICATION Spec
INVARIANTS OneSession BringUpIsSlow RadioBackOn LoaderNeedsHaltedCore
PROPERTIES QuietWires OnlyClearedTargetsChange SuccessMeansImage
