CONSTANTS
  MemSize = 6
  Page = 3
  MaxWords = 4
  WaitRetryMax = 1
  ProtoRetryMax = 1
  Junk = Junk
  None = None
SPECIFICATION Spec
INVARIANTS SingleReadFaithful
