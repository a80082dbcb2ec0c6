CONSTANTS
  Ui = ui
  Http = http
  FtpTasks = {f1, f2}
  MaxSessions = 1
  Chunks = 2
  Free = Free
  NoFile = NoFile
  Old = Old
  New = New
  NoChunk = NoChunk
SPECIFICATION Spec
INVARIANTS SessionsCounted
PROPERTIES FilesWhole JobsEnd
CHECK_DEADLOCK FALSE
