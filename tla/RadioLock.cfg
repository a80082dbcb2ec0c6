CONSTANTS
  Ui = ui
  Http = http
  FtpTasks = {f1}
  MaxSessions = 1
  Chunks = 2
  Free = Free
  NoFile = NoFile
  Old = Old
  New = New
  NoChunk = NoChunk
SPECIFICATION WillingSpec
PROPERTY FlashReturns
CHECK_DEADLOCK FALSE
