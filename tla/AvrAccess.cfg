CONSTANTS
  Ui = ui
  Http = httpd
  Api = api
  WebTasks = {w1}
  Tasks = {ui, httpd, api, w1}
  Ifaces = {"isp", "updi", "pdi", "tpi"}
  Devices <- SomeDevices
  Files <- SomeFiles
  NoFile = NoFile
  DefaultSize = 1
  MaxTries = 2
  Wrap = 2
  OldData = OldData
  Blank = Blank
  Garbage = Garbage
SPECIFICATION Spec
INVARIANTS FlagHasOneHolder OkMeansFlashed
PROPERTIES ChangesOnlyForGoodFiles ReleasesTarget CallsReturn
