CONSTANTS
  UiTask = ui
  HttpTask = httpd
  MainTask = main
  FlashTasks = {w1}
  Tasks = {ui, httpd, main, w1}
  Selftest = TRUE
  Periodic = TRUE
  Targets <- ReadyTargets
  Images = {img}
  Original = Original
  Dirty = Dirty
  Free = Free
  Absent = Absent
  NoImage = NoImage
SPECIFICATION SysSpec
PROPERTIES CallersAnswered RadioReturns
