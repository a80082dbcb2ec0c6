CONSTANTS
  Tasks = {ui, httpd}
  Http = httpd
  QueueLen = 4
  MaxPlugs = 3
  Chunks = 2
  Free = Free
SPECIFICATION Spec
INVARIANTS JobKeepsItsStick MarksAgree
PROPERTIES FallsBack
