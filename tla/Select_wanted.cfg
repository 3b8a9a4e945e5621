\* A file that is hung up can be read (the end) and written (an error).
SPECIFICATION Spec
CONSTANTS
  NoObj = NoObj
  NoFd = NoFd
  Fd = {0, 3, 9}
  SetSize = 8
  Obj = {h1}
  Readiness = {{}, {"r"}, {"w"}, {"r", "w"}, {"r", "w", "hup"}}
  Wants = {{"r"}, {"w"}, {"r", "w"}}
  OmitObj = FALSE
  InsertTwice = FALSE
  InsertInEvents = FALSE
INVARIANT
  EventIsReady
