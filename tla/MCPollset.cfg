SPECIFICATION AnySpec
CONSTANTS
  f1 = f1
  f2 = f2
  f3 = f3
  h1 = h1
  h2 = h2
  Obj = {h1, h2}
  NoObj = NoObj
  NoFd = NoFd
  NULL = NULL
  Fd <- Files
  Wants <- Wanted
  Readiness <- States
  InsertTwice <- Twice
  InsertInEvents <- Inside
  OmitObj = FALSE
  NoWrite = {}
  SetSize = 8
  Chunk = 3
  Rlimit = 2
  Junk <- Found
SYMMETRY Symmetry
INVARIANTS
  AnyTyped
  Agree
  ListValid
PROPERTY
  ImplementsPollset
