SPECIFICATION AllSpec
CONSTANTS
  Nothing = Nothing
  Off = Off
  Fd = {0, 1}
  MaxShared = 1
  Sock = {s1, s2}
  Stream = {f1, f2}
  Dir = {d1}
  Entries <- SmallEntries
  Integer = {2}
  LeastBuffer = 1
  MostBuffer = 5
  MaxAssigned = 2
  Hosts <- SmallHosts
  Protos = {132, 1}
  Ports = {0, 7, 8}
  PathSize = 3
  MaxPort = 7
  Junk <- SmallJunk
  MaxKnown = 3
  Name = {"a", "b"}
  Ino = {1, 2}
  Modes <- SmallModes
  MaxLinks = 1
  PathNames <- SmallPaths
  Iterator = {1, 2}
  MaxMatches = 2
  MaxList = 3
  Child = {1, 2}
  Chunk = 2
  MaxEnv = 5
  Id = {0, 1}
  Amount = {1, 5}
  Width = 3
  Cpus = {{0, 1}, {0, 2}}
  Ctx = {c1, c2}
  Conf = {"k"}
  Ptr = {1, 2}
  Cptr = {1, 2}
  TlsCalls = {"f", "g"}
  MAX_SIG = 3
  Unwilling = {3}
  Func = {1, 2, 3, 4}
  NoFunc = 0
  MaxRaised = 2
  Ident = {"i", "j"}
SYMMETRY Symmetry
INVARIANTS
  TypesOK
  OneOwner
  NoLeak
  TrueAnswer
  ReadsBack
CHECK_DEADLOCK FALSE
