------------------------------ MODULE Bindings -------------------------------
(***************************************************************************)
(* The bindings to the system, of which the initial state chooses one: the *)
(* descriptors of sockets, files and directories, options of sockets,      *)
(* addresses, names and permissions, paths, patterns, children, exec(),    *)
(* limits, the objects of libtls, signals in ANSI C, and the system log.   *)
(* They have nothing in common.                                            *)
(***************************************************************************)
EXTENDS Integers, Sequences, TLC

CONSTANTS
  Nothing, Off,                                      \* Off: see below
  Fd, MaxShared, Sock, Stream, Dir, Entries,         \* see Descriptors
  Integer, LeastBuffer, MostBuffer, MaxAssigned,     \* see SockOptions
  Hosts, Protos, Ports, PathSize, MaxPort, Junk, MaxKnown,  \* see Addresses
  Name, Ino, Modes, MaxLinks,                        \* see Tree
  PathNames,                                         \* see Paths
  Iterator, MaxMatches, MaxList,                     \* see Globs
  Child,                                             \* see Children
  Chunk, MaxEnv,                                     \* see Exec
  Id, Amount, Width, Cpus,                           \* see Limits
  Ctx, Conf, Ptr, Cptr, TlsCalls,                    \* see TlsObjects
  MAX_SIG, Unwilling, Func, NoFunc, MaxRaised,       \* see SignalAnsi
  Ident                                              \* see Syslog

VARIABLES
  part,
  open, errno, shared, lost, told, crash, sock, stream, dir, place,
  file, val, wanted,
  known, madeOf, outcome,
  names, inode, meant, umask, before, shown,
  path, whole,
  data, globbed, list, astray,
  life, ends, fate, heard, times, answer,
  pc, given, left, alloc, envc, envm, envtop, over, odd, ret,
  system, ids, limit, online, allowed, request, reply,
  ctx, uservalue, registry, reach, tls, conf, tlsrefs, stray,
  resets, way, noted, handlers, hooked, funcs, running, stage, turn, calling, raised, asked,
  unheard, failed, killed,
  perrors, tag, opts, kept, perror, strings, holds, logged, due

D == INSTANCE Descriptors
U == INSTANCE SockOptions
A == INSTANCE Addresses
T == INSTANCE Tree WITH mask <- umask
P == INSTANCE Paths WITH Names <- PathNames
G == INSTANCE Globs
C == INSTANCE Children WITH news <- ends
E == INSTANCE Exec WITH top <- envtop
L == INSTANCE Limits
O == INSTANCE TlsObjects WITH Calls <- TlsCalls, refs <- tlsrefs
N == INSTANCE SignalAnsi WITH
       Refused <- Unwilling, NoRef <- NoFunc,
       m_signal <- noted, m_handlers <- handlers, hook <- hooked, frames <- running,
       at <- stage, scan <- turn, call <- calling, abandoned <- failed
Y == INSTANCE Syslog

ASSUME Assumptions ==
  /\ D!KernelAssumption /\ D!FilesAssumption /\ U!SockOptionsAssumption /\ A!AddressesAssumption
  /\ T!TreeAssumption /\ P!PathsAssumption /\ G!GlobsAssumption /\ C!ChildrenAssumption /\ E!ExecAssumption /\ L!LimitsAssumption
  /\ O!TlsObjectsAssumption /\ N!SignalAnsiAssumption

fdVars   == <<open, errno, shared, lost, told, crash, sock, stream, dir, place>>
soptVars == <<file, val, wanted>>
addrVars == <<known, madeOf, outcome>>
treeVars == <<names, inode, meant, umask, before, shown>>
pathVars == <<path, whole>>
globVars == <<data, globbed, list, astray>>
procVars == <<life, ends, fate, heard, times, answer>>
execVars == <<pc, given, left, alloc, envc, envm, envtop, over, odd, ret>>
limVars  == <<system, ids, limit, online, allowed, request, reply>>
tlsVars  == <<ctx, uservalue, registry, reach, tls, conf, tlsrefs, stray>>
ansiVars == <<resets, way, noted, handlers, hooked, funcs, running, stage, turn, calling, raised, asked,
              unheard, failed, killed>>
slogVars == <<perrors, tag, opts, kept, perror, strings, holds, logged, due>>
allVars  == <<part, fdVars, soptVars, addrVars, treeVars, pathVars, globVars, procVars, execVars, limVars,
              tlsVars, ansiVars, slogVars>>
-----------------------------------------------------------------------------
\* The variables of a part that is not chosen have no values.
NoFd   == /\ open = Off /\ errno = Off /\ shared = Off /\ lost = Off /\ told = Off /\ crash = Off
          /\ sock = Off /\ stream = Off /\ dir = Off /\ place = Off
NoSopt == file = Off /\ val = Off /\ wanted = Off
NoAddr == known = Off /\ madeOf = Off /\ outcome = Off
NoTree == names = Off /\ inode = Off /\ meant = Off /\ umask = Off /\ before = Off /\ shown = Off
NoPath == path = Off /\ whole = Off
NoGlob == data = Off /\ globbed = Off /\ list = Off /\ astray = Off
NoProc == life = Off /\ ends = Off /\ fate = Off /\ heard = Off /\ times = Off /\ answer = Off
NoExec == /\ pc = Off /\ given = Off /\ left = Off /\ alloc = Off /\ envc = Off /\ envm = Off
          /\ envtop = Off /\ over = Off /\ odd = Off /\ ret = Off
NoLim  == /\ system = Off /\ ids = Off /\ limit = Off /\ online = Off /\ allowed = Off /\ request = Off
          /\ reply = Off
NoTls  == /\ ctx = Off /\ uservalue = Off /\ registry = Off /\ reach = Off /\ tls = Off /\ conf = Off
          /\ tlsrefs = Off /\ stray = Off
NoAnsi == /\ resets = Off /\ way = Off /\ noted = Off /\ handlers = Off /\ hooked = Off /\ funcs = Off
          /\ running = Off /\ stage = Off /\ turn = Off /\ calling = Off /\ raised = Off /\ asked = Off
          /\ unheard = Off /\ failed = Off /\ killed = Off
NoSlog == /\ perrors = Off /\ tag = Off /\ opts = Off /\ kept = Off /\ perror = Off /\ strings = Off
          /\ holds = Off /\ logged = Off /\ due = Off

Parts == {"fd", "sopt", "addr", "tree", "path", "glob", "proc", "exec", "lim", "tls", "ansi", "slog"}

AllInit == /\ part \in Parts
           /\ IF part = "fd"   THEN D!Init ELSE NoFd
           /\ IF part = "sopt" THEN U!Init ELSE NoSopt
           /\ IF part = "addr" THEN A!Init ELSE NoAddr
           /\ IF part = "tree" THEN T!Init ELSE NoTree
           /\ IF part = "path" THEN P!Init ELSE NoPath
           /\ IF part = "glob" THEN G!Init ELSE NoGlob
           /\ IF part = "proc" THEN C!Init ELSE NoProc
           /\ IF part = "exec" THEN E!Init ELSE NoExec
           /\ IF part = "lim"  THEN L!Init ELSE NoLim
           /\ IF part = "tls"  THEN O!Init ELSE NoTls
           /\ IF part = "ansi" THEN N!Init ELSE NoAnsi
           /\ IF part = "slog" THEN Y!Init ELSE NoSlog

\* A step is one of the part that is chosen; everything else stays as it is.
AllNext == /\ IF part = "fd"   THEN D!Next ELSE UNCHANGED fdVars
           /\ IF part = "sopt" THEN U!Next ELSE UNCHANGED soptVars
           /\ IF part = "addr" THEN A!Next ELSE UNCHANGED addrVars
           /\ IF part = "tree" THEN T!Next ELSE UNCHANGED treeVars
           /\ IF part = "path" THEN P!Next ELSE UNCHANGED pathVars
           /\ IF part = "glob" THEN G!Next ELSE UNCHANGED globVars
           /\ IF part = "proc" THEN C!Next ELSE UNCHANGED procVars
           /\ IF part = "exec" THEN E!Next ELSE UNCHANGED execVars
           /\ IF part = "lim"  THEN L!Next ELSE UNCHANGED limVars
           /\ IF part = "tls"  THEN O!Next ELSE UNCHANGED tlsVars
           /\ IF part = "ansi" THEN N!Next ELSE UNCHANGED ansiVars
           /\ IF part = "slog" THEN Y!Next ELSE UNCHANGED slogVars
           /\ UNCHANGED part

AllSpec == AllInit /\ [][AllNext]_allVars
-----------------------------------------------------------------------------
\* See the modules for what these say; of a part that is not chosen there is
\* nothing to say.  The types, and that envp is large enough.
TypesOK == /\ part = "fd"   => D!TypeOK
           /\ part = "sopt" => U!TypeOK
           /\ part = "addr" => A!TypeOK
           /\ part = "tree" => T!TypeOK
           /\ part = "path" => P!TypeOK
           /\ part = "glob" => G!TypeOK
           /\ part = "proc" => C!TypeOK
           /\ part = "exec" => E!TypeOK /\ E!EnvpFits
           /\ part = "lim"  => L!TypeOK
           /\ part = "tls"  => O!TypeOK
           /\ part = "ansi" => N!TypeOK
           /\ part = "slog" => Y!TypeOK

\* A descriptor has one object that closes it, a connection of libtls its own
\* functions, whatever had its address before, and the system log its name.
OneOwner == /\ part = "fd"   => D!OneOwner
            /\ part = "tls"  => O!RightCallback
            /\ part = "slog" => Y!TagAlive

\* What was taken from the system is given back by some object: descriptors, the
\* names of a pattern, what exec() allocates, contexts and configurations, and
\* references to handlers of signals.
NoLeak == /\ part = "fd"   => D!NoLeak
          /\ part = "glob" => G!NamesFreed
          /\ part = "exec" => E!ExecClean
          /\ part = "tls"  => O!Owned
          /\ part = "ansi" => N!FuncsOwned

\* The program hears what happened: of calls on descriptors, of the end of its
\* children, of signals, and of the user, the limits and the processors it asked
\* for.
TrueAnswer == /\ part = "fd"   => D!TrueAnswer
              /\ part = "proc" => C!EndTold
              /\ part = "lim"  => L!Granted
              /\ part = "ansi" => N!NotForgotten /\ N!NotInvented /\ N!StaysCaught

\* What is written, set or taken apart reads back as it was.
ReadsBack == /\ part = "sopt" => U!OptionsReadBack
             /\ part = "addr" => A!Ordered /\ A!MadeAsAsked
             /\ part = "tree" => T!ModesAsMeant /\ T!LinksShown
             /\ part = "path" => P!PartsJoin
             /\ part = "slog" => Y!AsOpened
-----------------------------------------------------------------------------
(* The small bindings that TLC takes.                                       *)

Strings(set, lengths) == UNION {[1 .. n -> set] : n \in lengths}

\* Two descriptors are enough for a pair, or for one that is in the way; the dots
\* come behind a name.
SmallEntries == <<"name", "dots">>

\* Paths of the full length, with a common beginning and empty; a port beyond
\* the last; memory behind a path that is clear and that is not.
Host(reads, bytes) == [reads |-> reads, bytes |-> bytes]
SmallHosts == {Host("ip", <<1, 2, 3, 4>>), Host("ip", <<1, 2, 3, 5>>), Host("ip6", [k \in 1 .. 16 |-> k])}
                \cup {Host("path", text) : text \in {<< >>, <<7>>, <<7, 8>>, <<7, 8, 9>>}}
SmallJunk == {<<0, 0, 0>>, <<5, 5, 5>>}

SmallModes == {{4, 5}, {1, 2, 3, 4, 8, 12}, {4, 7, 10}}

SmallPaths == Strings({"/", ".", "%", "2"}, 0 .. 4)

\* Objects of one kind are interchangeable.
Symmetry == Permutations(Sock) \cup Permutations(Stream)
=============================================================================
