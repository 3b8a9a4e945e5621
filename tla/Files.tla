-------------------------------- MODULE Files -------------------------------
(***************************************************************************)
(* The files, pipes and directories of src/fsys.c.  A stream is one of     *)
(* Lua's file objects; what io.open() and io.close() do to it is the Lua   *)
(* library's, and external.                                                *)
(***************************************************************************)
EXTENDS Kernel, Sequences

CONSTANTS Stream, Dir,
          Entries    \* what readdir() finds: "dots" or "name"

FilesAssumption == Entries \in Seq({"dots", "name"})

VARIABLES stream,    \* the descriptor of the FILE, Closed after fclose()
          dir,       \* the descriptor of the DIR, Closed when *dir is NULL
          place      \* how far readdir() has got in each

filesVars == <<stream, dir, place>>
dirVars == <<dir, place>>

FilesTypeOK == /\ stream \in [Stream -> Fd \cup {Closed, Absent}]
               /\ dir \in [Dir -> Fd \cup {Closed, Absent}]
               /\ place \in [Dir -> 0 .. Len(Entries)]

FilesInit == /\ stream = [f \in Stream |-> Absent]
             /\ dir = [d \in Dir |-> Absent]
             /\ place = [d \in Dir |-> 0]

-----------------------------------------------------------------------------
(* Streams.                                                                *)

\* io.open(), of the Lua library.
IoOpen(f) ==
  /\ stream[f] = Absent /\ Unused # {}
  /\ open' = open \cup {First}
  /\ stream' = [stream EXCEPT ![f] = First]
  /\ Works
  /\ UNCHANGED <<dirVars, shared, lost, crash>>

\* fsyslib_close() is told by fclose() that the last of the data could not be
\* written, and answers true.  io.close() is the Lua library's.
CloseStream(f) ==
  /\ stream[f] \in Fd
  /\ open' = open \ {stream[f]}
  /\ \E written \in BOOLEAN :
        /\ errno' = IF written THEN errno ELSE EFAIL
        /\ Tell("fclose", written, TRUE, 0)
  /\ stream' = [stream EXCEPT ![f] = Closed]
  /\ UNCHANGED <<dirVars, shared, lost, crash>>

CollectStream(f) ==
  /\ stream[f] # Absent
  /\ open' = IF stream[f] \in Fd THEN open \ {stream[f]} ELSE open
  /\ stream' = [stream EXCEPT ![f] = Absent]
  /\ UNCHANGED <<dirVars, errno, told, shared, lost, crash>>

\* A slip that NoLeak is to catch: when fdopen() fails the descriptors stay.
PipeCutOpen(r, w) ==
  /\ Fails
  /\ stream' = [stream EXCEPT ![r] = Closed, ![w] = Closed]
  /\ Cardinality(Unused) >= 2 /\ open' = open \cup {First, Second}

\* pipe(): the two objects are there, closed, before the descriptors, and get
\* them when both fdopen() have succeeded.
PipeCut(r, w) ==
  /\ Fails
  /\ stream' = [stream EXCEPT ![r] = Closed, ![w] = Closed]
  /\ UNCHANGED open

Pipe(r, w) ==
  /\ r # w /\ stream[r] = Absent /\ stream[w] = Absent
  /\ \/ PipeCut(r, w)
     \/ /\ Cardinality(Unused) >= 2
        /\ open' = open \cup {First, Second}
        /\ stream' = [stream EXCEPT ![r] = First, ![w] = Second]
        /\ Works
  /\ UNCHANGED <<dirVars, shared, lost, crash>>

\* io._fromfd(): the number goes to a FILE, unless fdopen() refuses.
AdoptStream(f, n) ==
  /\ stream[f] = Absent
  /\ \/ /\ n \in open
        /\ stream' = [stream EXCEPT ![f] = n]
        /\ Share(n)
        /\ Works
     \/ Fails /\ UNCHANGED <<stream, shared>>
  /\ UNCHANGED <<open, dirVars, lost, crash>>

\* file:_dup() calls io._fromfd(), which drops all but the first two arguments
\* of the stack and looks for the number in the first: it raises an error.
DupStream(f) ==
  /\ stream[f] \in Fd
  /\ \/ /\ stream[f] \in open /\ Unused # {}
        /\ open' = open \cup {First}
        /\ lost' = lost \cup {First}
        /\ Tell("dup", TRUE, FALSE, EFAIL)
        /\ UNCHANGED errno
     \/ Fails /\ UNCHANGED <<open, lost>>
  /\ UNCHANGED <<filesVars, shared, crash>>

\* _lock(): errno is not reset, so that an error of any call before is told.
Lock(f) == /\ stream[f] \in Fd
           /\ \E did \in BOOLEAN :
                 /\ did => stream[f] \in open
                 /\ errno' = IF did THEN errno ELSE EFAIL
                 /\ Tell("_lock", did, errno' = 0, errno')
           /\ UNCHANGED <<open, filesVars, shared, lost, crash>>

\* fsync() asks whether the file is a terminal, and syncs nothing.
Fsync(f) == /\ stream[f] \in Fd
            /\ \E tty \in BOOLEAN : errno' = IF stream[f] \in open /\ tty THEN 0 ELSE EFAIL
            /\ Tell("fsync", FALSE, errno' = 0, errno')
            /\ UNCHANGED <<open, filesVars, shared, lost, crash>>

\* _tofd(), _dup(), _lock() and pathconf() of a closed file give fileno() a
\* FILE that is gone.
StrayStream(f) == /\ stream[f] = Closed
                  /\ Crash
                  /\ Tell("any", FALSE, FALSE, EFAIL)
                  /\ UNCHANGED <<open, errno, shared, lost, filesVars>>

StreamStep(f) == \/ IoOpen(f) \/ CloseStream(f) \/ CollectStream(f) \/ DupStream(f)
                 \/ Lock(f) \/ Fsync(f) \/ StrayStream(f)
                 \/ \E g \in Stream : Pipe(f, g)
-----------------------------------------------------------------------------
(* Calls that name a file.                                                 *)

\* chmod(), mkfifo(), mkdir(), rmdir(), chdir(), symlink(), link(), utime(),
\* access() and pathconf() answer with errno, which they reset before.
PathCall == Checked /\ UNCHANGED <<open, filesVars, shared, lost, crash>>

\* stat(), lstat(), readlink() and getcwd() look at what the kernel returns, and
\* so does chroot(), which does not look at what chdir() returns.
PathQuery == /\ \/ Fails \/ Works
                \/ errno' = EFAIL /\ Tell("any", TRUE, TRUE, 0)
             /\ UNCHANGED <<open, filesVars, shared, lost, crash>>
-----------------------------------------------------------------------------
(* Directories.                                                            *)

OpenDir(d) ==
  /\ dir[d] = Absent
  /\ \/ /\ Unused # {}
        /\ open' = open \cup {First}
        /\ dir' = [dir EXCEPT ![d] = First]
        /\ place' = [place EXCEPT ![d] = 0]
        /\ Works
     \/ Fails /\ UNCHANGED <<open, dirVars>>
  /\ UNCHANGED <<stream, shared, lost, crash>>

\* dir_meta___gc(), which next() calls too.
CloseDir(d) == /\ open' = open \ {dir[d]}
               /\ dir' = [dir EXCEPT ![d] = Closed]

\* read() goes through all entries and leaves the directory open at the end.
DirRead(d) ==
  /\ dir[d] \in Fd
  /\ place' = [place EXCEPT ![d] = IF @ < Len(Entries) THEN @ + 1 ELSE @]
  /\ Tell("any", place[d] < Len(Entries), place[d] < Len(Entries), 0)
  /\ UNCHANGED <<open, errno, dir, stream, shared, lost, crash>>

NamesAfter(p) == {q \in p + 1 .. Len(Entries) : Entries[q] = "name"}

\* next() passes over the dots and closes the directory at the end.
DirNext(d) ==
  /\ dir[d] \in Fd
  /\ IF NamesAfter(place[d]) # {}
     THEN /\ place' = [place EXCEPT ![d] = Lowest(NamesAfter(@))]
          /\ Tell("any", TRUE, TRUE, 0)
          /\ UNCHANGED <<open, dir>>
     ELSE /\ CloseDir(d)
          /\ place' = [place EXCEPT ![d] = Len(Entries)]
          /\ Tell("any", FALSE, FALSE, 0)
  /\ UNCHANGED <<errno, stream, shared, lost, crash>>

DirRewind(d) == /\ dir[d] \in Fd
                /\ place' = [place EXCEPT ![d] = 0]
                /\ UNCHANGED <<open, errno, told, dir, stream, shared, lost, crash>>

CollectDir(d) == /\ dir[d] # Absent
                 /\ open' = IF dir[d] \in Fd THEN open \ {dir[d]} ELSE open
                 /\ dir' = [dir EXCEPT ![d] = Absent]
                 /\ place' = [place EXCEPT ![d] = 0]
                 /\ UNCHANGED <<errno, told, stream, shared, lost, crash>>

\* Once next() has closed the directory every method but __gc has a NULL.
StrayDir(d) == /\ dir[d] = Closed
               /\ Crash
               /\ Tell("any", FALSE, FALSE, EFAIL)
               /\ UNCHANGED <<open, errno, shared, lost, filesVars>>

DirStep(d) == \/ OpenDir(d) \/ DirRead(d) \/ DirNext(d) \/ DirRewind(d)
              \/ CollectDir(d) \/ StrayDir(d)
FilesNext == \/ \E f \in Stream : StreamStep(f)
             \/ \E d \in Dir : DirStep(d)
             \/ PathCall \/ PathQuery
=============================================================================
