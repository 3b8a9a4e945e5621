----------------------------- MODULE Descriptors ----------------------------
(***************************************************************************)
(* Sockets and files of one process, which share its descriptors.  The     *)
(* calls whose names begin with _, socketfile() and redirect() move numbers *)
(* from one kind of object to the other.                                   *)
(***************************************************************************)
EXTENDS Sockets, Files

Object == ({"socket"} \X Sock) \cup ({"stream"} \X Stream) \cup ({"directory"} \X Dir)

\* The descriptor of each object.
held == [o \in Object |-> [socket |-> sock, stream |-> stream, directory |-> dir][o[1]][o[2]]]

Holders(n) == {o \in Object : held[o] = n}

\* The numbers the program can know: of an object, or that it was told once.
Known == {n \in Fd : Holders(n) # {}}

\* socketfile(fp) and _fromfd(fh): the file, or whoever had the number, has it
\* still.
SocketFile(s) == /\ \E n \in Known : AdoptSock(s, n)
                 /\ UNCHANGED filesVars

IoFromFd(f) == /\ \E n \in Known : AdoptStream(f, n)
               /\ UNCHANGED sock

\* fsys._close(fh): errno is not reset, but the answer does not come from it.
RawClose == \E n \in Known :
  /\ open' = open \ {n}
  /\ errno' = IF n \in open THEN errno ELSE EFAIL
  /\ Tell("_close", n \in open, n \in open, errno')
  /\ Share(n)
  /\ UNCHANGED <<sock, filesVars, lost, crash>>

\* redirect(from, to): dup2() closes what `to' was and keeps its number.
Redirect == \E from, to \in Known :
  /\ \/ /\ from \in open
        /\ open' = open \cup {to}
        /\ errno' = 0
     \/ errno' = EFAIL /\ UNCHANGED open
  /\ Tell("any", errno' = 0, errno' = 0, errno')
  /\ UNCHANGED <<sock, filesVars, shared, lost, crash>>

\* A number is shared as long as anybody has it.
Settle(n) == n \in shared /\ Holders(n) = {}

Init == KernelInit /\ SockInit /\ FilesInit

Step == \/ SockNext /\ UNCHANGED filesVars
        \/ FilesNext /\ UNCHANGED sock
        \/ \E s \in Sock : SocketFile(s)
        \/ \E f \in Stream : IoFromFd(f)
        \/ RawClose \/ Redirect

Forget == /\ shared' = {n \in shared : ~ Settle(n)}
          /\ UNCHANGED <<open, errno, lost, told, crash, sock, filesVars>>

Next == /\ ~ crash
        /\ IF \E n \in shared : Settle(n) THEN Forget ELSE Step

vars == <<kernelVars, sock, filesVars>>

Spec == Init /\ [][Next]_vars
-----------------------------------------------------------------------------
TypeOK == KernelTypeOK /\ SockTypeOK /\ FilesTypeOK

\* Whatever fails in between, a descriptor has one object that will close it,
\* and that object has it open: nobody closes the descriptor of another.  The
\* exception are the numbers that went through the calls that share them.
OneOwner == \A n \in Fd \ shared : /\ \A o, p \in Holders(n) : o = p
                                   /\ Holders(n) # {} => n \in open

\* What the kernel holds for the process some object can give back; only the
\* two _dup() lose what they made.
NoLeak == \A n \in open : Holders(n) # {} \/ n \in lost

\* The false answers are these and no others: io.close() of a file says yes when
\* what was left could not be written (fclose()), fsync() when it did nothing;
\* _lock() says no when it did lock, if errno was set before, and _dup() raises an
\* error when it has a new descriptor; _close() succeeds with an errno.  All other
\* calls say what they did.  A directory that is closed by next() has given all
\* its names.
TrueAnswer ==
  /\ told.okay /\ ~ told.did => told.call \in {"fclose", "fsync"}
  /\ told.did /\ ~ told.okay => told.call \in {"_lock", "dup"}
  /\ told.okay /\ told.err # 0 => told.call = "_close"
  /\ \A d \in Dir : dir[d] = Closed => place[d] = Len(Entries)
=============================================================================
