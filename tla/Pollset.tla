------------------------------ MODULE Pollset -------------------------------
(***************************************************************************)
(* What src/pollset.c promises to its callers in the comment before its    *)
(* implementations: a set of registered files, each with the events it is  *)
(* wanted for and an object; wait() finds the files that are ready, and an *)
(* iterator hands out the events found, one table per turn.                *)
(*                                                                         *)
(* Epoll, Poll, Select and Kqueue implement it.  The calls are made in the *)
(* order in which lua/nfl.lua makes them: files leave the set between two  *)
(* iterations, while handlers, called by the iteration, may insert a new   *)
(* file or update their own.                                               *)
(***************************************************************************)
EXTENDS Naturals, FiniteSets, Functions

CONSTANTS Fd,             \* file descriptors
          Obj,            \* what a caller registers with a file
          NoObj,          \* nil
          NoFd,           \* no descriptor
          Wants,          \* the sets of events callers ask for
          Readiness,      \* what files are ever ready for, "hup" for hung up
          OmitObj,        \* whether a caller may leave out the object
          InsertTwice,    \* whether a file may be inserted a second time
          InsertInEvents, \* whether a handler may insert a file
          StrayFinds      \* whether a file that a handler inserts may be reported
                          \* once for what no wait() found

\* The implementations assume this of their constants.
PollsetAssumption ==
  /\ IsFiniteSet(Fd)
  /\ NoObj \notin Obj
  /\ NoFd \notin Fd
  /\ Wants \subseteq (SUBSET {"r", "w"}) \ {{}}
  /\ Readiness \subseteq SUBSET {"r", "w", "hup"}
  /\ {OmitObj, InsertTwice, InsertInEvents} \subseteq BOOLEAN

VARIABLES reg,    \* the registered files: what they are wanted for, their objects
          ready,  \* what wait() saw the files ready for, while its events are iterated
          found,  \* the events wait() found that are not handed out yet
          phase,  \* "events" from a wait() until its iteration ends
          ret     \* the last call, with what it asked for, and the answer

vars == <<reg, ready, found, phase, ret>>

Unread == [f \in Fd |-> {}]

\* What wait() saw of the files it looked at.
Seen(state) == [f \in Fd |-> IF f \in DOMAIN state THEN state[f] ELSE {}]

\* A table with a new entry for f, or another.
Put(table, f, x) == [g \in DOMAIN table \cup {f} |-> IF g = f THEN x ELSE table[g]]

Given == IF OmitObj THEN Obj \cup {NoObj} ELSE Obj
File(f) == <<"file", f>>
Number(n) == <<"number", n>>
Value == Obj \cup {NoObj} \cup {File(f) : f \in Fd}

EventOf(f, got) == [fd |-> f, got |-> got]
Answer(call, f, what) == [call |-> call, fd |-> f, what |-> what, obj |-> NoObj, got |-> {}]
Done(call, f, w, o) == [Answer(call, f, "ok") EXCEPT !.got = w, !.obj = o]
HandOut(f, o, got) == [call |-> "next", fd |-> f, what |-> "event", obj |-> o, got |-> got]

MayInsert(f, present) == /\ ~ present \/ InsertTwice
                         /\ phase = "idle" \/ (InsertInEvents /\ ret.fd # NoFd)
MayUpdate(f, present) == present /\ (phase = "idle" \/ ret.fd = f)
MayRemove(f, present) == present /\ phase = "idle"

\* What is to be reported of a file: POLLHUP comes unasked.
Hits(want, state) == state \cap (want \cup {"hup"})

Init == /\ reg = << >>
        /\ ready = Unread
        /\ found = {}
        /\ phase = "idle"
        /\ ret = Answer("new", NoFd, "ok")

Refuse(call, f) == /\ ret' = Answer(call, f, "error")
                   /\ UNCHANGED <<reg, ready, found, phase>>

Insert(f, w, o) ==
  /\ MayInsert(f, f \in DOMAIN reg)
  /\ f \notin DOMAIN reg
  /\ reg' = Put(reg, f, [want |-> w, obj |-> IF o = NoObj THEN File(f) ELSE o])
  /\ ret' = Done("insert", f, w, o)
  /\ \/ UNCHANGED found
     \/ /\ StrayFinds /\ phase = "events"
        /\ \E got \in (SUBSET {"r", "w", "hup"}) \ {{}} : found' = found \cup {EventOf(f, got)}
  /\ UNCHANGED <<ready, phase>>

Update(f, w) ==
  /\ MayUpdate(f, f \in DOMAIN reg)
  /\ reg' = [reg EXCEPT ![f].want = w]
  /\ ret' = Done("update", f, w, NoObj)
  /\ UNCHANGED <<ready, found, phase>>

Remove(f) ==
  /\ MayRemove(f, f \in DOMAIN reg)
  /\ reg' = Restrict(reg, DOMAIN reg \ {f})
  /\ ret' = Answer("remove", f, "ok")
  /\ UNCHANGED <<ready, found, phase>>

\* wait() finds events of registered files only, each for something the file is
\* ready for and wanted for, and it finds some if there are any.  Without a
\* timeout (call = "block") it returns empty-handed from an empty set only.
Wait(call) ==
  /\ \A e \in found' : /\ e.fd \in DOMAIN reg
                       /\ e.got # {}
                       /\ e.got \subseteq Hits(reg[e.fd].want, ready'[e.fd])
  /\ found' = {} => /\ \A f \in DOMAIN reg : Hits(reg[f].want, ready'[f]) = {}
                    /\ call = "block" => reg = << >>
  /\ ret' = Answer(call, NoFd, IF found' = {} THEN "timeout" ELSE "ok")
  /\ phase' = "events"
  /\ UNCHANGED reg

WaitFails(call) == /\ ret' = Answer(call, NoFd, "error")
                   /\ found' = {}
                   /\ phase' = "idle"
                   /\ ready' = Unread
                   /\ UNCHANGED reg

\* One turn of `for event in set:events()', and its end.
Take == /\ phase = "events"
        /\ \E e \in found : /\ ret' = HandOut(e.fd, reg[e.fd].obj, e.got)
                            /\ found' = found \ {e}
        /\ UNCHANGED <<reg, ready, phase>>

End == /\ phase = "events"
       /\ found = {}
       /\ ret' = Answer("next", NoFd, "end")
       /\ phase' = "idle"
       /\ ready' = Unread
       /\ UNCHANGED <<reg, found>>

Next == \/ \E f \in Fd, w \in Wants, o \in Given : Insert(f, w, o)
        \/ \E f \in Fd, w \in Wants : Update(f, w)
        \/ \E f \in Fd : Remove(f)
        \/ \E f \in Fd, call \in {"insert", "update", "remove"} : Refuse(call, f)
        \/ \E call \in {"wait", "block"} : Wait(call) \/ WaitFails(call)
        \/ Take \/ End

Spec == Init /\ [][Next]_vars
=============================================================================
