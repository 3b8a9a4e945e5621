------------------------------- MODULE Kqueue -------------------------------
(***************************************************************************)
(* The kqueue implementation of src/pollset.c.  A file has two filters in  *)
(* the kernel, one for reading and one for writing, which are added and    *)
(* deleted together and enabled as wanted; either may be reported by       *)
(* itself.  kevent() applies its two changes in order and stops at the     *)
(* first that fails.                                                       *)
(***************************************************************************)
EXTENDS Integers, Sequences, FiniteSets, Functions

CONSTANTS Fd, Obj, NoObj, NoFd, Wants, Readiness,
          OmitObj, InsertTwice, InsertInEvents,
          NoWrite,  \* descriptors the kernel does not watch for writing
          NULL      \* no array

VARIABLES filters,    \* the filters in the kernel: <<descriptor, event>>
          enabled,    \* those that are enabled
          uservalue,  \* descriptor to object
          idx,        \* set->idx
          list,       \* set->list: the entries kevent() filled
          max,        \* set->max: their number, -1 after an error
          count,      \* set->count: the next one to hand out
          ready, phase, ret

setVars == <<filters, enabled, uservalue, idx>>
iterVars == <<list, max, count>>
vars == <<setVars, iterVars, ready, phase, ret>>

Filter == Fd \X {"r", "w"}
Wanted(f) == {e \in {"r", "w"} : <<f, e>> \in enabled}
Present(f) == f \in DOMAIN uservalue

\* The events of the list that are still to be handed out.
Rest == IF list = NULL THEN {} ELSE {list[k] : k \in count + 1 .. max}

Registered == [f \in DOMAIN uservalue |-> [want |-> Wanted(f), obj |-> uservalue[f]]]

P == INSTANCE Pollset WITH reg <- Registered, found <- Rest, StrayFinds <- FALSE

KqueueAssumption == /\ P!PollsetAssumption
                    /\ NoWrite \subseteq Fd
                    /\ NULL \notin Seq([fd : Fd, got : SUBSET {"r", "w", "hup"}])

TypeOK == /\ filters \subseteq Filter
          /\ enabled \subseteq filters
          /\ DOMAIN uservalue \subseteq Fd
          /\ \A f \in DOMAIN uservalue : uservalue[f] \in Obj \cup {P!Number(4)}
          /\ idx \in Nat
          /\ \/ list = NULL
             \/ list \in Seq([fd : Fd, got : SUBSET {"r", "w", "hup"}])
          /\ max \in Nat \cup {-1}
          /\ count \in Nat
          /\ ready \in [Fd -> SUBSET {"r", "w", "hup"}]
          /\ phase \in {"idle", "events"}

Init == /\ filters = {}
        /\ enabled = {}
        /\ uservalue = << >>
        /\ idx = 0
        /\ list = NULL
        /\ max = 0
        /\ count = 0
        /\ ready = P!Unread
        /\ phase = "idle"
        /\ ret = P!Answer("new", NoFd, "ok")
-----------------------------------------------------------------------------
\* As Change, without EV_DISABLE for a filter that is not wanted.
ChangeOn(f, w, done) ==
  /\ filters' = filters \cup ({f} \X done)
  /\ enabled' = enabled \cup ({f} \X (w \cap done))

\* EV_ADD of the filters of `done', each enabled if it is wanted.
Change(f, w, done) ==
  /\ filters' = filters \cup ({f} \X done)
  /\ enabled' = (enabled \ ({f} \X done)) \cup ({f} \X (w \cap done))

\* The changes the kernel may have made when it refuses the next one.
Before(f) == IF f \in NoWrite THEN {{}, {"r"}} ELSE {{}}

Refused(call, f, w) ==
  /\ ret' = P!Answer(call, f, "error")
  /\ \E done \in Before(f) : Change(f, w, done)
  /\ UNCHANGED <<uservalue, idx, iterVars, ready, phase>>

\* The object by default is the number 4.
Stored(o) == IF o = NoObj THEN P!Number(4) ELSE o

Insert(f, w, o) ==
  /\ P!MayInsert(f, Present(f))
  /\ \/ /\ f \notin NoWrite
        /\ Change(f, w, {"r", "w"})
        /\ uservalue' = P!Put(uservalue, f, Stored(o))
        /\ idx' = idx + 1
        /\ ret' = P!Done("insert", f, w, o)
        /\ UNCHANGED <<iterVars, ready, phase>>
     \/ Refused("insert", f, w)

Update(f, w) ==
  /\ P!MayUpdate(f, Present(f))
  /\ \/ /\ Change(f, w, {"r", "w"})
        /\ ret' = P!Done("update", f, w, NoObj)
        /\ UNCHANGED <<uservalue, idx, iterVars, ready, phase>>
     \/ Refused("update", f, w)

Remove(f) ==
  /\ P!MayRemove(f, Present(f))
  /\ {f} \X {"r", "w"} \subseteq filters
  /\ filters' = filters \ ({f} \X {"r", "w"})
  /\ enabled' = enabled \cap filters'
  /\ uservalue' = Restrict(uservalue, DOMAIN uservalue \ {f})
  /\ idx' = idx - 1
  /\ ret' = P!Answer("remove", f, "ok")
  /\ UNCHANGED <<iterVars, ready, phase>>
-----------------------------------------------------------------------------
WaitEmpty(call) ==
  /\ idx = 0
  /\ max' = 0
  /\ ret' = P!Answer(call, NoFd, "timeout")
  /\ phase' = "events"
  /\ ready' = P!Unread
  /\ UNCHANGED list

\* One event for each enabled filter that is ready; EV_EOF comes with either.
EventsOf(state) ==
  {P!EventOf(x[1], {x[2]} \cup (state[x[1]] \cap {"hup"})) :
     x \in {y \in enabled : y[2] \in state[y[1]]}}

\* The array has room for one event for each file: some may have to wait.
Fill(S) == LET room == IF Cardinality(S) < idx THEN Cardinality(S) ELSE idx
           IN Injection(1 .. room, S)

WaitFinds(call) ==
  /\ idx > 0
  /\ \E state \in [{x[1] : x \in filters} -> Readiness] :
        /\ ready' = P!Seen(state)
        /\ list' \in Fill(EventsOf(state))
        /\ call = "block" => EventsOf(state) # {}
  /\ max' = Len(list')
  /\ ret' = P!Answer(call, NoFd, IF max' = 0 THEN "timeout" ELSE "ok")
  /\ phase' = "events"

\* calloc() or kevent() fails.
WaitFails(call) ==
  /\ idx > 0
  /\ max' = -1
  /\ list' = NULL
  /\ ret' = P!Answer(call, NoFd, "error")
  /\ phase' = "idle"
  /\ ready' = P!Unread

Wait(call) == /\ WaitEmpty(call) \/ WaitFinds(call) \/ WaitFails(call)
              /\ count' = 0
              /\ UNCHANGED setVars

Take == /\ phase = "events"
        /\ count < max
        /\ LET e == list[count + 1]
               o == IF e.fd \in DOMAIN uservalue THEN uservalue[e.fd] ELSE NoObj
           IN ret' = P!HandOut(e.fd, o, e.got)
        /\ count' = count + 1
        /\ UNCHANGED <<setVars, list, max, ready, phase>>

End == /\ phase = "events"
       /\ count >= max
       /\ list' = NULL
       /\ ret' = P!Answer("next", NoFd, "end")
       /\ phase' = "idle"
       /\ ready' = P!Unread
       /\ UNCHANGED <<setVars, max, count>>

Next == \/ \E f \in Fd, w \in Wants, o \in P!Given : Insert(f, w, o)
        \/ \E f \in Fd, w \in Wants : Update(f, w)
        \/ \E f \in Fd : Remove(f)
        \/ \E call \in {"wait", "block"} : Wait(call)
        \/ Take \/ End

Spec == Init /\ [][Next]_vars
-----------------------------------------------------------------------------
\* Both filters of a file with an object, and of no other, are in the kernel,
\* and #set is the number of files.
Agree == /\ filters = (DOMAIN uservalue) \X {"r", "w"}
         /\ idx = Cardinality(DOMAIN uservalue)

\* The implementation does what the comment promises, for files that the
\* kernel watches for reading and for writing.
ImplementsPollset == P!Spec
=============================================================================
