------------------------------- MODULE Epoll --------------------------------
(***************************************************************************)
(* The epoll implementation of src/pollset.c.  The kernel keeps the        *)
(* interest list; the userdata keeps the number of files, the array that   *)
(* epoll_wait() fills and the position of the iterator; the objects are in *)
(* the userdata's uservalue, by descriptor.  Each call of Lua is one step. *)
(***************************************************************************)
EXTENDS Integers, Sequences, FiniteSets, Functions

CONSTANTS Fd, Obj, NoObj, NoFd, Wants, Readiness,
          OmitObj, InsertTwice, InsertInEvents,
          NULL    \* no array

VARIABLES kernel,     \* the interest list: descriptor to wanted events
          uservalue,  \* descriptor to object
          idx,        \* set->idx
          list,       \* set->list: the entries epoll_wait() filled
          max,        \* set->max: their number, -1 after an error
          count,      \* set->count: the next one to hand out
          ready, phase, ret

setVars == <<kernel, uservalue, idx>>
iterVars == <<list, max, count>>
vars == <<setVars, iterVars, ready, phase, ret>>

\* The events of the list that are still to be handed out.
Rest == IF list = NULL THEN {} ELSE {list[k] : k \in count + 1 .. max}

Registered == [f \in DOMAIN kernel |-> [want |-> kernel[f], obj |-> uservalue[f]]]

P == INSTANCE Pollset WITH reg <- Registered, found <- Rest, StrayFinds <- FALSE

EpollAssumption == /\ P!PollsetAssumption
                   /\ NULL \notin Seq([fd : Fd, got : SUBSET {"r", "w", "hup"}])

TypeOK == /\ DOMAIN kernel \subseteq Fd
          /\ \A f \in DOMAIN kernel : kernel[f] \in Wants
          /\ DOMAIN uservalue \subseteq Fd
          /\ \A f \in DOMAIN uservalue : uservalue[f] \in Obj \cup {P!Number(f)}
          /\ idx \in Nat
          /\ \/ list = NULL
             \/ list \in Seq([fd : Fd, got : SUBSET {"r", "w", "hup"}])
          /\ max \in Nat \cup {-1}
          /\ count \in Nat
          /\ ready \in [Fd -> SUBSET {"r", "w", "hup"}]
          /\ phase \in {"idle", "events"}

Init == /\ kernel = << >>
        /\ uservalue = << >>
        /\ idx = 0
        /\ list = NULL
        /\ max = 0
        /\ count = 0
        /\ ready = P!Unread
        /\ phase = "idle"
        /\ ret = P!Answer("new", NoFd, "ok")
-----------------------------------------------------------------------------
Refused(call, f) == /\ ret' = P!Answer(call, f, "error")
                    /\ UNCHANGED <<setVars, iterVars, ready, phase>>

\* The object by default is the number of the descriptor.
Stored(f, o) == IF o = NoObj THEN P!Number(f) ELSE o

\* EPOLL_CTL_ADD takes a file it does not have.
Register(f, w, o) ==
  /\ f \notin DOMAIN kernel
  /\ kernel' = P!Put(kernel, f, w)
  /\ uservalue' = P!Put(uservalue, f, Stored(f, o))
  /\ idx' = idx + 1
  /\ ret' = P!Done("insert", f, w, o)

\* insert(): the kernel may also refuse a file, and does so with one it has.
Insert(f, w, o) ==
  /\ P!MayInsert(f, f \in DOMAIN kernel)
  /\ \/ Register(f, w, o) /\ UNCHANGED <<iterVars, ready, phase>>
     \/ Refused("insert", f)

Update(f, w) ==
  /\ P!MayUpdate(f, f \in DOMAIN kernel)
  /\ \/ /\ kernel' = [kernel EXCEPT ![f] = w]
        /\ ret' = P!Done("update", f, w, NoObj)
        /\ UNCHANGED <<uservalue, idx, iterVars, ready, phase>>
     \/ Refused("update", f)

Remove(f) ==
  /\ P!MayRemove(f, f \in DOMAIN kernel)
  /\ \/ /\ kernel' = Restrict(kernel, DOMAIN kernel \ {f})
        /\ uservalue' = Restrict(uservalue, DOMAIN uservalue \ {f})
        /\ idx' = idx - 1
        /\ ret' = P!Answer("remove", f, "ok")
        /\ UNCHANGED <<iterVars, ready, phase>>
     \/ Refused("remove", f)
-----------------------------------------------------------------------------
\* wait(): the array of the last call is freed, whether it was iterated or not.
WaitEmpty(call) ==
  /\ idx = 0
  /\ max' = 0
  /\ list' = NULL
  /\ ret' = P!Answer(call, NoFd, "timeout")
  /\ phase' = "events"
  /\ ready' = P!Unread

EventsOf(state) ==
  {P!EventOf(f, P!Hits(kernel[f], state[f])) :
     f \in {g \in DOMAIN kernel : P!Hits(kernel[g], state[g]) # {}}}

\* The kernel fills at most idx entries, in an order of its own.
Fill(S) == LET room == IF Cardinality(S) < idx THEN Cardinality(S) ELSE idx
           IN Injection(1 .. room, S)

WaitFinds(call) ==
  /\ idx > 0
  /\ \E state \in [DOMAIN kernel -> Readiness] :
        /\ ready' = P!Seen(state)
        /\ list' \in Fill(EventsOf(state))
        /\ call = "block" => EventsOf(state) # {}
  /\ max' = Len(list')
  /\ ret' = P!Answer(call, NoFd, IF max' = 0 THEN "timeout" ELSE "ok")
  /\ phase' = "events"

NothingNew == UNCHANGED max

NothingFound == max' = -1

\* calloc() or epoll_wait() fails.
WaitFails(call) ==
  /\ idx > 0
  /\ NothingFound
  /\ list' = NULL
  /\ ret' = P!Answer(call, NoFd, "error")
  /\ phase' = "idle"
  /\ ready' = P!Unread

Wait(call) == /\ WaitEmpty(call) \/ WaitFinds(call) \/ WaitFails(call)
              /\ count' = 0
              /\ UNCHANGED setVars

\* The iterator.  The object is looked up when the event is handed out.
Take == /\ phase = "events"
        /\ count < max
        /\ LET e == list[count + 1]
               o == IF e.fd \in DOMAIN uservalue THEN uservalue[e.fd] ELSE NoObj
           IN ret' = P!HandOut(e.fd, o, e.got)
        /\ count' = count + 1
        /\ UNCHANGED <<setVars, list, max, ready, phase>>

End == /\ phase = "events"
       /\ count >= max
       /\ list' = NULL
       /\ ret' = P!Answer("next", NoFd, "end")
       /\ phase' = "idle"
       /\ ready' = P!Unread
       /\ UNCHANGED <<setVars, max, count>>

Next == \/ \E f \in Fd, w \in Wants, o \in P!Given : Insert(f, w, o)
        \/ \E f \in Fd, w \in Wants : Update(f, w)
        \/ \E f \in Fd : Remove(f)
        \/ \E call \in {"wait", "block"} : Wait(call)
        \/ Take \/ End

Spec == Init /\ [][Next]_vars
-----------------------------------------------------------------------------
\* The userdata, its uservalue and the kernel agree on the files there are,
\* after any sequence of calls that succeed or fail: #set is their number,
\* which is also the room epoll_wait() gets for its answer.
Agree == /\ DOMAIN uservalue = DOMAIN kernel
         /\ idx = Cardinality(DOMAIN kernel)

\* The iterator reads entries of an array that is allocated and filled, even
\* if it is called again after its end, or after a wait() that failed.
ListValid == count < max => list # NULL /\ max <= Len(list)

\* The implementation does what the comment promises: each event is of a file
\* that is registered, for what it was wanted for and ready for, and carries
\* the object it was registered with.
ImplementsPollset == P!Spec
=============================================================================
