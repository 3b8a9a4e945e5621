-------------------------------- MODULE Poll --------------------------------
(***************************************************************************)
(* The poll implementation of src/pollset.c.  The files are entries of an  *)
(* array that grows by a chunk at a time; poll() writes its findings into  *)
(* the entries in use and the iterator walks over them.  A removed entry   *)
(* is closed over by memmove(), which leaves a copy of the last one behind *)
(* the end; a new entry gets a descriptor and its wanted events, and keeps *)
(* what the memory held as its findings.                                   *)
(***************************************************************************)
EXTENDS Naturals, Sequences, FiniteSets, Functions

CONSTANTS Fd, Obj, NoObj, NoFd, Wants, Readiness,
          OmitObj, InsertTwice, InsertInEvents,
          Chunk,    \* by how many entries the array grows (10 in the source)
          Rlimit,   \* RLIMIT_NOFILE, the most it may hold
          Junk      \* what the findings of an entry never used may be

VARIABLES set,        \* set->set: the entries allocated, set->max of them
          idx,        \* set->idx: how many are in use
          count,      \* set->count: how many the iterator has passed
          uservalue,  \* descriptor to object
          ready, phase, ret

setVars == <<set, idx, uservalue>>
vars == <<setVars, count, ready, phase, ret>>

Present(f) == \E k \in 1 .. idx : set[k].fd = f
Slot(f) == CHOOSE k \in 1 .. idx :
             set[k].fd = f /\ \A j \in 1 .. k - 1 : set[j].fd # f
ObjOf(f) == IF f \in DOMAIN uservalue THEN uservalue[f] ELSE NoObj

Registered == [f \in {set[k].fd : k \in 1 .. idx} |->
                 [want |-> set[Slot(f)].want, obj |-> ObjOf(f)]]

\* The events that are still to be handed out.
Rest == IF phase = "idle" THEN {}
        ELSE {[fd |-> set[k].fd, got |-> set[k].got] :
                k \in {j \in count + 1 .. idx : set[j].got # {}}}

\* The findings that a new entry keeps are those of an event, when a handler
\* inserted it.
P == INSTANCE Pollset WITH reg <- Registered, found <- Rest, StrayFinds <- TRUE

PollAssumption == /\ P!PollsetAssumption
                  /\ Chunk \in Nat \ {0}
                  /\ Rlimit \in Nat
                  /\ Junk \subseteq SUBSET {"r", "w", "hup"}

TypeOK == /\ set \in Seq([fd : Fd \cup {NoFd}, want : Wants \cup {{}},
                          got : SUBSET {"r", "w", "hup"}])
          /\ Len(set) <= Rlimit
          /\ idx \in 0 .. Len(set)
          /\ count \in 0 .. Len(set)
          /\ DOMAIN uservalue \subseteq Fd
          /\ \A f \in DOMAIN uservalue : uservalue[f] \in Obj \cup {P!Number(f)}
          /\ ready \in [Fd -> SUBSET {"r", "w", "hup"}]
          /\ phase \in {"idle", "events"}

Init == /\ set = << >>
        /\ idx = 0
        /\ count = 0
        /\ uservalue = << >>
        /\ ready = P!Unread
        /\ phase = "idle"
        /\ ret = P!Answer("new", NoFd, "ok")
-----------------------------------------------------------------------------
Refused(call, f) == /\ ret' = P!Answer(call, f, "error")
                    /\ UNCHANGED <<setVars, count, ready, phase>>

Full == idx = Len(set)

AnyLen == Len(set) + Chunk

\* The length to grow to: by one chunk, up to the limit.
NewLen == IF Len(set) + Chunk > Rlimit THEN Rlimit ELSE Len(set) + Chunk

\* The array with room for one more entry; new memory may hold anything.
Grown == IF ~ Full THEN {set}
         ELSE {[k \in 1 .. NewLen |-> IF k <= Len(set) THEN set[k]
                  ELSE [fd |-> NoFd, want |-> {}, got |-> junk]] : junk \in Junk}

\* insert() does not look whether the file is there already.
Insert(f, w, o) ==
  /\ P!MayInsert(f, Present(f))
  /\ \/ /\ Full => Len(set) # Rlimit
        /\ \E new \in Grown :
              set' = [new EXCEPT ![idx + 1].fd = f, ![idx + 1].want = w]
        /\ idx' = idx + 1
        /\ uservalue' = P!Put(uservalue, f, IF o = NoObj THEN P!Number(f) ELSE o)
        /\ ret' = P!Done("insert", f, w, o)
        /\ UNCHANGED <<count, ready, phase>>
     \/ Full /\ Refused("insert", f)

Update(f, w) ==
  /\ P!MayUpdate(f, Present(f))
  /\ set' = [set EXCEPT ![Slot(f)].want = w]
  /\ ret' = P!Done("update", f, w, NoObj)
  /\ UNCHANGED <<idx, uservalue, count, ready, phase>>

MovedShort(i) == [k \in DOMAIN set |-> IF k \in i .. idx - 2 THEN set[k + 1] ELSE set[k]]

\* memmove() of the entries behind i.
Moved(i) == [k \in DOMAIN set |-> IF k \in i .. idx - 1 THEN set[k + 1] ELSE set[k]]

Remove(f) ==
  /\ P!MayRemove(f, Present(f))
  /\ uservalue' = Restrict(uservalue, DOMAIN uservalue \ {f})
  /\ set' = Moved(Slot(f))
  /\ idx' = idx - 1
  /\ ret' = P!Answer("remove", f, "ok")
  /\ UNCHANGED <<count, ready, phase>>
-----------------------------------------------------------------------------
\* poll() writes the findings of all entries in use, empty ones included.
Polled(state) ==
  [k \in DOMAIN set |->
     IF k > idx THEN set[k]
     ELSE [set[k] EXCEPT !.got = P!Hits(set[k].want, state[set[k].fd])]]

\* Without a timeout poll() returns once a file is ready.
WaitFinds(call) ==
  /\ \E state \in [{set[k].fd : k \in 1 .. idx} -> Readiness] :
        /\ ready' = P!Seen(state)
        /\ set' = Polled(state)
  /\ LET none == \A k \in 1 .. idx : set'[k].got = {}
     IN /\ call = "block" => ~ none
        /\ ret' = P!Answer(call, NoFd, IF none THEN "timeout" ELSE "ok")
  /\ phase' = "events"

\* poll() fails and leaves the findings of the last call in the entries.
WaitFails(call) ==
  /\ ret' = P!Answer(call, NoFd, "error")
  /\ phase' = "idle"
  /\ ready' = P!Unread
  /\ UNCHANGED set

Wait(call) == /\ WaitFinds(call) \/ WaitFails(call)
              /\ count' = 0
              /\ UNCHANGED <<idx, uservalue>>

Hit(k) == k \in count + 1 .. idx /\ set[k].got # {}

\* The iterator goes on to the next entry with findings.
Take == /\ phase = "events"
        /\ \E k \in 1 .. idx :
              /\ Hit(k)
              /\ \A j \in 1 .. k - 1 : ~ Hit(j)
              /\ ret' = P!HandOut(set[k].fd, ObjOf(set[k].fd), set[k].got)
              /\ count' = k
        /\ UNCHANGED <<setVars, ready, phase>>

End == /\ phase = "events"
       /\ \A k \in 1 .. idx : ~ Hit(k)
       /\ count' = idx
       /\ ret' = P!Answer("next", NoFd, "end")
       /\ phase' = "idle"
       /\ ready' = P!Unread
       /\ UNCHANGED setVars

Next == \/ \E f \in Fd, w \in Wants, o \in P!Given : Insert(f, w, o)
        \/ \E f \in Fd, w \in Wants : Update(f, w)
        \/ \E f \in Fd : Remove(f)
        \/ \E call \in {"wait", "block"} : Wait(call)
        \/ Take \/ End

Spec == Init /\ [][Next]_vars
-----------------------------------------------------------------------------
\* The entries in use are of distinct files, and exactly these have an object:
\* each turn of remove()'s memmove() keeps the rest of the array together.
Agree == /\ \A j, k \in 1 .. idx : set[j].fd = set[k].fd => j = k
         /\ DOMAIN uservalue = {set[k].fd : k \in 1 .. idx}

\* The implementation does what the comment promises, but for one event of a file
\* that a handler inserts, which may be for anything.
ImplementsPollset == P!Spec
=============================================================================
