------------------------------- MODULE Select -------------------------------
(***************************************************************************)
(* The select implementation of src/pollset.c.  A file is in the set when  *)
(* it is in one of the descriptor sets; select() gets copies of these and  *)
(* leaves in the copies the files that are ready.  The iterator goes       *)
(* through the descriptors in order up to the largest ever inserted.       *)
(***************************************************************************)
EXTENDS Naturals, FiniteSets, Functions

CONSTANTS Fd, Obj, NoObj, NoFd, Wants, Readiness,
          OmitObj, InsertTwice, InsertInEvents,
          SetSize   \* FD_SETSIZE

VARIABLES interest,   \* read, write: what each descriptor is in
          selected,   \* sread, swrite: the copies select() leaves behind
          max,        \* set->max, the largest descriptor inserted
          count,      \* set->count, the descriptor the iterator is at
          idx,        \* set->idx
          uservalue,  \* descriptor to object
          ready, phase, ret

setVars == <<interest, max, idx, uservalue>>
vars == <<setVars, selected, count, ready, phase, ret>>

ObjOf(f) == IF f \in DOMAIN uservalue THEN uservalue[f] ELSE NoObj

Registered == [f \in {g \in Fd : interest[g] # {}} |->
                 [want |-> interest[f], obj |-> ObjOf(f)]]

\* The events that are still to be handed out.
Rest == IF phase = "idle" THEN {}
        ELSE {[fd |-> f, got |-> selected[f]] :
                f \in {g \in Fd : g >= count /\ selected[g] # {}}}

P == INSTANCE Pollset WITH reg <- Registered, found <- Rest, StrayFinds <- FALSE

\* insert() lets descriptor FD_SETSIZE pass, which no set has room for: what
\* it does then is undefined, and left out.
SelectAssumption == /\ P!PollsetAssumption
                    /\ SetSize \in Nat
                    /\ Fd \subseteq Nat \ {SetSize}

TypeOK == /\ interest \in [Fd -> SUBSET {"r", "w"}]
          /\ selected \in [Fd -> SUBSET {"r", "w"}]
          /\ max \in Fd \cup {0}
          /\ count \in 0 .. max + 1
          /\ idx \in Nat
          /\ DOMAIN uservalue \subseteq Fd
          /\ \A f \in DOMAIN uservalue : uservalue[f] \in Obj \cup {P!Number(f)}
          /\ ready \in [Fd -> SUBSET {"r", "w", "hup"}]
          /\ phase \in {"idle", "events"}

Init == /\ interest = [f \in Fd |-> {}]
        /\ selected = [f \in Fd |-> {}]
        /\ max = 0
        /\ count = 0
        /\ idx = 0
        /\ uservalue = << >>
        /\ ready = P!Unread
        /\ phase = "idle"
        /\ ret = P!Answer("new", NoFd, "ok")
-----------------------------------------------------------------------------
Present(f) == interest[f] # {}

\* insert() does not look whether the file is there already.
Insert(f, w, o) ==
  /\ P!MayInsert(f, Present(f))
  /\ IF f > SetSize
     THEN ret' = P!Answer("insert", f, "error") /\ UNCHANGED setVars
     ELSE /\ max' = IF f > max THEN f ELSE max
          /\ interest' = [interest EXCEPT ![f] = @ \cup w]
          /\ uservalue' = P!Put(uservalue, f, IF o = NoObj THEN P!Number(f) ELSE o)
          /\ idx' = idx + 1
          /\ ret' = P!Done("insert", f, w, o)
  /\ UNCHANGED <<selected, count, ready, phase>>

Update(f, w) ==
  /\ P!MayUpdate(f, Present(f))
  /\ interest' = [interest EXCEPT ![f] = w]
  /\ ret' = P!Done("update", f, w, NoObj)
  /\ UNCHANGED <<max, idx, uservalue, selected, count, ready, phase>>

\* A file is known by the events it is wanted for.
Remove(f) ==
  /\ P!MayRemove(f, Present(f))
  /\ interest' = [interest EXCEPT ![f] = {}]
  /\ uservalue' = Restrict(uservalue, DOMAIN uservalue \ {f})
  /\ idx' = idx - 1
  /\ ret' = P!Answer("remove", f, "ok")
  /\ UNCHANGED <<max, selected, count, ready, phase>>
-----------------------------------------------------------------------------
\* Without a timeout select() returns once a file is ready.
WaitFinds(call) ==
  /\ \E state \in [{f \in Fd : Present(f)} -> Readiness] :
        /\ ready' = P!Seen(state)
        /\ selected' = [f \in Fd |-> interest[f] \cap ready'[f]]
  /\ LET none == \A f \in Fd : selected'[f] = {}
     IN /\ call = "block" => ~ none
        /\ ret' = P!Answer(call, NoFd, IF none THEN "timeout" ELSE "ok")
  /\ phase' = "events"

\* select() fails and leaves the copies as they were given to it.
WaitFails(call) ==
  /\ selected' = interest
  /\ ret' = P!Answer(call, NoFd, "error")
  /\ phase' = "idle"
  /\ ready' = P!Unread

Wait(call) == /\ WaitFinds(call) \/ WaitFails(call)
              /\ count' = 0
              /\ UNCHANGED setVars

Hit(f) == f \in count .. max /\ selected[f] # {}

\* The iterator says of a ready file what it is wanted for.
Take == /\ phase = "events"
        /\ \E f \in Fd :
              /\ Hit(f)
              /\ \A g \in Fd : g < f => ~ Hit(g)
              /\ ret' = P!HandOut(f, ObjOf(f), interest[f])
              /\ count' = f + 1
        /\ UNCHANGED <<setVars, selected, ready, phase>>

End == /\ phase = "events"
       /\ \A f \in Fd : ~ Hit(f)
       /\ count' = max + 1
       /\ ret' = P!Answer("next", NoFd, "end")
       /\ phase' = "idle"
       /\ ready' = P!Unread
       /\ UNCHANGED <<setVars, selected>>

Next == \/ \E f \in Fd, w \in Wants, o \in P!Given : Insert(f, w, o)
        \/ \E f \in Fd, w \in Wants : Update(f, w)
        \/ \E f \in Fd : Remove(f)
        \/ \E call \in {"wait", "block"} : Wait(call)
        \/ Take \/ End

Spec == Init /\ [][Next]_vars
-----------------------------------------------------------------------------
\* The descriptor sets, the objects and #set agree on the files there are, and
\* the iterator's end is not before one of them.
Agree == /\ DOMAIN uservalue = {f \in Fd : Present(f)}
         /\ idx = Cardinality(DOMAIN uservalue)
         /\ \A f \in Fd : Present(f) => f <= max

\* For callers that want one event at a time, as those of lua/nfl.lua do, the
\* implementation does what the comment promises.
ImplementsPollset == P!Spec

\* "r read ready", "w write ready": an event says of a file what it is ready
\* for.
EventIsReady == ret.what = "event" => ret.got \subseteq ready[ret.fd]
=============================================================================
