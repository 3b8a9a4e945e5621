------------------------------ MODULE TimerBag ------------------------------
(***************************************************************************)
(* What the TimeOut queue of lua/nfl.lua promises to the event loop: a     *)
(* collection of timers from which a timer only ever leaves when no other  *)
(* timer is due before it, and only when it is due or was cancelled.       *)
(* How the entries are arranged so that the earliest is found at once is   *)
(* left to TimeoutQueue, which is shown to implement this module; the      *)
(* event loop (Nfl) is written on top of this one.                         *)
(***************************************************************************)
EXTENDS Naturals

CONSTANTS Co,        \* the coroutines
          Info,      \* identities of the queue's entries (one Lua table each)
          Garbage,   \* content of an entry that is in no queue
          Delays,    \* the delays a caller asks for; zero means "cancel"
          MaxClock   \* bound: no timer is armed for a later time

VARIABLES clock,     \* the monotonic clock
          pending,   \* the entries in the queue
          info       \* the content of each entry

bagVars == <<clock, pending, info>>

Entry == [awake : Nat, trigger : BOOLEAN, co : Co]

BagTypeOK == /\ clock \in 0 .. MaxClock
             /\ pending \subseteq Info
             /\ info \in [Info -> Entry \cup {Garbage}]

\* No other pending entry has an earlier time: ties are left open.
Earliest(i) == \A j \in pending : info[i].awake <= info[j].awake

BagInit == /\ clock = 0
           /\ pending = {}
           /\ info = [i \in Info |-> Garbage]

Arm(co, when) ==
  \E i \in Info \ pending :
     /\ clock + when <= MaxClock
     /\ pending' = pending \cup {i}
     /\ info' = [info EXCEPT ![i] =
                   [awake |-> clock + when, trigger |-> TRUE, co |-> co]]
     /\ UNCHANGED clock

\* At most one entry of the coroutine is disarmed; it stays in the queue.
Disarm(co) ==
  \E i \in pending : /\ info[i].co = co
                     /\ info' = [info EXCEPT ![i].trigger = FALSE]
                     /\ UNCHANGED <<clock, pending>>

Leave(i) == /\ i \in pending
            /\ Earliest(i)
            /\ info[i].trigger => info[i].awake <= clock
            /\ pending' = pending \ {i}
            /\ info' = [info EXCEPT ![i] = Garbage]
            /\ UNCHANGED clock

BagTick == /\ clock < MaxClock
           /\ clock' = clock + 1
           /\ UNCHANGED <<pending, info>>

BagNext == \/ \E co \in Co : (\E when \in Delays : Arm(co, when)) \/ Disarm(co)
           \/ \E i \in Info : Leave(i)
           \/ BagTick

BagSpec == BagInit /\ [][BagNext]_bagVars
=============================================================================
