----------------------------- MODULE Loop_proofs -----------------------------
(***************************************************************************)
(* Proofs about the event loop and the pollset it waits on.                *)
(*                                                                         *)
(* Of the loop, for any number of coroutines, timers and sockets and any   *)
(* delays: type correctness and every safety property that TLC checks.     *)
(* Of the implementations of src/pollset.c, for any number of files and    *)
(* handlers: that they keep their parts together, that their iterators     *)
(* stay inside what they iterate over, and that each does what the comment *)
(* before them promises, step by step.                                     *)
(***************************************************************************)
EXTENDS Nfl, Pollsets, TLAPS, SequenceTheorems, FiniteSetTheorems

(* The inductive invariant, by the parts of the state it is about.          *)

\* A pending entry holds a timer, and the hash part of TOQUEUE refers to
\* pending entries of the right coroutine only.
Timers == /\ clock \in 0 .. Horizon
          /\ pending \subseteq Info
          /\ info \in [Info -> Entry \cup {Garbage}]
          /\ index \in [Co -> Info \cup {NoInfo}]
          /\ \A i \in pending : info[i] \in Entry
          /\ \A co \in Co : index[co] # NoInfo =>
                index[co] \in pending /\ info[index[co]].co = co

Queues == /\ runq \in Seq([co : Co, by : Reason])
          /\ flag \in [Co -> BOOLEAN]
          /\ RunQueueSound

\* The references are counted, since there is a finite number of them.
References == /\ status \in [Co -> {"none", "suspended", "running", "dead"}]
              /\ IsFiniteSet(ref)
              /\ refn \in Nat
              /\ RefCount

\* Between reading the clock and the wait at most MaxLag passes; the timeout
\* that is to be waited for reaches no further than the first armed timer.
Times == /\ now \in 0 .. Horizon
         /\ timeout \in Int
         /\ until \in Nat \cup {Never}
         /\ now <= clock
         /\ pc \in {"drain", "poll"} => clock - now <= MaxLag
         /\ pc = "poll" => \A i \in Info :
               Armed(i) => timeout > 0 /\ now + timeout <= info[i].awake

Places == /\ pc \in {"top", "drain", "poll", "wait", "events", "run", "co",
                     "returned", "failed"}
          /\ socks \subseteq Co
          /\ events \subseteq Co \cup {Accept}
          /\ timing \subseteq Co

IInv == /\ Timers /\ Queues /\ References /\ Times /\ Places
        /\ NoFailure /\ NoneLeft /\ SleepSafe
-----------------------------------------------------------------------------
\* schedule() keeps the two parts of RUNQUEUE in agreement, and afterwards the
\* coroutine is flagged.
LEMMA ScheduleQueues ==
  ASSUME Queues, NEW co \in Co, NEW why \in Reason, Schedule(co, why)
  PROVE  Queues' /\ flag'[co]
<1>1. CASE flag[co]
  BY <1>1 DEF Schedule, Queues, RunQueueSound, Queued
<1>2. CASE ~ flag[co]
  <2> DEFINE item == [co |-> co, by |-> why]
  <2>1. runq' = Append(runq, item) /\ flag' = [flag EXCEPT ![co] = TRUE]
    BY <1>2 DEF Schedule
  <2>2. item \in [co : Co, by : Reason]
    OBVIOUS
  <2>3. runq' \in Seq([co : Co, by : Reason]) /\ flag' \in [Co -> BOOLEAN]
    BY <2>1, <2>2 DEF Queues
  <2>4. /\ Len(runq') = Len(runq) + 1 /\ Len(runq) \in Nat
        /\ runq'[Len(runq) + 1] = item
        /\ \A k \in 1 .. Len(runq) : runq'[k] = runq[k]
    BY <2>1, <2>2 DEF Queues
  <2>5. DOMAIN runq = 1 .. Len(runq) /\ DOMAIN runq' = 1 .. Len(runq) + 1
    BY <2>3, <2>4 DEF Queues
  <2>6. item.co = co
    OBVIOUS
  <2> HIDE DEF item
  <2>7. \A k \in DOMAIN runq : runq[k].co # co
    BY <1>2 DEF Queues, RunQueueSound, Queued
  <2>8. \A other \in Co : flag'[other] <=> \E k \in DOMAIN runq' : runq'[k].co = other
    <3> TAKE other \in Co
    <3>1. CASE other = co
      BY <3>1, <2>1, <2>4, <2>5, <2>6, SMT DEF Queues
    <3>2. CASE other # co
      <4>1. flag'[other] <=> \E k \in DOMAIN runq : runq[k].co = other
        BY <3>2, <2>1 DEF Queues, RunQueueSound, Queued
      <4>2. QED
        BY <4>1, <3>2, <2>4, <2>5, <2>6, SMT
    <3>3. QED
      BY <3>1, <3>2
  <2>9. \A j, k \in DOMAIN runq' : runq'[j].co = runq'[k].co => j = k
    <3>1. \A j, k \in DOMAIN runq : runq[j].co = runq[k].co => j = k
      BY DEF Queues, RunQueueSound
    <3>2. QED
      BY <3>1, <2>4, <2>5, <2>6, <2>7, SMT
  <2>10. flag'[co]
    BY <2>1 DEF Queues
  <2>11. QED
    BY <2>3, <2>8, <2>9, <2>10 DEF Queues, RunQueueSound, Queued
<1>3. QED
  BY <1>1, <1>2

\* Taking the first coroutine off the run queue takes its flag, and no other.
LEMMA TakeQueues ==
  ASSUME Queues, runq # <<>>, runq' = Tail(runq), Unflag(Head(runq).co)
  PROVE  Queues' /\ Head(runq).co \in Co
<1> DEFINE co == Head(runq).co
           n  == Len(runq)
<1> DEFINE Item == [co : Co, by : Reason]
<1>1. runq \in Seq(Item) /\ runq # <<>> /\ runq' = Tail(runq)
  BY DEF Queues
<1>2. \A item \in Item : item.co \in Co
  OBVIOUS
<1> HIDE DEF Item
<1>3. n \in Nat /\ n > 0 /\ DOMAIN runq = 1 .. n /\ Head(runq) = runq[1]
  BY <1>1, LenProperties, EmptySeq
<1>4. Head(runq) \in Item
  BY <1>1, HeadTailProperties
<1>5. n \in Nat /\ n > 0 /\ DOMAIN runq = 1 .. n /\ runq[1].co = co /\ co \in Co
  BY <1>2, <1>3, <1>4
<1>6. runq' \in Seq(Item) /\ Len(runq') = n - 1
      /\ \A k \in 1 .. Len(runq') : runq'[k] = runq[k + 1]
  BY <1>1, HeadTailProperties
<1>7. runq' \in Seq([co : Co, by : Reason]) /\ flag' \in [Co -> BOOLEAN]
  BY <1>6 DEF Queues, Unflag, Item
<1>8. Len(runq') = n - 1 /\ \A k \in 1 .. n - 1 : runq'[k] = runq[k + 1]
  BY <1>6
<1>9. DOMAIN runq' = 1 .. n - 1
  BY <1>6, LenProperties
<1>10. flag' = [flag EXCEPT ![co] = FALSE]
  BY DEF Unflag
<1>11. \A j, k \in DOMAIN runq : runq[j].co = runq[k].co => j = k
  BY DEF Queues, RunQueueSound
<1>12. \A other \in Co : flag[other] <=> \E k \in DOMAIN runq : runq[k].co = other
  BY DEF Queues, RunQueueSound, Queued
<1>13. flag \in [Co -> BOOLEAN]
  BY DEF Queues
<1> HIDE DEF co, n
<1>14. \A other \in Co : flag'[other] <=> \E k \in DOMAIN runq' : runq'[k].co = other
  <2> TAKE other \in Co
  <2>1. CASE other = co
    <3>1. ~ flag'[other]
      BY <2>1, <1>10, <1>13
    <3>2. ASSUME NEW k \in DOMAIN runq', runq'[k].co = other PROVE FALSE
      <4>1. k \in 1 .. n - 1 /\ runq[k + 1].co = runq[1].co
        BY <3>2, <2>1, <1>5, <1>8, <1>9
      <4>2. k + 1 \in DOMAIN runq /\ 1 \in DOMAIN runq /\ k + 1 # 1
        BY <4>1, <1>5, SMT
      <4>3. QED
        BY <4>1, <4>2, <1>11
    <3>3. QED
      BY <3>1, <3>2
  <2>2. CASE other # co
    <3>1. flag'[other] = flag[other]
      BY <2>2, <1>10, <1>13
    <3>2. ASSUME NEW k \in DOMAIN runq, runq[k].co = other
          PROVE  \E j \in DOMAIN runq' : runq'[j].co = other
      <4>1. k \in 1 .. n /\ k # 1
        BY <3>2, <2>2, <1>5
      <4>2. k - 1 \in 1 .. n - 1 /\ runq'[k - 1] = runq[k]
        BY <4>1, <1>5, <1>8, SMT
      <4>3. QED
        BY <4>2, <3>2, <1>9
    <3>3. ASSUME NEW j \in DOMAIN runq', runq'[j].co = other
          PROVE  \E k \in DOMAIN runq : runq[k].co = other
      <4>1. j + 1 \in DOMAIN runq /\ runq'[j] = runq[j + 1]
        BY <1>5, <1>8, <1>9, SMT
      <4>2. QED
        BY <4>1, <3>3
    <3>4. QED
      BY <3>1, <3>2, <3>3, <1>12
  <2>3. QED
    BY <2>1, <2>2
<1>15. \A j, k \in DOMAIN runq' : runq'[j].co = runq'[k].co => j = k
  <2> TAKE j, k \in DOMAIN runq'
  <2> HAVE runq'[j].co = runq'[k].co
  <2>1. j + 1 \in DOMAIN runq /\ k + 1 \in DOMAIN runq /\ j \in Nat /\ k \in Nat
    BY <1>5, <1>9, SMT
  <2>2. runq[j + 1].co = runq[k + 1].co
    BY <1>8, <1>9
  <2>3. QED
    BY <2>1, <2>2, <1>11
<1>16. QED
  BY <1>5, <1>7, <1>14, <1>15 DEF Queues, RunQueueSound, Queued

\* spawn() retains a coroutine and counts it.
LEMMA SpawnReferences ==
  ASSUME References, Queues, NEW co \in Co, Spawn(co)
  PROVE  References' /\ Queues'
<1>1. /\ status[co] = "none"
      /\ status' = [status EXCEPT ![co] = "suspended"]
      /\ ref' = ref \cup {co} /\ refn' = refn + 1
  BY DEF Spawn, Retain
<1>2. co \notin ref /\ refn = Cardinality(ref) /\ IsFiniteSet(ref)
  BY <1>1 DEF References, RefCount, Alive
<1>3. IsFiniteSet(ref') /\ refn' = Cardinality(ref') /\ refn' \in Nat
  BY <1>1, <1>2, FS_AddElement DEF References
<1>4. ref' = {other \in Co : Alive(other)'}
  BY <1>1 DEF References, RefCount, Alive
<1>5. status' \in [Co -> {"none", "suspended", "running", "dead"}]
  BY <1>1 DEF References
<1>6. Queues'
  BY ScheduleQueues DEF Spawn, Reason
<1>7. QED
  BY <1>3, <1>4, <1>5, <1>6 DEF References, RefCount

\* A coroutine that ends is released, and there is one to release.
LEMMA EndReferences ==
  ASSUME References, NEW co \in Co, CoEnd(co)
  PROVE  References' /\ refn > 0
<1>1. status[co] = "running" /\ status' = [status EXCEPT ![co] = "dead"]
  BY DEF CoEnd, Running
<1>2. co \in ref /\ refn = Cardinality(ref) /\ IsFiniteSet(ref) /\ refn \in Nat
  BY <1>1 DEF References, RefCount, Alive
<1>3. refn > 0
  <2>1. Cardinality(ref) # 0
    BY <1>2, FS_EmptySet
  <2>2. QED
    BY <2>1, <1>2
<1>4. ref' = ref \ {co} /\ refn' = refn - 1
  BY <1>3 DEF CoEnd, Release
<1>5. IsFiniteSet(ref') /\ refn' = Cardinality(ref') /\ refn' \in Nat
  BY <1>2, <1>3, <1>4, FS_RemoveElement
<1>6. ref' = {other \in Co : Alive(other)'}
  BY <1>1, <1>4 DEF References, RefCount, Alive
<1>7. status' \in [Co -> {"none", "suspended", "running", "dead"}]
  BY <1>1 DEF References
<1>8. QED
  BY <1>3, <1>5, <1>6, <1>7 DEF References, RefCount

\* What resume and yield do to the status keeps a coroutine alive.
LEMMA LiveReferences ==
  ASSUME References, UNCHANGED <<ref, refn>>, NEW co \in Co, Alive(co),
         NEW to \in {"suspended", "running"}, status' = [status EXCEPT ![co] = to]
  PROVE  References'
<1>1. \A other \in Co : Alive(other)' <=> Alive(other)
  BY DEF References, Alive
<1>2. QED
  BY <1>1 DEF References, RefCount

\* An entry that leaves takes the index of its coroutine with it.
LEMMA ExpireTimers ==
  ASSUME Timers, NEW i \in pending, Expire(i)
  PROVE  Timers' /\ info[i] \in Entry
<1>1. info[i] \in Entry /\ i \in Info /\ info[i].co \in Co
  BY DEF Timers, Entry
<1>2. /\ pending' = pending \ {i}
      /\ info' = [info EXCEPT ![i] = Garbage]
      /\ index' = [index EXCEPT ![info[i].co] = NoInfo]
      /\ clock' = clock
  BY DEF Expire
<1>3. \A j \in pending' : info'[j] \in Entry /\ info'[j] = info[j]
  BY <1>1, <1>2 DEF Timers
<1>4. info' \in [Info -> Entry \cup {Garbage}] /\ index' \in [Co -> Info \cup {NoInfo}]
  BY <1>1, <1>2 DEF Timers
<1>5. ASSUME NEW co \in Co, index'[co] # NoInfo
      PROVE  index'[co] \in pending' /\ info'[index'[co]].co = co
  <2>1. co # info[i].co /\ index'[co] = index[co]
    BY <1>1, <1>2, <1>5 DEF Timers
  <2>2. index[co] \in pending /\ info[index[co]].co = co
    BY <2>1, <1>5 DEF Timers
  <2>3. QED
    BY <2>1, <2>2, <1>2, <1>3
<1>6. QED
  BY <1>1, <1>2, <1>3, <1>4, <1>5 DEF Timers

\* timeout(when) gives the coroutine the new entry.
LEMMA ArmTimers ==
  ASSUME Timers, NEW co \in Co, CoArm(co)
  PROVE  Timers' /\ pending \subseteq pending' /\ UNCHANGED clock
<1>1. PICK when \in Delays, i \in Info \ pending :
        /\ pending' = pending \cup {i}
        /\ info' = [info EXCEPT ![i] =
                      [awake |-> clock + when, trigger |-> TRUE, co |-> co]]
        /\ UNCHANGED clock
  BY DEF CoArm, Arm
<1>2. index' = [index EXCEPT ![co] = CHOOSE j \in pending' : j \notin pending]
  BY DEF CoArm
<1>3. (CHOOSE j \in pending' : j \notin pending) = i
  BY <1>1
<1>4. index' = [index EXCEPT ![co] = i]
  BY <1>2, <1>3
<1>5. [awake |-> clock + when, trigger |-> TRUE, co |-> co] \in Entry
  BY NflAssumption DEF Timers, Entry
<1>6. info'[i] \in Entry /\ info'[i].co = co /\ \A j \in Info : j # i => info'[j] = info[j]
  BY <1>1, <1>5 DEF Timers
<1>7. info' \in [Info -> Entry \cup {Garbage}] /\ index' \in [Co -> Info \cup {NoInfo}]
  BY <1>1, <1>4, <1>5 DEF Timers
<1>8. \A j \in pending' : info'[j] \in Entry
  BY <1>1, <1>6 DEF Timers
<1>9. ASSUME NEW other \in Co, index'[other] # NoInfo
      PROVE  index'[other] \in pending' /\ info'[index'[other]].co = other
  <2>1. CASE other = co
    BY <2>1, <1>1, <1>4, <1>6 DEF Timers
  <2>2. CASE other # co
    <3>1. index'[other] = index[other] /\ index[other] \in pending
          /\ info[index[other]].co = other
      BY <2>2, <1>4, <1>9 DEF Timers
    <3>2. index[other] # i /\ index[other] \in Info
      BY <3>1, <1>1 DEF Timers
    <3>3. QED
      BY <3>1, <3>2, <1>1, <1>6
  <2>3. QED
    BY <2>1, <2>2
<1>10. QED
  BY <1>1, <1>7, <1>8, <1>9 DEF Timers

\* timeout(0) leaves the entry where it is.
LEMMA CancelTimers ==
  ASSUME Timers, NEW co \in Co, CoCancel(co)
  PROVE  Timers'
<1>1. CASE index[co] = NoInfo
  BY <1>1 DEF CoCancel, Timers
<1>2. CASE index[co] # NoInfo
  <2> DEFINE i == index[co]
  <2>1. i \in pending /\ i \in Info /\ info[i] \in Entry
    BY <1>2 DEF Timers
  <2>2. info' = [info EXCEPT ![i].trigger = FALSE] /\ UNCHANGED <<clock, pending, index>>
    BY <1>2 DEF CoCancel
  <2>3. info'[i] \in Entry /\ info'[i].co = info[i].co
        /\ \A j \in Info : j # i => info'[j] = info[j]
    BY <2>1, <2>2 DEF Entry, Timers
  <2>4. info' \in [Info -> Entry \cup {Garbage}]
    BY <2>1, <2>2, <2>3 DEF Timers
  <2> HIDE DEF i
  <2>5. \A j \in pending : info'[j] \in Entry /\ info'[j].co = info[j].co
    BY <2>3 DEF Timers
  <2>6. QED
    BY <2>2, <2>4, <2>5 DEF Timers
<1>3. QED
  BY <1>1, <1>2
-----------------------------------------------------------------------------
(* Parts that a step leaves alone.                                          *)

\* Steps that do not touch TOQUEUE or the clock keep what is said of them.
LEMMA SameTimers ==
  ASSUME Timers, UNCHANGED <<clock, pending, info, index>>
  PROVE  Timers'
BY DEF Timers

\* The same of RUNQUEUE,
LEMMA SameQueues ==
  ASSUME Queues, UNCHANGED <<runq, flag>>
  PROVE  Queues'
BY DEF Queues, RunQueueSound, Queued

\* and of REFQUEUE and the coroutines.
LEMMA SameReferences ==
  ASSUME References, UNCHANGED <<ref, refn, status>>
  PROVE  References'
BY DEF References, RefCount, Alive

\* Where the loop neither drains, polls, waits nor has returned, nothing is
\* said of the time but that it does not run backwards.
LEMMA Elsewhere ==
  ASSUME Times, UNCHANGED <<now, timeout, until, clock>>,
         pc' \notin {"drain", "poll", "wait", "returned", "failed"}
  PROVE  Times' /\ NoFailure' /\ NoneLeft' /\ SleepSafe'
BY DEF Times, NoFailure, NoneLeft, SleepSafe
-----------------------------------------------------------------------------
(* Each step keeps the invariant.                                           *)

\* A pass starts with the clock just read; the loop returns to a client only
\* when the count, hence the set, is empty.
LEMMA TopIInv == IInv /\ Top => IInv'
<1> SUFFICES ASSUME IInv, Top PROVE IInv'
  OBVIOUS
<1>1. Timers' /\ Queues' /\ References'
  BY SameTimers, SameQueues, SameReferences DEF IInv, Top, timerVars, queueVars
<1>2. CASE pc' = "returned" /\ (MayStop \/ Done) /\ UNCHANGED <<now, timeout>>
  <2>1. Times' /\ Places' /\ NoFailure' /\ SleepSafe'
    BY <1>2 DEF IInv, Top, timerVars, Times, Places, NoFailure, SleepSafe
  <2>2. NoneLeft'
    <3>1. SUFFICES ASSUME Done, NEW co \in Co PROVE ~ Alive(co)'
      BY <1>2 DEF NoneLeft
    <3>2. ref = {}
      BY <3>1, FS_EmptySet DEF Done, IInv, References, RefCount
    <3>3. status' = status
      BY DEF Top, queueVars
    <3>4. QED
      BY <3>2, <3>3 DEF IInv, References, RefCount, Alive
  <2>3. QED
    BY <1>1, <2>1, <2>2 DEF IInv
<1>3. CASE pc' = "drain" /\ now' = clock /\ timeout' = Never
  <2>1. clock' = clock /\ until' = until /\ clock \in 0 .. Horizon /\ MaxLag \in Nat
    BY NflAssumption DEF Top, timerVars, IInv, Timers
  <2>2. Times'
    BY <1>3, <2>1, NflAssumption DEF Times, IInv, Never
  <2>3. Places' /\ NoFailure' /\ NoneLeft' /\ SleepSafe'
    BY <1>3 DEF IInv, Top, timerVars, Places, NoFailure, NoneLeft, SleepSafe
  <2>4. QED
    BY <1>1, <2>2, <2>3 DEF IInv
<1>4. QED
  BY <1>2, <1>3 DEF Top, Goto, ReadClock

\* Taking timers off the queue changes neither the clock nor the place.
LEMMA DrainIInv == IInv /\ (DrainDue \/ DrainCancelled) => IInv'
<1> SUFFICES ASSUME IInv, DrainDue \/ DrainCancelled PROVE IInv'
  OBVIOUS
<1>1. CASE DrainDue
  <2>1. PICK i \in pending : Due(i) /\ Expire(i) /\ timeout' = info[i].awake - now /\ Wake(i)
    BY <1>1 DEF DrainDue
  <2>2. Timers' /\ info[i] \in Entry
    BY <2>1, ExpireTimers DEF IInv
  <2>3. Queues'
    <3>1. info[i].co \in Co /\ "timer" \in Reason
      BY <2>2 DEF Entry, Reason
    <3>2. CASE Schedule(info[i].co, "timer")
      BY <3>1, <3>2, ScheduleQueues DEF IInv
    <3>3. CASE UNCHANGED <<runq, flag>>
      BY <3>3, SameQueues DEF IInv
    <3>4. QED
      BY <2>1, <3>2, <3>3 DEF Wake
  <2>4. References'
    BY <1>1, SameReferences DEF DrainDue, IInv
  <2>5. pc = "drain" /\ UNCHANGED <<pc, now, until, events, socks, clock, timing>>
    BY <1>1, <2>1 DEF DrainDue, Expire
  <2>6. timeout' \in Int
    BY <2>1, <2>2 DEF Entry, IInv, Times
  <2>7. Times'
    BY <2>5, <2>6 DEF Times, IInv
  <2>8. Places' /\ NoFailure' /\ NoneLeft' /\ SleepSafe'
    BY <2>5 DEF IInv, Places, NoFailure, NoneLeft, SleepSafe
  <2>9. QED
    BY <2>2, <2>3, <2>4, <2>7, <2>8 DEF IInv
<1>2. CASE DrainCancelled
  <2>1. PICK i \in pending : Expire(i)
    BY <1>2 DEF DrainCancelled
  <2>2. Timers'
    BY <2>1, ExpireTimers DEF IInv
  <2>3. pc = "drain" /\ UNCHANGED <<queueVars, loopVars, clock, timing>>
    BY <1>2, <2>1 DEF DrainCancelled, Expire
  <2>4. Queues' /\ References'
    BY <2>3, SameQueues, SameReferences DEF IInv, queueVars
  <2>5. Times'
    BY <2>3 DEF Times, IInv, loopVars
  <2>6. Places' /\ NoFailure' /\ NoneLeft' /\ SleepSafe'
    BY <2>3 DEF IInv, Places, NoFailure, NoneLeft, SleepSafe, loopVars
  <2>7. QED
    BY <2>2, <2>4, <2>5, <2>6 DEF IInv
<1>3. QED
  BY <1>1, <1>2

\* The drain ends at the first armed timer that is not due, which is no later
\* than any other, or with no timer left.
LEMMA DrainEndIInv == IInv /\ DrainEnd => IInv'
<1> SUFFICES ASSUME IInv, DrainEnd PROVE IInv'
  OBVIOUS
<1>1. Timers' /\ Queues' /\ References'
  BY SameTimers, SameQueues, SameReferences DEF IInv, DrainEnd, timerVars, queueVars
<1>2. pc = "drain" /\ pc' = "poll" /\ UNCHANGED <<clock, pending, info, now, until, events, socks, timing>>
  BY DEF DrainEnd, Goto, timerVars
<1>3. \A j \in pending : info[j].awake \in Nat
  BY DEF IInv, Timers, Entry
<1>4. timeout' \in Int /\ \A j \in Info : Armed(j) => timeout' > 0 /\ now + timeout' <= info[j].awake
  <2>1. CASE pending = {} /\ UNCHANGED timeout
    BY <2>1 DEF Armed, IInv, Times
  <2>2. CASE \E i \in pending : FirstLater(i) /\ timeout' = info[i].awake - now
    <3>1. PICK i \in pending : FirstLater(i) /\ timeout' = info[i].awake - now
      BY <2>2
    <3>2. /\ \A j \in pending : info[i].awake <= info[j].awake
          /\ ~ (info[i].awake <= now)
      BY <3>1 DEF FirstLater, Earliest, Due
    <3>3. now \in Nat
      BY DEF IInv, Times
    <3>4. timeout' \in Int /\ timeout' > 0
      BY <3>1, <3>2, <3>3, <1>3
    <3>5. ASSUME NEW j \in Info, Armed(j)
          PROVE  now + timeout' <= info[j].awake
      BY <3>1, <3>2, <3>3, <3>5, <1>3 DEF Armed
    <3>6. QED
      BY <3>4, <3>5
  <2>3. QED
    BY <2>1, <2>2 DEF DrainEnd
<1>5. Times'
  BY <1>2, <1>4 DEF Times, IInv, Armed
<1>6. Places' /\ NoFailure' /\ NoneLeft' /\ SleepSafe'
  BY <1>2 DEF IInv, Places, NoFailure, NoneLeft, SleepSafe
<1>7. QED
  BY <1>1, <1>5, <1>6 DEF IInv

\* The wait is bounded by the first armed timer, save for the time since the
\* clock was read, or does not block at all.
LEMMA StartWaitIInv == IInv /\ StartWait => IInv'
<1> SUFFICES ASSUME IInv, StartWait PROVE IInv'
  OBVIOUS
<1>1. Timers' /\ Queues' /\ References'
  BY SameTimers, SameQueues, SameReferences DEF IInv, StartWait, timerVars, queueVars
<1>2. /\ pc = "poll" /\ pc' = "wait"
      /\ UNCHANGED <<clock, pending, info, runq, now, timeout, events, socks, timing>>
      /\ until' = IF Limit < 0 THEN Never ELSE clock + Limit
  BY DEF StartWait, Goto, timerVars, queueVars
<1>3. clock \in Nat /\ now \in Nat /\ timeout \in Int /\ MaxLag \in Nat
      /\ clock - now <= MaxLag /\ now <= clock
  BY <1>2, NflAssumption DEF IInv, Timers, Times
<1>4. Limit \in Int
  BY <1>3 DEF Limit
<1>5. Times'
  <2>1. until' \in Nat \cup {Never}
    BY <1>2, <1>3, <1>4
  <2>2. QED
    BY <1>2, <2>1 DEF Times, IInv
<1>6. SleepSafe'
  <2>1. CASE runq # <<>>
    <3>1. until' = clock
      BY <2>1, <1>2, <1>3 DEF Limit
    <3>2. until' # Never
      BY <3>1, <1>3 DEF Never
    <3>3. QED
      BY <3>1, <3>2, <1>2, <1>3 DEF SleepSafe
  <2>2. CASE runq = <<>>
    <3>1. Limit = timeout
      BY <2>2 DEF Limit
    <3>2. ASSUME NEW i \in Info, Armed(i)
          PROVE  until' # Never /\ until' <= info[i].awake + MaxLag
      <4>1. timeout > 0 /\ now + timeout <= info[i].awake
        BY <3>2, <1>2 DEF IInv, Times
      <4>2. info[i].awake \in Nat
        BY <3>2 DEF Armed, IInv, Timers, Entry
      <4>3. until' = clock + timeout
        BY <3>1, <4>1, <1>2, <1>3
      <4>4. QED
        BY <4>1, <4>2, <4>3, <1>3 DEF Never
    <3>3. \A i \in Info : Armed(i)' <=> Armed(i)
      BY <1>2 DEF Armed
    <3>4. QED
      BY <2>2, <3>2, <3>3, <1>2 DEF SleepSafe
  <2>3. QED
    BY <2>1, <2>2
<1>7. Places' /\ NoFailure' /\ NoneLeft'
  BY <1>2 DEF IInv, Places, NoFailure, NoneLeft
<1>8. QED
  BY <1>1, <1>5, <1>6, <1>7 DEF IInv

\* The return from the wait, with or without events or with an error.
LEMMA WaitIInv == IInv /\ (WaitReturn \/ WaitError) => IInv'
<1> SUFFICES ASSUME IInv, WaitReturn \/ WaitError PROVE IInv'
  OBVIOUS
<1>1. /\ UNCHANGED <<timerVars, queueVars, now, timeout, until, socks>>
      /\ pc' \in {"events", "top"}
      /\ events' \subseteq Co \cup {Accept}
  BY DEF WaitReturn, WaitEvents, WaitNothing, WaitError, Goto, Listener, IInv, Places
<1>2. Timers' /\ Queues' /\ References'
  BY <1>1, SameTimers, SameQueues, SameReferences DEF IInv, timerVars, queueVars
<1>3. Times' /\ NoFailure' /\ NoneLeft' /\ SleepSafe'
  BY <1>1, Elsewhere DEF IInv, timerVars
<1>4. Places'
  BY <1>1 DEF IInv, Places, timerVars
<1>5. QED
  BY <1>2, <1>3, <1>4 DEF IInv

\* Handlers schedule and spawn, and put a new connection in the pollset.
LEMMA HandleIInv == IInv /\ Handle => IInv'
<1> SUFFICES ASSUME IInv, Handle PROVE IInv'
  OBVIOUS
<1>1. /\ UNCHANGED <<timerVars, now, timeout, until>>
      /\ pc' \in {"events", "run"}
  BY DEF Handle, HandleEvent, HandleAccept, EndEvents, Goto
<1>2. Timers' /\ Times' /\ NoFailure' /\ NoneLeft' /\ SleepSafe'
  BY <1>1, SameTimers, Elsewhere DEF IInv, timerVars
<1>3. CASE HandleEvent
  <2>1. PICK co \in events \ {Accept} :
          /\ events' = events \ {co}
          /\ Schedule(co, "event") \/ UNCHANGED <<runq, flag>>
    BY <1>3 DEF HandleEvent
  <2>2. co \in Co /\ "event" \in Reason
    BY DEF IInv, Places, Reason
  <2>3. Queues'
    BY <2>1, <2>2, ScheduleQueues, SameQueues DEF IInv
  <2>4. References'
    BY <1>3, SameReferences DEF HandleEvent, IInv
  <2>5. Places'
    BY <1>1, <1>3, <2>1 DEF HandleEvent, IInv, Places, timerVars
  <2>6. QED
    BY <1>2, <2>3, <2>4, <2>5 DEF IInv
<1>4. CASE HandleAccept
  <2>1. Places'
    BY <1>1, <1>4 DEF HandleAccept, IInv, Places, timerVars
  <2>2. CASE \E co \in Co : Spawn(co)
    BY <1>2, <2>1, <2>2, SpawnReferences DEF IInv
  <2>3. CASE UNCHANGED queueVars
    BY <1>2, <2>1, <2>3, SameQueues, SameReferences DEF IInv, queueVars
  <2>4. QED
    BY <1>4, <2>2, <2>3 DEF HandleAccept
<1>5. CASE EndEvents
  <2>1. Queues' /\ References'
    BY <1>5, SameQueues, SameReferences DEF EndEvents, IInv, queueVars
  <2>2. Places'
    BY <1>1, <1>5 DEF EndEvents, IInv, Places, timerVars
  <2>3. QED
    BY <1>2, <2>1, <2>2 DEF IInv
<1>6. QED
  BY <1>3, <1>4, <1>5 DEF Handle

\* Whoever is taken off the run queue is resumed if it can be.
LEMMA ResumeIInv == IInv /\ (Resume \/ EndRun) => IInv'
<1> SUFFICES ASSUME IInv, Resume \/ EndRun PROVE IInv'
  OBVIOUS
<1>1. /\ UNCHANGED <<timerVars, now, timeout, until, events, socks>>
      /\ pc' \in {"run", "co", "top"}
  BY DEF Resume, EndRun, Goto
<1>2. Timers' /\ Times' /\ NoFailure' /\ NoneLeft' /\ SleepSafe'
  BY <1>1, SameTimers, Elsewhere DEF IInv, timerVars
<1>3. Places'
  BY <1>1 DEF IInv, Places, timerVars
<1>4. CASE Resume
  <2> DEFINE co == Head(runq).co
  <2>1. runq # <<>> /\ runq' = Tail(runq) /\ Unflag(co)
    BY <1>4 DEF Resume
  <2>2. Queues' /\ co \in Co
    BY <2>1, TakeQueues DEF IInv
  <2>3. CASE status[co] = "suspended"
    <3>1. status' = [status EXCEPT ![co] = "running"] /\ UNCHANGED <<ref, refn>>
      BY <1>4, <2>3 DEF Resume
    <3>2. Alive(co)
      BY <2>3 DEF Alive
    <3> HIDE DEF co
    <3>3. References'
      BY <2>2, <3>1, <3>2, LiveReferences DEF IInv
    <3>4. QED
      BY <1>2, <1>3, <2>2, <3>3 DEF IInv
  <2>4. CASE status[co] # "suspended"
    <3>1. UNCHANGED <<ref, refn, status>>
      BY <1>4, <2>4 DEF Resume, SkipDead
    <3>2. References'
      BY <3>1, SameReferences DEF IInv
    <3>3. QED
      BY <1>2, <1>3, <2>2, <3>2 DEF IInv
  <2>5. QED
    BY <2>3, <2>4
<1>5. CASE EndRun
  <2>1. Queues' /\ References'
    BY <1>5, SameQueues, SameReferences DEF EndRun, IInv, queueVars
  <2>2. QED
    BY <1>2, <1>3, <2>1 DEF IInv
<1>6. QED
  BY <1>4, <1>5

\* What the running coroutine calls.
LEMMA CoIInv == ASSUME IInv, NEW co \in Co, CoStep(co) PROVE IInv'
<1>1. pc = "co" /\ status[co] = "running" /\ Alive(co) /\ UNCHANGED <<now, timeout, until, clock>>
  BY DEF CoStep, CoArm, CoCancel, CoSpawn, CoKick, CoSocket, CoYield, CoEnd, Running, Arm,
         loopVars, timerVars, Alive
<1>2. refn > 0
  BY <1>1, FS_EmptySet DEF Alive, IInv, References, RefCount
<1>3. pc' \in {"co", "run"}
  BY <1>1, <1>2 DEF CoStep, CoArm, CoCancel, CoSpawn, CoKick, CoSocket, CoYield, CoEnd, loopVars, Goto
<1>4. Times' /\ NoFailure' /\ NoneLeft' /\ SleepSafe'
  BY <1>1, <1>3, Elsewhere DEF IInv
<1>5. Places'
  BY <1>1, <1>3 DEF CoStep, CoArm, CoCancel, CoSpawn, CoKick, CoSocket, CoYield, CoEnd,
                    loopVars, timerVars, IInv, Places
<1>6. CASE CoArm(co)
  <2>1. Timers'
    BY <1>6, ArmTimers DEF IInv
  <2>2. Queues' /\ References'
    BY <1>6, SameQueues, SameReferences DEF CoArm, IInv, queueVars
  <2>3. QED
    BY <1>4, <1>5, <2>1, <2>2 DEF IInv
<1>7. CASE CoCancel(co)
  <2>1. Timers'
    BY <1>7, CancelTimers DEF IInv
  <2>2. Queues' /\ References'
    BY <1>7, SameQueues, SameReferences DEF CoCancel, IInv, queueVars
  <2>3. QED
    BY <1>4, <1>5, <2>1, <2>2 DEF IInv
<1>8. CASE CoSpawn(co)
  <2>1. Timers'
    BY <1>8, SameTimers DEF CoSpawn, IInv, timerVars
  <2>2. Queues' /\ References'
    BY <1>8, SpawnReferences DEF CoSpawn, IInv
  <2>3. QED
    BY <1>4, <1>5, <2>1, <2>2 DEF IInv
<1>9. CASE CoKick(co)
  <2>1. Timers' /\ References'
    BY <1>9, SameTimers, SameReferences DEF CoKick, IInv, timerVars
  <2>2. Queues'
    BY <1>9, ScheduleQueues DEF CoKick, IInv, Reason
  <2>3. QED
    BY <1>4, <1>5, <2>1, <2>2 DEF IInv
<1>10. CASE CoSocket(co)
  <2>1. Timers' /\ Queues' /\ References'
    BY <1>10, SameTimers, SameQueues, SameReferences DEF CoSocket, IInv, timerVars, queueVars
  <2>2. QED
    BY <1>4, <1>5, <2>1 DEF IInv
<1>11. CASE CoYield(co)
  <2>1. Timers' /\ Queues'
    BY <1>11, SameTimers, SameQueues DEF CoYield, IInv, timerVars
  <2>2. References'
    BY <1>1, <1>11, LiveReferences DEF CoYield, IInv
  <2>3. QED
    BY <1>4, <1>5, <2>1, <2>2 DEF IInv
<1>12. CASE CoEnd(co)
  <2>1. Timers' /\ Queues'
    BY <1>12, SameTimers, SameQueues DEF CoEnd, IInv, timerVars
  <2>2. References'
    BY <1>12, EndReferences DEF IInv
  <2>3. QED
    BY <1>4, <1>5, <2>1, <2>2 DEF IInv
<1>13. QED
  BY <1>6, <1>7, <1>8, <1>9, <1>10, <1>11, <1>12 DEF CoStep

\* Time passes within the bounds of the pass, or while the loop waits.
LEMMA TickIInv == IInv /\ Tick => IInv'
<1> SUFFICES ASSUME IInv, Tick PROVE IInv'
  OBVIOUS
<1>1. /\ clock < Horizon /\ clock' = clock + 1
      /\ pc = "wait" \/ clock - now < MaxLag
      /\ UNCHANGED <<pending, info, index, timing, queueVars, loopVars>>
  BY DEF Tick
<1>2. Timers'
  BY <1>1, NflAssumption DEF IInv, Timers
<1>3. Queues' /\ References'
  BY <1>1, SameQueues, SameReferences DEF IInv, queueVars
<1>4. clock \in Nat /\ now \in Nat /\ MaxLag \in Nat
  BY NflAssumption DEF IInv, Timers, Times
<1>5. Times'
  BY <1>1, <1>4 DEF IInv, Times, loopVars, Armed
<1>6. SleepSafe'
  BY <1>1, <1>4 DEF IInv, Times, SleepSafe, queueVars, loopVars, Armed
<1>7. Places' /\ NoFailure' /\ NoneLeft'
  BY <1>1 DEF IInv, Places, NoFailure, NoneLeft, Alive, queueVars, loopVars
<1>8. QED
  BY <1>2, <1>3, <1>5, <1>6, <1>7 DEF IInv

\* A loop that has returned or failed, and a stuttering step, change nothing.
LEMMA StutterIInv == IInv /\ UNCHANGED vars => IInv'
<1> SUFFICES ASSUME IInv, UNCHANGED vars PROVE IInv'
  OBVIOUS
<1>1. Timers' /\ Queues' /\ References'
  BY SameTimers, SameQueues, SameReferences DEF IInv, vars, timerVars, queueVars
<1>2. Times' /\ Places' /\ NoFailure' /\ NoneLeft' /\ SleepSafe'
  BY DEF IInv, Times, Places, NoFailure, NoneLeft, SleepSafe, Armed, Alive,
         vars, timerVars, queueVars, loopVars
<1>3. QED
  BY <1>1, <1>2 DEF IInv

\* Every step keeps the invariant.
LEMMA NextIInv == IInv /\ [Next]_vars => IInv'
BY TopIInv, DrainIInv, DrainEndIInv, StartWaitIInv, WaitIInv, HandleIInv, ResumeIInv, CoIInv,
   TickIInv, StutterIInv DEF Next, Drain, Stopped

\* With one coroutine, scheduled and counted, the loop starts in the invariant.
LEMMA InitIInv == Init => IInv
<1> SUFFICES ASSUME Init PROVE IInv
  OBVIOUS
<1>1. PICK first \in Co :
        /\ status = [co \in Co |-> IF co = first THEN "suspended" ELSE "none"]
        /\ ref = {first}
        /\ runq = <<[co |-> first, by |-> "spawn"]>>
        /\ flag = [co \in Co |-> co = first]
  BY DEF Init
<1>2. Timers
  BY NflAssumption DEF Init, BagInit, Timers
<1>3. Queues
  <2>1. runq \in Seq([co : Co, by : Reason]) /\ flag \in [Co -> BOOLEAN]
    BY <1>1 DEF Reason
  <2>2. DOMAIN runq = {1} /\ runq[1].co = first
    BY <1>1
  <2>3. QED
    BY <1>1, <2>1, <2>2 DEF Queues, RunQueueSound, Queued
<1>4. References
  <2>1. IsFiniteSet(ref) /\ Cardinality(ref) = 1
    BY <1>1, FS_Singleton
  <2>2. ref = {co \in Co : Alive(co)}
    BY <1>1 DEF Alive
  <2>3. refn = 1
    BY DEF Init
  <2>4. QED
    BY <1>1, <2>1, <2>2, <2>3 DEF References, RefCount
<1>5. Times /\ Places /\ NoFailure /\ NoneLeft /\ SleepSafe
  BY NflAssumption DEF Init, BagInit, Times, Places, NoFailure, NoneLeft, SleepSafe, Never
<1>6. QED
  BY <1>2, <1>3, <1>4, <1>5 DEF IInv
-----------------------------------------------------------------------------
\* The invariant holds whatever coroutines, handlers, sockets and time do.
THEOREM Invariance == Spec => []IInv
BY InitIInv, NextIInv, PTL DEF Spec

\* The event loop is type correct.
THEOREM TypeCorrect == Spec => []TypeOK
<1>1. IInv => TypeOK
  BY DEF IInv, Timers, Queues, References, RefCount, Times, Places, TypeOK
<1>2. QED
  BY <1>1, Invariance, PTL

\* No coroutine is flagged but not queued, or queued twice: schedule() never
\* ignores a coroutine that will not run.
THEOREM RunQueue == Spec => []RunQueueSound
<1>1. IInv => RunQueueSound
  BY DEF IInv, Queues
<1>2. QED
  BY <1>1, Invariance, PTL

\* REFQUEUE holds the living coroutines and its count is their number.
THEOREM Counted == Spec => []RefCount
<1>1. IInv => RefCount
  BY DEF IInv, References
<1>2. QED
  BY <1>1, Invariance, PTL

\* The assertion in eventloop() that the count is positive holds, and
\* client_eventloop() leaves no coroutine behind.
THEOREM Complete == Spec => [](NoFailure /\ NoneLeft)
<1>1. IInv => NoFailure /\ NoneLeft
  BY DEF IInv
<1>2. QED
  BY <1>1, Invariance, PTL

\* The wait never sleeps past an armed timer, nor with a coroutine to run.
THEOREM Sleep == Spec => []SleepSafe
<1>1. IInv => SleepSafe
  BY DEF IInv
<1>2. QED
  BY <1>1, Invariance, PTL

\* A timer leaves the queue in one way only: it is due, and its coroutine is
\* scheduled then, or dead.
LEMMA StepDelivers ==
  ASSUME IInv, Next, NEW i \in Info, Armed(i), i \notin pending'
  PROVE  /\ info[i].awake <= clock
         /\ status[info[i].co] = "dead" \/ flag'[info[i].co]
<1>1. i \in pending /\ info[i].trigger /\ info[i] \in Entry
  BY DEF Armed, IInv, Timers
<1>2. DrainDue /\ \E j \in pending : Due(j) /\ Expire(j) /\ Wake(j)
  <2>1. CASE \E co \in Co : CoArm(co)
    BY <1>1, <2>1, ArmTimers DEF IInv
  <2>2. CASE DrainCancelled
    <3>1. PICK j \in pending : ~ info[j].trigger /\ Expire(j)
      BY <2>2 DEF DrainCancelled
    <3>2. QED
      BY <1>1, <3>1 DEF Expire
  <2>3. CASE DrainDue
    BY <2>3 DEF DrainDue
  <2>4. CASE UNCHANGED pending
    BY <1>1, <2>4
  <2>5. QED
    BY <2>1, <2>2, <2>3, <2>4
    DEF Next, Drain, Top, DrainEnd, StartWait, WaitReturn, WaitEvents, WaitNothing, WaitError,
        Handle, HandleEvent, HandleAccept, EndEvents, Resume, EndRun, CoStep, CoCancel, CoSpawn,
        CoKick, CoSocket, CoYield, CoEnd, Tick, Stopped, vars, timerVars
<1>3. PICK j \in pending : Due(j) /\ Expire(j) /\ Wake(j)
  BY <1>2
<1>4. j = i
  BY <1>1, <1>3 DEF Expire
<1>5. info[i].awake <= clock
  <2>1. info[i].awake <= now /\ now <= clock /\ info[i].awake \in Nat /\ now \in Nat /\ clock \in Nat
    BY <1>1, <1>3, <1>4 DEF Due, IInv, Times, Timers, Entry
  <2>2. QED
    BY <2>1
<1>6. status[info[i].co] = "dead" \/ flag'[info[i].co]
  <2>1. info[i].co \in Co /\ "timer" \in Reason
    BY <1>1 DEF Entry, Reason
  <2>2. QED
    BY <1>3, <1>4, <2>1, ScheduleQueues DEF Wake, IInv
<1>7. QED
  BY <1>5, <1>6

\* No timer is lost on the way from TOQUEUE to the run queue.
THEOREM Delivery == Spec => TimerDelivered
<1>1. IInv /\ [Next]_vars =>
        [\A i \in Info : Armed(i) /\ i \notin pending' =>
           /\ info[i].awake <= clock
           /\ status[info[i].co] = "dead" \/ flag'[info[i].co]]_vars
  BY StepDelivers
<1>2. QED
  BY <1>1, Invariance, PTL DEF Spec, TimerDelivered
-----------------------------------------------------------------------------
(* The pollset.                                                             *)

Events(files) == [fd : files, got : SUBSET {"r", "w", "hup"}]

LEMMA SameCardinality ==
  \A S : E!Cardinality(S) = Cardinality(S) /\ L!Cardinality(S) = Cardinality(S) /\ K!Cardinality(S) = Cardinality(S)
BY DEF E!Cardinality, L!Cardinality, K!Cardinality, Cardinality

LEMMA SameFinite ==
  \A S : /\ E!P!IsFiniteSet(S) <=> IsFiniteSet(S)
         /\ L!P!IsFiniteSet(S) <=> IsFiniteSet(S)
         /\ A!P!IsFiniteSet(S) <=> IsFiniteSet(S)
         /\ K!P!IsFiniteSet(S) <=> IsFiniteSet(S)
BY DEF E!P!IsFiniteSet, L!P!IsFiniteSet, A!P!IsFiniteSet, K!P!IsFiniteSet, IsFiniteSet

-----------------------------------------------------------------------------
(* epoll.                                                                  *)

\* What is on the list is there while its events are iterated, each of them of a
\* file of the set, and no file twice.
EpollList ==
  /\ list = NULL => count >= max
  /\ list # NULL => /\ phase = "events" /\ max = Len(list)
                    /\ \A k \in 1 .. max : list[k].fd \in DOMAIN kernel
                    /\ \A j, k \in 1 .. max : list[j] = list[k] => j = k

EpollInv == E!TypeOK /\ E!Agree /\ EpollList

LEMMA EpollValues ==
  ASSUME E!EpollAssumption
  PROVE  /\ IsFiniteSet(Fd.epoll) /\ NoObj \notin Obj /\ NoFd \notin Fd.epoll
         /\ Wants.epoll \subseteq (SUBSET {"r", "w"}) \ {{}}
         /\ Readiness \subseteq SUBSET {"r", "w", "hup"}
         /\ NULL \notin Seq(Events(Fd.epoll))
BY SameFinite DEF E!EpollAssumption, E!P!PollsetAssumption, Events

LEMMA EpollInit == ASSUME E!EpollAssumption, E!Init PROVE EpollInv
<1>1. E!TypeOK
  BY DEF E!Init, E!TypeOK, E!P!Unread
<1>2. E!Agree
  BY SameCardinality, FS_EmptySet DEF E!Init, E!Agree
<1>3. EpollList
  BY DEF E!Init, EpollList
<1> QED
  BY <1>1, <1>2, <1>3 DEF EpollInv

\* What wait() fills the list with.
LEMMA EpollFinds ==
  ASSUME E!EpollAssumption, EpollInv, NEW call, E!WaitFinds(call), count' = 0, UNCHANGED E!setVars
  PROVE  \E state \in [DOMAIN kernel -> Readiness] :
           LET S == E!EventsOf(state)
           IN /\ ready' = E!P!Seen(state)
              /\ list' \in Seq(Events(Fd.epoll)) /\ max' = Len(list') /\ max' \in Nat
              /\ \A k \in 1 .. max' : list'[k] \in S
              /\ \A j, k \in 1 .. max' : list'[j] = list'[k] => j = k
              /\ max' = 0 => S = {} /\ call # "block"
<1>1. PICK state \in [DOMAIN kernel -> Readiness] :
         /\ ready' = E!P!Seen(state)
         /\ list' \in E!Fill(E!EventsOf(state))
         /\ call = "block" => E!EventsOf(state) # {}
  BY DEF E!WaitFinds
<1> DEFINE S == E!EventsOf(state)
           room == IF Cardinality(S) < idx THEN Cardinality(S) ELSE idx
<1>2. IsFiniteSet(S) /\ Cardinality(S) \in Nat
  <2> DEFINE D == {g \in DOMAIN kernel : E!P!Hits(kernel[g], state[g]) # {}}
             Op(f) == E!P!EventOf(f, E!P!Hits(kernel[f], state[f]))
  <2>1. IsFiniteSet(D)
    <3>1. D \in SUBSET Fd.epoll
      BY DEF EpollInv, E!TypeOK
    <3> HIDE DEF D
    <3> QED
      BY <3>1, EpollValues, FS_Subset
  <2>2. IsFiniteSet({Op(f) : f \in D})
    <3> HIDE DEF D, Op
    <3> DEFINE T == {Op(f) : f \in D}
               op == [f \in D |-> Op(f)]
    <3>1. op \in Surjection(D, T)
      BY DEF Surjection
    <3> QED
      BY <2>1, <3>1, FS_Surjection
  <2>3. IsFiniteSet(S)
    BY <2>2 DEF E!EventsOf
  <2> QED
    BY <2>3, FS_CardinalityType
<1>3. S \subseteq Events(Fd.epoll)
  <2> SUFFICES ASSUME NEW e \in S PROVE e \in Events(Fd.epoll)
    OBVIOUS
  <2>1. PICK f \in DOMAIN kernel : e = E!P!EventOf(f, E!P!Hits(kernel[f], state[f]))
    BY DEF E!EventsOf
  <2>2. f \in Fd.epoll /\ state[f] \in SUBSET {"r", "w", "hup"}
    BY EpollValues DEF EpollInv, E!TypeOK
  <2> QED
    BY <2>1, <2>2 DEF E!P!EventOf, E!P!Hits, Events
<1>4. idx \in Nat /\ idx > 0 /\ max' = Len(list')
  BY DEF EpollInv, E!TypeOK, E!WaitFinds
<1>5. room \in Nat /\ (room = 0 => S = {})
  <2>1. Cardinality(S) = 0 => S = {}
    BY <1>2, FS_EmptySet
  <2> HIDE DEF S
  <2> QED
    BY <1>2, <1>4, <2>1
<1>6. list' \in [1 .. room -> S] /\ \A j, k \in 1 .. room : list'[j] = list'[k] => j = k
  <2>1. list' \in E!Injection(1 .. room, S)
    BY <1>1, SameCardinality DEF E!Fill
  <2> HIDE DEF S, room
  <2> QED
    BY <2>1 DEF E!Injection, E!IsInjective
<1> HIDE DEF S, room
<1>7. list' \in Seq(S) /\ Len(list') = room
  BY <1>5, <1>6
<1>8. list' \in Seq(Events(Fd.epoll))
  BY <1>3, <1>5, <1>6
<1> QED
  BY <1>1, <1>4, <1>5, <1>6, <1>7, <1>8 DEF S

\* #set is zero only where there is no file.
LEMMA EpollEmpty ==
  ASSUME E!EpollAssumption, EpollInv
  PROVE  (idx = 0 => DOMAIN kernel = {}) /\ IsFiniteSet(DOMAIN kernel)
<1>1. DOMAIN kernel \in SUBSET Fd.epoll /\ idx = Cardinality(DOMAIN kernel)
  BY SameCardinality DEF EpollInv, E!TypeOK, E!Agree
<1>2. IsFiniteSet(DOMAIN kernel)
  BY <1>1, EpollValues, FS_Subset
<1> QED
  BY <1>1, <1>2, FS_EmptySet

LEMMA EpollRegister ==
  ASSUME E!EpollAssumption, EpollInv, NEW f \in Fd.epoll, NEW w \in Wants.epoll, NEW o \in E!P!Given,
         E!Register(f, w, o), UNCHANGED <<list, max, count, ready, phase>>
  PROVE  EpollInv'
<1>1. DOMAIN kernel' = DOMAIN kernel \cup {f} /\ DOMAIN uservalue' = DOMAIN uservalue \cup {f}
  BY DEF E!Register, E!P!Put
<1>2. E!TypeOK'
  <2>1. o \in Obj \cup {NoObj}
    BY DEF E!P!Given
  <2> QED
    BY <1>1, <2>1 DEF E!Register, E!P!Put, E!Stored, EpollInv, E!TypeOK
<1>3. E!Agree'
  <2>1. Cardinality(DOMAIN kernel \cup {f}) = Cardinality(DOMAIN kernel) + 1
    BY EpollEmpty, FS_AddElement DEF E!Register
  <2> QED
    BY <1>1, <2>1, SameCardinality DEF E!Register, EpollInv, E!Agree
<1>4. EpollList'
  BY <1>1 DEF EpollInv, EpollList
<1> QED
  BY <1>2, <1>3, <1>4 DEF EpollInv

LEMMA EpollUpdate ==
  ASSUME E!EpollAssumption, EpollInv, NEW f \in Fd.epoll, NEW w \in Wants.epoll, E!Update(f, w)
  PROVE  EpollInv'
<1>1. CASE UNCHANGED <<kernel, uservalue, idx, list, max, count, ready, phase>>
  BY <1>1, SameCardinality DEF EpollInv, E!TypeOK, E!Agree, EpollList
<1>2. CASE /\ kernel' = [kernel EXCEPT ![f] = w]
           /\ UNCHANGED <<uservalue, idx, list, max, count, ready, phase>>
  <2>1. DOMAIN kernel' = DOMAIN kernel
    BY <1>2
  <2>2. E!TypeOK'
    BY <1>2, <2>1 DEF EpollInv, E!TypeOK
  <2>3. E!Agree' /\ EpollList'
    BY <1>2, <2>1, SameCardinality DEF EpollInv, E!Agree, EpollList
  <2> QED
    BY <2>2, <2>3 DEF EpollInv
<1> QED
  BY <1>1, <1>2 DEF E!Update, E!Refused, E!setVars, E!iterVars

LEMMA EpollRemove ==
  ASSUME E!EpollAssumption, EpollInv, NEW f \in Fd.epoll, E!Remove(f)
  PROVE  EpollInv'
<1>1. CASE UNCHANGED <<kernel, uservalue, idx, list, max, count, ready, phase>>
  BY <1>1, SameCardinality DEF EpollInv, E!TypeOK, E!Agree, EpollList
<1>2. CASE /\ kernel' = E!Restrict(kernel, DOMAIN kernel \ {f})
           /\ uservalue' = E!Restrict(uservalue, DOMAIN uservalue \ {f})
           /\ idx' = idx - 1
           /\ UNCHANGED <<list, max, count, ready, phase>>
  <2>1. phase = "idle" /\ f \in DOMAIN kernel
    BY DEF E!Remove, E!P!MayRemove
  <2>2. DOMAIN kernel' = DOMAIN kernel \ {f} /\ DOMAIN uservalue' = DOMAIN uservalue \ {f}
    BY <1>2 DEF E!Restrict
  <2>3. Cardinality(DOMAIN kernel \ {f}) = Cardinality(DOMAIN kernel) - 1
    BY <2>1, EpollEmpty, FS_RemoveElement
  <2>4. E!Agree'
    BY <1>2, <2>2, <2>3, SameCardinality DEF EpollInv, E!Agree
  <2>5. idx' \in Nat
    <3>1. IsFiniteSet(DOMAIN kernel')
      BY <2>1, <2>2, EpollEmpty, FS_RemoveElement
    <3> QED
      BY <2>4, <3>1, SameCardinality, FS_CardinalityType DEF E!Agree
  <2>6. E!TypeOK'
    BY <1>2, <2>2, <2>5 DEF E!Restrict, EpollInv, E!TypeOK
  <2>7. EpollList'
    BY <1>2, <2>1 DEF EpollInv, EpollList
  <2> QED
    BY <2>4, <2>6, <2>7 DEF EpollInv
<1> QED
  BY <1>1, <1>2 DEF E!Remove, E!Refused, E!setVars, E!iterVars

LEMMA EpollWait ==
  ASSUME E!EpollAssumption, EpollInv, NEW call, E!Wait(call)
  PROVE  EpollInv'
<1> USE DEF E!setVars
<1>1. UNCHANGED <<kernel, uservalue, idx>> /\ count' = 0
  BY DEF E!Wait
<1>2. E!Agree'
  BY <1>1, SameCardinality DEF EpollInv, E!Agree
<1>3. CASE E!WaitEmpty(call)
  <2>1. E!TypeOK'
    BY <1>1, <1>3 DEF E!WaitEmpty, E!P!Unread, EpollInv, E!TypeOK
  <2>2. EpollList'
    BY <1>1, <1>3 DEF E!WaitEmpty, EpollList
  <2> QED
    BY <1>2, <2>1, <2>2 DEF EpollInv
<1>4. CASE E!WaitFails(call)
  <2>1. E!TypeOK'
    BY <1>1, <1>4 DEF E!WaitFails, E!NothingFound, E!P!Unread, EpollInv, E!TypeOK
  <2>2. EpollList'
    BY <1>1, <1>4 DEF E!WaitFails, E!NothingFound, EpollList
  <2> QED
    BY <1>2, <2>1, <2>2 DEF EpollInv
<1>5. CASE E!WaitFinds(call)
  <2>1. PICK state \in [DOMAIN kernel -> Readiness] :
           LET S == E!EventsOf(state)
           IN /\ ready' = E!P!Seen(state)
              /\ list' \in Seq(Events(Fd.epoll)) /\ max' = Len(list') /\ max' \in Nat
              /\ \A k \in 1 .. max' : list'[k] \in S
              /\ \A j, k \in 1 .. max' : list'[j] = list'[k] => j = k
              /\ max' = 0 => S = {} /\ call # "block"
    BY <1>1, <1>5, EpollFinds DEF E!setVars
  <2>2. phase' = "events"
    BY <1>5 DEF E!WaitFinds
  <2>3. ready' \in [Fd.epoll -> SUBSET {"r", "w", "hup"}]
    BY <2>1, EpollValues DEF E!P!Seen
  <2>4. E!TypeOK'
    BY <1>1, <2>1, <2>2, <2>3 DEF EpollInv, E!TypeOK, Events
  <2>5. ASSUME NEW k \in 1 .. max' PROVE list'[k].fd \in DOMAIN kernel
    BY <2>1 DEF E!EventsOf, E!P!EventOf
  <2>6. list' # NULL
    BY <2>1, EpollValues
  <2>7. EpollList'
    BY <1>1, <2>1, <2>2, <2>5, <2>6 DEF EpollList
  <2> QED
    BY <1>2, <2>4, <2>7 DEF EpollInv
<1> QED
  BY <1>3, <1>4, <1>5 DEF E!Wait

LEMMA EpollTakes ==
  ASSUME E!EpollAssumption, EpollInv, E!Take \/ E!End
  PROVE  EpollInv'
<1> USE DEF E!setVars
<1>1. E!Agree'
  BY SameCardinality DEF E!Take, E!End, EpollInv, E!Agree
<1>2. E!TypeOK'
  BY DEF E!Take, E!End, E!P!Unread, EpollInv, E!TypeOK
<1>3. EpollList'
  <2>1. CASE E!Take
    BY <2>1 DEF E!Take, EpollInv, EpollList, E!TypeOK
  <2>2. CASE E!End
    BY <2>2 DEF E!End, EpollInv, EpollList
  <2> QED
    BY <2>1, <2>2
<1> QED
  BY <1>1, <1>2, <1>3 DEF EpollInv

LEMMA EpollInsert ==
  ASSUME E!EpollAssumption, EpollInv, NEW f \in Fd.epoll, NEW w \in Wants.epoll, NEW o \in E!P!Given, E!Insert(f, w, o)
  PROVE  EpollInv'
<1>1. CASE UNCHANGED <<kernel, uservalue, idx, list, max, count, ready, phase>>
  BY <1>1, SameCardinality DEF EpollInv, E!TypeOK, E!Agree, EpollList
<1> QED
  BY <1>1, EpollRegister DEF E!Insert, E!Refused, E!setVars, E!iterVars

LEMMA EpollNext ==
  ASSUME E!EpollAssumption, EpollInv, [E!Next]_(E!vars)
  PROVE  EpollInv'
<1>1. CASE UNCHANGED E!vars
  BY <1>1, SameCardinality DEF E!vars, E!setVars, E!iterVars, EpollInv, E!TypeOK, E!Agree, EpollList
<1> QED
  BY <1>1, EpollInsert, EpollUpdate, EpollRemove, EpollWait, EpollTakes DEF E!Next

-----------------------------------------------------------------------------
(* What each call of epoll's is of the set that was promised.              *)

LEMMA EpollFiles == DOMAIN E!Registered = DOMAIN kernel
BY DEF E!Registered

LEMMA EpollStarts == ASSUME E!Init PROVE E!P!Init
<1>1. E!Registered = << >>
  BY DEF E!Init, E!Registered
<1> QED
  BY <1>1 DEF E!Init, E!P!Init, E!Rest

LEMMA EpollRefused ==
  ASSUME NEW f \in Fd.epoll, NEW call \in {"insert", "update", "remove"}, E!Refused(call, f)
  PROVE  E!P!Next
<1>1. E!P!Refuse(call, f)
  BY DEF E!Refused, E!P!Refuse, E!setVars, E!iterVars, E!Registered, E!Rest
<1> QED
  BY <1>1 DEF E!P!Next

LEMMA EpollInserts ==
  ASSUME E!EpollAssumption, ~ OmitObj, EpollInv,
         NEW f \in Fd.epoll, NEW w \in Wants.epoll, NEW o \in E!P!Given, E!Insert(f, w, o)
  PROVE  E!P!Next
<1>1. CASE E!Register(f, w, o) /\ UNCHANGED <<list, max, count, ready, phase>>
  <2>1. o # NoObj
    BY EpollValues DEF E!P!Given
  <2>2. E!Registered' = E!P!Put(E!Registered, f, [want |-> w, obj |-> IF o = NoObj THEN E!P!File(f) ELSE o])
    BY <1>1, <2>1 DEF E!Register, E!P!Put, E!Registered, E!Stored, EpollInv, E!Agree
  <2>3. E!P!Insert(f, w, o)
    BY <1>1, <2>2, EpollFiles DEF E!Insert, E!Register, E!P!Insert, E!Rest
  <2> QED
    BY <2>3 DEF E!P!Next
<1> QED
  BY <1>1, EpollRefused DEF E!Insert, E!iterVars

LEMMA EpollUpdates ==
  ASSUME EpollInv, NEW f \in Fd.epoll, NEW w \in Wants.epoll, E!Update(f, w)
  PROVE  E!P!Next
<1>1. CASE /\ kernel' = [kernel EXCEPT ![f] = w]
           /\ ret' = E!P!Done("update", f, w, NoObj)
           /\ UNCHANGED <<uservalue, idx, list, max, count, ready, phase>>
  <2>1. E!Registered' = [E!Registered EXCEPT ![f].want = w]
    BY <1>1 DEF E!Registered
  <2>2. E!P!Update(f, w)
    BY <1>1, <2>1, EpollFiles DEF E!Update, E!P!Update, E!Rest
  <2> QED
    BY <2>2 DEF E!P!Next
<1> QED
  BY <1>1, EpollRefused DEF E!Update, E!iterVars

LEMMA EpollRemoves ==
  ASSUME EpollInv, NEW f \in Fd.epoll, E!Remove(f)
  PROVE  E!P!Next
<1>1. CASE /\ kernel' = E!Restrict(kernel, DOMAIN kernel \ {f})
           /\ uservalue' = E!Restrict(uservalue, DOMAIN uservalue \ {f})
           /\ ret' = E!P!Answer("remove", f, "ok")
           /\ UNCHANGED <<list, max, count, ready, phase>>
  <2>1. E!Registered' = E!P!Restrict(E!Registered, DOMAIN E!Registered \ {f})
    BY <1>1 DEF E!Registered, E!Restrict, E!P!Restrict, EpollInv, E!Agree
  <2>2. E!P!Remove(f)
    BY <1>1, <2>1, EpollFiles DEF E!Remove, E!P!Remove, E!Rest
  <2> QED
    BY <2>2 DEF E!P!Next
<1> QED
  BY <1>1, EpollRefused DEF E!Remove, E!iterVars

LEMMA EpollWaits ==
  ASSUME E!EpollAssumption, EpollInv, NEW call \in {"wait", "block"}, E!Wait(call)
  PROVE  E!P!Next
<1>1. UNCHANGED <<kernel, uservalue, idx>> /\ count' = 0
  BY DEF E!Wait, E!setVars
<1>2. E!Registered' = E!Registered
  BY <1>1 DEF E!Registered
<1>3. CASE E!WaitEmpty(call)
  <2>1. E!Rest' = {} /\ DOMAIN kernel = {}
    BY <1>3, EpollEmpty DEF E!WaitEmpty, E!Rest
  <2>2. E!Registered = << >>
    BY <2>1 DEF E!Registered
  <2>3. E!P!Wait(call)
    BY <1>2, <1>3, <2>1, <2>2 DEF E!WaitEmpty, E!P!Wait
  <2> QED
    BY <2>3 DEF E!P!Next
<1>4. CASE E!WaitFails(call)
  <2>1. E!P!WaitFails(call)
    BY <1>2, <1>4 DEF E!WaitFails, E!P!WaitFails, E!Rest
  <2> QED
    BY <2>1 DEF E!P!Next
<1>5. CASE E!WaitFinds(call)
  <2>1. PICK state \in [DOMAIN kernel -> Readiness] :
           LET S == E!EventsOf(state)
           IN /\ ready' = E!P!Seen(state)
              /\ list' \in Seq(Events(Fd.epoll)) /\ max' = Len(list') /\ max' \in Nat
              /\ \A k \in 1 .. max' : list'[k] \in S
              /\ \A j, k \in 1 .. max' : list'[j] = list'[k] => j = k
              /\ max' = 0 => S = {} /\ call # "block"
    BY <1>1, <1>5, EpollFinds DEF E!setVars
  <2> DEFINE S == E!EventsOf(state)
  <2>2. list' # NULL
    BY <2>1, EpollValues
  <2>3. E!Rest' = {list'[k] : k \in 1 .. max'}
    BY <1>1, <2>2 DEF E!Rest
  <2>4. (E!Rest' = {}) <=> (max' = 0)
    <3>1. max' # 0 => list'[1] \in E!Rest'
      BY <2>1, <2>3
    <3> QED
      BY <2>1, <2>3, <3>1
  <2>5. ASSUME NEW e \in E!Rest'
        PROVE  /\ e.fd \in DOMAIN E!Registered
               /\ e.got # {}
               /\ e.got \subseteq E!P!Hits(E!Registered[e.fd].want, ready'[e.fd])
    <3>1. e \in S
      BY <2>1, <2>3
    <3>2. PICK f \in DOMAIN kernel : e = E!P!EventOf(f, E!P!Hits(kernel[f], state[f]))
                                    /\ E!P!Hits(kernel[f], state[f]) # {}
      BY <3>1 DEF E!EventsOf
    <3>3. e.fd = f /\ e.got = E!P!Hits(kernel[f], state[f])
      BY <3>2 DEF E!P!EventOf
    <3>4. ready'[f] = state[f] /\ E!Registered[f].want = kernel[f]
      BY <2>1 DEF E!P!Seen, E!Registered, EpollInv, E!TypeOK
    <3> QED
      BY <3>2, <3>3, <3>4, EpollFiles
  <2>6. ASSUME E!Rest' = {}, NEW f \in DOMAIN E!Registered
        PROVE  E!P!Hits(E!Registered[f].want, ready'[f]) = {}
    <3>1. S = {} /\ f \in DOMAIN kernel
      BY <2>1, <2>4, <2>6, EpollFiles
    <3>2. E!P!Hits(kernel[f], state[f]) = {}
      BY <3>1 DEF E!EventsOf
    <3>3. ready'[f] = state[f] /\ E!Registered[f].want = kernel[f]
      BY <2>1, <3>1 DEF E!P!Seen, E!Registered, EpollInv, E!TypeOK
    <3> QED
      BY <3>2, <3>3
  <2>7. ret' = E!P!Answer(call, NoFd, IF E!Rest' = {} THEN "timeout" ELSE "ok") /\ phase' = "events"
    BY <1>5, <2>4 DEF E!WaitFinds
  <2>8. E!P!Wait(call)
    <3>1. E!Rest' = {} => call # "block"
      BY <2>1, <2>4
    <3> QED
      BY <1>2, <2>5, <2>6, <2>7, <3>1 DEF E!P!Wait
  <2> QED
    BY <2>8 DEF E!P!Next
<1> QED
  BY <1>3, <1>4, <1>5 DEF E!Wait

LEMMA EpollHandsOut ==
  ASSUME E!EpollAssumption, EpollInv, E!Take
  PROVE  E!P!Take
<1> DEFINE e == list[count + 1]
<1>1. /\ list # NULL /\ max = Len(list) /\ max \in Nat /\ count \in Nat /\ count < max
      /\ phase = "events" /\ count' = count + 1
      /\ UNCHANGED <<kernel, uservalue, list, max, ready, phase>>
      /\ list \in Seq(Events(Fd.epoll))
  BY DEF E!Take, E!setVars, EpollInv, EpollList, E!TypeOK, Events
<1>2. count + 1 \in count + 1 .. max /\ count + 1 \in 1 .. max
  BY <1>1
<1>3. e \in E!Rest /\ e.fd \in DOMAIN kernel
  BY <1>1, <1>2 DEF E!Rest, EpollInv, EpollList
<1>4. E!Rest' = E!Rest \ {e}
  <2>1. ASSUME NEW k \in count + 1 + 1 .. max PROVE list[k] # e
    BY <1>1, <1>2 DEF EpollInv, EpollList
  <2>2. count + 1 .. max = {count + 1} \cup (count + 1 + 1 .. max)
    BY <1>1
  <2>3. E!Rest = {e} \cup {list[k] : k \in count + 1 + 1 .. max}
    BY <1>1, <2>2 DEF E!Rest
  <2>4. E!Rest' = {list[k] : k \in count + 1 + 1 .. max}
    BY <1>1 DEF E!Rest
  <2> HIDE DEF e
  <2> QED
    BY <2>1, <2>3, <2>4
<1>5. E!Registered' = E!Registered
  BY <1>1 DEF E!Registered
<1>6. ret' = E!P!HandOut(e.fd, E!Registered[e.fd].obj, e.got)
  BY <1>3 DEF E!Take, E!Registered, EpollInv, E!Agree
<1> HIDE DEF e
<1> QED
  BY <1>1, <1>3, <1>4, <1>5, <1>6 DEF E!P!Take

LEMMA EpollEnds ==
  ASSUME E!EpollAssumption, EpollInv, E!End
  PROVE  E!P!End
<1>1. E!Registered' = E!Registered /\ E!Rest' = {}
  BY DEF E!End, E!setVars, E!Registered, E!Rest
<1>2. E!Rest = {}
  BY DEF E!End, E!Rest, EpollInv, E!TypeOK
<1> QED
  BY <1>1, <1>2 DEF E!End, E!P!End

LEMMA EpollSteps ==
  ASSUME E!EpollAssumption, ~ OmitObj, EpollInv, [E!Next]_(E!vars)
  PROVE  [E!P!Next]_(E!P!vars)
<1>1. CASE UNCHANGED E!vars
  BY <1>1 DEF E!vars, E!setVars, E!iterVars, E!P!vars, E!Registered, E!Rest
<1>2. CASE E!Take \/ E!End
  BY <1>2, EpollHandsOut, EpollEnds DEF E!P!Next
<1> QED
  BY <1>1, <1>2, EpollInserts, EpollUpdates, EpollRemoves, EpollWaits DEF E!Next

\* The parts of an epoll set stay of their types.
THEOREM EpollTypes == ASSUME E!EpollAssumption PROVE E!Spec => []E!TypeOK
<1>1. EpollInv => E!TypeOK
  BY DEF EpollInv
<1> QED
  BY EpollInit, EpollNext, <1>1, PTL DEF E!Spec

\* The kernel's interest list, the objects and #set agree on the files of an epoll
\* set, whichever calls fail.
THEOREM EpollAgrees == ASSUME E!EpollAssumption PROVE E!Spec => []E!Agree
<1>1. EpollInv => E!Agree
  BY DEF EpollInv
<1> QED
  BY EpollInit, EpollNext, <1>1, PTL DEF E!Spec

\* The iterator of an epoll set reads what epoll_wait() filled and nothing else.
THEOREM EpollListValid == ASSUME E!EpollAssumption PROVE E!Spec => []E!ListValid
<1>1. EpollInv => E!ListValid
  BY DEF EpollInv, EpollList, E!ListValid, E!TypeOK
<1> QED
  BY EpollInit, EpollNext, <1>1, PTL DEF E!Spec

\* With an object for each file, epoll does what the comment of src/pollset.c
\* promises: every event it hands out is of a registered file, for what the file
\* was wanted for and ready for, with the object it was registered with.
THEOREM EpollImplements ==
  ASSUME E!EpollAssumption, ~ OmitObj PROVE E!Spec => E!ImplementsPollset
BY EpollInit, EpollNext, EpollStarts, EpollSteps, PTL DEF E!Spec, E!ImplementsPollset, E!P!Spec

-----------------------------------------------------------------------------
(* select.                                                                 *)

\* What select() left of a file that the iterator has not passed is what the file
\* is wanted for, and the handler that may change that is of a file it has passed.
SelectLeft ==
  /\ \A f \in Fd.select : /\ interest[f] \in Wants.select \cup {{}}
                          /\ selected[f] # {} => f <= max
  /\ phase = "events" => \A f \in Fd.select :
       /\ f >= count /\ selected[f] # {} => selected[f] \subseteq interest[f]
       /\ ret.fd = f => f < count \/ selected[f] = {}

SelectInv == L!TypeOK /\ L!Agree /\ SelectLeft

LEMMA SelectValues ==
  ASSUME L!SelectAssumption
  PROVE  /\ IsFiniteSet(Fd.select) /\ NoObj \notin Obj /\ NoFd \notin Fd.select
         /\ Wants.select \subseteq (SUBSET {"r", "w"}) \ {{}}
         /\ Readiness \subseteq SUBSET {"r", "w", "hup"}
         /\ Fd.select \subseteq Nat /\ SetSize \in Nat /\ SetSize \notin Fd.select
BY SameFinite DEF L!SelectAssumption, L!P!PollsetAssumption

LEMMA SelectInit == ASSUME L!SelectAssumption, L!Init PROVE SelectInv
<1>1. L!TypeOK
  BY DEF L!Init, L!TypeOK, L!P!Unread
<1>2. L!Agree
  BY SameCardinality, FS_EmptySet DEF L!Init, L!Agree, L!Present
<1>3. SelectLeft
  BY DEF L!Init, SelectLeft
<1> QED
  BY <1>1, <1>2, <1>3 DEF SelectInv

LEMMA SelectInsert ==
  ASSUME L!SelectAssumption, ~ InsertTwice.select, SelectInv,
         NEW f \in Fd.select, NEW w \in Wants.select, NEW o \in L!P!Given, L!Insert(f, w, o)
  PROVE  SelectInv'
<1>1. interest[f] = {} /\ f \notin DOMAIN uservalue
  BY DEF L!Insert, L!P!MayInsert, L!Present, SelectInv, L!Agree
<1>2. w # {} /\ w \in SUBSET {"r", "w"} /\ f \in Nat /\ max \in Nat
  BY SelectValues DEF SelectInv, L!TypeOK
<1>3. CASE f > SetSize
  <2>1. UNCHANGED <<interest, selected, max, count, idx, uservalue, ready, phase>> /\ ret'.fd = f
    BY <1>3 DEF L!Insert, L!setVars, L!P!Answer
  <2>2. L!TypeOK' /\ L!Agree'
    BY <2>1, SameCardinality DEF SelectInv, L!TypeOK, L!Agree, L!Present
  <2>3. SelectLeft'
    BY <1>1, <1>2, <2>1 DEF SelectInv, SelectLeft, L!TypeOK
  <2> QED
    BY <2>2, <2>3 DEF SelectInv
<1>4. CASE ~ (f > SetSize)
  <2>1. /\ max' = (IF f > max THEN f ELSE max)
        /\ interest' = [interest EXCEPT ![f] = w]
        /\ uservalue' = L!P!Put(uservalue, f, IF o = NoObj THEN L!P!Number(f) ELSE o)
        /\ idx' = idx + 1
        /\ ret'.fd = f
        /\ UNCHANGED <<selected, count, ready, phase>>
    BY <1>1, <1>4 DEF L!Insert, L!P!Done, L!P!Answer
  <2>2. DOMAIN uservalue' = DOMAIN uservalue \cup {f}
    BY <2>1 DEF L!P!Put
  <2>3. L!TypeOK'
    <3>1. \A g \in DOMAIN uservalue' : uservalue'[g] \in Obj \cup {L!P!Number(g)}
      BY <2>1, <2>2 DEF L!P!Put, L!P!Given, SelectInv, L!TypeOK
    <3>2. count' \in 0 .. max' + 1 /\ max' \in Fd.select \cup {0}
      BY <1>2, <2>1 DEF SelectInv, L!TypeOK
    <3> QED
      BY <1>2, <2>1, <2>2, <3>1, <3>2 DEF SelectInv, L!TypeOK
  <2>4. Cardinality(DOMAIN uservalue \cup {f}) = Cardinality(DOMAIN uservalue) + 1
    <3>1. IsFiniteSet(DOMAIN uservalue)
      BY SelectValues, FS_Subset DEF SelectInv, L!TypeOK
    <3> QED
      BY <1>1, <3>1, FS_AddElement
  <2>5. L!Agree'
    <3>1. DOMAIN uservalue' = {g \in Fd.select : interest'[g] # {}}
      BY <1>2, <2>1, <2>2 DEF SelectInv, L!TypeOK, L!Agree, L!Present
    <3>2. \A g \in Fd.select : interest'[g] # {} => g <= max'
      BY <1>2, <2>1, SelectValues DEF SelectInv, L!TypeOK, L!Agree, L!Present
    <3> QED
      BY <2>1, <2>2, <2>4, <3>1, <3>2, SameCardinality DEF SelectInv, L!Agree, L!Present
  <2>6. SelectLeft'
    BY <1>1, <1>2, <2>1, SelectValues DEF SelectInv, SelectLeft, L!TypeOK
  <2> QED
    BY <2>3, <2>5, <2>6 DEF SelectInv
<1> QED
  BY <1>3, <1>4

LEMMA SelectUpdate ==
  ASSUME L!SelectAssumption, SelectInv, NEW f \in Fd.select, NEW w \in Wants.select, L!Update(f, w)
  PROVE  SelectInv'
<1>1. /\ interest[f] # {} /\ (phase = "idle" \/ ret.fd = f)
      /\ interest' = [interest EXCEPT ![f] = w] /\ ret'.fd = f
      /\ UNCHANGED <<selected, max, count, idx, uservalue, ready, phase>>
  BY DEF L!Update, L!P!MayUpdate, L!Present, L!P!Done, L!P!Answer
<1>2. w # {} /\ w \in SUBSET {"r", "w"}
  BY SelectValues
<1>3. L!TypeOK'
  BY <1>1, <1>2 DEF SelectInv, L!TypeOK
<1>4. L!Agree'
  BY <1>1, <1>2, SameCardinality DEF SelectInv, L!TypeOK, L!Agree, L!Present
<1>5. SelectLeft'
  BY <1>1, <1>2, SelectValues DEF SelectInv, SelectLeft, L!TypeOK
<1> QED
  BY <1>3, <1>4, <1>5 DEF SelectInv

LEMMA SelectRemove ==
  ASSUME L!SelectAssumption, SelectInv, NEW f \in Fd.select, L!Remove(f)
  PROVE  SelectInv'
<1>1. /\ interest[f] # {} /\ phase = "idle"
      /\ interest' = [interest EXCEPT ![f] = {}] /\ idx' = idx - 1
      /\ uservalue' = L!Restrict(uservalue, DOMAIN uservalue \ {f})
      /\ UNCHANGED <<selected, max, count, ready, phase>>
  BY DEF L!Remove, L!P!MayRemove, L!Present
<1>2. DOMAIN uservalue' = DOMAIN uservalue \ {f} /\ f \in DOMAIN uservalue
  BY <1>1 DEF L!Restrict, SelectInv, L!Agree, L!Present
<1>3. /\ Cardinality(DOMAIN uservalue \ {f}) = Cardinality(DOMAIN uservalue) - 1
      /\ IsFiniteSet(DOMAIN uservalue \ {f})
  <2>1. IsFiniteSet(DOMAIN uservalue)
    BY SelectValues, FS_Subset DEF SelectInv, L!TypeOK
  <2> QED
    BY <1>2, <2>1, FS_RemoveElement
<1>4. L!Agree'
  BY <1>1, <1>2, <1>3, SameCardinality DEF SelectInv, L!TypeOK, L!Agree, L!Present
<1>5. idx' \in Nat
  BY <1>2, <1>3, <1>4, SameCardinality, FS_CardinalityType DEF L!Agree
<1>6. L!TypeOK'
  BY <1>1, <1>2, <1>5 DEF L!Restrict, SelectInv, L!TypeOK
<1>7. SelectLeft'
  BY <1>1 DEF SelectInv, SelectLeft, L!TypeOK
<1> QED
  BY <1>4, <1>6, <1>7 DEF SelectInv

LEMMA SelectWait ==
  ASSUME L!SelectAssumption, SelectInv, NEW call, L!Wait(call)
  PROVE  SelectInv'
<1>1. UNCHANGED <<interest, max, idx, uservalue>> /\ count' = 0
  BY DEF L!Wait, L!setVars
<1>2. L!Agree'
  BY <1>1, SameCardinality DEF SelectInv, L!Agree, L!Present
<1>3. CASE L!WaitFinds(call)
  <2>1. PICK state \in [{f \in Fd.select : L!Present(f)} -> Readiness] :
           /\ ready' = L!P!Seen(state)
           /\ selected' = [f \in Fd.select |-> interest[f] \cap ready'[f]]
    BY <1>3 DEF L!WaitFinds
  <2>2. ready' \in [Fd.select -> SUBSET {"r", "w", "hup"}] /\ phase' = "events" /\ ret'.fd = NoFd
    BY <1>3, <2>1, SelectValues DEF L!P!Seen, L!WaitFinds, L!P!Answer
  <2>3. L!TypeOK'
    BY <1>1, <2>1, <2>2, SelectValues DEF SelectInv, L!TypeOK
  <2>4. SelectLeft'
    BY <1>1, <2>1, <2>2, SelectValues DEF SelectInv, SelectLeft, L!TypeOK, L!Agree, L!Present
  <2> QED
    BY <1>2, <2>3, <2>4 DEF SelectInv
<1>4. CASE L!WaitFails(call)
  <2>1. L!TypeOK'
    BY <1>1, <1>4, SelectValues DEF L!WaitFails, L!P!Unread, SelectInv, L!TypeOK
  <2>2. SelectLeft'
    BY <1>1, <1>4 DEF L!WaitFails, SelectInv, SelectLeft, L!TypeOK, L!Agree, L!Present
  <2> QED
    BY <1>2, <2>1, <2>2 DEF SelectInv
<1> QED
  BY <1>3, <1>4 DEF L!Wait

LEMMA SelectTakes ==
  ASSUME L!SelectAssumption, SelectInv, L!Take \/ L!End
  PROVE  SelectInv'
<1>1. UNCHANGED <<interest, selected, max, idx, uservalue>>
  BY DEF L!Take, L!End, L!setVars
<1>2. L!Agree'
  BY <1>1, SameCardinality DEF SelectInv, L!Agree, L!Present
<1>3. CASE L!Take
  <2>1. PICK f \in Fd.select : L!Hit(f) /\ ret'.fd = f /\ count' = f + 1 /\ UNCHANGED <<ready, phase>>
    BY <1>3 DEF L!Take, L!P!HandOut
  <2>2. f <= max /\ f >= count /\ f \in Nat /\ max \in Nat /\ count \in Nat
    BY <2>1, SelectValues DEF L!Hit, SelectInv, L!TypeOK
  <2>3. L!TypeOK'
    BY <1>1, <2>1, <2>2 DEF SelectInv, L!TypeOK
  <2>4. SelectLeft'
    BY <1>1, <2>1, <2>2, SelectValues DEF SelectInv, SelectLeft
  <2> QED
    BY <1>2, <2>3, <2>4 DEF SelectInv
<1>4. CASE L!End
  <2>1. L!TypeOK'
    BY <1>1, <1>4, SelectValues DEF L!End, L!P!Unread, SelectInv, L!TypeOK
  <2>2. SelectLeft'
    BY <1>1, <1>4 DEF L!End, SelectInv, SelectLeft
  <2> QED
    BY <1>2, <2>1, <2>2 DEF SelectInv
<1> QED
  BY <1>3, <1>4

LEMMA SelectNext ==
  ASSUME L!SelectAssumption, ~ InsertTwice.select, SelectInv, [L!Next]_(L!vars)
  PROVE  SelectInv'
<1>1. CASE UNCHANGED L!vars
  BY <1>1, SameCardinality DEF L!vars, L!setVars, SelectInv, L!TypeOK, L!Agree, L!Present, SelectLeft
<1> QED
  BY <1>1, SelectInsert, SelectUpdate, SelectRemove, SelectWait, SelectTakes DEF L!Next

-----------------------------------------------------------------------------
(* What each call of select's is of the set that was promised.             *)

LEMMA SelectFiles == DOMAIN L!Registered = {f \in Fd.select : interest[f] # {}}
BY DEF L!Registered

LEMMA SelectStarts == ASSUME L!Init PROVE L!P!Init
<1>1. L!Registered = << >>
  BY DEF L!Init, L!Registered
<1> QED
  BY <1>1 DEF L!Init, L!P!Init, L!Rest

LEMMA SelectRefused ==
  ASSUME NEW f \in Fd.select, NEW call \in {"insert", "update", "remove"}, ret' = L!P!Answer(call, f, "error"),
         UNCHANGED <<interest, selected, max, count, uservalue, ready, phase>>
  PROVE  L!P!Next
<1>1. L!P!Refuse(call, f)
  BY DEF L!P!Refuse, L!Registered, L!Rest, L!ObjOf
<1> QED
  BY <1>1 DEF L!P!Next

LEMMA SelectInserts ==
  ASSUME L!SelectAssumption, ~ OmitObj, ~ InsertTwice.select, SelectInv,
         NEW f \in Fd.select, NEW w \in Wants.select, NEW o \in L!P!Given, L!Insert(f, w, o)
  PROVE  L!P!Next
<1>1. interest[f] = {}
  BY DEF L!Insert, L!P!MayInsert, L!Present
<1>2. CASE f > SetSize
  BY <1>2, SelectRefused DEF L!Insert, L!setVars
<1>3. CASE ~ (f > SetSize)
  <2>1. o # NoObj
    BY SelectValues DEF L!P!Given
  <2>2. /\ interest' = [interest EXCEPT ![f] = w]
        /\ uservalue' = L!P!Put(uservalue, f, o)
        /\ ret' = L!P!Done("insert", f, w, o)
        /\ UNCHANGED <<selected, count, ready, phase>>
        /\ L!P!MayInsert(f, FALSE)
    BY <1>1, <1>3, <2>1 DEF L!Insert, L!Present
  <2>3. L!Registered' = L!P!Put(L!Registered, f, [want |-> w, obj |-> IF o = NoObj THEN L!P!File(f) ELSE o])
    BY <2>1, <2>2, SelectValues DEF L!P!Put, L!Registered, L!ObjOf, SelectInv, L!TypeOK, L!Agree, L!Present
  <2>4. L!P!Insert(f, w, o)
    BY <1>1, <2>2, <2>3, SelectFiles DEF L!P!Insert, L!P!MayInsert, L!Rest
  <2> QED
    BY <2>4 DEF L!P!Next
<1> QED
  BY <1>2, <1>3

LEMMA SelectUpdates ==
  ASSUME L!SelectAssumption, SelectInv, NEW f \in Fd.select, NEW w \in Wants.select, L!Update(f, w)
  PROVE  L!P!Next
<1>1. L!Registered' = [L!Registered EXCEPT ![f].want = w]
  <2>1. interest' = [interest EXCEPT ![f] = w] /\ uservalue' = uservalue /\ interest[f] # {} /\ w # {}
    BY SelectValues DEF L!Update, L!P!MayUpdate, L!Present
  <2>2. {g \in Fd.select : interest'[g] # {}} = {g \in Fd.select : interest[g] # {}}
    BY <2>1 DEF SelectInv, L!TypeOK
  <2>3. f \in DOMAIN L!Registered /\ L!Registered[f] = [want |-> interest[f], obj |-> L!ObjOf(f)]
    BY <2>1 DEF L!Registered
  <2> QED
    BY <2>1, <2>2, <2>3 DEF L!Registered, L!ObjOf, SelectInv, L!TypeOK
<1>2. f \in DOMAIN L!Registered
  BY SelectFiles DEF L!Update, L!P!MayUpdate, L!Present
<1>3. L!P!Update(f, w)
  BY <1>1, <1>2 DEF L!Update, L!P!Update, L!P!MayUpdate, L!Rest
<1> QED
  BY <1>3 DEF L!P!Next

LEMMA SelectRemoves ==
  ASSUME SelectInv, NEW f \in Fd.select, L!Remove(f)
  PROVE  L!P!Next
<1>1. L!Registered' = L!P!Restrict(L!Registered, DOMAIN L!Registered \ {f})
  BY DEF L!Remove, L!Registered, L!ObjOf, L!Restrict, L!P!Restrict, SelectInv, L!TypeOK, L!Agree, L!Present
<1>2. f \in DOMAIN L!Registered
  BY SelectFiles DEF L!Remove, L!P!MayRemove, L!Present
<1>3. L!P!Remove(f)
  BY <1>1, <1>2 DEF L!Remove, L!P!Remove, L!P!MayRemove, L!Rest
<1> QED
  BY <1>3 DEF L!P!Next

LEMMA SelectWaits ==
  ASSUME L!SelectAssumption, HungUpIsReady, SelectInv, NEW call \in {"wait", "block"}, L!Wait(call)
  PROVE  L!P!Next
<1>1. UNCHANGED <<interest, max, idx, uservalue>> /\ count' = 0
  BY DEF L!Wait, L!setVars
<1>2. L!Registered' = L!Registered
  BY <1>1 DEF L!Registered, L!ObjOf
<1>3. CASE L!WaitFails(call)
  <2>1. L!P!WaitFails(call)
    BY <1>2, <1>3 DEF L!WaitFails, L!P!WaitFails, L!Rest
  <2> QED
    BY <2>1 DEF L!P!Next
<1>4. CASE L!WaitFinds(call)
  <2>1. PICK state \in [{f \in Fd.select : L!Present(f)} -> Readiness] :
           /\ ready' = L!P!Seen(state)
           /\ selected' = [f \in Fd.select |-> interest[f] \cap ready'[f]]
    BY <1>4 DEF L!WaitFinds
  <2>2. L!Rest' = {[fd |-> f, got |-> selected'[f]] : f \in {g \in Fd.select : selected'[g] # {}}}
    <3>1. phase' = "events" /\ count' = 0
      BY <1>1, <1>4 DEF L!WaitFinds
    <3>2. \A g \in Fd.select : g >= count'
      BY <3>1, SelectValues
    <3>3. {g \in Fd.select : g >= count' /\ selected'[g] # {}} = {g \in Fd.select : selected'[g] # {}}
      BY <3>2, Zenon
    <3> QED
      BY <3>1, <3>3, Zenon DEF L!Rest
  <2>3. (L!Rest' = {}) <=> \A f \in Fd.select : selected'[f] = {}
    BY <2>2
  <2>4. ASSUME NEW e \in L!Rest'
        PROVE  /\ e.fd \in DOMAIN L!Registered
               /\ e.got # {}
               /\ e.got \subseteq L!P!Hits(L!Registered[e.fd].want, ready'[e.fd])
    <3>1. PICK f \in Fd.select : e = [fd |-> f, got |-> selected'[f]] /\ selected'[f] # {}
      BY <2>2, Zenon
    <3>2. e.fd = f /\ e.got = interest[f] \cap ready'[f] /\ e.got # {}
      BY <2>1, <3>1
    <3> QED
      BY <3>2 DEF L!Registered, L!P!Hits
  <2>5. ASSUME L!Rest' = {}, NEW f \in DOMAIN L!Registered
        PROVE  L!P!Hits(L!Registered[f].want, ready'[f]) = {}
    <3>1. f \in Fd.select /\ interest[f] # {} /\ L!Registered[f].want = interest[f]
      BY SelectFiles DEF L!Registered
    <3>2. interest[f] \cap ready'[f] = {}
      BY <2>1, <2>3, <2>5, <3>1
    <3>3. ready'[f] \in Readiness
      BY <2>1, <3>1 DEF L!P!Seen, L!Present
    <3>4. interest[f] \in SUBSET {"r", "w"}
      BY <3>1 DEF SelectInv, L!TypeOK
    <3> QED
      BY <3>1, <3>2, <3>3, <3>4 DEF L!P!Hits, HungUpIsReady
  <2>6. L!P!Wait(call)
    BY <1>2, <1>4, <2>3, <2>4, <2>5 DEF L!WaitFinds, L!P!Wait
  <2> QED
    BY <2>6 DEF L!P!Next
<1> QED
  BY <1>3, <1>4 DEF L!Wait

LEMMA SelectHandsOut ==
  ASSUME L!SelectAssumption, OneWanted, SelectInv, L!Take
  PROVE  L!P!Take
<1>1. PICK f \in Fd.select : /\ L!Hit(f)
                             /\ \A g \in Fd.select : g < f => ~ L!Hit(g)
                             /\ ret' = L!P!HandOut(f, L!ObjOf(f), interest[f])
                             /\ count' = f + 1
  BY DEF L!Take
<1>2. /\ phase = "events" /\ f \in Nat /\ count \in Nat /\ f >= count /\ selected[f] # {}
      /\ UNCHANGED <<interest, selected, max, uservalue, ready, phase>>
  BY <1>1, SelectValues DEF L!Take, L!Hit, L!setVars, SelectInv, L!TypeOK
<1> DEFINE e == [fd |-> f, got |-> selected[f]]
<1>3. e \in L!Rest
  BY <1>2 DEF L!Rest
<1>4. selected[f] = interest[f]
  <2>1. selected[f] \subseteq interest[f] /\ interest[f] \in Wants.select \cup {{}}
    BY <1>2 DEF SelectInv, SelectLeft
  <2>2. interest[f] \in Wants.select /\ selected[f] # {}
    BY <1>2, <2>1
  <2>3. \E x \in {"r", "w"} : interest[f] = {x}
    BY <2>2, Zenon DEF OneWanted
  <2> QED
    BY <2>1, <2>2, <2>3
<1>5. L!Rest' = L!Rest \ {e}
  <2>1. \A g \in Fd.select : g \in Nat /\ (g >= count /\ selected[g] # {} => g >= f)
    BY <1>1, <1>2, SelectValues DEF L!Hit, SelectInv, SelectLeft, L!TypeOK
  <2>2. {g \in Fd.select : g >= f + 1 /\ selected[g] # {}} = {g \in Fd.select : g >= count /\ selected[g] # {}} \ {f}
    <3>1. \A g \in Fd.select : (g >= f + 1 /\ selected[g] # {}) <=> (g >= count /\ selected[g] # {} /\ g # f)
      BY <1>2, <2>1
    <3> QED
      BY <3>1
  <2> QED
    BY <1>1, <1>2, <2>2 DEF L!Rest
<1>6. L!Registered' = L!Registered
  BY <1>2 DEF L!Registered, L!ObjOf
<1>7. ret' = L!P!HandOut(e.fd, L!Registered[e.fd].obj, e.got)
  BY <1>1, <1>2, <1>4 DEF L!Registered
<1> QED
  BY <1>2, <1>3, <1>5, <1>6, <1>7 DEF L!P!Take

LEMMA SelectEnds ==
  ASSUME L!SelectAssumption, SelectInv, L!End
  PROVE  L!P!End
<1>1. L!Registered' = L!Registered /\ L!Rest' = {}
  BY DEF L!End, L!setVars, L!Registered, L!ObjOf, L!Rest
<1>2. L!Rest = {}
  BY SelectValues DEF L!End, L!Hit, L!Rest, SelectInv, SelectLeft, L!TypeOK
<1> QED
  BY <1>1, <1>2 DEF L!End, L!P!End

LEMMA SelectSteps ==
  ASSUME L!SelectAssumption, ~ OmitObj, ~ InsertTwice.select, OneWanted, HungUpIsReady,
         SelectInv, [L!Next]_(L!vars)
  PROVE  [L!P!Next]_(L!P!vars)
<1>1. CASE UNCHANGED L!vars
  BY <1>1 DEF L!vars, L!setVars, L!P!vars, L!Registered, L!ObjOf, L!Rest
<1>2. CASE L!Take \/ L!End
  BY <1>2, SelectHandsOut, SelectEnds DEF L!P!Next
<1> QED
  BY <1>1, <1>2, SelectInserts, SelectUpdates, SelectRemoves, SelectWaits DEF L!Next

\* The parts of a select set stay of their types.
THEOREM SelectTypes ==
  ASSUME L!SelectAssumption, ~ InsertTwice.select PROVE L!Spec => []L!TypeOK
<1>1. SelectInv => L!TypeOK
  BY DEF SelectInv
<1> QED
  BY SelectInit, SelectNext, <1>1, PTL DEF L!Spec

\* The descriptor sets, the objects and #set agree on the files of a select set,
\* and its iterator does not end before one of them, if no file is inserted twice.
THEOREM SelectAgrees ==
  ASSUME L!SelectAssumption, ~ InsertTwice.select PROVE L!Spec => []L!Agree
<1>1. SelectInv => L!Agree
  BY DEF SelectInv
<1> QED
  BY SelectInit, SelectNext, <1>1, PTL DEF L!Spec

\* For callers that want one event at a time, as those of lua/nfl.lua do, and
\* handlers that may insert files and update their own, select does what the
\* comment of src/pollset.c promises.
THEOREM SelectImplements ==
  ASSUME L!SelectAssumption, ~ OmitObj, ~ InsertTwice.select, OneWanted, HungUpIsReady
  PROVE  L!Spec => L!ImplementsPollset
BY SelectInit, SelectNext, SelectStarts, SelectSteps, PTL DEF L!Spec, L!ImplementsPollset, L!P!Spec

-----------------------------------------------------------------------------
(* poll.                                                                   *)

PollInv == A!TypeOK /\ A!Agree

PollEntry == [fd : Fd.poll \cup {NoFd}, want : Wants.poll \cup {{}}, got : SUBSET {"r", "w", "hup"}]

LEMMA SequenceOf == \A n \in Nat : \A s \in [1 .. n -> PollEntry] : s \in Seq(PollEntry) /\ Len(s) = n
OBVIOUS

LEMMA PollValues ==
  ASSUME A!PollAssumption
  PROVE  /\ IsFiniteSet(Fd.poll) /\ NoObj \notin Obj /\ NoFd \notin Fd.poll
         /\ Wants.poll \subseteq (SUBSET {"r", "w"}) \ {{}}
         /\ Readiness \subseteq SUBSET {"r", "w", "hup"}
         /\ Chunk \in Nat /\ Chunk >= 1 /\ Rlimit \in Nat
         /\ Junk \subseteq SUBSET {"r", "w", "hup"}
BY SameFinite DEF A!PollAssumption, A!P!PollsetAssumption

LEMMA PollNumbers ==
  ASSUME PollInv
  PROVE  /\ set \in Seq(PollEntry) /\ Len(set) \in Nat /\ DOMAIN set = 1 .. Len(set)
         /\ idx \in Nat /\ idx <= Len(set) /\ count \in Nat /\ count <= Len(set)
         /\ \A k \in 1 .. Len(set) : set[k] \in PollEntry
         /\ \A k \in 1 .. idx : k \in 1 .. Len(set) /\ set[k] \in PollEntry /\ set[k].fd \in Fd.poll
<1>1. set \in Seq(PollEntry) /\ idx \in 0 .. Len(set) /\ count \in 0 .. Len(set)
  BY DEF PollInv, A!TypeOK, PollEntry
<1>2. Len(set) \in Nat /\ DOMAIN set = 1 .. Len(set) /\ \A k \in 1 .. Len(set) : set[k] \in PollEntry
  BY <1>1
<1>3. idx \in Nat /\ idx <= Len(set) /\ count \in Nat /\ count <= Len(set)
  BY <1>1, <1>2
<1>4. \A k \in 1 .. idx : k \in 1 .. Len(set)
  BY <1>2, <1>3
<1>5. \A k \in 1 .. idx : set[k].fd \in Fd.poll
  BY DEF PollInv, A!TypeOK, A!Agree
<1> QED
  BY <1>1, <1>2, <1>3, <1>4, <1>5

\* Which entry is a file's.
Slots == \A k \in 1 .. idx : A!Slot(set[k].fd) = k

LEMMA PollSlots == PollInv => Slots
<1> SUFFICES ASSUME PollInv, NEW k \in 1 .. idx PROVE A!Slot(set[k].fd) = k
  BY DEF Slots
<1>1. \A j \in 1 .. k - 1 : j \in 1 .. idx /\ j # k
  BY PollNumbers
<1>2. \A j \in 1 .. k - 1 : set[j].fd # set[k].fd
  BY <1>1 DEF PollInv, A!Agree
<1>3. \E n \in 1 .. idx : set[n].fd = set[k].fd /\ \A j \in 1 .. n - 1 : set[j].fd # set[k].fd
  BY <1>2
<1>4. A!Slot(set[k].fd) \in 1 .. idx /\ set[A!Slot(set[k].fd)].fd = set[k].fd
  BY <1>3 DEF A!Slot
<1> QED
  BY <1>4 DEF PollInv, A!Agree

LEMMA PollSlotsNext == PollInv' => Slots'
BY PollSlots, PTL

LEMMA PollSlotOf ==
  ASSUME PollInv, NEW f, A!Present(f)
  PROVE  A!Slot(f) \in 1 .. idx /\ set[A!Slot(f)].fd = f
BY PollSlots DEF Slots, A!Present

LEMMA PollInit == ASSUME A!PollAssumption, A!Init PROVE PollInv
<1>1. A!TypeOK
  BY PollValues DEF A!Init, A!TypeOK, A!P!Unread
<1>2. A!Agree
  BY DEF A!Init, A!Agree
<1> QED
  BY <1>1, <1>2 DEF PollInv

\* The array that insert() makes: the entries in use, and one more.
LEMMA PollGrows ==
  ASSUME A!PollAssumption, PollInv, NEW f \in Fd.poll, NEW w \in Wants.poll,
         A!Full => Len(set) # Rlimit,
         NEW new \in A!Grown, set' = [new EXCEPT ![idx + 1].fd = f, ![idx + 1].want = w]
  PROVE  /\ set' \in Seq(PollEntry) /\ Len(set') <= Rlimit /\ Len(set) <= Len(set')
         /\ idx + 1 \in 1 .. Len(set')
         /\ \A k \in 1 .. idx : set'[k] = set[k]
         /\ set'[idx + 1].fd = f /\ set'[idx + 1].want = w
<1>1. Len(set) <= Rlimit
  BY DEF PollInv, A!TypeOK
<1>2. /\ new \in Seq(PollEntry) /\ Len(new) <= Rlimit /\ Len(set) <= Len(new)
      /\ idx + 1 <= Len(new) /\ \A k \in 1 .. idx : new[k] = set[k]
  <2>1. CASE ~ A!Full
    BY <1>1, <2>1, PollNumbers DEF A!Grown, A!Full
  <2>2. CASE A!Full
    <3>1. A!NewLen \in Nat /\ A!NewLen <= Rlimit /\ Len(set) < A!NewLen
      BY <1>1, <2>2, PollNumbers, PollValues DEF A!NewLen
    <3>2. PICK junk \in Junk :
             new = [k \in 1 .. A!NewLen |-> IF k <= Len(set) THEN set[k]
                      ELSE [fd |-> NoFd, want |-> {}, got |-> junk]]
      BY <2>2 DEF A!Grown
    <3>3. [fd |-> NoFd, want |-> {}, got |-> junk] \in PollEntry
      BY PollValues DEF PollEntry
    <3>4. \A k \in 1 .. A!NewLen : new[k] \in PollEntry
      BY <3>1, <3>2, <3>3, PollNumbers
    <3>5. new \in Seq(PollEntry) /\ Len(new) = A!NewLen
      <4>1. new \in [1 .. A!NewLen -> PollEntry]
        BY <3>2, <3>4
      <4> QED
        BY <3>1, <4>1, SequenceOf
    <3>6. \A k \in 1 .. idx : new[k] = set[k]
      BY <3>1, <3>2, PollNumbers
    <3>7. idx + 1 <= Len(new)
      BY <2>2, <3>1, <3>5, PollNumbers DEF A!Full
    <3> QED
      BY <3>1, <3>5, <3>6, <3>7, PollNumbers
  <2> QED
    BY <2>1, <2>2
<1>3. idx + 1 \in 1 .. Len(new) /\ idx \in Nat
  BY <1>2, PollNumbers
<1>4. DOMAIN set' = 1 .. Len(new) /\ \A k \in 1 .. Len(new) : k # idx + 1 => set'[k] = new[k]
  BY <1>2, <1>3
<1>5. new[idx + 1] \in PollEntry
  BY <1>2, <1>3
<1>6. set'[idx + 1] \in PollEntry /\ set'[idx + 1].fd = f /\ set'[idx + 1].want = w
  <2> DEFINE n == idx + 1
             mid == [new EXCEPT ![n].fd = f]
  <2>1. n \in DOMAIN new
    BY <1>2, <1>3
  <2>2. mid[n] = [new[n] EXCEPT !.fd = f] /\ n \in DOMAIN mid
    BY <2>1
  <2>3. mid[n].fd = f /\ mid[n] \in PollEntry
    BY <1>5, <2>2 DEF PollEntry
  <2>4. set' = [mid EXCEPT ![n].want = w]
    OBVIOUS
  <2> HIDE DEF mid, n
  <2>5. set'[n] = [mid[n] EXCEPT !.want = w]
    BY <2>2, <2>4
  <2>6. set'[n].fd = f /\ set'[n].want = w /\ set'[n] \in PollEntry
    BY <2>3, <2>5 DEF PollEntry
  <2> QED
    BY <2>6 DEF n
<1>7. set' \in Seq(PollEntry) /\ Len(set') = Len(new)
  BY <1>2, <1>3, <1>4, <1>6
<1> QED
  BY <1>2, <1>3, <1>4, <1>6, <1>7

LEMMA PollInsert ==
  ASSUME A!PollAssumption, ~ InsertTwice.poll, PollInv,
         NEW f \in Fd.poll, NEW w \in Wants.poll, NEW o \in A!P!Given, A!Insert(f, w, o)
  PROVE  PollInv'
<1>1. CASE A!Refused("insert", f)
  BY <1>1 DEF A!Refused, A!setVars, PollInv, A!TypeOK, A!Agree
<1>2. CASE \E new \in A!Grown :
             /\ A!Full => Len(set) # Rlimit
             /\ set' = [new EXCEPT ![idx + 1].fd = f, ![idx + 1].want = w]
             /\ idx' = idx + 1
             /\ uservalue' = A!P!Put(uservalue, f, IF o = NoObj THEN A!P!Number(f) ELSE o)
             /\ UNCHANGED <<count, ready, phase>>
  <2>1. /\ set' \in Seq(PollEntry) /\ Len(set') <= Rlimit /\ Len(set) <= Len(set')
        /\ idx + 1 \in 1 .. Len(set')
        /\ \A k \in 1 .. idx : set'[k] = set[k]
        /\ set'[idx + 1].fd = f /\ set'[idx + 1].want = w
    BY <1>2, PollGrows
  <2>2. \A k \in 1 .. idx : set[k].fd # f
    BY DEF A!Insert, A!P!MayInsert, A!Present
  <2>3. 1 .. idx' = (1 .. idx) \cup {idx + 1}
    BY <1>2, PollNumbers
  <2>4. DOMAIN uservalue' = DOMAIN uservalue \cup {f}
    BY <1>2 DEF A!P!Put
  <2>5. A!TypeOK'
    <3>1. \A g \in DOMAIN uservalue' : uservalue'[g] \in Obj \cup {A!P!Number(g)}
      BY <1>2, <2>4 DEF A!P!Put, A!P!Given, PollInv, A!TypeOK
    <3>2. idx' \in 0 .. Len(set') /\ count' \in 0 .. Len(set')
      BY <1>2, <2>1, PollNumbers
    <3> QED
      BY <1>2, <2>1, <2>4, <3>1, <3>2 DEF PollInv, A!TypeOK, PollEntry
  <2>6. A!Agree'
    <3>1. {set'[k].fd : k \in 1 .. idx'} = {set[k].fd : k \in 1 .. idx} \cup {f}
      BY <2>1, <2>3
    <3>2. ASSUME NEW j \in 1 .. idx', NEW k \in 1 .. idx', set'[j].fd = set'[k].fd PROVE j = k
      BY <2>1, <2>2, <2>3, <3>2 DEF PollInv, A!Agree
    <3> QED
      BY <2>4, <3>1, <3>2 DEF PollInv, A!Agree
  <2> QED
    BY <2>5, <2>6 DEF PollInv
<1> QED
  BY <1>1, <1>2 DEF A!Insert

LEMMA PollUpdate ==
  ASSUME A!PollAssumption, PollInv, NEW f \in Fd.poll, NEW w \in Wants.poll, A!Update(f, w)
  PROVE  /\ PollInv'
         /\ \A k \in 1 .. idx : /\ set'[k].fd = set[k].fd /\ set'[k].got = set[k].got
                               /\ set'[k].want = IF set[k].fd = f THEN w ELSE set[k].want
<1> DEFINE i == A!Slot(f)
<1>1. i \in 1 .. idx /\ set[i].fd = f
  BY PollSlotOf DEF A!Update, A!P!MayUpdate
<1>2. set' = [set EXCEPT ![i].want = w] /\ UNCHANGED <<idx, uservalue, count, ready, phase>>
  BY DEF A!Update
<1> HIDE DEF i
<1>3. i \in 1 .. Len(set) /\ set[i] \in PollEntry
  BY <1>1, PollNumbers
<1>4. DOMAIN set' = 1 .. Len(set) /\ \A k \in 1 .. Len(set) : k # i => set'[k] = set[k]
  BY <1>2, <1>3, PollNumbers
<1>5. set'[i] \in PollEntry /\ set'[i].fd = f /\ set'[i].want = w /\ set'[i].got = set[i].got
  BY <1>1, <1>2, <1>3, PollNumbers DEF PollEntry
<1>6. set' \in Seq(PollEntry) /\ Len(set') = Len(set)
  <2>1. set' \in [1 .. Len(set) -> PollEntry]
    BY <1>2, <1>3, <1>4, <1>5, PollNumbers
  <2> QED
    BY <2>1, PollNumbers, SequenceOf
<1>7. A!TypeOK'
  BY <1>2, <1>6 DEF PollInv, A!TypeOK, PollEntry
<1>8. \A k \in 1 .. idx : set'[k].fd = set[k].fd
  BY <1>1, <1>4, <1>5, PollNumbers
<1>9. A!Agree'
  BY <1>2, <1>8 DEF PollInv, A!Agree
<1>10. \A k \in 1 .. idx : set[k].fd = f => k = i
  BY <1>1 DEF PollInv, A!Agree
<1> QED
  BY <1>1, <1>4, <1>5, <1>7, <1>8, <1>9, <1>10, PollNumbers DEF PollInv

\* What memmove() leaves: the entries before the removed one, and those behind it
\* one place earlier.
LEMMA PollMoves ==
  ASSUME PollInv, NEW i \in 1 .. idx, set' = A!Moved(i), idx' = idx - 1
  PROVE  /\ set' \in Seq(PollEntry) /\ Len(set') = Len(set) /\ idx' \in Nat
         /\ \A k \in 1 .. idx' : \E n \in 1 .. idx : n # i /\ set'[k] = set[n]
         /\ \A n \in 1 .. idx : n # i => \E k \in 1 .. idx' : set'[k] = set[n]
         /\ \A j, k \in 1 .. idx' : set'[j].fd = set'[k].fd => j = k
<1> DEFINE From(k) == IF k < i THEN k ELSE k + 1
<1>1. i \in Nat /\ 1 <= i /\ i <= idx /\ idx' \in Nat /\ idx \in Nat /\ idx <= Len(set) /\ Len(set) \in Nat
  BY PollNumbers
<1>2. \A k \in 1 .. Len(set) : set'[k] = IF k \in i .. idx - 1 THEN set[k + 1] ELSE set[k]
  BY PollNumbers DEF A!Moved
<1>3. \A k \in 1 .. idx' : From(k) \in 1 .. idx /\ From(k) # i /\ set'[k] = set[From(k)]
  BY <1>1, <1>2
<1>4. ASSUME NEW n \in 1 .. idx, n # i PROVE \E k \in 1 .. idx' : From(k) = n
  <2>1. CASE n < i
    BY <1>1, <2>1
  <2>2. CASE ~ (n < i)
    <3>1. n - 1 \in 1 .. idx' /\ From(n - 1) = n
      BY <1>1, <1>4, <2>2
    <3> QED
      BY <3>1
  <2> QED
    BY <2>1, <2>2
<1>5. ASSUME NEW j \in 1 .. idx', NEW k \in 1 .. idx', From(j) = From(k) PROVE j = k
  BY <1>1, <1>5
<1>6. set' \in Seq(PollEntry) /\ Len(set') = Len(set)
  <2>1. \A k \in 1 .. Len(set) : k \in i .. idx - 1 => k + 1 \in 1 .. Len(set)
    BY <1>1
  <2>2. \A k \in 1 .. Len(set) : set'[k] \in PollEntry
    BY <1>2, <2>1, PollNumbers
  <2>3. set' \in [1 .. Len(set) -> PollEntry]
    BY <2>2, PollNumbers DEF A!Moved
  <2> QED
    BY <1>1, <2>3, SequenceOf
<1> HIDE DEF From
<1>7. ASSUME NEW j \in 1 .. idx', NEW k \in 1 .. idx', set'[j].fd = set'[k].fd PROVE j = k
  <2>1. From(j) = From(k)
    BY <1>3, <1>7 DEF PollInv, A!Agree
  <2> QED
    BY <1>5, <2>1
<1> QED
  BY <1>1, <1>3, <1>4, <1>6, <1>7

LEMMA PollRemove ==
  ASSUME A!PollAssumption, PollInv, NEW f \in Fd.poll, A!Remove(f)
  PROVE  PollInv'
<1>1. A!Slot(f) \in 1 .. idx /\ set[A!Slot(f)].fd = f
  BY PollSlotOf DEF A!Remove, A!P!MayRemove
<1>2. /\ set' = A!Moved(A!Slot(f)) /\ idx' = idx - 1
      /\ uservalue' = A!Restrict(uservalue, DOMAIN uservalue \ {f})
      /\ UNCHANGED <<count, ready, phase>>
  BY DEF A!Remove
<1> DEFINE i == A!Slot(f)
<1> HIDE DEF i
<1>3. i \in 1 .. idx /\ set[i].fd = f /\ set' = A!Moved(i)
  BY <1>1, <1>2 DEF i
<1>4. /\ set' \in Seq(PollEntry) /\ Len(set') = Len(set) /\ idx' \in Nat
      /\ \A k \in 1 .. idx' : \E n \in 1 .. idx : n # i /\ set'[k] = set[n]
      /\ \A n \in 1 .. idx : n # i => \E k \in 1 .. idx' : set'[k] = set[n]
      /\ \A j, k \in 1 .. idx' : set'[j].fd = set'[k].fd => j = k
  BY <1>2, <1>3, PollMoves
<1>5. DOMAIN uservalue' = DOMAIN uservalue \ {f} /\ \A g \in DOMAIN uservalue' : uservalue'[g] = uservalue[g]
  BY <1>2 DEF A!Restrict
<1>6. A!TypeOK'
  <2>1. idx' \in 0 .. Len(set') /\ count' \in 0 .. Len(set')
    BY <1>2, <1>4, PollNumbers
  <2>2. Len(set') <= Rlimit
    BY <1>4 DEF PollInv, A!TypeOK
  <2> QED
    BY <1>2, <1>4, <1>5, <2>1, <2>2 DEF PollInv, A!TypeOK, PollEntry
<1>7. {set'[k].fd : k \in 1 .. idx'} = {set[k].fd : k \in 1 .. idx} \ {f}
  <2>1. ASSUME NEW k \in 1 .. idx' PROVE set'[k].fd \in {set[n].fd : n \in 1 .. idx} \ {f}
    <3>1. PICK n \in 1 .. idx : n # i /\ set'[k] = set[n]
      BY <1>4
    <3>2. set[n].fd # f
      BY <1>3, <3>1 DEF PollInv, A!Agree
    <3> QED
      BY <3>1, <3>2
  <2>2. ASSUME NEW n \in 1 .. idx, set[n].fd # f PROVE \E k \in 1 .. idx' : set'[k].fd = set[n].fd
    BY <1>3, <1>4, <2>2
  <2> QED
    BY <2>1, <2>2
<1>8. A!Agree'
  BY <1>4, <1>5, <1>7 DEF PollInv, A!Agree
<1> QED
  BY <1>6, <1>8 DEF PollInv

\* What poll() writes into the entries in use.
LEMMA PollFinds ==
  ASSUME A!PollAssumption, PollInv, NEW call, A!WaitFinds(call)
  PROVE  \E state \in [{set[k].fd : k \in 1 .. idx} -> Readiness] :
           /\ ready' = A!P!Seen(state)
           /\ set' \in Seq(PollEntry) /\ Len(set') = Len(set)
           /\ \A k \in 1 .. idx :
                /\ set'[k].fd = set[k].fd /\ set'[k].want = set[k].want
                /\ set'[k].got = A!P!Hits(set[k].want, state[set[k].fd])
                /\ ready'[set[k].fd] = state[set[k].fd]
<1>1. PICK state \in [{set[k].fd : k \in 1 .. idx} -> Readiness] :
         ready' = A!P!Seen(state) /\ set' = A!Polled(state)
  BY DEF A!WaitFinds
<1>2. ASSUME NEW k \in 1 .. idx
      PROVE  /\ k \in DOMAIN set /\ ~ (k > idx)
             /\ set'[k] = [set[k] EXCEPT !.got = A!P!Hits(set[k].want, state[set[k].fd])]
  <2>1. k \in DOMAIN set /\ ~ (k > idx)
    BY PollNumbers
  <2> QED
    BY <1>1, <2>1 DEF A!Polled
<1>3. ASSUME NEW k \in 1 .. idx
      PROVE  /\ set'[k] \in PollEntry /\ set'[k].fd = set[k].fd /\ set'[k].want = set[k].want
             /\ set'[k].got = A!P!Hits(set[k].want, state[set[k].fd])
             /\ ready'[set[k].fd] = state[set[k].fd]
  <2>1. set[k] \in PollEntry /\ set[k].fd \in Fd.poll
    BY PollNumbers
  <2>2. A!P!Hits(set[k].want, state[set[k].fd]) \in SUBSET {"r", "w", "hup"}
    BY <1>1, PollValues DEF A!P!Hits
  <2>3. ready'[set[k].fd] = state[set[k].fd]
    BY <1>1, <2>1 DEF A!P!Seen
  <2> QED
    BY <1>2, <2>1, <2>2, <2>3 DEF PollEntry
<1>4. set' \in Seq(PollEntry) /\ Len(set') = Len(set)
  <2>1. \A k \in 1 .. Len(set) : k > idx => set'[k] = set[k]
    BY <1>1, PollNumbers DEF A!Polled
  <2>2. \A k \in 1 .. Len(set) : ~ (k > idx) => k \in 1 .. idx
    BY PollNumbers
  <2>3. \A k \in 1 .. Len(set) : set'[k] \in PollEntry
    BY <1>3, <2>1, <2>2, PollNumbers
  <2>4. set' \in [1 .. Len(set) -> PollEntry]
    BY <1>1, <2>3, PollNumbers DEF A!Polled
  <2> QED
    BY <2>4, PollNumbers, SequenceOf
<1> QED
  BY <1>1, <1>3, <1>4

LEMMA PollWait ==
  ASSUME A!PollAssumption, PollInv, NEW call, A!Wait(call)
  PROVE  PollInv'
<1>1. UNCHANGED <<idx, uservalue>> /\ count' = 0
  BY DEF A!Wait
<1>2. CASE A!WaitFinds(call)
  <2>1. PICK state \in [{set[k].fd : k \in 1 .. idx} -> Readiness] :
           /\ ready' = A!P!Seen(state)
           /\ set' \in Seq(PollEntry) /\ Len(set') = Len(set)
           /\ \A k \in 1 .. idx :
                /\ set'[k].fd = set[k].fd /\ set'[k].want = set[k].want
                /\ set'[k].got = A!P!Hits(set[k].want, state[set[k].fd])
                /\ ready'[set[k].fd] = state[set[k].fd]
    BY <1>2, PollFinds
  <2>2. ready' \in [Fd.poll -> SUBSET {"r", "w", "hup"}] /\ phase' = "events"
    BY <1>2, <2>1, PollValues DEF A!P!Seen, A!WaitFinds
  <2>3. idx' \in 0 .. Len(set') /\ count' \in 0 .. Len(set')
    BY <1>1, <2>1, PollNumbers
  <2>4. A!TypeOK'
    BY <1>1, <2>1, <2>2, <2>3 DEF PollInv, A!TypeOK, PollEntry
  <2>5. A!Agree'
    <3>1. \A k \in 1 .. idx : set'[k].fd = set[k].fd
      BY <2>1
    <3> QED
      BY <1>1, <3>1 DEF PollInv, A!Agree
  <2> QED
    BY <2>4, <2>5 DEF PollInv
<1>3. CASE A!WaitFails(call)
  <2>1. 0 \in 0 .. Len(set)
    BY PollNumbers
  <2> QED
    BY <1>1, <1>3, <2>1 DEF A!WaitFails, A!P!Unread, PollInv, A!TypeOK, A!Agree
<1> QED
  BY <1>2, <1>3 DEF A!Wait

LEMMA PollTakes ==
  ASSUME A!PollAssumption, PollInv, A!Take \/ A!End
  PROVE  PollInv'
<1>1. UNCHANGED <<set, idx, uservalue>>
  BY DEF A!Take, A!End, A!setVars
<1>2. count' \in 0 .. Len(set)
  BY PollNumbers DEF A!Take, A!End
<1>3. ready' \in [Fd.poll -> SUBSET {"r", "w", "hup"}] /\ phase' \in {"idle", "events"}
  BY DEF A!Take, A!End, A!P!Unread, PollInv, A!TypeOK
<1> QED
  BY <1>1, <1>2, <1>3 DEF PollInv, A!TypeOK, A!Agree

LEMMA PollNext ==
  ASSUME A!PollAssumption, ~ InsertTwice.poll, PollInv, [A!Next]_(A!vars)
  PROVE  PollInv'
<1>1. CASE UNCHANGED A!vars
  BY <1>1 DEF A!vars, A!setVars, PollInv, A!TypeOK, A!Agree
<1> QED
  BY <1>1, PollInsert, PollUpdate, PollRemove, PollWait, PollTakes DEF A!Next

-----------------------------------------------------------------------------
(* What each call of poll's is of the set that was promised.               *)

\* What the array says of the set: the files in it, and for each what its entry
\* and its object say.
Said ==
  /\ DOMAIN A!Registered = {set[k].fd : k \in 1 .. idx}
  /\ DOMAIN A!Registered = DOMAIN uservalue
  /\ A!Registered = [f \in DOMAIN A!Registered |-> A!Registered[f]]
  /\ \A k \in 1 .. idx :
       A!Registered[set[k].fd] = [want |-> set[k].want, obj |-> uservalue[set[k].fd]]

LEMMA PollSaid == PollInv => Said
<1> SUFFICES ASSUME PollInv PROVE Said
  OBVIOUS
<1>1. DOMAIN A!Registered = {set[k].fd : k \in 1 .. idx}
  BY DEF A!Registered
<1>2. DOMAIN A!Registered = DOMAIN uservalue
  BY <1>1 DEF PollInv, A!Agree
<1>3. A!Registered = [f \in DOMAIN A!Registered |-> A!Registered[f]]
  BY <1>1 DEF A!Registered
<1>4. ASSUME NEW k \in 1 .. idx
      PROVE  A!Registered[set[k].fd] = [want |-> set[k].want, obj |-> uservalue[set[k].fd]]
  <2>1. A!Slot(set[k].fd) = k
    BY PollSlots DEF Slots
  <2>2. set[k].fd \in DOMAIN uservalue
    BY <1>1, <1>2
  <2> QED
    BY <2>1, <2>2 DEF A!Registered, A!ObjOf
<1> QED
  BY <1>1, <1>2, <1>3, <1>4 DEF Said

LEMMA PollSays ==
  PollInv => /\ DOMAIN A!Registered = {set[k].fd : k \in 1 .. idx}
             /\ DOMAIN A!Registered = DOMAIN uservalue
             /\ A!Registered = [f \in DOMAIN A!Registered |-> A!Registered[f]]
             /\ \A k \in 1 .. idx :
                  A!Registered[set[k].fd] = [want |-> set[k].want, obj |-> uservalue[set[k].fd]]
BY PollSaid DEF Said

LEMMA PollSaysNext ==
  PollInv' => /\ DOMAIN A!Registered' = {set'[k].fd : k \in 1 .. idx'}
              /\ DOMAIN A!Registered' = DOMAIN uservalue'
              /\ A!Registered' = [f \in DOMAIN A!Registered' |-> A!Registered'[f]]
              /\ \A k \in 1 .. idx' :
                   A!Registered'[set'[k].fd] = [want |-> set'[k].want, obj |-> uservalue'[set'[k].fd]]
<1>1. PollInv' => Said'
  BY PollSaid, PTL
<1> QED
  BY <1>1 DEF Said

LEMMA PollStarts == ASSUME A!Init PROVE A!P!Init
<1>1. A!Registered = << >>
  BY DEF A!Init, A!Registered
<1> QED
  BY <1>1 DEF A!Init, A!P!Init, A!Rest

\* What the iterator still finds when there is one more entry.
LEMMA PollStrays ==
  ASSUME PollInv, PollInv', NEW f \in Fd.poll, \A k \in 1 .. idx : set'[k] = set[k],
         set'[idx + 1].fd = f, idx' = idx + 1, UNCHANGED <<count, ready, phase>>
  PROVE  \/ UNCHANGED A!Rest
         \/ /\ phase = "events"
            /\ \E got \in (SUBSET {"r", "w", "hup"}) \ {{}} : A!Rest' = A!Rest \cup {A!P!EventOf(f, got)}
<1>1. CASE phase = "idle"
  BY <1>1 DEF A!Rest
<1>2. CASE phase # "idle"
  <2> DEFINE before == {j \in count + 1 .. idx : set[j].got # {}}
             after == {j \in count' + 1 .. idx' : set'[j].got # {}}
  <2>1. phase = "events" /\ count \in Nat /\ idx \in Nat
    BY <1>2, PollNumbers DEF PollInv, A!TypeOK
  <2>2. A!Rest = {[fd |-> set[k].fd, got |-> set[k].got] : k \in before}
    BY <1>2 DEF A!Rest
  <2>3. A!Rest' = {[fd |-> set'[k].fd, got |-> set'[k].got] : k \in after}
    BY <1>2 DEF A!Rest
  <2>4. \A j \in count + 1 .. idx : j \in 1 .. idx /\ j # idx + 1 /\ set'[j] = set[j]
    BY <2>1
  <2>5. \A j \in before : j \in 1 .. idx /\ set'[j] = set[j]
    BY <2>4
  <2>6. CASE idx + 1 \notin after
    <3>1. after = before
      BY <2>1, <2>4, <2>6
    <3> HIDE DEF before, after
    <3> QED
      BY <2>2, <2>3, <2>5, <3>1
  <2>7. CASE idx + 1 \in after
    <3>1. after = before \cup {idx + 1}
      BY <2>1, <2>4, <2>7
    <3>2. set'[idx + 1].got # {} /\ set'[idx + 1].got \in SUBSET {"r", "w", "hup"}
      <4>1. set' \in Seq(PollEntry) /\ idx' \in 0 .. Len(set')
        BY DEF PollInv, A!TypeOK, PollEntry
      <4>2. idx + 1 \in 1 .. Len(set')
        BY <2>1, <4>1
      <4>3. set'[idx + 1] \in PollEntry
        BY <4>1, <4>2
      <4> QED
        BY <2>7, <4>3 DEF PollEntry
    <3> DEFINE stray == A!P!EventOf(f, set'[idx + 1].got)
    <3>3. stray = [fd |-> set'[idx + 1].fd, got |-> set'[idx + 1].got]
      BY DEF A!P!EventOf
    <3> HIDE DEF before, after, stray
    <3>4. A!Rest' = A!Rest \cup {stray}
      BY <2>2, <2>3, <2>5, <3>1, <3>3
    <3> QED
      BY <2>1, <3>2, <3>4 DEF stray
  <2> QED
    BY <2>6, <2>7
<1> QED
  BY <1>1, <1>2

LEMMA PollInserts ==
  ASSUME A!PollAssumption, ~ OmitObj, ~ InsertTwice.poll, PollInv,
         NEW f \in Fd.poll, NEW w \in Wants.poll, NEW o \in A!P!Given, A!Insert(f, w, o)
  PROVE  A!P!Next
<1>1. CASE A!Refused("insert", f)
  <2>1. A!P!Refuse("insert", f)
    BY <1>1 DEF A!Refused, A!setVars, A!P!Refuse, A!Registered, A!Slot, A!ObjOf, A!Rest
  <2> QED
    BY <2>1 DEF A!P!Next
<1>2. CASE \E new \in A!Grown :
             /\ A!Full => Len(set) # Rlimit
             /\ set' = [new EXCEPT ![idx + 1].fd = f, ![idx + 1].want = w]
             /\ idx' = idx + 1
             /\ uservalue' = A!P!Put(uservalue, f, IF o = NoObj THEN A!P!Number(f) ELSE o)
             /\ ret' = A!P!Done("insert", f, w, o)
             /\ UNCHANGED <<count, ready, phase>>
  <2>1. /\ \A k \in 1 .. idx : set'[k] = set[k]
        /\ set'[idx + 1].fd = f /\ set'[idx + 1].want = w
    BY <1>2, PollGrows
  <2>2. o # NoObj /\ ~ A!Present(f) /\ A!P!MayInsert(f, FALSE)
    BY PollValues DEF A!P!Given, A!Insert, A!P!MayInsert
  <2>3. PollInv' /\ 1 .. idx' = (1 .. idx) \cup {idx + 1} /\ idx + 1 \in 1 .. idx'
    BY <1>2, PollInsert, PollNumbers
  <2>4. f \notin DOMAIN A!Registered
    BY <2>2, PollSays DEF A!Present
  <2>5. /\ DOMAIN uservalue' = DOMAIN uservalue \cup {f} /\ uservalue'[f] = o
        /\ \A g \in DOMAIN uservalue : g # f => uservalue'[g] = uservalue[g]
    BY <1>2, <2>2 DEF A!P!Put
  <2>6. A!Registered'[f] = [want |-> w, obj |-> o]
    BY <2>1, <2>3, <2>5, PollSaysNext
  <2>7. ASSUME NEW g \in DOMAIN A!Registered PROVE A!Registered'[g] = A!Registered[g]
    <3>1. PICK k \in 1 .. idx : set[k].fd = g
      BY PollSays
    <3>2. A!Registered[g] = [want |-> set[k].want, obj |-> uservalue[g]]
      BY <3>1, PollSays
    <3>3. k \in 1 .. idx' /\ set'[k] = set[k] /\ uservalue'[g] = uservalue[g]
      BY <2>1, <2>3, <2>4, <2>5, PollSays
    <3>4. A!Registered'[g] = [want |-> set'[k].want, obj |-> uservalue'[g]]
      BY <2>3, <3>1, <3>3, PollSaysNext
    <3> QED
      BY <3>2, <3>3, <3>4
  <2>8. A!Registered' = A!P!Put(A!Registered, f, [want |-> w, obj |-> IF o = NoObj THEN A!P!File(f) ELSE o])
    <3>1. DOMAIN A!Registered' = DOMAIN A!Registered \cup {f}
      BY <2>3, <2>5, PollSays, PollSaysNext
    <3> QED
      BY <2>2, <2>3, <2>4, <2>6, <2>7, <3>1, PollSaysNext DEF A!P!Put
  <2>9. \/ UNCHANGED A!Rest
        \/ /\ phase = "events"
           /\ \E got \in (SUBSET {"r", "w", "hup"}) \ {{}} : A!Rest' = A!Rest \cup {A!P!EventOf(f, got)}
    BY <1>2, <2>1, <2>3, PollStrays
  <2>10. A!P!Insert(f, w, o)
    BY <1>2, <2>2, <2>4, <2>8, <2>9 DEF A!P!Insert, A!P!MayInsert
  <2> QED
    BY <2>10 DEF A!P!Next
<1> QED
  BY <1>1, <1>2 DEF A!Insert

LEMMA PollUpdates ==
  ASSUME A!PollAssumption, PollInv, NEW f \in Fd.poll, NEW w \in Wants.poll, A!Update(f, w)
  PROVE  A!P!Next
<1>1. /\ PollInv'
      /\ \A k \in 1 .. idx : /\ set'[k].fd = set[k].fd /\ set'[k].got = set[k].got
                            /\ set'[k].want = IF set[k].fd = f THEN w ELSE set[k].want
  BY PollUpdate
<1>2. UNCHANGED <<idx, uservalue, count, ready, phase>> /\ ret' = A!P!Done("update", f, w, NoObj)
  BY DEF A!Update
<1>3. f \in DOMAIN A!Registered /\ A!P!MayUpdate(f, TRUE)
  BY PollSays DEF A!Update, A!P!MayUpdate, A!Present
<1>4. ASSUME NEW g \in DOMAIN A!Registered
      PROVE  A!Registered'[g] = IF g = f THEN [A!Registered[g] EXCEPT !.want = w] ELSE A!Registered[g]
  <2>1. PICK k \in 1 .. idx : set[k].fd = g
    BY PollSays
  <2>2. A!Registered[g] = [want |-> set[k].want, obj |-> uservalue[g]]
    BY <2>1, PollSays
  <2>3. A!Registered'[g] = [want |-> set'[k].want, obj |-> uservalue[g]]
    BY <1>1, <1>2, <2>1, PollSaysNext
  <2> QED
    BY <1>1, <2>1, <2>2, <2>3
<1>5. A!Registered' = [A!Registered EXCEPT ![f].want = w]
  <2>1. DOMAIN A!Registered' = DOMAIN A!Registered
    BY <1>1, <1>2, PollSays, PollSaysNext
  <2> QED
    BY <1>1, <1>3, <1>4, <2>1, PollSays, PollSaysNext
<1>6. A!Rest' = A!Rest
  <2>1. \A k \in count + 1 .. idx : k \in 1 .. idx
    BY PollNumbers
  <2>2. {j \in count + 1 .. idx : set'[j].got # {}} = {j \in count + 1 .. idx : set[j].got # {}}
    BY <1>1, <2>1
  <2> QED
    BY <1>1, <1>2, <2>1, <2>2 DEF A!Rest
<1>7. A!P!Update(f, w)
  BY <1>2, <1>3, <1>5, <1>6 DEF A!P!Update, A!P!MayUpdate
<1> QED
  BY <1>7 DEF A!P!Next

LEMMA PollRemoves ==
  ASSUME A!PollAssumption, PollInv, NEW f \in Fd.poll, A!Remove(f)
  PROVE  A!P!Next
<1> DEFINE i == A!Slot(f)
<1>1. i \in 1 .. idx /\ set[i].fd = f /\ phase = "idle" /\ A!P!MayRemove(f, TRUE)
  BY PollSlotOf DEF A!Remove, A!P!MayRemove
<1>2. /\ set' = A!Moved(i) /\ idx' = idx - 1
      /\ uservalue' = A!Restrict(uservalue, DOMAIN uservalue \ {f})
      /\ ret' = A!P!Answer("remove", f, "ok") /\ UNCHANGED <<count, ready, phase>>
  BY DEF A!Remove
<1> HIDE DEF i
<1>3. \A k \in 1 .. idx' : \E n \in 1 .. idx : n # i /\ set'[k] = set[n]
  BY <1>1, <1>2, PollMoves
<1>4. PollInv'
  BY PollRemove
<1>5. DOMAIN uservalue' = DOMAIN uservalue \ {f} /\ \A g \in DOMAIN uservalue' : uservalue'[g] = uservalue[g]
  BY <1>2 DEF A!Restrict
<1>6. DOMAIN A!Registered' = DOMAIN A!Registered \ {f} /\ f \in DOMAIN A!Registered
  BY <1>1, <1>4, <1>5, PollSays, PollSaysNext
<1>7. ASSUME NEW g \in DOMAIN A!Registered' PROVE A!Registered'[g] = A!Registered[g]
  <2>1. PICK k \in 1 .. idx' : set'[k].fd = g
    BY <1>4, PollSaysNext
  <2>2. PICK n \in 1 .. idx : set'[k] = set[n]
    BY <1>3
  <2>3. A!Registered'[g] = [want |-> set[n].want, obj |-> uservalue'[g]]
    BY <1>4, <2>1, <2>2, PollSaysNext
  <2>4. A!Registered[g] = [want |-> set[n].want, obj |-> uservalue[g]]
    BY <2>1, <2>2, PollSays
  <2> QED
    BY <1>4, <1>5, <2>3, <2>4, PollSaysNext
<1>8. A!Registered' = A!P!Restrict(A!Registered, DOMAIN A!Registered \ {f})
  BY <1>4, <1>6, <1>7, PollSaysNext DEF A!P!Restrict
<1>9. A!Rest = {} /\ A!Rest' = {}
  BY <1>1, <1>2 DEF A!Rest
<1>10. A!P!Remove(f)
  BY <1>1, <1>2, <1>6, <1>8, <1>9 DEF A!P!Remove, A!P!MayRemove
<1> QED
  BY <1>10 DEF A!P!Next

LEMMA PollWaits ==
  ASSUME A!PollAssumption, PollInv, NEW call \in {"wait", "block"}, A!Wait(call)
  PROVE  A!P!Next
<1>1. UNCHANGED <<idx, uservalue>> /\ count' = 0 /\ PollInv'
  BY PollWait DEF A!Wait
<1>2. CASE A!WaitFails(call)
  <2>1. A!Registered' = A!Registered
    BY <1>1, <1>2 DEF A!WaitFails, A!Registered, A!Slot, A!ObjOf
  <2>2. A!P!WaitFails(call)
    BY <1>2, <2>1 DEF A!WaitFails, A!P!WaitFails, A!Rest
  <2> QED
    BY <2>2 DEF A!P!Next
<1>3. CASE A!WaitFinds(call)
  <2>1. PICK state \in [{set[k].fd : k \in 1 .. idx} -> Readiness] :
           /\ ready' = A!P!Seen(state)
           /\ set' \in Seq(PollEntry) /\ Len(set') = Len(set)
           /\ \A k \in 1 .. idx :
                /\ set'[k].fd = set[k].fd /\ set'[k].want = set[k].want
                /\ set'[k].got = A!P!Hits(set[k].want, state[set[k].fd])
                /\ ready'[set[k].fd] = state[set[k].fd]
    BY <1>3, PollFinds
  <2>2. phase' = "events"
    BY <1>3 DEF A!WaitFinds
  <2>3. A!Registered' = A!Registered
    <3>1. DOMAIN A!Registered' = DOMAIN A!Registered
      BY <1>1, PollSays, PollSaysNext
    <3>2. ASSUME NEW g \in DOMAIN A!Registered PROVE A!Registered'[g] = A!Registered[g]
      <4>1. PICK k \in 1 .. idx : set[k].fd = g
        BY PollSays
      <4>2. A!Registered[g] = [want |-> set[k].want, obj |-> uservalue[g]]
        BY <4>1, PollSays
      <4>3. A!Registered'[g] = [want |-> set'[k].want, obj |-> uservalue[g]]
        BY <1>1, <2>1, <4>1, PollSaysNext
      <4> QED
        BY <2>1, <4>2, <4>3
    <3> QED
      BY <1>1, <3>1, <3>2, PollSays, PollSaysNext
  <2>4. A!Rest' = {[fd |-> set'[k].fd, got |-> set'[k].got] : k \in {j \in 1 .. idx : set'[j].got # {}}}
    BY <1>1, <2>2 DEF A!Rest
  <2>5. (A!Rest' = {}) <=> \A k \in 1 .. idx' : set'[k].got = {}
    BY <1>1, <2>4
  <2>6. ASSUME NEW e \in A!Rest'
        PROVE  /\ e.fd \in DOMAIN A!Registered
               /\ e.got # {}
               /\ e.got \subseteq A!P!Hits(A!Registered[e.fd].want, ready'[e.fd])
    <3>1. PICK k \in 1 .. idx : e.fd = set'[k].fd /\ e.got = set'[k].got /\ e.got # {}
      BY <2>4
    <3>2. /\ e.fd = set[k].fd /\ e.got = A!P!Hits(set[k].want, state[e.fd]) /\ ready'[e.fd] = state[e.fd]
      BY <2>1, <3>1
    <3>3. e.fd \in DOMAIN A!Registered /\ A!Registered[e.fd].want = set[k].want
      <4>1. A!Registered[e.fd] = [want |-> set[k].want, obj |-> uservalue[e.fd]]
        BY <3>2, PollSays
      <4> QED
        BY <3>2, <4>1, PollSays
    <3> QED
      BY <3>1, <3>2, <3>3
  <2>7. ASSUME A!Rest' = {}, NEW f \in DOMAIN A!Registered
        PROVE  A!P!Hits(A!Registered[f].want, ready'[f]) = {}
    <3>1. PICK k \in 1 .. idx : set[k].fd = f
      BY PollSays
    <3>2. A!Registered[f].want = set[k].want
      <4>1. A!Registered[f] = [want |-> set[k].want, obj |-> uservalue[f]]
        BY <3>1, PollSays
      <4> QED
        BY <4>1
    <3>3. A!P!Hits(set[k].want, state[f]) = {} /\ ready'[f] = state[f]
      BY <1>1, <2>1, <2>5, <2>7, <3>1
    <3> QED
      BY <3>2, <3>3
  <2>8. /\ call = "block" => A!Rest' # {}
        /\ ret' = A!P!Answer(call, NoFd, IF A!Rest' = {} THEN "timeout" ELSE "ok")
    BY <1>1, <1>3, <2>5 DEF A!WaitFinds
  <2>9. A!P!Wait(call)
    BY <2>2, <2>3, <2>6, <2>7, <2>8 DEF A!P!Wait
  <2> QED
    BY <2>9 DEF A!P!Next
<1> QED
  BY <1>2, <1>3 DEF A!Wait

LEMMA PollHandsOut ==
  ASSUME A!PollAssumption, PollInv, A!Take
  PROVE  A!P!Take
<1>1. PICK k \in 1 .. idx : /\ A!Hit(k)
                            /\ \A j \in 1 .. k - 1 : ~ A!Hit(j)
                            /\ ret' = A!P!HandOut(set[k].fd, A!ObjOf(set[k].fd), set[k].got)
                            /\ count' = k
  BY DEF A!Take
<1>2. /\ phase = "events" /\ k \in Nat /\ count \in Nat /\ k >= count + 1 /\ set[k].got # {}
      /\ UNCHANGED <<set, idx, uservalue, ready, phase>>
  BY <1>1, PollNumbers DEF A!Take, A!Hit, A!setVars
<1> DEFINE e == [fd |-> set[k].fd, got |-> set[k].got]
<1>3. e \in A!Rest
  <2>1. k \in count + 1 .. idx
    BY <1>2
  <2> QED
    BY <1>2, <2>1 DEF A!Rest
<1>4. A!Rest' = A!Rest \ {e}
  <2>1. ASSUME NEW j \in count + 1 .. idx, set[j].got # {} PROVE j = k \/ j \in k + 1 .. idx
    <3>1. A!Hit(j) /\ j \in Nat /\ j >= 1 /\ idx \in Nat
      BY <1>2, <2>1, PollNumbers DEF A!Hit
    <3>2. ~ (j < k)
      BY <1>1, <1>2, <3>1
    <3> QED
      BY <1>2, <3>1, <3>2
  <2>2. ASSUME NEW j \in k + 1 .. idx PROVE j \in count + 1 .. idx /\ j \in 1 .. idx /\ j # k
    BY <1>2, PollNumbers
  <2>3. ASSUME NEW j \in k + 1 .. idx PROVE set[j].fd # set[k].fd
    BY <2>2 DEF PollInv, A!Agree
  <2>4. A!Rest' = {[fd |-> set[j].fd, got |-> set[j].got] : j \in {n \in k + 1 .. idx : set[n].got # {}}}
    <3>1. phase' = "events" /\ set' = set /\ idx' = idx /\ count' = k
      BY <1>1, <1>2
    <3>2. A!Rest' = {[fd |-> set'[j].fd, got |-> set'[j].got] :
                        j \in {n \in count' + 1 .. idx' : set'[n].got # {}}}
      BY <3>1 DEF A!Rest
    <3> QED
      BY <3>1, <3>2, Zenon
  <2>5. A!Rest = {[fd |-> set[j].fd, got |-> set[j].got] : j \in {n \in count + 1 .. idx : set[n].got # {}}}
    BY <1>2 DEF A!Rest
  <2>6. {n \in count + 1 .. idx : set[n].got # {}} = {n \in k + 1 .. idx : set[n].got # {}} \cup {k}
    <3>1. k \in count + 1 .. idx
      BY <1>2
    <3> QED
      BY <1>2, <2>1, <2>2, <3>1
  <2>7. A!Rest = A!Rest' \cup {e}
    BY <2>4, <2>5, <2>6
  <2>8. e \notin A!Rest'
    BY <2>3, <2>4
  <2> QED
    BY <2>7, <2>8
<1>5. A!Registered' = A!Registered
  BY <1>2 DEF A!Registered, A!Slot, A!ObjOf
<1>6. ret' = A!P!HandOut(e.fd, A!Registered[e.fd].obj, e.got)
  <2>1. A!ObjOf(set[k].fd) = uservalue[set[k].fd] /\ A!Registered[set[k].fd].obj = uservalue[set[k].fd]
    <3>1. A!Registered[set[k].fd] = [want |-> set[k].want, obj |-> uservalue[set[k].fd]]
      BY PollSays
    <3>2. set[k].fd \in DOMAIN uservalue
      BY PollSays
    <3> QED
      BY <3>1, <3>2 DEF A!ObjOf
  <2>2. e.fd = set[k].fd /\ e.got = set[k].got
    OBVIOUS
  <2> HIDE DEF e
  <2> QED
    BY <1>1, <2>1, <2>2
<1> QED
  BY <1>2, <1>3, <1>4, <1>5, <1>6 DEF A!P!Take

LEMMA PollEnds ==
  ASSUME A!PollAssumption, PollInv, A!End
  PROVE  A!P!End
<1>1. A!Registered' = A!Registered /\ A!Rest' = {}
  BY DEF A!End, A!setVars, A!Registered, A!Slot, A!ObjOf, A!Rest
<1>2. A!Rest = {}
  <2>1. \A k \in count + 1 .. idx : k \in 1 .. idx
    BY PollNumbers
  <2> QED
    BY <2>1 DEF A!End, A!Hit, A!Rest
<1> QED
  BY <1>1, <1>2 DEF A!End, A!P!End

LEMMA PollSteps ==
  ASSUME A!PollAssumption, ~ OmitObj, ~ InsertTwice.poll, PollInv, [A!Next]_(A!vars)
  PROVE  [A!P!Next]_(A!P!vars)
<1>1. CASE UNCHANGED A!vars
  BY <1>1 DEF A!vars, A!setVars, A!P!vars, A!Registered, A!Slot, A!ObjOf, A!Rest
<1>2. CASE A!Take \/ A!End
  BY <1>2, PollHandsOut, PollEnds DEF A!P!Next
<1> QED
  BY <1>1, <1>2, PollInserts, PollUpdates, PollRemoves, PollWaits DEF A!Next

\* The array of a poll set stays within its bounds, and every part of its type.
THEOREM PollTypes ==
  ASSUME A!PollAssumption, ~ InsertTwice.poll PROVE A!Spec => []A!TypeOK
<1>1. PollInv => A!TypeOK
  BY DEF PollInv
<1> QED
  BY PollInit, PollNext, <1>1, PTL DEF A!Spec

\* Whatever is inserted and removed, the entries in use are of distinct files, and
\* exactly these have an object: the array's growth and the memmove() of remove()
\* lose no file and leave no copy of one, if no file is inserted twice.
THEOREM PollAgrees ==
  ASSUME A!PollAssumption, ~ InsertTwice.poll PROVE A!Spec => []A!Agree
<1>1. PollInv => A!Agree
  BY DEF PollInv
<1> QED
  BY PollInit, PollNext, <1>1, PTL DEF A!Spec

\* If files are inserted once and with their objects, poll does what the comment of
\* src/pollset.c promises, but for one event of a file that a handler inserts.
THEOREM PollImplements ==
  ASSUME A!PollAssumption, ~ OmitObj, ~ InsertTwice.poll
  PROVE  A!Spec => A!ImplementsPollset
BY PollInit, PollNext, PollStarts, PollSteps, PTL DEF A!Spec, A!ImplementsPollset, A!P!Spec

-----------------------------------------------------------------------------
(* kqueue.                                                                 *)

\* As for epoll; but the array of a wait() that was not iterated is still there
\* after one that finds no file in the set.
KqueueList ==
  /\ list = NULL => count >= max
  /\ list # NULL => /\ phase = "events" /\ max \in Nat /\ max <= Len(list)
                    /\ \A k \in 1 .. max : list[k].fd \in DOMAIN uservalue
                    /\ \A j, k \in 1 .. max : list[j] = list[k] => j = k
  /\ \A f \in DOMAIN uservalue : K!Wanted(f) # {}

KqueueInv == K!TypeOK /\ K!Agree /\ KqueueList

LEMMA KqueueValues ==
  ASSUME K!KqueueAssumption
  PROVE  /\ IsFiniteSet(Fd.kqueue) /\ NoObj \notin Obj /\ NoFd \notin Fd.kqueue
         /\ Wants.kqueue \subseteq (SUBSET {"r", "w"}) \ {{}}
         /\ Readiness \subseteq SUBSET {"r", "w", "hup"}
         /\ NULL \notin Seq(Events(Fd.kqueue))
BY SameFinite DEF K!KqueueAssumption, K!P!PollsetAssumption, Events

LEMMA KqueueInit == ASSUME K!KqueueAssumption, K!Init PROVE KqueueInv
<1>1. K!TypeOK
  BY DEF K!Init, K!TypeOK, K!P!Unread
<1>2. K!Agree
  BY SameCardinality, FS_EmptySet DEF K!Init, K!Agree
<1>3. KqueueList
  BY DEF K!Init, KqueueList
<1> QED
  BY <1>1, <1>2, <1>3 DEF KqueueInv

LEMMA KqueueEmpty ==
  ASSUME K!KqueueAssumption, KqueueInv
  PROVE  /\ idx = 0 => DOMAIN uservalue = {}
         /\ IsFiniteSet(DOMAIN uservalue)
         /\ IsFiniteSet(enabled)
<1>1. DOMAIN uservalue \in SUBSET Fd.kqueue /\ idx = Cardinality(DOMAIN uservalue)
  BY SameCardinality DEF KqueueInv, K!TypeOK, K!Agree
<1>2. IsFiniteSet(DOMAIN uservalue)
  BY <1>1, KqueueValues, FS_Subset
<1>3. IsFiniteSet(enabled)
  <2>1. IsFiniteSet({"r", "w"})
    <3>1. IsFiniteSet({} \cup {"r"})
      BY FS_EmptySet, FS_AddElement
    <3>2. IsFiniteSet(({} \cup {"r"}) \cup {"w"})
      BY <3>1, FS_AddElement
    <3>3. {"r", "w"} = ({} \cup {"r"}) \cup {"w"}
      OBVIOUS
    <3> QED
      BY <3>2, <3>3
  <2>2. IsFiniteSet(Fd.kqueue \X {"r", "w"})
    BY <2>1, KqueueValues, FS_Product
  <2>3. enabled \in SUBSET (Fd.kqueue \X {"r", "w"})
    BY DEF KqueueInv, K!TypeOK, K!Filter
  <2> QED
    BY <2>2, <2>3, FS_Subset
<1> QED
  BY <1>1, <1>2, <1>3, FS_EmptySet

\* What wait() fills the list with.
LEMMA KqueueFinds ==
  ASSUME K!KqueueAssumption, KqueueInv, NEW call, K!WaitFinds(call), count' = 0, UNCHANGED K!setVars
  PROVE  \E state \in [DOMAIN uservalue -> Readiness] :
           LET S == K!EventsOf(state)
           IN /\ ready' = K!P!Seen(state)
              /\ list' \in Seq(Events(Fd.kqueue)) /\ max' = Len(list') /\ max' \in Nat
              /\ \A k \in 1 .. max' : list'[k] \in S
              /\ \A j, k \in 1 .. max' : list'[j] = list'[k] => j = k
              /\ max' = 0 => S = {} /\ call # "block"
<1>1. PICK state \in [DOMAIN uservalue -> Readiness] :
         /\ ready' = K!P!Seen(state)
         /\ list' \in K!Fill(K!EventsOf(state))
         /\ call = "block" => K!EventsOf(state) # {}
  <2>1. {x[1] : x \in filters} = DOMAIN uservalue
    <3>1. filters = (DOMAIN uservalue) \X {"r", "w"}
      BY DEF KqueueInv, K!Agree
    <3>2. \A f \in DOMAIN uservalue : <<f, "r">> \in filters /\ <<f, "r">>[1] = f
      BY <3>1
    <3>3. \A x \in filters : x[1] \in DOMAIN uservalue
      BY <3>1
    <3> QED
      BY <3>2, <3>3
  <2> QED
    BY <2>1 DEF K!WaitFinds
<1> DEFINE S == K!EventsOf(state)
           room == IF Cardinality(S) < idx THEN Cardinality(S) ELSE idx
<1>2. IsFiniteSet(S) /\ Cardinality(S) \in Nat
  <2> DEFINE D == {y \in enabled : y[2] \in state[y[1]]}
             Op(x) == K!P!EventOf(x[1], {x[2]} \cup (state[x[1]] \cap {"hup"}))
  <2>1. IsFiniteSet(D)
    <3>1. D \in SUBSET enabled
      OBVIOUS
    <3> HIDE DEF D
    <3> QED
      BY <3>1, KqueueEmpty, FS_Subset
  <2>2. IsFiniteSet({Op(x) : x \in D})
    <3> HIDE DEF D, Op
    <3> DEFINE T == {Op(x) : x \in D}
               op == [x \in D |-> Op(x)]
    <3>1. op \in Surjection(D, T)
      BY DEF Surjection
    <3> QED
      BY <2>1, <3>1, FS_Surjection
  <2>3. IsFiniteSet(S)
    BY <2>2 DEF K!EventsOf
  <2> QED
    BY <2>3, FS_CardinalityType
<1>3. S \subseteq Events(Fd.kqueue)
  <2> SUFFICES ASSUME NEW e \in S PROVE e \in Events(Fd.kqueue)
    OBVIOUS
  <2>1. PICK x \in enabled : /\ x[2] \in state[x[1]]
                            /\ e = K!P!EventOf(x[1], {x[2]} \cup (state[x[1]] \cap {"hup"}))
    BY DEF K!EventsOf
  <2>2. x[1] \in Fd.kqueue /\ x[2] \in {"r", "w"}
    BY DEF KqueueInv, K!TypeOK, K!Filter
  <2> QED
    BY <2>1, <2>2 DEF K!P!EventOf, Events
<1>4. idx \in Nat /\ idx > 0 /\ max' = Len(list')
  BY DEF KqueueInv, K!TypeOK, K!WaitFinds
<1>5. room \in Nat /\ (room = 0 => S = {})
  <2>1. Cardinality(S) = 0 => S = {}
    BY <1>2, FS_EmptySet
  <2> HIDE DEF S
  <2> QED
    BY <1>2, <1>4, <2>1
<1>6. list' \in [1 .. room -> S] /\ \A j, k \in 1 .. room : list'[j] = list'[k] => j = k
  <2>1. list' \in K!Injection(1 .. room, S)
    BY <1>1, SameCardinality DEF K!Fill
  <2> HIDE DEF S, room
  <2> QED
    BY <2>1 DEF K!Injection, K!IsInjective
<1> HIDE DEF S, room
<1>7. list' \in Seq(S) /\ Len(list') = room
  BY <1>5, <1>6
<1>8. list' \in Seq(Events(Fd.kqueue))
  BY <1>3, <1>5, <1>6
<1> QED
  BY <1>1, <1>4, <1>5, <1>6, <1>7, <1>8 DEF S

\* What EV_ADD of both filters of a file makes of them.
LEMMA KqueueChange ==
  ASSUME K!KqueueAssumption, KqueueInv, NEW f \in Fd.kqueue, NEW w \in Wants.kqueue, K!Change(f, w, {"r", "w"})
  PROVE  /\ filters' = filters \cup ({f} \X {"r", "w"})
         /\ enabled' \subseteq filters' /\ filters' \subseteq K!Filter
         /\ K!Wanted(f)' = w
         /\ \A g : g # f => K!Wanted(g)' = K!Wanted(g)
<1>1. w \subseteq {"r", "w"}
  BY KqueueValues
<1>2. /\ filters' = filters \cup ({f} \X {"r", "w"})
      /\ enabled' = (enabled \ ({f} \X {"r", "w"})) \cup ({f} \X (w \cap {"r", "w"}))
  BY DEF K!Change
<1>3. filters \subseteq Fd.kqueue \X {"r", "w"} /\ enabled \subseteq filters
  BY DEF KqueueInv, K!TypeOK, K!Filter
<1>4. enabled' \subseteq filters' /\ filters' \subseteq K!Filter
  BY <1>1, <1>2, <1>3 DEF K!Filter
<1>5. \A e \in {"r", "w"} : <<f, e>> \in enabled' <=> e \in w
  BY <1>1, <1>2
<1>6. \A g, e : g # f => (<<g, e>> \in enabled' <=> <<g, e>> \in enabled)
  BY <1>2
<1> QED
  BY <1>1, <1>2, <1>4, <1>5, <1>6 DEF K!Wanted

\* A call that the kernel refuses at its first change leaves everything.
LEMMA KqueueRefused ==
  ASSUME NoWrite = {}, NEW call, NEW f, NEW w, K!Refused(call, f, w), KqueueInv
  PROVE  UNCHANGED <<filters, enabled, uservalue, idx, list, max, count, ready, phase>>
<1>1. K!Change(f, w, {})
  BY DEF K!Refused, K!Before
<1> QED
  BY <1>1 DEF K!Change, K!Refused, K!iterVars

LEMMA KqueueStays ==
  ASSUME KqueueInv, UNCHANGED <<filters, enabled, uservalue, idx, list, max, count, ready, phase>>
  PROVE  KqueueInv'
<1>1. K!TypeOK'
  BY DEF KqueueInv, K!TypeOK, K!Filter
<1>2. K!Agree'
  BY SameCardinality DEF KqueueInv, K!Agree
<1>3. KqueueList'
  BY DEF KqueueInv, KqueueList, K!Wanted
<1> QED
  BY <1>1, <1>2, <1>3 DEF KqueueInv

LEMMA KqueueInsert ==
  ASSUME K!KqueueAssumption, NoWrite = {}, ~ InsertTwice.kqueue, KqueueInv,
         NEW f \in Fd.kqueue, NEW w \in Wants.kqueue, NEW o \in K!P!Given, K!Insert(f, w, o)
  PROVE  KqueueInv'
<1>1. CASE K!Refused("insert", f, w)
  BY <1>1, KqueueRefused, KqueueStays
<1>2. CASE /\ K!Change(f, w, {"r", "w"})
           /\ uservalue' = K!P!Put(uservalue, f, K!Stored(o))
           /\ idx' = idx + 1
           /\ UNCHANGED <<list, max, count, ready, phase>>
  <2>1. f \notin DOMAIN uservalue
    BY DEF K!Insert, K!P!MayInsert, K!Present
  <2>2. DOMAIN uservalue' = DOMAIN uservalue \cup {f}
    BY <1>2 DEF K!P!Put
  <2>3. /\ filters' = filters \cup ({f} \X {"r", "w"})
        /\ enabled' \subseteq filters' /\ filters' \subseteq K!Filter
        /\ K!Wanted(f)' = w
        /\ \A g : g # f => K!Wanted(g)' = K!Wanted(g)
    BY <1>2, KqueueChange
  <2>4. K!TypeOK'
    <3>1. \A g \in DOMAIN uservalue' : uservalue'[g] \in Obj \cup {K!P!Number(4)}
      BY <1>2, <2>2 DEF K!P!Put, K!P!Given, K!Stored, KqueueInv, K!TypeOK
    <3> QED
      BY <1>2, <2>2, <2>3, <3>1 DEF KqueueInv, K!TypeOK, K!Filter
  <2>5. Cardinality(DOMAIN uservalue \cup {f}) = Cardinality(DOMAIN uservalue) + 1
    BY <2>1, KqueueEmpty, FS_AddElement
  <2>6. K!Agree'
    <3>1. filters' = (DOMAIN uservalue') \X {"r", "w"}
      BY <2>2, <2>3 DEF KqueueInv, K!Agree
    <3> QED
      BY <1>2, <2>2, <2>5, <3>1, SameCardinality DEF KqueueInv, K!Agree
  <2>7. KqueueList'
    <3>1. \A g \in DOMAIN uservalue' : K!Wanted(g)' # {}
      BY <2>2, <2>3, KqueueValues DEF KqueueInv, KqueueList
    <3> QED
      BY <1>2, <2>2, <3>1 DEF KqueueInv, KqueueList
  <2> QED
    BY <2>4, <2>6, <2>7 DEF KqueueInv
<1> QED
  BY <1>1, <1>2 DEF K!Insert, K!iterVars

LEMMA KqueueUpdate ==
  ASSUME K!KqueueAssumption, NoWrite = {}, KqueueInv, NEW f \in Fd.kqueue, NEW w \in Wants.kqueue, K!Update(f, w)
  PROVE  KqueueInv'
<1>1. CASE K!Refused("update", f, w)
  BY <1>1, KqueueRefused, KqueueStays
<1>2. CASE K!Change(f, w, {"r", "w"}) /\ UNCHANGED <<uservalue, idx, list, max, count, ready, phase>>
  <2>1. f \in DOMAIN uservalue
    BY DEF K!Update, K!P!MayUpdate, K!Present
  <2>2. /\ filters' = filters \cup ({f} \X {"r", "w"})
        /\ enabled' \subseteq filters' /\ filters' \subseteq K!Filter
        /\ K!Wanted(f)' = w
        /\ \A g : g # f => K!Wanted(g)' = K!Wanted(g)
    BY <1>2, KqueueChange
  <2>3. filters' = filters
    BY <2>1, <2>2 DEF KqueueInv, K!Agree
  <2>4. K!TypeOK'
    BY <1>2, <2>2, <2>3 DEF KqueueInv, K!TypeOK, K!Filter
  <2>5. K!Agree'
    BY <1>2, <2>3, SameCardinality DEF KqueueInv, K!Agree
  <2>6. \A g \in DOMAIN uservalue' : K!Wanted(g)' # {}
    BY <1>2, <2>2, KqueueValues DEF KqueueInv, KqueueList
  <2>7. KqueueList'
    BY <1>2, <2>6 DEF KqueueInv, KqueueList
  <2> QED
    BY <2>4, <2>5, <2>7 DEF KqueueInv
<1> QED
  BY <1>1, <1>2 DEF K!Update, K!iterVars

LEMMA KqueueRemove ==
  ASSUME K!KqueueAssumption, KqueueInv, NEW f \in Fd.kqueue, K!Remove(f)
  PROVE  KqueueInv' /\ \A g \in DOMAIN uservalue' : K!Wanted(g)' = K!Wanted(g)
<1>1. /\ phase = "idle" /\ f \in DOMAIN uservalue
      /\ filters' = filters \ ({f} \X {"r", "w"}) /\ enabled' = enabled \cap filters'
      /\ uservalue' = K!Restrict(uservalue, DOMAIN uservalue \ {f}) /\ idx' = idx - 1
      /\ UNCHANGED <<list, max, count, ready, phase>>
  BY DEF K!Remove, K!P!MayRemove, K!Present, K!iterVars
<1>2. DOMAIN uservalue' = DOMAIN uservalue \ {f} /\ \A g \in DOMAIN uservalue' : uservalue'[g] = uservalue[g]
  BY <1>1 DEF K!Restrict
<1>3. /\ Cardinality(DOMAIN uservalue \ {f}) = Cardinality(DOMAIN uservalue) - 1
      /\ IsFiniteSet(DOMAIN uservalue \ {f})
  BY <1>1, KqueueEmpty, FS_RemoveElement
<1>4. K!Agree'
  <2>1. filters' = (DOMAIN uservalue') \X {"r", "w"}
    BY <1>1, <1>2 DEF KqueueInv, K!Agree
  <2> QED
    BY <1>1, <1>2, <1>3, <2>1, SameCardinality DEF KqueueInv, K!Agree
<1>5. idx' \in Nat
  BY <1>2, <1>3, <1>4, SameCardinality, FS_CardinalityType DEF K!Agree
<1>6. K!TypeOK'
  BY <1>1, <1>2, <1>5 DEF KqueueInv, K!TypeOK, K!Filter
<1>7. ASSUME NEW g \in DOMAIN uservalue' PROVE K!Wanted(g)' = K!Wanted(g)
  <2>1. \A e \in {"r", "w"} : <<g, e>> \in filters'
    BY <1>1, <1>2 DEF KqueueInv, K!Agree
  <2>2. \A e \in {"r", "w"} : <<g, e>> \in enabled' <=> <<g, e>> \in enabled
    BY <1>1, <2>1
  <2> QED
    BY <2>2 DEF K!Wanted
<1>8. KqueueList'
  BY <1>1, <1>2, <1>7 DEF KqueueInv, KqueueList
<1> QED
  BY <1>4, <1>6, <1>7, <1>8 DEF KqueueInv

LEMMA KqueueWait ==
  ASSUME K!KqueueAssumption, KqueueInv, NEW call, K!Wait(call)
  PROVE  KqueueInv'
<1> USE DEF K!setVars
<1>1. UNCHANGED <<filters, enabled, uservalue, idx>> /\ count' = 0
  BY DEF K!Wait
<1>2. K!Agree'
  BY <1>1, SameCardinality DEF KqueueInv, K!Agree
<1>3. \A f \in DOMAIN uservalue' : K!Wanted(f)' # {}
  BY <1>1 DEF KqueueInv, KqueueList, K!Wanted
<1>4. CASE K!WaitEmpty(call)
  <2>1. K!TypeOK'
    BY <1>1, <1>4 DEF K!WaitEmpty, K!P!Unread, KqueueInv, K!TypeOK, K!Filter
  <2>2. list' # NULL => 0 <= Len(list')
    BY <1>4 DEF K!WaitEmpty, KqueueInv, K!TypeOK
  <2>3. KqueueList'
    BY <1>1, <1>3, <1>4, <2>2 DEF K!WaitEmpty, KqueueList
  <2> QED
    BY <1>2, <2>1, <2>3 DEF KqueueInv
<1>5. CASE K!WaitFails(call)
  <2>1. K!TypeOK'
    BY <1>1, <1>5 DEF K!WaitFails, K!P!Unread, KqueueInv, K!TypeOK, K!Filter
  <2>2. KqueueList'
    BY <1>1, <1>3, <1>5 DEF K!WaitFails, KqueueList
  <2> QED
    BY <1>2, <2>1, <2>2 DEF KqueueInv
<1>6. CASE K!WaitFinds(call)
  <2>1. PICK state \in [DOMAIN uservalue -> Readiness] :
           LET S == K!EventsOf(state)
           IN /\ ready' = K!P!Seen(state)
              /\ list' \in Seq(Events(Fd.kqueue)) /\ max' = Len(list') /\ max' \in Nat
              /\ \A k \in 1 .. max' : list'[k] \in S
              /\ \A j, k \in 1 .. max' : list'[j] = list'[k] => j = k
              /\ max' = 0 => S = {} /\ call # "block"
    BY <1>1, <1>6, KqueueFinds
  <2>2. phase' = "events"
    BY <1>6 DEF K!WaitFinds
  <2>3. ready' \in [Fd.kqueue -> SUBSET {"r", "w", "hup"}]
    BY <2>1, KqueueValues DEF K!P!Seen
  <2>4. K!TypeOK'
    BY <1>1, <2>1, <2>2, <2>3 DEF KqueueInv, K!TypeOK, K!Filter, Events
  <2>5. ASSUME NEW k \in 1 .. max' PROVE list'[k].fd \in DOMAIN uservalue
    <3>1. PICK x \in enabled : list'[k] = K!P!EventOf(x[1], {x[2]} \cup (state[x[1]] \cap {"hup"}))
      BY <2>1 DEF K!EventsOf
    <3>2. x[1] \in DOMAIN uservalue
      BY DEF KqueueInv, K!TypeOK, K!Agree
    <3> QED
      BY <3>1, <3>2 DEF K!P!EventOf
  <2>6. list' # NULL
    BY <2>1, KqueueValues
  <2>7. KqueueList'
    BY <1>1, <1>3, <2>1, <2>2, <2>5, <2>6 DEF KqueueList
  <2> QED
    BY <1>2, <2>4, <2>7 DEF KqueueInv
<1> QED
  BY <1>4, <1>5, <1>6 DEF K!Wait

LEMMA KqueueTakes ==
  ASSUME K!KqueueAssumption, KqueueInv, K!Take \/ K!End
  PROVE  KqueueInv'
<1> USE DEF K!setVars
<1>1. K!Agree'
  BY SameCardinality DEF K!Take, K!End, KqueueInv, K!Agree
<1>2. K!TypeOK'
  BY DEF K!Take, K!End, K!P!Unread, KqueueInv, K!TypeOK, K!Filter
<1>3. KqueueList'
  <2>1. CASE K!Take
    <3>1. /\ count' = count + 1 /\ count < max /\ list # NULL
          /\ UNCHANGED <<enabled, uservalue, list, max, phase>>
      BY <2>1 DEF K!Take, KqueueInv, KqueueList, K!TypeOK
    <3>2. \A f \in DOMAIN uservalue' : K!Wanted(f)' # {}
      BY <3>1 DEF KqueueInv, KqueueList, K!Wanted
    <3> QED
      BY <3>1, <3>2 DEF KqueueInv, KqueueList
  <2>2. CASE K!End
    BY <2>2 DEF K!End, KqueueInv, KqueueList, K!Wanted
  <2> QED
    BY <2>1, <2>2
<1> QED
  BY <1>1, <1>2, <1>3 DEF KqueueInv

LEMMA KqueueNext ==
  ASSUME K!KqueueAssumption, NoWrite = {}, ~ InsertTwice.kqueue, KqueueInv, [K!Next]_(K!vars)
  PROVE  KqueueInv'
<1>1. CASE UNCHANGED K!vars
  BY <1>1, KqueueStays DEF K!vars, K!setVars, K!iterVars
<1> QED
  BY <1>1, KqueueInsert, KqueueUpdate, KqueueRemove, KqueueWait, KqueueTakes DEF K!Next

-----------------------------------------------------------------------------
(* What each call of kqueue's is of the set that was promised.             *)

LEMMA KqueueFiles == DOMAIN K!Registered = DOMAIN uservalue
BY DEF K!Registered

LEMMA KqueueStarts == ASSUME K!Init PROVE K!P!Init
<1>1. K!Registered = << >>
  BY DEF K!Init, K!Registered
<1> QED
  BY <1>1 DEF K!Init, K!P!Init, K!Rest

LEMMA KqueueRefuses ==
  ASSUME NoWrite = {}, KqueueInv, NEW f \in Fd.kqueue, NEW w,
         NEW call \in {"insert", "update", "remove"}, K!Refused(call, f, w)
  PROVE  K!P!Next
<1>1. UNCHANGED <<filters, enabled, uservalue, idx, list, max, count, ready, phase>>
  BY KqueueRefused
<1>2. K!P!Refuse(call, f)
  BY <1>1 DEF K!Refused, K!P!Refuse, K!Registered, K!Wanted, K!Rest
<1> QED
  BY <1>2 DEF K!P!Next

LEMMA KqueueInserts ==
  ASSUME K!KqueueAssumption, NoWrite = {}, ~ OmitObj, ~ InsertTwice.kqueue, KqueueInv,
         NEW f \in Fd.kqueue, NEW w \in Wants.kqueue, NEW o \in K!P!Given, K!Insert(f, w, o)
  PROVE  K!P!Next
<1>1. CASE K!Refused("insert", f, w)
  BY <1>1, KqueueRefuses
<1>2. CASE /\ K!Change(f, w, {"r", "w"})
           /\ uservalue' = K!P!Put(uservalue, f, K!Stored(o))
           /\ ret' = K!P!Done("insert", f, w, o)
           /\ UNCHANGED <<list, max, count, ready, phase>>
  <2>1. o # NoObj
    BY KqueueValues DEF K!P!Given
  <2>2. K!Wanted(f)' = w /\ \A g : g # f => K!Wanted(g)' = K!Wanted(g)
    BY <1>2, KqueueChange
  <2>3. /\ DOMAIN uservalue' = DOMAIN uservalue \cup {f} /\ uservalue'[f] = o
        /\ \A g \in DOMAIN uservalue : g # f => uservalue'[g] = uservalue[g]
    BY <1>2, <2>1 DEF K!P!Put, K!Stored
  <2>4. K!Registered' = K!P!Put(K!Registered, f, [want |-> w, obj |-> IF o = NoObj THEN K!P!File(f) ELSE o])
    BY <2>1, <2>2, <2>3 DEF K!P!Put, K!Registered
  <2>5. K!Rest' = K!Rest
    BY <1>2 DEF K!Rest
  <2>6. K!P!Insert(f, w, o)
    BY <1>2, <2>4, <2>5, KqueueFiles DEF K!Insert, K!Present, K!P!Insert, K!P!MayInsert
  <2> QED
    BY <2>6 DEF K!P!Next
<1> QED
  BY <1>1, <1>2 DEF K!Insert, K!iterVars

LEMMA KqueueUpdates ==
  ASSUME K!KqueueAssumption, NoWrite = {}, KqueueInv, NEW f \in Fd.kqueue, NEW w \in Wants.kqueue, K!Update(f, w)
  PROVE  K!P!Next
<1>1. CASE K!Refused("update", f, w)
  BY <1>1, KqueueRefuses
<1>2. CASE /\ K!Change(f, w, {"r", "w"})
           /\ ret' = K!P!Done("update", f, w, NoObj)
           /\ UNCHANGED <<uservalue, idx, list, max, count, ready, phase>>
  <2>1. K!Wanted(f)' = w /\ \A g : g # f => K!Wanted(g)' = K!Wanted(g)
    BY <1>2, KqueueChange
  <2>2. f \in DOMAIN K!Registered
    BY KqueueFiles DEF K!Update, K!P!MayUpdate, K!Present
  <2>3. K!Registered' = [K!Registered EXCEPT ![f].want = w]
    BY <1>2, <2>1, <2>2 DEF K!Registered
  <2>4. K!Rest' = K!Rest
    BY <1>2 DEF K!Rest
  <2>5. K!P!Update(f, w)
    BY <1>2, <2>2, <2>3, <2>4 DEF K!Update, K!P!Update, K!P!MayUpdate
  <2> QED
    BY <2>5 DEF K!P!Next
<1> QED
  BY <1>1, <1>2 DEF K!Update, K!iterVars

LEMMA KqueueRemoves ==
  ASSUME K!KqueueAssumption, KqueueInv, NEW f \in Fd.kqueue, K!Remove(f)
  PROVE  K!P!Next
<1>1. \A g \in DOMAIN uservalue' : K!Wanted(g)' = K!Wanted(g)
  BY KqueueRemove
<1>2. /\ uservalue' = K!Restrict(uservalue, DOMAIN uservalue \ {f})
      /\ ret' = K!P!Answer("remove", f, "ok")
      /\ UNCHANGED <<list, max, count, ready, phase>>
  BY DEF K!Remove, K!iterVars
<1>3. K!Registered' = K!P!Restrict(K!Registered, DOMAIN K!Registered \ {f})
  BY <1>1, <1>2 DEF K!Registered, K!Restrict, K!P!Restrict
<1>4. K!Rest' = K!Rest
  BY <1>2 DEF K!Rest
<1>5. K!P!Remove(f)
  BY <1>2, <1>3, <1>4, KqueueFiles DEF K!Remove, K!Present, K!P!Remove, K!P!MayRemove
<1> QED
  BY <1>5 DEF K!P!Next

LEMMA KqueueWaits ==
  ASSUME K!KqueueAssumption, HungUpIsReady, KqueueInv, NEW call \in {"wait", "block"}, K!Wait(call)
  PROVE  K!P!Next
<1>1. UNCHANGED <<filters, enabled, uservalue, idx>> /\ count' = 0
  BY DEF K!Wait, K!setVars
<1>2. K!Registered' = K!Registered
  BY <1>1 DEF K!Registered, K!Wanted
<1>3. CASE K!WaitEmpty(call)
  <2>1. K!Rest' = {}
    <3>1. 1 .. 0 = {}
      OBVIOUS
    <3> QED
      BY <1>1, <1>3, <3>1 DEF K!WaitEmpty, K!Rest
  <2>2. DOMAIN uservalue = {}
    BY <1>3, KqueueEmpty DEF K!WaitEmpty
  <2>3. K!Registered = << >>
    BY <2>2 DEF K!Registered
  <2>4. K!P!Wait(call)
    BY <1>2, <1>3, <2>1, <2>3 DEF K!WaitEmpty, K!P!Wait
  <2> QED
    BY <2>4 DEF K!P!Next
<1>4. CASE K!WaitFails(call)
  <2>1. K!P!WaitFails(call)
    BY <1>2, <1>4 DEF K!WaitFails, K!P!WaitFails, K!Rest
  <2> QED
    BY <2>1 DEF K!P!Next
<1>5. CASE K!WaitFinds(call)
  <2>1. PICK state \in [DOMAIN uservalue -> Readiness] :
           LET S == K!EventsOf(state)
           IN /\ ready' = K!P!Seen(state)
              /\ list' \in Seq(Events(Fd.kqueue)) /\ max' = Len(list') /\ max' \in Nat
              /\ \A k \in 1 .. max' : list'[k] \in S
              /\ \A j, k \in 1 .. max' : list'[j] = list'[k] => j = k
              /\ max' = 0 => S = {} /\ call # "block"
    BY <1>1, <1>5, KqueueFinds DEF K!setVars
  <2> DEFINE S == K!EventsOf(state)
  <2>2. list' # NULL
    BY <2>1, KqueueValues
  <2>3. K!Rest' = {list'[k] : k \in 1 .. max'}
    BY <1>1, <2>2 DEF K!Rest
  <2>4. (K!Rest' = {}) <=> (max' = 0)
    <3>1. max' # 0 => list'[1] \in K!Rest'
      BY <2>1, <2>3
    <3> QED
      BY <2>1, <2>3, <3>1
  <2>5. ASSUME NEW e \in K!Rest'
        PROVE  /\ e.fd \in DOMAIN K!Registered
               /\ e.got # {}
               /\ e.got \subseteq K!P!Hits(K!Registered[e.fd].want, ready'[e.fd])
    <3>1. e \in S
      BY <2>1, <2>3
    <3>2. PICK x \in enabled : /\ x[2] \in state[x[1]]
                              /\ e = K!P!EventOf(x[1], {x[2]} \cup (state[x[1]] \cap {"hup"}))
      BY <3>1 DEF K!EventsOf
    <3>3. x = <<x[1], x[2]>> /\ x[1] \in DOMAIN uservalue /\ x[1] \in Fd.kqueue /\ x[2] \in {"r", "w"}
      BY DEF KqueueInv, K!TypeOK, K!Agree
    <3>4. e.fd = x[1] /\ e.got = {x[2]} \cup (state[x[1]] \cap {"hup"})
      BY <3>2 DEF K!P!EventOf
    <3>5. ready'[x[1]] = state[x[1]]
      BY <2>1, <3>3 DEF K!P!Seen
    <3>6. x[2] \in K!Registered[x[1]].want
      BY <3>3 DEF K!Registered, K!Wanted
    <3> QED
      BY <3>2, <3>3, <3>4, <3>5, <3>6, KqueueFiles DEF K!P!Hits
  <2>6. ASSUME K!Rest' = {}, NEW f \in DOMAIN K!Registered
        PROVE  K!P!Hits(K!Registered[f].want, ready'[f]) = {}
    <3>1. S = {} /\ f \in DOMAIN uservalue /\ f \in Fd.kqueue
      BY <2>1, <2>4, <2>6, KqueueFiles DEF KqueueInv, K!TypeOK
    <3>2. ready'[f] = state[f] /\ state[f] \in Readiness
      BY <2>1, <3>1 DEF K!P!Seen
    <3>3. K!Registered[f].want = K!Wanted(f) /\ K!Wanted(f) # {} /\ K!Wanted(f) \subseteq {"r", "w"}
      BY <3>1 DEF K!Registered, K!Wanted, KqueueInv, KqueueList
    <3>4. ASSUME NEW e \in K!Wanted(f), e \in state[f] PROVE FALSE
      <4>1. <<f, e>> \in enabled
        BY DEF K!Wanted
      <4>2. K!P!EventOf(f, {e} \cup (state[f] \cap {"hup"})) \in S
        BY <3>4, <4>1 DEF K!EventsOf
      <4> QED
        BY <3>1, <4>2
    <3>5. "hup" \notin state[f]
      BY <3>2, <3>3, <3>4 DEF HungUpIsReady
    <3> QED
      BY <3>2, <3>3, <3>4, <3>5 DEF K!P!Hits
  <2>7. ret' = K!P!Answer(call, NoFd, IF K!Rest' = {} THEN "timeout" ELSE "ok") /\ phase' = "events"
    BY <1>5, <2>4 DEF K!WaitFinds
  <2>8. K!P!Wait(call)
    <3>1. K!Rest' = {} => call # "block"
      BY <2>1, <2>4
    <3> QED
      BY <1>2, <2>5, <2>6, <2>7, <3>1 DEF K!P!Wait
  <2> QED
    BY <2>8 DEF K!P!Next
<1> QED
  BY <1>3, <1>4, <1>5 DEF K!Wait

LEMMA KqueueHandsOut ==
  ASSUME K!KqueueAssumption, KqueueInv, K!Take
  PROVE  K!P!Take
<1> DEFINE e == list[count + 1]
<1>1. /\ list # NULL /\ max <= Len(list) /\ max \in Nat /\ count \in Nat /\ count < max
      /\ phase = "events" /\ count' = count + 1
      /\ UNCHANGED <<filters, enabled, uservalue, list, max, ready, phase>>
      /\ list \in Seq(Events(Fd.kqueue))
  BY DEF K!Take, K!setVars, KqueueInv, KqueueList, K!TypeOK, Events
<1>2. count + 1 \in count + 1 .. max /\ count + 1 \in 1 .. max
  BY <1>1
<1>3. e \in K!Rest /\ e.fd \in DOMAIN uservalue
  BY <1>1, <1>2 DEF K!Rest, KqueueInv, KqueueList
<1>4. K!Rest' = K!Rest \ {e}
  <2>1. ASSUME NEW k \in count + 1 + 1 .. max PROVE list[k] # e
    BY <1>1, <1>2 DEF KqueueInv, KqueueList
  <2>2. count + 1 .. max = {count + 1} \cup (count + 1 + 1 .. max)
    BY <1>1
  <2>3. K!Rest = {e} \cup {list[k] : k \in count + 1 + 1 .. max}
    BY <1>1, <2>2 DEF K!Rest
  <2>4. K!Rest' = {list[k] : k \in count + 1 + 1 .. max}
    BY <1>1 DEF K!Rest
  <2> HIDE DEF e
  <2> QED
    BY <2>1, <2>3, <2>4
<1>5. K!Registered' = K!Registered
  BY <1>1 DEF K!Registered, K!Wanted
<1>6. ret' = K!P!HandOut(e.fd, K!Registered[e.fd].obj, e.got)
  BY <1>3 DEF K!Take, K!Registered
<1> HIDE DEF e
<1> QED
  BY <1>1, <1>3, <1>4, <1>5, <1>6 DEF K!P!Take

LEMMA KqueueEnds ==
  ASSUME K!KqueueAssumption, KqueueInv, K!End
  PROVE  K!P!End
<1>1. K!Registered' = K!Registered /\ K!Rest' = {}
  BY DEF K!End, K!setVars, K!Registered, K!Wanted, K!Rest
<1>2. K!Rest = {}
  BY DEF K!End, K!Rest, KqueueInv, K!TypeOK
<1> QED
  BY <1>1, <1>2 DEF K!End, K!P!End

LEMMA KqueueSteps ==
  ASSUME K!KqueueAssumption, NoWrite = {}, ~ OmitObj, ~ InsertTwice.kqueue, HungUpIsReady,
         KqueueInv, [K!Next]_(K!vars)
  PROVE  [K!P!Next]_(K!P!vars)
<1>1. CASE UNCHANGED K!vars
  BY <1>1 DEF K!vars, K!setVars, K!iterVars, K!P!vars, K!Registered, K!Wanted, K!Rest
<1>2. CASE K!Take \/ K!End
  BY <1>2, KqueueHandsOut, KqueueEnds DEF K!P!Next
<1> QED
  BY <1>1, <1>2, KqueueInserts, KqueueUpdates, KqueueRemoves, KqueueWaits DEF K!Next

\* The parts of a kqueue set stay of their types.
THEOREM KqueueTypes ==
  ASSUME K!KqueueAssumption, NoWrite = {}, ~ InsertTwice.kqueue PROVE K!Spec => []K!TypeOK
<1>1. KqueueInv => K!TypeOK
  BY DEF KqueueInv
<1> QED
  BY KqueueInit, KqueueNext, <1>1, PTL DEF K!Spec

\* Both filters of each file of a kqueue set, and no others, are in the kernel, and
\* #set is the number of files: for files that can be watched for both.
THEOREM KqueueAgrees ==
  ASSUME K!KqueueAssumption, NoWrite = {}, ~ InsertTwice.kqueue PROVE K!Spec => []K!Agree
<1>1. KqueueInv => K!Agree
  BY DEF KqueueInv
<1> QED
  BY KqueueInit, KqueueNext, <1>1, PTL DEF K!Spec

\* For files that can be watched for reading and for writing, and are inserted once
\* and with their objects, kqueue does what the comment of src/pollset.c promises,
\* though a file's two filters may be found one at a time.
THEOREM KqueueImplements ==
  ASSUME K!KqueueAssumption, NoWrite = {}, ~ OmitObj, ~ InsertTwice.kqueue, HungUpIsReady
  PROVE  K!Spec => K!ImplementsPollset
BY KqueueInit, KqueueNext, KqueueStarts, KqueueSteps, PTL DEF K!Spec, K!ImplementsPollset, K!P!Spec
-----------------------------------------------------------------------------
(* The set that a program has.                                             *)

PollsetsInv == impl \in Implementations /\ Each(EpollInv, KqueueInv, PollInv, SelectInv)

LEMMA PollsetsInit == ASSUME PollsetsAssumption, AnyInit PROVE PollsetsInv
BY EpollInit, KqueueInit, PollInit, SelectInit DEF PollsetsAssumption, AnyInit, PollsetsInv, Each

\* A step of the set is one of the implementation there is.
LEMMA OneSteps ==
  ASSUME [AnyNext]_anyVars
  PROVE  impl' = impl /\ Each([E!Next]_(E!vars), [K!Next]_(K!vars), [A!Next]_(A!vars), [L!Next]_(L!vars))
<1>1. CASE AnyNext
  BY <1>1, Zenon DEF AnyNext, EpollStep, KqueueStep, PollStep, SelectStep, Each
<1>2. CASE UNCHANGED anyVars
  BY <1>2 DEF anyVars, listVars, kqueueVars, selectVars, Each, E!vars, E!setVars, E!iterVars,
     K!vars, K!setVars, K!iterVars, A!vars, A!setVars, L!vars, L!setVars
<1> QED
  BY <1>1, <1>2

LEMMA PollsetsNext ==
  ASSUME PollsetsAssumption, PollsetsInv, [AnyNext]_anyVars PROVE PollsetsInv'
<1>1. impl' = impl
  BY OneSteps
<1>2. impl = "epoll" => EpollInv'
  BY OneSteps, EpollNext DEF PollsetsAssumption, PollsetsInv, Each
<1>3. impl = "kqueue" => KqueueInv'
  BY OneSteps, KqueueNext DEF PollsetsAssumption, PollsetsInv, Each
<1>4. impl = "poll" => PollInv'
  BY OneSteps, PollNext DEF PollsetsAssumption, PollsetsInv, Each
<1>5. impl = "select" => SelectInv'
  BY OneSteps, SelectNext DEF PollsetsAssumption, PollsetsInv, Each
<1> QED
  BY <1>1, <1>2, <1>3, <1>4, <1>5 DEF PollsetsInv, Each

LEMMA PollsetsStep ==
  ASSUME PollsetsAssumption, CallersAssumption, PollsetsInv, [AnyNext]_anyVars PROVE PromisedStep
<1> USE DEF PollsetsAssumption, CallersAssumption, PollsetsInv, Each
<1>1. impl = "epoll" => [E!P!Next]_(E!P!vars)
  BY OneSteps, EpollSteps
<1>2. impl = "kqueue" => [K!P!Next]_(K!P!vars)
  BY OneSteps, KqueueSteps
<1>3. impl = "poll" => [A!P!Next]_(A!P!vars)
  BY OneSteps, PollSteps
<1>4. impl = "select" => [L!P!Next]_(L!P!vars)
  BY OneSteps, SelectSteps
<1> QED
  BY <1>1, <1>2, <1>3, <1>4 DEF PromisedStep

\* Whichever implementation a program has, each of its parts stays of its type:
\* for poll, the array within the limit on open files.
THEOREM PollsetTypes == ASSUME PollsetsAssumption PROVE AnySpec => []AnyTyped
<1>1. PollsetsInv => AnyTyped
  BY DEF PollsetsInv, AnyTyped, Each, EpollInv, KqueueInv, PollInv, SelectInv
<1> QED
  BY PollsetsInit, PollsetsNext, <1>1, PTL DEF AnySpec

\* Whichever implementation a program has, what the kernel, the userdata and the
\* uservalue say of the files in the set agrees, after all calls.
THEOREM PollsetAgrees == ASSUME PollsetsAssumption PROVE AnySpec => []Agree
<1>1. PollsetsInv => Agree
  BY DEF PollsetsInv, Agree, Each, EpollInv, KqueueInv, PollInv, SelectInv
<1> QED
  BY PollsetsInit, PollsetsNext, <1>1, PTL DEF AnySpec

\* The iterator of epoll reads what the kernel filled in.
THEOREM PollsetListValid == ASSUME PollsetsAssumption PROVE AnySpec => []ListValid
<1>1. PollsetsInv => ListValid
  BY DEF PollsetsInv, ListValid, Each, EpollInv, EpollList, E!ListValid, E!TypeOK
<1> QED
  BY PollsetsInit, PollsetsNext, <1>1, PTL DEF AnySpec

\* Whichever implementation a program has does what the comment of src/pollset.c
\* promises of all: they can be exchanged under lua/nfl.lua.
THEOREM PollsetImplements ==
  ASSUME PollsetsAssumption, CallersAssumption PROVE AnySpec => ImplementsPollset
<1>1. AnyInit => Promised
  BY EpollStarts, KqueueStarts, PollStarts, SelectStarts DEF AnyInit, Promised, Each
<1> QED
  BY PollsetsInit, PollsetsNext, PollsetsStep, <1>1, PTL DEF AnySpec, ImplementsPollset
=============================================================================
