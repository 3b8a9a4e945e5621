-------------------------------- MODULE Nfl ---------------------------------
(***************************************************************************)
(* The event loop of lua/nfl.lua with the coroutines it runs.              *)
(*                                                                         *)
(* One pass of eventloop() tests done_f(), moves the coroutines whose      *)
(* timers are due to the run queue, waits on the pollset, gives the events *)
(* to their handlers and runs the coroutines of the run queue until it is  *)
(* empty.  The timers are those of TimerBag, which TimeoutQueue implements.*)
(* A running coroutine may call anything the module exports, in any order; *)
(* the handlers are those of lua/nfl/tcp.lua, reduced to what they do to   *)
(* the event loop.                                                         *)
(***************************************************************************)
EXTENDS TimerBag, Integers, Sequences, FiniteSets

CONSTANTS NoInfo,     \* nil: the coroutine has no entry in TOQUEUE's hash part
          Client,     \* TRUE for client_eventloop, FALSE for server_eventloop
          MayStop,    \* whether the caller's done_f may ever return true
          Listening,  \* whether a listening socket is in the pollset
          Kicks,      \* who may call schedule() for whom
          Nested,     \* whether timeout() is called again before timeout(0)
          MaxLag,     \* bound: the time a pass may take besides the wait
          Horizon     \* bound: the clock stops there

ASSUME NflAssumption ==
  /\ Delays \subseteq Nat \ {0}
  /\ MaxClock \in Nat
  /\ MaxLag \in Nat
  /\ Horizon \in Nat
  /\ MaxClock <= Horizon
  /\ NoInfo \notin Info
  /\ Garbage \notin Entry
  /\ {Client, MayStop, Listening, Nested} \subseteq BOOLEAN
  /\ Kicks \subseteq Co \X Co

VARIABLES index,      \* TOQUEUE[co]
          status,     \* coroutine.status(co); "none" before it is created
          ref, refn,  \* REFQUEUE and REFQUEUE._n
          runq,       \* the array part of RUNQUEUE: who is scheduled, and why
          flag,       \* the hash part of RUNQUEUE: who is in the array
          socks,      \* coroutines with a socket in SOCKETS
          pc,         \* where the loop is
          now,        \* eventloop's `now'
          timeout,    \* eventloop's `timeout'
          until,      \* when the wait returns without an event
          events,     \* events the wait returned, not yet handled
          timing      \* coroutines between a timeout(when) and a timeout(0)

timerVars == <<clock, pending, info, index, timing>>
queueVars == <<ref, refn, runq, flag, status>>
loopVars  == <<pc, now, timeout, until, events, socks>>
vars == <<timerVars, queueVars, loopVars>>

Never  == -1
Accept == "accept"
Reason == {"spawn", "timer", "event", "kick"}

Armed(i) == i \in pending /\ info[i].trigger
Alive(co) == status[co] \in {"suspended", "running"}

TypeOK == /\ clock \in 0 .. Horizon
          /\ pending \subseteq Info
          /\ info \in [Info -> Entry \cup {Garbage}]
          /\ index \in [Co -> Info \cup {NoInfo}]
          /\ status \in [Co -> {"none", "suspended", "running", "dead"}]
          /\ ref \subseteq Co
          /\ refn \in Nat
          /\ runq \in Seq([co : Co, by : Reason])
          /\ flag \in [Co -> BOOLEAN]
          /\ socks \subseteq Co
          /\ pc \in {"top", "drain", "poll", "wait", "events", "run", "co",
                     "returned", "failed"}
          /\ now \in 0 .. Horizon
          /\ timeout \in Int
          /\ until \in Nat \cup {Never}
          /\ events \subseteq Co \cup {Accept}
          /\ timing \subseteq Co

\* The program has created some coroutines before it starts the loop.
Init == /\ BagInit
        /\ index = [co \in Co |-> NoInfo]
        /\ \E first \in Co :
              /\ status = [co \in Co |-> IF co = first THEN "suspended" ELSE "none"]
              /\ ref = {first}
              /\ runq = <<[co |-> first, by |-> "spawn"]>>
              /\ flag = [co \in Co |-> co = first]
        /\ refn = 1
        /\ socks = {}
        /\ pc = "top"
        /\ now = 0
        /\ timeout = Never
        /\ until = Never
        /\ events = {}
        /\ timing = {}
-----------------------------------------------------------------------------
Goto(label) == pc' = label

\* A run queue that is a stack.
ScheduleFirst(co, why) ==
  IF flag[co] THEN UNCHANGED <<runq, flag>>
  ELSE /\ runq' = <<[co |-> co, by |-> why]>> \o runq
       /\ flag' = [flag EXCEPT ![co] = TRUE]

\* schedule(co, ...): the second of two calls is dropped, with its arguments.
Schedule(co, why) ==
  IF flag[co] THEN UNCHANGED <<runq, flag>>
  ELSE /\ runq' = Append(runq, [co |-> co, by |-> why])
       /\ flag' = [flag EXCEPT ![co] = TRUE]

\* REFQUEUE keeps a coroutine from spawn() until it is dead.
RetainUncounted(co) == ref' = ref \cup {co} /\ UNCHANGED refn

Retain(co) == ref' = ref \cup {co} /\ refn' = refn + 1

ReleaseNone(co) == UNCHANGED <<ref, refn>>

Release(co) == ref' = ref \ {co} /\ refn' = refn - 1

\* spawn(f, ...)
Spawn(co) ==
  /\ status[co] = "none"
  /\ status' = [status EXCEPT ![co] = "suspended"]
  /\ Retain(co)
  /\ Schedule(co, "spawn")

DoneWhenIdle == Client /\ runq = <<>>

Done == Client /\ refn = 0

ReadNoClock == UNCHANGED now

ReadClock == now' = clock

\* The start of a pass: done_f() is tested, then the clock is read.
Top == /\ pc = "top"
       /\ \/ /\ MayStop \/ Done
             /\ Goto("returned")
             /\ UNCHANGED <<now, timeout>>
          \/ /\ ~ Done
             /\ Goto("drain")
             /\ ReadClock
             /\ timeout' = Never
       /\ UNCHANGED <<timerVars, queueVars, until, events, socks>>

\* One turn of the loop that takes due and cancelled timers off TOQUEUE.
\* The entry that leaves takes the coroutine's index entry with it.
Expire(i) ==
  /\ Earliest(i)
  /\ pending' = pending \ {i}
  /\ info' = [info EXCEPT ![i] = Garbage]
  /\ index' = [index EXCEPT ![info[i].co] = NoInfo]
  /\ UNCHANGED <<clock, timing>>

DueSoon(i) == info[i].trigger /\ info[i].awake <= now + 1

Due(i) == info[i].trigger /\ info[i].awake <= now

\* The coroutine of the timer is scheduled, unless it is dead.
Wake(i) == IF status[info[i].co] # "dead" THEN Schedule(info[i].co, "timer")
                                          ELSE UNCHANGED <<runq, flag>>

DrainDue == /\ pc = "drain"
            /\ \E i \in pending :
                  /\ Due(i)
                  /\ Expire(i)
                  /\ timeout' = info[i].awake - now
                  /\ Wake(i)
            /\ UNCHANGED <<ref, refn, status, pc, now, until, events, socks>>

DrainCancelled == /\ pc = "drain"
                  /\ \E i \in pending : ~ info[i].trigger /\ Expire(i)
                  /\ UNCHANGED <<queueVars, loopVars>>

\* The first timer is armed and not due yet.
FirstLater(i) == Earliest(i) /\ info[i].trigger /\ ~ Due(i)

DrainEnd == /\ pc = "drain"
            /\ \/ pending = {} /\ UNCHANGED timeout
               \/ \E i \in pending : FirstLater(i) /\ timeout' = info[i].awake - now
            /\ Goto("poll")
            /\ UNCHANGED <<timerVars, queueVars, now, until, events, socks>>

TimerLimit == timeout

\* The argument of SOCKETS:wait(): with something to run it is not to block.
Limit == IF runq # <<>> THEN 0 ELSE timeout

StartWait ==
  /\ pc = "poll"
  /\ until' = IF Limit < 0 THEN Never ELSE clock + Limit
  /\ Goto("wait")
  /\ UNCHANGED <<timerVars, queueVars, now, timeout, events, socks>>

Listener == IF Listening THEN {Accept} ELSE {}

\* It returns events, if there are sockets; nothing, once the time is up or at
\* once if there are no sockets; or an error, such as EINTR.
WaitEvents == /\ pc = "wait"
              /\ events' \in (SUBSET (socks \cup Listener)) \ {{}}
              /\ Goto("events")
              /\ UNCHANGED <<timerVars, queueVars, now, timeout, until, socks>>

TimeUp == \/ until # Never /\ clock >= until
          \/ socks \cup Listener = {}

WaitNothing == /\ pc = "wait"
               /\ TimeUp
               /\ Goto("events")
               /\ UNCHANGED <<timerVars, queueVars, now, timeout, until, events, socks>>

WaitError == /\ pc = "wait"
             /\ socks \cup Listener # {}
             /\ Goto("top")
             /\ UNCHANGED <<timerVars, queueVars, now, timeout, until, events, socks>>

\* The handler of a connection schedules the connection's coroutine, dead or
\* alive; it does not when the socket turns out to have nothing to read.
HandleEvent == /\ pc = "events"
               /\ \E co \in events \ {Accept} :
                     /\ events' = events \ {co}
                     /\ \/ Schedule(co, "event")
                        \/ UNCHANGED <<runq, flag>>
               /\ UNCHANGED <<timerVars, ref, refn, status, pc, now, timeout, until, socks>>

\* The handler of a listening socket accepts a connection, creates its
\* coroutine and puts it in the pollset, or logs that accept() failed.
HandleAccept == /\ pc = "events"
                /\ Accept \in events
                /\ events' = events \ {Accept}
                /\ \/ \E co \in Co : Spawn(co) /\ socks' = socks \cup {co}
                   \/ UNCHANGED <<queueVars, socks>>
                /\ UNCHANGED <<timerVars, pc, now, timeout, until>>

EndEvents == /\ pc = "events"
             /\ events = {}
             /\ Goto("run")
             /\ UNCHANGED <<timerVars, queueVars, now, timeout, until, events, socks>>

KeepFlag(co) == UNCHANGED flag

Unflag(co) == flag' = [flag EXCEPT ![co] = FALSE]

ReleaseDead == refn' = refn - 1 /\ UNCHANGED ref

\* A dead coroutine that was scheduled is not counted again.
SkipDead == UNCHANGED <<ref, refn>>

\* The next coroutine of the run queue is resumed, or dropped if it is dead.
Resume == /\ pc = "run"
          /\ runq # <<>>
          /\ LET co == Head(runq).co
             IN /\ Unflag(co)
                /\ IF status[co] = "suspended"
                   THEN /\ status' = [status EXCEPT ![co] = "running"]
                        /\ Goto("co")
                        /\ UNCHANGED <<ref, refn>>
                   ELSE SkipDead /\ UNCHANGED <<status, pc>>
          /\ runq' = Tail(runq)
          /\ UNCHANGED <<timerVars, now, timeout, until, events, socks>>

EndRun == /\ pc = "run"
          /\ runq = <<>>
          /\ Goto("top")
          /\ UNCHANGED <<timerVars, queueVars, now, timeout, until, events, socks>>
-----------------------------------------------------------------------------
(* What the running coroutine may do.                                       *)

Running(co) == pc = "co" /\ status[co] = "running"

\* timeout(when, ...), when # 0
CoArm(co) ==
  /\ Running(co)
  /\ co \notin timing \/ Nested
  /\ \E when \in Delays : Arm(co, when)
  /\ index' = [index EXCEPT ![co] = CHOOSE i \in pending' : i \notin pending]
  /\ timing' = timing \cup {co}
  /\ UNCHANGED <<queueVars, loopVars>>

\* timeout(0)
CoCancel(co) ==
  /\ Running(co)
  /\ info' = IF index[co] = NoInfo THEN info
             ELSE [info EXCEPT ![index[co]].trigger = FALSE]
  /\ timing' = timing \ {co}
  /\ UNCHANGED <<clock, pending, index, queueVars, loopVars>>

CoSpawn(co) == /\ Running(co)
               /\ \E new \in Co : Spawn(new)
               /\ UNCHANGED <<timerVars, loopVars>>

CoKick(co) == /\ Running(co)
              /\ \E other \in Co : /\ <<co, other>> \in Kicks
                                   /\ status[other] # "none"
                                   /\ Schedule(other, "kick")
              /\ UNCHANGED <<timerVars, ref, refn, status, loopVars>>

\* SOCKETS:insert() and SOCKETS:remove() of the coroutine's own socket.
CoSocket(co) == /\ Running(co)
                /\ socks' = IF co \in socks THEN socks \ {co} ELSE socks \cup {co}
                /\ UNCHANGED <<timerVars, queueVars, pc, now, timeout, until, events>>

CoYield(co) == /\ Running(co)
               /\ status' = [status EXCEPT ![co] = "suspended"]
               /\ Goto("run")
               /\ UNCHANGED <<timerVars, ref, refn, runq, flag, now, timeout, until,
                              events, socks>>

\* The coroutine returns or crashes: the reference to it is given up.
CoEnd(co) == /\ Running(co)
             /\ status' = [status EXCEPT ![co] = "dead"]
             /\ IF refn > 0
                THEN Release(co) /\ Goto("run")
                ELSE UNCHANGED <<ref, refn>> /\ Goto("failed")
             /\ UNCHANGED <<timerVars, runq, flag, now, timeout, until, events, socks>>

CoStep(co) == \/ CoArm(co) \/ CoCancel(co) \/ CoSpawn(co) \/ CoKick(co)
              \/ CoSocket(co) \/ CoYield(co) \/ CoEnd(co)
-----------------------------------------------------------------------------
\* Time passes during the wait and, within the bound, anywhere else.
Tick == /\ clock < Horizon
        /\ pc = "wait" \/ clock - now < MaxLag
        /\ clock' = clock + 1
        /\ UNCHANGED <<pending, info, index, timing, queueVars, loopVars>>

Stopped == pc \in {"returned", "failed"} /\ UNCHANGED vars

Drain == DrainDue \/ DrainCancelled \/ DrainEnd
WaitReturn == WaitEvents \/ WaitNothing
Handle == HandleEvent \/ HandleAccept \/ EndEvents

Next == \/ Top \/ Drain \/ StartWait \/ WaitReturn \/ WaitError \/ Handle
        \/ Resume \/ EndRun
        \/ \E co \in Co : CoStep(co)
        \/ Tick \/ Stopped

Spec == Init /\ [][Next]_vars

\* The loop itself keeps going, time passes, a wait whose time is up returns
\* and does not fail each time, and a coroutine gives up control at some point:
\* they are scheduled cooperatively.  No event ever has to arrive.
Fairness == /\ WF_vars(Top \/ Drain \/ StartWait \/ Handle \/ Resume \/ EndRun)
            /\ SF_vars(TimeUp /\ WaitReturn)
            /\ SF_vars(Tick)
            /\ \A co \in Co : WF_vars(CoYield(co) \/ CoEnd(co))

FairSpec == Spec /\ Fairness
-----------------------------------------------------------------------------
Queued(co) == \E k \in DOMAIN runq : runq[k].co = co

\* The two parts of RUNQUEUE agree: a coroutine is flagged exactly while it is
\* in the array, and it is there once.  A stale flag would make schedule()
\* ignore the coroutine for ever; a missing one would run it twice for one
\* reason.
RunQueueSound ==
  /\ \A co \in Co : flag[co] <=> Queued(co)
  /\ \A j, k \in DOMAIN runq : runq[j].co = runq[k].co => j = k

\* REFQUEUE holds the coroutines that can still run and _n counts them, so that
\* client_eventloop() returns when and only when the last one is gone.
RefCount == /\ ref = {co \in Co : Alive(co)}
            /\ refn = Cardinality(ref)

\* The assertion before the count is decremented never fails.
NoFailure == pc # "failed"

\* client_eventloop() does not leave a coroutine behind, unless done_f says so.
NoneLeft == pc = "returned" /\ Client /\ ~ MayStop => \A co \in Co : ~ Alive(co)

\* The wait never blocks while a coroutine is scheduled, nor past the time of
\* an armed timer, save for the time the pass took between reading the clock
\* and calling wait().
SleepSafe ==
  pc = "wait" /\ (until = Never \/ until > clock) =>
     /\ runq = <<>>
     /\ \A i \in Info : Armed(i) => until # Never /\ until <= info[i].awake + MaxLag

\* An armed timer leaves the queue when it is due and its coroutine, unless
\* dead, is then in the run queue: no timer is lost on the way.
TimerDelivered ==
  [][\A i \in Info : Armed(i) /\ i \notin pending' =>
        /\ info[i].awake <= clock
        /\ status[info[i].co] = "dead" \/ flag'[info[i].co]]_vars

\* The run queue is served in order: whoever is scheduled gets its turn, even
\* when another schedules itself again each time it runs, so that the run queue
\* never becomes empty and the pass never ends.
EveryoneRuns == \A co \in Co : flag[co] ~> ~ flag[co]

\* The coroutines let the run queue become empty time and again.  Those that
\* always schedule themselves again do not: then the pass never ends.
RunsOut == []<>(pc # "co" /\ runq = <<>>)

\* An armed timer fires or is cancelled, however many events keep the loop
\* busy, if the coroutines let the run queue become empty, unless the loop
\* returns.
TimersFire == RunsOut => \A i \in Info : Armed(i) ~> ~ Armed(i) \/ pc = "returned"

\* Once no coroutine is left client_eventloop() returns; it does not wait for
\* sockets that were left in the pollset.
ClientReturns == (\A co \in Co : ~ Alive(co)) ~> pc = "returned"

\* lua/nfl/tcp.lua, connecta(): "When we return, it's connected (unless we're
\* optionally timing out the operation)": a coroutine that is not timing out
\* an operation is not resumed by a timer.
NoStaleTimer ==
  [][pc = "run" /\ pc' = "co" /\ Head(runq).by = "timer" => Head(runq).co \in timing]_vars
=============================================================================
