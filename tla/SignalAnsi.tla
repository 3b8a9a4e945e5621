----------------------------- MODULE SignalAnsi ------------------------------
(***************************************************************************)
(* The ANSI implementation of src/signal.c, for systems without POSIX      *)
(* signals.  As in Signal a C handler, which may come between any two      *)
(* steps of the program, notes the signal and sets a Lua hook; but nothing *)
(* can be blocked, and where signal() is as it was in System V the kernel  *)
(* forgets the C handler when it calls it.  A signal that nobody handles   *)
(* ends the process.                                                       *)
(***************************************************************************)
EXTENDS Naturals, Sequences, FiniteSets

CONSTANTS MAX_SIG,     \* signals, from 1
          Refused,     \* those that signal() gives SIG_ERR for
          Func, NoRef, \* references to functions; LUA_NOREF
          MaxRaised    \* bound: how many signals come in

Sig == 1 .. MAX_SIG

SignalAnsiAssumption == /\ MAX_SIG \in Nat \ {0} /\ Refused \subseteq Sig /\ MaxRaised \in Nat
                               /\ NoRef \notin Func
                               /\ IsFiniteSet(Func) /\ Cardinality(Func) > MAX_SIG

VARIABLES resets,                     \* the kernel forgets the C handler
          way,                        \* what it does about each signal
          m_signal, m_handlers, hook, \* hook: luasigbackend is set
          funcs,                      \* references held in the Lua registry
          frames,                     \* the C handlers that are running
          at, scan, call,             \* the program: see Signal
          raised,                     \* how many signals came in
          asked,                      \* what the program asked for last
          unheard,                    \* signals noted that nobody was told of
          abandoned,                  \* an error left luasigbackend early
          killed                      \* the signal that ended the process, or 0

kernelVars == <<resets, way, raised, killed>>
tableVars  == <<m_handlers, funcs, asked>>
placeVars  == <<at, scan, call>>
vars == <<kernelVars, m_signal, hook, tableVars, frames, placeVars, unheard, abandoned>>

Unused == [fref |-> NoRef, triggered |-> FALSE]
NoCall == [op |-> "none"]

Init == /\ resets \in BOOLEAN
        /\ way = [s \in Sig |-> "default"] /\ asked = way
        /\ m_signal = FALSE /\ hook = FALSE
        /\ m_handlers = [s \in Sig |-> Unused]
        /\ funcs = {} /\ frames = << >>
        /\ at = "lua" /\ scan = 0 /\ call = NoCall
        /\ raised = 0 /\ unheard = {} /\ abandoned = FALSE /\ killed = 0
-----------------------------------------------------------------------------
(* The kernel, and signal_handler().                                       *)

Handling == {frames[k].sig : k \in 1 .. Len(frames)}

\* raise(), the kernel or the user.  A signal that is blocked while its own C
\* handler runs is as if it came later.
Raise(s) ==
  /\ raised < MaxRaised /\ way[s] # "ignore"
  /\ raised' = raised + 1
  /\ CASE way[s] = "default" -> killed' = s /\ UNCHANGED <<way, frames>>
       [] way[s] = "handler" -> /\ s \notin Handling
                                /\ frames' = Append(frames, [sig |-> s, at |-> "hook"])
                                /\ way' = IF resets THEN [way EXCEPT ![s] = "default"] ELSE way
                                /\ UNCHANGED killed
  /\ UNCHANGED <<resets, m_signal, hook, tableVars, placeVars, unheard, abandoned>>

top == frames[Len(frames)]
GoOn(label) == frames' = [frames EXCEPT ![Len(frames)].at = label]

SetHook == /\ top.at = "hook"
           /\ hook' = TRUE
           /\ GoOn("note")
           /\ UNCHANGED <<kernelVars, m_signal, tableVars, placeVars, unheard, abandoned>>

Note == /\ top.at = "note"
        /\ m_signal' = TRUE
        /\ m_handlers' = [m_handlers EXCEPT ![top.sig].triggered = TRUE]
        /\ unheard' = unheard \cup {top.sig}
        /\ abandoned' = FALSE
        /\ GoOn("again")
        /\ UNCHANGED <<kernelVars, hook, funcs, asked, placeVars>>

\* "We then re-establish the signal handler".
Again == way' = [way EXCEPT ![top.sig] = "handler"]

Return == /\ top.at = "again"
          /\ Again
          /\ frames' = SubSeq(frames, 1, Len(frames) - 1)
          /\ UNCHANGED <<resets, raised, killed, m_signal, hook, tableVars, placeVars, unheard, abandoned>>

HandlerStep == frames # << >> /\ (SetHook \/ Note \/ Return)
-----------------------------------------------------------------------------
(* luasigbackend().                                                        *)

InProgram == frames = << >>
Lua == InProgram /\ at = "lua"
Goto(label) == at' = label

\* The hook is cleared first.  A signal that comes between the test of m_signal
\* and what follows is as if it came before or after both.
RunHook == /\ Lua /\ hook /\ scan = 0
           /\ hook' = FALSE
           /\ scan' = 1
           /\ Goto("while")
           /\ UNCHANGED <<kernelVars, m_signal, tableVars, frames, call, unheard, abandoned>>

While == /\ InProgram /\ at = "while"
         /\ m_signal' = FALSE
         /\ IF m_signal THEN scan' = 1 /\ Goto("scan") ELSE scan' = 0 /\ Goto("lua")
         /\ UNCHANGED <<kernelVars, hook, tableVars, frames, call, unheard, abandoned>>

HasHandler(s) == m_handlers[s].fref # NoRef
Noted(s) == m_handlers[s].triggered

CallHandler == /\ InProgram /\ at = "scan" /\ scan \in Sig
               /\ Noted(scan) /\ HasHandler(scan)
               /\ m_handlers' = [m_handlers EXCEPT ![scan].triggered = FALSE]
               /\ unheard' = unheard \ {scan}
               /\ Goto("lua")
               /\ UNCHANGED <<kernelVars, m_signal, hook, funcs, asked, frames, scan, call, abandoned>>

SkipSignal == /\ InProgram /\ at = "scan"
              /\ IF scan \in Sig THEN /\ ~ (Noted(scan) /\ HasHandler(scan))
                                      /\ scan' = scan + 1 /\ UNCHANGED at
                 ELSE Goto("while") /\ UNCHANGED scan
              /\ UNCHANGED <<kernelVars, m_signal, hook, tableVars, frames, call, unheard, abandoned>>

\* The Lua handler returns, or fails, and then the backend is left.
HandlerEnds == /\ Lua /\ scan # 0
               /\ \/ scan' = scan + 1 /\ Goto("scan") /\ UNCHANGED abandoned
                  \/ scan' = 0 /\ abandoned' = ~ m_signal /\ UNCHANGED at
               /\ UNCHANGED <<kernelVars, m_signal, hook, tableVars, frames, call, unheard>>

Backend == RunHook \/ While \/ CallHandler \/ SkipSignal \/ HandlerEnds
-----------------------------------------------------------------------------
(* The calls of the program and of its Lua handlers.                       *)

\* ignore() and default() have as many turns as there are arguments.
BeginCall ==
  /\ Lua /\ (hook => scan # 0)
  /\ call' \in [op : {"catch"}, sig : Sig, fn : BOOLEAN, old : {Unused}]
                 \cup [op : {"ignore", "default"}, sig : Sig, turns : 1 .. 2]
                 \cup [op : {"caught"}, todo : {Sig} \cup {{s} : s \in Sig}]
  /\ Goto("call")
  /\ UNCHANGED <<kernelVars, m_signal, hook, tableVars, frames, scan, unheard, abandoned>>

Doing(ops, label) == InProgram /\ at = label /\ call.op \in ops
Finish == at' = "lua" /\ call' = NoCall

\* catch() replaces the entry, calls signal(), and puts it back if that fails.
Install ==
  /\ Doing({"catch"}, "call")
  /\ \E r \in IF call.fn THEN {CHOOSE r \in Func : r \notin funcs} ELSE {NoRef} :
        /\ m_handlers' = [m_handlers EXCEPT ![call.sig] = [Unused EXCEPT !.fref = r]]
        /\ funcs' = funcs \cup ({r} \ {NoRef})
  /\ call' = [call EXCEPT !.old = m_handlers[call.sig]]
  /\ unheard' = unheard \ {call.sig}
  /\ Goto("installed")
  /\ UNCHANGED <<kernelVars, m_signal, hook, asked, frames, scan, abandoned>>

CatchDone ==
  /\ Doing({"catch"}, "installed") /\ call.sig \notin Refused
  /\ way' = [way EXCEPT ![call.sig] = "handler"]
  /\ asked' = [asked EXCEPT ![call.sig] = "handler"]
  /\ funcs' = funcs \ {call.old.fref}
  /\ Finish
  /\ UNCHANGED <<resets, raised, killed, m_signal, hook, m_handlers, frames, scan, unheard, abandoned>>

CatchFails ==
  /\ Doing({"catch"}, "installed") /\ call.sig \in Refused
  /\ m_handlers' = [m_handlers EXCEPT ![call.sig] = call.old]
  /\ funcs' = funcs \ {m_handlers[call.sig].fref}
  /\ Finish
  /\ UNCHANGED <<kernelVars, m_signal, hook, asked, frames, scan, unheard, abandoned>>

\* Each turn of ignore() and default() looks at the first argument again.
GiveUp ==
  /\ Doing({"ignore", "default"}, "call")
  /\ way' = IF call.sig \in Refused THEN way ELSE [way EXCEPT ![call.sig] = call.op]
  /\ asked' = [asked EXCEPT ![call.sig] = way'[call.sig]]
  /\ Goto("clear")
  /\ UNCHANGED <<resets, raised, killed, m_signal, hook, m_handlers, funcs, frames, scan, call, unheard, abandoned>>

ClearEntry ==
  /\ Doing({"ignore", "default"}, "clear")
  /\ funcs' = funcs \ {m_handlers[call.sig].fref}
  /\ m_handlers' = [m_handlers EXCEPT ![call.sig] = Unused]
  /\ unheard' = unheard \ {call.sig}
  /\ IF call.turns = 1 THEN Finish ELSE Goto("call") /\ call' = [call EXCEPT !.turns = @ - 1]
  /\ UNCHANGED <<kernelVars, m_signal, hook, asked, frames, scan, abandoned>>

\* A signal that is noted between the two steps is lost.
First == CHOOSE s \in call.todo : \A t \in call.todo : s <= t

ReadCaught ==
  /\ Doing({"caught"}, "call")
  /\ unheard' = IF Noted(First) THEN unheard \ {First} ELSE unheard
  /\ Goto("clear")
  /\ UNCHANGED <<kernelVars, m_signal, hook, tableVars, frames, scan, call, abandoned>>

ClearCaught ==
  /\ Doing({"caught"}, "clear")
  /\ m_handlers' = [m_handlers EXCEPT ![First].triggered = FALSE]
  /\ IF call.todo = {First} THEN Finish ELSE Goto("call") /\ call' = [call EXCEPT !.todo = @ \ {First}]
  /\ UNCHANGED <<kernelVars, m_signal, hook, funcs, asked, frames, scan, unheard, abandoned>>

Call == \/ Install \/ CatchDone \/ CatchFails \/ GiveUp \/ ClearEntry
        \/ ReadCaught \/ ClearCaught

Next == /\ killed = 0
        /\ (\E s \in Sig : Raise(s)) \/ HandlerStep \/ Backend \/ BeginCall \/ Call

Spec == Init /\ [][Next]_vars
-----------------------------------------------------------------------------
TypeOK == /\ way \in [Sig -> {"default", "ignore", "handler"}]
          /\ \A s \in Sig : m_handlers[s].fref \in Func \cup {NoRef}
          /\ scan \in 0 .. MAX_SIG + 1 /\ Cardinality(funcs) <= MAX_SIG + 1

\* A signal that was noted and has a Lua handler is not forgotten, at whichever
\* step it came in; a Lua handler that fails leaves the others until the next.
NotForgotten ==
  InProgram => \A s \in Sig : Noted(s) /\ HasHandler(s) =>
    hook \/ abandoned \/ (scan # 0 /\ (at = "while" \/ m_signal \/ scan <= s))

\* Nor is one handled that did not come in, or was given up since.
NotInvented == at = "scan" /\ scan \in Sig /\ Noted(scan) /\ HasHandler(scan) => scan \in unheard

\* Once the C handlers are done the kernel does what the program asked for last.
\* The process ends by a signal that nobody caught or, "there is a potential to
\* lose a signal" (src/signal.c:204), one that comes while the kernel has
\* forgotten its handler.
StaysCaught == /\ InProgram /\ killed = 0 => way = asked
               /\ killed # 0 => asked[killed] = "default" \/ (resets /\ killed \in Handling)

\* The registry holds the functions of the table, each once.
FuncsOwned ==
  /\ funcs = ({m_handlers[s].fref : s \in Sig}
               \cup (IF at = "installed" THEN {call.old.fref} ELSE {})) \ {NoRef}
  /\ \A s, t \in Sig : HasHandler(s) /\ m_handlers[s].fref = m_handlers[t].fref => s = t
=============================================================================
