------------------------------- MODULE Signal -------------------------------
(***************************************************************************)
(* The POSIX implementation of src/signal.c.  A signal interrupts the      *)
(* program between any two of its steps.  The C handler only notes it and  *)
(* sets a Lua hook; at the next instruction the interpreter calls the      *)
(* hook, luasigbackend(), which calls the Lua handlers.  These are Lua     *)
(* code like any other, save that no hook is called while they run, and    *)
(* may call this module themselves.                                        *)
(*                                                                         *)
(* Below the module is the kernel: what is done about each signal, which   *)
(* are pending and which are blocked.  It keeps the mask of the code it    *)
(* interrupts and restores it when the C handler returns.  The signals are *)
(* those whose default action is to be discarded; one that is sent again   *)
(* while it is pending is merged.                                          *)
(***************************************************************************)
EXTENDS Naturals, Sequences, FiniteSets

CONSTANTS Last,          \* signals are numbered from 1 to Last
          Fixed,         \* signals that cannot be caught or ignored, as kill
          Sets,          \* sets of signals the program uses
          Options,       \* the sets of flags and the like it gives to catch()
          Ref, NoRef,    \* references to functions; LUA_NOREF
          MaxSent,       \* bound: how many signals are sent
          MaxLeaked      \* bound: how many references catch() leaks

Sig == 1 .. Last

\* catch() takes a handler or none, a set of signals to block and flags.
Option == [fn : BOOLEAN, set : SUBSET Sig, nodefer : BOOLEAN, reset : BOOLEAN]

ASSUME SignalAssumption == /\ Last \in Nat
                           /\ Fixed \subseteq Sig
                           /\ Sets \subseteq SUBSET Sig
                           /\ Options \subseteq Option
                           /\ NoRef \notin Ref
                           /\ MaxSent \in Nat /\ MaxLeaked \in Nat
                           /\ IsFiniteSet(Ref)
                           /\ Cardinality(Ref) > Cardinality(Sig \ Fixed) + MaxLeaked

VARIABLES action, pending, mask,      \* the kernel's
          m_signal, m_handlers, hook, \* the module's; hook: luasigbackend is set
          refs,                       \* references held in the Lua registry
          leaked,                     \* those among them that catch() lost when it raised an error
          frames,                     \* the C handlers that are running, outermost first
          at, scan,                   \* the interrupted program: where it is, and
                                      \* luasigbackend's i, 0 outside of it
          call,                       \* the call of this module in progress
          sent,                       \* how many signals were sent
          news,                       \* signals noted that nobody was told of
          abandoned                   \* an error left luasigbackend early

kernelVars == <<action, pending, mask>>
noteVars   == <<m_signal, hook>>
placeVars  == <<at, scan, call>>
pastVars   == <<news, abandoned>>
refVars    == <<refs, leaked>>
vars == <<kernelVars, noteVars, m_handlers, refVars, frames, placeVars, sent, pastVars>>

Action == [kind : {"default", "ignore", "catch"}, mask : SUBSET Sig,
           nodefer : BOOLEAN, reset : BOOLEAN]
Plain(kind) == [kind |-> kind, mask |-> {}, nodefer |-> FALSE, reset |-> FALSE]

Entry == [fref : Ref \cup {NoRef}, triggered : BOOLEAN, blocked : SUBSET Sig]
Unused == [fref |-> NoRef, triggered |-> FALSE, blocked |-> {}]

NoCall == [op |-> "none"]
Calls == [op : {"mask"}, how : {"block", "unblock", "set"}, set : SUBSET Sig]
         \cup [op : {"suspend"}, set : SUBSET Sig, saved : SUBSET Sig]
         \cup [op : {"catch"}, sig : Sig, option : Option, old : Entry]
         \cup [op : {"ignore", "default", "caught"}, todo : SUBSET Sig]
         \cup {NoCall}

TypeOK == /\ action \in [Sig -> Action]
          /\ pending \subseteq Sig
          /\ mask \subseteq Sig
          /\ m_signal \in BOOLEAN
          /\ hook \in BOOLEAN
          /\ m_handlers \in [Sig -> Entry]
          /\ refs \subseteq Ref /\ leaked \subseteq Ref
          /\ frames \in Seq([sig : Sig, at : {"hook", "note", "block", "return"},
                             saved : SUBSET Sig])
          /\ at \in {"lua", "unhook", "while", "zero", "scan", "unblock", "call", "installed",
                     "clear", "waiting"}
          /\ scan \in 0 .. Last + 1
          /\ call \in Calls
          /\ sent \in 0 .. MaxSent
          /\ news \subseteq Sig
          /\ abandoned \in BOOLEAN

Init == /\ action = [s \in Sig |-> Plain("default")]
        /\ pending = {}
        /\ mask = {}
        /\ m_signal = FALSE
        /\ hook = FALSE
        /\ m_handlers = [s \in Sig |-> Unused]
        /\ refs = {} /\ leaked = {}
        /\ frames = << >>
        /\ at = "lua"
        /\ scan = 0
        /\ call = NoCall
        /\ sent = 0
        /\ news = {}
        /\ abandoned = FALSE
-----------------------------------------------------------------------------
(* The kernel, and the C handlers.                                          *)

\* raise() and kill(), by the program or another, whatever this one is doing.
Send(s) == /\ sent < MaxSent
           /\ s \notin Fixed
           /\ sent' = sent + 1
           /\ pending' = pending \cup {s}
           /\ UNCHANGED <<action, mask, noteVars, m_handlers, refVars, frames, placeVars, pastVars>>

Discard(s) == /\ s \in pending \ mask
              /\ action[s].kind # "catch"
              /\ pending' = pending \ {s}
              /\ UNCHANGED <<action, mask, noteVars, m_handlers, refVars, frames, placeVars,
                             sent, pastVars>>

\* The program, or the C handler that is running, is interrupted.  A signal
\* ends sigsuspend(), whose own mask is not restored but the one before it.
Deliver(s) ==
  /\ s \in pending \ mask
  /\ action[s].kind = "catch"
  /\ pending' = pending \ {s}
  /\ action' = IF action[s].reset THEN [action EXCEPT ![s] = Plain("default")] ELSE action
  /\ mask' = mask \cup action[s].mask \cup (IF action[s].nodefer THEN {} ELSE {s})
  /\ frames' = Append(frames, [sig |-> s, at |-> "hook",
                               saved |-> IF at = "waiting" THEN call.saved ELSE mask])
  /\ IF at = "waiting" THEN at' = "lua" /\ call' = NoCall ELSE UNCHANGED <<at, call>>
  /\ UNCHANGED <<noteVars, m_handlers, refVars, scan, sent, pastVars>>

top == frames[Len(frames)]
GoOn(label) == frames' = [frames EXCEPT ![Len(frames)].at = label]

\* "If not already handling signals [...] set one": only outside of the backend.
HookOutside == hook' = (hook \/ scan = 0)

HookAlways == hook' = TRUE

\* signal_handler() and signal_action().
SetHook == /\ top.at = "hook"
           /\ HookAlways
           /\ GoOn("note")
           /\ UNCHANGED <<kernelVars, m_signal, m_handlers, refVars, placeVars, sent, pastVars>>

Note == /\ top.at = "note"
        /\ m_signal' = TRUE
        /\ m_handlers' = [m_handlers EXCEPT ![top.sig].triggered = TRUE]
        /\ news' = news \cup {top.sig}
        /\ abandoned' = FALSE
        /\ GoOn("block")
        /\ UNCHANGED <<kernelVars, hook, refVars, placeVars, sent>>

\* sigprocmask() changes the mask of the C handler.
Block == /\ top.at = "block"
         /\ mask' = mask \cup m_handlers[top.sig].blocked
         /\ GoOn("return")
         /\ UNCHANGED <<action, pending, noteVars, m_handlers, refVars, placeVars, sent, pastVars>>

Return == /\ top.at = "return"
          /\ mask' = top.saved
          /\ frames' = SubSeq(frames, 1, Len(frames) - 1)
          /\ UNCHANGED <<action, pending, noteVars, m_handlers, refVars, placeVars, sent, pastVars>>

HandlerStep == frames # << >> /\ (SetHook \/ Note \/ Block \/ Return)
-----------------------------------------------------------------------------
(* luasigbackend().                                                         *)

InProgram == frames = << >>
Goto(label) == at' = label
Lua == InProgram /\ at = "lua"

\* The interpreter calls the hook before the next instruction; not while a
\* hook is running.
RunHook == /\ Lua /\ hook /\ scan = 0
           /\ Goto("unhook")
           /\ scan' = 1
           /\ UNCHANGED <<kernelVars, noteVars, m_handlers, refVars, frames, call, sent, pastVars>>

Unhook == /\ InProgram /\ at = "unhook"
          /\ hook' = FALSE
          /\ Goto("while")
          /\ UNCHANGED <<kernelVars, m_signal, m_handlers, refVars, frames, scan, call, sent, pastVars>>

While == /\ InProgram /\ at = "while"
         /\ \/ m_signal /\ Goto("zero") /\ UNCHANGED scan
            \/ ~ m_signal /\ Goto("lua") /\ scan' = 0
         /\ UNCHANGED <<kernelVars, noteVars, m_handlers, refVars, frames, call, sent, pastVars>>

Zero == /\ InProgram /\ at = "zero"
        /\ m_signal' = FALSE
        /\ scan' = 1
        /\ Goto("scan")
        /\ UNCHANGED <<kernelVars, hook, m_handlers, refVars, frames, call, sent, pastVars>>

HasHandler(s) == m_handlers[s].fref # NoRef
Noted(s) == m_handlers[s].triggered
Untrigger(s) == m_handlers' = [m_handlers EXCEPT ![s].triggered = FALSE]

LeaveTriggered(s) == UNCHANGED m_handlers

ClearTriggered(s) == Untrigger(s)

\* The next signal that was noted and has a Lua handler, which is called.
CallHandler == /\ InProgram /\ at = "scan" /\ scan \in Sig
               /\ Noted(scan) /\ HasHandler(scan)
               /\ ClearTriggered(scan)
               /\ news' = news \ {scan}
               /\ Goto("lua")
               /\ UNCHANGED <<kernelVars, noteVars, refVars, frames, scan, call, sent, abandoned>>

SkipSignal == /\ InProgram /\ at = "scan" /\ scan \in Sig
              /\ ~ (Noted(scan) /\ HasHandler(scan))
              /\ scan' = scan + 1
              /\ UNCHANGED <<kernelVars, noteVars, m_handlers, refVars, frames, at, call, sent, pastVars>>

\* m_signal cleared after the scan and not before it.
ForgetMeanwhile == m_signal' = FALSE

KeepMeanwhile == UNCHANGED m_signal

EndScan == /\ InProgram /\ at = "scan" /\ scan > Last
           /\ KeepMeanwhile
           /\ Goto("while")
           /\ UNCHANGED <<kernelVars, hook, m_handlers, refVars, frames, scan, call, sent, pastVars>>

\* The Lua handler returns.
HandlerReturns == /\ Lua /\ scan # 0
                  /\ Goto("unblock")
                  /\ UNCHANGED <<kernelVars, noteVars, m_handlers, refVars, frames, scan, call,
                                 sent, pastVars>>

Unblock == /\ InProgram /\ at = "unblock"
           /\ mask' = mask \ m_handlers[scan].blocked
           /\ scan' = scan + 1
           /\ Goto("scan")
           /\ UNCHANGED <<action, pending, noteVars, m_handlers, refVars, frames, call, sent, pastVars>>

\* It calls error(): luasigbackend() is left, up to the program's pcall().
HandlerFails == /\ Lua /\ scan # 0
                /\ scan' = 0
                /\ abandoned' = ~ m_signal
                /\ UNCHANGED <<kernelVars, noteVars, m_handlers, refVars, frames, at, call, sent, news>>

Backend == \/ RunHook \/ Unhook \/ While \/ Zero
           \/ CallHandler \/ SkipSignal \/ EndScan \/ Unblock
-----------------------------------------------------------------------------
(* What the program, and its Lua handlers, may call.                        *)

Begin(c) == /\ Lua
            /\ hook => scan # 0
            /\ call' = c
            /\ Goto("call")
            /\ UNCHANGED <<kernelVars, noteVars, m_handlers, refVars, frames, scan, sent, pastVars>>

Doing(ops, label) == InProgram /\ at = label /\ call.op \in ops
Finish == at' = "lua" /\ call' = NoCall

BeginCall ==
  \/ \E how \in {"block", "unblock", "set"}, set \in Sets :
        Begin([op |-> "mask", how |-> how, set |-> set])
  \/ \E set \in Sets : Begin([op |-> "suspend", set |-> set, saved |-> {}])
  \/ \E s \in Sig, option \in Options :
        Begin([op |-> "catch", sig |-> s, option |-> option, old |-> Unused])
  \/ \E op \in {"ignore", "default", "caught"}, todo \in Sets \ {{}} :
        Begin([op |-> op, todo |-> todo])

\* block(), allow() and mask().
Mask == /\ Doing({"mask"}, "call")
        /\ mask' = (CASE call.how = "block" -> mask \cup call.set
                      [] call.how = "unblock" -> mask \ call.set
                      [] call.how = "set" -> call.set) \ Fixed
        /\ Finish
        /\ UNCHANGED <<action, pending, noteVars, m_handlers, refVars, frames, scan, sent, pastVars>>

Suspend == /\ Doing({"suspend"}, "call")
           /\ mask' = call.set \ Fixed
           /\ call' = [call EXCEPT !.saved = mask]
           /\ Goto("waiting")
           /\ UNCHANGED <<action, pending, noteVars, m_handlers, refVars, frames, scan, sent, pastVars>>

\* Another C handler for the signal, or none, which discards it if it is pending.
SetAction(s, how) ==
  IF s \in Fixed THEN UNCHANGED <<action, pending>>
  ELSE /\ action' = [action EXCEPT ![s] = how]
       /\ pending' = IF how.kind = "catch" THEN pending ELSE pending \ {s}

RefEven(r) == refs \cup {r}

\* luaL_ref(), if there is a function.
RefTaken(r) == refs \cup ({r} \ {NoRef})

NewEntry(r) ==
  [fref |-> r, triggered |-> FALSE,
   blocked |-> call.option.set \cup (IF call.option.nodefer THEN {} ELSE {call.sig})]

FunctionRef == IF call.option.fn THEN {CHOOSE r \in Ref : r \notin refs} ELSE {NoRef}

\* catch() replaces the entry of the signal before it calls sigaction() ...
Install ==
  /\ Doing({"catch"}, "call")
  /\ \E r \in FunctionRef :
        /\ m_handlers' = [m_handlers EXCEPT ![call.sig] = NewEntry(r)]
        /\ refs' = RefTaken(r)
  /\ call' = [call EXCEPT !.old = m_handlers[call.sig]]
  /\ news' = news \ {call.sig}
  /\ Goto("installed")
  /\ UNCHANGED <<kernelVars, noteVars, leaked, frames, scan, sent, abandoned>>

\* ... unless it raises an error for a flag it does not know, or for a userdata
\* that is no set of signals.  It has taken the reference by then, and loses it.
CatchRaises ==
  /\ Doing({"catch"}, "call")
  /\ Cardinality(leaked) < MaxLeaked
  /\ \E r \in FunctionRef :
        /\ refs' = RefTaken(r)
        /\ leaked' = leaked \cup ({r} \ {NoRef})
  /\ Finish
  /\ UNCHANGED <<kernelVars, noteVars, m_handlers, frames, scan, sent, pastVars>>

UnrefOld == refs \ {call.old.fref}

\* Once sigaction() was called, the old entry is done with, or put back.
CatchDone ==
  /\ Doing({"catch"}, "installed")
  /\ call.sig \notin Fixed
  /\ SetAction(call.sig, [kind |-> "catch", mask |-> call.option.set,
                          nodefer |-> call.option.nodefer, reset |-> call.option.reset])
  /\ refs' = UnrefOld
  /\ Finish
  /\ UNCHANGED <<mask, noteVars, leaked, m_handlers, frames, scan, sent, pastVars>>

CatchFails ==
  /\ Doing({"catch"}, "installed")
  /\ call.sig \in Fixed
  /\ m_handlers' = [m_handlers EXCEPT ![call.sig] = call.old]
  /\ refs' = refs \ {m_handlers[call.sig].fref}
  /\ Finish
  /\ UNCHANGED <<kernelVars, noteVars, leaked, frames, scan, sent, pastVars>>

\* ignore(), default() and caught() see to one signal after the other.
First == CHOOSE s \in call.todo : \A t \in call.todo : s <= t
NextSignal == IF call.todo = {First} THEN Finish
              ELSE Goto("call") /\ call' = [call EXCEPT !.todo = @ \ {First}]

GiveUp ==
  /\ Doing({"ignore", "default"}, "call")
  /\ SetAction(First, Plain(call.op))
  /\ Goto("clear")
  /\ UNCHANGED <<mask, noteVars, m_handlers, refVars, frames, scan, call, sent, pastVars>>

StillReferred(e) == [e EXCEPT !.triggered = FALSE, !.blocked = {}]

Cleared(e) == Unused

ClearEntry ==
  /\ Doing({"ignore", "default"}, "clear")
  /\ refs' = refs \ {m_handlers[First].fref}
  /\ m_handlers' = [m_handlers EXCEPT ![First] = Cleared(@)]
  /\ news' = news \ {First}
  /\ NextSignal
  /\ UNCHANGED <<kernelVars, noteVars, leaked, frames, scan, sent, abandoned>>

\* A signal that is noted between the two steps is lost.
ReadCaught ==
  /\ Doing({"caught"}, "call")
  /\ news' = IF Noted(First) THEN news \ {First} ELSE news
  /\ Goto("clear")
  /\ UNCHANGED <<kernelVars, noteVars, m_handlers, refVars, frames, scan, call, sent, abandoned>>

ClearCaught ==
  /\ Doing({"caught"}, "clear")
  /\ Untrigger(First)
  /\ NextSignal
  /\ UNCHANGED <<kernelVars, noteVars, refVars, frames, scan, sent, pastVars>>

Call == \/ Mask \/ Suspend \/ Install \/ CatchRaises \/ CatchDone \/ CatchFails
        \/ GiveUp \/ ClearEntry \/ ReadCaught \/ ClearCaught

Next == \/ \E s \in Sig : Send(s) \/ Discard(s) \/ Deliver(s)
        \/ HandlerStep
        \/ Backend \/ HandlerReturns \/ HandlerFails
        \/ BeginCall \/ Call

Spec == Init /\ [][Next]_vars

\* The program goes on, and so does a C handler that has interrupted it.  It is
\* not interrupted for ever, since MaxSent bounds the signals.  A Lua handler
\* returns at some time, or fails, however often it calls this module.
Fairness == /\ WF_vars(HandlerStep)
            /\ WF_vars(Backend \/ Call)
            /\ SF_vars(HandlerReturns \/ HandlerFails)

FairSpec == Spec /\ Fairness
-----------------------------------------------------------------------------
\* The backend will still come to signal s.
Ahead(s) == scan # 0 /\ (at \in {"unhook", "while", "zero"} \/ m_signal \/ scan <= s)

\* A signal that was noted and has a Lua handler is not forgotten, at whichever
\* step of luasigbackend(), or of a call, it came in: the hook is set again or
\* the backend will come to it.  Only when a Lua handler fails are the signals
\* behind it left for the next time one comes in.
NoneForgotten ==
  InProgram => \A s \in Sig : Noted(s) /\ HasHandler(s) =>
                  hook \/ Ahead(s) \/ abandoned

\* The registry holds the functions of the table, each once, those of a catch()
\* that is not done, and those that a catch() which raised an error has leaked;
\* no other way through the module leaks one.  None is given back twice, and no
\* entry is left with a reference that a later catch() is given again.
RefsOwned ==
  /\ refs \ leaked = ({m_handlers[s].fref : s \in Sig}
                      \cup (IF at = "installed" THEN {call.old.fref} ELSE {})) \ {NoRef}
  /\ leaked \subseteq refs
  /\ \A s, t \in Sig : HasHandler(s) /\ m_handlers[s].fref = m_handlers[t].fref => s = t

\* A Lua handler is called only for a signal that came in since it was last
\* called, or caught() told of it, and since the signal was caught; caught()
\* tells of such signals only.
NoSpuriousCall ==
  /\ at = "scan" /\ scan \in Sig /\ Noted(scan) /\ HasHandler(scan) => scan \in news
  /\ call.op = "caught" /\ at = "call" /\ Noted(First) => First \in news

\* The signal is handled in the end, unless the program gives the handler up,
\* an earlier handler fails, or sigsuspend() is called at the last moment: a
\* signal noted between the call and sigsuspend() does not end it.
Handled ==
  \A s \in Sig :
     Noted(s) /\ HasHandler(s) ~> ~ (Noted(s) /\ HasHandler(s)) \/ abandoned \/ at = "waiting"

\* "So, in the handler, we block the set of signals to ensure the behavior of
\* blocked signals during the handler": when a Lua handler is called, the
\* signals it is to be protected from are blocked.
BlockedDuringHandler ==
  [][scan # 0 /\ at = "scan" /\ at' = "lua" => m_handlers[scan].blocked \subseteq mask]_vars
=============================================================================
